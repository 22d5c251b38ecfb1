SPECIFICATION RequestSpec
CONSTANTS
    c1 = c1
    c2 = c2
    n1 = n1
    h1 = h1
    h2 = h2
    NoContainer = NoContainer
    Containers <- OneContainer
    Names <- OneName
    Aliases <- NoAlias
    Files <- NoFiles
    Setup = {}
    Ports = {}
    Handlers <- TwoHandlers
    Ops = {"restart", "wait"}
    PortForward = FALSE
    ReverseProxy = TRUE
    Reaping = FALSE
    MaxFaults = 0
PROPERTIES RequestsReturn 
CHECK_DEADLOCK FALSE
