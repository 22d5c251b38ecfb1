SPECIFICATION Spec
CONSTANTS
    c1 = c1
    c2 = c2
    n1 = n1
    h1 = h1
    h2 = h2
    NoContainer = NoContainer
    Containers <- OneContainer
    Names <- OneName
    Aliases <- NoAlias
    Files <- NoFiles
    Setup = {}
    Ports <- OneContainer
    Handlers <- TwoHandlers
    Ops = {"start", "restart", "stop", "kill", "delete", "inspect"}
    PortForward = FALSE
    ReverseProxy = TRUE
    Reaping = FALSE
    MaxFaults = 1
SYMMETRY HandlerSymmetry
INVARIANTS FlagsAgree StoppedMeansDown RemovedMeansGone
 
CHECK_DEADLOCK FALSE
