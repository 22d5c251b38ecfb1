SPECIFICATION FairSpec
CONSTANTS
    c1 = c1
    c2 = c2
    n1 = n1
    h1 = h1
    h2 = h2
    NoContainer = NoContainer
    Containers <- OneContainer
    Names <- OneName
    Aliases <- OneAlias
    Files <- VolumeFile
    Setup <- OneContainer
    Ports = {}
    Handlers <- OneHandler
    Ops = {"attach", "delete"}
    PortForward = FALSE
    ReverseProxy = TRUE
    Reaping = TRUE
    MaxFaults = 1
INVARIANT RemovedMeansGone
PROPERTIES LeftoversAreSwept 
CHECK_DEADLOCK FALSE
