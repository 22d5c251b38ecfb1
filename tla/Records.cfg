SPECIFICATION Spec
CONSTANTS
    c1 = c1
    c2 = c2
    a = a
    b = b
    bridge = bridge
    n1 = n1
    n2 = n2
    x = x
    h1 = h1
    h2 = h2
    Nothing = Nothing
    NoName = NoName
    Bridge = Bridge
    Default = bridge
    Predefined = {Bridge}
    Containers <- OneContainer
    Names <- TwoNames
    Networks <- UserNetwork
    NetNames <- BridgeOrUser
    Handlers <- TwoHandlers
    Wanted <- NoneOrUser
    Ops = {"create", "rename", "delete", "update", "netdelete", "prune", "connect", "disconnect"}
SYMMETRY HandlerSymmetry
INVARIANTS BridgeResolves  NetworksExist
CHECK_DEADLOCK FALSE
