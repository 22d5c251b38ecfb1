SPECIFICATION Spec
CONSTANTS
    t1 = t1
    f1 = f1
    a1 = a1
    r1 = r1
    r2 = r2
    Tunnels <- OneTunnel
    Followers <- OneFollower
    Sessions <- OneSession
    Requests <- TwoRequests
INVARIANTS NotifiedUnlessMixed SomeoneFinishes SignalsFinish SignalledEnd
CHECK_DEADLOCK FALSE
