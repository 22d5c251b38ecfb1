SPECIFICATION FairSpec
CONSTANTS
    o1 = o1
    o2 = o2
    p1 = p1
    p2 = p2
    None = None
    Observers <- TwoObservers
    Publishers <- TwoPublishers
    MaxEvents <- TwoAndOne
    About <- ContainerAndImage
    Filters <- TypeAndContainer
INVARIANTS InOrder
PROPERTIES PublishReachesAll HeldUpByLeaversOnly
CHECK_DEADLOCK FALSE
