SPECIFICATION FairSpec
CONSTANTS
    e1 = e1
    e2 = e2
    r1 = r1
    r2 = r2
    c1 = c1
    None = None
    Execs <- TwoExecs
    Runs <- TwoRuns
    Containers <- OneContainer
    Codes = {1}
    Malformed <- OneMalformed
INVARIANTS ExitCodeBeforeEnd
PROPERTY ReapedForGood
CHECK_DEADLOCK FALSE
