SPECIFICATION Spec
CONSTANTS
    i1 = i1
    i2 = i2
    NoInstance = NoInstance
    Instances <- TwoInstances
    Lock = TRUE
    Pruners = {i1}
    Reapers = {i2}
INVARIANTS OnlyLateSurvive OneActiveInstance OrphansAreSwept ElectionEnds
CHECK_DEADLOCK FALSE
