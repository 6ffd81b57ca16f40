CONSTANTS
    NumCPUs = 3
    MaxLines = 4
SPECIFICATION FairSpec
CHECK_DEADLOCK FALSE
INVARIANTS
    EachNumberFactoredOnce
    CountIsExact
    NoOtherLostWakeup
    AssertionsHold
PROPERTIES
    FarmEnds
