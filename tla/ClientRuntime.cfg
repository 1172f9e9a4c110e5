\* Two starts and two stops of one object, each of up to four processes.
SPECIFICATION FairSpec
CONSTANTS
    MaxStarts = 2
    MaxStops = 2
CHECK_DEADLOCK FALSE
INVARIANTS
    NoProcessIsLost
    StopIsFinal
PROPERTIES
    NothingRevives
    CallsSettle
