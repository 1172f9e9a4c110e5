\* Two commands of the host while the page refreshes.
SPECIFICATION PageSpec
CONSTANTS
    Requests <- NativeRequests
    MaxCalls = 2
    MaxEpoch = 0
    Window = 2
    Capacity = 1
    MaxAsks = 1
CHECK_DEADLOCK FALSE
INVARIANT QuietPageIsCurrent
PROPERTY AskedRefreshShows
