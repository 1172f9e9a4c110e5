\* Two calls of three requests (an id reused within the slow lane among them), a
\* window of one id, one place per queue, one Runtime generation.  A slow command
\* may never end.
SPECIFICATION UpdaterSpec
CONSTANTS
    Requests <- MCRequests
    MaxCalls = 2
    MaxEpoch = 1
    Window = 1
    Capacity = 1
    Current <- MCCurrent
    Published <- MCPublished
CHECK_DEADLOCK FALSE
INVARIANTS
    OncePerWindow
    RepeatsAgree
    InstalledIsNewer
PROPERTIES
    FastCallsAnswered
    QuittingEnds
