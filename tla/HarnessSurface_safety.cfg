\* The startup task beside one command that opens or closes the window, two
\* generations.  Refresh and restart run in HarnessSurface_live.cfg.
SPECIFICATION Spec
CONSTANTS
    Workers = {w1}
    Commands = {"startup", "open", "close"}
    Startup = startup
    MaxEpoch = 2
    MaxRequests = 1
CHECK_DEADLOCK FALSE
INVARIANTS
    VisibleIsNotOlder
    LoadIsWatched
