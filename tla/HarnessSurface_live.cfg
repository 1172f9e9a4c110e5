\* Two tasks that need the slot.  Fair tasks, timers and exit; the WebView may
\* stay silent and the Runtime may never come up.
SPECIFICATION FairSpec
CONSTANTS
    Workers = {w1, w2}
    Commands = {"refresh", "restart"}
    Startup = startup
    MaxEpoch = 1
    MaxRequests = 2
CHECK_DEADLOCK FALSE
PROPERTY SurfaceSettles
