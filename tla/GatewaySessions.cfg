\* Three connections against a limit of two, one pair request per rate window.
SPECIFICATION FairSpec
CONSTANTS
    Conns = {c1, c2, c3}
    NoConn = NoConn
    MaxActive = 2
    MaxAttempts = 1
    MaxCodes = 2
    MaxSessions = 2
INVARIANTS
    ActiveIsExact
    StoppedIsQuiet
    SessionsAreSound
PROPERTY StopCompletes
