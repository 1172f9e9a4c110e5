\* Two processes with the three rounds of the code; either may die anywhere.
SPECIFICATION LFFairSpec
CONSTANTS
    Hosts = {h1, h2}
    Calls = {heartbeat, updateRuntime}
    Nobody = nobody
    MaxAttempts = 3
CHECK_DEADLOCK FALSE
INVARIANTS
    ActiveWasHeld
PROPERTIES
    SettledOwnerStays
    LoneHostAcquires
