\* Two worker threads, two generations, two launch attempts each; the drain
\* deadline does not fire.
SPECIFICATION Spec
CONSTANTS
    Workers = {w1, w2}
    Commands = {"start", "stop", "restart", "status"}
    Supervisor = sup
    MaxGen = 2
    MaxAttempts = 2
    DeadlineMayFire = FALSE
SYMMETRY WorkerSymmetry
INVARIANTS
    LeaseCoherent
    EveryChildOwned
    ExitSurvivorsExplained
PROPERTIES
    LeaseOnlyRevokedByStop
    LeaseServiceSafety
