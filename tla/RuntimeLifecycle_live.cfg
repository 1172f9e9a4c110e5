\* Two racing restarts (each a stop and a start), fair threads, no symmetry (it
\* is unsound for liveness); the drain has no deadline.
SPECIFICATION FairSpec
CONSTANTS
    Workers = {w1, w2}
    Commands = {"restart"}
    Supervisor = sup
    MaxGen = 2
    MaxAttempts = 1
    DeadlineMayFire = FALSE
PROPERTIES
    TransitionSettles
    StrayChildrenEnd
    ShutdownCompletes
