\* The main thread, one restarting thread and the exit, two generations of each.
SPECIFICATION FairSpec
CONSTANTS
    Main = main
    Restarters = {r1}
    Exit = exit
    NoThread = NoThread
    MaxRuntime = 2
    MaxGateway = 2
INVARIANTS
    EveryServerOwned
    ReadyMeansNewestServer
    NoGatewayAfterDrain
PROPERTIES
    GatewayConverges
