SPECIFICATION ProberLiveSpec
CONSTANTS
    MaxGen = 2
    Upstreams <- UpstreamsDef
    Incarnations = 2
    Flaky = {1}
CHECK_DEADLOCK FALSE
INVARIANTS
    ProberTypeOK
    RestartSafe
PROPERTIES
    ImplementsWorkers
    WorkersLeave
    KeepsProbing
    GaugeCatchesUp
