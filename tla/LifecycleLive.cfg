SPECIFICATION LiveSpec
CONSTANTS
    Clients = {c1}
    Callers = {s1, s2}
    Reloaders = {m1}
    Starter = starter
    MaxGen = 2
    Probers = 1
    EarlyShutdown = TRUE
    ServeMayFail = TRUE
CHECK_DEADLOCK FALSE
INVARIANTS
    RequestsCounted
    OwnedUntilCancelled
PROPERTIES
    
    ShutdownReturns
    ReplacedRuntimeRetired
