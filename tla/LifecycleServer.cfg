SPECIFICATION Spec
CONSTANTS
    Clients = {c1, c2}
    Callers = {s1, s2}
    Reloaders = {m1}
    Starter = starter
    MaxGen = 4
    Probers = 1
    EarlyShutdown = FALSE
    ServeMayFail = FALSE
SYMMETRY Symmetry
CHECK_DEADLOCK FALSE
INVARIANTS
    TypeOK
    HeldRuntimeAlive
    OwnedUntilCancelled
    OneShutdownOwner
    ShutdownLeavesNothing
    SameShutdownResult
PROPERTIES
    NoAcquireAfterCancel
    NoInstallAfterShutdown
    ImplementsGenerations
    ImplementsWorkers
