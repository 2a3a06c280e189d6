SPECIFICATION Spec
CONSTANTS
    Clients = {c1}
    Callers = {s1}
    Reloaders = {m1}
    Starter = starter
    MaxGen = 2
    Probers = 1
    EarlyShutdown = TRUE
    ServeMayFail = FALSE
CHECK_DEADLOCK FALSE
INVARIANTS
    NotReadyOnceShutdown
