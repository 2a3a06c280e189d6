SPECIFICATION TorusSpec
CONSTANTS
    MaxVersion = 4
    MaxEvents = 2
CHECK_DEADLOCK FALSE
INVARIANTS
    TorusTypeOK
    QuietIsCurrent
    GracefulExitIsZero
PROPERTIES
    ChangeIsLoaded
    ProcessEnds
