SPECIFICATION PipelineSpec
CONSTANTS
    MaxIterations = 2
    Scenarios <- ScenariosDef
    MaxExecutions = 2
    MaxRounds = 3
    VmstatColumns = 18
CHECK_DEADLOCK FALSE
INVARIANTS
    PipelineTypeOK
    ReportMatchesDataset
    
    AbortHasCause
PROPERTIES
    Reproducible
