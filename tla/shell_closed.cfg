SPECIFICATION Spec
CONSTANTS
    NFD = 8
    PipeCap = 1
    Commands <- PipelineLines
    MaxLines = 3
    ClosesNumbered = TRUE
INVARIANTS StagesConnected
