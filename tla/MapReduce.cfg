SPECIFICATION FairSpec
CONSTANTS
    Item = {i1, i2}
    MaxWorkers = 2
    MaxOutputs = 3
    None = None
INVARIANTS
    EndMeansAll
    CancelIsReported
    WithinWorkers
PROPERTIES
    CallerAnswers
    NobodyIsLeft
CHECK_DEADLOCK FALSE
