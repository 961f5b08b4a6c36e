SPECIFICATION Spec
CONSTANTS
    Sizes = {1}
    Threshold = 3
    MinRetain = 1
    SaveInterval = 2
    MaxRuns = 3
    MaxSteps = 2
    ToolIterations = 2
    MaxIterations = 1
    MaxPlan = 2
    MaxCalls = 2
    MaxCrashes = 1
INVARIANTS
    CallsAnswered
    AnswerHonest
    RoundsWhole
    ForgetsIntoSummary
    HistoryBounded
PROPERTIES
    RunEnds
CHECK_DEADLOCK FALSE
