SPECIFICATION Spec
CONSTANTS
    Sizes = {1}
    Threshold = 3
    MinRetain = 1
    SaveInterval = 2
    MaxRuns = 2
    MaxSteps = 1
    ToolIterations = 1
    MaxIterations = 1
    MaxPlan = 1
    MaxCalls = 1
    MaxCrashes = 0
PROPERTIES
    SecondRunStarts
CHECK_DEADLOCK FALSE
