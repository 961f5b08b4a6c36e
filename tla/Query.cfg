SPECIFICATION Spec
CONSTANTS
    Intents <- MCIntents
    ConfLevels <- MCConfLevels
    StepLimits <- MCStepLimits
    MAX_ACT_ITER = 6
    max_retries = 3
    REACT_MAX_STEPS = 4
    MaxFanout = 2
    MaxTurn = 3
    Toolsets <- MCToolsets
\* a query ends, nothing restarts it
CHECK_DEADLOCK FALSE
INVARIANTS
    AttemptsBounded
    OkIsEarned
    NoEarlyGiveUp
    CorrectionReachesAct
    WithinRecursionLimit
    LearnsOnlyFromSuccess
PROPERTIES
    QueryTerminates
    ImplementsLifecycle
