SPECIFICATION ServicesSpec
CONSTANTS
    Users = {u1, u2}
    None = None
    MaxQuestions = 2
    MaxMoves = 2
    MaxDeletes = 1
    Intents = {"simple_query", "numeric_diff", "boundary_edge"}
    ConfLevels = {20, 40, 50, 90}
    MaxMessages = 6
    Instances = {i1, i2, i3}
    Ctxs = {x1}
    Agents = {b, c}
    Builtin = {b}
    Names = {n, m}
    Admin = n
    Docs = {d}
    Tenants = {t}
    MaxCalls = 3
    MaxRestarts = 1
    Threads = {t1, t2}
    FailureThreshold = 3
    MaxCount = 6
    Callers = {c1, c2}
    Fingerprints = {f1, f2}
    RetryMax = 3
    MaxAnswers = 3
    MaxLosses = 1
INVARIANTS
    OwnContextKept
    RunningIsFound
    ConfirmedIsKept
    TenantsApart
    FiledWhereAsked
    AloneIsSerial
    RepeatsItself
PROPERTIES
    ContextLeaves
    ReplyStaysInDialogue
    InputReturns
    TripsAndRetries
CHECK_DEADLOCK FALSE
