SPECIFICATION ToolsSpec
CONSTANTS
    Callers = {a1, a2}
    MaxWrites = 2
    MaxClock = 1
    Second = 1
    MaxFaults = 1
    MaxTasks = 2
    MaxEntries = 2
    MaxSeconds = 1
    MaxRestarts = 1
    Slots = {s1, s2}
    MaxDepth = 2
    MaxCalls = 4
    Tools = {Read, Write, Bash, Task}
    TaskTool = Task
    Registers = {Task}
    ReadOnlyTools = {Read}
    DeniedTools = {Bash}
    Agents = {g1, g2}
    Skills = {k1, k2}
    Questions = {"schema_lookup", "TypeError"}
    KeepLast = 1
    MaxRuns = 2
    MaxExits = 1
INVARIANTS
    LostOnlyInParallel
    Recoverable
    LogAcknowledged
    VerdictIsTrue
    FilterHolds
    NothingLost
    FilesAreHistory
CHECK_DEADLOCK FALSE
