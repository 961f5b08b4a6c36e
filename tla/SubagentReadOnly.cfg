SPECIFICATION Spec
CONSTANTS
    Slots = {s1, s2}
    MaxDepth = 2
    MaxCalls = 4
    Tools = {Read, Write, Bash, Task}
    TaskTool = Task
    Registers = {Task}
    ReadOnlyTools = {Read}
    DeniedTools = {Bash}
INVARIANTS ReadOnlyStaysReadOnly
CHECK_DEADLOCK FALSE
