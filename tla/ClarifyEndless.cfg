SPECIFICATION Spec
CONSTANTS
    Intents = {"simple_query", "numeric_diff", "boundary_edge"}
    ConfLevels = {20, 40, 50, 90}
    MaxMessages = 6
\* the user stops after MaxMessages
CHECK_DEADLOCK FALSE
INVARIANTS QuestionsBounded
