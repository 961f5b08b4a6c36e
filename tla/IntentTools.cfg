SPECIFICATION ReconAgentSpec
CONSTANTS
    Agents = {g1}
    Skills = {k1}
    Questions = {"reconciliation", "adhoc_query", "schema_lookup", "complex_query", "clarify", "other"}
    KeepLast = 1
    MaxRuns = 2
    MaxExits = 0
INVARIANTS IntentHasItsTools
CHECK_DEADLOCK FALSE
