SPECIFICATION MemorySpec
CONSTANTS
    Requests = {r1, r2, r3}
    Bodies = {b1}
    TopSkills = 3
    MinUses = 5
    MaxSkills = 2
    MaxQueries = 6
    Writers = {w1, w2}
    Evolvers = {e1, e2}
    CaseQueries = {q1, q2}
    CaseIntents = {"numeric_diff"}
    Likeness = 30
    Recall = 2
    MinCluster = 1
    MaxJobs = 3
SYMMETRY Symmetry
INVARIANTS
    CountsAreReal
    TwinsOverlapped
    ArchivedOnEvidence
    ReusedOnlyInParallel
    
CHECK_DEADLOCK FALSE
