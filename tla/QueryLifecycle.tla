---------------------------- MODULE QueryLifecycle ----------------------------
(***************************************************************************)
(* What the query graph promises its caller: a query is attempted a        *)
(* bounded number of times and is closed exactly once, with one verdict,   *)
(* or is aborted by an exception.  A data verdict needs an attempt, a      *)
(* question back to the user comes before any attempt, and nothing is      *)
(* attempted once a verdict stands.                                        *)
(***************************************************************************)
EXTENDS Naturals

CONSTANT MaxAttempts   (* tool rounds one query may use *)

VARIABLES phase, attempts, verdict

lifecycleVars == <<phase, attempts, verdict>>

AskVerdicts  == {"rejected", "clarify", "awaiting_clarification"}
DataVerdicts == {"ok", "needs_review", "needs_retry"}
FailVerdicts == {"error", "budget_exceeded"}

Init ==
    /\ phase = "open"
    /\ attempts = 0
    /\ verdict = "none"

Attempt ==
    /\ phase = "open"
    /\ attempts < MaxAttempts
    /\ attempts' = attempts + 1
    /\ UNCHANGED <<phase, verdict>>

Close(verdicts) ==
    /\ phase = "open"
    /\ phase' = "closed"
    /\ verdict' \in verdicts
    /\ UNCHANGED attempts

Ask == attempts = 0 /\ Close(AskVerdicts)

Judge == attempts > 0 /\ Close(DataVerdicts)

Fail == Close(FailVerdicts)

Abort ==
    /\ phase = "open"
    /\ phase' = "aborted"
    /\ UNCHANGED <<attempts, verdict>>

Next == Attempt \/ Ask \/ Judge \/ Fail \/ Abort

SafeSpec == Init /\ [][Next]_lifecycleVars

Spec == SafeSpec /\ WF_lifecycleVars(Next)
==============================================================================
