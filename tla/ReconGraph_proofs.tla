--------------------------- MODULE ReconGraph_proofs ---------------------------
(***************************************************************************)
(* Proofs about ReconGraph: types, the bound on tool rounds and retries,   *)
(* the step budget, the over-budget verdict, and that the graph's safety   *)
(* part implements QueryLifecycle.                                         *)
(***************************************************************************)
EXTENDS ReconGraph, TLAPS

------------------------------------------------------------------------------
(* Lemmas about the routing operators.                                     *)

LEMMA FallbackType ==
    ASSUME NEW llm \in BOOLEAN, NEW c \in Classified(llm)
    PROVE  Fallback(c) \in Classification
<1>1. c \in Classification
  <2>1. "simple_query" \in VALID_INTENTS /\ 40 \in 0..100 /\ 90 \in 0..100
    BY DEF VALID_INTENTS
  <2>2. Intents \subseteq VALID_INTENTS /\ ConfLevels \subseteq 0..100
    BY RoutingAssumption
  <2>3. [intent : Intents, conf : {90}] \subseteq Classification
    BY <2>1, <2>2 DEF Classification
  <2>4. [intent : Intents, conf : ConfLevels] \subseteq Classification
    BY <2>2 DEF Classification
  <2>5. [intent |-> "simple_query", conf |-> 40] \in Classification
    BY <2>1 DEF Classification
  <2> QED BY <2>3, <2>4, <2>5 DEF Classified
<1>2. [intent |-> "simple_query", conf |-> 50] \in Classification
  BY DEF Classification, VALID_INTENTS
<1> QED BY <1>1, <1>2 DEF Fallback

LEMMA RouteTargets ==
    ASSUME NEW c, NEW turn, NEW text
    PROVE  route_decide(c, turn, text) \in {"clarify", "plan", "act"}
BY DEF route_decide

LEMMA ClarifyTargets ==
    ASSUME NEW text, NEW intent
    PROVE  clarify_status(text, intent) \in ClarifyStatus
BY DEF clarify_status, ClarifyStatus

(* What one parallel step reports are observations of this round.          *)
LEMMA ReportedType ==
    ASSUME attempts \in Nat, fanout \in Nat, NEW rs \in RoundResults
    PROVE  /\ Reported(rs) \in Seq(Observation)
           /\ Len(Reported(rs)) = IF rs = <<>> THEN 0 ELSE fanout
           /\ rs # <<>> => fanout > 0
           /\ \A k \in 1..Len(Reported(rs)) : Reported(rs)[k].call[1] = attempts + 1
<1>1. CASE rs = <<>>
  BY <1>1 DEF Reported
<1>2. CASE rs # <<>>
  <2>1. rs \in [1..fanout -> Results]
    BY <1>2 DEF RoundResults
  <2>2. fanout > 0
    <3> SUFFICES ASSUME fanout = 0 PROVE FALSE
      OBVIOUS
    <3> QED BY <1>2, <2>1
  <2>3. Reported(rs) = [k \in 1..fanout |-> [call |-> <<attempts + 1, k>>, res |-> rs[k]]]
    BY <2>1 DEF Reported
  <2>4. \A k \in 1..fanout : [call |-> <<attempts + 1, k>>, res |-> rs[k]] \in Observation
    BY <2>1 DEF Observation
  <2>5. Reported(rs) \in Seq(Observation) /\ Len(Reported(rs)) = fanout
    BY <2>3, <2>4
  <2> QED BY <2>2, <2>3, <2>5, <1>2
<1> QED BY <1>1, <1>2

(* observe_decide loops back only while rounds and retries are left.       *)
LEMMA DecideTargets ==
    ASSUME NEW st, NEW ob, NEW rt
    PROVE  /\ observe_decide(st, ob, rt) \in {"act", "reflect"}
           /\ observe_decide(st, ob, rt) = "act" =>
                /\ ~Exhausted(ob, rt)
                /\ st # "budget_exceeded"
                /\ st = "needs_retry" \/ LastFailed(ob)
BY DEF observe_decide

------------------------------------------------------------------------------
LEMMA TypeInit == Init => TypeOK
<1> SUFFICES ASSUME Init PROVE TypeOK
  OBVIOUS
<1>1. req \in Requests /\ req.turn \in Nat
  BY GraphAssumption DEF Init, Requests
<1>2. route \in [intent : VALID_INTENTS, turn : Nat]
  BY <1>1 DEF Init, VALID_INTENTS
<1>3. obs \in Seq(Observation)
  BY DEF Init
<1>4. learned \in [episodes : Seq({0, 1}), skill : BOOLEAN]
  BY DEF Init
<1> QED BY <1>1, <1>2, <1>3, <1>4 DEF Init, TypeOK, FinalStatus

LEMMA TypeStep == TypeOK /\ [Next]_vars => TypeOK'
<1> SUFFICES ASSUME TypeOK, [Next]_vars PROVE TypeOK'
  OBVIOUS
<1> USE DEF TypeOK
<1>1. CASE BudgetRunsOut
  BY <1>1 DEF BudgetRunsOut, routeVars, loopVars
<1>2. CASE Route
  <2>1. PICK answer \in Classified(req.llm) :
          LET c    == Fallback(answer)
              turn == TurnAfterRoute(c, req.turn)
          IN  /\ route' = [intent |-> c.intent, turn |-> turn]
              /\ pc' = route_decide(c, turn, req.text)
    BY <1>2 DEF Route
  <2>2. Fallback(answer) \in Classification
    BY FallbackType DEF Requests
  <2>3. route' \in [intent : VALID_INTENTS, turn : Nat]
    BY <2>1, <2>2 DEF Classification, TurnAfterRoute, Requests
  <2>4. pc' \in {"clarify", "plan", "act"}
    BY <2>1, RouteTargets
  <2> QED BY <1>2, <2>3, <2>4 DEF Route, Node, CtxStep, loopVars
<1>3. CASE Clarify
  <2>1. status' \in FinalStatus
    BY <1>3, ClarifyTargets DEF Clarify, FinalStatus
  <2>2. route' \in [intent : VALID_INTENTS, turn : Nat]
    BY <1>3 DEF Clarify
  <2>3. ctxSteps' \in Nat
    BY <1>3 DEF Clarify, CtxStep
  <2> QED BY <1>3, <2>1, <2>2, <2>3 DEF Clarify, Node, loopVars
<1>4. CASE Plan
  <2>1. fanout' \in Nat
    BY <1>4, GraphAssumption DEF Plan
  <2> QED BY <1>4, <2>1 DEF Plan, Node, CtxStep, routeVars
<1>5. CASE ActOverBudget
  BY <1>5 DEF ActOverBudget, Node, routeVars, loopVars, FinalStatus
<1>6. CASE ActParallel
  <2>1. PICK rs \in RoundResults :
          /\ obs' = obs \o (obs \o Reported(rs))
          /\ presults' = (presults \/ rs # <<>>)
    BY <1>6 DEF ActParallel
  <2>2. obs' \in Seq(Observation)
    BY <2>1, ReportedType
  <2> QED BY <1>6, <2>1, <2>2 DEF ActParallel, Node, CtxStep, routeVars
<1>7. CASE ActUnknownTool
  BY <1>7 DEF ActUnknownTool, SwitchMode, Node, routeVars, loopVars, FinalStatus
<1>8. CASE ActRaises
  BY <1>8 DEF ActRaises, SwitchMode, Node, routeVars, loopVars
<1>9. CASE ActTool
  <2>1. PICK res \in Results :
          obs' = Append(obs, [call |-> <<attempts + 1, 1>>, res |-> res])
    BY <1>9 DEF ActTool, Results
  <2>2. obs' \in Seq(Observation)
    BY <2>1 DEF Observation
  <2> QED BY <1>9, <2>2 DEF ActTool, SwitchMode, Node, CtxStep, routeVars, loopVars
<1>10. CASE ObserveEmpty
  BY <1>10, DecideTargets DEF ObserveEmpty, Decide, Node, routeVars, loopVars, FinalStatus
<1>11. CASE ObserveOverBudget
  BY <1>11, DecideTargets
  DEF ObserveOverBudget, Decide, Node, CtxStep, routeVars, loopVars, FinalStatus
<1>12. CASE ObserveGuardRetry
  <2>1. pc' \in {"act", "reflect"}
    BY <1>12, DecideTargets DEF ObserveGuardRetry, Decide
  <2>2. /\ status' = "needs_retry" /\ retry' = retry + 1
        /\ fanout' = 0 /\ presults' = FALSE /\ lastErr' = TRUE
        /\ ctxSteps' = ctxSteps + 1 /\ hops' = hops + 1
        /\ UNCHANGED <<req, route, mode, obs, steps, overrun, attempts, learned>>
    BY <1>12 DEF ObserveGuardRetry, Node, CtxStep, routeVars
  <2>3. status' \in FinalStatus
    BY <2>2 DEF FinalStatus
  <2>4. retry' \in Nat /\ ctxSteps' \in Nat /\ hops' \in Nat /\ fanout' \in Nat
    BY <2>2
  <2> QED BY <2>1, <2>2, <2>3, <2>4
<1>13. CASE ObserveVerdict
  BY <1>13, DecideTargets
  DEF ObserveVerdict, Decide, Node, CtxStep, routeVars, loopVars, FinalStatus, Judgement
<1>14. CASE Reflect
  <2>1. learned' \in [episodes : Seq({0, 1}), skill : BOOLEAN]
    <3>1. CASE ~req.memory
      BY <1>14, <3>1 DEF Reflect
    <3>2. CASE req.memory
      <4>1. PICK outcome \in {0, 1} : outcome = IF status = "ok" THEN 1 ELSE 0
        OBVIOUS
      <4>2. PICK first \in {<<>>, <<outcome>>}, second \in {<<>>, <<outcome>>},
                 skill \in BOOLEAN :
              learned' = [episodes |-> first \o second, skill |-> skill]
        BY <1>14, <3>2, <4>1 DEF Reflect
      <4>3. <<>> \in Seq({0, 1}) /\ <<outcome>> \in Seq({0, 1})
        OBVIOUS
      <4>4. first \in Seq({0, 1}) /\ second \in Seq({0, 1})
        BY <4>2, <4>3
      <4>5. first \o second \in Seq({0, 1})
        BY <4>4
      <4> QED BY <4>2, <4>5
    <3> QED BY <3>1, <3>2
  <2> QED BY <1>14, <2>1 DEF Reflect, Node, routeVars, loopVars
<1>15. CASE UNCHANGED vars
  BY <1>15 DEF vars, routeVars, loopVars
<1> QED
  BY <1>1, <1>2, <1>3, <1>4, <1>5, <1>6, <1>7, <1>8, <1>9, <1>10, <1>11, <1>12,
     <1>13, <1>14, <1>15 DEF Next, Step, Act, Observe

(* Every reachable state of the query graph is well typed.                 *)
THEOREM TypeCorrect == Spec => []TypeOK
BY TypeInit, TypeStep, PTL DEF Spec

------------------------------------------------------------------------------
(* The inductive invariant.  AttemptsBounded alone is not inductive: that  *)
(* a round may start only while rounds are left is decided one node        *)
(* earlier, by observe_decide on the number of observations, and the       *)
(* number of rounds is bounded only through the number of observations.    *)

(* Nothing happened before the first act.                                  *)
Fresh ==
    pc \in {"route", "clarify", "plan"} =>
        /\ obs = <<>> /\ attempts = 0 /\ status = "none" /\ ~lastErr
        /\ ctxSteps = IF pc = "route" THEN 0 ELSE 1

(* Without observations there was at most one round, which reported        *)
(* nothing and is not repeated.                                            *)
NothingObserved ==
    obs = <<>> =>
        /\ attempts <= 1 /\ retry = 0 /\ ~lastErr
        /\ pc = "act" => attempts = 0
        /\ ctxSteps <= StepLimit + 2

(* Every round left an observation; the loop runs within the step budget.  *)
Observed ==
    obs # <<>> =>
        /\ attempts >= 1 /\ attempts <= Len(obs)
        /\ ctxSteps <= StepLimit + 2
        /\ pc \in {"act", "observe"} => ctxSteps <= StepLimit + 1

(* Act is entered again only with retries and rounds left, and a parallel  *)
(* step only after a failure.                                              *)
Looping ==
    pc = "act" /\ obs # <<>> =>
        ~Exhausted(obs, retry) /\ (fanout = 0 \/ LastFailed(obs))

(* The last observation is of the latest round, unless it is a failure.    *)
Latest == obs # <<>> => LastFailed(obs) \/ obs[Len(obs)].call[1] = attempts

(* The over-budget verdict is reached in act and judged in observe.        *)
Overspent ==
    status = "budget_exceeded" =>
        pc \in {"observe", "reflect", "end"} /\ (pc = "observe" => OverBudget)

IInv ==
    /\ TypeOK
    /\ Fresh /\ NothingObserved /\ Observed /\ Looping /\ Latest /\ Overspent
    /\ AttemptsBounded /\ StepBudgetHolds
    /\ OkIsEarned /\ NoEarlyGiveUp /\ CorrectionReachesAct

LEMMA LastOfConcat ==
    ASSUME NEW S, NEW s \in Seq(S), NEW t \in Seq(S)
    PROVE  /\ Len(s \o t) = Len(s) + Len(t)
           /\ t # <<>> => Len(t) > 0 /\ (s \o t)[Len(s \o t)] = t[Len(t)]
           /\ t = <<>> => s \o t = s
OBVIOUS

(* The step limit is that of the request's context throughout.             *)
LEMMA LimitFixed ==
    ASSUME TypeOK, [Next]_vars
    PROVE  StepLimit \in Nat /\ StepLimit' = StepLimit
<1>1. StepLimit \in Nat
  BY GraphAssumption DEF TypeOK, Requests, StepLimit
<1>2. req' = req
  BY DEF vars, routeVars, loopVars, Next, Step, BudgetRunsOut, Route, Clarify, Plan,
         Act, ActOverBudget, ActParallel, ActUnknownTool, ActRaises, ActTool,
         Observe, ObserveEmpty, ObserveOverBudget, ObserveGuardRetry, ObserveVerdict,
         Reflect
<1> QED BY <1>1, <1>2 DEF StepLimit

LEMMA IInvInit == Init => IInv
<1> SUFFICES ASSUME Init PROVE IInv
  OBVIOUS
<1>1. TypeOK
  BY TypeInit
<1>2. StepLimit \in Nat
  BY <1>1, GraphAssumption DEF TypeOK, Requests, StepLimit
<1> QED
  BY <1>1, <1>2, GraphAssumption
  DEF Init, IInv, Fresh, NothingObserved, Observed, Looping, Latest, Overspent,
      AttemptsBounded, StepBudgetHolds, OkIsEarned, NoEarlyGiveUp,
      CorrectionReachesAct, Decided

LEMMA IInvStep == IInv /\ [Next]_vars => IInv'
<1> SUFFICES ASSUME IInv, [Next]_vars PROVE IInv'
  OBVIOUS
<1>0. TypeOK'
  BY TypeStep DEF IInv
<1>a. StepLimit \in Nat /\ StepLimit' = StepLimit
  BY LimitFixed DEF IInv
<1> USE <1>a, GraphAssumption
    DEF Fresh, NothingObserved, Observed, Looping, Latest, Overspent,
        AttemptsBounded, StepBudgetHolds, OkIsEarned, NoEarlyGiveUp,
        CorrectionReachesAct, Decided, TypeOK, IInv
<1>1. CASE BudgetRunsOut
  BY <1>0, <1>1 DEF BudgetRunsOut, Running, OverBudget, routeVars, loopVars
<1>2. CASE Route
  <2>1. pc' \in {"clarify", "plan", "act"}
    BY <1>2, RouteTargets DEF Route
  <2> QED BY <1>0, <1>2, <2>1 DEF Route, Node, CtxStep, loopVars
<1>3. CASE Clarify
  <2>1. status' \in ClarifyStatus
    BY <1>3, ClarifyTargets DEF Clarify
  <2>2. /\ pc = "clarify" /\ pc' = "end"
        /\ ctxSteps' \in {ctxSteps, ctxSteps + 1}
        /\ UNCHANGED <<fanout, presults, lastErr, obs, retry, attempts>>
    BY <1>3 DEF Clarify, Node, CtxStep, loopVars
  <2>3. status' \notin {"ok", "error", "needs_retry", "budget_exceeded"}
    BY <2>1 DEF ClarifyStatus
  <2> QED BY <1>0, <2>2, <2>3
<1>4. CASE Plan
  BY <1>0, <1>4 DEF Plan, Node, CtxStep, routeVars
<1>5. CASE ActOverBudget
  BY <1>0, <1>5 DEF ActOverBudget, Node, OverBudget, routeVars, loopVars
<1>6. CASE ActParallel
  <2>1. PICK rs \in RoundResults :
          /\ obs' = obs \o (obs \o Reported(rs))
          /\ presults' = (presults \/ rs # <<>>)
    BY <1>6 DEF ActParallel
  <2>2. /\ pc = "act" /\ pc' = "observe" /\ ~OverBudget /\ fanout > 0
        /\ ctxSteps' = ctxSteps + 1 /\ attempts' = attempts + 1
        /\ UNCHANGED <<fanout, lastErr, retry, status, overrun>>
    BY <1>6 DEF ActParallel, Node, CtxStep
  <2> DEFINE new == Reported(rs)
  <2>3. new \in Seq(Observation) /\ obs \o new \in Seq(Observation)
    BY ReportedType
  <2>4. CASE new = <<>>
    BY <1>0, <2>1, <2>2, <2>3, <2>4, LastOfConcat DEF Exhausted, LastFailed, LastResult, OverBudget
  <2>5. CASE new # <<>>
    BY <1>0, <2>1, <2>2, <2>3, <2>5, LastOfConcat, ReportedType DEF Exhausted, LastFailed, LastResult, OverBudget
  <2> QED BY <2>4, <2>5
<1>7. CASE ActUnknownTool
  BY <1>0, <1>7 DEF ActUnknownTool, Node, OverBudget, routeVars, loopVars
<1>8. CASE ActRaises
  BY <1>0, <1>8 DEF ActRaises, Node, routeVars, loopVars
<1>9. CASE ActTool
  <2>1. PICK new \in Observation :
          obs' = Append(obs, new) /\ new.call = <<attempts + 1, 1>>
    <3>1. PICK res \in Results :
            obs' = Append(obs, [call |-> <<attempts + 1, 1>>, res |-> res])
      BY <1>9 DEF ActTool, Results
    <3>2. <<attempts + 1, 1>> \in Nat \X Nat
      OBVIOUS
    <3>3. [call |-> <<attempts + 1, 1>>, res |-> res] \in Observation
      BY <3>2 DEF Observation
    <3> QED BY <3>1, <3>3
  <2>2. /\ pc = "act" /\ pc' = "observe" /\ ~OverBudget /\ fanout = 0
        /\ retry' = IF lastErr THEN retry + 1 ELSE retry
        /\ ctxSteps' = ctxSteps + 1 /\ attempts' = attempts + 1
        /\ UNCHANGED <<fanout, presults, lastErr, status, overrun>>
    BY <1>9 DEF ActTool, Node, CtxStep, loopVars
  <2>3. /\ Len(obs') = Len(obs) + 1 /\ obs' # <<>> /\ obs'[Len(obs')] = new
        /\ obs'[Len(obs')].call[1] = attempts'
    <3>1. obs \in Seq(Observation)
      OBVIOUS
    <3> HIDE <1>0, <1>a DEF TypeOK, IInv, Fresh, NothingObserved, Observed, Looping, Latest,
             Overspent, AttemptsBounded, StepBudgetHolds, OkIsEarned, NoEarlyGiveUp,
             CorrectionReachesAct
    <3> QED BY <2>1, <2>2, <3>1
  <2> QED BY <1>0, <2>2, <2>3 DEF Exhausted, OverBudget
<1>10. CASE ObserveEmpty
  <2>1. pc' = "reflect"
    BY <1>10 DEF ObserveEmpty, Decide, observe_decide, LastFailed
  <2> QED BY <1>0, <1>10, <2>1 DEF ObserveEmpty, Node, routeVars, loopVars
<1>11. CASE ObserveOverBudget
  <2>1. pc' = "reflect"
    BY <1>11, DecideTargets DEF ObserveOverBudget, Decide
  <2> QED BY <1>0, <1>11, <2>1 DEF ObserveOverBudget, Node, CtxStep, routeVars, loopVars
<1>12. CASE ObserveGuardRetry
  <2>1. /\ pc' \in {"act", "reflect"}
        /\ pc' = "act" => ~Exhausted(obs, retry')
        /\ pc' = "reflect" => Exhausted(obs, retry')
    BY <1>12, DecideTargets DEF ObserveGuardRetry, Decide, observe_decide
  <2> QED
    BY <1>0, <1>12, <2>1
    DEF ObserveGuardRetry, WantsRetry, Node, CtxStep, OverBudget, Exhausted, LastFailed,
        routeVars
<1>13. CASE ObserveVerdict
  <2>1. /\ pc' \in {"act", "reflect"}
        /\ pc' = "act" => ~Exhausted(obs, retry) /\ LastFailed(obs)
        /\ pc' = "reflect" /\ status' = "error" => LastFailed(obs) /\ Exhausted(obs, retry)
        /\ status' = "ok" => /\ pc' = "reflect"
                             /\ LastResult(obs) \notin {"fail"} \cup Suspect
                             /\ LastResult(obs) \in Oversize => retry >= max_retries
        /\ status' \in {"ok", "error", "needs_review"}
    BY <1>13
    DEF ObserveVerdict, WantsRetry, Decide, observe_decide, LastFailed, Judgement, Suspect
  <2> QED
    BY <1>0, <1>13, <2>1
    DEF ObserveVerdict, Node, CtxStep, OverBudget, LastFailed, routeVars, loopVars
<1>14. CASE Reflect
  BY <1>0, <1>14 DEF Reflect, Node, routeVars, loopVars
<1>15. CASE UNCHANGED vars
  BY <1>0, <1>15 DEF vars, routeVars, loopVars, LastFailed, LastResult, Exhausted, OverBudget
<1> QED
  BY <1>1, <1>2, <1>3, <1>4, <1>5, <1>6, <1>7, <1>8, <1>9, <1>10, <1>11, <1>12,
     <1>13, <1>14, <1>15 DEF Next, Step, Act, Observe

LEMMA Invariance == Spec => []IInv
BY IInvInit, IInvStep, PTL DEF Spec

(* A query runs at most MAX_ACT_ITER tool rounds and counts at most        *)
(* max_retries retries.                                                    *)
THEOREM RoundsBounded == Spec => []AttemptsBounded
BY Invariance, PTL DEF IInv

(* A query goes at most two steps past its step budget.                    *)
THEOREM StepBudget == Spec => []StepBudgetHolds
BY Invariance, PTL DEF IInv

(* "ok" is only reported for a successful result of the latest round.      *)
THEOREM EarnedOk == Spec => []OkIsEarned
BY Invariance, PTL DEF IInv

(* A failure is final only when nothing is left to try.                    *)
THEOREM NoEarlyEnd == Spec => []NoEarlyGiveUp
BY Invariance, PTL DEF IInv

(* No parallel step or result survives the range guard's correction.       *)
THEOREM CorrectionDelivered == Spec => []CorrectionReachesAct
BY Invariance, PTL DEF IInv

------------------------------------------------------------------------------
(* Over budget stays over budget: between act and observe neither the      *)
(* flag nor the counter goes back, and observe is the only node after it   *)
(* that writes a verdict.                                                  *)
THEOREM BudgetVerdictKept == Spec => BudgetVerdictSticks
<1> DEFINE A == status = "budget_exceeded" /\ obs # <<>> => status' = "budget_exceeded"
<1>1. IInv /\ [Next]_vars => [A]_vars
  <2> SUFFICES ASSUME IInv, Next, status = "budget_exceeded", obs # <<>>
               PROVE  status' = "budget_exceeded"
    OBVIOUS
  <2>1. pc \in {"observe", "reflect", "end"} /\ (pc = "observe" => OverBudget)
    BY DEF IInv, Overspent
  <2> QED
    BY <2>1
    DEF Next, Step, Act, Observe, Node, BudgetRunsOut, Route, Clarify, Plan,
        ActOverBudget, ActParallel, ActUnknownTool, ActRaises, ActTool,
        ObserveEmpty, ObserveOverBudget, ObserveGuardRetry, ObserveVerdict, Reflect
<1> QED BY <1>1, Invariance, PTL DEF Spec, BudgetVerdictSticks

------------------------------------------------------------------------------
(* The initial states and the steps of the graph are those of the query    *)
(* lifecycle.                                                              *)

LEMMA LifecycleInit == Init => QL!Init
BY DEF Init, QL!Init, Decided

LEMMA LifecycleStep == IInv /\ [Next]_vars => [QL!Next]_(QL!lifecycleVars)
<1> SUFFICES ASSUME IInv, [Next]_vars PROVE [QL!Next]_(QL!lifecycleVars)
  OBVIOUS
<1> USE DEF QL!lifecycleVars, Decided
<1>1. CASE BudgetRunsOut
  BY <1>1 DEF BudgetRunsOut
<1>2. CASE Route
  <2>1. pc = "route" /\ pc' \in {"clarify", "plan", "act"} /\ attempts' = attempts
    BY <1>2, RouteTargets DEF Route, Node
  <2> QED BY <2>1
<1>3. CASE Clarify
  <2>1. pc = "clarify" /\ pc' = "end" /\ attempts' = attempts /\ attempts = 0
    BY <1>3 DEF Clarify, Node, IInv, Fresh
  <2>2. status' \in QL!AskVerdicts
    BY <1>3, ClarifyTargets DEF Clarify, ClarifyStatus, QL!AskVerdicts
  <2>3. QL!Ask
    BY <2>1, <2>2 DEF QL!Ask, QL!Close
  <2> QED BY <2>3 DEF QL!Next
<1>4. CASE Plan
  BY <1>4 DEF Plan, Node
<1>5. CASE ActOverBudget
  BY <1>5 DEF ActOverBudget, Node
<1>6. CASE ActParallel \/ ActTool
  <2>1. /\ pc = "act" /\ pc' = "observe" /\ attempts' = attempts + 1
    BY <1>6 DEF ActParallel, ActTool, Node
  <2>2. attempts < MAX_ACT_ITER
    <3>1. CASE obs = <<>>
      BY <2>1, <3>1, GraphAssumption DEF IInv, NothingObserved
    <3>2. CASE obs # <<>>
      BY <2>1, <3>2, GraphAssumption DEF IInv, TypeOK, Observed, Looping, Exhausted
    <3> QED BY <3>1, <3>2
  <2>3. QL!Attempt
    BY <2>1, <2>2 DEF QL!Attempt
  <2> QED BY <2>3 DEF QL!Next
<1>7. CASE ActUnknownTool
  BY <1>7 DEF ActUnknownTool, Node
<1>8. CASE ActRaises
  <2>1. QL!Abort
    BY <1>8 DEF ActRaises, Node, QL!Abort
  <2> QED BY <2>1 DEF QL!Next
<1>9. CASE ObserveEmpty \/ ObserveOverBudget
  <2>1. /\ pc = "observe" /\ pc' \in {"act", "reflect"} /\ attempts' = attempts
        /\ status' \in QL!FailVerdicts
    BY <1>9, DecideTargets DEF ObserveEmpty, ObserveOverBudget, Decide, Node, QL!FailVerdicts
  <2>2. CASE pc' = "reflect"
    <3>1. QL!Fail
      BY <2>1, <2>2 DEF QL!Fail, QL!Close
    <3> QED BY <3>1 DEF QL!Next
  <2> QED BY <2>1, <2>2
<1>10. CASE ObserveGuardRetry \/ ObserveVerdict
  <2>1. /\ pc = "observe" /\ pc' \in {"act", "reflect"} /\ attempts' = attempts
        /\ status' \in QL!DataVerdicts \cup QL!FailVerdicts
    BY <1>10, DecideTargets
    DEF ObserveGuardRetry, ObserveVerdict, Judgement, Decide, Node, QL!DataVerdicts,
        QL!FailVerdicts
  <2>2. attempts > 0
    BY <1>10 DEF ObserveGuardRetry, ObserveVerdict, IInv, TypeOK, Observed
  <2>3. CASE pc' = "reflect"
    <3>1. QL!Judge \/ QL!Fail
      BY <2>1, <2>2, <2>3 DEF QL!Judge, QL!Fail, QL!Close
    <3> QED BY <3>1 DEF QL!Next
  <2> QED BY <2>1, <2>3
<1>11. CASE Reflect
  BY <1>11 DEF Reflect, Node
<1>12. CASE UNCHANGED vars
  BY <1>12 DEF vars
<1> QED
  BY <1>1, <1>2, <1>3, <1>4, <1>5, <1>6, <1>7, <1>8, <1>9, <1>10, <1>11, <1>12
  DEF Next, Step, Act, Observe

(* The safety part of the refinement the runs check with termination.      *)
THEOREM LifecycleSafety == Spec => QL!SafeSpec
BY LifecycleInit, LifecycleStep, Invariance, PTL DEF Spec, QL!SafeSpec

------------------------------------------------------------------------------
(* The recursion limit.  Super-steps are counted against the two things    *)
(* that bound the loop: a way from act back to act takes two, and adds an  *)
(* observed round or a retry.                                              *)

Counted == 2 * (attempts + retry)

(* An act that runs no tool and leaves what was observed is not repeated:  *)
(* over budget the verdict ends the loop, and without tools act is entered *)
(* again only after a parallel step that did not fail.                     *)
HopsCounted ==
    /\ pc = "route" => hops = 0
    /\ pc \in {"clarify", "plan"} => hops <= 1
    /\ pc = "act" => hops <= 2 + Counted
    /\ pc = "observe" =>
          /\ hops <= 3 + Counted
          /\ hops <= 1 + Counted \/ status = "budget_exceeded" \/ ~LastFailed(obs)
    /\ pc \in {"reflect", "raised"} => hops <= 4 + Counted
    /\ hops <= 5 + Counted

ToolsMissing == req.tools = {} /\ fanout = 0 /\ obs # <<>> => ~LastFailed(obs)

(* Reflect is the only node that learns, and clarify the only one that     *)
(* sends the query back.                                                   *)
Learning ==
    /\ pc # "end" => learned = [episodes |-> <<>>, skill |-> FALSE]
    /\ status \in ClarifyStatus => pc = "end" /\ learned.episodes = <<>>

HopsInv == HopsCounted /\ ToolsMissing

LearnInv == Learning /\ LearnsOnlyFromSuccess

LEMMA HopsInit == Init => HopsInv
BY DEF Init, HopsInv, HopsCounted, Counted, ToolsMissing

LEMMA HopsStep == IInv /\ HopsInv /\ [Next]_vars => HopsInv'
<1> SUFFICES ASSUME IInv, HopsInv, [Next]_vars PROVE HopsInv'
  OBVIOUS
<1>t. /\ pc \in {"route", "clarify", "plan", "act", "observe", "reflect", "end", "raised"}
      /\ attempts \in Nat /\ retry \in Nat /\ hops \in Nat /\ fanout \in Nat
      /\ obs \in Seq(Observation) /\ req.tools \in Toolsets
  BY DEF IInv, TypeOK, Requests
<1> USE <1>t DEF HopsInv, HopsCounted, Counted, ToolsMissing
<1>1. CASE BudgetRunsOut
  BY <1>1 DEF BudgetRunsOut, Running, routeVars, loopVars, LastFailed, LastResult
<1>2. CASE Route
  <2>1. pc' \in {"clarify", "plan", "act"}
    BY <1>2, RouteTargets DEF Route
  <2> QED BY <1>2, <2>1 DEF Route, Node, loopVars, LastFailed, LastResult
<1>3. CASE Clarify
  BY <1>3 DEF Clarify, Node, loopVars, LastFailed, LastResult
<1>4. CASE Plan
  <2>1. /\ obs' = <<>> /\ pc = "plan" /\ pc' = "act" /\ hops' = hops + 1
        /\ attempts' = attempts /\ retry' = retry
    BY <1>4 DEF Plan, Node, IInv, Fresh
  <2>2. hops' <= 2 + 2 * (attempts' + retry') /\ hops' <= 5 + 2 * (attempts' + retry')
    BY <2>1
  <2>3. ToolsMissing'
    BY <2>1
  <2> QED BY <2>1, <2>2, <2>3
<1>5. CASE ActOverBudget
  BY <1>5 DEF ActOverBudget, Node, routeVars, loopVars, LastFailed, LastResult
<1>6. CASE ActParallel
  <2>1. /\ pc = "act" /\ pc' = "observe" /\ hops' = hops + 1
        /\ attempts' = attempts + 1 /\ retry' = retry /\ fanout > 0 /\ fanout' = fanout
    BY <1>6 DEF ActParallel, Node
  <2>2. /\ hops' <= 1 + 2 * (attempts' + retry') /\ hops' <= 3 + 2 * (attempts' + retry')
        /\ hops' <= 5 + 2 * (attempts' + retry')
    BY <2>1
  <2>3. ToolsMissing'
    BY <2>1
  <2> QED BY <2>1, <2>2, <2>3
<1>7. CASE ActUnknownTool
  <2>1. req.tools = {}
    BY <1>7, ToolsAssumption DEF ActUnknownTool, PickedTools
  <2>2. ~LastFailed(obs)
    BY <1>7, <2>1 DEF ActUnknownTool, LastFailed
  <2> QED BY <1>7, <2>2 DEF ActUnknownTool, Node, routeVars, loopVars, LastFailed, LastResult
<1>8. CASE ActRaises
  BY <1>8 DEF ActRaises, Node, routeVars, loopVars, LastFailed, LastResult
<1>9. CASE ActTool
  <2>1. req.tools # {} /\ req' = req
    BY <1>9 DEF ActTool, routeVars
  <2>2. retry' \in {retry, retry + 1} /\ attempts' = attempts + 1 /\ hops' = hops + 1
    BY <1>9 DEF ActTool, Node
  <2> QED BY <1>9, <2>1, <2>2 DEF ActTool, Node
<1>10. CASE ObserveEmpty
  <2>1. pc' = "reflect"
    BY <1>10 DEF ObserveEmpty, Decide, observe_decide, LastFailed
  <2> QED BY <1>10, <2>1 DEF ObserveEmpty, Node, routeVars, loopVars
<1>11. CASE ObserveOverBudget
  <2>1. pc' = "reflect"
    BY <1>11, DecideTargets DEF ObserveOverBudget, Decide
  <2> QED
    BY <1>11, <2>1 DEF ObserveOverBudget, Node, routeVars, loopVars, LastFailed, LastResult
<1>12. CASE ObserveGuardRetry
  <2>1. pc' \in {"act", "reflect"}
    BY <1>12, DecideTargets DEF ObserveGuardRetry, Decide
  <2>2. ~LastFailed(obs)
    BY <1>12 DEF ObserveGuardRetry, WantsRetry, Oversize, LastFailed
  <2> QED
    BY <1>12, <2>1, <2>2 DEF ObserveGuardRetry, Node, routeVars, LastFailed, LastResult
<1>13. CASE ObserveVerdict
  <2>1. /\ pc' \in {"act", "reflect"}
        /\ pc' = "act" => LastFailed(obs)
    BY <1>13
    DEF ObserveVerdict, Decide, observe_decide, LastFailed, Judgement
  <2>2. status # "budget_exceeded"
    BY <1>13 DEF ObserveVerdict, Node, IInv, Overspent
  <2> QED
    BY <1>13, <2>1, <2>2
    DEF ObserveVerdict, Node, routeVars, loopVars, LastFailed, LastResult
<1>14. CASE Reflect
  BY <1>14 DEF Reflect, Node, routeVars, loopVars, LastFailed, LastResult
<1>15. CASE UNCHANGED vars
  BY <1>15 DEF vars, routeVars, loopVars, LastFailed, LastResult
<1> QED
  BY <1>1, <1>2, <1>3, <1>4, <1>5, <1>6, <1>7, <1>8, <1>9, <1>10, <1>11, <1>12,
     <1>13, <1>14, <1>15 DEF Next, Step, Act, Observe

(* No query reaches LangGraph's recursion limit of 25 super-steps, as long *)
(* as rounds and retries allowed are ten together; the code allows nine.   *)
THEOREM RecursionLimit ==
    ASSUME MAX_ACT_ITER + max_retries <= 10
    PROVE  Spec => []WithinRecursionLimit
<1>1. IInv /\ HopsInv => WithinRecursionLimit
  BY GraphAssumption
  DEF IInv, TypeOK, AttemptsBounded, HopsInv, HopsCounted, Counted, WithinRecursionLimit
<1> QED BY <1>1, HopsInit, HopsStep, Invariance, PTL DEF Spec

------------------------------------------------------------------------------
LEMMA LearnInit == Init => LearnInv
BY DEF Init, LearnInv, Learning, LearnsOnlyFromSuccess, ClarifyStatus

LEMMA LearnStep == IInv /\ LearnInv /\ [Next]_vars => LearnInv'
<1> SUFFICES ASSUME IInv, LearnInv, [Next]_vars PROVE LearnInv'
  OBVIOUS
<1> USE DEF LearnInv, Learning, LearnsOnlyFromSuccess, ClarifyStatus
<1>1. CASE /\ pc # "end" /\ pc' # "end" /\ UNCHANGED learned
           /\ status' \in {status, "ok", "error", "needs_retry", "needs_review",
                           "budget_exceeded"}
  BY <1>1
<1>2. CASE Clarify
  BY <1>2 DEF Clarify, Node
<1>3. CASE Reflect
  <2>1. /\ pc = "reflect" /\ pc' = "end" /\ obs' = obs /\ status' = status
        /\ status \notin ClarifyStatus
    BY <1>3 DEF Reflect, Node
  <2>2. CASE status = "ok"
    <3>1. obs # <<>> /\ ~LastFailed(obs)
      BY <2>1, <2>2 DEF IInv, OkIsEarned, Decided, LastFailed
    <3> QED BY <2>1, <2>2, <3>1 DEF LastFailed, LastResult
  <2>3. CASE status # "ok" /\ req.memory
    <3>1. PICK first \in {<<>>, <<0>>}, second \in {<<>>, <<0>>} :
            learned' = [episodes |-> first \o second, skill |-> FALSE]
      BY <1>3, <2>3 DEF Reflect
    <3>2. \A i \in DOMAIN (first \o second) : (first \o second)[i] # 1
      OBVIOUS
    <3> QED BY <2>1, <3>1, <3>2
  <2>4. CASE status # "ok" /\ ~req.memory
    BY <1>3, <2>1, <2>4 DEF Reflect
  <2> QED BY <2>2, <2>3, <2>4
<1>4. CASE UNCHANGED vars
  BY <1>4 DEF vars, LastFailed, LastResult
<1>5. CASE BudgetRunsOut
  BY <1>5, <1>1 DEF BudgetRunsOut, Running, Learning
<1>6. CASE Route
  BY <1>6, <1>1, RouteTargets DEF Route, Node
<1>7. CASE Plan \/ Act
  BY <1>7, <1>1
  DEF Plan, Act, ActOverBudget, ActParallel, ActUnknownTool, ActRaises, ActTool, Node
<1>8. CASE Observe
  BY <1>8, <1>1, DecideTargets
  DEF Observe, ObserveEmpty, ObserveOverBudget, ObserveGuardRetry, ObserveVerdict,
      Judgement, Decide, Node
<1> QED
  BY <1>2, <1>3, <1>4, <1>5, <1>6, <1>7, <1>8 DEF Next, Step

(* The memory learns successes and skills only from queries whose last     *)
(* tool call succeeded, and nothing from one sent back or aborted.         *)
THEOREM LearnsSuccess == Spec => []LearnsOnlyFromSuccess
BY LearnInit, LearnStep, Invariance, PTL DEF Spec, LearnInv
==============================================================================
