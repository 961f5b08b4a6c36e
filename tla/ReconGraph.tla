------------------------------ MODULE ReconGraph ------------------------------
(***************************************************************************)
(* One query through the LangGraph state machine of recon_v2:              *)
(* route -> clarify | plan | act, plan -> act, act -> observe,             *)
(* observe -> act | reflect.  A node is one action, together with the      *)
(* conditional edge LangGraph evaluates on the state the node returned.    *)
(*                                                                         *)
(* Data is reduced to what the control flow tests.  An observation keeps   *)
(* the tool call it reports and how observe_node would judge it.  The      *)
(* token and wall-clock limits are one flag that may rise at any moment;   *)
(* the step limit is counted.                                              *)
(***************************************************************************)
EXTENDS Routing, Sequences

CONSTANTS
    StepLimits,        (* values of CostBudget.max_steps a context may have  *)
    MAX_ACT_ITER,      (* observations after which observe stops looping     *)
    max_retries,       (* retry_count at which observe stops looping         *)
    REACT_MAX_STEPS,   (* step_counter after which act leaves react mode     *)
    MaxFanout,         (* bound: aliases of the results of one parallel step *)
    MaxTurn,           (* bound: clarification turn a client sends along     *)
    Toolsets           (* names in the ToolRegistry a context may have       *)

ASSUME GraphAssumption ==
    /\ StepLimits \subseteq Nat
    /\ MAX_ACT_ITER \in Nat \ {0}
    /\ max_retries \in Nat \ {0}
    /\ REACT_MAX_STEPS \in Nat
    /\ MaxFanout \in Nat
    /\ MaxTurn \in Nat

(* build_default_registry registers all tools; a context rebuilt without a *)
(* registry has none.                                                      *)
ASSUME ToolsAssumption ==
    \A tools \in Toolsets : tools = {} \/ {"sql_runner", "rag_searcher"} \subseteq tools

VARIABLES
    pc,         (* node LangGraph runs next, "end", or "raised"              *)
    req,        (* the request (text, clarification turn) and what its       *)
                (* AgentContext holds: LLM, memory, step limit, tools        *)
    route,      (* intent and clarification turn in the graph state          *)
    fanout,     (* aliases of plan_steps' parallel step, 0 without one       *)
    mode,       (* ctx.mode                                                  *)
    obs,        (* GraphState.observations                                   *)
    presults,   (* GraphState.parallel_results is not empty                  *)
    lastErr,    (* GraphState.last_sql_error is set                          *)
    retry,      (* GraphState.retry_count                                    *)
    status,     (* GraphState.final_status                                   *)
    steps,      (* GraphState.step_counter                                   *)
    ctxSteps,   (* ctx.step_counter, always equal to budget.steps_used       *)
    overrun,    (* tokens or seconds are over their limit                    *)
    attempts,   (* history: act rounds that executed tools                   *)
    hops,       (* history: LangGraph super-steps taken                      *)
    learned     (* episodes (outcomes) and skill reflect left in the memory  *)

routeVars == <<req, route>>
loopVars  == <<fanout, presults, lastErr>>
vars == <<pc, req, route, fanout, mode, obs, presults, lastErr, retry, status,
          steps, ctxSteps, overrun, attempts, hops, learned>>

------------------------------------------------------------------------------
(* How observe_node judges an observation: a failed tool call; a result    *)
(* with no, one, or several warnings; or a result the range guard finds    *)
(* too large, with that one warning or with further ones.                  *)
Results == {"fail", "clean", "warned", "suspect", "oversize", "oversize_suspect"}

Oversize == {"oversize", "oversize_suspect"}
Suspect  == {"suspect", "oversize_suspect"}

Observation == [call : Nat \X Nat, res : Results]

Requests == [text : QueryTexts, turn : 0..MaxTurn, llm : BOOLEAN, memory : BOOLEAN,
             maxSteps : StepLimits, tools : Toolsets]

FinalStatus == ClarifyStatus \cup
    {"none", "ok", "needs_review", "needs_retry", "error", "budget_exceeded"}

StepLimit == req.maxSteps

OverBudget == overrun \/ ctxSteps > StepLimit

LastResult(ob) == ob[Len(ob)].res

LastFailed(ob) == ob # <<>> /\ LastResult(ob) = "fail"

(* Mutant: one observation too many.                                       *)
Exhausted_OffByOne(ob, rt) == rt >= max_retries \/ Len(ob) > MAX_ACT_ITER

Exhausted(ob, rt) == rt >= max_retries \/ Len(ob) >= MAX_ACT_ITER

(* Mutant: the range guard's retry does not loop back.                     *)
observe_decide_NoRetry(st, ob, rt) ==
    IF st = "error" /\ LastFailed(ob) /\ ~Exhausted(ob, rt) THEN "act" ELSE "reflect"

(* Mutant: a failed call is retried whatever the verdict.                  *)
observe_decide_IgnoresVerdict(st, ob, rt) ==
    IF st = "budget_exceeded" \/ (LastFailed(ob) /\ ~Exhausted(ob, rt))
    THEN "act" ELSE "reflect"

(* The conditional edge after observe.                                     *)
observe_decide(st, ob, rt) ==
    IF /\ st \notin {"budget_exceeded", "rejected", "clarify", "needs_review"}
       /\ st = "needs_retry" \/ LastFailed(ob)
       /\ ~Exhausted(ob, rt)
    THEN "act"
    ELSE "reflect"

(* ctx.step(): the context's own counter and the step budget move together. *)
CtxStep == ctxSteps' = ctxSteps + 1

Node(name) == pc = name /\ hops' = hops + 1

Running == pc \notin {"end", "raised"}

Init ==
    /\ pc = "route"
    /\ req \in Requests
    /\ route = [intent |-> "simple_query", turn |-> req.turn]
    /\ fanout = 0 /\ mode = "react"
    /\ obs = <<>> /\ presults = FALSE /\ lastErr = FALSE /\ retry = 0
    /\ status = "none"
    /\ steps = 0 /\ ctxSteps = 0 /\ overrun = FALSE
    /\ attempts = 0 /\ hops = 0 /\ learned = [episodes |-> <<>>, skill |-> FALSE]

------------------------------------------------------------------------------
(* The clock passes max_seconds, or an LLM call takes tokens_used over     *)
(* max_tokens; neither ever goes back.                                     *)
BudgetRunsOut ==
    /\ Running
    /\ ~overrun
    /\ overrun' = TRUE
    /\ UNCHANGED <<pc, routeVars, loopVars, mode, obs, retry, status, steps,
                   ctxSteps, attempts, hops, learned>>

Route ==
    /\ Node("route")
    /\ \E answer \in Classified(req.llm) :
         LET c    == Fallback(answer)
             turn == TurnAfterRoute(c, req.turn)
         IN  /\ route' = [intent |-> c.intent, turn |-> turn]
             /\ pc' = route_decide(c, turn, req.text)
    /\ CtxStep
    /\ steps' = ctxSteps + 1
    /\ UNCHANGED <<req, loopVars, mode, obs, retry, status, overrun, attempts,
                   learned>>

(* The placeholder branch returns without ctx.step(); an open question     *)
(* counts the clarification turn up for the client to send back.           *)
Clarify ==
    /\ Node("clarify")
    /\ status' = clarify_status(req.text, route.intent)
    /\ route' = IF status' = "awaiting_clarification"
                THEN [route EXCEPT !.turn = @ + 1] ELSE route
    /\ IF req.text \in {"reject_mark", "clarify_mark"}
       THEN UNCHANGED ctxSteps ELSE CtxStep
    /\ steps' = steps + 1
    /\ pc' = "end"
    /\ UNCHANGED <<req, loopVars, mode, obs, retry, overrun, attempts, learned>>

(* An LLM plan of a reconciliation intent may hold one parallel step: two  *)
(* or more tasks, whose results may share an alias.                        *)
Plan ==
    /\ Node("plan")
    /\ mode' = IF route.intent = "simple_query" THEN "react" ELSE "plan_solve"
    /\ fanout' \in {0} \cup (IF req.llm /\ route.intent \in RECON_INTENTS
                             THEN 1..MaxFanout ELSE {})
    /\ CtxStep
    /\ steps' = ctxSteps + 1
    /\ pc' = "act"
    /\ UNCHANGED <<routeVars, presults, lastErr, obs, retry, status, overrun,
                   attempts, learned>>

------------------------------------------------------------------------------
(* The four ways through act_node.                                         *)

ActOverBudget ==
    /\ Node("act")
    /\ OverBudget
    /\ status' = "budget_exceeded"
    /\ steps' = steps + 1
    /\ pc' = "observe"
    /\ UNCHANGED <<routeVars, loopVars, mode, obs, retry, ctxSteps, overrun,
                   attempts, learned>>

(* What the subtasks of one parallel step report; nothing when running     *)
(* them failed as a whole.  Only the last result is judged, the others     *)
(* merely fail or not.                                                     *)
RoundResults ==
    {<<>>} \cup {rs \in [1..fanout -> Results] :
                   \A k \in 1..(fanout - 1) : rs[k] \in {"fail", "clean"}}

Reported(rs) ==
    [k \in DOMAIN rs |-> [call |-> <<attempts + 1, k>>, res |-> rs[k]]]

(* parallel_act_node returns the whole state with the old observations     *)
(* followed by the new ones, and the reducer of GraphState.observations    *)
(* appends all of that to what is there.                                   *)
ActParallel ==
    /\ Node("act")
    /\ ~OverBudget
    /\ fanout > 0
    /\ \E rs \in RoundResults :
         /\ obs' = obs \o (obs \o Reported(rs))
         /\ presults' = (presults \/ rs # <<>>)
    /\ CtxStep
    /\ steps' = ctxSteps + 1
    /\ attempts' = attempts + 1
    /\ pc' = "observe"
    /\ UNCHANGED <<routeVars, fanout, mode, lastErr, retry, status, overrun,
                   learned>>

(* The LLM may pick the document search; every failure to get a tool call  *)
(* out of it, or no LLM, means a templated sql_runner call.                *)
PickedTools ==
    {"sql_runner"} \cup (IF req.llm /\ req.tools # {} THEN {"rag_searcher"} ELSE {})

SwitchMode ==
    mode' = IF steps > REACT_MAX_STEPS THEN "plan_solve" ELSE mode

ActUnknownTool ==
    /\ Node("act")
    /\ ~OverBudget
    /\ fanout = 0
    /\ \E tool \in PickedTools : tool \notin req.tools
    /\ SwitchMode
    /\ status' = "error"
    /\ steps' = steps + 1
    /\ pc' = "observe"
    /\ UNCHANGED <<routeVars, loopVars, obs, retry, ctxSteps, overrun, attempts,
                   learned>>

(* ToolBase.run raises on arguments outside the tool's input schema, and   *)
(* no node catches it: the exception leaves graph.invoke.                  *)
ActRaises ==
    /\ Node("act")
    /\ ~OverBudget
    /\ fanout = 0
    /\ req.llm
    /\ \E tool \in PickedTools : tool \in req.tools
    /\ SwitchMode
    /\ pc' = "raised"
    /\ UNCHANGED <<routeVars, loopVars, obs, retry, status, steps, ctxSteps,
                   overrun, attempts, learned>>

ActTool ==
    /\ Node("act")
    /\ ~OverBudget
    /\ fanout = 0
    /\ SwitchMode
    /\ \E tool \in PickedTools \cap req.tools :
         \E res \in IF tool = "sql_runner" THEN Results ELSE {"fail", "clean"} :
           obs' = Append(obs, [call |-> <<attempts + 1, 1>>, res |-> res])
    /\ retry' = IF lastErr THEN retry + 1 ELSE retry
    /\ CtxStep
    /\ steps' = ctxSteps + 1
    /\ attempts' = attempts + 1
    /\ pc' = "observe"
    /\ UNCHANGED <<routeVars, loopVars, status, overrun, learned>>

------------------------------------------------------------------------------
(* The ways through observe_node, each followed by observe_decide.         *)

Decide == pc' = observe_decide(status', obs, retry')

(* Mutant: nothing observed passes for a result.                           *)
ObserveEmpty_Ok ==
    /\ Node("observe")
    /\ obs = <<>>
    /\ status' = "ok"
    /\ UNCHANGED retry
    /\ Decide
    /\ UNCHANGED <<routeVars, loopVars, mode, obs, steps, ctxSteps, overrun,
                   attempts, learned>>

ObserveEmpty ==
    /\ Node("observe")
    /\ obs = <<>>
    /\ status' = "error"
    /\ UNCHANGED retry
    /\ Decide
    /\ UNCHANGED <<routeVars, loopVars, mode, obs, steps, ctxSteps, overrun,
                   attempts, learned>>

ObserveOverBudget ==
    /\ Node("observe")
    /\ obs # <<>>
    /\ OverBudget
    /\ status' = "budget_exceeded"
    /\ CtxStep
    /\ UNCHANGED retry
    /\ Decide
    /\ UNCHANGED <<routeVars, loopVars, mode, obs, steps, overrun, attempts,
                   learned>>

(* Mutant: gives up one retry early.                                       *)
WantsRetry_OffByOne == LastResult(obs) \in Oversize /\ retry + 1 < max_retries

WantsRetry == LastResult(obs) \in Oversize /\ retry < max_retries

(* Mutant: keeps the parallel step in the plan.                            *)
ObserveGuardRetry_KeepsParallel ==
    /\ Node("observe")
    /\ obs # <<>>
    /\ ~OverBudget
    /\ WantsRetry
    /\ status' = "needs_retry"
    /\ retry' = retry + 1
    /\ lastErr' = TRUE
    /\ CtxStep
    /\ Decide
    /\ UNCHANGED <<routeVars, fanout, presults, mode, obs, steps, overrun, attempts,
                   learned>>

(* The range guard sends the query back: the parallel step and its results *)
(* are dropped so that act regenerates a single SQL with a correction.     *)
ObserveGuardRetry ==
    /\ Node("observe")
    /\ obs # <<>>
    /\ ~OverBudget
    /\ WantsRetry
    /\ status' = "needs_retry"
    /\ retry' = retry + 1
    /\ fanout' = 0
    /\ presults' = FALSE
    /\ lastErr' = TRUE
    /\ CtxStep
    /\ Decide
    /\ UNCHANGED <<routeVars, mode, obs, steps, overrun, attempts, learned>>

Judgement(res) ==
    IF res = "fail" THEN "error"
    ELSE IF res \in Suspect THEN "needs_review"
    ELSE "ok"

ObserveVerdict ==
    /\ Node("observe")
    /\ obs # <<>>
    /\ ~OverBudget
    /\ ~WantsRetry
    /\ status' = Judgement(LastResult(obs))
    /\ CtxStep
    /\ UNCHANGED retry
    /\ Decide
    /\ UNCHANGED <<routeVars, loopVars, mode, obs, steps, overrun, attempts,
                   learned>>

(* Mutant: whatever is not an error counts as a success.                   *)
Reflect_LenientOutcome ==
    /\ Node("reflect")
    /\ LET outcome == IF status # "error" THEN 1 ELSE 0
       IN  IF req.memory
           THEN learned' = [episodes |-> <<outcome, outcome>>, skill |-> FALSE]
           ELSE UNCHANGED learned
    /\ pc' = "end"
    /\ UNCHANGED <<routeVars, loopVars, mode, obs, retry, status, steps,
                   ctxSteps, overrun, attempts>>

(* With a memory, submit_skill_review stores an episode and may distil a   *)
(* skill from a success, then reflect stores the episode again with its    *)
(* intent; each call may fail on its own.                                  *)
Reflect ==
    /\ Node("reflect")
    /\ LET outcome == IF status = "ok" THEN 1 ELSE 0
           stored  == {<<>>, <<outcome>>}
       IN  IF req.memory
           THEN \E first \in stored, second \in stored, skill \in BOOLEAN :
                  /\ skill => status = "ok" /\ first # <<>>
                  /\ learned' = [episodes |-> first \o second, skill |-> skill]
           ELSE UNCHANGED learned
    /\ pc' = "end"
    /\ UNCHANGED <<routeVars, loopVars, mode, obs, retry, status, steps,
                   ctxSteps, overrun, attempts>>

Act == ActOverBudget \/ ActParallel \/ ActUnknownTool \/ ActRaises \/ ActTool

Observe == ObserveEmpty \/ ObserveOverBudget \/ ObserveGuardRetry \/ ObserveVerdict

Step == Route \/ Clarify \/ Plan \/ Act \/ Observe \/ Reflect

Next == Step \/ BudgetRunsOut

(* graph.invoke runs node after node until END; the clock owes nothing.    *)
Spec == Init /\ [][Next]_vars /\ WF_vars(Step)

------------------------------------------------------------------------------
(* The types.  One per module.                                             *)
TypeOK ==
    /\ pc \in {"route", "clarify", "plan", "act", "observe", "reflect", "end", "raised"}
    /\ req \in Requests
    /\ route \in [intent : VALID_INTENTS, turn : Nat]
    /\ fanout \in Nat
    /\ mode \in {"react", "plan_solve"}
    /\ obs \in Seq(Observation)
    /\ presults \in BOOLEAN /\ lastErr \in BOOLEAN /\ overrun \in BOOLEAN
    /\ retry \in Nat /\ steps \in Nat /\ ctxSteps \in Nat
    /\ attempts \in Nat /\ hops \in Nat
    /\ status \in FinalStatus
    /\ learned \in [episodes : Seq({0, 1}), skill : BOOLEAN]

Decided == pc \in {"reflect", "end"}

(* However SQL failures, range-guard retries and parallel rounds alternate, *)
(* a query runs tools in at most MAX_ACT_ITER rounds and retry_count never  *)
(* passes its limit, though act and observe both raise it for one retry.    *)
AttemptsBounded == attempts <= MAX_ACT_ITER /\ retry <= max_retries

(* A query is reported "ok" only for the result of its latest round, and   *)
(* only when that result did not fail and no retry was still due for it:   *)
(* never for an earlier round's rows that are still in the state.          *)
OkIsEarned ==
    Decided /\ status = "ok" =>
        /\ obs # <<>>
        /\ obs[Len(obs)].call[1] = attempts
        /\ LastResult(obs) \notin {"fail"} \cup Suspect
        /\ LastResult(obs) \in Oversize => retry >= max_retries

(* Reflection is reached with a failure or an unserved retry only when the *)
(* retries or rounds are used up, when there was nothing to observe, or    *)
(* when the budget ran out: observe_decide never gives up early.           *)
NoEarlyGiveUp ==
    Decided =>
        /\ status = "needs_retry" => Exhausted(obs, retry)
        /\ status = "error" /\ obs # <<>> => LastFailed(obs) /\ Exhausted(obs, retry)

(* Once the range guard left a correction for act, no parallel step and no *)
(* parallel result is left: the former would keep act from ever reading    *)
(* the correction, the latter would be summarised as the new answer.       *)
CorrectionReachesAct == lastErr => fanout = 0 /\ ~presults

(* graph.invoke is called without a recursion_limit, so LangGraph raises   *)
(* after 25 super-steps; no query gets there.                              *)
WithinRecursionLimit == hops <= 25

(* A query goes at most two steps past its step budget: the round in which *)
(* the limit is reached is judged, and no further round runs a tool.       *)
StepBudgetHolds == ctxSteps <= StepLimit + 2

(* The memory learns a success, or a skill, only from a query whose last   *)
(* tool call succeeded within budget, and learns nothing from a query that *)
(* was sent back to the user or left the graph by an exception.            *)
LearnsOnlyFromSuccess ==
    /\ learned.skill \/ (\E i \in DOMAIN learned.episodes : learned.episodes[i] = 1)
         => obs # <<>> /\ ~LastFailed(obs) /\ status = "ok"
    /\ status \in ClarifyStatus \/ pc = "raised" => learned.episodes = <<>>

(* Once a query that has results is found over budget it stays so: observe *)
(* cannot find the budget of the same query in order again.                *)
BudgetVerdictSticks ==
    [][status = "budget_exceeded" /\ obs # <<>> => status' = "budget_exceeded"]_vars

(* Every query is answered or leaves graph.invoke by an exception.         *)
QueryTerminates == <>(~Running)

QL == INSTANCE QueryLifecycle WITH
        MaxAttempts <- MAX_ACT_ITER,
        phase <- IF Decided THEN "closed" ELSE IF pc = "raised" THEN "aborted" ELSE "open",
        verdict <- IF Decided THEN status ELSE "none"

(* The graph implements the query lifecycle, termination included: bounded *)
(* attempts, then one verdict that fits what was attempted.                *)
ImplementsLifecycle == QL!Spec

------------------------------------------------------------------------------
(* What the repository's README and state.py say and the code does not do. *)

(* Act retries a failed tool call with the error fed back to the model.    *)
FailureFeedsBack == pc = "act" /\ LastFailed(obs) => lastErr
==============================================================================
