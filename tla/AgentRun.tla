------------------------------ MODULE AgentRun --------------------------------
(***************************************************************************)
(* One agent of recon_core over many runs.  A run of a ReActAgent,         *)
(* SimpleAgent, ReflectionAgent or PlanSolveAgent calls the model, answers *)
(* the tool calls it asks for, and ends by recording question and answer   *)
(* in the history, by raising, or, when streamed, because the consumer     *)
(* closed the stream.  Between runs sessions are saved, loaded and cleared *)
(* and the agent may serve as a subagent; the process may crash.           *)
(*                                                                         *)
(* A tool call is what the loops tell apart: "finish" with proper          *)
(* arguments, "badfinish" with arguments that are no JSON, "odd" is a      *)
(* built-in tool whose arguments are JSON but no object, and "plain" any   *)
(* other call, whatever comes of it.  An answer is "text" of the model,    *)
(* "empty", the "apology" of the agent, or the "error" text of a tool.     *)
(***************************************************************************)
EXTENDS AgentHistory, LLMAdapters

CONSTANTS
    MaxSteps,        (* max_steps of ReActAgent                              *)
    ToolIterations,  (* max_tool_iterations                                  *)
    MaxIterations,   (* max_iterations of ReflectionAgent                    *)
    MaxPlan,         (* bound: steps of a plan                               *)
    MaxCalls,        (* bound: tool calls in one answer of the model         *)
    MaxCrashes       (* bound: crashes                                       *)

ASSUME RunAssumption ==
    /\ MaxSteps \in Nat \ {0} /\ ToolIterations \in Nat \ {0}
    /\ MaxIterations \in Nat \ {0} /\ MaxPlan \in Nat \ {0}
    /\ MaxCalls \in Nat \ {0} /\ MaxCrashes \in Nat

VARIABLES
    agent,        (* class of the agent, tool calling and tracing enabled    *)
    run,          (* the run in progress                                     *)
    round,        (* number of runs so far                                   *)
    outer,        (* conversation put aside by run_as_subagent               *)
    traceClosed,  (* the trace logger of the agent is finalized              *)
    crashes

control == <<agent, round, outer, traceClosed, crashes>>
vars == <<historyVars, run, control>>

CallKinds == IF agent.kind = "react"
             THEN {"plain", "odd", "finish", "badfinish"} ELSE {"plain"}

CallLists == UNION {[1..n -> CallKinds] : n \in 1..MaxCalls}

Modes == IF agent.kind = "react" THEN {"run", "async", "stream"}
                                 ELSE {"run", "stream"}

(* said and failed are history: in this run the model has answered with    *)
(* text; it has answered with nothing or not at all.                       *)
IdleRun ==
    [mode |-> "run", pc |-> "idle", phase |-> "answer", step |-> 0,
     iteration |-> 1, left |-> 0, calls |-> <<>>, next |-> 1, open |-> {},
     result |-> "empty", answer |-> "empty", said |-> FALSE,
     failed |-> FALSE]

(* An exception, an interrupt or a closed stream leaves the run.           *)
Raised == IdleRun

(* The run with its answer, which is recorded next, or first delivered.    *)
Answered(r, text) ==
    [IdleRun EXCEPT !.mode = r.mode, !.said = r.said,
                    !.step = IF agent.kind = "react" THEN r.step ELSE 0,
                    !.failed = r.failed, !.answer = text,
                    !.pc = IF r.mode = "stream" THEN "deliver" ELSE "record"]

(* The model asks for tool calls; open are those without a result.         *)
Asked(r, cs) == [r EXCEPT !.pc = "tools", !.calls = cs, !.next = 1, !.open = DOMAIN cs]

(* The calls are done with.                                                *)
BackToModel(open) ==
    [run EXCEPT !.pc = "call", !.calls = <<>>, !.next = 1, !.open = open]

Said(r) == [r EXCEPT !.said = TRUE]
Failed(r) == [r EXCEPT !.failed = TRUE]

Doing(kind, mode, pc) ==
    agent.kind = kind /\ run.mode = mode /\ run.pc = pc

(* The next step of a loop that calls the model.                           *)
Stepped == [run EXCEPT !.step = @ + 1]

RunOnly == UNCHANGED <<historyVars, control>>

------------------------------------------------------------------------------
(* ReActAgent: run                                                         *)

(* Mutant: steps are not counted.                                          *)
ReactCall_Uncounted ==
    /\ Doing("react", "run", "call") /\ run.step < MaxSteps
    /\ \/ run' = Answered(Failed(run), "apology")
       \/ run' = Answered(Said(run), "text")
       \/ \E cs \in CallLists : run' = Asked(run, cs)
    /\ RunOnly

ReactCall ==
    /\ Doing("react", "run", "call") /\ run.step < MaxSteps
    /\ \/ run' = Answered(Failed(Stepped), "apology")
       \/ run' = Answered(Said(Stepped), "text")
       \/ \E cs \in CallLists : run' = Asked(Stepped, cs)
    /\ RunOnly

Turn(open) == IF run.next = Len(run.calls) THEN BackToModel(open)
              ELSE [run EXCEPT !.next = @ + 1, !.open = open]

AnswerCall == Turn(run.open \ {run.next})

(* Mutant: a call whose arguments cannot be parsed is passed over.         *)
SkipCall == Turn(run.open)

ReactTool_Skips ==
    /\ Doing("react", "run", "tools")
    /\ run.calls[run.next] # "odd"
    /\ run' = CASE run.calls[run.next] = "finish" -> Answered(Said(run), "text")
                [] run.calls[run.next] = "badfinish" -> SkipCall
                [] OTHER -> AnswerCall
    /\ RunOnly

(* Calls are answered in their order; Finish ends the run, calls after it  *)
(* are never made.                                                         *)
ReactTool ==
    /\ Doing("react", "run", "tools")
    /\ run.calls[run.next] # "odd"
    /\ run' = IF run.calls[run.next] = "finish" THEN Answered(Said(run), "text")
                                                ELSE AnswerCall
    /\ RunOnly

(* An exception inside run: the session is saved and the exception raised. *)
ReactToolRaises ==
    /\ Doing("react", "run", "tools")
    /\ run.calls[run.next] = "odd"
    /\ run' = Raised
    /\ SaveSession /\ UNCHANGED control

(* The loop ends without an answer.                                        *)
ReactOutOfSteps ==
    /\ agent.kind = "react" /\ run.pc = "call" /\ run.step = MaxSteps
    /\ run' = Answered(run, "apology")
    /\ RunOnly

------------------------------------------------------------------------------
(* ReActAgent: arun                                                        *)

ReactAsyncCall ==
    /\ Doing("react", "async", "call") /\ run.step < MaxSteps
    /\ \/ run' = Answered(Failed(Stepped), "apology")
       \/ run' = Answered(Said(Stepped), "text")
       \/ \E cs \in CallLists : run' = Asked(Stepped, cs)
    /\ RunOnly

CallsOf(kinds) == {i \in DOMAIN run.calls : run.calls[i] \in kinds}

(* _execute_tools_async: built-in calls one by one, then all others in     *)
(* parallel, whether or not there is a Finish among them.  Mutant: the     *)
(* text of a malformed Finish is taken for the answer, as in arun_stream.  *)
ReactAsyncTools_TakesError ==
    /\ Doing("react", "async", "tools")
    /\ run' = IF CallsOf({"odd"}) # {} THEN Raised
              ELSE IF CallsOf({"finish"}) # {} THEN Answered(Said(run), "text")
              ELSE IF CallsOf({"badfinish"}) # {} THEN Answered(run, "error")
              ELSE BackToModel({})
    /\ RunOnly

ReactAsyncTools ==
    /\ Doing("react", "async", "tools")
    /\ run' = IF CallsOf({"odd"}) # {} THEN Raised
              ELSE IF CallsOf({"finish"}) # {} THEN Answered(Said(run), "text")
              ELSE BackToModel({})
    /\ RunOnly

------------------------------------------------------------------------------
(* ReActAgent: arun_stream                                                 *)

(* The streamed call, then a second one that returns tool calls; either    *)
(* may fail.                                                               *)
ReactStreamCall ==
    /\ Doing("react", "stream", "call") /\ run.step < MaxSteps
    /\ \/ run' = Answered(Failed(Stepped), "apology")
       \/ run' = Answered(Said(Stepped), "text")
       \/ \E cs \in CallLists : run' = Asked(Stepped, cs)
    /\ RunOnly

(* The first result of a call named Finish ends the run, with the text of  *)
(* the error when its arguments could not be parsed.                       *)
ReactStreamTools ==
    /\ Doing("react", "stream", "tools")
    /\ LET ends == CallsOf({"finish", "badfinish"})
           first == CHOOSE i \in ends : \A j \in ends : i <= j
       IN  run' = IF CallsOf({"odd"}) # {} THEN Answered(Failed(run), "apology")
                  ELSE IF ends = {}
                       THEN BackToModel({})
                  ELSE IF run.calls[first] = "finish" THEN Answered(Said(run), "text")
                  ELSE Answered(run, "error")
    /\ RunOnly

------------------------------------------------------------------------------
(* SimpleAgent                                                             *)

(* A failed call ends the loop; when it was the last one the model is      *)
(* asked once more.                                                        *)
SimpleCall ==
    /\ Doing("simple", "run", "call") /\ run.step < ToolIterations
    /\ \/ run' = IF Stepped.step = ToolIterations
                 THEN [Failed(Stepped) EXCEPT !.pc = "last"]
                 ELSE Answered(Failed(Stepped), "empty")
       \/ run' = Answered(Said(Stepped), "text")
       \/ \E cs \in CallLists : run' = Asked(Stepped, cs)
    /\ RunOnly

SimpleTool ==
    /\ Doing("simple", "run", "tools")
    /\ run' = AnswerCall /\ RunOnly

(* The call without tools: an agent that has none, or after the loop.      *)
SimpleLast ==
    /\ Doing("simple", "run", "last")
    /\ \/ run' = Answered(Said(run), "text")
       \/ run' = Answered(Failed(run), "empty")
       \/ run' = Raised
    /\ RunOnly

(* The loop of the agents other than ReActAgent has no iteration left.     *)
LoopEnds ==
    /\ agent.kind # "react" /\ run.mode = "run"
    /\ run.pc = "call" /\ run.step = ToolIterations
    /\ run' = [run EXCEPT !.pc = "last"] /\ RunOnly

SimpleStream ==
    /\ Doing("simple", "stream", "call")
    /\ \/ run' = Answered(Said(run), "text")
       \/ run' = Answered(Failed(run), "empty")
       \/ run' = Raised
    /\ RunOnly

------------------------------------------------------------------------------
(* ReflectionAgent: an attempt, then rounds of reflection and refinement   *)

Loop == IF agent.tools THEN "call" ELSE "last"

NextPhase(r, phase) ==
    [r EXCEPT !.phase = phase, !.pc = Loop, !.step = 0]

(* The phase has got its text from the model.  An empty refinement         *)
(* replaces the text before it, whatever that was.                         *)
ReflectionPhase(r, text) ==
    \/ /\ r.phase = "attempt"
       /\ run' = NextPhase([r EXCEPT !.result = text], "reflect")
    \/ /\ r.phase = "reflect" /\ text = "text"
       /\ run' = Answered(r, r.result)
    \/ /\ r.phase = "reflect"
       /\ run' = NextPhase(r, "refine")
    \/ /\ r.phase = "refine" /\ r.iteration < MaxIterations
       /\ run' = NextPhase([r EXCEPT !.result = text, !.iteration = @ + 1], "reflect")
    \/ /\ r.phase = "refine" /\ r.iteration = MaxIterations
       /\ run' = Answered(r, text)

ReflectionCall ==
    /\ Doing("reflection", "run", "call") /\ run.step < ToolIterations
    /\ \/ ReflectionPhase(Said(Stepped), "text")
       \/ ReflectionPhase(Failed(Stepped), "empty")
       \/ IF Stepped.step = ToolIterations
          THEN run' = [Failed(Stepped) EXCEPT !.pc = "last"]
          ELSE ReflectionPhase(Failed(Stepped), "empty")
       \/ \E cs \in CallLists : run' = Asked(Stepped, cs)
    /\ RunOnly

ReflectionTool ==
    /\ Doing("reflection", "run", "tools")
    /\ run' = AnswerCall /\ RunOnly

ReflectionLast ==
    /\ Doing("reflection", "run", "last")
    /\ \/ ReflectionPhase(Said(run), "text")
       \/ ReflectionPhase(Failed(run), "empty")
       \/ run' = Raised
    /\ RunOnly

(* The streamed version calls _build_reflection_prompt, which no class     *)
(* defines, and raises once the attempt is done.                           *)
ReflectionStream ==
    /\ Doing("reflection", "stream", "call")
    /\ run' = Raised /\ RunOnly

------------------------------------------------------------------------------
(* PlanSolveAgent: a plan, then its steps                                  *)

(* Planner.plan; left is the number of steps still to execute.             *)
PlanCall ==
    /\ agent.kind = "plan" /\ run.pc = "plan"
    /\ \/ run' = Answered(Failed(run), "apology")
       \/ \E n \in 1..MaxPlan :
             run' = [run EXCEPT !.left = n, !.step = 0,
                                !.pc = IF run.mode = "stream" THEN "call" ELSE Loop]
    /\ RunOnly

(* A step of the plan ends with a text; the last one's is the answer.      *)
PlanPhase(r, text) ==
    run' = IF r.left = 1 THEN Answered(r, text)
           ELSE NextPhase([r EXCEPT !.left = @ - 1], "answer")

PlanStepCall ==
    /\ Doing("plan", "run", "call") /\ run.step < ToolIterations
    /\ \/ PlanPhase(Said(Stepped), "text")
       \/ PlanPhase(Failed(Stepped), "empty")
       \/ IF Stepped.step = ToolIterations
          THEN run' = [Failed(Stepped) EXCEPT !.pc = "last"]
          ELSE PlanPhase(Failed(Stepped), "empty")
       \/ \E cs \in CallLists : run' = Asked(Stepped, cs)
    /\ RunOnly

PlanTool ==
    /\ Doing("plan", "run", "tools")
    /\ run' = AnswerCall /\ RunOnly

PlanLast ==
    /\ Doing("plan", "run", "last")
    /\ \/ PlanPhase(Said(run), "text")
       \/ PlanPhase(Failed(run), "empty")
       \/ run' = Raised
    /\ RunOnly

(* Streamed: every step, and one more call for the final answer.           *)
PlanStream ==
    /\ Doing("plan", "stream", "call")
    /\ \/ /\ run.left > 0
          /\ run' = [run EXCEPT !.left = @ - 1]
       \/ /\ run.left = 0
          /\ \/ run' = Answered(Said(run), "text")
             \/ run' = Answered(Failed(run), "empty")
       \/ run' = Raised
    /\ RunOnly

------------------------------------------------------------------------------
(* The ends of a run                                                       *)

(* The consumer of a stream has got the finish event and asks for more.    *)
Delivered ==
    /\ run.pc = "deliver"
    /\ run' = [run EXCEPT !.pc = "record"] /\ RunOnly

(* The consumer closes the stream, at a finish event too: what follows the *)
(* yield is never executed.                                                *)
CloseStream ==
    /\ run.mode = "stream" /\ run.pc \in {"plan", "call", "tools", "deliver"}
    /\ run' = Raised /\ RunOnly

RecordQuestion ==
    /\ run.pc = "record"
    /\ \E size \in Sizes : AddMessage(Message("user", round, size))
    /\ run' = [run EXCEPT !.pc = "answer"]
    /\ UNCHANGED control

(* Mutant: only a first question is recorded with its answer.              *)
RecordAnswer_Drops ==
    /\ run.pc = "answer"
    /\ IF run.answer = "empty" THEN UNCHANGED historyVars
       ELSE \E size \in Sizes : AddMessage(Message("assistant", round, size))
    /\ run' = IdleRun
    /\ traceClosed' = (traceClosed \/ (agent.traced /\ run.mode # "stream"))
    /\ UNCHANGED <<agent, round, outer, crashes>>

(* A ReActAgent finalizes the trace logger it made when it was created.    *)
RecordAnswer ==
    /\ run.pc = "answer"
    /\ \E size \in Sizes : AddMessage(Message("assistant", round, size))
    /\ run' = IdleRun
    /\ traceClosed' = (traceClosed \/ (agent.traced /\ run.mode # "stream"))
    /\ UNCHANGED <<agent, round, outer, crashes>>

Torn == IF run.pc = "answer" THEN cut \cup {round} ELSE cut

(* KeyboardInterrupt; only ReActAgent.run saves the session.               *)
Interrupt ==
    /\ run.pc # "idle" /\ run.mode = "run"
    /\ run' = Raised
    /\ namedFile' = IF agent.kind = "react" THEN File ELSE namedFile
    /\ cut' = Torn
    /\ UNCHANGED <<history, tokens, autoFile, asked, exact, control>>

------------------------------------------------------------------------------
(* Between runs                                                            *)

Idle == run.pc = "idle" /\ ~outer.exists

Started(mode) ==
    [IdleRun EXCEPT !.mode = mode,
        !.phase = IF agent.kind = "reflection" THEN "attempt" ELSE "answer",
        !.pc = IF agent.kind = "plan" THEN "plan"
               ELSE IF agent.kind = "react" \/ mode = "stream" THEN "call" ELSE Loop]

(* The first thing run and arun of a ReActAgent do is to log the question. *)
TraceRaises(mode) == traceClosed /\ mode # "stream"

StartRun ==
    /\ Idle /\ round < MaxRuns
    /\ \E mode \in Modes :
         /\ ~TraceRaises(mode)
         /\ run' = Started(mode)
    /\ round' = round + 1
    /\ UNCHANGED <<historyVars, agent, outer, traceClosed, crashes>>

StartOnClosedTrace ==
    /\ Idle /\ round < MaxRuns
    /\ \E mode \in Modes :
         /\ TraceRaises(mode)
         /\ run' = Raised
         /\ IF mode = "run" THEN SaveSession ELSE UNCHANGED historyVars
    /\ round' = round + 1
    /\ UNCHANGED <<agent, outer, traceClosed, crashes>>

(* run_as_subagent: the history is put aside and a new one begun; the      *)
(* token count stays.                                                      *)
BeginSubtask ==
    /\ Idle /\ round < MaxRuns
    /\ outer' = File
    /\ history' = <<>> /\ asked' = {} /\ exact' = (exact /\ history = <<>>)
    /\ run' = IF TraceRaises("run") THEN Raised ELSE Started("run")
    /\ namedFile' = IF TraceRaises("run")
                    THEN [exists |-> TRUE, history |-> <<>>, asked |-> {}]
                    ELSE namedFile
    /\ round' = round + 1
    /\ UNCHANGED <<tokens, autoFile, cut, agent, traceClosed, crashes>>

(* Its finally clause.                                                     *)
EndSubtask ==
    /\ run.pc = "idle" /\ outer.exists
    /\ history' = outer.history /\ asked' = outer.asked /\ exact' = FALSE
    /\ outer' = NoFile
    /\ UNCHANGED <<tokens, autoFile, namedFile, cut, run, agent, round,
                   traceClosed, crashes>>

Save == Idle /\ SaveSession /\ UNCHANGED <<run, control>>

Load ==
    /\ Idle
    /\ \E file \in {autoFile, namedFile} : LoadSession(file)
    /\ UNCHANGED <<run, control>>

Clear == Idle /\ ClearHistory /\ UNCHANGED <<run, control>>

Crash ==
    /\ crashes < MaxCrashes
    /\ NewAgent /\ cut' = Torn
    /\ run' = IdleRun /\ outer' = NoFile /\ traceClosed' = FALSE
    /\ crashes' = crashes + 1
    /\ UNCHANGED <<agent, round>>

------------------------------------------------------------------------------
Init ==
    /\ HistoryInit
    /\ agent \in {[kind |-> k, tools |-> t, traced |-> d] :
                     k \in {"react", "simple", "reflection", "plan"},
                     t \in BOOLEAN, d \in BOOLEAN}
    /\ agent.kind = "react" => agent.tools
    /\ agent.kind # "react" => ~agent.traced
    /\ run = IdleRun /\ round = 0 /\ outer = NoFile
    /\ traceClosed = FALSE /\ crashes = 0

(* What the agent does by itself once it runs.                             *)
Work ==
    \/ ReactCall \/ ReactTool \/ ReactToolRaises \/ ReactOutOfSteps
    \/ ReactAsyncCall \/ ReactAsyncTools
    \/ ReactStreamCall \/ ReactStreamTools
    \/ SimpleCall \/ SimpleTool \/ SimpleLast \/ LoopEnds \/ SimpleStream
    \/ ReflectionCall \/ ReflectionTool \/ ReflectionLast \/ ReflectionStream
    \/ PlanCall \/ PlanStepCall \/ PlanTool \/ PlanLast \/ PlanStream
    \/ Delivered \/ RecordQuestion \/ RecordAnswer \/ EndSubtask

Next ==
    \/ Work \/ CloseStream \/ Interrupt
    \/ StartRun \/ StartOnClosedTrace \/ BeginSubtask
    \/ Save \/ Load \/ Clear \/ Crash

Spec == Init /\ [][Next]_vars /\ WF_vars(Work)

------------------------------------------------------------------------------
TypeOK ==
    /\ HistoryTypeOK
    /\ run.pc \in {"idle", "plan", "call", "tools", "last", "deliver", "record", "answer"}
    /\ run.step \in 0..(IF agent.kind = "react" THEN MaxSteps ELSE ToolIterations)
    /\ run.iteration \in 1..MaxIterations /\ run.left \in 0..MaxPlan
    /\ run.open \subseteq 1..MaxCalls
    /\ round \in 0..MaxRuns /\ crashes \in 0..MaxCrashes
    /\ FileTypeOK(outer) /\ traceClosed \in BOOLEAN

(* The model is never called while a tool call of its last answer is       *)
(* without a result (providers refuse such a conversation), whatever the   *)
(* order in which the three loops of ReActAgent and the loop the other     *)
(* agents share execute the calls, and whatever becomes of them.           *)
CallsAnswered ==
    run.pc \in {"call", "last"} => run.open = {}

(* What an agent records as its answer is what it looks like: the model's  *)
(* text; an apology only when a call failed, the steps ran out or there is *)
(* no plan; nothing only after a failed or an empty answer of the model.   *)
(* The text of a parse error is taken for an answer by arun_stream only.   *)
AnswerHonest ==
    run.pc \in {"deliver", "record", "answer"} =>
       /\ run.answer = "text" => run.said
       /\ run.answer = "empty" => run.failed
       /\ run.answer = "apology" => run.failed \/ run.step = MaxSteps
       /\ run.answer = "error" => agent.kind = "react" /\ run.mode = "stream"

(* In a conversation every question is followed by its own answer, except  *)
(* where a run was interrupted or the process died between the two, and    *)
(* rounds are in order, through compression, subtasks, saving and loading. *)
RoundsWhole ==
    \A i \in DOMAIN history :
       /\ history[i].role = "user" =>
            \/ history[i].round \in cut
            \/ i = Len(history) /\ run.pc = "answer" /\ history[i].round = round
            \/ i < Len(history) /\ history[i+1].role = "assistant"
                                /\ history[i+1].round = history[i].round
       /\ \A j \in DOMAIN history : i < j => history[i].round <= history[j].round

(* Compression forgets only whole rounds, never one of the last MinRetain, *)
(* and never without leaving a summary at the head of the history.         *)
ForgetsIntoSummary ==
    LET known == {history[i].round : i \in Boundaries(history)}
        lost  == asked \ known
    IN  /\ \A r \in lost : Cardinality({q \in asked : q > r}) >= MinRetain
        /\ lost # {} => history[1].role = "summary"
        /\ \A i \in DOMAIN history : history[i].role = "summary" => i = 1

(* The history outgrows the threshold only by its last MinRetain rounds,   *)
(* as long as the token count has followed it: loading a session and       *)
(* returning from a subtask leave the count of before, and then it may.    *)
HistoryBounded ==
    exact => /\ tokens = Tokens(history)
             /\ tokens > Threshold => Rounds(history) <= MinRetain

(* Every run ends: the loops are bounded and model calls time out.         *)
RunEnds == run.pc # "idle" ~> run.pc = "idle"

(* A second run of a traced ReActAgent is run like the first: when run or  *)
(* arun is called, it begins.                                              *)
SecondRunStarts == [][round' > round => run'.pc # "idle"]_vars
==============================================================================
