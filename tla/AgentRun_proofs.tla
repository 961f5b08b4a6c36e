-------------------------- MODULE AgentRun_proofs ----------------------------
(***************************************************************************)
(* Proofs about AgentRun, for any agent, any sizes of messages and any     *)
(* bounds: the loops of the four agents first, the conversation after.     *)
(***************************************************************************)
EXTENDS AgentRun, FiniteSetTheorems, WellFoundedInduction, TLAPS

Kinds == {"react", "simple", "reflection", "plan"}
AnyCalls == Seq({"plain", "odd", "finish", "badfinish"})
Texts == {"text", "empty", "apology", "error"}

RunType ==
    [mode : {"run", "async", "stream"},
     pc : {"idle", "plan", "call", "tools", "last", "deliver", "record", "answer"},
     phase : {"answer", "attempt", "reflect", "refine"},
     step : Nat, iteration : Nat, left : Int, calls : AnyCalls, next : Nat,
     open : SUBSET Nat, result : Texts, answer : Texts, said : BOOLEAN, failed : BOOLEAN]

(* The calls before next have their results; the text of the attempt is    *)
(* what the model said, or is missing because it failed.                   *)
Answering(r) ==
    /\ r.pc # "tools" => r.open = {}
    /\ r.pc = "tools" =>
          r.next \in 1..Len(r.calls) /\ r.open \subseteq r.next..Len(r.calls)

(* What may be recorded as an answer.                                      *)
Honest(kind, r, text) ==
    /\ text = "text" => r.said
    /\ text = "empty" => r.failed
    /\ text = "apology" => r.failed \/ (kind = "react" /\ r.step = MaxSteps)
    /\ text = "error" => kind = "react" /\ r.mode = "stream"

Attempted(r) ==
    r.phase \in {"reflect", "refine"} =>
       /\ r.result \in {"text", "empty"}
       /\ r.result = "text" => r.said
       /\ r.result = "empty" => r.failed

Good(kind, r) ==
    /\ r \in RunType /\ Answering(r) /\ Attempted(r)
    /\ r.pc \in {"deliver", "record", "answer"} => Honest(kind, r, r.answer)

RunInv == agent.kind \in Kinds /\ Good(agent.kind, run)

------------------------------------------------------------------------------
LEMMA IdleGood == \A kind \in Kinds : Good(kind, IdleRun)
<1>1. IdleRun \in RunType
  BY DEF IdleRun, RunType, AnyCalls, Texts
<1>2. Answering(IdleRun) /\ Attempted(IdleRun) /\ IdleRun.pc = "idle"
  BY DEF IdleRun, Answering, Attempted
<1> QED BY <1>1, <1>2 DEF Good

(* The run with an answer.                                                 *)
LEMMA AnsweredGood ==
    ASSUME NEW r \in RunType, NEW text \in Texts, agent.kind \in Kinds,
           Honest(agent.kind, r, text)
    PROVE  Good(agent.kind, Answered(r, text))
<1>1. PICK a : a = Answered(r, text)
  OBVIOUS
<1>2. /\ a \in RunType /\ a.mode = r.mode /\ a.said = r.said /\ a.failed = r.failed
      /\ a.answer = text /\ a.phase = "answer" /\ a.open = {} /\ a.pc \in {"deliver", "record"}
      /\ agent.kind = "react" => a.step = r.step
  <2>1. PICK step, pc : /\ step = (IF agent.kind = "react" THEN r.step ELSE 0)
                        /\ pc = (IF r.mode = "stream" THEN "deliver" ELSE "record")
    OBVIOUS
  <2>2. a = [mode |-> r.mode, pc |-> pc, phase |-> "answer", step |-> step, iteration |-> 1,
             left |-> 0, calls |-> <<>>, next |-> 1, open |-> {}, result |-> "empty",
             answer |-> text, said |-> r.said, failed |-> r.failed]
    BY <1>1, <2>1 DEF Answered, IdleRun
  <2>3. /\ r.mode \in {"run", "async", "stream"} /\ step \in Nat /\ pc \in {"deliver", "record"}
        /\ r.said \in BOOLEAN /\ r.failed \in BOOLEAN /\ <<>> \in AnyCalls
    BY <2>1 DEF RunType, AnyCalls
  <2>4. a \in RunType
    BY <2>2, <2>3 DEF RunType, Texts
  <2> QED BY <2>1, <2>2, <2>3, <2>4
<1>3. Honest(agent.kind, a, a.answer)
  BY <1>2 DEF Honest
<1>4. Answering(a) /\ Attempted(a)
  BY <1>2 DEF Answering, Attempted
<1> QED BY <1>1, <1>2, <1>3, <1>4 DEF Good

(* The run that waits for the results of calls.                            *)
LEMMA AskedGood ==
    ASSUME NEW kind, NEW r \in RunType, Attempted(r), NEW cs \in CallLists
    PROVE  Good(kind, Asked(r, cs))
<1>1. PICK a : a = Asked(r, cs)
  OBVIOUS
<1>2. PICK n \in 1..MaxCalls : cs \in [1..n -> CallKinds]
  BY DEF CallLists
<1>3. n \in Nat /\ n > 0
  BY <1>2, RunAssumption
<1>4. cs \in AnyCalls /\ Len(cs) = n /\ DOMAIN cs = 1..n
  BY <1>2, <1>3 DEF CallKinds, AnyCalls
<1>5. a = [r EXCEPT !.pc = "tools", !.calls = cs, !.next = 1, !.open = 1..n]
  BY <1>1, <1>4 DEF Asked
<1>6. /\ a \in RunType /\ a.pc = "tools" /\ a.calls = cs /\ a.next = 1 /\ a.open = 1..n
      /\ a.phase = r.phase /\ a.result = r.result /\ a.said = r.said /\ a.failed = r.failed
  <2>1. cs \in AnyCalls /\ 1..n \in SUBSET Nat /\ 1 \in Nat
    BY <1>3, <1>4
  <2>2. a \in RunType
    BY <1>5, <2>1 DEF RunType
  <2> QED BY <1>5, <2>2 DEF RunType
<1>7. Answering(a) /\ Attempted(a)
  BY <1>3, <1>4, <1>6 DEF Answering, Attempted
<1> QED BY <1>1, <1>6, <1>7 DEF Good

(* One step further, and what the model did.                               *)
LEMMA SteppedGood ==
    ASSUME RunInv, NEW r \in {run, Stepped}, NEW a \in {r, Said(r), Failed(r)}
    PROVE  /\ a \in RunType /\ Attempted(a)
           /\ a.mode = run.mode /\ a.pc = run.pc /\ a.phase = run.phase /\ a.left = run.left
           /\ a.iteration = run.iteration /\ a.result = run.result /\ a.open = run.open
           /\ a.calls = run.calls /\ a.next = run.next
           /\ a.step = r.step /\ r.step \in {run.step, run.step + 1}
           /\ a = Said(r) => a.said
           /\ a = Failed(r) => a.failed
           /\ run.said => a.said
           /\ run.failed => a.failed
<1>1. run \in RunType /\ Attempted(run)
  BY DEF RunInv, Good
<1>2. /\ r \in RunType /\ r.said = run.said /\ r.failed = run.failed
      /\ r.mode = run.mode /\ r.pc = run.pc /\ r.phase = run.phase /\ r.left = run.left
      /\ r.iteration = run.iteration /\ r.result = run.result /\ r.open = run.open
      /\ r.calls = run.calls /\ r.next = run.next /\ r.step \in {run.step, run.step + 1}
  BY <1>1 DEF Stepped, RunType
<1>3. /\ a \in RunType
      /\ a.mode = r.mode /\ a.pc = r.pc /\ a.phase = r.phase /\ a.left = r.left
      /\ a.iteration = r.iteration /\ a.result = r.result /\ a.open = r.open
      /\ a.calls = r.calls /\ a.next = r.next /\ a.step = r.step
      /\ a = Said(r) => a.said
      /\ a = Failed(r) => a.failed
      /\ r.said => a.said
      /\ r.failed => a.failed
  BY <1>2 DEF Said, Failed, RunType
<1>4. Attempted(a)
  BY <1>1, <1>2, <1>3 DEF Attempted
<1> QED BY <1>2, <1>3, <1>4

(* The next phase of a run begins with a call of the model.                *)
LEMMA NextGood ==
    ASSUME NEW kind, NEW r \in RunType, r.open = {},
           NEW phase \in {"answer", "attempt", "reflect", "refine"},
           phase \in {"reflect", "refine"} =>
              /\ r.result \in {"text", "empty"}
              /\ r.result = "text" => r.said
              /\ r.result = "empty" => r.failed
    PROVE  Good(kind, NextPhase(r, phase))
<1>1. PICK a, loop : a = NextPhase(r, phase) /\ loop = Loop
  OBVIOUS
<1>2. loop \in {"call", "last"} /\ a = [r EXCEPT !.phase = phase, !.pc = loop, !.step = 0]
  BY <1>1 DEF Loop, NextPhase
<1>3. a \in RunType
  BY <1>2 DEF RunType
<1>4. /\ a.phase = phase /\ a.pc = loop /\ a.open = r.open /\ a.result = r.result
      /\ a.said = r.said /\ a.failed = r.failed
  BY <1>2 DEF RunType
<1>5. Answering(a) /\ Attempted(a)
  BY <1>2, <1>4 DEF Answering, Attempted
<1> QED BY <1>1, <1>2, <1>3, <1>4, <1>5 DEF Good

(* The end of a phase of a ReflectionAgent.                                *)
LEMMA ReflectionGood ==
    ASSUME agent.kind \in Kinds, NEW r \in RunType, Attempted(r), r.open = {},
           NEW text \in {"text", "empty"}, text = "text" => r.said, text = "empty" => r.failed,
           ReflectionPhase(r, text)
    PROVE  Good(agent.kind, run')
<1>1. CASE r.phase = "attempt" /\ run' = NextPhase([r EXCEPT !.result = text], "reflect")
  <2>1. PICK a : a = [r EXCEPT !.result = text]
    OBVIOUS
  <2>2. /\ a \in RunType /\ a.open = r.open /\ a.result = text
        /\ a.said = r.said /\ a.failed = r.failed
    <3>1. a \in RunType
      BY <2>1 DEF RunType, Texts
    <3> QED BY <2>1, <3>1 DEF RunType
  <2>3. /\ a.result \in {"text", "empty"}
        /\ a.result = "text" => a.said
        /\ a.result = "empty" => a.failed
    BY <2>2
  <2> QED BY <1>1, <2>1, <2>2, <2>3, NextGood
<1>2. CASE r.phase = "reflect" /\ run' = Answered(r, r.result)
  <2>1. r.result \in Texts /\ Honest(agent.kind, r, r.result)
    BY <1>2 DEF Attempted, Honest, Texts
  <2> QED BY <1>2, <2>1, AnsweredGood
<1>3. CASE r.phase = "reflect" /\ run' = NextPhase(r, "refine")
  BY <1>3, NextGood DEF Attempted
<1>4. CASE /\ r.phase = "refine"
           /\ run' = NextPhase([r EXCEPT !.result = text, !.iteration = @ + 1], "reflect")
  <2>1. PICK a, n : /\ n = r.iteration + 1
                    /\ a = [r EXCEPT !.result = text, !.iteration = n]
    OBVIOUS
  <2>2. a = [r EXCEPT !.result = text, !.iteration = @ + 1]
    BY <2>1
  <2>3. /\ a \in RunType /\ a.open = r.open /\ a.result = text
        /\ a.said = r.said /\ a.failed = r.failed
    <3>1. n \in Nat
      BY <2>1 DEF RunType
    <3>2. a \in RunType
      BY <2>1, <3>1 DEF RunType, Texts
    <3> QED BY <2>1, <3>2 DEF RunType
  <2>4. /\ a.result \in {"text", "empty"}
        /\ a.result = "text" => a.said
        /\ a.result = "empty" => a.failed
    BY <2>3
  <2> QED BY <1>4, <2>2, <2>3, <2>4, NextGood
<1>5. CASE r.phase = "refine" /\ run' = Answered(r, text)
  <2>1. text \in Texts /\ Honest(agent.kind, r, text)
    BY DEF Honest, Texts
  <2> QED BY <1>5, <2>1, AnsweredGood
<1> QED BY <1>1, <1>2, <1>3, <1>4, <1>5 DEF ReflectionPhase

(* The end of a step of a plan.                                            *)
LEMMA PlanGood ==
    ASSUME agent.kind \in Kinds, NEW r \in RunType, r.open = {},
           NEW text \in {"text", "empty"}, text = "text" => r.said, text = "empty" => r.failed,
           PlanPhase(r, text)
    PROVE  Good(agent.kind, run')
<1>1. CASE run' = Answered(r, text)
  <2>1. text \in Texts /\ Honest(agent.kind, r, text)
    BY DEF Honest, Texts
  <2> QED BY <1>1, <2>1, AnsweredGood
<1>2. CASE run' = NextPhase([r EXCEPT !.left = @ - 1], "answer")
  <2>1. PICK a, n : n = r.left - 1 /\ a = [r EXCEPT !.left = n]
    OBVIOUS
  <2>2. n \in Int
    BY <2>1 DEF RunType
  <2>3. a \in RunType /\ a.open = r.open /\ a = [r EXCEPT !.left = @ - 1]
    BY <2>1, <2>2 DEF RunType
  <2> QED BY <1>2, <2>3, NextGood
<1> QED BY <1>1, <1>2 DEF PlanPhase

(* A call has got its result, or all of them have.                         *)
LEMMA BackGood ==
    ASSUME RunInv, NEW a, a = BackToModel({}) PROVE Good(agent.kind, a)
<1>1. run \in RunType /\ Attempted(run)
  BY DEF RunInv, Good
<1>2. PICK r, none : r = run /\ none = <<>>
  OBVIOUS
<1>3. a = [r EXCEPT !.pc = "call", !.calls = none, !.next = 1, !.open = {}]
  BY <1>2 DEF BackToModel
<1>4. none \in AnyCalls /\ {} \in SUBSET Nat /\ 1 \in Nat /\ r \in RunType
  BY <1>1, <1>2 DEF AnyCalls
<1>5. /\ a \in RunType
      /\ a.pc = "call" /\ a.open = {} /\ a.phase = run.phase /\ a.result = run.result
      /\ a.said = run.said /\ a.failed = run.failed
  <2>1. a \in RunType
    BY <1>3, <1>4 DEF RunType
  <2> QED BY <1>2, <1>3, <1>4, <2>1 DEF RunType
<1>6. Answering(a) /\ Attempted(a)
  BY <1>1, <1>5 DEF Answering, Attempted
<1> QED BY <1>5, <1>6 DEF Good

LEMMA AnswerCallGood ==
    ASSUME RunInv, run.pc = "tools" PROVE Good(agent.kind, AnswerCall)
<1>1. run \in RunType /\ Attempted(run) /\ Answering(run)
  BY DEF RunInv, Good
<1>2. PICK n \in Nat, k \in Nat, o \in SUBSET Nat :
         n = run.next /\ k = Len(run.calls) /\ o = run.open \ {n}
  <2>1. run.next \in Nat /\ run.open \in SUBSET Nat /\ run.calls \in AnyCalls
    BY <1>1 DEF RunType
  <2>2. Len(run.calls) \in Nat
    BY <2>1 DEF AnyCalls
  <2> QED BY <2>1, <2>2
<1>3. n \in 1..k /\ o \subseteq (n + 1)..k
  BY <1>1, <1>2 DEF Answering
<1>4. CASE n = k
  <2>1. o = {}
    BY <1>3, <1>4
  <2>2. AnswerCall = BackToModel({})
    BY <1>2, <1>4, <2>1 DEF AnswerCall, Turn
  <2> QED BY <2>2, BackGood
<1>5. CASE n # k
  <2>1. PICK a, r : a = AnswerCall /\ r = run
    OBVIOUS
  <2>2. a = [r EXCEPT !.next = n + 1, !.open = o]
    BY <1>2, <1>5, <2>1 DEF AnswerCall, Turn
  <2>3. r \in RunType /\ n + 1 \in Nat
    BY <1>1, <2>1
  <2>4. /\ a \in RunType
        /\ a.pc = run.pc /\ a.open = o /\ a.next = n + 1 /\ a.calls = run.calls
        /\ a.phase = run.phase /\ a.result = run.result
        /\ a.said = run.said /\ a.failed = run.failed
    <3>1. a \in RunType
      BY <1>2, <2>2, <2>3 DEF RunType
    <3> QED BY <2>1, <2>2, <2>3, <3>1 DEF RunType
  <2>5. Answering(a) /\ Attempted(a)
    BY <1>1, <1>2, <1>3, <1>5, <2>4 DEF Answering, Attempted
  <2>6. a.pc = "tools"
    BY <2>4
  <2> QED BY <2>1, <2>4, <2>5, <2>6 DEF Good
<1> QED BY <1>4, <1>5

------------------------------------------------------------------------------
(* The calls of the model in the loops.                                    *)
LEMMA CallGood ==
    ASSUME RunInv, run.pc \in {"call", "last"}, NEW r \in {run, Stepped}
    PROVE  /\ run' = Answered(Said(r), "text") => Good(agent.kind, run')
           /\ run' = Answered(Failed(r), "apology") => Good(agent.kind, run')
           /\ run' = Answered(Failed(r), "empty") => Good(agent.kind, run')
           /\ \A cs \in CallLists : run' = Asked(r, cs) => Good(agent.kind, run')
           /\ run' = [Failed(r) EXCEPT !.pc = "last"] => Good(agent.kind, run')
           /\ Said(r) \in RunType /\ Attempted(Said(r)) /\ Said(r).open = {} /\ Said(r).said
           /\ Failed(r) \in RunType /\ Attempted(Failed(r)) /\ Failed(r).open = {}
           /\ Failed(r).failed
<1>1. PICK said, failed : said = Said(r) /\ failed = Failed(r)
  OBVIOUS
<1>2. /\ said \in RunType /\ Attempted(said) /\ said.open = run.open /\ said.said
  BY <1>1, SteppedGood
<1>3. /\ failed \in RunType /\ Attempted(failed) /\ failed.open = run.open /\ failed.failed
  BY <1>1, SteppedGood
<1>4. r \in RunType /\ Attempted(r)
  <2>1. r \in {r, Said(r), Failed(r)}
    OBVIOUS
  <2> QED BY <2>1, SteppedGood
<1>5. run.open = {} /\ agent.kind \in Kinds
  BY DEF RunInv, Good, Answering
<1>6. /\ Honest(agent.kind, said, "text") /\ Honest(agent.kind, failed, "apology")
      /\ Honest(agent.kind, failed, "empty") /\ "text" \in Texts /\ "apology" \in Texts
      /\ "empty" \in Texts
  BY <1>2, <1>3 DEF Honest, Texts
<1>7. Good(agent.kind, [failed EXCEPT !.pc = "last"])
  <2>1. PICK a : a = [failed EXCEPT !.pc = "last"]
    OBVIOUS
  <2>2. a \in RunType
    BY <1>3, <2>1 DEF RunType
  <2>3. /\ a.pc = "last" /\ a.open = failed.open /\ a.phase = failed.phase
        /\ a.result = failed.result /\ a.said = failed.said /\ a.failed = failed.failed
    BY <1>3, <2>1 DEF RunType
  <2>4. Answering(a) /\ Attempted(a)
    BY <1>3, <1>5, <2>3 DEF Answering, Attempted
  <2> QED BY <2>1, <2>2, <2>3, <2>4 DEF Good
<1>8. Good(agent.kind, Answered(said, "text"))
  BY <1>2, <1>5, <1>6, AnsweredGood
<1>9. Good(agent.kind, Answered(failed, "apology")) /\ Good(agent.kind, Answered(failed, "empty"))
  BY <1>3, <1>5, <1>6, AnsweredGood
<1>10. \A cs \in CallLists : Good(agent.kind, Asked(r, cs))
  BY <1>4, AskedGood
<1> QED BY <1>1, <1>2, <1>3, <1>5, <1>7, <1>8, <1>9, <1>10

LEMMA ReactGood ==
    ASSUME RunInv, ReactCall \/ ReactAsyncCall \/ ReactStreamCall \/ SimpleCall
                   \/ SimpleLast \/ SimpleStream
    PROVE  Good(agent.kind, run')
<1>1. run.pc \in {"call", "last"}
  BY DEF ReactCall, ReactAsyncCall, ReactStreamCall, SimpleCall, SimpleLast, SimpleStream, Doing
<1>2. Raised = IdleRun /\ Good(agent.kind, IdleRun)
  BY IdleGood DEF Raised, RunInv
<1>3. PICK r : r \in {run, Stepped} /\
         \/ run' = Answered(Said(r), "text")
         \/ run' = Answered(Failed(r), "apology")
         \/ run' = Answered(Failed(r), "empty")
         \/ \E cs \in CallLists : run' = Asked(r, cs)
         \/ run' = [Failed(r) EXCEPT !.pc = "last"]
         \/ run' = Raised
  BY DEF ReactCall, ReactAsyncCall, ReactStreamCall, SimpleCall, SimpleLast, SimpleStream
<1> QED BY <1>1, <1>2, <1>3, CallGood

LEMMA PhaseGood ==
    ASSUME RunInv, ReflectionCall \/ ReflectionLast PROVE Good(agent.kind, run')
<1>1. run.pc \in {"call", "last"} /\ agent.kind \in Kinds
  BY DEF ReflectionCall, ReflectionLast, Doing, RunInv
<1>2. Raised = IdleRun /\ Good(agent.kind, IdleRun)
  BY IdleGood DEF Raised, RunInv
<1>3. PICK r : r \in {run, Stepped} /\
         \/ ReflectionPhase(Said(r), "text")
         \/ ReflectionPhase(Failed(r), "empty")
         \/ \E cs \in CallLists : run' = Asked(r, cs)
         \/ run' = [Failed(r) EXCEPT !.pc = "last"]
         \/ run' = Raised
  BY DEF ReflectionCall, ReflectionLast
<1>4. CASE ReflectionPhase(Said(r), "text")
  BY <1>1, <1>3, <1>4, CallGood, ReflectionGood
<1>5. CASE ReflectionPhase(Failed(r), "empty")
  BY <1>1, <1>3, <1>5, CallGood, ReflectionGood
<1> QED BY <1>1, <1>2, <1>3, <1>4, <1>5, CallGood

LEMMA PlanStepGood ==
    ASSUME RunInv, PlanStepCall \/ PlanLast PROVE Good(agent.kind, run')
<1>1. run.pc \in {"call", "last"} /\ agent.kind \in Kinds
  BY DEF PlanStepCall, PlanLast, Doing, RunInv
<1>2. Raised = IdleRun /\ Good(agent.kind, IdleRun)
  BY IdleGood DEF Raised, RunInv
<1>3. PICK r : r \in {run, Stepped} /\
         \/ PlanPhase(Said(r), "text")
         \/ PlanPhase(Failed(r), "empty")
         \/ \E cs \in CallLists : run' = Asked(r, cs)
         \/ run' = [Failed(r) EXCEPT !.pc = "last"]
         \/ run' = Raised
  BY DEF PlanStepCall, PlanLast
<1>4. CASE PlanPhase(Said(r), "text")
  BY <1>1, <1>3, <1>4, CallGood, PlanGood
<1>5. CASE PlanPhase(Failed(r), "empty")
  BY <1>1, <1>3, <1>5, CallGood, PlanGood
<1> QED BY <1>1, <1>2, <1>3, <1>4, <1>5, CallGood

(* The tool calls.                                                         *)
LEMMA ToolsGood ==
    ASSUME RunInv, ReactTool \/ ReactToolRaises \/ ReactAsyncTools \/ ReactStreamTools
                   \/ SimpleTool \/ ReflectionTool \/ PlanTool
    PROVE  Good(agent.kind, run')
<1>1. /\ run.pc = "tools" /\ agent.kind \in Kinds /\ run \in RunType
      /\ Raised = IdleRun /\ Good(agent.kind, IdleRun)
  BY IdleGood DEF RunInv, Good, Raised, ReactTool, ReactToolRaises, ReactAsyncTools, ReactStreamTools,
         SimpleTool, ReflectionTool, PlanTool, Doing
<1>2. \/ run' = AnswerCall
      \/ run' = Answered(Said(run), "text")
      \/ run' = Raised
      \/ run' = BackToModel({})
      \/ run' = Answered(Failed(run), "apology")
      \/ run' = Answered(run, "error") /\ agent.kind = "react" /\ run.mode = "stream"
  BY DEF ReactTool, ReactToolRaises, ReactAsyncTools, ReactStreamTools, SimpleTool,
         ReflectionTool, PlanTool, Doing
<1>3. PICK said, failed : said = Said(run) /\ failed = Failed(run)
  OBVIOUS
<1>4. said \in RunType /\ said.said /\ failed \in RunType /\ failed.failed
  BY <1>3, SteppedGood
<1>5. /\ Honest(agent.kind, said, "text") /\ Honest(agent.kind, failed, "apology")
      /\ "text" \in Texts /\ "apology" \in Texts /\ "error" \in Texts
  BY <1>4 DEF Honest, Texts
<1>6. agent.kind = "react" /\ run.mode = "stream" => Honest(agent.kind, run, "error")
  BY DEF Honest
<1>7. /\ Good(agent.kind, Answered(said, "text")) /\ Good(agent.kind, Answered(failed, "apology"))
      /\ agent.kind = "react" /\ run.mode = "stream" => Good(agent.kind, Answered(run, "error"))
  BY <1>1, <1>4, <1>5, <1>6, AnsweredGood
<1>8. Good(agent.kind, AnswerCall) /\ Good(agent.kind, BackToModel({}))
  <2>1. Good(agent.kind, AnswerCall)
    BY <1>1, AnswerCallGood
  <2>2. Good(agent.kind, BackToModel({}))
    BY BackGood
  <2> QED BY <2>1, <2>2
<1> QED BY <1>1, <1>2, <1>3, <1>7, <1>8

(* Only the place in the run changes.                                      *)
LEMMA PlaceGood ==
    ASSUME RunInv, NEW pc \in {"last", "record", "answer"},
           run' = [run EXCEPT !.pc = pc],
           pc = "last" => run.pc = "call",
           pc = "record" => run.pc = "deliver",
           pc = "answer" => run.pc = "record"
    PROVE  Good(agent.kind, run')
<1>1. PICK r, a : r = run /\ a = [r EXCEPT !.pc = pc]
  OBVIOUS
<1>2. r \in RunType /\ Answering(r) /\ Attempted(r) /\ Good(agent.kind, r)
  BY <1>1 DEF RunInv, Good
<1>3. a \in RunType
  BY <1>1, <1>2 DEF RunType
<1>4. /\ a.pc = pc /\ a.open = r.open /\ a.phase = r.phase /\ a.mode = r.mode
      /\ a.result = r.result /\ a.said = r.said /\ a.failed = r.failed
      /\ a.answer = r.answer /\ a.step = r.step
  BY <1>1, <1>2 DEF RunType
<1>5. Answering(a) /\ Attempted(a)
  BY <1>1, <1>2, <1>4 DEF Answering, Attempted
<1>6. pc # "last" => Honest(agent.kind, a, a.answer)
  <2>1. pc # "last" => Honest(agent.kind, r, r.answer)
    BY <1>1, <1>2 DEF Good
  <2> QED BY <1>4, <2>1 DEF Honest
<1> QED BY <1>1, <1>3, <1>4, <1>5, <1>6 DEF Good

(* The plan, and what else the loops do.                                   *)
LEMMA OtherGood ==
    ASSUME RunInv, ReactOutOfSteps \/ LoopEnds \/ ReflectionStream \/ PlanCall \/ PlanStream
                   \/ Delivered
    PROVE  Good(agent.kind, run')
<1>1. /\ agent.kind \in Kinds /\ run \in RunType /\ Attempted(run)
      /\ Raised = IdleRun /\ Good(agent.kind, IdleRun)
  BY IdleGood DEF RunInv, Good, Raised
<1>2. PICK said, failed : said = Said(run) /\ failed = Failed(run)
  OBVIOUS
<1>3. said \in RunType /\ said.said /\ failed \in RunType /\ failed.failed
  BY <1>2, SteppedGood
<1>4. /\ Honest(agent.kind, said, "text") /\ Honest(agent.kind, failed, "apology")
      /\ Honest(agent.kind, failed, "empty")
      /\ "text" \in Texts /\ "apology" \in Texts /\ "empty" \in Texts
  BY <1>3 DEF Honest, Texts
<1>5. /\ Good(agent.kind, Answered(said, "text")) /\ Good(agent.kind, Answered(failed, "apology"))
      /\ Good(agent.kind, Answered(failed, "empty"))
  BY <1>1, <1>3, <1>4, AnsweredGood
<1>6. CASE ReactOutOfSteps
  <2>1. Honest(agent.kind, run, "apology")
    BY <1>6 DEF ReactOutOfSteps, Honest
  <2> QED BY <1>1, <1>4, <1>6, <2>1, AnsweredGood DEF ReactOutOfSteps
<1>7. CASE LoopEnds
  BY <1>7, PlaceGood DEF LoopEnds
<1>8. CASE Delivered
  BY <1>8, PlaceGood DEF Delivered
<1>9. CASE ReflectionStream
  BY <1>1, <1>9 DEF ReflectionStream
<1>10. CASE PlanCall
  <2>1. CASE run' = Answered(Failed(run), "apology")
    BY <1>2, <1>5, <2>1
  <2>2. ASSUME NEW n \in 1..MaxPlan, NEW pc \in {"call", "last"},
               run' = [run EXCEPT !.left = n, !.step = 0, !.pc = pc]
        PROVE  Good(agent.kind, run')
    <3>1. PICK r, a : r = run /\ a = [r EXCEPT !.left = n, !.step = 0, !.pc = pc]
      OBVIOUS
    <3>2. r \in RunType /\ n \in Int /\ r.open = {}
      <4>1. run.pc = "plan"
        BY <1>10 DEF PlanCall
      <4> QED BY <1>1, <3>1, <4>1 DEF RunInv, Good, Answering
    <3>3. a \in RunType
      BY <3>1, <3>2 DEF RunType
    <3>4. /\ a.pc = pc /\ a.open = r.open /\ a.phase = r.phase
          /\ a.result = r.result /\ a.said = r.said /\ a.failed = r.failed
      BY <3>1, <3>2 DEF RunType
    <3>5. Answering(a) /\ Attempted(a)
      BY <1>1, <3>1, <3>2, <3>4 DEF Answering, Attempted
    <3> QED BY <2>2, <3>1, <3>3, <3>4, <3>5 DEF Good
  <2>3. (IF run.mode = "stream" THEN "call" ELSE Loop) \in {"call", "last"}
    BY DEF Loop
  <2> QED BY <1>10, <2>1, <2>2, <2>3 DEF PlanCall
<1>11. CASE PlanStream
  <2>1. CASE run' = [run EXCEPT !.left = @ - 1]
    <3>1. PICK r, n, a : r = run /\ n = r.left - 1 /\ a = [r EXCEPT !.left = n]
      OBVIOUS
    <3>2. r \in RunType /\ n \in Int /\ r.open = {} /\ r.pc = "call"
      BY <1>1, <1>11, <3>1 DEF RunInv, Good, Answering, PlanStream, Doing, RunType
    <3>3. a \in RunType
      BY <3>1, <3>2 DEF RunType
    <3>4. /\ a.pc = r.pc /\ a.open = r.open /\ a.phase = r.phase
          /\ a.result = r.result /\ a.said = r.said /\ a.failed = r.failed
      BY <3>1, <3>2 DEF RunType
    <3>5. Answering(a) /\ Attempted(a)
      BY <1>1, <3>1, <3>2, <3>4 DEF Answering, Attempted
    <3> QED BY <2>1, <3>1, <3>2, <3>3, <3>4, <3>5 DEF Good
  <2> QED BY <1>1, <1>2, <1>5, <1>11, <2>1 DEF PlanStream
<1> QED BY <1>6, <1>7, <1>8, <1>9, <1>10, <1>11

LEMMA StartedGood == ASSUME RunInv, NEW mode \in Modes PROVE Good(agent.kind, Started(mode))
<1>1. PICK phase, pc : /\ phase = (IF agent.kind = "reflection" THEN "attempt" ELSE "answer")
                       /\ pc = (IF agent.kind = "plan" THEN "plan"
                                ELSE IF agent.kind = "react" \/ mode = "stream" THEN "call"
                                ELSE Loop)
  OBVIOUS
<1>2. PICK r, a : r = IdleRun /\ a = [r EXCEPT !.mode = mode, !.phase = phase, !.pc = pc]
  OBVIOUS
<1>3. /\ r \in RunType /\ r.open = {} /\ mode \in {"run", "async", "stream"}
      /\ pc \in {"plan", "call", "last"} /\ phase \in {"attempt", "answer"}
  <2>1. r \in RunType /\ r.open = {}
    BY <1>2, IdleGood DEF RunInv, Good, Answering, IdleRun
  <2> QED BY <1>1, <2>1 DEF Modes, Loop
<1>4. a \in RunType
  <2>1. r \in RunType /\ a = [r EXCEPT !.mode = mode, !.phase = phase, !.pc = pc]
    BY <1>2, <1>3
  <2>2. phase \in {"answer", "attempt", "reflect", "refine"} /\ mode \in {"run", "async", "stream"}
        /\ pc \in {"idle", "plan", "call", "tools", "last", "deliver", "record", "answer"}
    BY <1>3
  <2> QED BY <2>1, <2>2 DEF RunType
<1>5. a.open = {} /\ a.pc = pc /\ a.phase = phase
  <2>1. a = [r EXCEPT !.mode = mode, !.phase = phase, !.pc = pc] /\ r \in RunType /\ r.open = {}
    BY <1>2, <1>3
  <2> QED BY <2>1 DEF RunType
<1>6. Answering(a) /\ Attempted(a)
  BY <1>3, <1>5 DEF Answering, Attempted
<1>7. a = Started(mode)
  BY <1>1, <1>2 DEF Started
<1> QED BY <1>3, <1>4, <1>5, <1>6, <1>7 DEF Good

LEMMA RunStep == RunInv /\ [Next]_vars => RunInv'
<1> SUFFICES ASSUME RunInv, [Next]_vars PROVE RunInv'
  OBVIOUS
<1>1. agent' = agent
  BY DEF Next, Work, ReactCall, ReactTool, ReactToolRaises, ReactOutOfSteps, ReactAsyncCall,
         ReactAsyncTools, ReactStreamCall, ReactStreamTools, SimpleCall, SimpleTool, SimpleLast,
         LoopEnds, SimpleStream, ReflectionCall, ReflectionTool, ReflectionLast,
         ReflectionStream, PlanCall, PlanStepCall, PlanTool, PlanLast, PlanStream, Delivered,
         RecordQuestion, RecordAnswer, EndSubtask, CloseStream, Interrupt, StartRun,
         StartOnClosedTrace, BeginSubtask, Save, Load, Clear, Crash, RunOnly, control, vars
<1>2. Good(agent.kind, IdleRun) /\ Raised = IdleRun /\ Good(agent.kind, run)
  BY IdleGood DEF RunInv, Raised
<1>3. CASE Work
  <2>1. RecordQuestion => Good(agent.kind, run')
    <3>1. RecordQuestion => run.pc = "record" /\ run' = [run EXCEPT !.pc = "answer"]
      BY DEF RecordQuestion
    <3> QED BY <3>1, PlaceGood
  <2>2. RecordAnswer \/ EndSubtask => Good(agent.kind, run')
    <3>1. RecordAnswer \/ EndSubtask => run' = IdleRun \/ run' = run
      BY DEF RecordAnswer, EndSubtask
    <3> QED BY <1>2, <3>1
  <2>3. Good(agent.kind, run')
    BY ONLY RunInv, <1>3, <2>1, <2>2, ReactGood, PhaseGood, PlanStepGood, ToolsGood, OtherGood DEF Work
  <2> QED BY <1>1, <2>3 DEF RunInv
<1>4. CASE StartRun \/ StartOnClosedTrace \/ BeginSubtask
  <2>1. "run" \in Modes
    BY DEF Modes
  <2>2. run' = Raised \/ \E mode \in Modes : run' = Started(mode)
    BY <1>4, <2>1 DEF StartRun, StartOnClosedTrace, BeginSubtask
  <2> QED BY <1>1, <1>2, <2>2, StartedGood DEF RunInv
<1>5. CASE CloseStream \/ Interrupt \/ Crash
  BY <1>1, <1>2, <1>5 DEF CloseStream, Interrupt, Crash, RunInv
<1>6. CASE Save \/ Load \/ Clear \/ UNCHANGED vars
  BY <1>1, <1>2, <1>6 DEF Save, Load, Clear, vars, RunInv
<1> QED BY <1>3, <1>4, <1>5, <1>6 DEF Next

LEMMA RunStart == Init => RunInv
BY IdleGood DEF Init, RunInv, Kinds

(* No loop of the agents (ReActAgent.run, arun and arun_stream, and        *)
(* _run_with_tools of the others) calls the model while one of its tool    *)
(* calls lacks a result, for any numbers of steps and calls.               *)
THEOREM NoCallUnanswered == Spec => []CallsAnswered
<1>1. RunInv => CallsAnswered
  BY DEF RunInv, Good, Answering, CallsAnswered
<1> QED BY <1>1, RunStart, RunStep, PTL DEF Spec

(* What the agents record as an answer is the model's text, or says what   *)
(* became of the run.                                                      *)
THEOREM AnswersHonest == Spec => []AnswerHonest
<1>1. RunInv => AnswerHonest
  BY DEF RunInv, Good, Honest, AnswerHonest
<1> QED BY <1>1, RunStart, RunStep, PTL DEF Spec

------------------------------------------------------------------------------
(* Counting.  Sets of numbers have a least element, which is the induction *)
(* the following lemmas need.                                              *)
LEMMA LeastNumber ==
    ASSUME NEW T \in SUBSET Nat, T # {} PROVE \E n \in T : \A k \in T : n <= k
<1>1. PICK n \in T : \A k \in T : ~ (<<k, n>> \in OpToRel(<, Nat))
  BY NatLessThanWellFounded, WFMin, Zenon
<1>2. \A k \in T : ~ (k < n)
  BY <1>1, Zenon DEF OpToRel
<1> QED BY <1>2

(* count_messages: the sum of the sizes is unique, and exists.             *)
IsSum(h, f) == f = [n \in 0..Len(h) |-> IF n = 0 THEN 0 ELSE f[n - 1] + h[n].size]

LEMMA SumValues ==
    ASSUME NEW h, Len(h) \in Nat, NEW f, IsSum(h, f)
    PROVE  /\ DOMAIN f = 0..Len(h) /\ f[0] = 0
           /\ \A n \in 1..Len(h) : f[n] = f[n - 1] + h[n].size
<1>1. DOMAIN f = 0..Len(h)
  BY DEF IsSum
<1>2. \A n \in 0..Len(h) : f[n] = IF n = 0 THEN 0 ELSE f[n - 1] + h[n].size
  BY DEF IsSum
<1> QED BY <1>1, <1>2

LEMMA SumUnique ==
    ASSUME NEW h, Len(h) \in Nat, NEW f, IsSum(h, f), NEW g, NEW k, Len(k) \in Nat, IsSum(k, g),
           Len(h) <= Len(k), \A i \in 1..Len(h) : k[i] = h[i]
    PROVE  \A n \in 0..Len(h) : f[n] = g[n]
<1>1. PICK T : T = {n \in 0..Len(h) : f[n] # g[n]}
  OBVIOUS
<1>2. ASSUME T # {} PROVE FALSE
  <2>1. PICK n \in T : \A m \in T : n <= m
    <3>1. T \in SUBSET Nat
      BY <1>1
    <3> QED BY <1>2, <3>1, LeastNumber
  <2>2. n \in 0..Len(h) /\ f[n] # g[n]
    BY <1>1
  <2>3. n # 0
    BY <2>2, SumValues
  <2>4. n - 1 \in 0..Len(h) /\ n - 1 \notin T /\ n \in 1..Len(h) /\ n \in 1..Len(k)
    BY <2>1, <2>2, <2>3
  <2>5. f[n - 1] = g[n - 1]
    BY <1>1, <2>4
  <2>6. f[n] = f[n - 1] + h[n].size /\ g[n] = g[n - 1] + k[n].size /\ k[n] = h[n]
    BY <2>4, SumValues
  <2> QED BY <2>2, <2>5, <2>6
<1> QED BY <1>1, <1>2

LEMMA SumExists == ASSUME NEW h, Len(h) \in Nat PROVE \E f : IsSum(h, f)
<1> DEFINE Upto(k, f) == f = [n \in 0..k |-> IF n = 0 THEN 0 ELSE f[n - 1] + h[n].size]
<1>1. PICK T : T = {k \in 0..Len(h) : ~ \E f : Upto(k, f)}
  OBVIOUS
<1>2. ASSUME T # {} PROVE FALSE
  <2>1. PICK k \in T : \A m \in T : k <= m
    <3>1. T \in SUBSET Nat
      BY <1>1
    <3> QED BY <1>2, <3>1, LeastNumber
  <2>2. k \in 0..Len(h) /\ k \in Nat /\ ~ \E f : Upto(k, f)
    BY <1>1
  <2>3. CASE k = 0
    <3>1. PICK f : f = [n \in 0..0 |-> 0]
      OBVIOUS
    <3>2. f = [n \in 0..k |-> IF n = 0 THEN 0 ELSE f[n - 1] + h[n].size]
      BY <2>3, <3>1
    <3> QED BY <2>2, <3>2
  <2>4. CASE k # 0
    <3>1. k - 1 \in 0..Len(h) /\ k - 1 \notin T
      BY <2>1, <2>2, <2>4
    <3>2. PICK f : Upto(k - 1, f)
      BY <1>1, <3>1
    <3>3. f = [n \in 0..(k - 1) |-> IF n = 0 THEN 0 ELSE f[n - 1] + h[n].size]
      BY <3>2
    <3>4. \A n \in 0..(k - 1) : f[n] = IF n = 0 THEN 0 ELSE f[n - 1] + h[n].size
      BY <3>3
    <3>5. PICK g : g = [n \in 0..k |-> IF n = k THEN f[k - 1] + h[k].size ELSE f[n]]
      OBVIOUS
    <3>6. \A n \in 0..k : g[n] = IF n = 0 THEN 0 ELSE g[n - 1] + h[n].size
      <4> SUFFICES ASSUME NEW n \in 0..k
                   PROVE  g[n] = IF n = 0 THEN 0 ELSE g[n - 1] + h[n].size
        OBVIOUS
      <4>1. CASE n = k
        <5>1. n - 1 \in 0..k /\ n - 1 # k
          BY <2>2, <2>4, <4>1
        <5>2. g[n - 1] = f[n - 1]
          BY <3>5, <5>1
        <5> QED BY <2>4, <3>5, <4>1, <5>2
      <4>2. CASE n # k
        <5>1. n \in 0..(k - 1) /\ g[n] = f[n]
          BY <2>2, <3>5, <4>2
        <5>2. n # 0 => n - 1 \in 0..k /\ n - 1 # k
          BY <2>2, <5>1
        <5>3. n # 0 => g[n - 1] = f[n - 1]
          BY <3>5, <5>2
        <5> QED BY <3>4, <5>1, <5>3
      <4> QED BY <4>1, <4>2
    <3>7. g = [n \in 0..k |-> IF n = 0 THEN 0 ELSE g[n - 1] + h[n].size]
      BY <3>5, <3>6
    <3> QED BY <2>2, <3>7
  <2> QED BY <2>3, <2>4
<1>3. Len(h) \notin T /\ Len(h) \in 0..Len(h)
  BY <1>2
<1> QED BY <1>1, <1>3 DEF IsSum

LEMMA TokensSum ==
    ASSUME NEW h, Len(h) \in Nat PROVE \E f : IsSum(h, f) /\ Tokens(h) = f[Len(h)]
<1>1. IsSum(h, CHOOSE f : IsSum(h, f))
  BY SumExists
<1>2. Tokens(h) = (CHOOSE f : IsSum(h, f))[Len(h)]
  BY DEF Tokens, IsSum
<1> QED BY <1>1, <1>2

LEMMA TokensNone == Tokens(<<>>) = 0
<1>1. PICK h : h = <<>> /\ Len(h) = 0
  OBVIOUS
<1>2. PICK f : IsSum(h, f) /\ Tokens(h) = f[Len(h)]
  BY <1>1, TokensSum
<1> QED BY <1>1, <1>2, SumValues

LEMMA TokensAppend ==
    ASSUME NEW S, NEW h \in Seq(S), NEW m PROVE Tokens(Append(h, m)) = Tokens(h) + m.size
<1>1. PICK k : k = Append(h, m)
  OBVIOUS
<1>2. /\ Len(h) \in Nat /\ Len(k) = Len(h) + 1 /\ Len(k) \in Nat
      /\ k[Len(h) + 1] = m /\ \A i \in 1..Len(h) : k[i] = h[i]
  <2>1. h \in Seq(S \cup {m})
    OBVIOUS
  <2> QED BY <1>1, <2>1
<1>3. PICK f : IsSum(h, f) /\ Tokens(h) = f[Len(h)]
  BY <1>2, TokensSum
<1>4. PICK g : IsSum(k, g) /\ Tokens(k) = g[Len(k)]
  BY <1>2, TokensSum
<1>5. f[Len(h)] = g[Len(h)]
  BY <1>2, <1>3, <1>4, SumUnique
<1>6. g[Len(h) + 1] = g[Len(h)] + m.size
  BY <1>2, <1>4, SumValues
<1> QED BY <1>1, <1>2, <1>3, <1>4, <1>5, <1>6

(* The last so many of a set of numbers begin at one of them.              *)
LEMMA FromOneOfThem ==
    ASSUME NEW k \in Nat \ {0}, NEW top \in Nat, NEW B \in SUBSET (0..top),
           Cardinality(B) >= k
    PROVE  \E i \in B : Cardinality({j \in B : j >= i}) = k
<1> DEFINE From(n) == {j \in B : j >= n}
<1>0. \A j \in B : j \in Nat /\ j <= top
  OBVIOUS
<1>1. IsFiniteSet(B)
  <2>1. IsFiniteSet(0..top)
    BY FS_Interval
  <2> QED BY <2>1, FS_Subset
<1>2. \A n : IsFiniteSet(From(n)) /\ Cardinality(From(n)) \in Nat
  <2> SUFFICES ASSUME NEW n PROVE IsFiniteSet(From(n)) /\ Cardinality(From(n)) \in Nat
    OBVIOUS
  <2>1. From(n) \in SUBSET B
    OBVIOUS
  <2> QED BY <1>1, <2>1, FS_Subset, FS_CardinalityType
<1>3. PICK T : T = {n \in Nat : Cardinality(From(n)) < k}
  OBVIOUS
<1>4. top + 1 \in T
  <2>1. From(top + 1) = {}
    <3>1. \A j \in B : ~(j >= top + 1)
      BY <1>0
    <3> QED BY <3>1
  <2>2. Cardinality(From(top + 1)) = 0
    BY <2>1, FS_EmptySet
  <2> QED BY <1>3, <2>2
<1>5. PICK n \in T : \A m \in T : n <= m
  <2>1. T \in SUBSET Nat /\ T # {}
    BY <1>3, <1>4
  <2> QED BY <2>1, LeastNumber
<1>6. n \in Nat /\ Cardinality(From(n)) < k
  BY <1>3
<1>7. n # 0
  <2>1. From(0) = B
    <3>1. \A j \in B : j >= 0
      BY <1>0
    <3> QED BY <3>1
  <2>2. Cardinality(B) \in Nat
    BY <1>1, FS_CardinalityType
  <2> QED BY <1>6, <2>1, <2>2
<1>8. n - 1 \in Nat /\ n - 1 \notin T
  BY <1>5, <1>6, <1>7
<1>9. Cardinality(From(n - 1)) >= k
  <2>1. Cardinality(From(n - 1)) \in Nat /\ ~(Cardinality(From(n - 1)) < k)
    BY <1>2, <1>3, <1>8
  <2> QED BY <2>1
<1>10. CASE n - 1 \in B
  <2>1. From(n - 1) = From(n) \cup {n - 1} /\ n - 1 \notin From(n)
    <3>1. \A j \in B : j >= n - 1 <=> (j >= n \/ j = n - 1)
      BY <1>0, <1>6, <1>8
    <3>2. ~(n - 1 >= n)
      BY <1>6
    <3> QED BY <1>10, <3>1, <3>2
  <2>2. Cardinality(From(n - 1)) = Cardinality(From(n)) + 1
    <3>1. PICK S, x : S = From(n) /\ x = n - 1
      OBVIOUS
    <3>2. IsFiniteSet(S) /\ x \notin S
      BY <1>2, <2>1, <3>1
    <3>3. Cardinality(S \cup {x}) = Cardinality(S) + 1
      BY ONLY <3>2, FS_AddElement
    <3> QED BY <2>1, <3>1, <3>3
  <2>3. Cardinality(From(n - 1)) = k
    BY <1>2, <1>6, <1>9, <2>2
  <2> QED BY <1>10, <2>3
<1>11. CASE n - 1 \notin B
  <2>1. From(n - 1) = From(n)
    <3>1. \A j \in B : j >= n - 1 <=> j >= n
      BY <1>0, <1>6, <1>8, <1>11
    <3> QED BY <3>1
  <2>2. Cardinality(From(n - 1)) = Cardinality(From(n))
    BY <2>1
  <2>3. Cardinality(From(n)) \in Nat
    BY <1>2
  <2> HIDE DEF From
  <2> QED BY <1>6, <1>9, <2>2, <2>3
<1> QED BY <1>10, <1>11

------------------------------------------------------------------------------
(* A conversation h in which the questions of the rounds in A were asked,  *)
(* and those of the rounds in C broke off.                                 *)
Msg == [role : {"user", "assistant", "summary"}, round : Nat, size : Nat]

Lost(h, A, r) ==
    /\ Len(h) > 0 /\ h[1].role = "summary"
    /\ Cardinality({q \in A : q > r}) >= MinRetain

Ordered(h) ==
    \A i, j \in DOMAIN h : i < j =>
       /\ h[i].round <= h[j].round
       /\ h[j].role = "user" => h[i].round < h[j].round

Paired(h, C) ==
    \A i \in DOMAIN h : h[i].role = "user" =>
       \/ h[i].round \in C \/ i = Len(h)
       \/ i < Len(h) /\ h[i + 1].role = "assistant" /\ h[i + 1].round = h[i].round

Headed(h) == \A i \in DOMAIN h : h[i].role = "summary" => i = 1

Accounted(h, A) ==
    /\ \A i \in DOMAIN h : h[i].role = "user" => h[i].round \in A
    /\ \A r \in A : (\E i \in Boundaries(h) : h[i].round = r) \/ Lost(h, A, r)

Conv(h, A, C) ==
    /\ h \in Seq(Msg) /\ A \subseteq Nat /\ IsFiniteSet(A)
    /\ Ordered(h) /\ Paired(h, C) /\ Headed(h) /\ Accounted(h, A)

(* Its last question has an answer, or broke off.                          *)
Closed(h, C) == Len(h) > 0 /\ h[Len(h)].role = "user" => h[Len(h)].round \in C

(* The rounds it knows of, up to n.                                        *)
Until(h, A, n) == (\A i \in DOMAIN h : h[i].round <= n) /\ \A r \in A : r <= n

(* It ends with the question of round r.                                   *)
Ends(h, r) == Len(h) > 0 /\ h[Len(h)].role = "user" /\ h[Len(h)].round = r

(* Where a compressed conversation begins.                                 *)
LEMMA KeepFromIs ==
    ASSUME NEW h \in Seq(Msg), Rounds(h) > MinRetain
    PROVE  /\ KeepFrom(h) \in Boundaries(h) /\ KeepFrom(h) > 1
           /\ Cardinality({j \in Boundaries(h) : j >= KeepFrom(h)}) = MinRetain
           /\ Boundaries(h) \subseteq 1..Len(h) /\ IsFiniteSet(Boundaries(h))
<1>1. PICK B, n : B = Boundaries(h) /\ n = Len(h)
  OBVIOUS
<1>2. n \in Nat /\ DOMAIN h = 1..n /\ B \subseteq 1..n /\ B \in SUBSET (0..n)
  BY <1>1 DEF Boundaries
<1>3. MinRetain \in Nat \ {0} /\ Cardinality(B) > MinRetain
  BY <1>1, HistoryAssumption DEF Rounds
<1>4. IsFiniteSet(B) /\ Cardinality(B) \in Nat
  <2>1. IsFiniteSet(0..n)
    BY <1>2, FS_Interval
  <2>2. IsFiniteSet(B)
    BY <1>2, <2>1, FS_Subset
  <2> QED BY <2>2, FS_CardinalityType
<1>5. \E i \in B : Cardinality({j \in B : j >= i}) = MinRetain
  <2>1. Cardinality(B) >= MinRetain
    BY <1>3, <1>4
  <2> QED BY <1>2, <1>3, <2>1, FromOneOfThem
<1>6. KeepFrom(h) = CHOOSE i \in B : Cardinality({j \in B : j >= i}) = MinRetain
  BY <1>1 DEF KeepFrom
<1>7. KeepFrom(h) \in B /\ Cardinality({j \in B : j >= KeepFrom(h)}) = MinRetain
  BY <1>5, <1>6
<1>8. KeepFrom(h) # 1
  <2> SUFFICES ASSUME KeepFrom(h) = 1 PROVE FALSE
    OBVIOUS
  <2>1. \A j \in B : j >= 1
    BY <1>2
  <2>2. {j \in B : j >= 1} = B
    BY <2>1
  <2>3. Cardinality(B) = MinRetain
    BY <1>7, <2>2
  <2> QED BY <1>3, <1>4, <2>3
<1> QED BY <1>1, <1>2, <1>4, <1>7, <1>8

LEMMA CompressIs ==
    ASSUME NEW h \in Seq(Msg), Rounds(h) > MinRetain,
           NEW K, K = KeepFrom(h), NEW g, g = Compress(h)
    PROVE  /\ K \in 2..Len(h) /\ h[K].role = "user"
           /\ g \in Seq(Msg) /\ Len(g) = Len(h) - K + 2
           /\ g[1] = Message("summary", 0, 1)
           /\ \A i \in 2..Len(g) : g[i] = h[i + K - 2] /\ i + K - 2 \in K..Len(h)
<1>1. PICK n : n = Len(h)
  OBVIOUS
<1>2. n \in Nat /\ DOMAIN h = 1..n
  BY <1>1
<1>3. K \in 2..n /\ h[K].role = "user"
  <2>1. K \in Boundaries(h) /\ K > 1
    BY KeepFromIs
  <2> QED BY <1>2, <2>1 DEF Boundaries
<1>4. PICK t, s : t = SubSeq(h, K, n) /\ s = Message("summary", 0, 1)
  OBVIOUS
<1>5. s \in Msg
  BY <1>4 DEF Msg, Message
<1>6. /\ t \in Seq(Msg) /\ Len(t) = n - K + 1
      /\ \A i \in 1..(n - K + 1) : t[i] = h[K + i - 1]
  BY <1>1, <1>2, <1>3, <1>4
<1>7. ~(Rounds(h) <= MinRetain)
  <2>1. Rounds(h) \in Nat /\ MinRetain \in Nat
    BY KeepFromIs, FS_CardinalityType, HistoryAssumption DEF Rounds
  <2> QED BY <2>1
<1>8. g = <<s>> \o t
  BY <1>1, <1>4, <1>7 DEF Compress
<1>9. <<s>> \in Seq(Msg) /\ Len(<<s>>) = 1 /\ <<s>>[1] = s
  BY <1>5
<1>10. /\ g \in Seq(Msg) /\ Len(g) = 1 + Len(t) /\ g[1] = s
       /\ \A i \in 2..Len(g) : g[i] = t[i - 1]
  BY <1>6, <1>8, <1>9
<1>11. Len(g) = n - K + 2
  BY <1>2, <1>3, <1>6, <1>10
<1>12. ASSUME NEW i \in 2..Len(g) PROVE g[i] = h[i + K - 2] /\ i + K - 2 \in K..n
  <2>1. i - 1 \in 1..(n - K + 1) /\ K + (i - 1) - 1 = i + K - 2 /\ i + K - 2 \in K..n
    BY <1>2, <1>3, <1>11, <1>12
  <2>2. g[i] = t[i - 1]
    BY <1>10, <1>12
  <2> QED BY <1>6, <2>1, <2>2
<1> QED BY <1>1, <1>3, <1>4, <1>10, <1>11, <1>12

(* It keeps MinRetain rounds.                                              *)
LEMMA CompressRounds ==
    ASSUME NEW h \in Seq(Msg), Rounds(h) > MinRetain
    PROVE  Rounds(Compress(h)) = MinRetain
<1>1. PICK g, K, S, T : /\ g = Compress(h) /\ K = KeepFrom(h) /\ T = Boundaries(g)
                        /\ S = {j \in Boundaries(h) : j >= K}
  OBVIOUS
<1>2. /\ K \in 2..Len(h) /\ Len(g) = Len(h) - K + 2 /\ Len(h) \in Nat
      /\ g[1].role = "summary" /\ DOMAIN g = 1..Len(g) /\ DOMAIN h = 1..Len(h)
      /\ \A i \in 2..Len(g) : g[i] = h[i + K - 2]
  <2>1. /\ K \in 2..Len(h) /\ Len(g) = Len(h) - K + 2 /\ Len(h) \in Nat
        /\ g[1] = Message("summary", 0, 1) /\ g \in Seq(Msg)
        /\ \A i \in 2..Len(g) : g[i] = h[i + K - 2]
    BY <1>1, CompressIs
  <2> QED BY <2>1 DEF Message
<1>3. IsFiniteSet(S) /\ Cardinality(S) = MinRetain
  <2>1. IsFiniteSet(Boundaries(h)) /\ S \in SUBSET Boundaries(h)
    BY <1>1, KeepFromIs
  <2>2. IsFiniteSet(S)
    BY <2>1, FS_Subset
  <2> QED BY <1>1, <2>2, KeepFromIs
<1>4. \A i : i \in T <=> i \in 2..Len(g) /\ h[i + K - 2].role = "user"
  <2>1. \A i : i \in T <=> i \in 1..Len(g) /\ g[i].role = "user"
    BY <1>1, <1>2 DEF Boundaries
  <2>2. 1 \notin T
    BY <1>2, <2>1
  <2>3. \A i : i \in 1..Len(g) /\ i # 1 <=> i \in 2..Len(g)
    BY <1>2
  <2>4. \A i \in 2..Len(g) : g[i].role = h[i + K - 2].role
    BY <1>2
  <2> QED BY <2>1, <2>2, <2>3, <2>4, Zenon
<1>5. \A j : j \in S <=> j \in K..Len(h) /\ h[j].role = "user"
  BY <1>1, <1>2 DEF Boundaries
<1>6. PICK f : f = [j \in S |-> j - K + 2]
  OBVIOUS
<1>7. \A j \in S : f[j] = j - K + 2 /\ f[j] \in T
  <2> SUFFICES ASSUME NEW j \in S PROVE f[j] = j - K + 2 /\ f[j] \in T
    OBVIOUS
  <2>1. f[j] = j - K + 2 /\ j \in K..Len(h) /\ h[j].role = "user"
    BY <1>5, <1>6
  <2>2. j - K + 2 \in 2..Len(g) /\ (j - K + 2) + K - 2 = j
    BY <1>2, <2>1
  <2> QED BY <1>4, <2>1, <2>2
<1>8. f \in Injection(S, T)
  <2>1. f \in [S -> T]
    BY <1>6, <1>7
  <2>2. \A i, j \in S : f[i] = f[j] => i = j
    <3>1. \A j \in S : j \in Int
      BY <1>2, <1>5
    <3> QED BY <1>2, <1>7, <3>1
  <2>3. DOMAIN f = S
    BY <1>6
  <2> QED BY <2>1, <2>2, <2>3 DEF Injection, IsInjective
<1>9. f \in Surjection(S, T)
  <2>1. f \in [S -> T]
    BY <1>6, <1>7
  <2>2. ASSUME NEW i \in T PROVE \E j \in S : f[j] = i
    <3>1. i \in 2..Len(g) /\ h[i + K - 2].role = "user"
      BY <1>4, <2>2
    <3>2. i + K - 2 \in K..Len(h) /\ (i + K - 2) - K + 2 = i
      BY <1>2, <3>1
    <3>3. i + K - 2 \in S
      BY <1>5, <3>1, <3>2
    <3>4. f[i + K - 2] = i
      BY <1>7, <3>2, <3>3
    <3> QED BY <3>3, <3>4
  <2> QED BY <2>1, <2>2 DEF Surjection
<1>10. Cardinality(T) = Cardinality(S)
  <2>1. ExistsBijection(S, T)
    BY <1>8, <1>9 DEF ExistsBijection, Bijection
  <2> QED BY <1>3, <2>1, FS_Bijection
<1> QED BY <1>1, <1>3, <1>10 DEF Rounds

(* Of a round that compression removes, MinRetain later ones remain.       *)
LEMMA CompressLost ==
    ASSUME NEW h, NEW A, NEW C, Conv(h, A, C), Rounds(h) > MinRetain,
           NEW i \in Boundaries(h), i < KeepFrom(h)
    PROVE  Cardinality({q \in A : q > h[i].round}) >= MinRetain
<1>1. PICK K, S, Q : /\ K = KeepFrom(h) /\ S = {j \in Boundaries(h) : j >= K}
                     /\ Q = {q \in A : q > h[i].round}
  OBVIOUS
<1>2. h \in Seq(Msg) /\ A \subseteq Nat /\ IsFiniteSet(A) /\ Ordered(h) /\ Accounted(h, A)
  BY DEF Conv
<1>3. /\ Cardinality(S) = MinRetain /\ K \in Boundaries(h)
      /\ Boundaries(h) \subseteq 1..Len(h)
  BY <1>1, <1>2, KeepFromIs
<1>4. IsFiniteSet(Q) /\ Cardinality(Q) \in Nat
  <2>1. Q \in SUBSET A
    BY <1>1
  <2>2. IsFiniteSet(Q)
    BY <1>2, <2>1, FS_Subset
  <2> QED BY <2>2, FS_CardinalityType
<1>5. \A j \in Boundaries(h) : /\ j \in DOMAIN h /\ j \in Nat /\ h[j].role = "user"
                               /\ h[j].round \in Nat /\ h[j].round \in A
  <2>1. \A j \in DOMAIN h : h[j] \in Msg /\ j \in Nat
    BY <1>2
  <2> QED BY <1>2, <2>1 DEF Boundaries, Accounted, Msg
<1>6. \A j, l \in Boundaries(h) : j < l => h[j].round < h[l].round
  BY <1>2, <1>5 DEF Ordered
<1>7. PICK f : f = [j \in S |-> h[j].round]
  OBVIOUS
<1>8. \A j \in S : f[j] = h[j].round /\ f[j] \in Q /\ j \in Boundaries(h)
  <2> SUFFICES ASSUME NEW j \in S PROVE f[j] = h[j].round /\ f[j] \in Q /\ j \in Boundaries(h)
    OBVIOUS
  <2>1. j \in Boundaries(h) /\ j >= K
    BY <1>1
  <2>2. i < j
    BY <1>1, <1>3, <1>5, <2>1
  <2>3. h[j].round > h[i].round
    BY <1>5, <1>6, <2>1, <2>2
  <2> QED BY <1>1, <1>5, <1>7, <2>1, <2>3
<1>9. f \in Injection(S, Q)
  <2>1. f \in [S -> Q] /\ DOMAIN f = S
    BY <1>7, <1>8
  <2>2. \A j, l \in S : f[j] = f[l] => j = l
    <3> SUFFICES ASSUME NEW j \in S, NEW l \in S, f[j] = f[l] PROVE j = l
      OBVIOUS
    <3>1. /\ j \in Boundaries(h) /\ l \in Boundaries(h) /\ h[j].round = h[l].round
          /\ j \in Nat /\ l \in Nat /\ h[j].round \in Nat
      BY <1>5, <1>8
    <3>2. ~(j < l) /\ ~(l < j)
      BY <1>6, <3>1
    <3> QED BY <3>1, <3>2
  <2> QED BY <2>1, <2>2 DEF Injection, IsInjective
<1>10. Cardinality(S) <= Cardinality(Q)
  BY <1>4, <1>9, FS_Injection
<1>11. MinRetain \in Nat
  BY HistoryAssumption
<1>12. Cardinality(Q) >= MinRetain
  BY <1>3, <1>4, <1>10, <1>11
<1> QED BY <1>1, <1>12

(* Compression leaves a conversation, with the same end.                   *)
LEMMA CompressConv ==
    ASSUME NEW h, NEW A, NEW C, Conv(h, A, C), Rounds(h) > MinRetain,
           NEW g, g = Compress(h)
    PROVE  /\ Conv(g, A, C) /\ Len(g) \in Nat \ {0, 1} /\ g[Len(g)] = h[Len(h)]
           /\ Len(h) # 0
           /\ \A n \in Nat : (\A i \in DOMAIN h : h[i].round <= n)
                             => \A i \in DOMAIN g : g[i].round <= n
<1>1. PICK K : K = KeepFrom(h)
  OBVIOUS
<1>2. /\ h \in Seq(Msg) /\ A \subseteq Nat /\ IsFiniteSet(A)
      /\ Ordered(h) /\ Paired(h, C) /\ Headed(h) /\ Accounted(h, A)
  BY DEF Conv
<1>3. /\ K \in 2..Len(h) /\ Len(h) \in Nat /\ h[K].role = "user"
      /\ g \in Seq(Msg) /\ Len(g) = Len(h) - K + 2 /\ Len(g) \in Nat \ {0, 1}
      /\ g[1] = Message("summary", 0, 1)
      /\ \A i \in 2..Len(g) : g[i] = h[i + K - 2] /\ i + K - 2 \in K..Len(h)
  <2>1. /\ K \in 2..Len(h) /\ h[K].role = "user" /\ g \in Seq(Msg)
        /\ Len(g) = Len(h) - K + 2 /\ g[1] = Message("summary", 0, 1)
        /\ \A i \in 2..Len(g) : g[i] = h[i + K - 2] /\ i + K - 2 \in K..Len(h)
    BY <1>1, <1>2, CompressIs
  <2>2. Len(h) \in Nat
    BY <1>2
  <2>3. Len(g) \in Nat \ {0, 1}
    BY <2>1, <2>2
  <2> QED BY <2>1, <2>2, <2>3
<1>4. /\ DOMAIN h = 1..Len(h) /\ DOMAIN g = 1..Len(g)
      /\ g[1].role = "summary" /\ g[1].round = 0
      /\ \A j \in DOMAIN h : h[j] \in Msg /\ h[j].round \in Nat
  <2>1. DOMAIN h = 1..Len(h) /\ DOMAIN g = 1..Len(g)
    BY <1>2, <1>3
  <2>2. g[1].role = "summary" /\ g[1].round = 0
    BY <1>3 DEF Message
  <2>3. \A j \in DOMAIN h : h[j] \in Msg
    BY <1>2
  <2>4. \A j \in DOMAIN h : h[j].round \in Nat
    BY <2>3 DEF Msg
  <2> QED BY <2>1, <2>2, <2>3, <2>4
(* The messages of g but the first are messages of h.                      *)
<1>5. ASSUME NEW i \in DOMAIN g, i # 1
      PROVE  /\ i \in 2..Len(g) /\ i + K - 2 \in DOMAIN h /\ g[i] = h[i + K - 2]
             /\ i + K - 2 >= K
  <2>1. i \in 2..Len(g)
    BY <1>3, <1>4, <1>5
  <2>2. g[i] = h[i + K - 2] /\ i + K - 2 \in K..Len(h)
    BY <1>3, <2>1
  <2> QED BY <1>3, <1>4, <2>1, <2>2
<1>6. Ordered(g)
  <2> SUFFICES ASSUME NEW i \in DOMAIN g, NEW j \in DOMAIN g, i < j
               PROVE  /\ g[i].round <= g[j].round
                      /\ g[j].role = "user" => g[i].round < g[j].round
    BY DEF Ordered
  <2>1. j # 1 /\ i \in Nat /\ j \in Nat /\ i >= 1
    BY <1>3, <1>4
  <2>2. j + K - 2 \in DOMAIN h /\ g[j] = h[j + K - 2] /\ j + K - 2 >= K
    BY <1>5, <2>1
  <2>3. CASE i # 1
    <3>1. i + K - 2 \in DOMAIN h /\ g[i] = h[i + K - 2] /\ i + K - 2 < j + K - 2
      BY <1>3, <1>5, <2>1, <2>3
    <3> QED BY <1>2, <2>2, <3>1 DEF Ordered
  <2>4. CASE i = 1
    <3>1. 1 \in DOMAIN h /\ 1 < j + K - 2
      BY <1>3, <1>4, <2>2
    <3>2. h[j + K - 2].role = "user" => h[1].round < h[j + K - 2].round
      BY <1>2, <2>2, <3>1 DEF Ordered
    <3>3. h[1].round \in Nat /\ h[j + K - 2].round \in Nat
      BY <1>4, <2>2, <3>1
    <3>4. g[i].round = 0 /\ g[j].round = h[j + K - 2].round /\ g[j].role = h[j + K - 2].role
      BY <1>4, <2>2, <2>4
    <3> QED BY <3>2, <3>3, <3>4
  <2> QED BY <2>3, <2>4
<1>7. Paired(g, C)
  <2> SUFFICES ASSUME NEW i \in DOMAIN g, g[i].role = "user",
                      g[i].round \notin C, i # Len(g)
               PROVE  /\ i < Len(g) /\ g[i + 1].role = "assistant"
                      /\ g[i + 1].round = g[i].round
    BY DEF Paired
  <2>1. i # 1
    BY <1>4
  <2>2. i \in 2..Len(g) /\ i + K - 2 \in DOMAIN h /\ g[i] = h[i + K - 2]
    BY <1>5, <2>1
  <2>3. i < Len(g) /\ i + 1 \in 2..Len(g) /\ (i + 1) + K - 2 = (i + K - 2) + 1
        /\ i + K - 2 # Len(h)
    <3>1. K \in Nat /\ Len(h) \in Nat /\ Len(g) = Len(h) - K + 2 /\ i \in 2..Len(g)
      BY <1>3, <2>2
    <3>2. i # Len(g)
      OBVIOUS
    <3> QED BY ONLY <3>1, <3>2
  <2>4. g[i + 1] = h[(i + K - 2) + 1]
    BY <1>3, <2>3
  <2>5. /\ h[(i + K - 2) + 1].role = "assistant"
        /\ h[(i + K - 2) + 1].round = h[i + K - 2].round
    BY <1>2, <2>2, <2>3 DEF Paired
  <2> QED BY <2>2, <2>3, <2>4, <2>5
<1>8. Headed(g)
  <2> SUFFICES ASSUME NEW i \in DOMAIN g, g[i].role = "summary", i # 1 PROVE FALSE
    BY DEF Headed
  <2>1. i + K - 2 \in DOMAIN h /\ h[i + K - 2].role = "summary" /\ i + K - 2 >= K
    BY <1>5
  <2>2. i + K - 2 = 1
    BY <1>2, <2>1 DEF Headed
  <2> QED BY <1>3, <2>1, <2>2
<1>9. Accounted(g, A)
  <2>1. ASSUME NEW i \in DOMAIN g, g[i].role = "user" PROVE g[i].round \in A
    <3>1. i + K - 2 \in DOMAIN h /\ g[i] = h[i + K - 2]
      BY <1>4, <1>5, <2>1
    <3> QED BY <1>2, <2>1, <3>1 DEF Accounted
  <2>2. ASSUME NEW r \in A
        PROVE  (\E i \in Boundaries(g) : g[i].round = r) \/ Lost(g, A, r)
    <3>1. Len(g) > 0 /\ g[1].role = "summary"
      BY <1>3, <1>4
    <3>2. CASE \E i \in Boundaries(h) : h[i].round = r
      <4>1. PICK i \in Boundaries(h) : h[i].round = r
        BY <3>2
      <4>2. i \in DOMAIN h /\ i \in Nat /\ h[i].role = "user"
        BY <1>3, <1>4 DEF Boundaries
      <4>3. CASE i < K
        <5>1. Cardinality({q \in A : q > r}) >= MinRetain
          BY <1>1, <4>1, <4>3, CompressLost
        <5> QED BY <3>1, <5>1 DEF Lost
      <4>4. CASE ~(i < K)
        <5>1. i - K + 2 \in 2..Len(g) /\ i - K + 2 \in DOMAIN g /\ (i - K + 2) + K - 2 = i
          <6>1. /\ K \in 2..Len(h) /\ Len(h) \in Nat /\ Len(g) = Len(h) - K + 2
                /\ i \in 1..Len(h) /\ ~(i < K) /\ DOMAIN g = 1..Len(g)
            BY <1>3, <1>4, <4>2, <4>4
          <6> QED BY ONLY <6>1
        <5>2. g[i - K + 2] = h[i]
          BY <1>3, <5>1
        <5>3. i - K + 2 \in Boundaries(g)
          BY <4>2, <5>1, <5>2 DEF Boundaries
        <5> QED BY <4>1, <5>2, <5>3
      <4> QED BY <4>3, <4>4
    <3>3. CASE Lost(h, A, r)
      BY <3>1, <3>3 DEF Lost
    <3> QED BY <1>2, <3>2, <3>3 DEF Accounted
  <2> QED BY <2>1, <2>2 DEF Accounted
<1>10. g[Len(g)] = h[Len(h)] /\ Len(h) # 0
  <2>1. Len(g) \in 2..Len(g) /\ Len(g) + K - 2 = Len(h)
    BY <1>3
  <2> QED BY <1>3, <2>1
<1>11. ASSUME NEW n \in Nat, \A i \in DOMAIN h : h[i].round <= n, NEW i \in DOMAIN g
       PROVE  g[i].round <= n
  <2>1. CASE i = 1
    BY <1>4, <1>11, <2>1
  <2>2. CASE i # 1
    BY <1>5, <1>11, <2>2
  <2> QED BY <2>1, <2>2
<1> QED BY <1>2, <1>3, <1>6, <1>7, <1>8, <1>9, <1>10, <1>11 DEF Conv

LEMMA RoundsNat == ASSUME NEW h \in Seq(Msg) PROVE Rounds(h) \in Nat
<1>1. PICK n : n = Len(h)
  OBVIOUS
<1>2. n \in Nat /\ Boundaries(h) \in SUBSET (1..n)
  BY <1>1 DEF Boundaries
<1>3. IsFiniteSet(1..n)
  BY <1>2, FS_Interval
<1>4. IsFiniteSet(Boundaries(h))
  BY <1>2, <1>3, FS_Subset
<1> QED BY <1>4, FS_CardinalityType DEF Rounds

LEMMA EmptyConv ==
    ASSUME NEW C
    PROVE  /\ Conv(<<>>, {}, C) /\ Closed(<<>>, C) /\ Rounds(<<>>) = 0
           /\ \A n : Until(<<>>, {}, n)
<1>1. PICK e : e = <<>>
  OBVIOUS
<1>2. DOMAIN e = {} /\ Len(e) = 0 /\ e \in Seq(Msg)
  BY <1>1
<1>3. Boundaries(e) = {}
  BY <1>2 DEF Boundaries
<1>4. Rounds(e) = 0 /\ IsFiniteSet({})
  BY <1>3, FS_EmptySet DEF Rounds
<1>5. Ordered(e) /\ Paired(e, C) /\ Headed(e) /\ Accounted(e, {})
  BY <1>2 DEF Ordered, Paired, Headed, Accounted
<1>6. Closed(e, C) /\ \A n : Until(e, {}, n)
  BY <1>2 DEF Closed, Until
<1> QED BY <1>1, <1>2, <1>4, <1>5, <1>6 DEF Conv

(* More rounds that broke off do no harm.                                  *)
LEMMA MoreCut ==
    ASSUME NEW h, NEW A, NEW C, NEW D, C \subseteq D
    PROVE  /\ Conv(h, A, C) => Conv(h, A, D)
           /\ Closed(h, C) => Closed(h, D)
<1>1. Paired(h, C) => Paired(h, D)
  BY DEF Paired
<1> QED BY <1>1 DEF Conv, Closed

LEMMA UntilLater ==
    ASSUME NEW h, NEW A, NEW C, Conv(h, A, C), NEW n \in Int, NEW k \in Int, n <= k, Until(h, A, n)
    PROVE  Until(h, A, k)
<1>1. h \in Seq(Msg) /\ A \subseteq Nat
  BY DEF Conv
<1>2. \A i \in DOMAIN h : h[i].round \in Nat
  <2>1. \A i \in DOMAIN h : h[i] \in Msg
    BY <1>1
  <2> QED BY <2>1 DEF Msg
<1> QED BY <1>1, <1>2 DEF Until

(* A message at the end: the next question, or the answer to the last one. *)
LEMMA AppendIs ==
    ASSUME NEW h \in Seq(Msg), NEW m \in Msg, NEW k, k = Append(h, m)
    PROVE  /\ k \in Seq(Msg) /\ Len(k) = Len(h) + 1 /\ Len(h) \in Nat
           /\ DOMAIN h = 1..Len(h) /\ DOMAIN k = 1..(Len(h) + 1)
           /\ k[Len(h) + 1] = m
           /\ \A i \in 1..Len(h) : k[i] = h[i]
OBVIOUS

LEMMA AppendConv ==
    ASSUME NEW h, NEW A, NEW C, Conv(h, A, C), NEW m \in Msg, m.role \in {"user", "assistant"},
           NEW k, k = Append(h, m),
           m.role = "user" => Closed(h, C) /\ Until(h, A, m.round - 1),
           m.role = "assistant" => Ends(h, m.round) /\ Until(h, A, m.round)
    PROVE  /\ Conv(k, A \cup {m.round}, C) /\ Len(k) # 0
           /\ m.role = "user" => Ends(k, m.round)
           /\ m.role = "assistant" => Closed(k, C)
           /\ Until(k, A \cup {m.round}, m.round)
<1>1. PICK n, B, r : n = Len(h) /\ B = A \cup {m.round} /\ r = m.round
  OBVIOUS
<1>2. /\ h \in Seq(Msg) /\ A \subseteq Nat /\ IsFiniteSet(A)
      /\ Ordered(h) /\ Paired(h, C) /\ Headed(h) /\ Accounted(h, A)
  BY DEF Conv
<1>3. /\ k \in Seq(Msg) /\ Len(k) = n + 1 /\ n \in Nat
      /\ DOMAIN h = 1..n /\ DOMAIN k = 1..(n + 1) /\ k[n + 1] = m
      /\ \A i \in 1..n : k[i] = h[i]
  BY <1>1, <1>2, AppendIs
<1>4. r \in Nat /\ \A i \in 1..n : h[i].round \in Nat
  <2>1. \A i \in 1..n : h[i] \in Msg
    BY <1>2, <1>3
  <2> QED BY <1>1, <2>1 DEF Msg
<1>5. B \subseteq Nat /\ IsFiniteSet(B)
  <2>1. IsFiniteSet(B)
    BY <1>1, <1>2, FS_AddElement
  <2> QED BY <1>1, <1>2, <1>4, <2>1
<1>6. \A i \in 1..n : h[i].round <= r /\ (m.role = "user" => h[i].round < r)
  <2>1. \A i \in 1..n : m.role = "assistant" => h[i].round <= r
    BY <1>1, <1>3 DEF Until
  <2>2. \A i \in 1..n : m.role = "user" => h[i].round <= r - 1
    BY <1>1, <1>3 DEF Until
  <2> QED BY <1>4, <2>1, <2>2
<1>7. \A i \in 1..(n + 1) : i = n + 1 \/ i \in 1..n
  BY <1>3
<1>8. Ordered(k)
  <2> SUFFICES ASSUME NEW i \in DOMAIN k, NEW j \in DOMAIN k, i < j
               PROVE  /\ k[i].round <= k[j].round
                      /\ k[j].role = "user" => k[i].round < k[j].round
    BY DEF Ordered
  <2>1. i \in 1..n /\ k[i] = h[i]
    BY <1>3
  <2>2. CASE j = n + 1
    BY <1>1, <1>3, <1>6, <2>1, <2>2
  <2>3. CASE j # n + 1
    <3>1. j \in 1..n /\ k[j] = h[j]
      BY <1>3, <2>3
    <3> QED BY <1>2, <1>3, <2>1, <3>1 DEF Ordered
  <2> QED BY <2>2, <2>3
<1>9. Paired(k, C)
  <2> SUFFICES ASSUME NEW i \in DOMAIN k, k[i].role = "user", k[i].round \notin C, i # Len(k)
               PROVE  /\ i < Len(k) /\ k[i + 1].role = "assistant"
                      /\ k[i + 1].round = k[i].round
    BY DEF Paired
  <2>1. i \in 1..n /\ k[i] = h[i] /\ i < Len(k)
    BY <1>3
  <2>2. CASE i = n
    <3>1. h[n].role = "user" /\ h[n].round \notin C /\ n > 0
      BY <1>3, <2>1, <2>2
    <3>2. m.role = "assistant"
      BY <1>1, <3>1 DEF Closed
    <3>3. h[n].round = r
      BY <1>1, <3>2 DEF Ends
    <3> QED BY <1>1, <1>3, <2>1, <2>2, <3>2, <3>3
  <2>3. CASE i # n
    <3>1. i + 1 \in 1..n /\ k[i + 1] = h[i + 1] /\ i \in DOMAIN h
      BY <1>3, <2>1, <2>3
    <3>2. h[i + 1].role = "assistant" /\ h[i + 1].round = h[i].round
      BY <1>1, <1>2, <2>1, <2>3, <3>1 DEF Paired
    <3> QED BY <2>1, <3>1, <3>2
  <2> QED BY <2>2, <2>3
<1>10. Headed(k)
  BY <1>2, <1>3, <1>7 DEF Headed
<1>11. Accounted(k, B)
  <2>1. ASSUME NEW i \in DOMAIN k, k[i].role = "user" PROVE k[i].round \in B
    <3>1. CASE i = n + 1
      BY <1>1, <1>3, <3>1
    <3>2. CASE i # n + 1
      BY <1>1, <1>2, <1>3, <1>7, <2>1, <3>2 DEF Accounted
    <3> QED BY <3>1, <3>2
  <2>2. ASSUME NEW i \in Boundaries(h) PROVE i \in Boundaries(k) /\ k[i].round = h[i].round
    <3>1. i \in 1..n /\ h[i].role = "user"
      BY <1>3 DEF Boundaries
    <3>2. i \in 1..(n + 1) /\ k[i] = h[i]
      BY <1>3, <3>1
    <3> QED BY <1>3, <3>1, <3>2 DEF Boundaries
  <2>3. ASSUME NEW q \in A PROVE (\E i \in Boundaries(k) : k[i].round = q) \/ Lost(k, B, q)
    <3>1. CASE \E i \in Boundaries(h) : h[i].round = q
      BY <2>2, <3>1
    <3>2. CASE Lost(h, A, q)
      <4>1. n > 0 /\ h[1].role = "summary" /\ Cardinality({p \in A : p > q}) >= MinRetain
        BY <1>1, <3>2 DEF Lost
      <4>2. PICK S, T : S = {p \in A : p > q} /\ T = {p \in B : p > q}
        OBVIOUS
      <4>3. S \in SUBSET T /\ T \in SUBSET B
        BY <1>1, <4>2
      <4>4. IsFiniteSet(T)
        BY <1>5, <4>3, FS_Subset
      <4>5. Cardinality(S) <= Cardinality(T) /\ Cardinality(S) \in Nat /\ Cardinality(T) \in Nat
        <5>1. IsFiniteSet(S)
          BY <4>3, <4>4, FS_Subset
        <5> QED BY <4>3, <4>4, <5>1, FS_Subset, FS_CardinalityType
      <4>6. MinRetain \in Nat /\ Cardinality(S) >= MinRetain
        BY <4>1, <4>2, HistoryAssumption
      <4>7. Cardinality(T) >= MinRetain
        BY <4>5, <4>6
      <4>8. Len(k) > 0 /\ k[1].role = "summary"
        BY <1>3, <4>1
      <4> QED BY <4>2, <4>7, <4>8 DEF Lost
    <3> QED BY <1>2, <3>1, <3>2 DEF Accounted
  <2>4. \E i \in Boundaries(k) : k[i].round = r
    <3>1. CASE m.role = "user"
      <4>1. n + 1 \in DOMAIN k /\ k[n + 1].role = "user" /\ k[n + 1].round = r
        BY <1>1, <1>3, <3>1
      <4> QED BY <4>1 DEF Boundaries
    <3>2. CASE m.role = "assistant"
      <4>1. n > 0 /\ h[n].role = "user" /\ h[n].round = r
        BY <1>1, <3>2 DEF Ends
      <4>2. n \in Boundaries(h)
        BY <1>3, <4>1 DEF Boundaries
      <4> QED BY <2>2, <4>1, <4>2
    <3> QED BY <3>1, <3>2
  <2> QED BY <1>1, <2>1, <2>3, <2>4 DEF Accounted
<1>12. Conv(k, B, C)
  BY <1>3, <1>5, <1>8, <1>9, <1>10, <1>11 DEF Conv
<1>13. Until(k, B, r)
  <2>1. \A i \in DOMAIN k : k[i].round <= r
    BY <1>1, <1>3, <1>4, <1>6, <1>7
  <2>2. \A q \in A : q <= r
    <3>1. \A q \in A : m.role = "assistant" => q <= r
      BY <1>1 DEF Until
    <3>2. \A q \in A : m.role = "user" => q <= r - 1
      BY <1>1 DEF Until
    <3> QED BY <1>2, <1>4, <3>1, <3>2
  <2> QED BY <1>1, <1>4, <2>1, <2>2 DEF Until
<1>14. Len(k) # 0 /\ (m.role = "user" => Ends(k, r)) /\ (m.role = "assistant" => Closed(k, C))
  BY <1>1, <1>3 DEF Ends, Closed
<1> QED BY <1>1, <1>12, <1>13, <1>14

------------------------------------------------------------------------------
(* The invariant of the conversation: where it stands in a run (the place  *)
(* is pc, the round n), what was put aside, and what the files hold.       *)
Asking == run.pc \notin {"idle", "answer"}

Talk(h, A, C, n, pc) ==
    /\ Conv(h, A, C) /\ Until(h, A, n)
    /\ pc \notin {"idle", "answer"} => Until(h, A, n - 1)
    /\ pc = "answer" => Ends(h, n)
    /\ pc # "answer" => Closed(h, C)

GoodFile(file, C, n) ==
    file.exists => Conv(file.history, file.asked, C) /\ Until(file.history, file.asked, n)

Counted(e, t, h) ==
    e => t = Tokens(h) /\ (t > Threshold => Rounds(h) <= MinRetain)

HistInv ==
    /\ round \in Nat
    /\ Talk(history, asked, cut, round, run.pc)
    /\ Counted(exact, tokens, history)
    /\ GoodFile(autoFile, cut, round) /\ GoodFile(namedFile, cut, round)
    /\ GoodFile(outer, cut, round)
    /\ outer.exists => Closed(outer.history, cut)

(* What a run does before it records its question touches no message.      *)
LoopStep ==
    \/ ReactCall \/ ReactTool \/ ReactOutOfSteps \/ ReactAsyncCall \/ ReactAsyncTools
    \/ ReactStreamCall \/ ReactStreamTools
    \/ SimpleCall \/ SimpleTool \/ SimpleLast \/ LoopEnds \/ SimpleStream
    \/ ReflectionCall \/ ReflectionTool \/ ReflectionLast \/ ReflectionStream
    \/ PlanCall \/ PlanStepCall \/ PlanTool \/ PlanLast \/ PlanStream
    \/ Delivered \/ CloseStream

LEMMA AnsweredPlace ==
    ASSUME NEW r \in RunType, NEW text PROVE Answered(r, text).pc # "answer"
<1>1. PICK a : a = Answered(r, text)
  OBVIOUS
<1>2. PICK step, pc : /\ step = (IF agent.kind = "react" THEN r.step ELSE 0)
                      /\ pc = (IF r.mode = "stream" THEN "deliver" ELSE "record")
  OBVIOUS
<1>3. a = [mode |-> r.mode, pc |-> pc, phase |-> "answer", step |-> step, iteration |-> 1,
           left |-> 0, calls |-> <<>>, next |-> 1, open |-> {}, result |-> "empty",
           answer |-> text, said |-> r.said, failed |-> r.failed]
  BY <1>1, <1>2 DEF Answered, IdleRun
<1> QED BY <1>1, <1>2, <1>3

LEMMA OtherPlaces ==
    ASSUME NEW r \in RunType
    PROVE  /\ \A cs : Asked(r, cs).pc # "answer"
           /\ \A phase : NextPhase(r, phase).pc # "answer"
           /\ \A t, phase : NextPhase([r EXCEPT !.result = t], phase).pc # "answer"
           /\ \A t, n, phase :
                 NextPhase([r EXCEPT !.result = t, !.iteration = n], phase).pc # "answer"
           /\ \A n, phase : NextPhase([r EXCEPT !.left = n], phase).pc # "answer"
           /\ \A pc : [r EXCEPT !.pc = pc].pc = pc
           /\ \A n : [r EXCEPT !.left = n].pc = r.pc
<1>1. PICK loop : loop = Loop
  OBVIOUS
<1>2. loop # "answer"
  BY <1>1 DEF Loop
<1>3. \A cs : Asked(r, cs).pc # "answer"
  BY DEF Asked, RunType
<1>4. \A phase : NextPhase(r, phase).pc # "answer"
  BY <1>1, <1>2 DEF NextPhase, RunType
<1>5. \A t, phase : NextPhase([r EXCEPT !.result = t], phase).pc # "answer"
  BY <1>1, <1>2 DEF NextPhase, RunType
<1>6. \A t, n, phase : NextPhase([r EXCEPT !.result = t, !.iteration = n], phase).pc # "answer"
  BY <1>1, <1>2 DEF NextPhase, RunType
<1>7. \A n, phase : NextPhase([r EXCEPT !.left = n], phase).pc # "answer"
  BY <1>1, <1>2 DEF NextPhase, RunType
<1>8. /\ \A pc : [r EXCEPT !.pc = pc].pc = pc
      /\ \A n : [r EXCEPT !.left = n].pc = r.pc
  BY DEF RunType
<1> QED BY ONLY <1>3, <1>4, <1>5, <1>6, <1>7, <1>8, Zenon

LEMMA LoopQuiet ==
    ASSUME RunInv, LoopStep
    PROVE  Asking /\ run'.pc # "answer" /\ RunOnly
<1>1. RunOnly /\ Asking
  <2>1. RunOnly
    BY DEF LoopStep, ReactCall, ReactTool, ReactOutOfSteps, ReactAsyncCall, ReactAsyncTools,
           ReactStreamCall, ReactStreamTools, SimpleCall, SimpleTool, SimpleLast, LoopEnds,
           SimpleStream, ReflectionCall, ReflectionTool, ReflectionLast, ReflectionStream,
           PlanCall, PlanStepCall, PlanTool, PlanLast, PlanStream, Delivered, CloseStream
  <2>2. run.pc \in {"plan", "call", "tools", "last", "deliver"}
    BY DEF LoopStep, Doing, ReactCall, ReactTool, ReactOutOfSteps, ReactAsyncCall,
           ReactAsyncTools, ReactStreamCall, ReactStreamTools, SimpleCall, SimpleTool, SimpleLast,
           LoopEnds, SimpleStream, ReflectionCall, ReflectionTool, ReflectionLast,
           ReflectionStream, PlanCall, PlanStepCall, PlanTool, PlanLast, PlanStream, Delivered,
           CloseStream
  <2> QED BY <2>1, <2>2 DEF Asking
<1>2. run \in RunType /\ run.pc # "answer" /\ Raised.pc # "answer"
  BY <1>1 DEF RunInv, Good, Asking, Raised, IdleRun
<1>3. PICK R : R = {run, Said(run), Failed(run), Stepped, Said(Stepped), Failed(Stepped)}
  OBVIOUS
<1>4. \A r \in R : r \in RunType /\ r.pc = run.pc
  BY <1>3, SteppedGood
<1>5. /\ run \in R /\ Said(run) \in R /\ Failed(run) \in R
      /\ Stepped \in R /\ Said(Stepped) \in R /\ Failed(Stepped) \in R
  BY <1>3
<1>6. PICK s : s = run'
  OBVIOUS
<1> DEFINE Away(r) == r.pc # "answer"
<1>7. \A r \in R : \A text : Away(Answered(r, text))
  BY <1>4, AnsweredPlace
<1>8. ASSUME NEW r \in R
      PROVE  /\ \A cs : Away(Asked(r, cs))
             /\ \A phase : Away(NextPhase(r, phase))
             /\ \A t, phase : Away(NextPhase([r EXCEPT !.result = t], phase))
             /\ \A t, n, phase :
                   Away(NextPhase([r EXCEPT !.result = t, !.iteration = n], phase))
             /\ \A n, phase : Away(NextPhase([r EXCEPT !.left = n], phase))
             /\ Away([r EXCEPT !.pc = "last"]) /\ Away([r EXCEPT !.pc = "record"])
             /\ \A n : Away([r EXCEPT !.left = n])
  <2>1. r \in RunType /\ r.pc # "answer"
    BY <1>2, <1>4
  <2>2. Away([r EXCEPT !.pc = "last"]) /\ Away([r EXCEPT !.pc = "record"])
    BY <2>1, OtherPlaces
  <2>3. \A n : Away([r EXCEPT !.left = n])
    BY <2>1, OtherPlaces
  <2> QED BY <2>1, <2>2, <2>3, OtherPlaces
<1>9. Away(Raised) /\ Away(run)
  BY <1>2
<1> HIDE DEF Away
<1>10. ASSUME NEW r \in R, NEW text, ReflectionPhase(r, text) PROVE Away(s)
  <2>1. \/ \E u : s = Answered(r, u)
        \/ \E phase : s = NextPhase([r EXCEPT !.result = text], phase)
        \/ \E phase : s = NextPhase(r, phase)
        \/ \E n, phase : s = NextPhase([r EXCEPT !.result = text, !.iteration = n], phase)
    BY <1>6, <1>10 DEF ReflectionPhase
  <2>2. ASSUME NEW n, NEW phase,
               s = NextPhase([r EXCEPT !.result = text, !.iteration = n], phase)
        PROVE  Away(s)
    BY <1>8, <2>2
  <2>3. ASSUME NEW phase, s = NextPhase([r EXCEPT !.result = text], phase) PROVE Away(s)
    BY <1>8, <2>3
  <2>4. (\E u : s = Answered(r, u)) \/ (\E phase : s = NextPhase(r, phase)) => Away(s)
    BY <1>7, <1>8
  <2> QED BY <2>1, <2>2, <2>3, <2>4
<1>11. ASSUME NEW r \in R, NEW text, PlanPhase(r, text) PROVE Away(s)
  <2>1. \/ s = Answered(r, text)
        \/ \E n, phase : s = NextPhase([r EXCEPT !.left = n], phase)
    BY <1>6, <1>11 DEF PlanPhase
  <2> QED BY ONLY r \in R, <1>7, <1>8, <2>1, Zenon
<1>12. ASSUME ReactCall \/ ReactAsyncCall \/ ReactStreamCall \/ SimpleCall \/ SimpleLast
            \/ SimpleStream \/ ReactOutOfSteps \/ ReflectionStream \/ CloseStream
      PROVE  Away(s)
  <2>1. \/ s = Raised
        \/ \E r \in R : \/ \E text : s = Answered(r, text)
                         \/ \E cs : s = Asked(r, cs)
                         \/ s = [r EXCEPT !.pc = "last"]
    BY <1>5, <1>6, <1>12
       DEF ReactCall, ReactAsyncCall, ReactStreamCall, SimpleCall, SimpleLast, SimpleStream,
           ReactOutOfSteps, ReflectionStream, CloseStream
  <2> QED BY ONLY <1>7, <1>8, <1>9, <2>1, Zenon
<1>13. ASSUME ReflectionCall \/ ReflectionLast \/ PlanStepCall \/ PlanLast
      PROVE  Away(s)
  <2>1. \/ s = Raised
        \/ \E r \in R : \/ \E text : ReflectionPhase(r, text) \/ PlanPhase(r, text)
                         \/ \E cs : s = Asked(r, cs)
                         \/ s = [r EXCEPT !.pc = "last"]
    BY <1>5, <1>6, <1>13 DEF ReflectionCall, ReflectionLast, PlanStepCall, PlanLast
  <2> QED BY <1>8, <1>9, <1>10, <1>11, <2>1, Zenon
<1>14. ASSUME LoopEnds \/ Delivered
      PROVE  Away(s)
  <2>1. s \in {[run EXCEPT !.pc = "last"], [run EXCEPT !.pc = "record"]}
    BY <1>6, <1>14 DEF LoopEnds, Delivered
  <2> QED BY <1>5, <1>8, <2>1, Zenon
<1>15. ASSUME ReactTool \/ ReactAsyncTools \/ ReactStreamTools \/ SimpleTool \/ ReflectionTool
            \/ PlanTool
      PROVE  Away(s)
  <2>1. Away(BackToModel({})) /\ Away(AnswerCall)
    <3>1. run.pc = "tools"
      BY <1>15 DEF ReactTool, ReactAsyncTools, ReactStreamTools, SimpleTool, ReflectionTool,
                   PlanTool, Doing
    <3>2. PICK r, none, open, a, b, n, k :
             /\ r = run /\ none = <<>> /\ open = run.open \ {run.next}
             /\ k = run.next + 1 /\ n = Len(run.calls)
             /\ a = BackToModel({}) /\ b = AnswerCall
      OBVIOUS
    <3>3. \A o : [r EXCEPT !.pc = "call", !.calls = none, !.next = 1, !.open = o].pc = "call"
      BY <1>2, <3>2 DEF RunType
    <3>4. [r EXCEPT !.next = k, !.open = open].pc = "tools"
      BY <1>2, <3>1, <3>2 DEF RunType
    <3>5. \A o : BackToModel(o).pc = "call"
      BY <3>2, <3>3 DEF BackToModel
    <3>6. \/ AnswerCall = BackToModel(open)
          \/ AnswerCall = [r EXCEPT !.next = k, !.open = open]
      BY <3>2 DEF AnswerCall, Turn
    <3> QED BY <3>4, <3>5, <3>6 DEF Away
  <2>2. \/ s \in {AnswerCall, BackToModel({}), Raised}
        \/ \E r \in R : \E text : s = Answered(r, text)
    <3>1. s \in {AnswerCall, BackToModel({}), Raised, Answered(Said(run), "text"),
                    Answered(Failed(run), "apology"), Answered(run, "error")}
      BY <1>6, <1>15 DEF ReactTool, ReactAsyncTools, ReactStreamTools, SimpleTool,
                         ReflectionTool, PlanTool
    <3> QED BY <1>5, <3>1
  <2> QED BY ONLY <1>7, <1>9, <2>1, <2>2, Zenon
<1>16. ASSUME PlanCall
      PROVE  Away(s)
  <2>1. \/ s = Answered(Failed(run), "apology")
        \/ \E n, pc : /\ pc \in {"call", "last"}
                      /\ s = [run EXCEPT !.left = n, !.step = 0, !.pc = pc]
    BY <1>6, <1>16 DEF PlanCall, Loop
  <2>2. ASSUME NEW n, NEW pc \in {"call", "last"},
               s = [run EXCEPT !.left = n, !.step = 0, !.pc = pc]
        PROVE  Away(s)
    BY <1>2, <2>2 DEF RunType, Away
  <2>3. s = Answered(Failed(run), "apology") => Away(s)
    BY <1>5, <1>7
  <2> QED BY <2>1, <2>2, <2>3
<1>17. ASSUME PlanStream
      PROVE  Away(s)
  <2>1. \/ \E n : s = [run EXCEPT !.left = n]
        \/ s \in {Answered(Said(run), "text"), Answered(Failed(run), "empty"), Raised}
    BY <1>6, <1>17 DEF PlanStream
  <2> QED BY ONLY <1>5, <1>7, <1>8, <1>9, <2>1, Zenon
<1>18. Away(s)
  BY <1>12, <1>13, <1>14, <1>15, <1>16, <1>17 DEF LoopStep
<1> QED BY <1>1, <1>6, <1>18 DEF Away

LEMMA StartedPlace == ASSUME NEW mode PROVE Started(mode).pc # "answer"
<1>1. PICK phase, pc : /\ phase = (IF agent.kind = "reflection" THEN "attempt" ELSE "answer")
                       /\ pc = (IF agent.kind = "plan" THEN "plan"
                                ELSE IF agent.kind = "react" \/ mode = "stream" THEN "call"
                                ELSE Loop)
  OBVIOUS
<1>2. pc # "answer"
  BY <1>1 DEF Loop
<1>3. PICK r, a : r = IdleRun /\ a = [r EXCEPT !.mode = mode, !.phase = phase, !.pc = pc]
  OBVIOUS
<1>4. r \in RunType
  BY <1>3, IdleGood DEF Good, Kinds
<1>5. a.pc = pc
  BY <1>3, <1>4 DEF RunType
<1>6. a = Started(mode)
  BY <1>1, <1>3 DEF Started
<1> QED BY <1>2, <1>5, <1>6

LEMMA KeptConv ==
    ASSUME NEW k, NEW A, NEW C, Conv(k, A, C), NEW full,
           NEW g, g = IF full THEN Compress(k) ELSE k
    PROVE  /\ Conv(g, A, C)
           /\ \A r : Ends(k, r) => Ends(g, r)
           /\ Closed(k, C) => Closed(g, C)
           /\ \A r \in Nat : Until(k, A, r) => Until(g, A, r)
           /\ full => Rounds(g) <= MinRetain
<1>1. k \in Seq(Msg) /\ Rounds(k) \in Nat /\ MinRetain \in Nat
  BY RoundsNat, HistoryAssumption DEF Conv
<1>2. CASE full /\ Rounds(k) > MinRetain
  <2>1. g = Compress(k)
    BY <1>2
  <2>2. /\ Conv(g, A, C) /\ Len(g) \in Nat \ {0, 1} /\ g[Len(g)] = k[Len(k)] /\ Len(k) # 0
        /\ \A n \in Nat : (\A i \in DOMAIN k : k[i].round <= n)
                          => \A i \in DOMAIN g : g[i].round <= n
    BY <1>2, <2>1, CompressConv
  <2>3. Rounds(g) = MinRetain
    BY <1>1, <1>2, <2>1, CompressRounds
  <2>4. Len(g) > 0 /\ Len(k) > 0
    BY <1>1, <2>2
  <2>5. \A r : Ends(k, r) => Ends(g, r)
    BY <2>2, <2>4 DEF Ends
  <2>6. Closed(k, C) => Closed(g, C)
    BY <2>2, <2>4 DEF Closed
  <2>7. \A r \in Nat : Until(k, A, r) => Until(g, A, r)
    BY <2>2 DEF Until
  <2> QED BY <1>1, <2>2, <2>3, <2>5, <2>6, <2>7
<1>3. CASE ~(full /\ Rounds(k) > MinRetain)
  <2>1. g = k
    BY <1>1, <1>3 DEF Compress
  <2>2. full => Rounds(k) <= MinRetain
    BY <1>1, <1>3
  <2> QED BY <2>1, <2>2
<1> QED BY <1>2, <1>3

(* Agent.add_message, with what it saves.                                  *)
LEMMA Adding ==
    ASSUME HistInv, NEW size \in Sizes, NEW role \in {"user", "assistant"},
           AddMessage(Message(role, round, size)),
           role = "user" => Closed(history, cut) /\ Until(history, asked, round - 1),
           role = "assistant" => Ends(history, round)
    PROVE  /\ Conv(history', asked', cut) /\ Until(history', asked', round)
           /\ role = "user" => Ends(history', round)
           /\ role = "assistant" => Closed(history', cut)
           /\ Counted(exact', tokens', history')
           /\ GoodFile(autoFile', cut, round)
           /\ UNCHANGED <<namedFile, cut>>
<1>1. PICK m, k, full, g, A, f :
         /\ m = Message(role, round, size) /\ k = Append(history, m)
         /\ full = ShouldCompress(tokens + m.size)
         /\ g = (IF full THEN Compress(k) ELSE k) /\ A = asked \cup {round}
         /\ f = [exists |-> TRUE, history |-> g, asked |-> A]
  OBVIOUS
<1>2. /\ Conv(history, asked, cut) /\ Until(history, asked, round) /\ round \in Nat
      /\ Counted(exact, tokens, history) /\ GoodFile(autoFile, cut, round)
  BY DEF HistInv, Talk
<1>3. m \in Msg /\ m.role = role /\ m.round = round /\ m.size = size /\ history \in Seq(Msg)
  <2>1. size \in Nat
    BY HistoryAssumption
  <2>2. m = [role |-> role, round |-> round, size |-> size]
    BY <1>1 DEF Message
  <2> QED BY <1>2, <2>1, <2>2 DEF Msg, Conv
<1>4. /\ history' = g /\ asked' = A
      /\ tokens' = (IF full THEN Tokens(g) ELSE tokens + m.size)
      /\ exact' = (exact \/ full)
      /\ autoFile' = f \/ autoFile' = autoFile
      /\ UNCHANGED <<namedFile, cut>>
  BY <1>1, <1>3 DEF AddMessage, AutoSave
<1>5. /\ Conv(k, A, cut) /\ Until(k, A, round)
      /\ role = "user" => Ends(k, round)
      /\ role = "assistant" => Closed(k, cut)
  <2>1. /\ m.role \in {"user", "assistant"} /\ k = Append(history, m)
        /\ m.role = "user" => Closed(history, cut) /\ Until(history, asked, m.round - 1)
        /\ m.role = "assistant" => Ends(history, m.round) /\ Until(history, asked, m.round)
    BY <1>1, <1>2, <1>3
  <2>2. /\ Conv(k, asked \cup {m.round}, cut) /\ Until(k, asked \cup {m.round}, m.round)
        /\ m.role = "user" => Ends(k, m.round)
        /\ m.role = "assistant" => Closed(k, cut)
    BY <1>2, <1>3, <2>1, AppendConv
  <2> QED BY <1>1, <1>3, <2>2
<1>6. /\ Conv(g, A, cut) /\ Until(g, A, round)
      /\ Ends(k, round) => Ends(g, round)
      /\ Closed(k, cut) => Closed(g, cut)
      /\ full => Rounds(g) <= MinRetain
  BY <1>1, <1>2, <1>5, KeptConv
<1>7. Counted(exact', tokens', history')
  <2>1. Tokens(k) = Tokens(history) + m.size
    BY <1>1, <1>3, TokensAppend
  <2>2. full <=> tokens + m.size > Threshold
    BY <1>1 DEF ShouldCompress
  <2>3. CASE full
    BY <1>4, <1>6, <2>3 DEF Counted
  <2>4. CASE ~full
    <3>1. g = k /\ tokens' = tokens + m.size /\ (exact' => exact)
      BY <1>1, <1>4, <2>4
    <3>2. exact => tokens' = Tokens(g) /\ ~(tokens' > Threshold)
      BY <1>2, <2>1, <2>2, <2>4, <3>1 DEF Counted
    <3> QED BY <1>4, <3>1, <3>2 DEF Counted
  <2> QED BY <2>3, <2>4
<1>8. GoodFile(f, cut, round)
  <2>1. f.history = g /\ f.asked = A
    BY <1>1
  <2> QED BY <1>6, <2>1 DEF GoodFile
<1> QED BY <1>2, <1>4, <1>5, <1>6, <1>7, <1>8

(* Later, a file is as good as it was.                                     *)
LEMMA FilesStay ==
    ASSUME round \in Nat, round' \in Nat, round <= round', cut \subseteq cut',
           NEW f, GoodFile(f, cut, round)
    PROVE  GoodFile(f, cut', round')
<1> SUFFICES ASSUME f.exists
             PROVE  Conv(f.history, f.asked, cut') /\ Until(f.history, f.asked, round')
  BY DEF GoodFile
<1>1. Conv(f.history, f.asked, cut) /\ Until(f.history, f.asked, round)
  BY DEF GoodFile
<1>2. Conv(f.history, f.asked, cut')
  BY <1>1, MoreCut
<1>3. Until(f.history, f.asked, round')
  BY <1>1, UntilLater
<1> QED BY <1>2, <1>3

(* So is what was put aside, and the conversation between two runs.        *)
LEMMA TalkStays ==
    ASSUME HistInv, round' \in Nat, round <= round', cut \subseteq cut',
           run.pc # "answer", run'.pc # "answer",
           history' = history, asked' = asked,
           run'.pc # "idle" => Asking \/ round' = round + 1
    PROVE  Talk(history, asked, cut', round', run'.pc)
<1>1. /\ Conv(history, asked, cut) /\ Until(history, asked, round) /\ Closed(history, cut)
      /\ round \in Nat
      /\ Asking => Until(history, asked, round - 1)
  BY DEF HistInv, Talk, Asking
<1>2. Conv(history, asked, cut') /\ Closed(history, cut')
  BY <1>1, MoreCut
<1>3. Until(history, asked, round')
  BY <1>1, UntilLater
<1>4. ASSUME run'.pc # "idle" PROVE Until(history, asked, round' - 1)
  <2>1. CASE Asking
    BY <1>1, <2>1, UntilLater
  <2>2. CASE round' = round + 1
    <3>1. round' - 1 = round
      BY <1>1, <2>2
    <3> QED BY <1>1, <3>1
  <2> QED BY <1>4, <2>1, <2>2
<1> QED BY <1>2, <1>3, <1>4 DEF Talk

LEMMA HistStep == RunInv /\ HistInv /\ [Next]_vars => HistInv'
<1> SUFFICES ASSUME RunInv, HistInv, [Next]_vars PROVE HistInv'
  OBVIOUS
<1> DEFINE H(h, a, c, e, t, f, s, o, n, pc) ==
             /\ n \in Nat /\ Talk(h, a, c, n, pc) /\ Counted(e, t, h)
             /\ GoodFile(f, c, n) /\ GoodFile(s, c, n) /\ GoodFile(o, c, n)
             /\ o.exists => Closed(o.history, c)
<1>1. HistInv' <=> H(history', asked', cut', exact', tokens', autoFile', namedFile', outer',
                     round', run'.pc)
  BY DEF HistInv
<1>2. /\ Conv(history, asked, cut) /\ Until(history, asked, round) /\ round \in Nat
      /\ Talk(history, asked, cut, round, run.pc)
      /\ Counted(exact, tokens, history)
      /\ GoodFile(autoFile, cut, round) /\ GoodFile(namedFile, cut, round)
      /\ GoodFile(outer, cut, round)
      /\ outer.exists => Closed(outer.history, cut)
  BY DEF HistInv, Talk
<1>3. /\ run.pc = "answer" => Ends(history, round)
      /\ run.pc # "answer" => Closed(history, cut)
      /\ Asking => Until(history, asked, round - 1)
  BY <1>2 DEF Talk, Asking
(* The files when a round begins or rounds break off.                      *)
<1>4. ASSUME round' \in {round, round + 1}, cut \subseteq cut'
      PROVE  /\ round' \in Nat /\ round <= round'
             /\ GoodFile(autoFile, cut', round') /\ GoodFile(namedFile, cut', round')
             /\ GoodFile(outer, cut', round')
             /\ outer.exists => Closed(outer.history, cut')
  <2>1. round' \in Nat /\ round <= round'
    BY <1>2, <1>4
  <2>2. GoodFile(autoFile, cut', round') /\ GoodFile(namedFile, cut', round')
        /\ GoodFile(outer, cut', round')
    BY <1>2, <1>4, <2>1, FilesStay
  <2>3. outer.exists => Closed(outer.history, cut')
    BY <1>2, <1>4, MoreCut
  <2> QED BY <2>1, <2>2, <2>3
(* What a session file takes of the conversation.                          *)
<1>5. GoodFile(File, cut, round)
  BY <1>2 DEF GoodFile, File
<1>6. /\ Talk(<<>>, {}, cut', round', run'.pc) \/ run'.pc = "answer"
      /\ Counted(TRUE, 0, <<>>)
      /\ GoodFile([exists |-> TRUE, history |-> <<>>, asked |-> {}], cut', round')
  <2>1. Conv(<<>>, {}, cut') /\ Closed(<<>>, cut') /\ \A n : Until(<<>>, {}, n)
    BY EmptyConv
  <2>2. MinRetain \in Nat /\ Rounds(<<>>) = 0
    BY EmptyConv, HistoryAssumption
  <2>3. Counted(TRUE, 0, <<>>)
    BY <2>2, TokensNone DEF Counted
  <2> QED BY <2>1, <2>3 DEF Talk, GoodFile
<1>7. IdleRun.pc = "idle" /\ Raised = IdleRun
  BY DEF IdleRun, Raised
<1>8. ~NoFile.exists
  BY DEF NoFile
<1> HIDE DEF H
<1>9. ASSUME LoopStep PROVE HistInv'
  <2>1. Asking /\ run'.pc # "answer" /\ UNCHANGED <<historyVars, control>>
    BY <1>9, LoopQuiet DEF RunOnly
  <2>2. /\ history' = history /\ asked' = asked /\ cut' = cut /\ exact' = exact
        /\ tokens' = tokens /\ autoFile' = autoFile /\ namedFile' = namedFile
        /\ outer' = outer /\ round' = round
    BY <2>1 DEF historyVars, control
  <2>3. Talk(history, asked, cut', round', run'.pc)
    BY <1>2, <2>1, <2>2, TalkStays DEF Asking
  <2> QED BY <1>1, <1>2, <2>2, <2>3 DEF H
<1>10. ASSUME ReactToolRaises \/ Save \/ Interrupt \/ StartOnClosedTrace PROVE HistInv'
  <2>1. /\ history' = history /\ asked' = asked /\ exact' = exact
        /\ tokens' = tokens /\ autoFile' = autoFile /\ namedFile' \in {File, namedFile}
        /\ outer' = outer /\ run'.pc = "idle"
        /\ cut' \in {cut, Torn} /\ round' \in {round, round + 1}
        /\ run.pc = "answer" => cut' = Torn
    BY <1>7, <1>10 DEF ReactToolRaises, Save, Interrupt, StartOnClosedTrace, SaveSession, Doing,
                       Idle, control, historyVars
  <2>2. cut \subseteq cut'
    BY <2>1 DEF Torn
  <2>3. round' \in Nat /\ round <= round'
    BY <1>4, <2>1, <2>2
  <2>4. GoodFile(namedFile', cut', round')
    <3>1. GoodFile(File, cut', round')
      BY <1>2, <1>5, <2>2, <2>3, FilesStay
    <3> QED BY <1>4, <2>1, <2>2, <3>1
  <2>5. Talk(history, asked, cut', round', run'.pc)
    <3>1. Conv(history, asked, cut')
      BY <1>2, <2>2, MoreCut
    <3>2. Until(history, asked, round')
      BY <1>2, <2>3, UntilLater
    <3>3. Closed(history, cut')
      <4>1. CASE run.pc = "answer"
        BY <1>3, <2>1, <4>1 DEF Torn, Closed, Ends
      <4>2. CASE run.pc # "answer"
        BY <1>3, <2>2, <4>2, MoreCut
      <4> QED BY <4>1, <4>2
    <3> QED BY <2>1, <3>1, <3>2, <3>3 DEF Talk
  <2> QED BY <1>1, <1>2, <1>4, <2>1, <2>2, <2>3, <2>4, <2>5 DEF H
<1>11. ASSUME RecordQuestion PROVE HistInv'
  <2>1. /\ run.pc = "record" /\ run' = [run EXCEPT !.pc = "answer"]
        /\ \E size \in Sizes : AddMessage(Message("user", round, size))
        /\ outer' = outer /\ round' = round
    BY <1>11 DEF RecordQuestion, control
  <2>2. run'.pc = "answer"
    BY <2>1, OtherPlaces DEF RunInv, Good
  <2>3. Asking
    BY <2>1 DEF Asking
  <2>4. Closed(history, cut) /\ Until(history, asked, round - 1)
    BY <1>3, <2>1, <2>3
  <2>5. /\ Conv(history', asked', cut) /\ Until(history', asked', round)
        /\ Ends(history', round) /\ Counted(exact', tokens', history')
        /\ GoodFile(autoFile', cut, round) /\ UNCHANGED <<namedFile, cut>>
    BY <2>1, <2>4, Adding
  <2>6. Talk(history', asked', cut, round, "answer")
    BY <2>5 DEF Talk
  <2> QED BY <1>1, <1>2, <2>1, <2>2, <2>5, <2>6 DEF H
<1>12. ASSUME RecordAnswer PROVE HistInv'
  <2>1. /\ run.pc = "answer" /\ run'.pc = "idle"
        /\ \E size \in Sizes : AddMessage(Message("assistant", round, size))
        /\ outer' = outer /\ round' = round
    BY <1>7, <1>12 DEF RecordAnswer
  <2>2. Ends(history, round)
    BY <1>3, <2>1
  <2>3. /\ Conv(history', asked', cut) /\ Until(history', asked', round)
        /\ Closed(history', cut) /\ Counted(exact', tokens', history')
        /\ GoodFile(autoFile', cut, round) /\ UNCHANGED <<namedFile, cut>>
    BY <2>1, <2>2, Adding
  <2>4. Talk(history', asked', cut, round, "idle")
    BY <2>3 DEF Talk
  <2> QED BY <1>1, <1>2, <2>1, <2>3, <2>4 DEF H
<1>13. ASSUME EndSubtask PROVE HistInv'
  <2>1. /\ outer.exists /\ history' = outer.history /\ asked' = outer.asked /\ ~exact'
        /\ ~outer'.exists /\ cut' = cut /\ round' = round /\ run'.pc = "idle"
        /\ autoFile' = autoFile /\ namedFile' = namedFile
    BY <1>8, <1>13 DEF EndSubtask
  <2>2. /\ Conv(outer.history, outer.asked, cut) /\ Until(outer.history, outer.asked, round)
        /\ Closed(outer.history, cut)
    BY <1>2, <2>1 DEF GoodFile
  <2>3. Talk(history', asked', cut', round', run'.pc)
    BY <2>1, <2>2 DEF Talk
  <2>4. GoodFile(outer', cut', round') /\ Counted(exact', tokens', history')
    BY <2>1 DEF GoodFile, Counted
  <2> QED BY <1>1, <1>2, <2>1, <2>3, <2>4 DEF H
<1>14. ASSUME StartRun PROVE HistInv'
  <2>1. /\ history' = history /\ asked' = asked /\ cut' = cut /\ exact' = exact
        /\ tokens' = tokens /\ autoFile' = autoFile /\ namedFile' = namedFile
        /\ outer' = outer /\ round' = round + 1 /\ run.pc = "idle"
        /\ \E mode \in Modes : run' = Started(mode)
    BY <1>14 DEF StartRun, Idle, historyVars
  <2>2. run'.pc # "answer"
    BY <2>1, StartedPlace
  <2>3. Talk(history, asked, cut', round', run'.pc)
    BY <1>2, <2>1, <2>2, TalkStays
  <2> QED BY <1>1, <1>2, <1>4, <2>1, <2>3 DEF H
<1>15. ASSUME BeginSubtask PROVE HistInv'
  <2>1. /\ outer' = File /\ history' = <<>> /\ asked' = {} /\ cut' = cut
        /\ exact' = (exact /\ history = <<>>) /\ tokens' = tokens /\ autoFile' = autoFile
        /\ namedFile' \in {namedFile, [exists |-> TRUE, history |-> <<>>, asked |-> {}]}
        /\ round' = round + 1 /\ run.pc = "idle"
        /\ run' \in {Raised, Started("run")}
    BY <1>15 DEF BeginSubtask, Idle
  <2>2. run'.pc # "answer"
    <3>1. "run" \in Modes
      BY DEF Modes
    <3> QED BY <1>7, <2>1, <3>1, StartedPlace
  <2>3. Counted(exact', tokens', history')
    BY <1>2, <2>1 DEF Counted
  <2>4. GoodFile(File, cut', round') /\ Closed(File.history, cut')
    <3>1. Closed(File.history, cut)
      BY <1>3, <2>1 DEF File
    <3>2. GoodFile(File, cut', round')
      BY <1>2, <1>4, <1>5, <2>1, FilesStay
    <3> QED BY <2>1, <3>1, <3>2
  <2> QED BY <1>1, <1>4, <1>6, <2>1, <2>2, <2>3, <2>4 DEF H
<1>16. ASSUME Load PROVE HistInv'
  <2>1. PICK f \in {autoFile, namedFile} :
           /\ f.exists /\ history' = f.history /\ asked' = f.asked /\ ~exact'
           /\ cut' = cut \cup BrokenOff(f.history)
    BY <1>16 DEF Load, LoadSession
  <2>2. /\ autoFile' = autoFile /\ namedFile' = namedFile /\ outer' = outer
        /\ round' = round /\ run'.pc = "idle"
    BY <1>16 DEF Load, LoadSession, Idle, control
  <2>3. cut \subseteq cut'
    BY <2>1
  <2>4. Conv(f.history, f.asked, cut') /\ Until(f.history, f.asked, round)
    <3>1. Conv(f.history, f.asked, cut) /\ Until(f.history, f.asked, round)
      BY <1>2, <2>1 DEF GoodFile
    <3> QED BY <2>3, <3>1, MoreCut
  <2>5. Closed(f.history, cut')
    <3> SUFFICES ASSUME Len(f.history) > 0, f.history[Len(f.history)].role = "user"
                 PROVE  f.history[Len(f.history)].round \in cut'
      BY DEF Closed
    <3>1. f.history # <<>>
      OBVIOUS
    <3>2. BrokenOff(f.history) = {f.history[Len(f.history)].round}
      BY <3>1 DEF BrokenOff, Last
    <3> QED BY <2>1, <3>2
  <2>6. Talk(history', asked', cut', round', run'.pc)
    BY <2>1, <2>2, <2>4, <2>5 DEF Talk
  <2>7. Counted(exact', tokens', history')
    BY <2>1 DEF Counted
  <2> QED BY <1>1, <1>4, <2>2, <2>3, <2>6, <2>7 DEF H
<1>17. ASSUME Clear \/ Crash PROVE HistInv'
  <2>1. /\ history' = <<>> /\ asked' = {} /\ exact' = TRUE /\ tokens' = 0
        /\ autoFile' = autoFile /\ namedFile' = namedFile /\ outer' \in {outer, NoFile}
        /\ cut' \in {cut, Torn} /\ round' = round /\ run'.pc = "idle"
    BY <1>7, <1>17 DEF Clear, Crash, ClearHistory, NewAgent, Idle, control
  <2>2. cut \subseteq cut'
    BY <2>1 DEF Torn
  <2>3. GoodFile(outer', cut', round') /\ (outer'.exists => Closed(outer'.history, cut'))
    BY <1>4, <1>8, <2>1, <2>2 DEF GoodFile
  <2> QED BY <1>1, <1>4, <1>6, <2>1, <2>2, <2>3 DEF H
<1>18. ASSUME UNCHANGED vars PROVE HistInv'
  BY <1>1, <1>2, <1>18 DEF vars, historyVars, control, H
<1> QED
  BY ONLY [Next]_vars, <1>9, <1>10, <1>11, <1>12, <1>13, <1>14, <1>15, <1>16, <1>17, <1>18
     DEF Next, Work, LoopStep

LEMMA HistStart == Init => HistInv
<1> SUFFICES ASSUME Init PROVE HistInv
  OBVIOUS
<1>1. /\ history = <<>> /\ asked = {} /\ exact = TRUE /\ tokens = 0 /\ round = 0
      /\ autoFile = NoFile /\ namedFile = NoFile /\ outer = NoFile /\ run.pc = "idle"
  BY DEF Init, HistoryInit, IdleRun
<1>2. Conv(<<>>, {}, cut) /\ Closed(<<>>, cut) /\ \A n : Until(<<>>, {}, n)
  BY EmptyConv
<1>3. Talk(<<>>, {}, cut, 0, "idle")
  BY <1>2 DEF Talk
<1>4. MinRetain \in Nat /\ Rounds(<<>>) = 0
  BY EmptyConv, HistoryAssumption
<1>5. Counted(TRUE, 0, <<>>)
  BY <1>4, TokensNone DEF Counted
<1>6. ~NoFile.exists
  BY DEF NoFile
<1> QED BY <1>1, <1>3, <1>5, <1>6 DEF HistInv, GoodFile

(* In memory every question has its answer or is where a run broke off,    *)
(* and rounds are in order, through _compress_history, run_as_subagent,    *)
(* save_session, load_session, interrupts and crashes.                     *)
THEOREM RoundsStayWhole == Spec => []RoundsWhole
<1>1. HistInv => RoundsWhole
  <2> SUFFICES ASSUME HistInv, NEW i \in DOMAIN history
               PROVE  /\ history[i].role = "user" =>
                           \/ history[i].round \in cut
                           \/ i = Len(history) /\ run.pc = "answer" /\ history[i].round = round
                           \/ i < Len(history) /\ history[i+1].role = "assistant"
                                               /\ history[i+1].round = history[i].round
                      /\ \A j \in DOMAIN history : i < j => history[i].round <= history[j].round
    BY DEF RoundsWhole
  <2>1. /\ history \in Seq(Msg) /\ Paired(history, cut) /\ Ordered(history)
        /\ run.pc = "answer" => Ends(history, round)
        /\ run.pc # "answer" => Closed(history, cut)
    BY DEF HistInv, Talk, Conv
  <2>2. Len(history) > 0
    BY <2>1
  <2>3. ASSUME history[i].role = "user", history[i].round \notin cut, i = Len(history)
        PROVE  run.pc = "answer" /\ history[i].round = round
    BY <2>1, <2>2, <2>3 DEF Ends, Closed
  <2> QED BY <2>1, <2>3 DEF Paired, Ordered
<1> QED BY <1>1, RunStart, RunStep, HistStart, HistStep, PTL DEF Spec

(* HistoryManager.compress forgets whole rounds, none of the last          *)
(* MinRetain, and leaves its summary where they were.                      *)
THEOREM ForgottenIsSummarised == Spec => []ForgetsIntoSummary
<1>1. HistInv => ForgetsIntoSummary
  <2> SUFFICES ASSUME HistInv PROVE ForgetsIntoSummary
    OBVIOUS
  <2>1. Accounted(history, asked) /\ Headed(history)
    BY DEF HistInv, Talk, Conv
  <2>2. PICK known, lost : /\ known = {history[i].round : i \in Boundaries(history)}
                           /\ lost = asked \ known
    OBVIOUS
  <2>3. \A r \in lost : Lost(history, asked, r)
    BY <2>1, <2>2 DEF Accounted
  <2>4. /\ \A r \in lost : Cardinality({q \in asked : q > r}) >= MinRetain
        /\ lost # {} => history[1].role = "summary"
    BY <2>3 DEF Lost
  <2> QED BY <2>1, <2>2, <2>4 DEF ForgetsIntoSummary, Headed
<1> QED BY <1>1, RunStart, RunStep, HistStart, HistStep, PTL DEF Spec

(* While the token count follows the history, add_message lets it outgrow  *)
(* the threshold only by the rounds it must retain.                        *)
THEOREM HistoryIsBounded == Spec => []HistoryBounded
<1>1. HistInv => HistoryBounded
  BY DEF HistInv, Counted, HistoryBounded
<1> QED BY <1>1, RunStart, RunStep, HistStart, HistStep, PTL DEF Spec
==============================================================================
