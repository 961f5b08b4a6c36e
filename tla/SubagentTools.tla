---------------------------- MODULE SubagentTools ----------------------------
(***************************************************************************)
(* Subagents on a shared tool registry.  An agent that calls the Task tool *)
(* creates a subagent with the same ToolRegistry; a tool filter takes the  *)
(* tools the subagent may not use out of the registry while it runs, and   *)
(* puts back whatever is in the one dictionary of disabled tools when it   *)
(* ends.  ReActAgent runs the tool calls of one step concurrently, each in *)
(* a thread of the pool, and a subagent may start subagents of its own in  *)
(* its thread, so the steps below interleave and nest.                     *)
(*                                                                         *)
(* A step is a stretch of run_as_subagent between two accesses of the      *)
(* registry.  Tools are their names; what a subagent does with them and    *)
(* its private history are left out.                                       *)
(***************************************************************************)
EXTENDS Naturals

CONSTANTS
    Slots,          (* concurrent Task calls, max_concurrent_tools            *)
    MaxDepth,       (* bound: subagents nested in one thread                  *)
    MaxCalls,       (* bound: Task calls altogether                           *)
    Tools,          (* Tool objects of the registry                           *)
    TaskTool,       (* the tool that starts subagents                         *)
    Registers,      (* what Agent.__init__ registers again                    *)
    ReadOnlyTools,  (* registered tools of ReadOnlyFilter's white list        *)
    DeniedTools     (* registered tools of FullAccessFilter's black list      *)

ASSUME ToolAssumption ==
    /\ MaxDepth \in Nat /\ MaxCalls \in Nat
    /\ Registers \subseteq Tools /\ TaskTool \in Registers
    /\ TaskTool \notin ReadOnlyTools
    /\ Registers \cap DeniedTools = {}

VARIABLES
    tools,      (* ToolRegistry._tools                                       *)
    disabled,   (* ToolRegistry._temp_disabled_tools                         *)
    depth,      (* per slot, the subagents on its stack                      *)
    frames,     (* per slot and level, the subagent                          *)
    calls,      (* Task calls so far                                         *)
    overlapped  (* history: two filtered subagents ran in different slots    *)

vars == <<tools, disabled, depth, frames, calls, overlapped>>

Levels == 1..MaxDepth

Filters == {"readonly", "full", "none"}

Allowed == [readonly |-> ReadOnlyTools \cap Tools,
            full     |-> Tools \ DeniedTools,
            none     |-> Tools]

(* A subagent: its filter, how far it is, the names its current loop has   *)
(* left, the names in the dictionary when it began to restore, whether it  *)
(* still iterates over the registry's dictionary, and (history) whether    *)
(* its registry was its own since it started.                              *)
Frame(k, pc, todo, names, attached, alone) ==
    [filter |-> k, pc |-> pc, todo |-> todo, names |-> names,
     attached |-> attached, alone |-> alone]

NoFrame == Frame("none", "none", {}, {}, FALSE, FALSE)

Top(s) == frames[s][depth[s]]

(* A subagent of the slot has a filter, and the registry is not as it was. *)
Filtered(s) ==
    \E d \in Levels : frames[s][d].filter # "none" /\ frames[s][d].pc # "called"

Init ==
    /\ tools = Tools /\ disabled = {}
    /\ depth = [s \in Slots |-> 0]
    /\ frames = [s \in Slots |-> [d \in Levels |-> NoFrame]]
    /\ calls = 0 /\ overlapped = FALSE

------------------------------------------------------------------------------
At(s, pc) == depth[s] > 0 /\ Top(s).pc = pc

SetTop(s, f) == frames' = [frames EXCEPT ![s][depth[s]] = f]

(* The agents in other slots and, if the new subagent will restore tools,  *)
(* those below it no longer have the registry to themselves.               *)
Disturbed(u, d, s, k) ==
    [frames[u][d] EXCEPT !.alone = @ /\ u = s /\ k = "none"]

(* An agent looks the Task tool up and hands the call to a thread ...      *)
Call(s, k) ==
    /\ calls < MaxCalls /\ depth[s] < MaxDepth
    /\ TaskTool \in tools
    /\ depth[s] = 0 \/ At(s, "work")
    /\ depth' = [depth EXCEPT ![s] = @ + 1]
    /\ frames' = [frames EXCEPT ![s][depth[s] + 1] =
                     Frame(k, "called", {}, {}, FALSE, FALSE)]
    /\ calls' = calls + 1
    /\ UNCHANGED <<tools, disabled, overlapped>>

(* ... where TaskTool.run has the factory build the subagent, whose        *)
(* constructor registers its own tools in the shared registry.             *)
Begin(s) ==
    /\ At(s, "called")
    /\ tools' = tools \cup Registers
    /\ LET k      == Top(s).filter
           shared == \E u \in Slots \ {s} : Filtered(u)
       IN  /\ frames' = [u \in Slots |-> [d \in Levels |->
                 IF u = s /\ d = depth[s]
                 THEN [Top(s) EXCEPT !.pc = IF k = "none" THEN "work" ELSE "list",
                                     !.alone = ~shared]
                 ELSE Disturbed(u, d, s, k)]]
           /\ overlapped' = (overlapped \/ (k # "none" /\ shared))
    /\ UNCHANGED <<disabled, depth, calls>>

(* _apply_tool_filter reads the names and filters the list.                *)
List(s) ==
    /\ At(s, "list")
    /\ LET denied == tools \ Allowed[Top(s).filter]
       IN  SetTop(s, [Top(s) EXCEPT !.todo = denied,
                                    !.pc = IF denied = {} THEN "work" ELSE "stash"])
    /\ UNCHANGED <<tools, disabled, depth, calls, overlapped>>

(* Mutant: a tool leaves the registry without being remembered.            *)
Stash_Forgets(s) ==
    /\ At(s, "stash")
    /\ \E t \in Top(s).todo :
         IF t \in tools
         THEN SetTop(s, [Top(s) EXCEPT !.pc = "drop", !.names = {t}])
         ELSE LET rest == Top(s).todo \ {t}
              IN  SetTop(s, [Top(s) EXCEPT !.todo = rest,
                                           !.pc = IF rest = {} THEN "work" ELSE "stash"])
    /\ UNCHANGED <<tools, disabled, depth, calls, overlapped>>

(* One denied tool is remembered, unless it has gone meanwhile ...         *)
Stash(s) ==
    /\ At(s, "stash")
    /\ \E t \in Top(s).todo :
         IF t \in tools
         THEN /\ disabled' = disabled \cup {t}
              /\ SetTop(s, [Top(s) EXCEPT !.pc = "drop", !.names = {t}])
         ELSE LET rest == Top(s).todo \ {t}
              IN  /\ disabled' = disabled
                  /\ SetTop(s, [Top(s) EXCEPT !.todo = rest,
                                              !.pc = IF rest = {} THEN "work" ELSE "stash"])
    /\ UNCHANGED <<tools, depth, calls, overlapped>>

(* Mutant: leaves the loop after the first denied tool.                    *)
Drop_First(s) ==
    /\ At(s, "drop")
    /\ tools' = tools \ Top(s).names
    /\ SetTop(s, [Top(s) EXCEPT !.todo = {}, !.names = {}, !.pc = "work"])
    /\ UNCHANGED <<disabled, depth, calls, overlapped>>

(* ... and then taken out.                                                 *)
Drop(s) ==
    /\ At(s, "drop")
    /\ tools' = tools \ Top(s).names
    /\ LET rest == Top(s).todo \ Top(s).names
       IN  SetTop(s, [Top(s) EXCEPT !.todo = rest, !.names = {},
                                    !.pc = IF rest = {} THEN "work" ELSE "stash"])
    /\ UNCHANGED <<disabled, depth, calls, overlapped>>

Pop(s) ==
    /\ depth' = [depth EXCEPT ![s] = @ - 1]
    /\ SetTop(s, NoFrame)

(* The subagent's run returns or raises; the finally clause starts to      *)
(* iterate over the disabled tools, whoever disabled them.                 *)
Finish(s) ==
    /\ At(s, "work")
    /\ IF Top(s).filter = "none"
       THEN Pop(s)
       ELSE /\ SetTop(s, [Top(s) EXCEPT !.pc = "restore", !.todo = disabled,
                                        !.names = disabled, !.attached = TRUE])
            /\ depth' = depth
    /\ UNCHANGED <<tools, disabled, calls, overlapped>>

(* The dictionary a restoring subagent iterates over has grown.            *)
Grown(s) == Top(s).attached /\ disabled # Top(s).names

PutBack(s) ==
    /\ At(s, "restore") /\ ~Grown(s)
    /\ \E t \in Top(s).todo :
         /\ tools' = tools \cup {t}
         /\ SetTop(s, [Top(s) EXCEPT !.todo = @ \ {t}])
    /\ UNCHANGED <<disabled, depth, calls, overlapped>>

(* The iteration raises; TaskTool.run reports the error, and the rest of   *)
(* the dictionary waits for the next subagent that restores.               *)
Break(s) ==
    /\ At(s, "restore") /\ Grown(s)
    /\ Pop(s)
    /\ UNCHANGED <<tools, disabled, calls, overlapped>>

(* A fresh dictionary takes the place of the old one, which others may     *)
(* still be iterating over.                                                *)
Clear(s) ==
    /\ At(s, "restore") /\ ~Grown(s) /\ Top(s).todo = {}
    /\ disabled' = {}
    /\ depth' = [depth EXCEPT ![s] = @ - 1]
    /\ frames' = [u \in Slots |-> [d \in Levels |->
          IF u = s /\ d = depth[s] THEN NoFrame
          ELSE [frames[u][d] EXCEPT !.attached = FALSE]]]
    /\ UNCHANGED <<tools, calls, overlapped>>

Thread(s) ==
    \/ Begin(s) \/ List(s) \/ Stash(s) \/ Drop(s) \/ Finish(s)
    \/ PutBack(s) \/ Break(s) \/ Clear(s)

Next == \E s \in Slots : (\E k \in Filters : Call(s, k)) \/ Thread(s)

(* A subagent's run is bounded by max_steps and the timeout of its model   *)
(* calls, and the pool runs every thread; nothing makes an agent call Task.*)
Spec == Init /\ [][Next]_vars /\ \A s \in Slots : WF_vars(Thread(s))

------------------------------------------------------------------------------
FrameType ==
    [filter : Filters, todo : SUBSET Tools, names : SUBSET Tools,
     pc : {"none", "called", "list", "stash", "drop", "work", "restore"},
     attached : BOOLEAN, alone : BOOLEAN]

(* Types; only the subagent on top of a stack is not at work, and unused   *)
(* levels are empty.                                                       *)
TypeOK ==
    /\ tools \subseteq Tools /\ disabled \subseteq Tools
    /\ depth \in [Slots -> 0..MaxDepth]
    /\ frames \in [Slots -> [Levels -> FrameType]]
    /\ \A s \in Slots, d \in Levels :
         /\ d < depth[s] => frames[s][d].pc = "work"
         /\ d = depth[s] => frames[s][d].pc # "none"
         /\ d > depth[s] => frames[s][d] = NoFrame
    /\ calls \in 0..MaxCalls /\ overlapped \in BOOLEAN

(* A working subagent finds in the registry only tools its filter allows,  *)
(* and a subagent it started without a filter gets no more than it had, as *)
(* long as no other Task call ran beside it and no filtered one inside it  *)
(* (_apply_tool_filter).                                                   *)
FilterHolds ==
    \A s \in Slots, d \in Levels :
        LET f == frames[s][d]
        IN  f.pc = "work" /\ f.alone => tools \subseteq Allowed[f.filter]

(* However subagents nest, and whether their runs succeed or raise, a tool *)
(* is in the registry or in the dictionary of disabled tools, and in the   *)
(* registry once no filtered subagent runs, unless filtered subagents ran  *)
(* in different threads at once (_restore_tools).                          *)
NothingLost ==
    ~overlapped =>
        /\ tools \cup disabled = Tools
        /\ (\A s \in Slots : ~Filtered(s)) => tools = Tools

(* The guide on subagents: with ReadOnlyFilter a subagent can access only  *)
(* read-only tools.                                                        *)
ReadOnlyStaysReadOnly ==
    \A s \in Slots, d \in Levels :
        LET f == frames[s][d]
        IN  f.pc = "work" /\ f.filter = "readonly" => tools \subseteq ReadOnlyTools
==============================================================================
