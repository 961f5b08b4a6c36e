------------------------------- MODULE Breaker ---------------------------------
(***************************************************************************)
(* The circuit breaker of a ToolRegistry, for one tool that the threads of *)
(* several agents call: the count of failures and the time stamp of an     *)
(* open breaker are two dictionaries that every call reads and changes in  *)
(* steps, without a lock.  A tool that runs may fail now and then, and     *)
(* from some moment on it may fail for ever.                               *)
(***************************************************************************)
EXTENDS Integers, FiniteSets

CONSTANTS
    Threads,
    FailureThreshold,  (* failure_threshold                                  *)
    MaxCount           (* bound: the count is kept at most this high         *)

ASSUME BreakerAssumption ==
    /\ FailureThreshold \in Nat \ {0}
    /\ MaxCount \in Nat /\ MaxCount > FailureThreshold + Cardinality(Threads)

VARIABLES
    count,   (* failure_counts of the tool                                   *)
    stamp,   (* its open_timestamps: none, fresh, or recovery_timeout old    *)
    call,    (* thread -> its call of execute_tool                           *)
    broken   (* the tool fails from now on                                   *)

breakerVars == <<count, stamp, call, broken>>

Resting == [pc |-> "idle", loaded |-> 0]

At(c, pc) == call[c].pc = pc
Go(c, pc) == call' = [call EXCEPT ![c].pc = pc]

(* is_open: is there a time stamp?                                         *)
AskIsIn(c) ==
    /\ At(c, "idle")
    /\ Go(c, IF stamp = "none" THEN "run" ELSE "look")
    /\ UNCHANGED <<count, stamp, broken>>

(* Then it is read: another thread may have removed it, which raises       *)
(* KeyError, and an open breaker refuses; both end the call.               *)
Look(c) ==
    /\ At(c, "look")
    /\ Go(c, IF stamp = "old" THEN "close" ELSE "idle")
    /\ UNCHANGED <<count, stamp, broken>>

(* close                                                                   *)
CloseCount(c) ==
    /\ At(c, "close") /\ count' = 0 /\ Go(c, "pop")
    /\ UNCHANGED <<stamp, broken>>

ClosePop(c) ==
    /\ At(c, "pop") /\ stamp' = "none" /\ Go(c, "run")
    /\ UNCHANGED <<count, broken>>

(* The function returns or raises.                                         *)
Run(c) ==
    /\ At(c, "run")
    /\ \/ ~broken /\ Go(c, "reset")
       \/ Go(c, "load")
    /\ UNCHANGED <<count, stamp, broken>>

(* _on_success                                                             *)
Reset(c) ==
    /\ At(c, "reset") /\ count' = 0 /\ Go(c, "idle")
    /\ UNCHANGED <<stamp, broken>>

(* _on_failure: += is a read and a write.                                  *)
CountRead(c) ==
    /\ At(c, "load")
    /\ call' = [call EXCEPT ![c] = [pc |-> "store", loaded |-> count]]
    /\ UNCHANGED <<count, stamp, broken>>

CountWrite(c) ==
    /\ At(c, "store")
    /\ count' = IF call[c].loaded < MaxCount THEN call[c].loaded + 1 ELSE MaxCount
    /\ call' = [call EXCEPT ![c] = [pc |-> "trip", loaded |-> 0]]
    /\ UNCHANGED <<stamp, broken>>

(* Mutant: the breaker opens when the threshold is met exactly.            *)
Trip_Exactly(c) ==
    /\ At(c, "trip") /\ Go(c, "idle")
    /\ stamp' = IF count = FailureThreshold THEN "fresh" ELSE stamp
    /\ UNCHANGED <<count, broken>>

Trip(c) ==
    /\ At(c, "trip") /\ Go(c, "idle")
    /\ stamp' = IF count >= FailureThreshold THEN "fresh" ELSE stamp
    /\ UNCHANGED <<count, broken>>

TimePasses ==
    /\ stamp = "fresh" /\ stamp' = "old"
    /\ UNCHANGED <<count, call, broken>>

Breaks ==
    /\ ~broken /\ broken' = TRUE
    /\ UNCHANGED <<count, stamp, call>>

ThreadStep(c) ==
    \/ AskIsIn(c) \/ Look(c) \/ CloseCount(c) \/ ClosePop(c) \/ Run(c) \/ Reset(c)
    \/ CountRead(c) \/ CountWrite(c) \/ Trip(c)

BreakerInit ==
    /\ count = 0 /\ stamp = "none" /\ broken = FALSE
    /\ call = [c \in Threads |-> Resting]

BreakerNext == (\E c \in Threads : ThreadStep(c)) \/ TimePasses \/ Breaks

(* The properties are about a tool that is asked for again and again.      *)
BreakerFairness ==
    /\ \A c \in Threads : WF_breakerVars(ThreadStep(c))
    /\ WF_breakerVars(TimePasses)

BreakerSpec == BreakerInit /\ [][BreakerNext]_breakerVars /\ BreakerFairness

------------------------------------------------------------------------------
(* A tool that only fails any more trips the breaker, though increments of *)
(* parallel failures get lost and a late success sets the count back; and  *)
(* none is shut out for good: after the time-out some call reaches the     *)
(* tool, even when another thread removes the stamp between the two looks  *)
(* (is_open, record_result).                                               *)
TripsAndRetries ==
    /\ broken ~> stamp # "none"
    /\ stamp # "none" ~> \E c \in Threads : At(c, "run")
==============================================================================
