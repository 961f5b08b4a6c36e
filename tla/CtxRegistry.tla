----------------------------- MODULE CtxRegistry -----------------------------
(***************************************************************************)
(* The registry of AgentContexts: a dictionary in every server instance,   *)
(* under its lock, and one snapshot table the instances share.  A query    *)
(* registers its context, uses it through get and removes it; any instance *)
(* that knows the trace_id may call get as well.  Neither register, get    *)
(* nor remove is atomic: the dictionary and the table are written one      *)
(* after the other, and each call to the table may fail.                   *)
(***************************************************************************)
EXTENDS Naturals

CONSTANTS
    Instances,   (* server processes sharing the snapshot table             *)
    Ctxs         (* trace_ids, each used by one query                       *)

VARIABLES
    query,     (* progress of the query that owns the context               *)
    home,      (* instance that runs it                                     *)
    local,     (* _registry of every instance: its own context, one rebuilt *)
               (* from the snapshot, or none                                *)
    row,       (* the context's row in the table; "expired" past the TTL    *)
    lookup,    (* progress of a get in every instance                       *)
    unsaved,   (* history: contexts whose snapshot could not be saved       *)
    aged,      (* history: contexts whose snapshot passed its TTL           *)
    lost,      (* history: which running contexts a get did not find, why   *)
    revived    (* history: contexts whose row outlived remove, or was read  *)
               (* by a get in their own instance in the middle of it        *)

contextVars == <<query, home, local, row, lookup, unsaved, aged, lost, revived>>

QueryStates == {"new", "saving", "running", "deleting", "done", "crashed"}

LookupStates == {"idle", "missed", "expired", "loaded"}

Reasons == {"absent", "expired", "failed"}

Active(c) == query[c] \in {"saving", "running", "deleting"}

ContextInit ==
    /\ query = [c \in Ctxs |-> "new"]
    /\ home \in [Ctxs -> Instances]
    /\ local = [i \in Instances |-> [c \in Ctxs |-> "none"]]
    /\ row = [c \in Ctxs |-> "absent"]
    /\ lookup = [i \in Instances |-> [c \in Ctxs |-> "idle"]]
    /\ unsaved = {} /\ aged = {} /\ lost = {} /\ revived = {}

------------------------------------------------------------------------------
(* A get of a running context ends in a KeyError.                          *)
Misses(c, why) ==
    lost' = IF query[c] = "running" THEN lost \cup {[ctx |-> c, why |-> why]} ELSE lost

(* register: first the dictionary, then the table; a failure of the latter *)
(* is logged and ignored.                                                  *)

Register(c) ==
    /\ query[c] = "new"
    /\ query' = [query EXCEPT ![c] = "saving"]
    /\ local' = [local EXCEPT ![home[c]][c] = "own"]
    /\ UNCHANGED <<home, row, lookup, unsaved, aged, lost, revived>>

Save(c) ==
    /\ query[c] = "saving"
    /\ query' = [query EXCEPT ![c] = "running"]
    /\ \/ row' = [row EXCEPT ![c] = "fresh"] /\ UNCHANGED unsaved
       \/ unsaved' = unsaved \cup {c} /\ UNCHANGED row
    /\ UNCHANGED <<home, local, lookup, aged, lost, revived>>

------------------------------------------------------------------------------
(* get: a hit returns at once and changes nothing; a miss reads the table, *)
(* deletes an expired row, or rebuilds the context and keeps it.           *)

(* Mutant: does not look into the dictionary first.                        *)
Miss_Always(i, c) ==
    /\ lookup[i][c] = "idle"
    /\ lookup' = [lookup EXCEPT ![i][c] = "missed"]
    /\ UNCHANGED <<query, home, local, row, unsaved, aged, lost, revived>>

Miss(i, c) ==
    /\ lookup[i][c] = "idle"
    /\ query[c] # "new"
    /\ local[i][c] = "none"
    /\ lookup' = [lookup EXCEPT ![i][c] = "missed"]
    /\ UNCHANGED <<query, home, local, row, unsaved, aged, lost, revived>>

(* Mutant: a snapshot is consumed by the first instance that loads it.     *)
Load_Consumes(i, c) ==
    /\ lookup[i][c] = "missed"
    /\ \/ row[c] = "fresh" /\ lookup' = [lookup EXCEPT ![i][c] = "loaded"] /\ UNCHANGED lost
       \/ row[c] = "expired" /\ lookup' = [lookup EXCEPT ![i][c] = "expired"]
          /\ Misses(c, "expired")
       \/ row[c] = "absent" /\ lookup' = [lookup EXCEPT ![i][c] = "idle"]
          /\ Misses(c, "absent")
    /\ row' = [row EXCEPT ![c] = "absent"]
    /\ UNCHANGED <<query, home, local, unsaved, aged, revived>>

Load(i, c) ==
    /\ lookup[i][c] = "missed"
    /\ \/ row[c] = "fresh" /\ lookup' = [lookup EXCEPT ![i][c] = "loaded"] /\ UNCHANGED lost
       \/ row[c] = "expired" /\ lookup' = [lookup EXCEPT ![i][c] = "expired"]
          /\ Misses(c, "expired")
       \/ row[c] = "absent" /\ lookup' = [lookup EXCEPT ![i][c] = "idle"]
          /\ Misses(c, "absent")
    /\ revived' = IF row[c] = "fresh" /\ i = home[c] /\ query[c] = "deleting"
                  THEN revived \cup {c} ELSE revived
    /\ UNCHANGED <<query, home, local, row, unsaved, aged>>

(* Reading the table, or rebuilding from what was read, fails.             *)
LoadFails(i, c) ==
    /\ lookup[i][c] \in {"missed", "loaded"}
    /\ lookup' = [lookup EXCEPT ![i][c] = "idle"]
    /\ Misses(c, "failed")
    /\ UNCHANGED <<query, home, local, row, unsaved, aged, revived>>

DeleteExpired(i, c) ==
    /\ lookup[i][c] = "expired"
    /\ row' = [row EXCEPT ![c] = "absent"]
    /\ lookup' = [lookup EXCEPT ![i][c] = "idle"]
    /\ UNCHANGED <<query, home, local, unsaved, aged, lost, revived>>

Install(i, c) ==
    /\ lookup[i][c] = "loaded"
    /\ local' = [local EXCEPT ![i][c] = "rebuilt"]
    /\ lookup' = [lookup EXCEPT ![i][c] = "idle"]
    /\ UNCHANGED <<query, home, row, unsaved, aged, lost, revived>>

------------------------------------------------------------------------------
(* remove, in the finally clause of the query.                             *)

(* Mutant: forgets the dictionary.                                         *)
Remove_RowOnly(c) ==
    /\ query[c] = "running"
    /\ query' = [query EXCEPT ![c] = "deleting"]
    /\ UNCHANGED <<home, local, row, lookup, unsaved, aged, lost, revived>>

Remove(c) ==
    /\ query[c] = "running"
    /\ query' = [query EXCEPT ![c] = "deleting"]
    /\ local' = [local EXCEPT ![home[c]][c] = "none"]
    /\ UNCHANGED <<home, row, lookup, unsaved, aged, lost, revived>>

Delete(c) ==
    /\ query[c] = "deleting"
    /\ query' = [query EXCEPT ![c] = "done"]
    /\ \/ row' = [row EXCEPT ![c] = "absent"] /\ UNCHANGED revived
       \/ revived' = revived \cup {c} /\ UNCHANGED row
    /\ UNCHANGED <<home, local, lookup, unsaved, aged, lost>>

------------------------------------------------------------------------------
(* The environment: time, and crashes of an instance, which is restarted.  *)

Expire(c) ==
    /\ row[c] = "fresh"
    /\ row' = [row EXCEPT ![c] = "expired"]
    /\ aged' = aged \cup {c}
    /\ UNCHANGED <<query, home, local, lookup, unsaved, lost, revived>>

Crash(i) ==
    /\ local' = [local EXCEPT ![i] = [c \in Ctxs |-> "none"]]
    /\ lookup' = [lookup EXCEPT ![i] = [c \in Ctxs |-> "idle"]]
    /\ query' = [c \in Ctxs |->
                    IF home[c] = i /\ Active(c) THEN "crashed" ELSE query[c]]
    /\ UNCHANGED <<home, row, unsaved, aged, lost, revived>>

QueryStep(c) == Register(c) \/ Save(c) \/ Remove(c) \/ Delete(c)

LookupStep(i, c) == Load(i, c) \/ LoadFails(i, c) \/ DeleteExpired(i, c) \/ Install(i, c)

ContextNext ==
    \/ \E c \in Ctxs : QueryStep(c) \/ Expire(c)
    \/ \E i \in Instances, c \in Ctxs : Miss(i, c) \/ LookupStep(i, c)
    \/ \E i \in Instances : Crash(i)

(* A query runs to its end and a get that was begun is finished, unless    *)
(* the instance crashes; nobody has to call get.                           *)
ContextSpec ==
    /\ ContextInit /\ [][ContextNext]_contextVars
    /\ \A c \in Ctxs : WF_contextVars(QueryStep(c))
    /\ \A i \in Instances, c \in Ctxs : WF_contextVars(LookupStep(i, c))

------------------------------------------------------------------------------
ContextsTyped ==
    /\ query \in [Ctxs -> QueryStates]
    /\ home \in [Ctxs -> Instances]
    /\ local \in [Instances -> [Ctxs -> {"none", "own", "rebuilt"}]]
    /\ row \in [Ctxs -> {"absent", "fresh", "expired"}]
    /\ lookup \in [Instances -> [Ctxs -> LookupStates]]
    /\ unsaved \subseteq Ctxs /\ aged \subseteq Ctxs /\ revived \subseteq Ctxs
    /\ lost \subseteq [ctx : Ctxs, why : Reasons]

(* A query always works on the context it registered: no get of its own or *)
(* another instance replaces it by a rebuilt copy, whose budget, step      *)
(* count and tools are new.                                                *)
OwnContextKept ==
    \A c \in Ctxs : query[c] \in {"saving", "running"} => local[home[c]][c] = "own"

(* A get in any instance that can read the table and rebuild from it finds *)
(* the context of a running query, unless the snapshot was never saved or  *)
(* has passed its TTL.                                                     *)
RunningIsFound ==
    \A miss \in lost : miss.why = "failed" \/ miss.ctx \in unsaved \cup aged

(* After remove the dictionary of the query's instance has no copy, unless *)
(* the row could not be deleted or a get there read it before it was.      *)
GoneForGood(c) == query[c] = "done" /\ c \notin revived => local[home[c]][c] = "none"

(* The context of a query leaves the dictionary of its instance when the   *)
(* query ends, on whatever path, and with the exceptions of GoneForGood    *)
(* does not come back after a query that did not crash.  Copies rebuilt in *)
(* other instances are not removed.                                        *)
ContextLeaves ==
    \A c \in Ctxs : local[home[c]][c] = "own" ~>
        [](/\ query[c] \in {"done", "crashed"} /\ local[home[c]][c] # "own"
           /\ GoneForGood(c))
==============================================================================
