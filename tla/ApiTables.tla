------------------------------ MODULE ApiTables --------------------------------
(***************************************************************************)
(* The records the API keeps beside the sessions: users, configurations of *)
(* subagents, model configurations, and the documents of the knowledge     *)
(* base.  A handler looks at a record in one step and changes it in        *)
(* another; handlers run in the threads of one server, which may be        *)
(* stopped and started again.  The text of a record is the number of the   *)
(* call that wrote it.                                                     *)
(***************************************************************************)
EXTENDS Integers, FiniteSets

CONSTANTS
    Agents,      (* ids of subagents                                         *)
    Builtin,     (* those inserted at every start                            *)
    Names,       (* user names                                               *)
    Admin,       (* the name inserted at every start                         *)
    Docs,        (* files of the knowledge base                              *)
    Tenants,     (* tenants whose model is configured                        *)
                 (* (a key tells which table it is of)                       *)
    MaxCalls,    (* bound: calls                                             *)
    MaxRestarts  (* bound: restarts                                          *)

ASSUME TablesAssumption ==
    /\ Builtin \subseteq Agents /\ Admin \in Names
    /\ Names \cap (Agents \cup Docs \cup Tenants) = {}
    /\ Agents \cap Docs = {} /\ Tenants \cap (Agents \cup Docs) = {}
    /\ MaxCalls \in Nat /\ MaxRestarts \in Nat

VARIABLES
    record,       (* key -> record                                         *)
    calls,     (* handlers between their two steps                           *)
    made,      (* number of calls so far                                     *)
    restarts,
    expected,  (* history: the records, had each call been one step          *)
    collided    (* history: keys two handlers have been at at the same time   *)

tablesVars == <<record, calls, made, restarts, expected, collided>>

Keys == Agents \cup Names \cup Docs \cup Tenants

Absent == [text |-> -1, enabled |-> FALSE]
Torn   == [text |-> -2, enabled |-> FALSE]
Default == [text |-> 0, enabled |-> TRUE]
Started(k) == k \in Builtin \/ k = Admin

(* The operations on a key, and which record they ask for.                 *)
Operations ==
    {"create", "update", "toggle", "delete"} \X Agents
      \cup {"create"} \X Names \cup {"update"} \X Tenants
      \cup {"write", "delete"} \X Docs

(* kb_upload and upsert_tenant_model_config look at nothing first; a       *)
(* built-in subagent cannot be deleted.                                    *)
Accepts(op, k, r) ==
    CASE op = "create" -> r = Absent
      [] op = "delete" -> r # Absent /\ k \notin Builtin
      [] op = "write" \/ k \in Tenants -> TRUE
      [] OTHER -> r # Absent

(* The record a call leaves, given the one it has looked at.               *)
Result(c, r) ==
    CASE c.op = "delete" -> Absent
      [] c.op = "toggle" -> [r EXCEPT !.enabled = ~@]
      [] OTHER -> [text |-> c.n, enabled |-> c.enabled]

Call(op, k, enabled) ==
    [n |-> made + 1, op |-> op, key |-> k, enabled |-> enabled, seen |-> record[k]]

(* The first step of a handler; opening a document empties it.             *)
Begin ==
    /\ made < MaxCalls /\ made' = made + 1
    /\ \E o \in Operations, enabled \in BOOLEAN :
         LET op == o[1]  k == o[2] IN
         /\ Accepts(op, k, record[k])
         /\ enabled => op \in {"create", "update"} /\ k \in Agents
         /\ calls' = calls \cup {Call(op, k, enabled)}
         /\ record' = IF op = "write" THEN [record EXCEPT ![k] = Torn] ELSE record
         /\ collided' = collided \cup {d.key : d \in {e \in calls : e.key = k}}
    /\ UNCHANGED <<restarts, expected>>

(* INSERT, UPDATE or DELETE; an update changes only enabled when it        *)
(* toggles, and no row that has been deleted meanwhile.                    *)
Change(c) ==
    IF \/ c.op = "create" /\ record[c.key] # Absent
       \/ c.op \in {"update", "toggle"} /\ c.key \notin Tenants /\ record[c.key] = Absent
    THEN record[c.key]
    ELSE IF c.op = "toggle" THEN [record[c.key] EXCEPT !.enabled = ~c.seen.enabled]
    ELSE Result(c, record[c.key])

(* The second step.  The primary key and the UNIQUE columns refuse a       *)
(* second row, which ends the call with an error.                          *)
Finish ==
    \E c \in calls :
       LET k == c.key
           confirmed == Change(c) # record[k] \/ c.op # "create"
       IN  /\ calls' = calls \ {c}
           /\ record' = [record EXCEPT ![k] = Change(c)]
           /\ expected' = IF confirmed THEN [expected EXCEPT ![k] = Result(c, @)]
                          ELSE expected
           /\ UNCHANGED <<made, restarts, collided>>

(* The server is stopped: open calls end where they are, which leaves a    *)
(* document empty.  At its start the built-in records are inserted where   *)
(* they are missing.  Mutant: they are put back as they were delivered.    *)
Restart_Resets ==
    /\ restarts < MaxRestarts /\ restarts' = restarts + 1
    /\ calls' = {}
    /\ record' = [k \in Keys |-> IF Started(k) THEN Default ELSE record[k]]
    /\ collided' = collided \cup {c.key : c \in {d \in calls : d.op = "write"}}
    /\ UNCHANGED <<made, expected>>

Restart ==
    /\ restarts < MaxRestarts /\ restarts' = restarts + 1
    /\ calls' = {}
    /\ record' = [k \in Keys |-> IF Started(k) /\ record[k] = Absent THEN Default ELSE record[k]]
    /\ collided' = collided \cup {c.key : c \in {d \in calls : d.op = "write"}}
    /\ UNCHANGED <<made, expected>>

TablesInit ==
    /\ record = [k \in Keys |-> IF Started(k) THEN Default ELSE Absent]
    /\ calls = {} /\ made = 0 /\ restarts = 0
    /\ expected = record
    /\ collided = {}

TablesNext == Begin \/ Finish \/ Restart

TablesSpec == TablesInit /\ [][TablesNext]_tablesVars

------------------------------------------------------------------------------
(* A record is what its confirmed calls make of it one after the other,    *)
(* whatever restarts came between, unless two handlers were at it at the   *)
(* same time or a document was being written.                              *)
AloneIsSerial ==
    \A k \in Keys :
       \/ k \in collided \/ record[k] = expected[k]
       \/ record[k] = Torn /\ \E c \in calls : c.key = k /\ c.op = "write"
==============================================================================
