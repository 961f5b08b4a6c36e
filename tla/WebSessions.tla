----------------------------- MODULE WebSessions -------------------------------
(***************************************************************************)
(* The sessions of the web client: the sessions table of the API with its  *)
(* read-then-write handlers, and the page that fills it.  The page sends a *)
(* question, waits for the answer, and files both as one message in the    *)
(* session that is current then; meanwhile its user may open another       *)
(* session, begin a new one, log out and in.  Every await of the page and  *)
(* every statement of a handler is a step.                                 *)
(***************************************************************************)
EXTENDS Integers, FiniteSets, Sequences

CONSTANTS
    Users,        (* tenants; one user each                                  *)
    None,         (* no session, no user                                     *)
    MaxQuestions, (* bound: questions                                        *)
    MaxMoves,     (* bound: sessions opened and begun, logins, logouts       *)
    MaxDeletes    (* bound: sessions deleted through the API                 *)

ASSUME WebAssumption ==
    /\ None \notin Users \cup Nat
    /\ MaxQuestions \in Nat /\ MaxMoves \in Nat /\ MaxDeletes \in Nat

VARIABLES
    table,      (* id -> NoRow, or a tenant and the messages                 *)
    user,       (* whose token is in localStorage                            *)
    current,    (* currentSessionId                                          *)
    loading,    (* isLoading                                                 *)
    tasks,      (* what the page waits for and the handlers that run         *)
    questions,  (* number of questions so far                                *)
    moves,
    deletes,
    drawn,      (* number of ids drawn by genId                              *)
    saved,      (* history: <<id, message>> the API has confirmed            *)
    crossed     (* history: ids two appends have been underway for at once   *)

webVars == <<table, user, current, loading, tasks, questions, moves, deletes,
             drawn, saved, crossed>>

(* A session is begun by a question at most.                               *)
Ids == 1..MaxQuestions

NoRow == [tenant |-> None, messages |-> <<>>]
Row(tenant, messages) == [tenant |-> tenant, messages |-> messages]

(* A question on its way: how it was sent, by whom, the session current    *)
(* then, whether the user has moved since; later the session it is for.    *)
Question(via) ==
    [kind |-> "query", n |-> questions + 1, via |-> via, by |-> user,
     asked |-> current, moved |-> FALSE, clarify |-> FALSE, id |-> None, read |-> <<>>]

Opening(id) ==
    [kind |-> "load", n |-> 0, via |-> "send", by |-> user, asked |-> None,
     moved |-> FALSE, clarify |-> FALSE, id |-> id, read |-> <<>>]

(* What a message says of the question it answers.                         *)
MessageOf(t) == [n |-> t.n, by |-> t.by, asked |-> t.asked, moved |-> t.moved]

Swap(t, ts) == (tasks \ {t}) \cup ts

(* The user has moved on: every question underway notices.                 *)
Moved(ts) == {[t EXCEPT !.moved = TRUE] : t \in ts}

------------------------------------------------------------------------------
(* The page                                                                *)

(* sendQuery                                                               *)
Ask ==
    /\ user # None /\ ~loading /\ questions < MaxQuestions
    /\ loading' = TRUE
    /\ tasks' = tasks \cup {Question("send")}
    /\ questions' = questions + 1
    /\ UNCHANGED <<table, user, current, moves, deletes, drawn, saved, crossed>>

(* submitFeedback marks an answer as wrong and _rerunQuery asks again,     *)
(* loading or not.                                                         *)
Rerun ==
    /\ user # None /\ questions \in 1..(MaxQuestions - 1)
    /\ tasks' = tasks \cup {Question("rerun")}
    /\ questions' = questions + 1
    /\ UNCHANGED <<table, user, current, loading, moves, deletes, drawn, saved,
                   crossed>>

(* appendMessageToServer, which nobody waits for; the request is sent with *)
(* the token of that moment.                                               *)
Put(t) == [t EXCEPT !.kind = "put", !.id = current, !.by = user]

(* addHistoryItem up to its first wait, for an answer that asks back or    *)
(* another.  Mutant: every message gets a session of its own.              *)
Freed(t) == IF t.via = "send" THEN FALSE ELSE loading

Post(t, id, asks) ==
    [t EXCEPT !.kind = "post", !.id = id, !.by = user, !.clarify = asks]

File_AlwaysNew(t, asks) ==
    /\ drawn' = drawn + 1 /\ current' = drawn'
    /\ tasks' = Swap(t, {Post(t, drawn', asks)})
    /\ loading' = IF asks THEN Freed(t) ELSE loading

File(t, asks) ==
    \/ /\ current # None
       /\ tasks' = Swap(t, {Put(t)}) /\ loading' = Freed(t)
       /\ UNCHANGED <<current, drawn>>
    \/ /\ current = None
       /\ drawn' = drawn + 1 /\ current' = drawn'
       /\ tasks' = Swap(t, {Post(t, drawn', asks)})
       /\ loading' = IF asks THEN Freed(t) ELSE loading

(* The answer of /query; a question of the agent frees the input before    *)
(* the message is filed.                                                   *)
Answered(t) ==
    /\ t.kind = "query" /\ t.by # None
    /\ \E asks \in BOOLEAN : File(t, asks)
    /\ UNCHANGED <<table, user, questions, moves, deletes, saved, crossed>>

(* /query fails: sendQuery shows and files a made-up answer, _rerunQuery   *)
(* files nothing.  Mutant: an error leaves the input locked.               *)
Failed_KeepsLock(t) ==
    /\ t.kind = "query"
    /\ tasks' = tasks \ {t} /\ UNCHANGED <<current, drawn, loading>>
    /\ UNCHANGED <<table, user, questions, moves, deletes, saved, crossed>>

Failed(t) ==
    /\ t.kind = "query"
    /\ IF t.via = "send" THEN File(t, FALSE)
       ELSE tasks' = tasks \ {t} /\ UNCHANGED <<current, drawn, loading>>
    /\ UNCHANGED <<table, user, questions, moves, deletes, saved, crossed>>

(* The session has been created, or not; addHistoryItem goes on with the   *)
(* session that is current by now.                                         *)
Created(t) ==
    /\ t.kind = "posted"
    /\ tasks' = Swap(t, IF t.n = 0 THEN {} ELSE {Put(t)})
    /\ loading' = IF t.via = "send" /\ ~t.clarify THEN FALSE ELSE loading
    /\ UNCHANGED <<table, user, current, questions, moves, deletes, drawn, saved,
                   crossed>>

(* switchToSession; the session becomes current once it is loaded, or      *)
(* could not be.                                                           *)
Switch ==
    /\ user # None /\ moves < MaxMoves
    /\ \E id \in {i \in Ids : table[i].tenant = user} \ {current} :
          tasks' = Moved(tasks) \cup {Opening(id)}
    /\ moves' = moves + 1
    /\ UNCHANGED <<table, user, current, loading, questions, deletes, drawn, saved,
                   crossed>>

Loaded(t) ==
    /\ t.kind = "load"
    /\ current' = t.id /\ tasks' = Moved(tasks \ {t})
    /\ UNCHANGED <<table, user, loading, questions, moves, deletes, drawn, saved,
                   crossed>>

NewSession ==
    /\ moves < MaxMoves /\ current # None
    /\ current' = None /\ tasks' = Moved(tasks) /\ moves' = moves + 1
    /\ UNCHANGED <<table, user, loading, questions, deletes, drawn, saved, crossed>>

(* doLogout forgets the token and keeps the session; an answer 401 shows   *)
(* the same form.                                                          *)
Logout ==
    /\ user # None /\ moves < MaxMoves
    /\ user' = None /\ tasks' = Moved(tasks) /\ moves' = moves + 1
    /\ UNCHANGED <<table, current, loading, questions, deletes, drawn, saved,
                   crossed>>

(* doLogin and restoreSessions, which opens the session changed last, if   *)
(* the user has any.                                                       *)
Login ==
    /\ user = None
    /\ \E u \in Users :
         LET own == {i \in Ids : table[i].tenant = u} \ {current} IN
         /\ user' = u
         /\ IF own = {} THEN UNCHANGED tasks
            ELSE \E id \in own :
                    tasks' = Moved(tasks) \cup {[Opening(id) EXCEPT !.by = u]}
    /\ UNCHANGED <<table, current, loading, questions, moves, deletes, drawn, saved,
                   crossed>>

------------------------------------------------------------------------------
(* The API                                                                 *)

(* create_session inserts unless the id is taken; an invalid token or a    *)
(* lost request creates nothing.                                           *)
PostArrives(t) ==
    /\ t.kind = "post"
    /\ tasks' = Swap(t, {[t EXCEPT !.kind = "posted"]})
    /\ table' = IF t.by # None /\ table[t.id] = NoRow
                THEN [table EXCEPT ![t.id] = Row(t.by, <<>>)] ELSE table
    /\ UNCHANGED <<user, current, loading, questions, moves, deletes, drawn, saved,
                   crossed>>

PostLost(t) ==
    /\ t.kind = "post"
    /\ tasks' = Swap(t, {[t EXCEPT !.kind = "posted"]})
    /\ UNCHANGED <<table, user, current, loading, questions, moves, deletes, drawn,
                   saved, crossed>>

(* append_message selects and updates the caller's session only.  Mutant:  *)
(* anybody's.                                                              *)
Own_Any(t) == t.by # None /\ t.id # None /\ table[t.id] # NoRow

Own(t) == t.by # None /\ t.id # None /\ table[t.id].tenant = t.by

AppendReads(t) ==
    /\ t.kind = "put" /\ Own(t)
    /\ tasks' = Swap(t, {[t EXCEPT !.kind = "write", !.read = table[t.id].messages]})
    /\ crossed' = crossed \cup {w.id : w \in {x \in tasks : x.kind = "write" /\ x.id = t.id}}
    /\ UNCHANGED <<table, user, current, loading, questions, moves, deletes, drawn,
                   saved>>

(* 404 or 401, which the page does not look at.                            *)
AppendRefused(t) ==
    /\ t.kind = "put" /\ ~Own(t)
    /\ tasks' = tasks \ {t}
    /\ UNCHANGED <<table, user, current, loading, questions, moves, deletes, drawn,
                   saved, crossed>>

PutLost(t) ==
    /\ t.kind = "put" /\ tasks' = tasks \ {t}
    /\ UNCHANGED <<table, user, current, loading, questions, moves, deletes, drawn,
                   saved, crossed>>

(* It writes the list it has read with the message at its end.  Mutant:    *)
(* the message alone.                                                      *)
AppendWrites_Alone(t) ==
    /\ t.kind = "write" /\ tasks' = tasks \ {t}
    /\ table' = IF Own(t)
                THEN [table EXCEPT ![t.id].messages = <<MessageOf(t)>>] ELSE table
    /\ saved' = saved \cup {<<t.id, t.n>>}
    /\ UNCHANGED <<user, current, loading, questions, moves, deletes, drawn,
                   crossed>>

AppendWrites(t) ==
    /\ t.kind = "write" /\ tasks' = tasks \ {t}
    /\ table' = IF Own(t)
                THEN [table EXCEPT ![t.id].messages = Append(t.read, MessageOf(t))]
                ELSE table
    /\ saved' = saved \cup {<<t.id, t.n>>}
    /\ UNCHANGED <<user, current, loading, questions, moves, deletes, drawn,
                   crossed>>

(* delete_session, and clear_sessions for each of them.                    *)
DeleteSession ==
    /\ deletes < MaxDeletes /\ deletes' = deletes + 1
    /\ \E id \in {i \in Ids : table[i] # NoRow} :
         /\ table' = [table EXCEPT ![id] = NoRow]
         /\ saved' = {s \in saved : s[1] # id}
    /\ UNCHANGED <<user, current, loading, tasks, questions, moves, drawn, crossed>>

------------------------------------------------------------------------------
WebInit ==
    /\ table = [i \in Ids |-> NoRow]
    /\ user = None /\ current = None /\ loading = FALSE
    /\ tasks = {} /\ questions = 0 /\ moves = 0 /\ deletes = 0
    /\ drawn = 0 /\ saved = {} /\ crossed = {}

(* Requests are answered, or fail, and the page goes on.                   *)
Response ==
    \E t \in tasks :
       \/ Answered(t) \/ Failed(t) \/ Created(t) \/ Loaded(t)
       \/ PostArrives(t) \/ PostLost(t)
       \/ AppendReads(t) \/ AppendRefused(t) \/ PutLost(t) \/ AppendWrites(t)

WebNext ==
    \/ Response
    \/ Ask \/ Rerun \/ Switch \/ NewSession \/ Logout \/ Login
    \/ DeleteSession

WebSpec == WebInit /\ [][WebNext]_webVars /\ WF_webVars(Response)

------------------------------------------------------------------------------
(* A message the API has confirmed is in its session, once, as long as the *)
(* session is there: only two appends to the same session that run at the  *)
(* same time can lose one (append_message reads, then writes, without a    *)
(* transaction around both).                                               *)
ConfirmedIsKept ==
    \A s \in saved :
       \/ table[s[1]] = NoRow \/ s[1] \in crossed
       \/ Cardinality({i \in DOMAIN table[s[1]].messages :
                          table[s[1]].messages[i].n = s[2]}) = 1

(* A user's session holds what was sent with that user's token, though the *)
(* page keeps the current session, and its running questions, when one     *)
(* user logs out and another logs in.                                      *)
TenantsApart ==
    \A id \in Ids : \A i \in DOMAIN table[id].messages :
       table[id].messages[i].by = table[id].tenant

(* An answer is filed in the session its question was asked in, or in the  *)
(* one begun for it; it lands in another only when the user has moved, or  *)
(* another question has begun that session, while it was awaited.          *)
FiledWhereAsked ==
    \A id \in Ids : \A i \in DOMAIN table[id].messages :
       LET m == table[id].messages[i] IN m.moved \/ m.asked \in {id, None}

(* The input is never locked for good, whatever fails.                     *)
InputReturns == loading ~> ~loading
==============================================================================
