--------------------------- MODULE EpisodicMemory ------------------------------
(***************************************************************************)
(* The cases in the memory and the rules derived from them.  reflect and   *)
(* the feedback of users write cases, the evolution task counts them;      *)
(* all run in threads of one server, and every statement on the SQLite     *)
(* file is a step.  How important a case is depends on how new its query   *)
(* is among the latest cases, read before, which decides whether it is     *)
(* promoted.                                                               *)
(***************************************************************************)
EXTENDS Integers, FiniteSets, Sequences

CONSTANTS
    Writers,     (* threads that write cases                                 *)
    Evolvers,    (* threads of /evolution/run                                *)
    CaseQueries,
    CaseIntents, (* intents of queries                                       *)
    Likeness,    (* similarity of different queries, in percent              *)
    Recall,      (* cases a query is compared with, the latest 200           *)
    MinCluster,  (* min_cluster_size                                         *)
    MaxJobs      (* bound: queries reflected on or judged, and evolution runs *)

(* The intent of a case that is written without one.                       *)
NoIntent == ""

ASSUME CasesAssumption ==
    /\ Likeness \in 0..100 /\ Recall \in Nat \ {0} /\ MinCluster \in Nat \ {0}
    /\ MaxJobs \in Nat
    /\ NoIntent \notin CaseIntents

VARIABLES
    cases,    (* episodic_case                                               *)
    writes,   (* writer -> what it has still to write                        *)
    novelty,  (* writer -> how new its query was when it looked, or Unread   *)
    rules,    (* intent -> rows of semantic_rule                             *)
    evolver,  (* evolver -> its progress and the intents it found            *)
    jobs,     (* what was started so far, to bound it                        *)
    blind,    (* history: queries two writers had looked for at once         *)
    rivals    (* history: intents two evolvers had in hand at once           *)

casesVars == <<cases, writes, novelty, rules, evolver, jobs, blind, rivals>>

Unread == -1

(* What write is called with; the pipeline does not pass the intent.       *)
Case(q, intent, outcome, flag) ==
    [query |-> q, intent |-> intent, outcome |-> outcome, flag |-> flag]

StartJob == jobs < MaxJobs /\ jobs' = jobs + 1

LiveCases == {i \in DOMAIN cases : ~cases[i].archived}

Latest == {i \in LiveCases : Cardinality({j \in LiveCases : j > i}) < Recall}

Novelty(q) ==
    IF Latest = {} THEN 100
    ELSE IF \E i \in Latest : cases[i].query = q THEN 0
    ELSE 100 - Likeness

(* _importance in units of 1/2000.  Mutant: every query is new.            *)
Importance_Always(c, new) == (3 + 4 * c.outcome + 3 * c.flag) * 200

Importance(c, new) == (3 + 4 * c.outcome + 3 * c.flag) * (100 + new)

(* The row write inserts; promoted from 0.7.                               *)
CaseRow(c, new) ==
    [query |-> c.query, intent |-> c.intent, outcome |-> c.outcome,
     importance |-> Importance(c, new),
     promoted |-> Importance(c, new) >= 1400 /\ c.outcome = 1,
     old |-> FALSE, archived |-> FALSE]

------------------------------------------------------------------------------
(* reflect writes the case twice: through the skill review, and itself.    *)
Reflected(w) ==
    /\ writes[w] = <<>> /\ StartJob
    /\ \E q \in CaseQueries, intent \in CaseIntents, outcome \in {0, 1} :
          writes' = [writes EXCEPT ![w] = <<Case(q, NoIntent, outcome, 0), Case(q, intent, outcome, 0)>>]
    /\ UNCHANGED <<cases, novelty, rules, evolver, blind, rivals>>

(* /feedback; an answer marked as wrong is reviewed as well.               *)
Feedback(w) ==
    /\ writes[w] = <<>> /\ StartJob
    /\ \E q \in CaseQueries, intent \in CaseIntents, outcome \in {0, 1} :
          writes' = [writes EXCEPT ![w] =
             <<Case(q, intent, outcome, 1)>>
               \o (IF outcome = 0 THEN <<Case(q, NoIntent, 0, 0)>> ELSE <<>>)]
    /\ UNCHANGED <<cases, novelty, rules, evolver, blind, rivals>>

(* write reads the cases ...                                               *)
Look(w) ==
    /\ writes[w] # <<>> /\ novelty[w] = Unread
    /\ LET q == Head(writes[w]).query IN
       /\ novelty' = [novelty EXCEPT ![w] = Novelty(q)]
       /\ blind' = IF \E v \in Writers \ {w} :
                         novelty[v] # Unread /\ Head(writes[v]).query = q
                   THEN blind \cup {q} ELSE blind
    /\ UNCHANGED <<jobs, cases, writes, rules, evolver, rivals>>

(* ... and inserts its own in a second transaction.                        *)
InsertCase(w) ==
    /\ writes[w] # <<>> /\ novelty[w] # Unread
    /\ cases' = Append(cases, CaseRow(Head(writes[w]), novelty[w]))
    /\ writes' = [writes EXCEPT ![w] = Tail(@)]
    /\ novelty' = [novelty EXCEPT ![w] = Unread]
    /\ UNCHANGED <<jobs, rules, evolver, blind, rivals>>

(* A statement fails: reflect goes on, the feedback is refused.            *)
WriteFails(w) ==
    /\ writes[w] # <<>>
    /\ writes' = [writes EXCEPT ![w] = IF Head(@).flag = 1 THEN <<>> ELSE Tail(@)]
    /\ novelty' = [novelty EXCEPT ![w] = Unread]
    /\ UNCHANGED <<jobs, cases, rules, evolver, blind, rivals>>

------------------------------------------------------------------------------
(* consolidate counts the successful cases of every intent, the empty one  *)
(* included ...                                                            *)
Clusters ==
    {intent \in CaseIntents \cup {NoIntent} :
        Cardinality({i \in LiveCases : cases[i].outcome = 1 /\ cases[i].intent = intent})
          >= MinCluster}

CountCases(e) ==
    /\ evolver[e].pc = "idle" /\ StartJob
    /\ evolver' = [evolver EXCEPT ![e] = [pc |-> "read", found |-> Clusters]]
    /\ UNCHANGED <<cases, writes, novelty, rules, blind, rivals>>

(* ... reads the rules ...                                                 *)
ReadRules(e) ==
    /\ evolver[e].pc = "read"
    /\ LET new == {i \in evolver[e].found : rules[i] = 0} IN
       /\ evolver' = [evolver EXCEPT ![e] = [pc |-> "insert", found |-> new]]
       /\ rivals' = rivals \cup (new \cap UNION {evolver[d].found :
                        d \in {x \in Evolvers \ {e} : evolver[x].pc = "insert"}})
    /\ UNCHANGED <<jobs, cases, writes, novelty, rules, blind>>

(* ... and inserts what is missing; then the old cases are archived.       *)
InsertRules(e) ==
    /\ evolver[e].pc = "insert"
    /\ rules' = [i \in DOMAIN rules |-> IF i \in evolver[e].found THEN rules[i] + 1 ELSE rules[i]]
    /\ evolver' = [evolver EXCEPT ![e] = [pc |-> "decay", found |-> {}]]
    /\ UNCHANGED <<jobs, cases, writes, novelty, blind, rivals>>

DecayCases(e) ==
    /\ evolver[e].pc = "decay"
    /\ cases' = [i \in DOMAIN cases |->
                   IF cases[i].old /\ cases[i].importance < 600
                   THEN [cases[i] EXCEPT !.archived = TRUE] ELSE cases[i]]
    /\ evolver' = [evolver EXCEPT ![e].pc = "idle"]
    /\ UNCHANGED <<jobs, writes, novelty, rules, blind, rivals>>

(* Thirty days.                                                            *)
Month ==
    /\ \E i \in DOMAIN cases : ~cases[i].old
    /\ cases' = [i \in DOMAIN cases |-> [cases[i] EXCEPT !.old = TRUE]]
    /\ UNCHANGED <<jobs, writes, novelty, rules, evolver, blind, rivals>>

------------------------------------------------------------------------------
CasesInit ==
    /\ cases = <<>> /\ writes = [w \in Writers |-> <<>>]
    /\ novelty = [w \in Writers |-> Unread]
    /\ rules = [i \in CaseIntents \cup {NoIntent} |-> 0]
    /\ evolver = [e \in Evolvers |-> [pc |-> "idle", found |-> {}]]
    /\ jobs = 0 /\ blind = {} /\ rivals = {}

CasesNext ==
    \/ \E w \in Writers :
          Reflected(w) \/ Feedback(w) \/ Look(w) \/ InsertCase(w) \/ WriteFails(w)
    \/ \E e \in Evolvers : CountCases(e) \/ ReadRules(e) \/ InsertRules(e) \/ DecayCases(e)
    \/ Month

CasesSpec == CasesInit /\ [][CasesNext]_casesVars

------------------------------------------------------------------------------
(* However often a query is asked, reviewed and judged by users, a case of *)
(* it that is promoted has no other within Recall rows, and no rule is     *)
(* derived twice, unless two threads had looked at the same rows before    *)
(* either wrote (write, consolidate).  Farther apart a query is new again. *)
LearnedOnce ==
    /\ \A q \in CaseQueries \ blind, i, j \in DOMAIN cases :
          /\ cases[i].query = q /\ cases[i].promoted
          /\ cases[j].query = q /\ cases[j].promoted
          /\ i < j
          => j - i > Recall
    /\ \A intent \in DOMAIN rules : rules[intent] <= 1 \/ intent \in rivals
==============================================================================
