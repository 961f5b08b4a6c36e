----------------------------- MODULE SkillMemory -----------------------------
(***************************************************************************)
(* Skills in the memory: learned from successful queries by the evolution  *)
(* pipeline, retrieved by later queries, and judged by how those end.      *)
(* Requests run in parallel threads on one SQLite file; every statement    *)
(* below that reads or writes the file is its own transaction, so what a   *)
(* request decides from a read may be old when it writes.                  *)
(*                                                                         *)
(* A skill is the class of similar bodies it belongs to, its counters and  *)
(* whether it is archived.  Its confidence is a function of the counters.  *)
(***************************************************************************)
EXTENDS Integers, FiniteSets

CONSTANTS
    Requests,    (* requests in flight                                       *)
    Bodies,      (* classes of bodies door_dedup takes for the same          *)
    TopSkills,   (* skills a round of act is given, 3                        *)
    MinUses,     (* uses before decay may archive a skill, 5                 *)
    MaxSkills,   (* bound: rows of the skill table                           *)
    MaxQueries   (* bound: queries                                           *)

ASSUME MemoryAssumption ==
    TopSkills \in Nat /\ MinUses \in Nat /\ MaxSkills \in Nat /\ MaxQueries \in Nat

VARIABLES
    skills,    (* the skill table                                            *)
    reqs,      (* per request how far it is and what it has read             *)
    queries,   (* queries so far                                             *)
    reported,  (* history: per skill how often it was reported on, and won   *)
    twins,     (* history: bodies inserted while another review of the same  *)
               (* body had passed door_dedup                                 *)
    shared     (* history: skills that two requests held at the same time    *)

histories == <<reported, twins, shared>>
vars == <<skills, reqs, queries, histories>>

Ids == 1..MaxSkills

NoSkill == [body |-> "none", used |-> 0, won |-> 0, archived |-> TRUE]

Exists(i) == skills[i] # NoSkill

Live == {i \in Ids : Exists(i) /\ ~skills[i].archived}

(* _wilson_lower_bound(won, used) > 0.3 and < 0.2 in whole numbers, and    *)
(* 0.6 for a skill never used.  The code rounds to four digits, which      *)
(* makes no difference below 44 uses.  Mutant: the plain success rate.     *)
Above3_Rate(won, used) == used = 0 \/ 10 * won > 3 * used

Above3(won, used) ==
    LET d == 10 * won - 3 * used
    IN  used = 0 \/ (d > 0 /\ 10000 * d * d > 806736 * used)

Below2(won, used) ==
    LET d == 5 * won - used
    IN  used > 0 /\ (d <= 0 \/ 10000 * d * d < 153664 * used)

(* query_skills keeps a skill when similarity times confidence is above    *)
(* 0.3, and no similarity is above 1.                                      *)
Retrievable(i) == i \in Live /\ Above3(skills[i].won, skills[i].used)

Idle == [pc |-> "idle", matched |-> {}, body |-> "none", ok |-> FALSE,
         id |-> 0, used |-> 0, won |-> 0]

(* A request has been given the skill and has not yet reported on it.      *)
Holds(r, i) == i \in reqs[r].matched \/ reqs[r].id = i

Init ==
    /\ skills = [i \in Ids |-> NoSkill]
    /\ reqs = [r \in Requests |-> Idle]
    /\ queries = 0
    /\ reported = [i \in Ids |-> [uses |-> 0, wins |-> 0]]
    /\ twins = {} /\ shared = {}

------------------------------------------------------------------------------
Begin(r) ==
    /\ reqs[r].pc = "idle" /\ queries < MaxQueries
    /\ reqs' = [reqs EXCEPT ![r].pc = "act"]
    /\ queries' = queries + 1
    /\ UNCHANGED <<skills, histories>>

(* A round of act; one that finds no skill leaves the ids of an earlier    *)
(* round in the request's context.                                         *)
Match(r) ==
    /\ reqs[r].pc = "act"
    /\ \E found \in SUBSET {i \in Ids : Retrievable(i)} :
         /\ found # {} /\ Cardinality(found) <= TopSkills
         /\ reqs' = [reqs EXCEPT ![r].matched = found]
         /\ shared' = shared \cup
                        {i \in found : \E q \in Requests \ {r} : Holds(q, i)}
    /\ UNCHANGED <<skills, queries, reported, twins>>

(* reflect starts.  A failed query, and one that ended in REJECT, CLARIFY  *)
(* or without SQL, is not reviewed.                                        *)
Reflect(r) ==
    /\ reqs[r].pc = "act"
    /\ \E ok \in BOOLEAN, b \in Bodies :
         reqs' = [reqs EXCEPT ![r].ok = ok, ![r].body = b,
                              ![r].pc = IF ok THEN "dedup" ELSE "feedback"]
    /\ UNCHANGED <<skills, queries, histories>>

NotEligible(r) ==
    /\ reqs[r].pc = "dedup"
    /\ reqs' = [reqs EXCEPT ![r].pc = "feedback"]
    /\ UNCHANGED <<skills, queries, histories>>

(* Mutant: compares with the skills somebody has used.                     *)
Dedup_UsedOnly(r) ==
    /\ reqs[r].pc = "dedup"
    /\ LET known == \E i \in Live : skills[i].body = reqs[r].body /\ skills[i].used > 0
       IN  reqs' = [reqs EXCEPT ![r].pc = IF known THEN "feedback" ELSE "passed"]
    /\ UNCHANGED <<skills, queries, histories>>

(* Door 1 reads the skills that are not archived.                          *)
Dedup(r) ==
    /\ reqs[r].pc = "dedup"
    /\ LET known == \E i \in Live : skills[i].body = reqs[r].body
       IN  reqs' = [reqs EXCEPT ![r].pc = IF known THEN "feedback" ELSE "passed"]
    /\ UNCHANGED <<skills, queries, histories>>

(* The critic finds the body too short (the sandbox compares a score with  *)
(* itself and never refuses), or the insertion fails and is only logged.   *)
Refuse(r) ==
    /\ reqs[r].pc = "passed"
    /\ reqs' = [reqs EXCEPT ![r].pc = "feedback"]
    /\ UNCHANGED <<skills, queries, histories>>

(* The skill is inserted, after the sandbox has run a golden set.          *)
Insert(r) ==
    /\ reqs[r].pc = "passed"
    /\ \E i \in Ids :
         /\ ~Exists(i) /\ \A j \in 1..(i - 1) : Exists(j)
         /\ skills' = [skills EXCEPT ![i] =
              [body |-> reqs[r].body, used |-> 0, won |-> 0, archived |-> FALSE]]
         /\ twins' = IF \E q \in Requests \ {r} :
                          reqs[q].pc = "passed" /\ reqs[q].body = reqs[r].body
                     THEN twins \cup {reqs[r].body} ELSE twins
    /\ reqs' = [reqs EXCEPT ![r].pc = "feedback"]
    /\ UNCHANGED <<queries, reported, shared>>

(* update_skill_usage reads the counters of one matched skill, archived or *)
(* not ...                                                                 *)
ReadUsage(r) ==
    /\ reqs[r].pc = "feedback"
    /\ \E i \in reqs[r].matched :
         /\ reqs' = [reqs EXCEPT ![r].pc = "update", ![r].id = i,
                       ![r].matched = @ \ {i},
                       ![r].used = skills[i].used, ![r].won = skills[i].won]
         /\ reported' = [reported EXCEPT ![i].uses = @ + 1,
                           ![i].wins = @ + (IF reqs[r].ok THEN 1 ELSE 0)]
    /\ UNCHANGED <<skills, queries, twins, shared>>

(* Mutant: two statements count the use and the success.                   *)
WriteUsage_Adds(r) ==
    /\ reqs[r].pc = "update"
    /\ skills' = [skills EXCEPT ![reqs[r].id].used = reqs[r].used + 1,
                    ![reqs[r].id].won = @ + (IF reqs[r].ok THEN 1 ELSE 0)]
    /\ reqs' = [reqs EXCEPT ![r].pc = "feedback", ![r].id = 0, ![r].used = 0, ![r].won = 0]
    /\ UNCHANGED <<queries, histories>>

(* ... and writes what it makes of them.                                   *)
WriteUsage(r) ==
    /\ reqs[r].pc = "update"
    /\ skills' = [skills EXCEPT ![reqs[r].id].used = reqs[r].used + 1,
                    ![reqs[r].id].won = reqs[r].won + (IF reqs[r].ok THEN 1 ELSE 0)]
    /\ reqs' = [reqs EXCEPT ![r].pc = "feedback", ![r].id = 0, ![r].used = 0, ![r].won = 0]
    /\ UNCHANGED <<queries, histories>>

(* The update fails, a locked database for one, and is only logged.        *)
SkipUsage(r) ==
    /\ reqs[r].pc = "update"
    /\ reqs' = [reqs EXCEPT ![r].pc = "feedback", ![r].id = 0, ![r].used = 0, ![r].won = 0]
    /\ UNCHANGED <<skills, queries, histories>>

End(r) ==
    /\ reqs[r].pc = "feedback" /\ reqs[r].matched = {}
    /\ reqs' = [reqs EXCEPT ![r] = Idle]
    /\ UNCHANGED <<skills, queries, histories>>

(* Mutant: without the test of use_count.                                  *)
Decay_Early ==
    /\ skills' = [i \in Ids |->
         IF i \in Live /\ Below2(skills[i].won, skills[i].used)
         THEN [skills[i] EXCEPT !.archived = TRUE] ELSE skills[i]]
    /\ UNCHANGED <<reqs, queries, histories>>

(* decay archives the weak skills in one statement.                        *)
Decay ==
    /\ skills' = [i \in Ids |->
         IF i \in Live /\ skills[i].used >= MinUses /\ Below2(skills[i].won, skills[i].used)
         THEN [skills[i] EXCEPT !.archived = TRUE] ELSE skills[i]]
    /\ UNCHANGED <<reqs, queries, histories>>

Request(r) ==
    \/ Begin(r) \/ Match(r) \/ Reflect(r) \/ NotEligible(r) \/ Dedup(r) \/ Refuse(r)
    \/ Insert(r) \/ ReadUsage(r) \/ WriteUsage(r) \/ SkipUsage(r) \/ End(r)

Next == Decay \/ \E r \in Requests : Request(r)

Spec == Init /\ [][Next]_vars

------------------------------------------------------------------------------
SkillRow == [body : Bodies, used : 0..MaxQueries, won : 0..MaxQueries, archived : BOOLEAN]

TypeOK ==
    /\ skills \in [Ids -> SkillRow \cup {NoSkill}]
    /\ \A r \in Requests :
         /\ reqs[r].pc \in {"idle", "act", "dedup", "passed", "feedback", "update"}
         /\ reqs[r].pc = "idle" => reqs[r] = Idle
         /\ reqs[r].pc \in {"dedup", "passed"} => reqs[r].body \in Bodies
         /\ reqs[r].matched \subseteq {i \in Ids : Exists(i)}
         /\ reqs[r].pc = "update" => Exists(reqs[r].id)
    /\ queries \in 0..MaxQueries

(* However updates overwrite each other or fail, a skill has no more uses  *)
(* than requests reported, no more successes than successful ones, and no  *)
(* more successes than uses (update_skill_usage).                          *)
CountsAreReal ==
    \A i \in Ids :
        /\ skills[i].won <= skills[i].used
        /\ skills[i].used <= reported[i].uses
        /\ skills[i].won <= reported[i].wins

(* The dedup door lets a second live skill of a body in only when the      *)
(* reviews of two queries were both past it at once (evaluate_and_persist).*)
TwinsOverlapped ==
    \A i, j \in Live : i # j /\ skills[i].body = skills[j].body => skills[i].body \in twins

(* A skill is archived only after MinUses requests reported on it, though  *)
(* its counter may since have been set back (decay).                       *)
ArchivedOnEvidence ==
    \A i \in Ids : Exists(i) /\ skills[i].archived => reported[i].uses >= MinUses

(* After its first counted use a skill, successful or not, is too weak for *)
(* query_skills: a second use is counted only for one that two requests    *)
(* had been given at the same time (query_skills, update_skill_usage).     *)
ReusedOnlyInParallel == \A i \in Ids : skills[i].used > 1 => i \in shared

==============================================================================
