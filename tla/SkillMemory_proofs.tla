-------------------------- MODULE SkillMemory_proofs --------------------------
(* Proofs about SkillMemory for any requests, bodies and bounds.           *)
EXTENDS SkillMemory, EpisodicMemory, FiniteSetTheorems, TLAPS

Row == [body : Bodies \cup {"none"}, used : Nat, won : Nat, archived : BOOLEAN]

Work == [pc : {"idle", "act", "dedup", "passed", "feedback", "update"},
         matched : SUBSET Ids, body : Bodies \cup {"none"}, ok : BOOLEAN,
         id : Ids \cup {0}, used : Nat, won : Nat]

MemoryTyped ==
    /\ skills \in [Ids -> Row]
    /\ reqs \in [Requests -> Work]
    /\ queries \in Nat
    /\ reported \in [Ids -> [uses : Nat, wins : Nat]]
    /\ twins \subseteq Bodies \cup {"none"} /\ shared \subseteq Ids

(* What a request has read of the skill it is about to update.             *)
SnapshotReal ==
    \A r \in Requests :
        /\ reqs[r].pc = "update" =>
             LET i == reqs[r].id
             IN  /\ i \in Ids /\ i \notin reqs[r].matched
                 /\ reqs[r].won <= reqs[r].used
                 /\ reqs[r].used + 1 <= reported[i].uses
                 /\ reqs[r].won + (IF reqs[r].ok THEN 1 ELSE 0) <= reported[i].wins
        /\ reqs[r].pc # "update" => reqs[r].id = 0
        /\ reqs[r].pc = "dedup" => reqs[r].body \in Bodies

(* A request past the dedup door while a live skill of its body is there   *)
(* was there when that skill was inserted.                                 *)
PassedAlone ==
    \A r \in Requests, i \in Live :
        reqs[r].pc = "passed" /\ skills[i].body = reqs[r].body => reqs[r].body \in twins

(* A skill no two requests were given at once has one use at most, and     *)
(* none while a request holds it.                                          *)
HeldAlone ==
    \A i \in Ids \ shared :
        /\ \A q, r \in Requests : Holds(q, i) /\ Holds(r, i) => q = r
        /\ skills[i].used <= 1
        /\ \A r \in Requests : Holds(r, i) =>
              skills[i].used = 0 /\ (reqs[r].id = i => reqs[r].used = 0)

HeldExists == \A r \in Requests, i \in Ids : Holds(r, i) => Exists(i)

SkillInv ==
    /\ MemoryTyped /\ SnapshotReal /\ CountsAreReal
    /\ PassedAlone /\ TwinsOverlapped /\ ArchivedOnEvidence
    /\ HeldAlone /\ HeldExists

------------------------------------------------------------------------------
LEMMA NoSkillRow == NoSkill \in Row
BY DEF NoSkill, Row

LEMMA IdleWork == Idle \in Work
BY DEF Idle, Work

LEMMA LiveRow == \A i \in Ids : i \in Live <=> Exists(i) /\ ~skills[i].archived
BY DEF Live

LEMMA SkillInit == Init => SkillInv
<1> SUFFICES ASSUME Init PROVE SkillInv
  OBVIOUS
<1>1. MemoryTyped
  BY NoSkillRow, IdleWork DEF Init, MemoryTyped
<1>2. /\ \A i \in Ids : skills[i] = NoSkill /\ ~Exists(i) /\ reported[i] = [uses |-> 0, wins |-> 0]
      /\ \A r \in Requests : reqs[r] = Idle
  BY DEF Init, Exists
<1>3. Live = {}
  BY <1>2 DEF Live
<1>4. \A r \in Requests, i \in Ids : ~Holds(r, i)
  BY <1>2 DEF Holds, Idle, Ids
<1>5. SnapshotReal /\ CountsAreReal
  BY <1>2 DEF SnapshotReal, CountsAreReal, Idle, NoSkill
<1>6. PassedAlone /\ TwinsOverlapped /\ ArchivedOnEvidence
  BY <1>2, <1>3 DEF PassedAlone, TwinsOverlapped, ArchivedOnEvidence
<1>7. HeldAlone /\ HeldExists
  BY <1>2, <1>4 DEF HeldAlone, HeldExists, NoSkill
<1> QED BY <1>1, <1>5, <1>6, <1>7 DEF SkillInv

------------------------------------------------------------------------------
(* A step of one request that leaves the table alone, holds no skill it    *)
(* did not hold, and does not pass the dedup door.                         *)
LEMMA QuietStep ==
    ASSUME SkillInv, NEW r \in Requests, NEW w \in Work,
           reqs' = [reqs EXCEPT ![r] = w], queries' \in Nat,
           UNCHANGED <<skills, histories>>,
           w.matched \subseteq reqs[r].matched, w.id = 0,
           w.pc \notin {"update", "passed"},
           w.pc = "dedup" => w.body \in Bodies
    PROVE  SkillInv'
<1>1. MemoryTyped' /\ \A q \in Requests : reqs'[q] = IF q = r THEN w ELSE reqs[q]
  BY DEF SkillInv, MemoryTyped, histories
<1>2. UNCHANGED <<skills, reported, twins, shared>> /\ UNCHANGED Live
      /\ \A i \in Ids : Exists(i)' <=> Exists(i)
  BY DEF histories, Live, Exists
<1>3. \A q \in Requests, i \in Ids : Holds(q, i)' => Holds(q, i)
  BY <1>1 DEF Holds, Ids
<1>4. SnapshotReal'
  BY <1>1, <1>2 DEF SkillInv, SnapshotReal
<1>5. CountsAreReal' /\ TwinsOverlapped' /\ ArchivedOnEvidence'
  BY <1>2 DEF SkillInv, CountsAreReal, TwinsOverlapped, ArchivedOnEvidence
<1>6. PassedAlone'
  BY <1>1, <1>2 DEF SkillInv, PassedAlone
<1>7. HeldAlone' /\ HeldExists'
  BY <1>1, <1>2, <1>3 DEF SkillInv, HeldAlone, HeldExists, Ids
<1> QED BY <1>1, <1>4, <1>5, <1>6, <1>7 DEF SkillInv

(* Records of a request that differ in a few fields.                       *)
LEMMA WorkFields ==
    ASSUME MemoryTyped, NEW r \in Requests
    PROVE  /\ reqs[r] \in Work
           /\ \A pc \in {"idle", "act", "dedup", "passed", "feedback", "update"} :
                [reqs[r] EXCEPT !.pc = pc] \in Work
<1>1. reqs[r] \in Work
  BY DEF MemoryTyped
<1> QED BY <1>1 DEF Work

LEMMA BeginKeeps == ASSUME SkillInv, NEW r \in Requests, Begin(r) PROVE SkillInv'
<1> DEFINE w == [reqs[r] EXCEPT !.pc = "act"]
<1>0. reqs[r] \in Work
  BY DEF SkillInv, MemoryTyped
<1>1. w \in Work /\ w.matched = reqs[r].matched /\ w.pc = "act" /\ w.id = reqs[r].id
  BY <1>0 DEF Work
<1>2. reqs[r].id = 0
  BY DEF SkillInv, SnapshotReal, Begin
<1>3. reqs' = [reqs EXCEPT ![r] = w] /\ queries' \in Nat /\ UNCHANGED <<skills, histories>>
  BY DEF SkillInv, MemoryTyped, Begin
<1> QED BY <1>1, <1>2, <1>3, QuietStep

LEMMA ReflectKeeps == ASSUME SkillInv, NEW r \in Requests, Reflect(r) PROVE SkillInv'
<1>1. PICK ok \in BOOLEAN, b \in Bodies :
        reqs' = [reqs EXCEPT ![r].ok = ok, ![r].body = b,
                             ![r].pc = IF ok THEN "dedup" ELSE "feedback"]
  BY DEF Reflect
<1> DEFINE w == [reqs[r] EXCEPT !.ok = ok, !.body = b,
                                !.pc = IF ok THEN "dedup" ELSE "feedback"]
<1>0. reqs[r] \in Work
  BY DEF SkillInv, MemoryTyped
<1>2. /\ w \in Work /\ w.matched = reqs[r].matched /\ w.id = reqs[r].id
      /\ w.pc \in {"dedup", "feedback"} /\ w.body = b
  BY <1>0, <1>1 DEF Work
<1>3. reqs[r].id = 0
  BY DEF SkillInv, SnapshotReal, Reflect
<1>4. reqs' = [reqs EXCEPT ![r] = w] /\ queries' \in Nat /\ UNCHANGED <<skills, histories>>
  BY <1>1 DEF SkillInv, MemoryTyped, Reflect
<1> QED BY <1>2, <1>3, <1>4, QuietStep

LEMMA ToFeedbackKeeps ==
    ASSUME SkillInv, NEW r \in Requests, NotEligible(r) \/ Refuse(r) \/ SkipUsage(r) \/ End(r)
    PROVE  SkillInv'
<1>1. PICK w \in Work : /\ reqs' = [reqs EXCEPT ![r] = w] /\ w.matched \subseteq reqs[r].matched
                        /\ w.id = 0 /\ w.pc \in {"feedback", "idle"}
  <2>1. reqs[r] \in Work /\ reqs \in [Requests -> Work]
    BY WorkFields DEF SkillInv, MemoryTyped
  <2>2. CASE NotEligible(r) \/ Refuse(r)
    <3>1. reqs[r].id = 0
      BY <2>2 DEF SkillInv, SnapshotReal, NotEligible, Refuse
    <3>2. [reqs[r] EXCEPT !.pc = "feedback"] \in Work
      BY WorkFields DEF SkillInv
    <3> QED BY <2>1, <2>2, <3>1, <3>2 DEF NotEligible, Refuse, Work
  <2>3. CASE SkipUsage(r)
    <3>1. [reqs[r] EXCEPT !.pc = "feedback", !.id = 0, !.used = 0, !.won = 0] \in Work
      BY <2>1 DEF Work
    <3> QED BY <2>1, <2>3, <3>1 DEF SkipUsage, Work
  <2>4. CASE End(r)
    BY <2>1, <2>4, IdleWork DEF End, Idle
  <2> QED BY <2>2, <2>3, <2>4
<1>2. UNCHANGED <<skills, queries, histories>>
  BY DEF NotEligible, Refuse, SkipUsage, End
<1> QED BY <1>1, <1>2, QuietStep DEF SkillInv, MemoryTyped

------------------------------------------------------------------------------
(* Being given skills: each that another request holds becomes shared; the *)
(* others have been held by nobody, or by this request.                    *)
LEMMA MatchKeeps == ASSUME SkillInv, NEW r \in Requests, Match(r) PROVE SkillInv'
<1>1. PICK found \in SUBSET {i \in Ids : Retrievable(i)} :
        /\ reqs' = [reqs EXCEPT ![r].matched = found]
        /\ shared' = shared \cup {i \in found : \E q \in Requests \ {r} : Holds(q, i)}
  BY DEF Match
<1>2. reqs[r] \in Work /\ reqs[r].pc = "act" /\ reqs[r].id = 0
  BY DEF SkillInv, MemoryTyped, SnapshotReal, Match
<1> DEFINE w == [reqs[r] EXCEPT !.matched = found]
<1>3. w \in Work /\ w.pc = "act" /\ w.id = 0 /\ w.matched = found
  BY <1>2 DEF Work
<1>4. \A q \in Requests : reqs'[q] = IF q = r THEN w ELSE reqs[q]
  BY <1>1 DEF SkillInv, MemoryTyped
<1>5. MemoryTyped'
  BY <1>1, <1>3 DEF SkillInv, MemoryTyped, Match
<1> HIDE DEF w
<1>6. UNCHANGED <<skills, reported, twins, Live>>
  BY DEF Match, Live, Exists
<1>7. SnapshotReal'
  BY <1>3, <1>4, <1>6 DEF SkillInv, SnapshotReal
<1>8. CountsAreReal' /\ TwinsOverlapped' /\ ArchivedOnEvidence'
  BY <1>6 DEF SkillInv, CountsAreReal, TwinsOverlapped, ArchivedOnEvidence, Exists
<1>9. PassedAlone'
  BY <1>3, <1>4, <1>6 DEF SkillInv, PassedAlone
<1>10. HeldAlone'
  <2> SUFFICES ASSUME NEW i \in Ids \ shared'
               PROVE  /\ \A q, p \in Requests : Holds(q, i)' /\ Holds(p, i)' => q = p
                      /\ skills[i].used <= 1
                      /\ \A p \in Requests : Holds(p, i)' =>
                            skills[i].used = 0 /\ (reqs'[p].id = i => reqs'[p].used = 0)
    BY <1>6 DEF HeldAlone
  <2>1. i \in Ids \ shared /\ i # 0
    BY <1>1 DEF Ids
  <2>2. \A q \in Requests : Holds(q, i)' <=> IF q = r THEN i \in found ELSE Holds(q, i)
    BY <1>3, <1>4, <2>1 DEF Holds
  <2>3. i \in found => \A q \in Requests \ {r} : ~Holds(q, i)
    BY <1>1
  <2>4. i \in found => Above3(skills[i].won, skills[i].used)
    BY DEF Retrievable
  <2>5. skills[i].used \in {0, 1} /\ skills[i].won \in Nat /\ skills[i].won <= skills[i].used
    <3>1. skills[i] \in Row
      BY <2>1 DEF SkillInv, MemoryTyped
    <3>2. skills[i].used <= 1 /\ skills[i].won <= skills[i].used
      BY <2>1 DEF SkillInv, HeldAlone, CountsAreReal
    <3> QED BY <3>1, <3>2 DEF Row
  <2>6. i \in found => skills[i].used = 0
    BY <2>4, <2>5 DEF Above3
  <2> QED BY <2>1, <2>2, <2>3, <2>5, <2>6, <1>3, <1>4 DEF SkillInv, HeldAlone
<1>11. HeldExists'
  <2>1. \A i \in found : Exists(i)
    BY DEF Retrievable, Live
  <2> QED BY <1>3, <1>4, <1>6, <2>1 DEF SkillInv, HeldExists, Holds, Exists, Ids
<1> QED BY <1>5, <1>7, <1>8, <1>9, <1>10, <1>11 DEF SkillInv

(* Passing the dedup door: no live skill has the body.                     *)
LEMMA DedupKeeps == ASSUME SkillInv, NEW r \in Requests, Dedup(r) PROVE SkillInv'
<1>1. reqs[r] \in Work /\ reqs[r].pc = "dedup" /\ reqs[r].id = 0
  BY DEF SkillInv, MemoryTyped, SnapshotReal, Dedup
<1>2. CASE \E i \in Live : skills[i].body = reqs[r].body
  <2>1. [reqs[r] EXCEPT !.pc = "feedback"] \in Work
    BY WorkFields DEF SkillInv
  <2>2. reqs' = [reqs EXCEPT ![r] = [reqs[r] EXCEPT !.pc = "feedback"]]
    BY <1>2 DEF Dedup
  <2>3. UNCHANGED <<skills, queries, histories>>
    BY DEF Dedup
  <2>4. PICK w \in Work : /\ reqs' = [reqs EXCEPT ![r] = w] /\ w.pc = "feedback"
                           /\ w.id = 0 /\ w.matched = reqs[r].matched
    BY <1>1, <2>1, <2>2 DEF Work
  <2> QED BY <2>3, <2>4, QuietStep DEF SkillInv, MemoryTyped
<1>3. CASE \A i \in Live : skills[i].body # reqs[r].body
  <2>1. PICK w \in Work : /\ reqs' = [reqs EXCEPT ![r] = w] /\ w.pc = "passed"
                           /\ w.id = 0 /\ w.matched = reqs[r].matched /\ w.body = reqs[r].body
    <3>1. [reqs[r] EXCEPT !.pc = "passed"] \in Work
      BY WorkFields DEF SkillInv
    <3> QED BY <1>1, <1>3, <3>1 DEF Work, Dedup
  <2>2. \A q \in Requests : reqs'[q] = IF q = r THEN w ELSE reqs[q]
    BY <2>1 DEF SkillInv, MemoryTyped
  <2>3. MemoryTyped'
    BY <2>1 DEF SkillInv, MemoryTyped, Dedup, histories
  <2>4. UNCHANGED <<skills, reported, twins, shared, Live>>
    BY DEF Dedup, histories, Live, Exists
  <2>5. SnapshotReal'
    BY <2>1, <2>2, <2>4 DEF SkillInv, SnapshotReal
  <2>6. CountsAreReal' /\ TwinsOverlapped' /\ ArchivedOnEvidence'
    BY <2>4 DEF SkillInv, CountsAreReal, TwinsOverlapped, ArchivedOnEvidence, Exists
  <2>7. PassedAlone'
    BY <1>3, <2>1, <2>2, <2>4 DEF SkillInv, PassedAlone
  <2>8. HeldAlone' /\ HeldExists'
    <3>1. \A q \in Requests, i \in Ids : Holds(q, i)' <=> Holds(q, i)
      BY <1>1, <2>1, <2>2 DEF Holds, Ids
    <3>2. \A q \in Requests, i \in Ids : reqs'[q].id = i => reqs'[q] = reqs[q]
      BY <2>1, <2>2 DEF Ids
    <3> QED BY <2>4, <3>1, <3>2 DEF SkillInv, HeldAlone, HeldExists, Exists
  <2> QED BY <2>3, <2>5, <2>6, <2>7, <2>8 DEF SkillInv
<1> QED BY <1>2, <1>3

(* An insertion by a request past the door: a live skill of its body makes *)
(* the body one of twins, and so does another request past the door.       *)
LEMMA InsertKeeps == ASSUME SkillInv, NEW r \in Requests, Insert(r) PROVE SkillInv'
<1> DEFINE b == reqs[r].body
           new == [body |-> b, used |-> 0, won |-> 0, archived |-> FALSE]
<1>1. PICK i \in Ids :
        /\ ~Exists(i) /\ skills' = [skills EXCEPT ![i] = new]
        /\ twins' = IF \E q \in Requests \ {r} : reqs[q].pc = "passed" /\ reqs[q].body = b
                    THEN twins \cup {b} ELSE twins
  BY DEF Insert
<1>2. reqs[r] \in Work /\ reqs[r].pc = "passed" /\ reqs[r].id = 0 /\ b \in Bodies \cup {"none"}
  BY DEF SkillInv, MemoryTyped, SnapshotReal, Insert, Work
<1>3. PICK w \in Work : /\ reqs' = [reqs EXCEPT ![r] = w] /\ w.pc = "feedback"
                         /\ w.id = 0 /\ w.matched = reqs[r].matched
  <2>1. [reqs[r] EXCEPT !.pc = "feedback"] \in Work
    BY WorkFields DEF SkillInv
  <2> QED BY <1>2, <2>1 DEF Work, Insert
<1>4. new \in Row /\ new # NoSkill /\ new.body = b /\ new.used = 0 /\ new.won = 0 /\ ~new.archived
  BY <1>2 DEF Row, NoSkill
<1> HIDE DEF new
<1>5. MemoryTyped'
  <2>1. skills' \in [Ids -> Row]
    BY <1>1, <1>4 DEF SkillInv, MemoryTyped
  <2>2. reqs' \in [Requests -> Work]
    BY <1>3 DEF SkillInv, MemoryTyped
  <2>3. twins' \subseteq Bodies \cup {"none"}
    <3>1. twins' \subseteq twins \cup {b}
      BY <1>1
    <3> QED BY <1>2, <3>1 DEF SkillInv, MemoryTyped
  <2> QED BY <2>1, <2>2, <2>3 DEF SkillInv, MemoryTyped, Insert
<1>6. /\ \A q \in Requests : reqs'[q] = IF q = r THEN w ELSE reqs[q]
      /\ \A j \in Ids : skills'[j] = IF j = i THEN new ELSE skills[j]
      /\ UNCHANGED <<reported, shared>> /\ twins \subseteq twins'
  BY <1>1, <1>3 DEF SkillInv, MemoryTyped, Insert
<1>7. /\ \A j \in Live' : j = i \/ (j \in Live /\ skills'[j] = skills[j])
      /\ \A j \in Ids : Exists(j) => Exists(j)'
      /\ \A j \in Ids : Exists(j)' => j = i \/ (Exists(j) /\ skills'[j] = skills[j])
  <2>1. \A j \in Ids : j # i => skills'[j] = skills[j]
    BY <1>6
  <2>2. Exists(i)'
    BY <1>4, <1>6 DEF Exists
  <2>3. \A j \in Ids : j # i => (Exists(j)' <=> Exists(j))
    BY <2>1 DEF Exists
  <2> QED BY <2>1, <2>2, <2>3 DEF Live
<1>8. SnapshotReal'
  BY <1>3, <1>6 DEF SkillInv, SnapshotReal
<1>9. CountsAreReal'
  <2>1. \A j \in Ids : reported[j].uses >= 0 /\ reported[j].wins >= 0
    BY DEF SkillInv, MemoryTyped
  <2>2. \A j \in Ids : /\ skills'[j].won <= skills'[j].used
                        /\ skills'[j].used <= reported[j].uses /\ skills'[j].won <= reported[j].wins
    BY <1>4, <1>6, <2>1 DEF SkillInv, CountsAreReal
  <2> QED BY <1>6, <2>2 DEF CountsAreReal
<1>10. PassedAlone'
  BY <1>1, <1>3, <1>4, <1>6, <1>7 DEF SkillInv, PassedAlone
<1>11. TwinsOverlapped'
  <2>1. \A j \in Live : skills[j].body = b => b \in twins
    BY <1>2 DEF SkillInv, PassedAlone
  <2> QED BY <1>4, <1>6, <1>7, <2>1 DEF SkillInv, TwinsOverlapped
<1>12. ArchivedOnEvidence'
  BY <1>4, <1>6, <1>7 DEF SkillInv, ArchivedOnEvidence
<1>13. HeldAlone' /\ HeldExists'
  <2>1. \A q \in Requests, j \in Ids : Holds(q, j)' <=> Holds(q, j)
    BY <1>2, <1>3, <1>6 DEF Holds, Ids
  <2>2. \A q \in Requests, j \in Ids : reqs'[q].id = j => reqs'[q] = reqs[q]
    BY <1>3, <1>6 DEF Ids
  <2> QED BY <1>4, <1>6, <1>7, <2>1, <2>2 DEF SkillInv, HeldAlone, HeldExists
<1> QED BY <1>5, <1>8, <1>9, <1>10, <1>11, <1>12, <1>13 DEF SkillInv

LEMMA ReportFields ==
    ASSUME NEW p \in [uses : Nat, wins : Nat], NEW u \in Nat, NEW n \in Nat
    PROVE  [p EXCEPT !.uses = u, !.wins = n] \in [uses : Nat, wins : Nat]
OBVIOUS

LEMMA ReadUsageKeeps == ASSUME SkillInv, NEW r \in Requests, ReadUsage(r) PROVE SkillInv'
<1>1. PICK i \in reqs[r].matched :
        /\ reqs' = [reqs EXCEPT ![r].pc = "update", ![r].id = i, ![r].matched = @ \ {i},
                       ![r].used = skills[i].used, ![r].won = skills[i].won]
        /\ reported' = [reported EXCEPT ![i].uses = @ + 1,
                           ![i].wins = @ + (IF reqs[r].ok THEN 1 ELSE 0)]
  BY DEF ReadUsage
<1>2. reqs[r] \in Work /\ reqs[r].id = 0 /\ reqs[r].pc = "feedback"
  BY DEF SkillInv, MemoryTyped, SnapshotReal, ReadUsage
<1>3. i \in Ids /\ i # 0
  BY <1>2 DEF Work, Ids
<1>4. skills[i] \in Row /\ reported[i] \in [uses : Nat, wins : Nat]
  BY <1>3 DEF SkillInv, MemoryTyped
<1> DEFINE w == [reqs[r] EXCEPT !.pc = "update", !.id = i, !.matched = @ \ {i},
                    !.used = skills[i].used, !.won = skills[i].won]
<1>5. /\ w \in Work /\ w.pc = "update" /\ w.id = i /\ w.matched = reqs[r].matched \ {i}
      /\ w.used = skills[i].used /\ w.won = skills[i].won /\ w.ok = reqs[r].ok
  BY <1>2, <1>3, <1>4 DEF Work, Row
<1> HIDE DEF w
<1>6. /\ reqs' = [reqs EXCEPT ![r] = w]
      /\ \A q \in Requests : reqs'[q] = IF q = r THEN w ELSE reqs[q]
  BY <1>1 DEF w, SkillInv, MemoryTyped
<1>7. reported' \in [Ids -> [uses : Nat, wins : Nat]]
  <2> DEFINE one == IF reqs[r].ok THEN 1 ELSE 0
            new == [reported[i] EXCEPT !.uses = @ + 1, !.wins = @ + one]
  <2>0. one \in Nat
    OBVIOUS
  <2> HIDE DEF one
  <2>1. new \in [uses : Nat, wins : Nat]
    <3>1. reported[i].uses + 1 \in Nat /\ reported[i].wins + one \in Nat
      BY <1>4, <2>0
    <3> QED BY <1>4, <3>1, ReportFields
  <2>2. reported' = [reported EXCEPT ![i] = new] /\ reported \in [Ids -> [uses : Nat, wins : Nat]]
    BY <1>1 DEF one, SkillInv, MemoryTyped
  <2> HIDE DEF new
  <2> QED BY <1>3, <2>1, <2>2
<1>8. /\ \A j \in Ids : reported[j].uses <= reported'[j].uses /\ reported[j].wins <= reported'[j].wins
      /\ reported'[i].uses = reported[i].uses + 1
      /\ reported'[i].wins = reported[i].wins + (IF reqs[r].ok THEN 1 ELSE 0)
  <2>1. reported \in [Ids -> [uses : Nat, wins : Nat]]
    BY DEF SkillInv, MemoryTyped
  <2>2. /\ reported'[i].uses = reported[i].uses + 1
        /\ reported'[i].wins = reported[i].wins + (IF reqs[r].ok THEN 1 ELSE 0)
        /\ \A j \in Ids \ {i} : reported'[j] = reported[j]
    BY <1>1, <1>3, <2>1
  <2>3. \A j \in Ids : reported[j].uses \in Nat /\ reported[j].wins \in Nat
    BY <2>1
  <2> QED BY <1>3, <2>2, <2>3
<1>9. UNCHANGED <<skills, queries, twins, shared, Live>>
  BY DEF ReadUsage, Live, Exists
<1>10. MemoryTyped'
  BY <1>5, <1>6, <1>7, <1>9 DEF SkillInv, MemoryTyped
<1>11. SnapshotReal'
  <2> SUFFICES ASSUME NEW q \in Requests
      PROVE /\ reqs'[q].pc = "update" =>
                /\ reqs'[q].id \in Ids /\ reqs'[q].id \notin reqs'[q].matched
                /\ reqs'[q].won <= reqs'[q].used
                /\ reqs'[q].used + 1 <= reported'[reqs'[q].id].uses
                /\ reqs'[q].won + (IF reqs'[q].ok THEN 1 ELSE 0) <= reported'[reqs'[q].id].wins
            /\ reqs'[q].pc # "update" => reqs'[q].id = 0
            /\ reqs'[q].pc = "dedup" => reqs'[q].body \in Bodies
    BY DEF SnapshotReal
  <2>1. CASE q = r
    <3>1. skills[i].won <= skills[i].used /\ skills[i].used <= reported[i].uses
          /\ skills[i].won <= reported[i].wins
      BY <1>3 DEF SkillInv, CountsAreReal
    <3>2. reqs[r].ok \in BOOLEAN /\ skills[i].used \in Nat /\ skills[i].won \in Nat
          /\ reported[i].uses \in Nat /\ reported[i].wins \in Nat
      BY <1>2, <1>4 DEF Work, Row
    <3> QED BY <1>3, <1>5, <1>6, <1>8, <2>1, <3>1, <3>2
  <2>2. CASE q # r /\ reqs[q].pc = "update"
    <3> DEFINE j == reqs[q].id
    <3>1. /\ j \in Ids /\ j \notin reqs[q].matched /\ reqs[q].won <= reqs[q].used
          /\ reqs[q].used + 1 <= reported[j].uses
          /\ reqs[q].won + (IF reqs[q].ok THEN 1 ELSE 0) <= reported[j].wins
      BY <2>2 DEF SkillInv, SnapshotReal
    <3>2. reqs[q] \in Work /\ reported[j] \in [uses : Nat, wins : Nat]
          /\ reported'[j] \in [uses : Nat, wins : Nat]
      BY <1>7, <3>1 DEF SkillInv, MemoryTyped
    <3>3. reqs[q].used \in Nat /\ reqs[q].won \in Nat /\ reqs[q].ok \in BOOLEAN
          /\ reported[j].uses \in Nat /\ reported[j].wins \in Nat
          /\ reported'[j].uses \in Nat /\ reported'[j].wins \in Nat
      BY <3>2 DEF Work
    <3>4. reported[j].uses <= reported'[j].uses /\ reported[j].wins <= reported'[j].wins
      BY <1>8, <3>1
    <3> HIDE DEF j
    <3> QED BY <1>6, <2>2, <3>1, <3>3, <3>4 DEF j
  <2>3. CASE q # r /\ reqs[q].pc # "update"
    BY <1>6, <2>3 DEF SkillInv, SnapshotReal
  <2> QED BY <2>1, <2>2, <2>3
<1>12. CountsAreReal'
  <2> SUFFICES ASSUME NEW j \in Ids
      PROVE /\ skills[j].won <= skills[j].used /\ skills[j].used <= reported'[j].uses
            /\ skills[j].won <= reported'[j].wins
    BY <1>9 DEF CountsAreReal
  <2>1. skills[j] \in Row /\ reported[j] \in [uses : Nat, wins : Nat]
        /\ reported'[j] \in [uses : Nat, wins : Nat]
    BY <1>7 DEF SkillInv, MemoryTyped
  <2>2. /\ skills[j].won <= skills[j].used /\ skills[j].used <= reported[j].uses
        /\ skills[j].won <= reported[j].wins
    BY DEF SkillInv, CountsAreReal
  <2> QED BY <1>8, <2>1, <2>2 DEF Row
<1>13. ArchivedOnEvidence'
  <2> SUFFICES ASSUME NEW j \in Ids, Exists(j), skills[j].archived
               PROVE  reported'[j].uses >= MinUses
    BY <1>9 DEF ArchivedOnEvidence, Exists
  <2>1. reported[j] \in [uses : Nat, wins : Nat] /\ reported'[j] \in [uses : Nat, wins : Nat]
    BY <1>7 DEF SkillInv, MemoryTyped
  <2>2. reported[j].uses >= MinUses /\ reported[j].uses <= reported'[j].uses
    BY <1>8 DEF SkillInv, ArchivedOnEvidence
  <2> QED BY <2>1, <2>2, MemoryAssumption
<1>14. TwinsOverlapped' /\ PassedAlone'
  BY <1>5, <1>6, <1>9 DEF SkillInv, TwinsOverlapped, PassedAlone
<1>15. HeldAlone' /\ HeldExists'
  <2>1. \A q \in Requests, j \in Ids : Holds(q, j)' <=> Holds(q, j)
    BY <1>2, <1>5, <1>6 DEF Holds, Ids
  <2>2. \A q \in Requests \ {r} : reqs'[q] = reqs[q]
    BY <1>6
  <2>3. \A j \in Ids : reqs'[r].id = j => j = i /\ reqs'[r].used = skills[j].used
    BY <1>5, <1>6
  <2> QED BY <1>9, <2>1, <2>2, <2>3 DEF SkillInv, HeldAlone, HeldExists, Exists
<1> QED BY <1>10, <1>11, <1>12, <1>13, <1>14, <1>15 DEF SkillInv

LEMMA WriteUsageKeeps == ASSUME SkillInv, NEW r \in Requests, WriteUsage(r) PROVE SkillInv'
<1> DEFINE i == reqs[r].id
           one == IF reqs[r].ok THEN 1 ELSE 0
           row == [skills[i] EXCEPT !.used = reqs[r].used + 1, !.won = reqs[r].won + one]
           w == [reqs[r] EXCEPT !.pc = "feedback", !.id = 0, !.used = 0, !.won = 0]
<1>1. /\ reqs[r] \in Work /\ i \in Ids /\ i # 0 /\ i \notin reqs[r].matched
      /\ skills[i] \in Row /\ one \in {0, 1} /\ Holds(r, i)
      /\ reqs[r].won <= reqs[r].used /\ reqs[r].used + 1 <= reported[i].uses
      /\ reqs[r].won + one <= reported[i].wins
  BY DEF SkillInv, MemoryTyped, SnapshotReal, WriteUsage, Ids, Holds
<1>2. reqs[r].used \in Nat /\ reqs[r].won \in Nat
  BY <1>1 DEF Work
<1>3. /\ skills' = [skills EXCEPT ![i] = row] /\ reqs' = [reqs EXCEPT ![r] = w]
      /\ UNCHANGED <<queries, reported, twins, shared>>
  BY DEF WriteUsage, SkillInv, MemoryTyped, histories
<1> HIDE DEF one
<1>4. /\ row \in Row /\ row.used = reqs[r].used + 1 /\ row.won = reqs[r].won + one
      /\ row.body = skills[i].body /\ row.archived = skills[i].archived
  <2> DEFINE u == reqs[r].used + 1
             n == reqs[r].won + one
             old == skills[i]
  <2>1. u \in Nat /\ n \in Nat /\ old \in Row
    BY <1>1, <1>2
  <2>2. row = [old EXCEPT !.used = u, !.won = n]
    OBVIOUS
  <2> HIDE DEF u, n, old, row
  <2>3. row \in Row /\ row.used = u /\ row.won = n /\ row.body = old.body /\ row.archived = old.archived
    BY <2>1, <2>2 DEF Row
  <2> QED BY <2>3 DEF u, n, old
<1> HIDE DEF row
<1>5. row # NoSkill /\ row.won <= row.used
  <2>1. row.used # 0 /\ row.won <= row.used
    BY <1>1, <1>2, <1>4
  <2> QED BY <2>1 DEF NoSkill
<1>6. w \in Work /\ w.pc = "feedback" /\ w.id = 0 /\ w.matched = reqs[r].matched
  BY <1>1 DEF Work
<1> HIDE DEF w
<1>7. MemoryTyped'
  BY <1>1, <1>3, <1>4, <1>6 DEF SkillInv, MemoryTyped
<1>8. /\ \A q \in Requests : reqs'[q] = IF q = r THEN w ELSE reqs[q]
      /\ \A j \in Ids : skills'[j] = IF j = i THEN row ELSE skills[j]
  BY <1>3 DEF SkillInv, MemoryTyped
<1>9. Exists(i)
  BY <1>1 DEF SkillInv, HeldExists
<1>10. \A j \in Ids : Exists(j)' <=> Exists(j)
  BY <1>5, <1>8, <1>9 DEF Exists
<1>11. Live' = Live /\ \A j \in Ids : skills'[j].body = skills[j].body /\ skills'[j].archived = skills[j].archived
  BY <1>4, <1>8, <1>10 DEF Live
<1>12. SnapshotReal'
  BY <1>3, <1>6, <1>8 DEF SkillInv, SnapshotReal
<1>13. CountsAreReal'
  BY <1>1, <1>3, <1>4, <1>5, <1>8 DEF SkillInv, CountsAreReal
<1>14. PassedAlone' /\ TwinsOverlapped'
  <2>1. \A j \in Live : j \in Ids
    BY DEF Live
  <2> QED BY <1>3, <1>6, <1>8, <1>11, <2>1 DEF SkillInv, PassedAlone, TwinsOverlapped
<1>15. ArchivedOnEvidence'
  BY <1>3, <1>10, <1>11 DEF SkillInv, ArchivedOnEvidence
<1>16. \A q \in Requests, j \in Ids : Holds(q, j)' => Holds(q, j) /\ (q # r \/ j # i)
  BY <1>1, <1>6, <1>8 DEF Holds, Ids
<1>17. HeldExists'
  BY <1>10, <1>16 DEF SkillInv, HeldExists
<1>18. HeldAlone'
  <2> SUFFICES ASSUME NEW j \in Ids \ shared
               PROVE  /\ \A p, q \in Requests : Holds(p, j)' /\ Holds(q, j)' => p = q
                      /\ skills'[j].used <= 1
                      /\ \A p \in Requests : Holds(p, j)' =>
                            skills'[j].used = 0 /\ (reqs'[p].id = j => reqs'[p].used = 0)
    BY <1>3 DEF HeldAlone
  <2>1. CASE j = i
    <3>1. reqs[r].used = 0 /\ \A p \in Requests : Holds(p, j) => p = r
      BY <1>1, <2>1 DEF SkillInv, HeldAlone
    <3>2. \A p \in Requests : ~Holds(p, j)'
      BY <1>16, <2>1, <3>1
    <3> QED BY <1>4, <1>8, <2>1, <3>1, <3>2
  <2>2. CASE j # i
    <3>1. skills'[j] = skills[j]
      BY <1>8, <2>2
    <3>2. \A p \in Requests : reqs'[p].id = j => reqs'[p] = reqs[p]
      BY <1>6, <1>8 DEF Ids
    <3> QED BY <1>16, <3>1, <3>2 DEF SkillInv, HeldAlone
  <2> QED BY <2>1, <2>2
<1> QED BY <1>7, <1>12, <1>13, <1>14, <1>15, <1>17, <1>18 DEF SkillInv

LEMMA DecayKeeps == ASSUME SkillInv, Decay PROVE SkillInv'
<1> DEFINE Weak(i) == i \in Live /\ skills[i].used >= MinUses /\ Below2(skills[i].won, skills[i].used)
<1>1. /\ skills' = [i \in Ids |-> IF Weak(i) THEN [skills[i] EXCEPT !.archived = TRUE] ELSE skills[i]]
      /\ UNCHANGED <<reqs, queries, reported, twins, shared>>
  BY DEF Decay, histories
<1>2. \A i \in Ids : skills[i] \in Row
  BY DEF SkillInv, MemoryTyped
<1>3. \A i \in Ids : /\ skills'[i] \in Row
                     /\ skills'[i].body = skills[i].body /\ skills'[i].used = skills[i].used
                     /\ skills'[i].won = skills[i].won
                     /\ Weak(i) => skills'[i].archived
                     /\ ~Weak(i) => skills'[i] = skills[i]
  BY <1>1, <1>2 DEF Row
<1>4. MemoryTyped'
  BY <1>1, <1>3 DEF SkillInv, MemoryTyped
<1>5. \A i \in Ids : Weak(i) => skills[i].used >= MinUses /\ skills[i].used > 0 /\ Exists(i)
  BY DEF Below2, Live
<1> HIDE DEF Weak
<1>6. \A i \in Ids : Exists(i)' <=> Exists(i)
  <2>1. \A i \in Ids : Weak(i) => skills'[i] # NoSkill
    <3> SUFFICES ASSUME NEW i \in Ids, Weak(i) PROVE skills'[i] # NoSkill
      OBVIOUS
    <3>1. skills'[i].used > 0
      BY <1>3, <1>5
    <3> QED BY <3>1 DEF NoSkill
  <2> QED BY <1>3, <1>5, <2>1 DEF Exists
<1>7. \A i \in Live' : i \in Live /\ i \in Ids
  <2> SUFFICES ASSUME NEW i \in Live' PROVE i \in Live /\ i \in Ids
    OBVIOUS
  <2>1. i \in Ids /\ Exists(i)' /\ ~skills'[i].archived
    BY DEF Live
  <2>2. ~Weak(i)
    BY <1>3, <2>1
  <2> QED BY <1>3, <1>6, <2>1, <2>2 DEF Live
<1>8. SnapshotReal' /\ CountsAreReal'
  BY <1>1, <1>3 DEF SkillInv, SnapshotReal, CountsAreReal
<1>9. PassedAlone' /\ TwinsOverlapped'
  BY <1>1, <1>3, <1>7 DEF SkillInv, PassedAlone, TwinsOverlapped
<1>10. ArchivedOnEvidence'
  <2> SUFFICES ASSUME NEW i \in Ids, Exists(i)', skills'[i].archived PROVE reported[i].uses >= MinUses
    BY <1>1 DEF ArchivedOnEvidence
  <2>1. CASE Weak(i)
    <3>1. skills[i].used <= reported[i].uses
      BY DEF SkillInv, CountsAreReal
    <3>2. skills[i].used \in Nat /\ reported[i].uses \in Nat
      BY <1>2 DEF Row, SkillInv, MemoryTyped
    <3> QED BY <1>5, <2>1, <3>1, <3>2, MemoryAssumption
  <2>2. CASE ~Weak(i)
    BY <1>3, <1>6, <2>2 DEF SkillInv, ArchivedOnEvidence
  <2> QED BY <2>1, <2>2
<1>11. HeldAlone' /\ HeldExists'
  <2>1. \A q \in Requests, j \in Ids : Holds(q, j)' <=> Holds(q, j)
    BY <1>1 DEF Holds
  <2> QED BY <1>1, <1>3, <1>6, <2>1 DEF SkillInv, HeldAlone, HeldExists
<1> QED BY <1>4, <1>8, <1>9, <1>10, <1>11 DEF SkillInv

------------------------------------------------------------------------------
LEMMA NextKeeps == SkillInv /\ [Next]_vars => SkillInv'
<1> SUFFICES ASSUME SkillInv, [Next]_vars PROVE SkillInv'
  OBVIOUS
<1>1. CASE Decay
  BY <1>1, DecayKeeps
<1>2. ASSUME NEW r \in Requests, Request(r) PROVE SkillInv'
  <2>1. CASE Begin(r) \/ Match(r) \/ Reflect(r)
    BY <2>1, BeginKeeps, MatchKeeps, ReflectKeeps
  <2>2. CASE NotEligible(r) \/ Refuse(r) \/ SkipUsage(r) \/ End(r)
    BY <2>2, ToFeedbackKeeps
  <2>3. CASE Dedup(r) \/ Insert(r)
    BY <2>3, DedupKeeps, InsertKeeps
  <2>4. CASE ReadUsage(r) \/ WriteUsage(r)
    BY <2>4, ReadUsageKeeps, WriteUsageKeeps
  <2> QED BY <1>2, <2>1, <2>2, <2>3, <2>4 DEF Request
<1>3. CASE UNCHANGED vars
  <2>1. UNCHANGED <<skills, reqs, queries, reported, twins, shared>>
    BY <1>3 DEF vars, histories
  <2>2. UNCHANGED Live /\ \A i \in Ids : (Exists(i)' <=> Exists(i))
    BY <2>1 DEF Live, Exists
  <2>3. \A q \in Requests, j \in Ids : Holds(q, j)' <=> Holds(q, j)
    BY <2>1 DEF Holds
  <2> QED BY <2>1, <2>2, <2>3 DEF SkillInv, MemoryTyped, SnapshotReal, CountsAreReal,
            PassedAlone, TwinsOverlapped, ArchivedOnEvidence, HeldAlone, HeldExists
<1> QED BY <1>1, <1>2, <1>3 DEF Next

THEOREM SkillInvariant == Spec => []SkillInv
<1> QED BY SkillInit, NextKeeps, PTL DEF Spec

(* However updates overwrite each other or fail, the counters of a skill   *)
(* never exceed what requests reported (update_skill_usage).               *)
THEOREM CountsReal == Spec => []CountsAreReal
<1>1. SkillInv => CountsAreReal
  BY DEF SkillInv
<1> QED BY <1>1, SkillInvariant, PTL

(* Two live skills of one body come only from reviews that were both past  *)
(* the dedup door at once (evaluate_and_persist).                          *)
THEOREM TwinsOnlyOverlapping == Spec => []TwinsOverlapped
<1>1. SkillInv => TwinsOverlapped
  BY DEF SkillInv
<1> QED BY <1>1, SkillInvariant, PTL

(* Nothing is archived before MinUses requests reported on it (decay).     *)
THEOREM ArchivedJustly == Spec => []ArchivedOnEvidence
<1>1. SkillInv => ArchivedOnEvidence
  BY DEF SkillInv
<1> QED BY <1>1, SkillInvariant, PTL

(* A second use is only ever counted for a skill that two requests held at *)
(* the same time (query_skills with the Wilson bound).                     *)
THEOREM ReuseIsParallel == Spec => []ReusedOnlyInParallel
<1>1. SkillInv => ReusedOnlyInParallel
  <2> SUFFICES ASSUME SkillInv, NEW i \in Ids, skills[i].used > 1 PROVE i \in shared
    BY DEF ReusedOnlyInParallel
  <2>1. skills[i].used \in Nat
    BY DEF SkillInv, MemoryTyped, Row
  <2> QED BY <2>1 DEF SkillInv, HeldAlone
<1> QED BY <1>1, SkillInvariant, PTL

------------------------------------------------------------------------------
(* Cases and rules.  A case is written under the novelty its writer read   *)
(* before, so what is promoted rests on what nobody else was writing then. *)
Intents == CaseIntents \cup {NoIntent}

ToWrite ==
    [query : CaseQueries, intent : Intents, outcome : {0, 1}, flag : {0, 1}]

Written ==
    [query : CaseQueries, intent : Intents, outcome : {0, 1}, importance : Int,
     promoted : BOOLEAN, old : BOOLEAN, archived : BOOLEAN]

CasesTyped ==
    /\ cases \in Seq(Written) /\ writes \in [Writers -> Seq(ToWrite)]
    /\ novelty \in [Writers -> {Unread} \cup 0..100]
    /\ rules \in [Intents -> Nat]
    /\ evolver \in [Evolvers -> [pc : {"idle", "read", "insert", "decay"},
                                 found : SUBSET Intents]]

InHand(w, q) == novelty[w] # Unread /\ Head(writes[w]).query = q

Promoted(q) == {i \in DOMAIN cases : cases[i].query = q /\ cases[i].promoted}

(* A promoted case is too important to be archived.                        *)
PromotedLive ==
    \A i \in DOMAIN cases : cases[i].promoted => cases[i].importance >= 1400 /\ ~cases[i].archived

(* While one writer has a query in hand nobody else has, and what it takes *)
(* to be new has no promoted case among the latest rows.                   *)
LongAgo(q) == \A i \in Promoted(q) : Len(cases) - i >= Recall

NewIsNew ==
    /\ \A w \in Writers : novelty[w] # Unread => writes[w] # <<>>
    /\ \A q \in CaseQueries \ blind : \A w \in Writers : InHand(w, q) =>
          /\ \A v \in Writers : InHand(v, q) => v = w
          /\ novelty[w] > 0 => LongAgo(q)
    /\ \A q \in CaseQueries \ blind : \A i, j \in Promoted(q) : i < j => j - i > Recall

Deriving(e, intent) == evolver[e].pc = "insert" /\ intent \in evolver[e].found

RuleIsNew ==
    \A intent \in Intents \ rivals :
       /\ rules[intent] <= 1
       /\ \A e \in Evolvers : Deriving(e, intent) =>
             rules[intent] = 0 /\ \A d \in Evolvers : Deriving(d, intent) => d = e

CasesInv == CasesTyped /\ PromotedLive /\ NewIsNew /\ RuleIsNew

LEMMA SeqOf == ASSUME NEW S, NEW n \in Nat, NEW f \in [1..n -> S] PROVE f \in Seq(S)
OBVIOUS

(* _importance: only a case whose query was new reaches 0.7.               *)
LEMMA Weighty ==
    ASSUME NEW c \in ToWrite, NEW new \in 0..100
    PROVE  /\ CaseRow(c, new) \in Written
           /\ CaseRow(c, new).query = c.query /\ ~CaseRow(c, new).archived
           /\ CaseRow(c, new).promoted => CaseRow(c, new).importance >= 1400 /\ new > 0
<1>1. c.outcome \in {0, 1} /\ c.flag \in {0, 1} /\ c.query \in CaseQueries /\ c.intent \in Intents
  BY DEF ToWrite
<1>2. PICK k \in {3, 6, 7, 10} : k = 3 + 4 * c.outcome + 3 * c.flag
  BY <1>1
<1>3. Importance(c, new) = k * (100 + new)
  BY <1>2 DEF Importance
<1>4. k * (100 + new) \in Int /\ (k * (100 + new) >= 1400 => new > 0)
  <2>1. CASE k = 3
    BY <2>1
  <2>2. CASE k = 6
    BY <2>2
  <2>3. CASE k = 7
    BY <2>3
  <2>4. CASE k = 10
    BY <2>4
  <2> QED BY <1>2, <2>1, <2>2, <2>3, <2>4
<1>5. PICK r, p : r = CaseRow(c, new) /\ p = (Importance(c, new) >= 1400 /\ c.outcome = 1)
  OBVIOUS
<1>7. p \in BOOLEAN /\ (p => Importance(c, new) >= 1400)
  <2>1. CASE Importance(c, new) >= 1400 /\ c.outcome = 1
    BY <1>5, <2>1
  <2>2. CASE ~(Importance(c, new) >= 1400 /\ c.outcome = 1)
    <3>1. p = FALSE
      BY <1>5, <2>2, Zenon
    <3> QED BY <3>1, Zenon
  <2> QED BY <2>1, <2>2
<1>8. r = [query |-> c.query, intent |-> c.intent, outcome |-> c.outcome,
           importance |-> Importance(c, new), promoted |-> p,
           old |-> FALSE, archived |-> FALSE]
  BY <1>5, Zenon DEF CaseRow
<1>6. /\ r.query = c.query /\ r.importance = Importance(c, new) /\ r.archived = FALSE
      /\ r.promoted = p
  BY <1>8
<1>9. r \in Written
  BY <1>1, <1>3, <1>4, <1>7, <1>8 DEF Written
<1>10. r.promoted => r.importance >= 1400 /\ new > 0
  BY <1>3, <1>4, <1>6, <1>7
<1> QED BY <1>5, <1>6, <1>9, <1>10

LEMMA CasesStart == CasesInit => CasesInv
<1> SUFFICES ASSUME CasesInit PROVE CasesInv
  OBVIOUS
<1>1. CasesTyped /\ PromotedLive
  BY DEF CasesInit, CasesTyped, PromotedLive, Intents
<1>2. NewIsNew
  BY DEF CasesInit, NewIsNew, InHand, Promoted
<1>3. RuleIsNew
  BY DEF CasesInit, RuleIsNew, Deriving, Intents
<1> QED BY <1>1, <1>2, <1>3 DEF CasesInv

LEMMA StillNew ==
    ASSUME NewIsNew, blind \subseteq blind', Len(cases)' = Len(cases),
           \A q \in CaseQueries : Promoted(q)' = Promoted(q),
           \A v \in Writers : novelty'[v] # Unread =>
              writes'[v] = writes[v] /\ novelty'[v] = novelty[v]
    PROVE  NewIsNew'
<1>1. \A q \in CaseQueries, v \in Writers : InHand(v, q)' => InHand(v, q) /\ novelty'[v] = novelty[v]
  BY DEF InHand
<1>2. \A q \in CaseQueries \ blind' : q \in CaseQueries \ blind
  OBVIOUS
<1>3. \A q \in CaseQueries : LongAgo(q)' <=> LongAgo(q)
  BY DEF LongAgo
<1> QED BY <1>1, <1>2, <1>3 DEF NewIsNew

LEMMA StillDerived ==
    ASSUME RuleIsNew, UNCHANGED <<rules, rivals>>,
           \A d \in Evolvers, i \in Intents : Deriving(d, i)' => Deriving(d, i)
    PROVE  RuleIsNew'
BY DEF RuleIsNew

LEMMA CasesTypedStep == CasesTyped /\ [CasesNext]_casesVars => CasesTyped'
<1> SUFFICES ASSUME CasesTyped, [CasesNext]_casesVars PROVE CasesTyped'
  OBVIOUS
<1> USE DEF CasesTyped
<1>a. \A q \in CaseQueries, i \in Intents, o \in {0, 1}, f \in {0, 1} : Case(q, i, o, f) \in ToWrite
  BY DEF Case, ToWrite
<1>b. \A w \in Writers : writes[w] # <<>> => Head(writes[w]) \in ToWrite /\ Tail(writes[w]) \in Seq(ToWrite)
  OBVIOUS
<1>1. ASSUME NEW w \in Writers, Reflected(w) PROVE CasesTyped'
  <2>1. PICK q \in CaseQueries, intent \in CaseIntents, o \in {0, 1} :
           writes' = [writes EXCEPT ![w] = <<Case(q, NoIntent, o, 0), Case(q, intent, o, 0)>>]
    BY <1>1 DEF Reflected
  <2>2. <<Case(q, NoIntent, o, 0), Case(q, intent, o, 0)>> \in Seq(ToWrite)
    BY <1>a DEF Intents
  <2> QED BY <1>1, <2>1, <2>2 DEF Reflected
<1>2. ASSUME NEW w \in Writers, Feedback(w) PROVE CasesTyped'
  <2>1. PICK q \in CaseQueries, intent \in CaseIntents, o \in {0, 1} :
           writes' = [writes EXCEPT ![w] = <<Case(q, intent, o, 1)>>
                        \o (IF o = 0 THEN <<Case(q, NoIntent, 0, 0)>> ELSE <<>>)]
    BY <1>2 DEF Feedback
  <2>2. PICK more : more = IF o = 0 THEN <<Case(q, NoIntent, 0, 0)>> ELSE <<>>
    OBVIOUS
  <2>3. more \in Seq(ToWrite)
    BY <1>a, <2>2 DEF Intents
  <2>4. <<Case(q, intent, o, 1)>> \o more \in Seq(ToWrite)
    BY <1>a, <2>3 DEF Intents
  <2>5. writes' = [writes EXCEPT ![w] = <<Case(q, intent, o, 1)>> \o more]
    BY <2>1, <2>2
  <2> QED BY <1>2, <2>4, <2>5 DEF Feedback
<1>3. ASSUME NEW w \in Writers, Look(w) PROVE CasesTyped'
  <2>1. \A q : Novelty(q) \in 0..100
    BY CasesAssumption DEF Novelty
  <2> QED BY <1>3, <2>1 DEF Look
<1>4. ASSUME NEW w \in Writers, InsertCase(w) PROVE CasesTyped'
  <2>1. CaseRow(Head(writes[w]), novelty[w]) \in Written
    <3>1. PICK c, new : c = Head(writes[w]) /\ new = novelty[w]
      OBVIOUS
    <3>2. c \in ToWrite /\ new \in 0..100
      BY <1>4, <1>b, <3>1 DEF InsertCase
    <3> HIDE DEF CasesTyped
    <3>3. CaseRow(c, new) \in Written
      BY <3>2, Weighty
    <3> QED BY <3>1, <3>3
  <2> QED BY <1>4, <1>b, <2>1 DEF InsertCase
<1>5. ASSUME NEW w \in Writers, WriteFails(w) PROVE CasesTyped'
  BY <1>5, <1>b DEF WriteFails
<1>6. ASSUME NEW e \in Evolvers, CountCases(e) PROVE CasesTyped'
  <2>1. Clusters \subseteq Intents
    BY DEF Clusters, Intents
  <2> QED BY <1>6, <2>1 DEF CountCases
<1>7. ASSUME NEW e \in Evolvers, ReadRules(e) PROVE CasesTyped'
  BY <1>7 DEF ReadRules
<1>8. ASSUME NEW e \in Evolvers, InsertRules(e) PROVE CasesTyped'
  BY <1>8 DEF InsertRules
<1>9. ASSUME NEW e \in Evolvers, DecayCases(e) PROVE CasesTyped'
  <2>1. cases' \in [1..Len(cases) -> Written]
    <3>1. \A i \in 1..Len(cases) : cases[i] \in Written
      OBVIOUS
    <3>2. \A r \in Written : /\ [r EXCEPT !.archived = TRUE] \in Written
                             /\ [r EXCEPT !.old = TRUE] \in Written
      BY DEF Written
    <3>3. DOMAIN cases = 1..Len(cases)
      OBVIOUS
    <3> QED BY <1>9, <3>1, <3>2, <3>3 DEF DecayCases
  <2>2. cases' \in Seq(Written)
    <3>1. Len(cases) \in Nat
      OBVIOUS
    <3> QED BY <2>1, <3>1, SeqOf
  <2> QED BY <1>9, <2>2 DEF DecayCases
<1>10. ASSUME Month PROVE CasesTyped'
  <2>1. cases' \in [1..Len(cases) -> Written]
    <3>1. \A i \in 1..Len(cases) : cases[i] \in Written
      OBVIOUS
    <3>2. \A r \in Written : /\ [r EXCEPT !.archived = TRUE] \in Written
                             /\ [r EXCEPT !.old = TRUE] \in Written
      BY DEF Written
    <3>3. DOMAIN cases = 1..Len(cases)
      OBVIOUS
    <3> QED BY <1>10, <3>1, <3>2, <3>3 DEF Month
  <2>2. cases' \in Seq(Written)
    <3>1. Len(cases) \in Nat
      OBVIOUS
    <3> QED BY <2>1, <3>1, SeqOf
  <2> QED BY <1>10, <2>2 DEF Month
<1>11. CASE UNCHANGED casesVars
  BY <1>11 DEF casesVars
<1> QED
  BY <1>1, <1>2, <1>3, <1>4, <1>5, <1>6, <1>7, <1>8, <1>9, <1>10, <1>11 DEF CasesNext

(* A live case that is not among the latest has Recall rows after it.      *)
LEMMA NewAfterLong ==
    ASSUME CasesInv, NEW q, Novelty(q) > 0
    PROVE  LongAgo(q)
<1> SUFFICES ASSUME NEW i \in Promoted(q) PROVE Len(cases) - i >= Recall
  BY DEF LongAgo
<1>1. cases \in Seq(Written) /\ i \in DOMAIN cases /\ cases[i].query = q /\ cases[i].promoted
  BY DEF CasesInv, CasesTyped, Promoted
<1>2. i \in LiveCases
  BY <1>1 DEF CasesInv, PromotedLive, LiveCases
<1>3. i \notin Latest
  <2>1. \A k \in Latest : cases[k].query # q
    BY DEF Novelty
  <2> QED BY <1>1, <2>1
<1>4. PICK after : after = {j \in LiveCases : j > i}
  OBVIOUS
<1>5. ~(Cardinality(after) < Recall)
  BY <1>2, <1>3, <1>4 DEF Latest
<1>6. Len(cases) \in Nat /\ i \in 1..Len(cases)
  BY <1>1
<1>7. after \subseteq (i + 1)..Len(cases)
  BY <1>1, <1>4, <1>6 DEF LiveCases
<1>8. IsFiniteSet((i + 1)..Len(cases)) /\ Cardinality((i + 1)..Len(cases)) = Len(cases) - i
  <2>1. i + 1 \in Int /\ Len(cases) \in Int /\ i + 1 <= Len(cases) + 1
    BY <1>6
  <2>2. Len(cases) - (i + 1) + 1 = Len(cases) - i
    BY <1>6
  <2> QED BY <1>6, <2>1, <2>2, FS_Interval
<1>9. Cardinality(after) \in Nat /\ Cardinality(after) <= Len(cases) - i
  BY <1>7, <1>8, FS_Subset, FS_CardinalityType
<1> QED BY <1>5, <1>6, <1>9, CasesAssumption

(* The two steps of write.                                                 *)
LEMMA LookNew == ASSUME CasesInv, NEW w \in Writers, Look(w) PROVE NewIsNew'
<1>1. PICK q : q = Head(writes[w]).query
  OBVIOUS
<1>2. /\ writes[w] # <<>> /\ novelty[w] = Unread /\ UNCHANGED <<cases, writes>>
      /\ novelty' = [novelty EXCEPT ![w] = Novelty(q)] /\ blind \subseteq blind'
      /\ (\E v \in Writers \ {w} : InHand(v, q)) => q \in blind'
  BY <1>1 DEF Look, InHand
<1>3. \A p : Promoted(p)' = Promoted(p) /\ (LongAgo(p)' <=> LongAgo(p))
  BY <1>2 DEF Promoted, LongAgo
<1>4. \A p : \A v \in Writers : v # w => (InHand(v, p)' <=> InHand(v, p)) /\ novelty'[v] = novelty[v]
  BY <1>2 DEF CasesInv, CasesTyped, InHand
<1>5. \A p : InHand(w, p)' => p = q
  BY <1>1, <1>2 DEF InHand
<1>6. novelty'[w] = Novelty(q)
  BY <1>2 DEF CasesInv, CasesTyped
<1>7. Novelty(q) > 0 => LongAgo(q)
  BY NewAfterLong
<1>8. \A v \in Writers : novelty'[v] # Unread => writes'[v] # <<>>
  BY <1>2, <1>4 DEF CasesInv, NewIsNew
<1>9. ASSUME NEW p \in CaseQueries \ blind', NEW x \in Writers, InHand(x, p)'
      PROVE  /\ \A v \in Writers : InHand(v, p)' => v = x
             /\ novelty'[x] > 0 => LongAgo(p)'
  <2>1. p \in CaseQueries \ blind
    BY <1>2
  <2>2. CASE x = w
    BY <1>2, <1>3, <1>4, <1>5, <1>6, <1>7, <1>9, <2>2
  <2>3. CASE x # w
    BY <1>2, <1>3, <1>4, <1>5, <1>9, <2>1, <2>3 DEF CasesInv, NewIsNew
  <2> QED BY <2>2, <2>3
<1>10. \A p \in CaseQueries \ blind' : \A i, j \in Promoted(p)' : i < j => j - i > Recall
  BY <1>2, <1>3 DEF CasesInv, NewIsNew
<1> QED BY <1>8, <1>9, <1>10 DEF NewIsNew

LEMMA InsertNew ==
    ASSUME CasesInv, NEW w \in Writers, InsertCase(w)
    PROVE  PromotedLive' /\ NewIsNew'
<1>1. PICK c, new, row : c = Head(writes[w]) /\ new = novelty[w] /\ row = CaseRow(c, new)
  OBVIOUS
<1>2. /\ writes[w] # <<>> /\ new # Unread /\ cases' = Append(cases, row)
      /\ writes' = [writes EXCEPT ![w] = Tail(@)]
      /\ novelty' = [novelty EXCEPT ![w] = Unread] /\ blind' = blind
  BY <1>1 DEF InsertCase
<1>3. c \in ToWrite /\ new \in 0..100 /\ cases \in Seq(Written)
  BY <1>1, <1>2 DEF CasesInv, CasesTyped
<1>4. /\ row.query = c.query /\ ~row.archived /\ row \in Written
      /\ row.promoted => row.importance >= 1400 /\ new > 0
  <2>1. /\ CaseRow(c, new).query = c.query /\ ~CaseRow(c, new).archived
        /\ CaseRow(c, new) \in Written
        /\ CaseRow(c, new).promoted => CaseRow(c, new).importance >= 1400 /\ new > 0
    <3>1. c \in ToWrite /\ new \in 0..100
      BY <1>3
    <3> QED BY <3>1, Weighty
  <2>2. row = CaseRow(c, new)
    BY <1>1
  <2> QED BY <2>1, <2>2
<1>5. /\ DOMAIN cases' = DOMAIN cases \cup {Len(cases) + 1}
      /\ Len(cases') = Len(cases) + 1 /\ Len(cases) \in Nat
      /\ cases'[Len(cases) + 1] = row /\ \A i \in DOMAIN cases : cases'[i] = cases[i]
  BY <1>2, <1>3, <1>4
<1>6. PromotedLive'
  BY <1>4, <1>5 DEF PromotedLive, CasesInv
<1>7. /\ novelty'[w] = Unread
      /\ \A v \in Writers : v # w => writes'[v] = writes[v] /\ novelty'[v] = novelty[v]
  BY <1>2 DEF CasesInv, CasesTyped
<1>8. \A q : InHand(w, q) <=> q = c.query
  BY <1>1, <1>2 DEF InHand
<1>9. \A q : \A v \in Writers : InHand(v, q)' <=> v # w /\ InHand(v, q)
  BY <1>7 DEF InHand
<1>10. \A q : Promoted(q)' = Promoted(q) \/ (/\ q = c.query /\ new > 0
                                            /\ Promoted(q)' = Promoted(q) \cup {Len(cases) + 1})
  BY <1>4, <1>5 DEF Promoted
<1>11. \A v \in Writers : novelty'[v] # Unread => writes'[v] # <<>>
  BY <1>7 DEF CasesInv, NewIsNew
<1>12. ASSUME NEW q \in CaseQueries \ blind', NEW x \in Writers, InHand(x, q)'
       PROVE  /\ \A v \in Writers : InHand(v, q)' => v = x
              /\ novelty'[x] > 0 => LongAgo(q)'
  <2>1. InHand(x, q) /\ x # w
    BY <1>9, <1>12
  <2>2. q # c.query
    BY <1>2, <1>8, <2>1 DEF CasesInv, NewIsNew
  <2>3. novelty[x] > 0 => LongAgo(q)'
    <3>1. novelty[x] > 0 => LongAgo(q)
      BY <1>2, <2>1 DEF CasesInv, NewIsNew
    <3>2. \A i \in Promoted(q) : i \in Nat
      BY <1>3 DEF Promoted
    <3> QED BY <1>5, <1>10, <2>2, <3>1, <3>2, CasesAssumption DEF LongAgo
  <2> QED BY <1>2, <1>7, <1>9, <2>1, <2>3 DEF CasesInv, NewIsNew
<1>13. ASSUME NEW q \in CaseQueries \ blind', NEW i \in Promoted(q)', NEW j \in Promoted(q)', i < j
       PROVE  j - i > Recall
  <2>1. CASE Promoted(q)' = Promoted(q)
    BY <1>2, <1>13, <2>1 DEF CasesInv, NewIsNew
  <2>2. CASE q = c.query /\ new > 0 /\ Promoted(q)' = Promoted(q) \cup {Len(cases) + 1}
    <3>1. LongAgo(q)
      BY <1>1, <1>2, <1>8, <2>2 DEF CasesInv, NewIsNew
    <3>2. \A k \in Promoted(q) : k \in 1..Len(cases)
      BY <1>3 DEF Promoted
    <3>3. CASE j \in Promoted(q)
      <4>1. i \in Promoted(q)
        BY <1>3, <1>13, <2>2, <3>2, <3>3
      <4> QED BY <1>2, <1>13, <3>3, <4>1 DEF CasesInv, NewIsNew
    <3>4. CASE j = Len(cases) + 1
      <4>1. i \in Promoted(q) /\ Len(cases) \in Nat
        BY <1>3, <1>13, <2>2, <3>4
      <4> QED BY <3>1, <3>2, <3>4, <4>1, CasesAssumption DEF LongAgo
    <3> QED BY <1>13, <2>2, <3>3, <3>4
  <2> QED BY <1>10, <2>1, <2>2
<1> QED BY <1>6, <1>11, <1>12, <1>13 DEF NewIsNew

LEMMA CasesStep == CasesInv /\ [CasesNext]_casesVars => CasesInv'
<1> SUFFICES ASSUME CasesInv, [CasesNext]_casesVars PROVE CasesInv'
  OBVIOUS
<1>0. CasesTyped /\ PromotedLive /\ NewIsNew /\ RuleIsNew /\ CasesTyped'
  BY CasesTypedStep DEF CasesInv
<1>a. ASSUME cases' = cases
      PROVE  PromotedLive' /\ Len(cases') = Len(cases) /\ \A q : Promoted(q)' = Promoted(q)
  BY <1>0, <1>a DEF PromotedLive, Promoted
<1>b. ASSUME UNCHANGED <<rules, evolver, rivals>> PROVE RuleIsNew'
  BY <1>0, <1>b, StillDerived DEF Deriving
<1>c. ASSUME UNCHANGED <<writes, novelty, blind>>, Len(cases') = Len(cases),
             \A q : Promoted(q)' = Promoted(q)
      PROVE  NewIsNew'
  BY <1>0, <1>c, StillNew
<1>1. ASSUME NEW w \in Writers, Reflected(w) \/ Feedback(w) \/ WriteFails(w) PROVE CasesInv'
  <2>1. UNCHANGED <<cases, rules, evolver, blind, rivals>>
    BY <1>1 DEF Reflected, Feedback, WriteFails
  <2>2. \A v \in Writers : novelty'[v] # Unread => writes'[v] = writes[v] /\ novelty'[v] = novelty[v]
    <3>1. \A v \in Writers : v # w => writes'[v] = writes[v] /\ novelty'[v] = novelty[v]
      BY <1>0, <1>1 DEF Reflected, Feedback, WriteFails, CasesTyped
    <3>2. novelty'[w] = Unread
      BY <1>0, <1>1 DEF Reflected, Feedback, WriteFails, CasesTyped, NewIsNew
    <3> QED BY <3>1, <3>2
  <2>3. NewIsNew'
    BY <1>0, <1>a, <2>1, <2>2, StillNew
  <2> QED BY <1>0, <1>a, <1>b, <2>1, <2>3 DEF CasesInv
<1>2. ASSUME NEW w \in Writers, Look(w) PROVE CasesInv'
  <2>1. UNCHANGED <<cases, rules, evolver, rivals>>
    BY <1>2 DEF Look
  <2> QED BY <1>0, <1>2, <1>a, <1>b, <2>1, LookNew DEF CasesInv
<1>3. ASSUME NEW w \in Writers, InsertCase(w) PROVE CasesInv'
  <2>1. UNCHANGED <<rules, evolver, rivals>>
    BY <1>3 DEF InsertCase
  <2> QED BY <1>0, <1>3, <1>b, <2>1, InsertNew DEF CasesInv
<1>4. ASSUME NEW e \in Evolvers, CountCases(e) PROVE CasesInv'
  <2>1. \A d \in Evolvers, i \in Intents : Deriving(d, i)' => Deriving(d, i)
    BY <1>0, <1>4 DEF CountCases, Deriving, CasesTyped
  <2>2. UNCHANGED <<cases, writes, novelty, rules, blind, rivals>>
    BY <1>4 DEF CountCases
  <2> QED BY <1>0, <1>a, <1>c, <2>1, <2>2, StillDerived DEF CasesInv
<1>5. ASSUME NEW e \in Evolvers, ReadRules(e) PROVE CasesInv'
  <2>1. UNCHANGED <<cases, writes, novelty, rules, blind>>
    BY <1>5 DEF ReadRules
  <2>2. PICK new : new = {i \in evolver[e].found : rules[i] = 0}
    OBVIOUS
  <2>3. /\ evolver' = [evolver EXCEPT ![e] = [pc |-> "insert", found |-> new]]
        /\ rivals' = rivals \cup (new \cap UNION {evolver[d].found :
                        d \in {x \in Evolvers \ {e} : evolver[x].pc = "insert"}})
    BY <1>5, <2>2 DEF ReadRules
  <2>4. /\ \A i : Deriving(e, i)' <=> i \in new
        /\ \A i : \A d \in Evolvers : d # e => (Deriving(d, i)' <=> Deriving(d, i))
    BY <1>0, <2>3 DEF Deriving, CasesTyped
  <2>5. \A d \in Evolvers, i \in Intents : d # e /\ Deriving(d, i) /\ i \in new => i \in rivals'
    BY <2>3 DEF Deriving
  <2>6. \A i \in Intents \ rivals' : i \in Intents \ rivals
    BY <2>3
  <2>7. RuleIsNew'
    BY <1>0, <2>1, <2>2, <2>4, <2>5, <2>6 DEF RuleIsNew
  <2> QED BY <1>0, <1>a, <1>c, <2>1, <2>7 DEF CasesInv
<1>6. ASSUME NEW e \in Evolvers, InsertRules(e) PROVE CasesInv'
  <2>1. UNCHANGED <<cases, writes, novelty, blind, rivals>>
    BY <1>6 DEF InsertRules
  <2>2. /\ \A i \in Intents : rules'[i] = IF Deriving(e, i) THEN rules[i] + 1 ELSE rules[i]
        /\ \A i : ~Deriving(e, i)'
        /\ \A i : \A d \in Evolvers : d # e => (Deriving(d, i)' <=> Deriving(d, i))
    BY <1>0, <1>6 DEF InsertRules, Deriving, CasesTyped
  <2>3. RuleIsNew'
    <3> SUFFICES ASSUME NEW i \in Intents \ rivals
                 PROVE  /\ rules'[i] <= 1
                        /\ \A x \in Evolvers : Deriving(x, i)' =>
                              rules'[i] = 0 /\ \A d \in Evolvers : Deriving(d, i)' => d = x
      BY <2>1 DEF RuleIsNew
    <3>1. rules[i] \in Nat /\ rules[i] <= 1
      BY <1>0 DEF CasesTyped, RuleIsNew
    <3>2. CASE Deriving(e, i)
      <4>1. rules[i] = 0 /\ \A d \in Evolvers : ~Deriving(d, i)'
        BY <1>0, <2>2, <3>2 DEF RuleIsNew
      <4> QED BY <2>2, <3>2, <4>1
    <3>3. CASE ~Deriving(e, i)
      <4>1. rules'[i] = rules[i] /\ \A d \in Evolvers : Deriving(d, i)' => Deriving(d, i)
        BY <2>2, <3>3
      <4> QED BY <1>0, <3>1, <4>1 DEF RuleIsNew
    <3> QED BY <3>2, <3>3
  <2> QED BY <1>0, <1>a, <1>c, <2>1, <2>3 DEF CasesInv
<1>7. ASSUME NEW e \in Evolvers, DecayCases(e) PROVE CasesInv'
  <2>1. UNCHANGED <<writes, novelty, rules, blind, rivals>>
    BY <1>7 DEF DecayCases
  <2>2. /\ DOMAIN cases' = DOMAIN cases
        /\ \A i \in DOMAIN cases :
              /\ cases'[i].query = cases[i].query /\ cases'[i].promoted = cases[i].promoted
              /\ cases'[i].importance = cases[i].importance
              /\ cases'[i].archived => cases[i].archived \/ cases[i].importance < 600
    <3>1. \A i \in DOMAIN cases : cases[i] \in Written
      BY <1>0 DEF CasesTyped
    <3>2. \A i \in DOMAIN cases :
             cases'[i] = IF cases[i].old /\ cases[i].importance < 600
                         THEN [cases[i] EXCEPT !.archived = TRUE] ELSE cases[i]
      BY <1>7 DEF DecayCases
    <3>3. DOMAIN cases' = DOMAIN cases
      BY <1>7 DEF DecayCases
    <3> QED BY <3>1, <3>2, <3>3 DEF Written
  <2>3. PromotedLive'
    <3>1. \A i \in DOMAIN cases : cases[i].importance \in Int
      <4>1. \A i \in DOMAIN cases : cases[i] \in Written
        BY <1>0 DEF CasesTyped
      <4> QED BY <4>1 DEF Written
    <3>2. \A i \in DOMAIN cases : cases[i].importance >= 1400 => ~(cases[i].importance < 600)
      BY <3>1
    <3>3. ASSUME NEW i \in DOMAIN cases, cases'[i].promoted
          PROVE  cases'[i].importance >= 1400 /\ ~cases'[i].archived
      <4>1. cases[i].promoted /\ cases'[i].importance = cases[i].importance
        BY <2>2, <3>3
      <4>2. cases[i].importance >= 1400 /\ ~cases[i].archived
        BY <1>0, <4>1 DEF PromotedLive
      <4> QED BY <2>2, <3>2, <4>1, <4>2
    <3> QED BY <2>2, <3>3 DEF PromotedLive
  <2>4. Len(cases') = Len(cases) /\ \A q : Promoted(q)' = Promoted(q)
    BY <1>0, <2>2 DEF Promoted, CasesTyped
  <2>5. \A d \in Evolvers, i \in Intents : Deriving(d, i)' => Deriving(d, i)
    BY <1>0, <1>7 DEF DecayCases, Deriving, CasesTyped
  <2> QED BY <1>0, <1>c, <2>1, <2>3, <2>4, <2>5, StillDerived DEF CasesInv
<1>8. ASSUME Month PROVE CasesInv'
  <2>1. UNCHANGED <<writes, novelty, rules, evolver, blind, rivals>>
    BY <1>8 DEF Month
  <2>2. /\ DOMAIN cases' = DOMAIN cases
        /\ \A i \in DOMAIN cases :
              /\ cases'[i].query = cases[i].query /\ cases'[i].promoted = cases[i].promoted
              /\ cases'[i].importance = cases[i].importance
              /\ cases'[i].archived = cases[i].archived
    <3>1. \A i \in DOMAIN cases : cases[i] \in Written
      BY <1>0 DEF CasesTyped
    <3>2. \A i \in DOMAIN cases : cases'[i] = [cases[i] EXCEPT !.old = TRUE]
      BY <1>8 DEF Month
    <3>3. DOMAIN cases' = DOMAIN cases
      BY <1>8 DEF Month
    <3> QED BY <3>1, <3>2, <3>3 DEF Written
  <2>3. PromotedLive'
    BY <1>0, <2>2 DEF PromotedLive
  <2>4. Len(cases') = Len(cases) /\ \A q : Promoted(q)' = Promoted(q)
    BY <1>0, <2>2 DEF Promoted, CasesTyped
  <2> QED BY <1>0, <1>b, <1>c, <2>1, <2>3, <2>4 DEF CasesInv
<1>9. CASE UNCHANGED casesVars
  BY <1>0, <1>9, <1>a, <1>b, <1>c DEF casesVars, CasesInv
<1> QED
  BY <1>1, <1>2, <1>3, <1>4, <1>5, <1>6, <1>7, <1>8, <1>9 DEF CasesNext

(* A query that was promoted to a learned case is promoted again only      *)
(* after more than Recall further cases, and an intent has one rule        *)
(* (write, consolidate), for any number of threads and jobs, unless two    *)
(* threads had looked at the same rows before either wrote.                *)
THEOREM PromotedOnce == CasesSpec => []LearnedOnce
<1>1. CasesInv => LearnedOnce
  <2> SUFFICES ASSUME CasesInv PROVE LearnedOnce
    OBVIOUS
  <2>1. \A q \in CaseQueries \ blind : \A i, j \in Promoted(q) : i < j => j - i > Recall
    BY DEF CasesInv, NewIsNew
  <2>2. DOMAIN rules = Intents
    BY DEF CasesInv, CasesTyped
  <2> QED BY <2>1, <2>2 DEF LearnedOnce, Promoted, CasesInv, RuleIsNew
<1> QED BY <1>1, CasesStart, CasesStep, PTL DEF CasesSpec
==============================================================================
