---------------------------- MODULE Tools_proofs ------------------------------
(***************************************************************************)
(* Proofs about the tools of the agents: the file tools (FileTools), the   *)
(* development log (ToolNotes), and what the agents that reconcile leave   *)
(* in their files (ReconAgent), for any callers and bounds.                *)
(***************************************************************************)
EXTENDS FileTools, ToolNotes, ReconAgent, Reconciliation, FiniteSetTheorems,
        WellFoundedInduction, TLAPS

(* Files.  Callers interleave within their calls, so what a call has seen  *)
(* stays true for one that is alone.                                       *)
Times == {Unknown} \cup 0..MaxClock
Seen == {Unknown} \cup Versions

Call ==
    [tool : {"none", "Read", "Write", "Edit"},
     pc : {"idle", "stat", "load", "backup", "open", "fill", "replace"},
     seen : Seen, fd : {0} \cup Inodes, alone : BOOLEAN]

FilesTyped ==
    /\ inode \in [Inodes -> [version : Versions, mtime : Times]]
    /\ file \in Inodes /\ temp \in {0} \cup Inodes
    /\ backups \in [0..(MaxClock \div Second) -> {Unknown} \cup Versions]
    /\ cached \in Times
    /\ known \in [Callers -> [version : Seen, mtime : Times]]
    /\ op \in [Callers -> Call]
    /\ clock \in 0..MaxClock /\ writes \in 0..MaxWrites
    /\ made \in [Versions -> Nat] /\ whole \in Versions \ {Torn}
    /\ last \in [seen : Versions, replaced : Versions]
    /\ mixed \in BOOLEAN

(* Where a call of each tool can be.                                       *)
Shape(call) ==
    /\ call.pc = "idle" <=> call.tool = "none"
    /\ call.pc = "idle" => call.seen = Unknown
    /\ call.pc = "stat" <=> call.tool = "Read"
    /\ call.pc = "load" => call.tool = "Edit"
    /\ call.pc = "replace" => call.tool = "Write"
    /\ call.pc = "fill" => call.fd # 0

AloneIsAlone ==
    \A c, d \in Callers : op[c].pc # "idle" /\ op[c].alone /\ d # c => op[d].pc = "idle"

(* Versions are numbered in the order of their writing.                    *)
Old(v) == v <= writes + 1

AllOld ==
    /\ \A i \in Inodes : Old(inode[i].version)
    /\ \A c \in Callers : Old(known[c].version) /\ Old(op[c].seen)
    /\ Old(last.seen) /\ Old(last.replaced)

Stamped ==
    /\ \A i \in Inodes : inode[i].version # Torn => made[inode[i].version] = inode[i].mtime
    /\ \A c \in Callers : known[c].version \notin {Unknown, Torn} =>
          made[known[c].version] = known[c].mtime
    /\ inode[file].mtime # Unknown /\ temp # file
    /\ temp # 0 => inode[temp].mtime # Unknown

(* What a call takes to be in the file is there, or is of the same time.   *)
Undisturbed(c) ==
    /\ op[c].seen # Unknown =>
          /\ op[c].alone
          /\ op[c].tool \in {"Read", "Edit"} /\ op[c].pc # "fill" =>
                op[c].seen = inode[file].version
          /\ op[c].tool = "Write" =>
                op[c].seen = Torn \/ made[op[c].seen] = inode[file].mtime
    /\ op[c].alone /\ op[c].tool = "Write" /\ op[c].pc \in {"fill", "replace"} =>
          temp # 0 /\ op[c].fd = temp

LockInv ==
    /\ FilesTyped /\ (\A c \in Callers : Shape(op[c])) /\ AloneIsAlone
    /\ AllOld /\ Stamped /\ (\A c \in Callers : Undisturbed(c))
    /\ LostOnlyInParallel

(* Without overlapping writers: what is in the file, and where the writer  *)
(* is.                                                                     *)
OneWriter == \A c, d \in Callers : Writing(c) /\ Writing(d) => c = d

Progress(c) ==
    /\ op[c].tool = "Edit" /\ op[c].pc = "open" =>
          \E s \in DOMAIN backups : backups[s] = inode[file].version
    /\ op[c].tool = "Edit" /\ op[c].pc = "fill" =>
          op[c].fd = file /\ inode[file].version = Torn
    /\ op[c].tool = "Write" /\ op[c].pc = "fill" =>
          temp # 0 /\ op[c].fd = temp /\ inode[temp].version = Torn
    /\ op[c].pc = "replace" => temp # 0 /\ inode[temp].version # Torn

RecoverInv ==
    ~mixed =>
       /\ OneWriter /\ \A c \in Callers : Progress(c)
       /\ inode[file].version # Torn => whole = inode[file].version
       /\ Recoverable

LEMMA CallsTyped ==
    ASSUME FilesTyped
    PROVE  /\ NoOp \in Call
           /\ \A c \in Callers : op[c] \in Call
           /\ \A c \in Callers : known[c] \in [version : Seen, mtime : Times]
           /\ \A i \in Inodes : inode[i] \in [version : Versions, mtime : Times]
<1>1. NoOp \in Call
  BY FileAssumption DEF NoOp, Call, Times, Seen, Versions
<1> QED BY <1>1 DEF FilesTyped

(* A call that begins: either it is undisturbed and disturbs nobody, or    *)
(* all that are under way no longer know what the file has.                *)
LEMMA Begun ==
    ASSUME FilesTyped, NEW c \in Callers, NEW call \in Call, BeginCall(c, call)
    PROVE  /\ op' \in [Callers -> Call]
           /\ op'[c].tool = call.tool /\ op'[c].pc = call.pc /\ op'[c].fd = call.fd
           /\ \/ op'[c] = call /\ \A e \in Callers \ {c} : op[e].pc = "idle"
              \/ op'[c].seen = Unknown /\ ~op'[c].alone
           /\ \A d \in Callers \ {c} :
                 /\ op'[d].tool = op[d].tool /\ op'[d].pc = op[d].pc
                 /\ op'[d].fd = op[d].fd
                 /\ \/ op[d].pc = "idle" /\ op'[d] = op[d]
                    \/ op'[d].seen = Unknown /\ ~op'[d].alone
<1>1. \A d \in Callers : op'[d] =
         IF d = c
         THEN IF \E e \in Callers \ {c} : op[e].pc # "idle" THEN Interrupted(call) ELSE call
         ELSE IF op[d].pc # "idle" THEN Interrupted(op[d]) ELSE op[d]
  BY DEF BeginCall
<1>2. \A k \in Call :
         /\ Interrupted(k) \in Call
         /\ Interrupted(k).tool = k.tool /\ Interrupted(k).pc = k.pc /\ Interrupted(k).fd = k.fd
         /\ Interrupted(k).seen = Unknown /\ ~Interrupted(k).alone
  BY DEF Call, Interrupted, Seen
<1>3. /\ op'[c] \in Call
      /\ op'[c].tool = call.tool /\ op'[c].pc = call.pc /\ op'[c].fd = call.fd
      /\ \/ op'[c] = call /\ \A e \in Callers \ {c} : op[e].pc = "idle"
         \/ op'[c].seen = Unknown /\ ~op'[c].alone
  BY <1>1, <1>2
<1>4. \A d \in Callers \ {c} :
         /\ op'[d] \in Call
         /\ op'[d].tool = op[d].tool /\ op'[d].pc = op[d].pc
         /\ op'[d].fd = op[d].fd
         /\ \/ op[d].pc = "idle" /\ op'[d] = op[d]
            \/ op'[d].seen = Unknown /\ ~op'[d].alone
  <2> TAKE d \in Callers \ {c}
  <2>1. op[d] \in Call
    BY CallsTyped
  <2>2. CASE op[d].pc = "idle"
    BY <1>1, <2>1, <2>2
  <2>3. CASE op[d].pc # "idle"
    BY <1>1, <1>2, <2>1, <2>3
  <2> QED BY <2>2, <2>3
<1>5. op' \in [Callers -> Call]
  <2>1. \A d \in Callers : op'[d] \in Call
    BY <1>3, <1>4
  <2>2. DOMAIN op' = Callers /\ op' = [d \in Callers |-> op'[d]]
    BY DEF BeginCall
  <2> QED BY <2>1, <2>2
<1> QED BY <1>3, <1>4, <1>5

(* A call that goes on or ends; the others stay where they are.            *)
LEMMA Moved ==
    ASSUME FilesTyped, NEW c \in Callers, NEW n \in Call, op' = [op EXCEPT ![c] = n]
    PROVE  op' \in [Callers -> Call] /\ op'[c] = n /\ \A d \in Callers \ {c} : op'[d] = op[d]
BY DEF FilesTyped

LEMMA Continued ==
    ASSUME FilesTyped, NEW c \in Callers,
           NEW pc \in {"idle", "stat", "load", "backup", "open", "fill", "replace"},
           NEW n, n = [op[c] EXCEPT !.pc = pc]
    PROVE  /\ n \in Call /\ n.pc = pc /\ n.tool = op[c].tool
           /\ n.seen = op[c].seen /\ n.fd = op[c].fd /\ n.alone = op[c].alone
<1>1. op[c] \in Call
  BY CallsTyped
<1> QED BY <1>1 DEF Call

LEMMA PutTyped ==
    ASSUME FilesTyped, NEW i \in Inodes, NEW v \in Versions, inode' = Put(i, v)
    PROVE  /\ inode' \in [Inodes -> [version : Versions, mtime : Times]]
           /\ inode'[i].version = v /\ inode'[i].mtime = clock
           /\ \A j \in Inodes \ {i} : inode'[j] = inode[j]
BY DEF FilesTyped, Put, Times

(* What the steps of the calls leave alone or set.                         *)
LEMMA OpenIsFresh ==
    ASSUME LockInv, NEW c \in Callers, WriteOpen(c)
    PROVE  \E i \in Inodes :
             /\ i # file /\ temp' = i /\ inode' = Put(i, Torn)
             /\ op' = [op EXCEPT ![c] = [op[c] EXCEPT !.fd = i, !.pc = "fill"]]
<1>1. PICK i : i = IF temp # 0 THEN temp ELSE CHOOSE j \in Fresh : TRUE
  OBVIOUS
<1>2. /\ temp' = i /\ inode' = Put(i, Torn) /\ op' = [op EXCEPT ![c].fd = i, ![c].pc = "fill"]
      /\ temp = 0 => Fresh # {}
  BY <1>1 DEF WriteOpen
<1>3. i \in Inodes /\ i # file
  <2>1. CASE temp # 0
    BY <1>1, <2>1 DEF LockInv, FilesTyped, Stamped
  <2>2. CASE temp = 0
    <3>1. i \in Fresh
      BY <1>1, <1>2, <2>2
    <3> QED BY <3>1 DEF Fresh, LockInv, Stamped
  <2> QED BY <2>1, <2>2
<1>4. op' = [op EXCEPT ![c] = [op[c] EXCEPT !.fd = i, !.pc = "fill"]]
  BY <1>2 DEF LockInv, FilesTyped, Call
<1> QED BY <1>2, <1>3, <1>4

(* A call that begins while the files stay as they are.                    *)
LEMMA BeginKeeps ==
    ASSUME LockInv, NEW c \in Callers, op[c].pc = "idle", NEW call \in Call,
           BeginCall(c, call), UNCHANGED <<inode, file, temp, made>>,
           Shape(call), call.pc \in {"stat", "load", "backup"}, call.alone,
           call.tool = "Read" => call.seen = inode[file].version,
           call.tool = "Edit" => call.seen = Unknown,
           call.tool = "Write" =>
              call.seen \in {Unknown, Torn} \/ made[call.seen] = inode[file].mtime
    PROVE  /\ \A d \in Callers : Shape(op'[d])
           /\ AloneIsAlone' /\ (\A d \in Callers : Undisturbed(d))'
<1>1. PICK o : o = op'
  OBVIOUS
<1>2. /\ o[c].tool = call.tool /\ o[c].pc = call.pc /\ o[c].fd = call.fd
      /\ \/ o[c] = call /\ \A e \in Callers \ {c} : op[e].pc = "idle"
         \/ o[c].seen = Unknown /\ ~o[c].alone
  BY <1>1, Begun DEF LockInv
<1>3. \A d \in Callers \ {c} :
         /\ o[d].tool = op[d].tool /\ o[d].pc = op[d].pc /\ o[d].fd = op[d].fd
         /\ \/ op[d].pc = "idle" /\ o[d] = op[d]
            \/ o[d].seen = Unknown /\ ~o[d].alone
  BY <1>1, Begun DEF LockInv
<1>4. \A d \in Callers : Shape(o[d])
  BY <1>2, <1>3 DEF Shape, LockInv
<1>5. AloneIsAlone'
  <2> SUFFICES ASSUME NEW x \in Callers, NEW d \in Callers, o[x].pc # "idle", o[x].alone, d # x
               PROVE  o[d].pc = "idle"
    BY <1>1 DEF AloneIsAlone
  <2>1. x = c
    BY <1>3
  <2> QED BY <1>2, <1>3, <2>1
<1>6. (\A d \in Callers : Undisturbed(d))'
  <2> SUFFICES ASSUME NEW d \in Callers PROVE Undisturbed(d)'
    OBVIOUS
  <2>1. CASE d = c
    BY <1>1, <1>2, <2>1 DEF Undisturbed
  <2>2. CASE d # c
    <3>1. o[d].seen = Unknown /\ (o[d].alone => o[d].tool = "none")
      BY <1>3, <1>4, <2>2 DEF Shape
    <3> QED BY <1>1, <3>1 DEF Undisturbed
  <2> QED BY <2>1, <2>2
<1> QED BY <1>1, <1>4, <1>5, <1>6

(* A call that goes on or ends.                                            *)
LEMMA MoveKeeps ==
    ASSUME LockInv, NEW c \in Callers, op[c].pc # "idle", NEW n \in Call,
           op' = [op EXCEPT ![c] = n],
           Shape(n), n.pc # "idle" => n.alone = op[c].alone, Undisturbed(c)'
    PROVE  /\ \A d \in Callers : Shape(op'[d])
           /\ AloneIsAlone' /\ (\A d \in Callers : Undisturbed(d))'
<1>1. PICK o : o = op'
  OBVIOUS
<1>2. o[c] = n /\ \A d \in Callers \ {c} : o[d] = op[d]
  BY <1>1, Moved DEF LockInv
<1>3. \A d \in Callers : Shape(o[d])
  BY <1>2 DEF LockInv
<1>4. \A d \in Callers \ {c} : op[d].pc = "idle" \/ ~op[d].alone
  BY DEF LockInv, AloneIsAlone
<1>5. AloneIsAlone'
  <2> SUFFICES ASSUME NEW x \in Callers, NEW d \in Callers, o[x].pc # "idle", o[x].alone, d # x
               PROVE  o[d].pc = "idle"
    BY <1>1 DEF AloneIsAlone
  <2>1. x = c
    BY <1>2, <1>4
  <2> QED BY <1>2, <2>1 DEF LockInv, AloneIsAlone
<1>6. \A d \in Callers \ {c} : o[d].seen = Unknown /\ (o[d].alone => o[d].tool = "none")
  BY <1>2, <1>3, <1>4 DEF Shape, LockInv, Undisturbed
<1>7. (\A d \in Callers : Undisturbed(d))'
  <2> SUFFICES ASSUME NEW d \in Callers \ {c} PROVE Undisturbed(d)'
    OBVIOUS
  <2> QED BY <1>1, <1>6 DEF Undisturbed
<1> QED BY <1>1, <1>3, <1>5, <1>7

LEMMA ReadMade ==
    ASSUME NEW v \in Versions,
           NEW k, k = [NoOp EXCEPT !.tool = "Read", !.pc = "stat", !.seen = v]
    PROVE  k \in Call /\ k.tool = "Read" /\ k.seen = v /\ k.pc = "stat" /\ k.alone
BY DEF NoOp, Call, Times, Seen

LEMMA Idle == NoOp.pc = "idle" /\ NoOp.tool = "none" /\ NoOp.seen = Unknown /\ Shape(NoOp)
BY DEF NoOp, Shape

(* Versions written already.                                               *)
LEMMA NothingIsOld == LockInv => Old(0) /\ Old(Unknown) /\ Old(Torn)
BY DEF LockInv, FilesTyped, Old, Torn, Unknown

(* Nothing is written or replaced, though an inode may be torn.            *)
LEMMA NothingWritten ==
    ASSUME LockInv, UNCHANGED <<file, temp, made, writes, known>>,
           last' \in {last, NoReplacement},
           \A j \in Inodes : \/ inode'[j] = inode[j]
                             \/ inode'[j].version = Torn /\ inode'[j].mtime # Unknown,
           \A d \in Callers : Old(op'[d].seen)
    PROVE  AllOld' /\ Stamped' /\ LostOnlyInParallel'
<1>1. AllOld'
  BY NothingIsOld DEF LockInv, AllOld, Old, NoReplacement
<1>2. Stamped'
  <2>1. file \in Inodes /\ (temp # 0 => temp \in Inodes)
    BY DEF LockInv, FilesTyped
  <2> QED BY <2>1 DEF LockInv, Stamped
<1>3. LostOnlyInParallel'
  BY DEF LockInv, LostOnlyInParallel, NoReplacement, Torn
<1> QED BY <1>1, <1>2, <1>3

LEMMA FilesStart == FilesInit => LockInv
<1> SUFFICES ASSUME FilesInit PROVE LockInv
  OBVIOUS
<1>1. FilesTyped
  <2>1. NoOp \in Call /\ 1 \in Inodes /\ {0, 1} \subseteq Versions
    BY FileAssumption DEF NoOp, Call, Times, Seen, Versions, Inodes
  <2>2. inode \in [Inodes -> [version : Versions, mtime : Times]]
    BY <2>1, FileAssumption DEF FilesInit, Times, Torn
  <2>3. known \in [Callers -> [version : Seen, mtime : Times]]
    BY <2>1 DEF FilesInit, NothingKnown, Times, Seen
  <2>4. last \in [seen : Versions, replaced : Versions]
    BY <2>1 DEF FilesInit, NoReplacement
  <2>5. op \in [Callers -> Call]
    BY <2>1 DEF FilesInit
  <2>6. /\ backups \in [0..(MaxClock \div Second) -> {Unknown} \cup Versions]
        /\ made \in [Versions -> Nat]
    BY DEF FilesInit
  <2>7. file \in Inodes /\ temp \in {0} \cup Inodes /\ cached \in Times
    BY <2>1 DEF FilesInit, Times
  <2>8. clock \in 0..MaxClock /\ writes \in 0..MaxWrites
    BY FileAssumption DEF FilesInit
  <2>9. whole \in Versions \ {Torn}
    BY <2>1 DEF FilesInit, Torn
  <2>10. mixed \in BOOLEAN
    BY DEF FilesInit
  <2> QED BY <2>2, <2>3, <2>4, <2>5, <2>6, <2>7, <2>8, <2>9, <2>10 DEF FilesTyped
<1>2. \A c \in Callers : op[c] = NoOp /\ known[c] = NothingKnown
  BY DEF FilesInit
<1>3. (\A c \in Callers : Shape(op[c])) /\ AloneIsAlone /\ \A c \in Callers : Undisturbed(c)
  BY <1>2, Idle DEF AloneIsAlone, Undisturbed
<1>4. AllOld
  BY <1>2, Idle DEF FilesInit, AllOld, Old, NothingKnown, NoReplacement, Torn, Unknown
<1>5. Stamped
  <2>1. 1 \in Inodes /\ 1 \in Versions
    BY FileAssumption DEF Versions, Inodes
  <2> QED BY <1>2, <2>1 DEF FilesInit, Stamped, NothingKnown, Torn, Unknown
<1>6. LostOnlyInParallel
  BY DEF FilesInit, LostOnlyInParallel, NoReplacement, Torn
<1> QED BY <1>1, <1>3, <1>4, <1>5, <1>6 DEF LockInv

(* Reading and checking the lock.                                          *)
LEMMA ReadLock == ASSUME LockInv, NEW c \in Callers, ReadContent(c) PROVE LockInv'
<1>1. PICK v, k : v = inode[file].version
                  /\ k = [NoOp EXCEPT !.tool = "Read", !.pc = "stat", !.seen = v]
  OBVIOUS
<1>2. /\ op[c].pc = "idle" /\ BeginCall(c, k) /\ FilesSame
      /\ UNCHANGED <<cached, known, clock, faults>> /\ last' = NoReplacement
  BY <1>1 DEF ReadContent, BeginCall
<1>3. v \in Versions /\ Old(v)
  BY <1>1 DEF LockInv, FilesTyped, AllOld
<1>4. k \in Call /\ k.tool = "Read" /\ k.seen = v /\ k.pc = "stat" /\ k.alone
  BY <1>1, <1>3, ReadMade
<1>5. Shape(k)
  BY <1>4 DEF Shape
<1>6. /\ \A d \in Callers : Shape(op'[d])
      /\ AloneIsAlone' /\ (\A d \in Callers : Undisturbed(d))'
  BY <1>1, <1>2, <1>4, <1>5, BeginKeeps DEF FilesSame
<1>7. op' \in [Callers -> Call] /\ \A d \in Callers : op'[d].seen \in {v, op[d].seen, Unknown}
  BY <1>2, <1>4, Begun DEF LockInv
<1>8. AllOld' /\ Stamped' /\ LostOnlyInParallel'
  <2>1. \A d \in Callers : Old(op'[d].seen)
    BY <1>3, <1>7, NothingIsOld DEF LockInv, AllOld
  <2> QED BY <1>2, <2>1, NothingWritten DEF FilesSame
<1>9. FilesTyped'
  <2>1. mixed' \in BOOLEAN /\ last' \in [seen : Versions, replaced : Versions]
    BY <1>2, FileAssumption DEF BeginCall, NoReplacement, Versions
  <2> QED BY <1>2, <1>7, <2>1 DEF LockInv, FilesTyped, FilesSame
<1> QED BY <1>6, <1>8, <1>9 DEF LockInv

(* The call that Check begins.                                             *)
LEMMA CheckMade ==
    ASSUME LockInv, NEW c \in Callers, NEW tool \in {"Write", "Edit"}, Check(c, tool)
    PROVE  \E v \in Seen, k \in Call :
             /\ op[c].pc = "idle" /\ FilesSame /\ BeginCall(c, k)
             /\ UNCHANGED <<cached, known, clock, faults>>
             /\ k.tool = tool /\ k.seen = v /\ k.alone
             /\ k.pc = IF tool = "Edit" THEN "load" ELSE "backup"
             /\ v # Unknown => /\ tool = "Write" /\ v = known[c].version
                               /\ inode[file].mtime = known[c].mtime
<1>1. PICK held \in Locks(c) : Passes(held) /\
         BeginCall(c, [NoOp EXCEPT !.tool = tool,
                !.pc = IF tool = "Edit" THEN "load" ELSE "backup",
                !.seen = IF tool = "Write" /\ held # Unknown /\ held = known[c].mtime
                         THEN known[c].version ELSE Unknown])
  BY DEF Check
<1>2. PICK v, pc, k :
         /\ v = (IF tool = "Write" /\ held # Unknown /\ held = known[c].mtime
                 THEN known[c].version ELSE Unknown)
         /\ pc = (IF tool = "Edit" THEN "load" ELSE "backup")
         /\ k = [NoOp EXCEPT !.tool = tool, !.pc = pc, !.seen = v]
  OBVIOUS
<1>3. /\ op[c].pc = "idle" /\ FilesSame /\ BeginCall(c, k)
      /\ UNCHANGED <<cached, known, clock, faults>>
  BY <1>1, <1>2 DEF Check
<1>4. v \in Seen /\ pc \in {"load", "backup"}
  <2>1. known[c].version \in Seen
    BY CallsTyped DEF LockInv
  <2> QED BY <1>2, <2>1 DEF Seen
<1>5. k \in Call /\ k.tool = tool /\ k.seen = v /\ k.pc = pc /\ k.alone
  <2>1. k = [NoOp EXCEPT !.tool = tool, !.pc = pc, !.seen = v]
    BY <1>2
  <2>2. tool \in {"Write", "Edit"} /\ v \in Seen /\ pc \in {"load", "backup"}
    BY <1>4
  <2> QED BY <2>1, <2>2 DEF NoOp, Call
<1>6. v # Unknown => /\ tool = "Write" /\ v = known[c].version
                     /\ inode[file].mtime = known[c].mtime
  BY <1>1, <1>2 DEF Passes
<1> QED BY <1>2, <1>3, <1>4, <1>5, <1>6

LEMMA CheckLock ==
    ASSUME LockInv, NEW c \in Callers, NEW tool \in {"Write", "Edit"}, Check(c, tool)
    PROVE  LockInv'
<1>1. PICK v \in Seen, k \in Call :
        /\ op[c].pc = "idle" /\ FilesSame /\ BeginCall(c, k)
        /\ UNCHANGED <<cached, known, clock, faults>>
        /\ k.tool = tool /\ k.seen = v /\ k.alone
        /\ k.pc = IF tool = "Edit" THEN "load" ELSE "backup"
        /\ v # Unknown => /\ tool = "Write" /\ v = known[c].version
                          /\ inode[file].mtime = known[c].mtime
  BY CheckMade
<1>2. v \in {Unknown, Torn} \/ made[v] = inode[file].mtime
  BY <1>1 DEF LockInv, Stamped
<1>3. Shape(k) /\ k.pc \in {"load", "backup"}
  BY <1>1 DEF Shape
<1>4. /\ \A d \in Callers : Shape(op'[d])
      /\ AloneIsAlone' /\ (\A d \in Callers : Undisturbed(d))'
  BY <1>1, <1>2, <1>3, BeginKeeps DEF FilesSame
<1>5. op' \in [Callers -> Call] /\ \A d \in Callers : op'[d].seen \in {v, op[d].seen, Unknown}
  BY <1>1, Begun DEF LockInv
<1>6. last' = NoReplacement /\ mixed' \in BOOLEAN
  BY <1>1 DEF BeginCall
<1>7. AllOld' /\ Stamped' /\ LostOnlyInParallel'
  <2>1. Old(v)
    BY <1>1, NothingIsOld DEF LockInv, AllOld
  <2>2. \A d \in Callers : Old(op'[d].seen)
    BY <1>5, <2>1, NothingIsOld DEF LockInv, AllOld
  <2> QED BY <1>1, <1>6, <2>2, NothingWritten DEF FilesSame
<1>8. FilesTyped'
  <2>1. last' \in [seen : Versions, replaced : Versions]
    BY <1>6, FileAssumption DEF NoReplacement, Versions
  <2> QED BY <1>1, <1>5, <1>6, <2>1 DEF LockInv, FilesTyped, FilesSame
<1> QED BY <1>4, <1>7, <1>8 DEF LockInv

(* A call that ends without having written, or by failing to.              *)
LEMMA EndLock ==
    ASSUME LockInv, NEW c \in Callers, op[c].pc # "idle", op' = [op EXCEPT ![c] = NoOp],
           UNCHANGED <<file, temp, writes, made, whole, cached, known, clock, last, mixed>>,
           inode' = inode \/ \E i \in Inodes : inode' = Put(i, Torn),
           backups' \in [0..(MaxClock \div Second) -> {Unknown} \cup Versions]
    PROVE  LockInv'
<1>1. NoOp \in Call
  BY CallsTyped DEF LockInv
<1>2. op' \in [Callers -> Call] /\ op'[c] = NoOp /\ \A d \in Callers \ {c} : op'[d] = op[d]
  BY <1>1, Moved DEF LockInv
<1>3. Undisturbed(c)'
  BY <1>2, Idle DEF Undisturbed
<1>4. /\ \A d \in Callers : Shape(op'[d])
      /\ AloneIsAlone' /\ (\A d \in Callers : Undisturbed(d))'
  BY <1>1, <1>3, Idle, MoveKeeps
<1>5. \A d \in Callers : Old(op'[d].seen)
  BY <1>2, Idle, NothingIsOld DEF LockInv, AllOld
<1>6. /\ inode' \in [Inodes -> [version : Versions, mtime : Times]]
      /\ \A j \in Inodes : \/ inode'[j] = inode[j]
                           \/ inode'[j].version = Torn /\ inode'[j].mtime # Unknown
  <2>1. CASE inode' = inode
    BY <2>1 DEF LockInv, FilesTyped
  <2>2. ASSUME NEW i \in Inodes, inode' = Put(i, Torn) PROVE <1>6!1 /\ <1>6!2
    <3>1. Torn \in Versions /\ clock # Unknown
      BY FileAssumption DEF Torn, Versions, LockInv, FilesTyped, Unknown
    <3> QED BY <2>2, <3>1, PutTyped DEF LockInv
  <2> QED BY <2>1, <2>2
<1>7. FilesTyped'
  BY <1>2, <1>6 DEF LockInv, FilesTyped
<1>8. AllOld' /\ Stamped' /\ LostOnlyInParallel'
  BY <1>5, <1>6, NothingWritten
<1> QED BY <1>4, <1>7, <1>8 DEF LockInv

LEMMA StatLock == ASSUME LockInv, NEW c \in Callers, ReadStat(c) PROVE LockInv'
<1>1. /\ op[c].tool = "Read" /\ op[c].pc = "stat" /\ op' = [op EXCEPT ![c] = NoOp]
      /\ cached' = inode[file].mtime
      /\ UNCHANGED <<inode, file, temp, backups, writes, made, whole, clock, last, mixed>>
  BY DEF ReadStat, End, FilesSame
<1>2. PICK k : k = [version |-> op[c].seen, mtime |-> inode[file].mtime]
  OBVIOUS
<1>3. known' = [known EXCEPT ![c] = k]
  BY <1>2 DEF ReadStat
<1>4. /\ k \in [version : Seen, mtime : Times]
      /\ k.version = op[c].seen /\ k.mtime = inode[file].mtime
  <2>1. op[c] \in Call /\ inode[file] \in [version : Versions, mtime : Times]
    BY CallsTyped DEF LockInv, FilesTyped
  <2> QED BY <1>2, <2>1 DEF Call
<1>5. NoOp \in Call
  BY CallsTyped DEF LockInv
<1>6. op' \in [Callers -> Call] /\ op'[c] = NoOp /\ \A d \in Callers \ {c} : op'[d] = op[d]
  BY <1>1, <1>5, Moved DEF LockInv
<1>7. known'[c] = k /\ \A d \in Callers \ {c} : known'[d] = known[d]
  BY <1>3 DEF LockInv, FilesTyped
<1>8. /\ \A d \in Callers : Shape(op'[d])
      /\ AloneIsAlone' /\ (\A d \in Callers : Undisturbed(d))'
  <2>1. Undisturbed(c)'
    BY <1>6, Idle DEF Undisturbed
  <2> QED BY <1>1, <1>5, <2>1, Idle, MoveKeeps
<1>9. AllOld'
  <2>1. \A d \in Callers : Old(known'[d].version) /\ Old(op'[d].seen)
    BY <1>4, <1>6, <1>7, Idle, NothingIsOld DEF LockInv, AllOld
  <2> QED BY <1>1, <2>1 DEF LockInv, AllOld, Old
<1>10. Stamped'
  <2>1. k.version \notin {Unknown, Torn} => made[k.version] = k.mtime
    <3>1. op[c].seen # Unknown => op[c].seen = inode[file].version
      BY <1>1 DEF LockInv, Undisturbed
    <3>2. inode[file].version # Torn => made[inode[file].version] = inode[file].mtime
      BY DEF LockInv, FilesTyped, Stamped
    <3> QED BY <1>4, <3>1, <3>2
  <2>2. \A d \in Callers : known'[d].version \notin {Unknown, Torn} =>
           made[known'[d].version] = known'[d].mtime
    BY <1>7, <2>1 DEF LockInv, Stamped
  <2> QED BY <1>1, <2>2 DEF LockInv, Stamped
<1>11. LostOnlyInParallel'
  BY <1>1 DEF LockInv, LostOnlyInParallel
<1>12. FilesTyped'
  <2>1. known' \in [Callers -> [version : Seen, mtime : Times]]
    BY <1>3, <1>4 DEF LockInv, FilesTyped
  <2>2. cached' \in Times
    BY <1>1 DEF LockInv, FilesTyped
  <2> QED BY <1>1, <1>6, <2>1, <2>2 DEF LockInv, FilesTyped
<1> QED BY <1>8, <1>9, <1>10, <1>11, <1>12 DEF LockInv

(* Loading and backing up.                                                 *)
LEMMA LoadLock == ASSUME LockInv, NEW c \in Callers, EditLoad(c) PROVE LockInv'
<1>1. op[c].pc = "load" /\ op[c].pc # "idle" /\ FilesSame /\ RestSame /\ op[c].tool = "Edit"
  BY DEF EditLoad, LockInv, Shape
<1>2. CASE End(c)
  BY <1>1, <1>2, EndLock DEF End, FilesSame, RestSame, LockInv, FilesTyped
<1>3. CASE op' = [op EXCEPT ![c].pc = "backup",
                   ![c].seen = IF op[c].alone THEN inode[file].version ELSE Unknown]
           /\ UNCHANGED mixed
  <2>1. PICK v, n : /\ v = (IF op[c].alone THEN inode[file].version ELSE Unknown)
                    /\ n = [op[c] EXCEPT !.pc = "backup", !.seen = v]
    OBVIOUS
  <2>2. v \in Seen /\ Old(v)
    BY <2>1, NothingIsOld DEF LockInv, FilesTyped, AllOld, Seen
  <2>3. n \in Call /\ n.pc = "backup" /\ n.tool = "Edit" /\ n.seen = v /\ n.alone = op[c].alone
    <3>1. op[c] \in Call
      BY CallsTyped DEF LockInv
    <3> QED BY <1>1, <2>1, <2>2, <3>1 DEF Call
  <2>4. op' = [op EXCEPT ![c] = n]
    BY <1>3, <2>1 DEF LockInv, FilesTyped, Call
  <2>5. op' \in [Callers -> Call] /\ op'[c] = n /\ \A d \in Callers \ {c} : op'[d] = op[d]
    BY <2>3, <2>4, Moved DEF LockInv
  <2>6. Shape(n) /\ Undisturbed(c)'
    BY <1>1, <2>1, <2>3, <2>5 DEF Shape, Undisturbed, FilesSame
  <2>7. /\ \A d \in Callers : Shape(op'[d])
        /\ AloneIsAlone' /\ (\A d \in Callers : Undisturbed(d))'
    BY <1>1, <2>3, <2>4, <2>6, MoveKeeps
  <2>8. AllOld' /\ Stamped' /\ LostOnlyInParallel'
    <3>1. \A d \in Callers : Old(op'[d].seen)
      BY <2>2, <2>3, <2>5 DEF LockInv, AllOld
    <3> QED BY <1>1, <3>1, NothingWritten DEF FilesSame, RestSame
  <2>9. FilesTyped'
    BY <1>1, <1>3, <2>5 DEF LockInv, FilesTyped, FilesSame, RestSame
  <2> QED BY <2>7, <2>8, <2>9 DEF LockInv
<1> QED BY <1>2, <1>3 DEF EditLoad

LEMMA BackedUp ==
    ASSUME FilesTyped, NEW v \in Versions, BackUp(v)
    PROVE  backups' \in [0..(MaxClock \div Second) -> {Unknown} \cup Versions]
BY DEF FilesTyped, BackUp

LEMMA BackupLock == ASSUME LockInv, NEW c \in Callers, Backup(c) PROVE LockInv'
<1>1. /\ op[c].pc = "backup" /\ op[c].pc # "idle" /\ op[c].tool \in {"Write", "Edit"}
      /\ UNCHANGED <<inode, file, temp, writes, made, whole, cached, known, clock, last>>
  BY DEF Backup, RestSame, LockInv, Shape, FilesTyped, Call
<1>2. CASE End(c) /\ UNCHANGED backups
  BY <1>1, <1>2, EndLock DEF End, LockInv, FilesTyped
<1>3. CASE Continue(c, "open") /\ BackUp(inode[file].version)
  <2>1. PICK n : n = [op[c] EXCEPT !.pc = "open"]
    OBVIOUS
  <2>2. /\ n \in Call /\ n.pc = "open" /\ n.tool = op[c].tool
        /\ n.seen = op[c].seen /\ n.fd = op[c].fd /\ n.alone = op[c].alone
    BY <2>1, Continued DEF LockInv
  <2>3. op' = [op EXCEPT ![c] = n] /\ UNCHANGED mixed
    BY <1>3, <2>1 DEF Continue, LockInv, FilesTyped, Call
  <2>4. op' \in [Callers -> Call] /\ op'[c] = n /\ \A d \in Callers \ {c} : op'[d] = op[d]
    BY <2>2, <2>3, Moved DEF LockInv
  <2>5. Shape(n) /\ Undisturbed(c)'
    BY <1>1, <2>2, <2>4 DEF Shape, Undisturbed, LockInv
  <2>6. /\ \A d \in Callers : Shape(op'[d])
        /\ AloneIsAlone' /\ (\A d \in Callers : Undisturbed(d))'
    BY <1>1, <2>2, <2>3, <2>5, MoveKeeps
  <2>7. AllOld' /\ Stamped' /\ LostOnlyInParallel'
    <3>1. \A d \in Callers : Old(op'[d].seen)
      BY <2>2, <2>4 DEF LockInv, AllOld
    <3> QED BY <1>1, <3>1, NothingWritten
  <2>8. FilesTyped'
    <3>1. inode[file].version \in Versions
      BY DEF LockInv, FilesTyped
    <3>2. backups' \in [0..(MaxClock \div Second) -> {Unknown} \cup Versions]
      BY <1>3, <3>1, BackedUp DEF LockInv
    <3> QED BY <1>1, <2>3, <2>4, <3>2 DEF LockInv, FilesTyped
  <2> QED BY <2>6, <2>7, <2>8 DEF LockInv
<1> QED BY <1>2, <1>3 DEF Backup

LEMMA FailLock == ASSUME LockInv, NEW c \in Callers, WriteFails(c) PROVE LockInv'
<1>1. /\ op[c].pc \in {"backup", "open", "fill", "replace"} /\ op[c].pc # "idle"
      /\ op' = [op EXCEPT ![c] = NoOp]
      /\ UNCHANGED <<file, temp, writes, made, whole, cached, known, clock, last, mixed>>
  BY DEF WriteFails, End
<1>2. Torn \in Versions
  BY FileAssumption DEF Torn, Versions
<1>3. backups' \in [0..(MaxClock \div Second) -> {Unknown} \cup Versions]
  <2>1. CASE BackUp(Torn)
    BY <1>2, <2>1, BackedUp DEF LockInv
  <2>2. CASE UNCHANGED backups
    BY <2>2 DEF LockInv, FilesTyped
  <2> QED BY <2>1, <2>2 DEF WriteFails
<1>4. inode' = inode \/ \E i \in Inodes : inode' = Put(i, Torn)
  <2>1. CASE op[c].pc = "fill"
    <3>1. op[c] \in Call /\ op[c].fd # 0
      BY <2>1, CallsTyped DEF LockInv, Shape
    <3>2. op[c].fd \in Inodes
      BY <3>1 DEF Call
    <3> QED BY <2>1, <3>2 DEF WriteFails
  <2> QED BY <2>1 DEF WriteFails
<1> QED BY <1>1, <1>3, <1>4, EndLock

(* Opening a file.                                                         *)
LEMMA WriteOpenLock == ASSUME LockInv, NEW c \in Callers, WriteOpen(c) PROVE LockInv'
<1>1. /\ op[c].tool = "Write" /\ op[c].pc = "open" /\ op[c].pc # "idle"
      /\ UNCHANGED <<file, backups, writes, made, whole, mixed, cached, known, clock, last>>
  BY DEF WriteOpen, RestSame
<1>2. PICK i \in Inodes :
         /\ i # file /\ temp' = i /\ inode' = Put(i, Torn)
         /\ op' = [op EXCEPT ![c] = [op[c] EXCEPT !.fd = i, !.pc = "fill"]]
  BY OpenIsFresh
<1>3. PICK n : n = [op[c] EXCEPT !.fd = i, !.pc = "fill"]
  OBVIOUS
<1>4. /\ n \in Call /\ n.pc = "fill" /\ n.tool = "Write"
      /\ n.seen = op[c].seen /\ n.fd = i /\ n.alone = op[c].alone
  <2>1. op[c] \in Call
    BY CallsTyped DEF LockInv
  <2> QED BY <1>1, <1>3, <2>1 DEF Call
<1>5. op' = [op EXCEPT ![c] = n]
  BY <1>2, <1>3
<1>6. op' \in [Callers -> Call] /\ op'[c] = n /\ \A d \in Callers \ {c} : op'[d] = op[d]
  BY <1>4, <1>5, Moved DEF LockInv
<1>7. Torn \in Versions /\ i # 0 /\ Old(Torn)
  BY FileAssumption DEF Torn, Versions, Inodes, Old, LockInv, FilesTyped
<1>8. /\ inode' \in [Inodes -> [version : Versions, mtime : Times]]
      /\ inode'[i].version = Torn /\ inode'[i].mtime = clock
      /\ \A j \in Inodes \ {i} : inode'[j] = inode[j]
  BY <1>2, <1>7, PutTyped DEF LockInv
<1>9. Shape(n)
  BY <1>4, <1>7 DEF Shape
<1>10. Undisturbed(c)'
  BY <1>1, <1>2, <1>4, <1>6, <1>7, <1>8 DEF Undisturbed, LockInv, FilesTyped
<1>11. /\ \A d \in Callers : Shape(op'[d])
       /\ AloneIsAlone' /\ (\A d \in Callers : Undisturbed(d))'
  BY <1>1, <1>4, <1>5, <1>9, <1>10, MoveKeeps
<1>12. AllOld'
  BY <1>1, <1>4, <1>6, <1>7, <1>8 DEF LockInv, AllOld, Old
<1>13. Stamped'
  <2>1. clock # Unknown
    BY DEF LockInv, FilesTyped, Unknown
  <2> QED BY <1>1, <1>2, <1>8, <2>1 DEF LockInv, Stamped, FilesTyped
<1>14. LostOnlyInParallel'
  BY <1>1 DEF LockInv, LostOnlyInParallel
<1>15. FilesTyped'
  BY <1>1, <1>2, <1>6, <1>8 DEF LockInv, FilesTyped
<1> QED BY <1>11, <1>12, <1>13, <1>14, <1>15 DEF LockInv

LEMMA EditOpenLock == ASSUME LockInv, NEW c \in Callers, EditOpen(c) PROVE LockInv'
<1>1. /\ op[c].tool = "Edit" /\ op[c].pc = "open" /\ op[c].pc # "idle"
      /\ UNCHANGED <<file, temp, backups, writes, made, whole, mixed, cached, known, clock>>
      /\ inode' = Put(file, Torn)
  BY DEF EditOpen
<1>2. PICK n : n = [op[c] EXCEPT !.fd = file, !.pc = "fill"]
  OBVIOUS
<1>3. file \in Inodes /\ file # 0
  BY DEF LockInv, FilesTyped, Inodes
<1>4. /\ n \in Call /\ n.pc = "fill" /\ n.tool = "Edit"
      /\ n.seen = op[c].seen /\ n.fd = file /\ n.alone = op[c].alone
  <2>1. op[c] \in Call
    BY CallsTyped DEF LockInv
  <2> QED BY <1>1, <1>2, <1>3, <2>1 DEF Call
<1>5. op' = [op EXCEPT ![c] = n]
  BY <1>2 DEF EditOpen, LockInv, FilesTyped, Call
<1>6. op' \in [Callers -> Call] /\ op'[c] = n /\ \A d \in Callers \ {c} : op'[d] = op[d]
  BY <1>4, <1>5, Moved DEF LockInv
<1>7. Torn \in Versions /\ Old(Torn)
  BY FileAssumption DEF Torn, Versions, Old, LockInv, FilesTyped
<1>8. /\ inode' \in [Inodes -> [version : Versions, mtime : Times]]
      /\ inode'[file].version = Torn /\ inode'[file].mtime = clock
      /\ \A j \in Inodes \ {file} : inode'[j] = inode[j]
  BY <1>1, <1>3, <1>7, PutTyped DEF LockInv
<1>9. Shape(n)
  BY <1>3, <1>4 DEF Shape
<1>10. Undisturbed(c)'
  BY <1>1, <1>4, <1>6 DEF Undisturbed, LockInv
<1>11. /\ \A d \in Callers : Shape(op'[d])
       /\ AloneIsAlone' /\ (\A d \in Callers : Undisturbed(d))'
  BY <1>1, <1>4, <1>5, <1>9, <1>10, MoveKeeps
<1>12. /\ last' \in [seen : Versions, replaced : Versions]
       /\ Old(last'.seen) /\ Old(last'.replaced)
       /\ last'.replaced = last'.seen
  <2>1. CASE last' = NoReplacement
    BY <1>7, <2>1 DEF NoReplacement, Torn
  <2>2. CASE /\ last' = [seen |-> op[c].seen, replaced |-> inode[file].version]
             /\ op[c].seen # Unknown
    <3>1. op[c].seen = inode[file].version
      BY <1>1, <2>2 DEF LockInv, Undisturbed
    <3>2. inode[file].version \in Versions /\ Old(inode[file].version)
      BY <1>3 DEF LockInv, FilesTyped, AllOld
    <3> QED BY <2>2, <3>1, <3>2
  <2> QED BY <2>1, <2>2 DEF EditOpen, Replaces
<1>13. AllOld'
  BY <1>1, <1>4, <1>6, <1>7, <1>8, <1>12 DEF LockInv, AllOld, Old
<1>14. Stamped'
  <2>1. clock # Unknown
    BY DEF LockInv, FilesTyped, Unknown
  <2> QED BY <1>1, <1>3, <1>8, <2>1 DEF LockInv, Stamped, FilesTyped
<1>15. LostOnlyInParallel'
  BY <1>12 DEF LostOnlyInParallel
<1>16. FilesTyped'
  BY <1>1, <1>6, <1>8, <1>12 DEF LockInv, FilesTyped
<1> QED BY <1>11, <1>13, <1>14, <1>15, <1>16 DEF LockInv

(* Writing the content.                                                    *)
LEMMA FillLock == ASSUME LockInv, NEW c \in Callers, Fill(c) PROVE LockInv'
<1>1. PICK fd, version : fd = op[c].fd /\ version = writes + 2
  OBVIOUS
<1>2. /\ op[c].pc = "fill" /\ op[c].pc # "idle" /\ writes < MaxWrites /\ writes' = writes + 1
      /\ made' = [made EXCEPT ![version] = clock]
      /\ UNCHANGED <<file, temp, backups, cached, known, clock, last, mixed>>
  BY <1>1 DEF Fill, RestSame, End, Continue
<1>3. fd \in Inodes /\ version \in Versions /\ Torn \in Versions /\ version # Torn
  <2>1. op[c] \in Call /\ Shape(op[c]) /\ writes \in 0..MaxWrites
    BY CallsTyped DEF LockInv, FilesTyped
  <2>2. fd \in Inodes
    BY <1>1, <1>2, <2>1 DEF Shape, Call
  <2> QED BY <1>1, <1>2, <2>1, <2>2, FileAssumption DEF Versions, Torn
<1>4. PICK v \in {version, Torn} : inode' = Put(fd, v)
  BY <1>1 DEF Fill
<1>5. /\ inode' \in [Inodes -> [version : Versions, mtime : Times]]
      /\ inode'[fd].version = v /\ inode'[fd].mtime = clock
      /\ \A j \in Inodes \ {fd} : inode'[j] = inode[j]
  BY <1>3, <1>4, PutTyped DEF LockInv
<1>6. PICK n : op' = [op EXCEPT ![c] = n] /\
         \/ n = NoOp
         \/ op[c].tool # "Edit" /\ n = [op[c] EXCEPT !.pc = "replace"]
  <2>1. CASE op[c].tool = "Edit"
    BY <2>1 DEF Fill, End
  <2>2. CASE op[c].tool # "Edit"
    <3>1. op' = [op EXCEPT ![c].pc = "replace"]
      BY <2>2 DEF Fill, Continue
    <3>2. op' = [op EXCEPT ![c] = [op[c] EXCEPT !.pc = "replace"]]
      BY <3>1 DEF LockInv, FilesTyped, Call
    <3> QED BY <2>2, <3>2
  <2> QED BY <2>1, <2>2
<1>7. /\ n \in Call /\ Shape(n) /\ Old(n.seen)
      /\ n.pc # "idle" => /\ n.alone = op[c].alone /\ n.tool = "Write" /\ op[c].tool = "Write"
                          /\ n.seen = op[c].seen /\ n.fd = fd
  <2>1. CASE n = NoOp
    <3>1. NoOp \in Call /\ Old(Unknown)
      BY CallsTyped, NothingIsOld DEF LockInv
    <3> QED BY <2>1, <3>1, Idle
  <2>2. CASE op[c].tool # "Edit" /\ n = [op[c] EXCEPT !.pc = "replace"]
    <3>1. /\ n \in Call /\ n.pc = "replace" /\ n.tool = op[c].tool
          /\ n.seen = op[c].seen /\ n.fd = op[c].fd /\ n.alone = op[c].alone
      BY <2>2, Continued DEF LockInv
    <3>2. op[c].tool = "Write"
      BY <1>2, <2>2 DEF LockInv, FilesTyped, Call, Shape
    <3> QED BY <1>1, <3>1, <3>2 DEF Shape, LockInv, AllOld
  <2> QED BY <1>6, <2>1, <2>2
<1>8. op' \in [Callers -> Call] /\ op'[c] = n /\ \A d \in Callers \ {c} : op'[d] = op[d]
  BY <1>6, <1>7, Moved DEF LockInv
<1>12. \A w \in Versions : Old(w) => made'[w] = made[w]
  BY <1>1, <1>2 DEF LockInv, FilesTyped, Old, Versions
<1>9. Undisturbed(c)'
  <2>1. CASE n.pc = "idle"
    BY <1>7, <1>8, <2>1 DEF Undisturbed, Shape
  <2>2. CASE n.pc # "idle"
    <3>1. n.alone => temp # 0 /\ fd = temp
      BY <1>1, <1>2, <1>7, <2>2 DEF LockInv, Undisturbed
    <3>2. ASSUME n.seen # Unknown
          PROVE  n.alone /\ (n.seen = Torn \/ made'[n.seen] = inode'[file].mtime)
      <4>1. n.alone /\ (n.seen = Torn \/ made[n.seen] = inode[file].mtime)
        BY <1>7, <2>2, <3>2 DEF LockInv, Undisturbed
      <4>2. inode'[file] = inode[file]
        BY <1>5, <3>1, <4>1 DEF LockInv, FilesTyped, Stamped
      <4>3. n.seen \in Versions /\ Old(n.seen)
        BY <1>7, <3>2 DEF Call, Seen
      <4> QED BY <1>12, <4>1, <4>2, <4>3
    <3> QED BY <1>2, <1>7, <1>8, <2>2, <3>1, <3>2 DEF Undisturbed
  <2> QED BY <2>1, <2>2
<1>10. /\ \A d \in Callers : Shape(op'[d])
       /\ AloneIsAlone' /\ (\A d \in Callers : Undisturbed(d))'
  BY <1>2, <1>6, <1>7, <1>9, MoveKeeps
<1>11. AllOld'
  <2>1. writes \in Nat /\ v \in Int /\ v <= writes' + 1
    BY <1>1, <1>2 DEF LockInv, FilesTyped, Torn
  <2>2. \A w \in Int : Old(w) => w <= writes' + 1
    BY <1>2, <2>1 DEF Old
  <2>3. \A i \in Inodes : inode[i].version \in Int /\ Old(inode[i].version)
    BY DEF LockInv, FilesTyped, AllOld, Versions
  <2>4. \A i \in Inodes : inode'[i].version <= writes' + 1
    BY <1>5, <2>1, <2>2, <2>3
  <2>5. \A d \in Callers : known[d].version \in Int /\ Old(known[d].version)
    BY DEF LockInv, FilesTyped, AllOld, Versions, Seen, Unknown
  <2>6. \A d \in Callers : op'[d].seen <= writes' + 1
    <3> SUFFICES ASSUME NEW d \in Callers PROVE op'[d].seen <= writes' + 1
      OBVIOUS
    <3>1. CASE d = c
      <4>1. n.seen \in Int
        BY <1>7 DEF Call, Versions, Seen, Unknown
      <4> QED BY <1>7, <1>8, <2>2, <3>1, <4>1
    <3>2. CASE d # c
      <4>1. op[d].seen \in Int /\ Old(op[d].seen)
        BY DEF LockInv, FilesTyped, AllOld, Versions, Call, Seen, Unknown
      <4> QED BY <1>8, <2>2, <3>2, <4>1
    <3> QED BY <3>1, <3>2
  <2>7. last.seen \in Int /\ last.replaced \in Int /\ Old(last.seen) /\ Old(last.replaced)
    BY DEF LockInv, FilesTyped, AllOld, Versions
  <2> QED BY <1>2, <2>2, <2>4, <2>5, <2>6, <2>7 DEF AllOld, Old
<1>13. Stamped'
  <2>1. made'[version] = clock /\ clock # Unknown
    BY <1>2, <1>3 DEF LockInv, FilesTyped, Unknown
  <2>2. \A i \in Inodes : inode'[i].version # Torn => made'[inode'[i].version] = inode'[i].mtime
    <3> SUFFICES ASSUME NEW i \in Inodes, inode'[i].version # Torn
                 PROVE  made'[inode'[i].version] = inode'[i].mtime
      OBVIOUS
    <3>1. CASE i = fd
      BY <1>4, <1>5, <2>1, <3>1
    <3>2. CASE i # fd
      <4>1. inode[i].version \in Versions /\ Old(inode[i].version)
        BY DEF LockInv, FilesTyped, AllOld
      <4> QED BY <1>5, <1>12, <3>2, <4>1 DEF LockInv, Stamped
    <3> QED BY <3>1, <3>2
  <2>3. \A d \in Callers : known[d].version \in Seen /\ Old(known[d].version)
    BY DEF LockInv, FilesTyped, AllOld
  <2>4. \A d \in Callers : known[d].version \notin {Unknown, Torn} =>
           made'[known[d].version] = known[d].mtime
    BY <1>12, <2>3 DEF LockInv, Stamped, Seen
  <2>5. /\ inode'[file].mtime # Unknown /\ temp # file
        /\ temp # 0 => inode'[temp].mtime # Unknown
    BY <1>5, <2>1 DEF LockInv, Stamped, FilesTyped
  <2> QED BY <1>2, <2>2, <2>4, <2>5 DEF Stamped
<1>14. LostOnlyInParallel'
  <2>1. made'[last.seen] = made[last.seen] /\ made'[last.replaced] = made[last.replaced]
    BY <1>12 DEF LockInv, AllOld, FilesTyped
  <2> QED BY <1>2, <2>1 DEF LockInv, LostOnlyInParallel
<1>15. FilesTyped'
  <2>1. made' \in [Versions -> Nat] /\ writes' \in 0..MaxWrites
    BY <1>2, <1>3, FileAssumption DEF LockInv, FilesTyped
  <2>2. whole' \in Versions \ {Torn}
    BY <1>1, <1>3, <1>5 DEF Fill, Holds, LockInv, FilesTyped
  <2> QED BY <1>2, <1>5, <1>8, <2>1, <2>2 DEF LockInv, FilesTyped
<1> QED BY <1>10, <1>11, <1>13, <1>14, <1>15 DEF LockInv

(* Moving the temporary file into place.                                   *)
LEMMA ReplaceLock == ASSUME LockInv, NEW c \in Callers, Replace(c) PROVE LockInv'
<1>1. /\ op[c].pc = "replace" /\ op[c].pc # "idle" /\ op[c].tool = "Write"
      /\ op' = [op EXCEPT ![c] = NoOp]
      /\ UNCHANGED <<inode, backups, writes, made, cached, known, clock, mixed>>
  BY DEF Replace, End, LockInv, Shape
<1>2. CASE temp = 0
  BY <1>1, <1>2, EndLock DEF Replace, LockInv, FilesTyped
<1>3. CASE temp # 0
  <2>1. /\ file' = temp /\ temp' = 0 /\ temp \in Inodes
        /\ whole' = IF inode[temp].version # Torn THEN inode[temp].version ELSE whole
    BY <1>3 DEF Replace, Holds, LockInv, FilesTyped
  <2>2. NoOp \in Call
    BY CallsTyped DEF LockInv
  <2>3. op' \in [Callers -> Call] /\ op'[c] = NoOp /\ \A d \in Callers \ {c} : op'[d] = op[d]
    BY <1>1, <2>2, Moved DEF LockInv
  <2>4. Undisturbed(c)'
    BY <2>3, Idle DEF Undisturbed
  <2>5. /\ \A d \in Callers : Shape(op'[d])
        /\ AloneIsAlone' /\ (\A d \in Callers : Undisturbed(d))'
    BY <1>1, <2>2, <2>4, Idle, MoveKeeps
  <2>6. /\ last' \in [seen : Versions, replaced : Versions]
        /\ Old(last'.seen) /\ Old(last'.replaced) /\ LostOnlyInParallel'
    <3>1. CASE last' = NoReplacement
      <4>1. Torn \in Versions /\ Old(Torn)
        BY FileAssumption DEF Torn, Versions, Old, LockInv, FilesTyped
      <4> QED BY <3>1, <4>1 DEF NoReplacement, Torn, LostOnlyInParallel
    <3>2. CASE /\ last' = [seen |-> op[c].seen, replaced |-> inode[file].version]
               /\ op[c].seen # Unknown
      <4>1. op[c].seen = Torn \/ made[op[c].seen] = inode[file].mtime
        BY <1>1, <3>2 DEF LockInv, Undisturbed
      <4>2. inode[file].version = Torn \/ made[inode[file].version] = inode[file].mtime
        BY DEF LockInv, FilesTyped, Stamped
      <4>3. op[c] \in Call
        BY CallsTyped DEF LockInv
      <4>4. /\ inode[file].version \in Versions /\ Old(inode[file].version)
            /\ op[c].seen \in Versions /\ Old(op[c].seen)
        BY <3>2, <4>3 DEF LockInv, FilesTyped, AllOld, Call, Seen
      <4>5. last'.seen = op[c].seen /\ last'.replaced = inode[file].version
        BY <3>2
      <4> QED BY <1>1, <3>2, <4>1, <4>2, <4>4, <4>5 DEF LostOnlyInParallel
    <3> QED BY <1>1, <1>3, <3>1, <3>2 DEF Replace, Replaces
  <2>7. AllOld'
    <3>2. \A d \in Callers : Old(op'[d].seen)
      BY <2>3, NothingIsOld, Idle DEF LockInv, AllOld
    <3> QED BY <1>1, <2>6, <3>2 DEF LockInv, AllOld, Old
  <2>8. Stamped'
    BY <1>1, <1>3, <2>1 DEF LockInv, Stamped, Inodes
  <2>9. FilesTyped'
    <3>1. whole' \in Versions \ {Torn}
      BY <2>1 DEF LockInv, FilesTyped
    <3> QED BY <1>1, <2>1, <2>3, <2>6, <3>1 DEF LockInv, FilesTyped
  <2> QED BY <2>5, <2>6, <2>7, <2>8, <2>9 DEF LockInv
<1> QED BY <1>2, <1>3

LEMMA CrashLock == ASSUME LockInv, Crash PROVE LockInv'
<1>1. /\ UNCHANGED <<inode, file, temp, backups, writes, made, whole, clock, last, mixed>>
      /\ \A c \in Callers : op'[c] = NoOp /\ known'[c] = NothingKnown
      /\ op' \in [Callers -> {NoOp}] /\ known' \in [Callers -> {NothingKnown}]
      /\ cached' \in {cached, Unknown}
  BY DEF Crash
<1>2. NoOp \in Call /\ NothingKnown \in [version : Seen, mtime : Times]
  BY CallsTyped DEF LockInv, NothingKnown, Times, Seen
<1>3. NothingKnown.version = Unknown /\ Old(Unknown)
  BY NothingIsOld DEF NothingKnown
<1>4. FilesTyped'
  BY <1>1, <1>2 DEF LockInv, FilesTyped, Times
<1>5. (\A c \in Callers : Shape(op'[c])) /\ AloneIsAlone' /\ (\A c \in Callers : Undisturbed(c))'
  BY <1>1, Idle DEF AloneIsAlone, Undisturbed
<1>6. AllOld'
  BY <1>1, <1>3, Idle DEF LockInv, AllOld, Old
<1>7. Stamped'
  BY <1>1, <1>3 DEF LockInv, Stamped
<1>8. LostOnlyInParallel'
  BY <1>1 DEF LockInv, LostOnlyInParallel
<1> QED BY <1>4, <1>5, <1>6, <1>7, <1>8 DEF LockInv

LEMMA SameLock ==
    ASSUME LockInv, UNCHANGED <<inode, file, temp, backups, writes, made, whole, cached,
                                known, op, last, mixed>>, clock' \in 0..MaxClock
    PROVE  LockInv'
<1>1. FilesTyped'
  BY DEF LockInv, FilesTyped
<1>2. AloneIsAlone' /\ (\A c \in Callers : Undisturbed(c))' /\ \A c \in Callers : Shape(op'[c])
  BY DEF LockInv, AloneIsAlone, Undisturbed
<1>3. AllOld' /\ Stamped' /\ LostOnlyInParallel'
  <2>1. \A d \in Callers : Old(op'[d].seen)
    BY DEF LockInv, AllOld
  <2> QED BY <2>1, NothingWritten
<1> QED BY <1>1, <1>2, <1>3 DEF LockInv

LEMMA LockStep == LockInv /\ [FilesNext]_filesVars => LockInv'
<1> SUFFICES ASSUME LockInv, [FilesNext]_filesVars PROVE LockInv'
  OBVIOUS
<1>1. ASSUME NEW c \in Callers, FileCall(c) PROVE LockInv'
  BY <1>1, ReadLock, StatLock, CheckLock, LoadLock, BackupLock, WriteOpenLock,
     EditOpenLock, FillLock, ReplaceLock, FailLock DEF FileCall
<1>2. CASE Tick
  <2>1. clock' \in 0..MaxClock
    BY <1>2, FileAssumption DEF Tick, LockInv, FilesTyped
  <2> QED BY <1>2, <2>1, SameLock DEF Tick, FilesSame
<1>3. CASE Crash
  BY <1>3, CrashLock
<1>4. CASE UNCHANGED filesVars
  <2>1. clock' \in 0..MaxClock
    BY <1>4 DEF filesVars, LockInv, FilesTyped
  <2> QED BY <1>4, <2>1, SameLock DEF filesVars
<1> QED BY <1>1, <1>2, <1>3, <1>4 DEF FilesNext

(* The lock of the file tools (WriteTool.run, EditTool.run) loses no       *)
(* update of another millisecond to a call that ran alone, for any number  *)
(* of callers, writes and faults.                                          *)
THEOREM LockKeepsUpdates == FilesSpec => []LostOnlyInParallel
<1>1. LockInv => LostOnlyInParallel
  BY DEF LockInv
<1> QED BY <1>1, FilesStart, LockStep, PTL DEF FilesSpec

(* Backups are named by the second.                                        *)
LEMMA DivBound ==
    ASSUME NEW k \in Nat, NEW m \in Nat, k <= m, NEW s \in Nat \ {0}
    PROVE  k \div s \in 0..(m \div s)
<1>1. PICK a \in Int, b \in Int : a = k \div s /\ b = m \div s
  OBVIOUS
<1>2. /\ k = s * a + (k % s) /\ 0 <= k % s /\ k % s < s
      /\ m = s * b + (m % s) /\ 0 <= m % s /\ m % s < s
      /\ k % s \in Int /\ m % s \in Int
  BY <1>1
<1>3. s * a < s * b + s
  BY <1>2
<1>4. a <= b
  BY ONLY <1>3, s \in Nat \ {0}, a \in Int, b \in Int
<1>5. 0 < s * a + s
  BY <1>2
<1>6. 0 <= a
  BY ONLY <1>5, s \in Nat \ {0}, a \in Int
<1> QED BY <1>1, <1>4, <1>6

(* A step that leaves the files and the backups alone.                     *)
LEMMA StillThere ==
    ASSUME RecoverInv, ~mixed, UNCHANGED <<inode, file, temp, backups, whole, harm>>,
           OneWriter',
           \A d \in Callers :
              \/ /\ op'[d].tool = op[d].tool /\ op'[d].pc = op[d].pc
                 /\ op'[d].fd = op[d].fd
              \/ /\ ~(op[d].tool = "Edit" /\ op[d].pc = "fill")
                 /\ op'[d].pc \in {"idle", "stat", "load", "backup"}
    PROVE  RecoverInv'
<1>1. ASSUME NEW d \in Callers PROVE Progress(d)'
  BY DEF RecoverInv, Progress
<1>2. Recoverable'
  BY DEF RecoverInv, Recoverable
<1> QED BY <1>1, <1>2 DEF RecoverInv

(* A call begins: when it writes, nobody else does.                        *)
LEMMA BeginRecover ==
    ASSUME LockInv, RecoverInv, NEW c \in Callers, op[c].pc = "idle", NEW call \in Call,
           BeginCall(c, call), FilesSame,
           call.pc \in {"stat", "load", "backup"}, call.tool \in {"Read", "Write", "Edit"}
    PROVE  RecoverInv'
<1> SUFFICES ASSUME ~mixed' PROVE RecoverInv'
  BY DEF RecoverInv
<1>1. ~mixed /\ (call.tool = "Read" \/ \A d \in Callers \ {c} : ~Writing(d))
  BY DEF BeginCall
<1>2. /\ op'[c].tool = call.tool /\ op'[c].pc = call.pc
      /\ \A d \in Callers \ {c} : /\ op'[d].tool = op[d].tool /\ op'[d].pc = op[d].pc
                                  /\ op'[d].fd = op[d].fd
  BY Begun DEF LockInv
<1>3. OneWriter'
  BY <1>1, <1>2 DEF RecoverInv, OneWriter, Writing
<1>4. \A d \in Callers :
         \/ op'[d].tool = op[d].tool /\ op'[d].pc = op[d].pc /\ op'[d].fd = op[d].fd
         \/ ~(op[d].tool = "Edit" /\ op[d].pc = "fill")
            /\ op'[d].pc \in {"idle", "stat", "load", "backup"}
  BY <1>2
<1> QED BY <1>1, <1>3, <1>4, StillThere DEF FilesSame

LEMMA ReadRecover == ASSUME LockInv, RecoverInv, NEW c \in Callers, ReadContent(c)
                     PROVE  RecoverInv'
<1>1. PICK v, k : /\ v = inode[file].version
                  /\ k = [NoOp EXCEPT !.tool = "Read", !.pc = "stat", !.seen = v]
  OBVIOUS
<1>2. v \in Versions
  BY <1>1 DEF LockInv, FilesTyped
<1>3. k \in Call /\ k.tool = "Read" /\ k.pc = "stat"
  BY <1>1, <1>2, ReadMade
<1>4. op[c].pc = "idle" /\ BeginCall(c, k) /\ FilesSame
  BY <1>1 DEF ReadContent
<1> QED BY <1>3, <1>4, BeginRecover

LEMMA CheckRecover ==
    ASSUME LockInv, RecoverInv, NEW c \in Callers, NEW tool \in {"Write", "Edit"},
           Check(c, tool)
    PROVE  RecoverInv'
<1>1. PICK v \in Seen, k \in Call :
        /\ op[c].pc = "idle" /\ FilesSame /\ BeginCall(c, k)
        /\ k.tool = tool /\ k.pc = IF tool = "Edit" THEN "load" ELSE "backup"
  BY CheckMade
<1> QED BY <1>1, BeginRecover

(* A call goes on, or ends, without having touched the files.              *)
LEMMA GoOnRecover ==
    ASSUME LockInv, RecoverInv, NEW c \in Callers, NEW n \in Call,
           op' = [op EXCEPT ![c] = n], n.tool \in {op[c].tool, "none"},
           op[c].pc # "fill", n.pc \in {"idle", "load", "backup"},
           UNCHANGED <<inode, file, temp, backups, whole, harm, mixed>>
    PROVE  RecoverInv'
<1> SUFFICES ASSUME ~mixed PROVE RecoverInv'
  BY DEF RecoverInv
<1>1. op'[c] = n /\ \A d \in Callers \ {c} : op'[d] = op[d]
  BY Moved DEF LockInv
<1>2. OneWriter'
  BY <1>1 DEF RecoverInv, OneWriter, Writing
<1>3. \A d \in Callers :
         \/ op'[d].tool = op[d].tool /\ op'[d].pc = op[d].pc /\ op'[d].fd = op[d].fd
         \/ ~(op[d].tool = "Edit" /\ op[d].pc = "fill")
            /\ op'[d].pc \in {"idle", "stat", "load", "backup"}
  BY <1>1
<1> QED BY <1>2, <1>3, StillThere

LEMMA EndRecover ==
    ASSUME LockInv, RecoverInv, NEW c \in Callers, op' = [op EXCEPT ![c] = NoOp],
           op[c].pc # "fill",
           UNCHANGED <<inode, file, temp, backups, whole, harm, mixed>>
    PROVE  RecoverInv'
<1>1. NoOp \in Call /\ NoOp.tool = "none" /\ NoOp.pc = "idle"
  BY CallsTyped, Idle DEF LockInv
<1> QED BY <1>1, GoOnRecover

LEMMA LoadRecover == ASSUME LockInv, RecoverInv, NEW c \in Callers, EditLoad(c)
                     PROVE  RecoverInv'
<1>1. op[c].pc = "load" /\ FilesSame /\ RestSame
  BY DEF EditLoad
<1>2. CASE End(c)
  BY <1>1, <1>2, EndRecover DEF End, FilesSame, RestSame
<1>3. CASE op' = [op EXCEPT ![c].pc = "backup",
                   ![c].seen = IF op[c].alone THEN inode[file].version ELSE Unknown]
           /\ UNCHANGED mixed
  <2>1. PICK v, n : /\ v = (IF op[c].alone THEN inode[file].version ELSE Unknown)
                    /\ n = [op[c] EXCEPT !.pc = "backup", !.seen = v]
    OBVIOUS
  <2>2. v \in Seen /\ op[c] \in Call
    BY <2>1, CallsTyped DEF LockInv, FilesTyped, Seen
  <2>3. n \in Call /\ n.pc = "backup" /\ n.tool = op[c].tool
    BY <2>1, <2>2 DEF Call
  <2>4. op' = [op EXCEPT ![c] = n]
    BY <1>3, <2>1 DEF LockInv, FilesTyped, Call
  <2> QED BY <1>1, <1>3, <2>3, <2>4, GoOnRecover DEF FilesSame, RestSame
<1> QED BY <1>2, <1>3 DEF EditLoad

(* The writer takes a step: the others are no writers.                     *)
LEMMA Sole ==
    ASSUME LockInv, OneWriter, NEW c \in Callers, Writing(c), NEW n \in Call,
           op' = [op EXCEPT ![c] = n], n.tool \in {op[c].tool, "none"}, Progress(c)'
    PROVE  /\ OneWriter' /\ \A d \in Callers : Progress(d)'
           /\ \A d \in Callers \ {c} : op'[d] = op[d] /\ ~Writing(d)
<1>1. op'[c] = n /\ \A d \in Callers \ {c} : op'[d] = op[d] /\ ~Writing(d)
  BY Moved DEF LockInv, OneWriter
<1>2. OneWriter'
  BY <1>1 DEF OneWriter, Writing
<1>3. ASSUME NEW d \in Callers \ {c} PROVE Progress(d)'
  <2>1. op'[d].tool \notin {"Write", "Edit"} /\ op'[d].pc # "replace"
    BY <1>1 DEF Writing, LockInv, Shape
  <2> QED BY <2>1 DEF Progress
<1> QED BY <1>1, <1>2, <1>3

(* A backup is of this second; if it takes the place of the one that a     *)
(* torn file needs, that one is buried.                                    *)
LEMMA BackUpKeeps ==
    ASSUME LockInv, NEW v, BackUp(v)
    PROVE  /\ \E s \in DOMAIN backups' : backups'[s] = v
           /\ /\ inode[file].version = Torn
              /\ "buried" \in harm \/ \E s \in DOMAIN backups : backups[s] = whole
              => "buried" \in harm' \/ \E s \in DOMAIN backups' : backups'[s] = whole
           /\ "cut" \in harm => "cut" \in harm'
<1>1. PICK s : s = clock \div Second
  OBVIOUS
<1>2. s \in DOMAIN backups /\ DOMAIN backups' = DOMAIN backups
  <2>1. clock \in Nat /\ MaxClock \in Nat /\ clock <= MaxClock /\ Second \in Nat \ {0}
    BY FileAssumption DEF LockInv, FilesTyped
  <2>2. s \in 0..(MaxClock \div Second)
    BY <1>1, <2>1, DivBound
  <2> QED BY <2>2 DEF BackUp, LockInv, FilesTyped
<1>3. backups'[s] = v /\ \A t \in DOMAIN backups : t # s => backups'[t] = backups[t]
  BY <1>1, <1>2 DEF BackUp
<1>4. harm' = IF inode[file].version = Torn /\ backups[s] = whole
              THEN harm \cup {"buried"} ELSE harm
  BY <1>1 DEF BackUp
<1> QED BY <1>2, <1>3, <1>4

LEMMA BackupRecover == ASSUME LockInv, RecoverInv, NEW c \in Callers, Backup(c)
                       PROVE  RecoverInv'
<1>1. /\ op[c].pc = "backup" /\ Writing(c)
      /\ UNCHANGED <<inode, file, temp, whole>>
  BY DEF Backup, RestSame, LockInv, Shape, FilesTyped, Call, Writing
<1>2. CASE End(c) /\ UNCHANGED <<backups, harm>>
  BY <1>1, <1>2, EndRecover DEF End
<1>3. CASE Continue(c, "open") /\ BackUp(inode[file].version)
  <2> SUFFICES ASSUME ~mixed PROVE RecoverInv'
    BY <1>3 DEF RecoverInv, Continue
  <2>1. PICK n : n = [op[c] EXCEPT !.pc = "open"]
    OBVIOUS
  <2>2. n \in Call /\ n.pc = "open" /\ n.tool = op[c].tool
    BY <2>1, Continued DEF LockInv
  <2>3. op' = [op EXCEPT ![c] = n]
    BY <1>3, <2>1 DEF Continue, LockInv, FilesTyped, Call
  <2>4. op'[c] = n
    BY <2>2, <2>3, Moved DEF LockInv
  <2>5. Progress(c)'
    BY <1>1, <1>3, <2>2, <2>4, BackUpKeeps DEF Progress
  <2>6. /\ OneWriter' /\ \A d \in Callers : Progress(d)'
        /\ \A d \in Callers \ {c} : ~Writing(d)
    BY <1>1, <2>2, <2>3, <2>5, Sole DEF RecoverInv
  <2>7. Recoverable'
    <3> SUFFICES ASSUME inode[file].version = Torn PROVE Recoverable'
      BY <1>1 DEF Recoverable
    <3>1. "cut" \in harm
      BY <1>1, <2>6 DEF RecoverInv, Recoverable, Writing
    <3> QED BY <1>1, <1>3, <3>1, BackUpKeeps DEF RecoverInv, Recoverable
  <2> QED BY <1>1, <2>6, <2>7 DEF RecoverInv
<1> QED BY <1>2, <1>3 DEF Backup

LEMMA WriteOpenRecover == ASSUME LockInv, RecoverInv, NEW c \in Callers, WriteOpen(c)
                          PROVE  RecoverInv'
<1>1. /\ op[c].tool = "Write" /\ op[c].pc = "open" /\ Writing(c)
      /\ UNCHANGED <<file, backups, whole, mixed, harm>>
  BY DEF WriteOpen, RestSame, Writing
<1> SUFFICES ASSUME ~mixed PROVE RecoverInv'
  BY <1>1 DEF RecoverInv
<1>2. PICK i \in Inodes :
         /\ i # file /\ temp' = i /\ inode' = Put(i, Torn)
         /\ op' = [op EXCEPT ![c] = [op[c] EXCEPT !.fd = i, !.pc = "fill"]]
  BY OpenIsFresh
<1>3. PICK n : n = [op[c] EXCEPT !.fd = i, !.pc = "fill"]
  OBVIOUS
<1>4. n \in Call /\ n.pc = "fill" /\ n.tool = "Write" /\ n.fd = i
  <2>1. op[c] \in Call
    BY CallsTyped DEF LockInv
  <2> QED BY <1>1, <1>3, <2>1 DEF Call
<1>5. op' = [op EXCEPT ![c] = n]
  BY <1>2, <1>3
<1>6. op'[c] = n
  BY <1>4, <1>5, Moved DEF LockInv
<1>7. Torn \in Versions /\ i # 0
  BY FileAssumption DEF Torn, Versions, Inodes
<1>8. inode'[i].version = Torn /\ inode'[file] = inode[file]
  BY <1>2, <1>7, PutTyped DEF LockInv, FilesTyped
<1>9. Progress(c)'
  BY <1>2, <1>4, <1>6, <1>7, <1>8 DEF Progress
<1>10. /\ OneWriter' /\ \A d \in Callers : Progress(d)'
       /\ \A d \in Callers \ {c} : ~Writing(d)
  BY <1>1, <1>4, <1>5, <1>9, Sole DEF RecoverInv
<1>11. Recoverable'
  BY <1>1, <1>8, <1>10 DEF Recoverable, RecoverInv, Writing
<1> QED BY <1>1, <1>8, <1>10, <1>11 DEF RecoverInv

LEMMA EditOpenRecover == ASSUME LockInv, RecoverInv, NEW c \in Callers, EditOpen(c)
                         PROVE  RecoverInv'
<1>1. /\ op[c].tool = "Edit" /\ op[c].pc = "open" /\ Writing(c) /\ inode' = Put(file, Torn)
      /\ UNCHANGED <<file, temp, backups, whole, mixed, harm>>
  BY DEF EditOpen, Writing
<1> SUFFICES ASSUME ~mixed PROVE RecoverInv'
  BY <1>1 DEF RecoverInv
<1>2. PICK n : n = [op[c] EXCEPT !.fd = file, !.pc = "fill"]
  OBVIOUS
<1>3. n \in Call /\ n.pc = "fill" /\ n.tool = "Edit" /\ n.fd = file
  <2>1. op[c] \in Call /\ file \in Inodes
    BY CallsTyped DEF LockInv, FilesTyped
  <2> QED BY <1>1, <1>2, <2>1 DEF Call
<1>4. op' = [op EXCEPT ![c] = n]
  BY <1>2 DEF EditOpen, LockInv, FilesTyped, Call
<1>5. op'[c] = n
  BY <1>3, <1>4, Moved DEF LockInv
<1>6. Torn \in Versions
  BY FileAssumption DEF Torn, Versions
<1>7. inode'[file].version = Torn
  BY <1>1, <1>6, PutTyped DEF LockInv, FilesTyped
<1>8. Progress(c)'
  BY <1>1, <1>3, <1>5, <1>7 DEF Progress
<1>9. OneWriter' /\ \A d \in Callers : Progress(d)'
  BY <1>1, <1>3, <1>4, <1>8, Sole DEF RecoverInv
<1>10. "buried" \in harm \/ \E s \in DOMAIN backups : backups[s] = whole
  <2>1. /\ Progress(c) /\ Recoverable
        /\ inode[file].version # Torn => whole = inode[file].version
    BY DEF RecoverInv
  <2> QED BY <1>1, <2>1 DEF Progress, Recoverable
<1>11. Recoverable'
  BY <1>1, <1>3, <1>5, <1>10 DEF Recoverable
<1> QED BY <1>1, <1>7, <1>9, <1>11 DEF RecoverInv

LEMMA FillRecover == ASSUME LockInv, RecoverInv, NEW c \in Callers, Fill(c)
                     PROVE  RecoverInv'
<1>1. PICK fd, version : fd = op[c].fd /\ version = writes + 2
  OBVIOUS
<1>2. /\ op[c].pc = "fill" /\ writes < MaxWrites
      /\ UNCHANGED <<file, temp, backups, mixed>>
  BY DEF Fill, RestSame, End, Continue
<1> SUFFICES ASSUME ~mixed PROVE RecoverInv'
  BY <1>2 DEF RecoverInv
<1>3. version \in Versions /\ version # Torn
  BY <1>1, <1>2, FileAssumption DEF LockInv, FilesTyped, Versions, Torn
<1>4. Progress(c) /\ Shape(op[c]) /\ op[c] \in Call /\ fd \in Inodes
  <2>1. op[c] \in Call
    BY CallsTyped DEF LockInv
  <2> QED BY <1>1, <1>2, <2>1 DEF RecoverInv, LockInv, Shape, Call
<1>5. CASE op[c].tool = "Edit"
  <2>1. fd = file /\ inode[fd].version = Torn
    BY <1>1, <1>2, <1>4, <1>5 DEF Progress
  <2>2. inode' = Put(fd, version) /\ op' = [op EXCEPT ![c] = NoOp]
    BY <1>1, <1>5, <2>1 DEF Fill, End
  <2>3. inode'[file].version = version
    BY <1>3, <1>4, <2>1, <2>2, PutTyped DEF LockInv
  <2>4. whole' = version
    BY <1>1, <1>3, <2>1, <2>3 DEF Fill, Holds
  <2>5. NoOp \in Call /\ NoOp.tool = "none" /\ NoOp.pc = "idle"
    BY CallsTyped, Idle DEF LockInv
  <2>6. op'[c] = NoOp
    BY <2>2, <2>5, Moved DEF LockInv
  <2>7. Progress(c)' /\ Writing(c)
    BY <1>5, <2>5, <2>6 DEF Progress, Writing
  <2>8. OneWriter' /\ \A d \in Callers : Progress(d)'
    BY <2>2, <2>5, <2>7, Sole DEF RecoverInv
  <2>9. Recoverable'
    BY <1>2, <1>3, <2>3 DEF Recoverable
  <2> QED BY <1>2, <2>3, <2>4, <2>8, <2>9 DEF RecoverInv
<1>6. CASE op[c].tool # "Edit"
  <2>1. op[c].tool = "Write" /\ Writing(c)
    BY <1>2, <1>4, <1>6 DEF Shape, Call, Writing
  <2>2. fd = temp /\ temp # 0 /\ inode[fd].version = Torn /\ temp # file
    BY <1>1, <1>2, <1>4, <2>1 DEF Progress, LockInv, Stamped
  <2>3. inode' = Put(fd, version) /\ op' = [op EXCEPT ![c].pc = "replace"]
        /\ UNCHANGED <<whole, harm>>
    BY <1>1, <1>6, <2>2 DEF Fill, Continue
  <2>4. inode'[temp].version = version /\ inode'[file] = inode[file]
    BY <1>3, <1>4, <2>2, <2>3, PutTyped DEF LockInv, FilesTyped
  <2>5. PICK n : n = [op[c] EXCEPT !.pc = "replace"]
    OBVIOUS
  <2>6. n \in Call /\ n.tool = "Write" /\ n.pc = "replace"
    BY <2>1, <2>5, Continued DEF LockInv
  <2>7. op' = [op EXCEPT ![c] = n]
    BY <2>3, <2>5 DEF LockInv, FilesTyped, Call
  <2>8. op'[c] = n
    BY <2>6, <2>7, Moved DEF LockInv
  <2>9. Progress(c)'
    BY <1>2, <1>3, <2>2, <2>4, <2>6, <2>8 DEF Progress
  <2>10. /\ OneWriter' /\ \A d \in Callers : Progress(d)'
         /\ \A d \in Callers \ {c} : op'[d] = op[d] /\ ~Writing(d)
    BY <2>1, <2>6, <2>7, <2>9, Sole DEF RecoverInv
  <2>11. Recoverable'
    BY <1>2, <2>1, <2>3, <2>4, <2>10 DEF Recoverable, RecoverInv, Writing
  <2> QED BY <1>2, <2>3, <2>4, <2>10, <2>11 DEF RecoverInv
<1> QED BY <1>5, <1>6

LEMMA ReplaceRecover == ASSUME LockInv, RecoverInv, NEW c \in Callers, Replace(c)
                        PROVE  RecoverInv'
<1>1. /\ op[c].pc = "replace" /\ op[c].tool = "Write" /\ Writing(c)
      /\ op' = [op EXCEPT ![c] = NoOp]
      /\ UNCHANGED <<inode, backups, mixed>>
  BY DEF Replace, End, LockInv, Shape, Writing
<1> SUFFICES ASSUME ~mixed PROVE RecoverInv'
  BY <1>1 DEF RecoverInv
<1>2. temp # 0 /\ inode[temp].version # Torn
  BY <1>1 DEF RecoverInv, Progress
<1>3. file' = temp /\ whole' = inode[temp].version
  BY <1>2 DEF Replace, Holds
<1>4. NoOp \in Call /\ NoOp.tool = "none" /\ NoOp.pc = "idle"
  BY CallsTyped, Idle DEF LockInv
<1>5. op'[c] = NoOp
  BY <1>1, <1>4, Moved DEF LockInv
<1>6. Progress(c)'
  BY <1>4, <1>5 DEF Progress
<1>7. OneWriter' /\ \A d \in Callers : Progress(d)'
  BY <1>1, <1>4, <1>6, Sole DEF RecoverInv
<1>8. Recoverable'
  BY <1>1, <1>2, <1>3 DEF Recoverable
<1> QED BY <1>1, <1>3, <1>7, <1>8 DEF RecoverInv

(* A writer that fails is gone, and so is what it was writing.             *)
LEMMA FailRecover == ASSUME LockInv, RecoverInv, NEW c \in Callers, WriteFails(c)
                     PROVE  RecoverInv'
<1>1. /\ op[c].pc \in {"backup", "open", "fill", "replace"}
      /\ op' = [op EXCEPT ![c] = NoOp]
      /\ UNCHANGED <<file, temp, whole, mixed>>
  BY DEF WriteFails, End
<1> SUFFICES ASSUME ~mixed PROVE RecoverInv'
  BY <1>1 DEF RecoverInv
<1>2. Writing(c) /\ Progress(c)
  BY <1>1, CallsTyped DEF LockInv, Shape, Call, Writing, RecoverInv
<1>3. NoOp \in Call /\ NoOp.tool = "none" /\ NoOp.pc = "idle"
  BY CallsTyped, Idle DEF LockInv
<1>4. op'[c] = NoOp
  BY <1>1, <1>3, Moved DEF LockInv
<1>5. Progress(c)'
  BY <1>3, <1>4 DEF Progress
<1>6. /\ OneWriter' /\ \A d \in Callers : Progress(d)'
      /\ \A d \in Callers \ {c} : ~Writing(d)
  BY <1>1, <1>2, <1>3, <1>5, Sole DEF RecoverInv
<1>7. CASE op[c].pc = "backup"
  <2>1. BackUp(Torn) /\ UNCHANGED inode
    BY <1>7 DEF WriteFails
  <2>2. Recoverable'
    <3> SUFFICES ASSUME inode[file].version = Torn PROVE Recoverable'
      BY <1>1, <2>1 DEF Recoverable
    <3>1. "cut" \in harm
      BY <1>6, <1>7 DEF RecoverInv, Recoverable, Writing
    <3> QED BY <1>1, <2>1, <3>1, BackUpKeeps DEF RecoverInv, Recoverable
  <2> QED BY <1>1, <1>6, <2>1, <2>2 DEF RecoverInv
<1>8. CASE op[c].pc \in {"open", "replace"}
  <2>1. UNCHANGED <<inode, backups, harm>>
    BY <1>8 DEF WriteFails
  <2>2. Recoverable'
    BY <1>1, <1>6, <1>8, <2>1 DEF RecoverInv, Recoverable, Writing
  <2> QED BY <1>1, <1>6, <2>1, <2>2 DEF RecoverInv
<1>9. CASE op[c].pc = "fill" /\ op[c].tool = "Edit"
  <2>1. /\ inode' \in {inode, Put(file, Torn)} /\ harm' = harm \cup {"cut"}
        /\ UNCHANGED backups /\ inode[file].version = Torn
    BY <1>2, <1>9 DEF WriteFails, Progress
  <2>2. inode'[file].version = Torn
    <3>1. Torn \in Versions /\ file \in Inodes
      BY FileAssumption DEF Torn, Versions, LockInv, FilesTyped
    <3> QED BY <2>1, <3>1, PutTyped DEF LockInv
  <2>3. Recoverable'
    BY <1>1, <2>1 DEF RecoverInv, Recoverable
  <2> QED BY <1>1, <1>6, <2>2, <2>3 DEF RecoverInv
<1>10. CASE op[c].pc = "fill" /\ op[c].tool # "Edit"
  <2>1. op[c].tool = "Write"
    BY <1>2, <1>10 DEF Writing
  <2>2. /\ op[c].fd = temp /\ temp # 0 /\ temp # file
        /\ temp \in Inodes /\ file \in Inodes
    BY <1>2, <1>10, <2>1 DEF Progress, LockInv, Stamped, FilesTyped
  <2>3. inode' \in {inode, Put(temp, Torn)} /\ UNCHANGED <<backups, harm>>
    BY <1>10, <2>2 DEF WriteFails
  <2>4. inode'[file] = inode[file]
    <3>1. Torn \in Versions
      BY FileAssumption DEF Torn, Versions
    <3> QED BY <2>2, <2>3, <3>1, PutTyped DEF LockInv
  <2>5. Recoverable'
    BY <1>1, <1>6, <2>1, <2>3, <2>4 DEF RecoverInv, Recoverable, Writing
  <2> QED BY <1>1, <1>6, <2>3, <2>4, <2>5 DEF RecoverInv
<1> QED BY <1>1, <1>7, <1>8, <1>9, <1>10

LEMMA CrashRecover == ASSUME LockInv, RecoverInv, Crash PROVE RecoverInv'
<1>1. /\ UNCHANGED <<inode, file, temp, backups, whole, mixed>>
      /\ \A c \in Callers : op'[c] = NoOp
      /\ harm' = IF \E c \in Callers : op[c].tool = "Edit" /\ op[c].pc = "fill"
                 THEN harm \cup {"cut"} ELSE harm
  BY DEF Crash
<1> SUFFICES ASSUME ~mixed PROVE RecoverInv'
  BY <1>1 DEF RecoverInv
<1>2. NoOp.tool = "none" /\ NoOp.pc = "idle"
  BY Idle
<1>3. OneWriter' /\ \A d \in Callers : Progress(d)'
  BY <1>1, <1>2 DEF OneWriter, Writing, Progress
<1>4. Recoverable'
  BY <1>1 DEF RecoverInv, Recoverable
<1> QED BY <1>1, <1>3, <1>4 DEF RecoverInv

LEMMA SameRecover ==
    ASSUME RecoverInv, UNCHANGED <<inode, file, temp, backups, whole, op, mixed, harm>>
    PROVE  RecoverInv'
<1> SUFFICES ASSUME ~mixed PROVE RecoverInv'
  BY DEF RecoverInv
<1>1. OneWriter'
  BY DEF RecoverInv, OneWriter, Writing
<1> QED BY <1>1, StillThere

LEMMA RecoverStep == LockInv /\ RecoverInv /\ [FilesNext]_filesVars => RecoverInv'
<1> SUFFICES ASSUME LockInv, RecoverInv, [FilesNext]_filesVars PROVE RecoverInv'
  OBVIOUS
<1>1. ASSUME NEW c \in Callers, FileCall(c) PROVE RecoverInv'
  <2>1. CASE ReadStat(c)
    BY <2>1, EndRecover DEF ReadStat, End, FilesSame
  <2> QED BY <1>1, <2>1, ReadRecover, CheckRecover, LoadRecover, BackupRecover,
          WriteOpenRecover, EditOpenRecover, FillRecover, ReplaceRecover, FailRecover DEF FileCall
<1>2. CASE Tick
  BY <1>2, SameRecover DEF Tick, FilesSame
<1>3. CASE Crash
  BY <1>3, CrashRecover
<1>4. CASE UNCHANGED filesVars
  BY <1>4, SameRecover DEF filesVars
<1> QED BY <1>1, <1>2, <1>3, <1>4 DEF FilesNext

(* Whatever the callers do, whichever of their steps fails and whenever    *)
(* the process dies: unless two writing calls have overlapped, the backups *)
(* of _backup_file hold what an unfinished Edit has emptied, or a later    *)
(* call of the same second has buried it.                                  *)
THEOREM FilesRecoverable == FilesSpec => []Recoverable
<1>1. FilesInit => RecoverInv
  <2> SUFFICES ASSUME FilesInit PROVE RecoverInv
    OBVIOUS
  <2>1. NoOp.tool = "none" /\ NoOp.pc = "idle" /\ \A c \in Callers : op[c] = NoOp
    BY Idle DEF FilesInit
  <2>2. OneWriter /\ \A d \in Callers : Progress(d)
    BY <2>1 DEF OneWriter, Writing, Progress
  <2>3. inode[file].version = 1 /\ whole = 1 /\ Torn # 1
    BY FileAssumption DEF FilesInit, Inodes, Torn
  <2> QED BY <2>2, <2>3 DEF RecoverInv, Recoverable
<1>2. RecoverInv => Recoverable
  BY DEF RecoverInv, Recoverable
<1> QED BY <1>1, <1>2, FilesStart, LockStep, RecoverStep, PTL DEF FilesSpec

------------------------------------------------------------------------------
(* The development log.  The tool's list and the file are both in the      *)
(* order of writing, and both have what was reported as recorded: the one  *)
(* so that a restart keeps it, the other so that the next save does.       *)
Ordered(log) ==
    /\ log \in Seq(Nat)
    /\ \A i \in DOMAIN log : log[i] <= appended
    /\ \A i, j \in DOMAIN log : i < j => log[i] < log[j]

LogInv ==
    /\ appended \in Nat /\ Ordered(entries) /\ Ordered(logFile)
    /\ ~unread => told \subseteq ToSet(logFile) /\ told \subseteq ToSet(entries)

LEMMA AppendOrdered ==
    ASSUME appended \in Nat, NEW log, Ordered(log), NEW more, more = Append(log, appended + 1),
           appended' = appended + 1
    PROVE  /\ more \in Seq(Nat)
           /\ \A i \in DOMAIN more : more[i] <= appended'
           /\ \A i, j \in DOMAIN more : i < j => more[i] < more[j]
           /\ ToSet(more) = ToSet(log) \cup {appended + 1}
<1>1. /\ log \in Seq(Nat) /\ Len(log) \in Nat /\ DOMAIN log = 1..Len(log)
      /\ \A i \in 1..Len(log) : log[i] \in Nat /\ log[i] <= appended
      /\ \A i, j \in 1..Len(log) : i < j => log[i] < log[j]
  BY DEF Ordered
<1>2. /\ more \in Seq(Nat) /\ Len(more) = Len(log) + 1 /\ DOMAIN more = 1..(Len(log) + 1)
      /\ \A i \in 1..Len(log) : more[i] = log[i]
      /\ more[Len(log) + 1] = appended + 1
  BY <1>1
<1>3. \A i \in DOMAIN more : i = Len(log) + 1 \/ i \in 1..Len(log)
  BY <1>1, <1>2
<1>4. \A i \in DOMAIN more : more[i] <= appended'
  BY <1>1, <1>2, <1>3
<1>5. \A i, j \in DOMAIN more : i < j => more[i] < more[j]
  <2> SUFFICES ASSUME NEW i \in DOMAIN more, NEW j \in DOMAIN more, i < j
               PROVE  more[i] < more[j]
    OBVIOUS
  <2>1. i \in 1..Len(log)
    BY <1>1, <1>2
  <2> QED BY <1>1, <1>2, <1>3, <2>1
<1>6. ToSet(more) = ToSet(log) \cup {appended + 1}
  <2>1. ASSUME NEW x \in ToSet(more) PROVE x \in ToSet(log) \cup {appended + 1}
    <3>1. PICK i \in DOMAIN more : x = more[i]
      BY <2>1 DEF ToSet
    <3> QED BY <1>1, <1>2, <1>3, <3>1 DEF ToSet
  <2>2. ASSUME NEW x \in ToSet(log) PROVE x \in ToSet(more)
    <3>1. PICK i \in DOMAIN log : x = log[i]
      BY <2>2 DEF ToSet
    <3>2. i \in DOMAIN more /\ more[i] = x
      BY <1>1, <1>2, <3>1
    <3> QED BY <3>2 DEF ToSet
  <2>3. appended + 1 \in ToSet(more)
    <3>1. Len(log) + 1 \in DOMAIN more
      BY <1>1, <1>2
    <3> QED BY <1>2, <3>1 DEF ToSet
  <2> QED BY <2>1, <2>2, <2>3
<1> QED BY <1>2, <1>4, <1>5, <1>6

LEMMA LogStep == LogInv /\ [NotesNext]_notesVars => LogInv'
<1> SUFFICES ASSUME LogInv, [NotesNext]_notesVars PROVE LogInv'
  OBVIOUS
<1>1. CASE LogAppend
  <2>1. PICK more : more = Append(entries, appended + 1)
    OBVIOUS
  <2>2. /\ appended' = appended + 1 /\ entries' = more /\ unread' = unread
        /\ \/ logFile' = more /\ told' = told \cup {appended + 1}
           \/ logFile' = logFile /\ told' = told
    BY <1>1, <2>1 DEF LogAppend
  <2>3. /\ more \in Seq(Nat)
        /\ \A i \in DOMAIN more : more[i] <= appended'
        /\ \A i, j \in DOMAIN more : i < j => more[i] < more[j]
        /\ ToSet(more) = ToSet(entries) \cup {appended + 1}
    BY <2>1, <2>2, AppendOrdered DEF LogInv
  <2>4. Ordered(entries)'
    BY <2>2, <2>3 DEF Ordered
  <2>5. logFile' = logFile => Ordered(logFile)'
    <3> SUFFICES ASSUME logFile' = logFile PROVE Ordered(logFile)'
      OBVIOUS
    <3>1. \A i \in DOMAIN logFile : logFile[i] \in Nat /\ logFile[i] <= appended
      BY DEF LogInv, Ordered
    <3>2. \A i \in DOMAIN logFile : logFile[i] <= appended'
      BY <2>2, <3>1 DEF LogInv
    <3> QED BY <3>2 DEF LogInv, Ordered
  <2>6. Ordered(logFile)'
    BY <2>2, <2>4, <2>5 DEF Ordered
  <2>7. ~unread' => told' \subseteq ToSet(logFile') /\ told' \subseteq ToSet(entries')
    BY <2>2, <2>3 DEF LogInv
  <2> QED BY <2>2, <2>4, <2>6, <2>7 DEF LogInv
<1>2. CASE LogClear
  <2>1. /\ appended' = appended /\ told' = {} /\ entries' = <<>>
        /\ logFile' = <<>> \/ logFile' = logFile
    BY <1>2 DEF LogClear
  <2>2. Ordered(<<>>)
    BY DEF Ordered
  <2>3. Ordered(entries)' /\ Ordered(logFile)'
    BY <2>1, <2>2 DEF LogInv, Ordered
  <2> QED BY <2>1, <2>3 DEF LogInv
<1>3. CASE Restart
  <2>1. /\ appended' = appended /\ told' = told /\ logFile' = logFile
        /\ \/ entries' = logFile /\ unread' = unread
           \/ entries' = <<>> /\ unread' = TRUE
    BY <1>3 DEF Restart
  <2>2. Ordered(<<>>)
    BY DEF Ordered
  <2>3. Ordered(entries)' /\ Ordered(logFile)'
    BY <2>1, <2>2 DEF LogInv, Ordered
  <2> QED BY <2>1, <2>3 DEF LogInv
<1>4. CASE UNCHANGED logVars
  BY <1>4 DEF logVars, LogInv, Ordered
<1> QED BY <1>1, <1>2, <1>3, <1>4
    DEF NotesNext, TodoWrite, TodoClear, TodoLoad, NextSecond, notesVars, logVars

(* What DevLogTool._handle_append has reported as recorded is in the file, *)
(* in the order of writing, for any number of entries and restarts.        *)
THEOREM RecordedIsKept == NotesSpec => []LogAcknowledged
<1>1. NotesInit => LogInv
  <2> SUFFICES ASSUME NotesInit PROVE LogInv
    OBVIOUS
  <2>1. appended = 0 /\ entries = <<>> /\ logFile = <<>> /\ told = {}
    BY DEF NotesInit
  <2> QED BY <2>1 DEF LogInv, Ordered
<1>2. LogInv => LogAcknowledged
  BY DEF LogInv, Ordered, LogAcknowledged
<1> QED BY <1>1, <1>2, LogStep, PTL DEF NotesSpec

------------------------------------------------------------------------------
(* The agents that reconcile.  While no two live at once, who writes a     *)
(* file is known from what the one agent does, and what it has in its      *)
(* dictionaries is the history.  In what follows st, rv, ln and mm are     *)
(* stage, reviews, learned and memory, lib, ep and dk library, episodes    *)
(* and disk, n is ended, fd is found and no is refused.                    *)
Working == {"idle", "running", "saving"}
Review == [left : SUBSET Skills, saving : BOOLEAN]
Disk == [torn : BOOLEAN, writers : SUBSET Agents, late : SUBSET Agents, broken : BOOLEAN]

AgentTyped ==
    /\ stage \in [Agents -> {"none", "created"} \cup Working]
    /\ reviews \in [Agents -> Seq(Review)]
    /\ learned \in [Agents -> [Skills -> Nat]] /\ library \in [Skills -> Nat]
    /\ found \in [Skills -> Nat]
    /\ memory \in [Agents -> Seq(Nat)] /\ episodes \in Seq(Nat) /\ ended \in Nat
    /\ disk \in [Files -> Disk]
    /\ refused \in [runs : SUBSET Nat, skills : SUBSET Skills]

SavesOne(reviewing) == \E i \in DOMAIN reviewing : reviewing[i].saving

Writes(f, s, reviewing) ==
    \/ f = "semantic" /\ s = "created"
    \/ f = "episodic" /\ s = "saving"
    \/ f = "skills" /\ SavesOne(reviewing)

(* The runs up to the n-th in their order, without some of those refused,  *)
(* and, if the entries are as many as a file keeps, without earlier ones.  *)
Tells(m, n, no) ==
    /\ m \in Seq(Nat)
    /\ \A i, j \in 1..Len(m) : i < j => m[i] < m[j]
    /\ \A i \in 1..Len(m) : m[i] <= n
    /\ \A k \in 1..n : \/ \E i \in 1..Len(m) : m[i] = k
                       \/ k \in no
                       \/ Len(m) >= KeepLast /\ k < m[1]

(* The skills as often as they were found, but for those refused.          *)
Tallies(uses, fd, no) ==
    \A s \in Skills : uses[s] <= fd[s] /\ (s \notin no => uses[s] = fd[s])

(* Torn, and not by a save that broke off in this process.                 *)
Cut(d) == d.torn /\ ~d.broken

Dead(b, st, rv) == st[b] = "none" /\ rv[b] = <<>>

(* What is in the files unless they are torn.                              *)
FilesKnown(lib, ep, dk, n, fd, no) ==
    /\ dk["skills"].torn \/ Tallies(lib, fd, no.skills)
    /\ dk["episodic"].torn \/ (Tells(ep, n, no.runs) /\ Len(ep) <= KeepLast)

(* What is known when at most a lives: a torn file that it does not write  *)
(* is from an exit or a save that broke off, and its dictionaries are up   *)
(* to date.  One review at a time has the lock.                            *)
Known(a, st, rv, ln, mm, lib, ep, dk, n, fd, no) ==
    /\ \A b \in Agents \ {a} : Dead(b, st, rv)
    /\ \A f \in Files : /\ dk[f].late = {}
                        /\ dk[f].writers = IF Writes(f, st[a], rv[a]) THEN {a} ELSE {}
    /\ \A i, j \in DOMAIN rv[a] : rv[a][i].saving /\ rv[a][j].saving => i = j
    /\ Cut(dk["semantic"]) => st[a] = "created" \/ Dead(a, st, rv)
    /\ Cut(dk["episodic"]) => st[a] = "saving" \/ Dead(a, st, rv)
    /\ Cut(dk["skills"]) =>
          SavesOne(rv[a]) \/ (st[a] \in {"none", "created"} /\ rv[a] = <<>>)
    /\ st[a] = "created" => rv[a] = <<>>
    /\ st[a] \in Working \/ rv[a] # <<>> => Tallies(ln[a], fd, no.skills)
    /\ st[a] # "none" => Tells(mm[a], n, no.runs)
    /\ FilesKnown(lib, ep, dk, n, fd, no)

AllDead(st, rv, lib, ep, dk, n, fd, no) ==
    /\ \A b \in Agents : Dead(b, st, rv)
    /\ \A f \in Files : dk[f].late = {} /\ dk[f].writers = {}
    /\ FilesKnown(lib, ep, dk, n, fd, no)

HistoryKnown ==
    \/ AllDead(stage, reviews, library, episodes, disk, ended, found, refused)
    \/ \E a \in Agents :
          Known(a, stage, reviews, learned, memory, library, episodes, disk, ended, found,
                refused)

AgentInv == AgentTyped /\ (~together => HistoryKnown)

LEMMA LastOfIs ==
    ASSUME NEW m \in Seq(Nat), NEW g, g = LastOf(m)
    PROVE  /\ g \in Seq(Nat)
           /\ Len(g) = IF Len(m) <= KeepLast THEN Len(m) ELSE KeepLast
           /\ \A i \in 1..Len(g) : g[i] = m[Len(m) - Len(g) + i]
<1>1. PICK L, k : L = Len(m) /\ k = (IF L <= KeepLast THEN 1 ELSE L - KeepLast + 1)
  OBVIOUS
<1>2. L \in Nat /\ KeepLast \in Nat /\ KeepLast > 0 /\ k \in Nat /\ k >= 1 /\ k <= L + 1
  BY <1>1, ReconAgentAssumption
<1>3. Max({1, L - KeepLast + 1}) = k
  <2>1. PICK S : S = {1, L - KeepLast + 1}
    OBVIOUS
  <2>2. k \in S /\ (\A y \in S : k >= y) /\ \A x \in S : x \in Int
    BY <1>1, <1>2, <2>1
  <2>3. \A x \in S : (\A y \in S : x >= y) => x = k
    BY <2>2
  <2>4. (CHOOSE x \in S : \A y \in S : x >= y) = k
    BY <2>2, <2>3
  <2> QED BY <2>1, <2>4 DEF Max
<1>4. g = SubSeq(m, k, L)
  BY <1>1, <1>3 DEF LastOf
<1>5. /\ g \in Seq(Nat) /\ Len(g) = L - k + 1
      /\ \A i \in 1..(L - k + 1) : g[i] = m[k + i - 1]
  <2>1. CASE L = 0
    <3>1. k = 1
      BY <1>1, <1>2, <2>1
    <3> QED BY <1>1, <1>2, <1>4, <2>1, <3>1
  <2>2. CASE L > 0
    <3>1. k \in 1..L
      BY <1>1, <1>2, <2>2
    <3>2. L = Len(m) /\ L \in Nat /\ k \in Nat /\ m \in Seq(Nat)
      BY <1>1, <1>2
    <3>3. /\ SubSeq(m, k, L) \in Seq(Nat) /\ Len(SubSeq(m, k, L)) = L - k + 1
          /\ \A i \in 1..(L - k + 1) : SubSeq(m, k, L)[i] = m[k + i - 1]
      BY ONLY <3>1, <3>2
    <3> QED BY <1>4, <3>3
  <2> QED BY <1>2, <2>1, <2>2
<1>6. Len(g) = IF L <= KeepLast THEN L ELSE KeepLast
  BY <1>1, <1>2, <1>5
<1>7. ASSUME NEW i \in 1..Len(g) PROVE g[i] = m[L - Len(g) + i]
  <2>1. k + i - 1 = L - Len(g) + i /\ i \in 1..(L - k + 1)
    BY <1>2, <1>5
  <2>2. g[i] = m[k + i - 1]
    BY <1>5, <2>1
  <2> QED BY <2>1, <2>2
<1> QED BY <1>1, <1>5, <1>6, <1>7

(* What a save keeps of a memory tells as much as the memory ...           *)
LEMMA TellsLast ==
    ASSUME NEW n \in Nat, NEW no, NEW m, Tells(m, n, no), NEW g, g = LastOf(m)
    PROVE  Tells(g, n, no) /\ Len(g) <= KeepLast
<1>1. PICK L, K : L = Len(m) /\ K = KeepLast
  OBVIOUS
<1>2. /\ L \in Nat /\ K \in Nat /\ K > 0
      /\ \A i, j \in 1..L : i < j => m[i] < m[j]
      /\ \A i \in 1..L : m[i] <= n /\ m[i] \in Nat
      /\ \A k \in 1..n : \/ \E i \in 1..L : m[i] = k
                         \/ k \in no
                         \/ L >= K /\ k < m[1]
  BY <1>1, ReconAgentAssumption DEF Tells
<1>3. PICK G, d : G = Len(g) /\ d = L - G
  OBVIOUS
<1>4. /\ g \in Seq(Nat) /\ G = (IF L <= K THEN L ELSE K)
      /\ \A i \in 1..G : g[i] = m[d + i]
  <2>1. m \in Seq(Nat)
    BY DEF Tells
  <2>2. /\ g \in Seq(Nat) /\ Len(g) = (IF Len(m) <= KeepLast THEN Len(m) ELSE KeepLast)
        /\ \A i \in 1..Len(g) : g[i] = m[Len(m) - Len(g) + i]
    BY <2>1, LastOfIs
  <2> QED BY <1>1, <1>3, <2>2
<1>5. /\ G \in Nat /\ d \in Nat /\ G = L - d /\ G <= K
      /\ \A i \in 1..G : d + i \in 1..L
  BY <1>2, <1>3, <1>4
<1>6. \A i, j \in 1..G : i < j => g[i] < g[j]
  <2> SUFFICES ASSUME NEW i \in 1..G, NEW j \in 1..G, i < j PROVE g[i] < g[j]
    OBVIOUS
  <2>1. d + i < d + j /\ d + i \in 1..L /\ d + j \in 1..L
    BY <1>5
  <2>2. m[d + i] < m[d + j]
    BY <1>2, <2>1
  <2> QED BY <1>4, <2>2
<1>7. \A i \in 1..G : g[i] <= n
  BY <1>2, <1>4, <1>5
<1>8. ASSUME L >= K
      PROVE  /\ G = K /\ 1 \in 1..G /\ 1 \in 1..L /\ g[1] = m[d + 1] /\ d + 1 \in 1..L
             /\ m[1] \in Nat /\ m[d + 1] \in Nat
  <2>1. G = K /\ 1 \in 1..G /\ 1 \in 1..L
    BY <1>2, <1>4, <1>8
  <2> QED BY <1>2, <1>4, <1>5, <2>1
<1>9. ASSUME NEW k \in 1..n, L >= K, k < m[1] PROVE G >= K /\ k < g[1]
  <2>1. m[1] <= m[d + 1]
    <3>1. CASE d = 0
      BY <1>8, <1>9, <3>1
    <3>2. CASE d # 0
      <4>1. 1 < d + 1
        BY <1>5, <3>2
      <4>2. m[1] < m[d + 1]
        BY <1>2, <1>8, <1>9, <4>1
      <4> QED BY <1>8, <1>9, <4>2
    <3> QED BY <3>1, <3>2
  <2> QED BY <1>2, <1>8, <1>9, <2>1
<1>10. ASSUME NEW k \in 1..n, NEW i \in 1..L, m[i] = k
       PROVE  (\E j \in 1..G : g[j] = k) \/ (G >= K /\ k < g[1])
  <2>1. CASE i > d
    <3>1. i - d \in 1..G /\ d + (i - d) = i
      BY <1>2, <1>5, <2>1
    <3> QED BY <1>4, <1>10, <3>1
  <2>2. CASE i <= d
    <3>1. L >= K /\ i < d + 1
      BY <1>2, <1>3, <1>4, <1>5, <2>2
    <3>2. m[i] < m[d + 1]
      BY <1>2, <1>8, <3>1
    <3> QED BY <1>2, <1>8, <1>10, <3>1, <3>2
  <2> QED BY <1>5, <2>1, <2>2
<1>11. \A k \in 1..n : (\E i \in 1..G : g[i] = k) \/ k \in no \/ (G >= K /\ k < g[1])
  BY <1>2, <1>9, <1>10
<1> QED BY <1>1, <1>3, <1>4, <1>5, <1>6, <1>7, <1>11 DEF Tells

(* ... one more run may be appended to it, ...                             *)
LEMMA TellsAppend ==
    ASSUME NEW n \in Nat, NEW no, NEW m, Tells(m, n, no)
    PROVE  Tells(Append(m, n + 1), n + 1, no)
<1>1. PICK k : k = Append(m, n + 1)
  OBVIOUS
<1>2. /\ m \in Seq(Nat) /\ Len(m) \in Nat /\ KeepLast \in Nat \ {0}
      /\ \A i, j \in 1..Len(m) : i < j => m[i] < m[j]
      /\ \A i \in 1..Len(m) : m[i] <= n /\ m[i] \in Nat
      /\ \A l \in 1..n : \/ \E i \in 1..Len(m) : m[i] = l
                         \/ l \in no
                         \/ Len(m) >= KeepLast /\ l < m[1]
  BY ReconAgentAssumption DEF Tells
<1>3. /\ k \in Seq(Nat) /\ Len(k) = Len(m) + 1 /\ k[Len(m) + 1] = n + 1
      /\ \A i \in 1..Len(m) : k[i] = m[i] /\ i \in 1..Len(k)
  BY <1>1, <1>2
<1>4. \A i \in 1..Len(k) : i \in 1..Len(m) \/ i = Len(m) + 1
  BY <1>2, <1>3
<1>5. \A i, j \in 1..Len(k) : i < j => k[i] < k[j]
  <2> SUFFICES ASSUME NEW i \in 1..Len(k), NEW j \in 1..Len(k), i < j PROVE k[i] < k[j]
    OBVIOUS
  <2>1. i \in 1..Len(m)
    BY <1>2, <1>3
  <2>2. CASE j \in 1..Len(m)
    BY <1>2, <1>3, <2>1, <2>2
  <2>3. CASE j = Len(m) + 1
    BY <1>2, <1>3, <2>1, <2>3
  <2> QED BY <1>4, <2>2, <2>3
<1>6. ASSUME NEW i \in 1..Len(k) PROVE k[i] <= n + 1
  <2>1. CASE i \in 1..Len(m)
    <3>1. k[i] = m[i] /\ m[i] <= n /\ m[i] \in Nat
      BY <1>2, <1>3, <2>1
    <3> QED BY <3>1
  <2>2. CASE i = Len(m) + 1
    BY <1>3, <2>2
  <2> QED BY <1>4, <2>1, <2>2
<1>7. ASSUME NEW l \in 1..(n + 1)
      PROVE  \/ \E i \in 1..Len(k) : k[i] = l
             \/ l \in no
             \/ Len(k) >= KeepLast /\ l < k[1]
  <2>1. CASE l = n + 1
    BY <1>2, <1>3, <2>1
  <2>2. CASE l # n + 1
    <3>1. l \in 1..n
      BY <2>2
    <3>2. Len(m) >= KeepLast => 1 \in 1..Len(m) /\ Len(k) >= KeepLast
      BY <1>2, <1>3
    <3> QED BY <1>2, <1>3, <3>1, <3>2
  <2> QED BY <2>1, <2>2
<1> QED BY <1>1, <1>3, <1>5, <1>6, <1>7 DEF Tells

(* ... or be refused.                                                      *)
LEMMA TellsMore ==
    ASSUME NEW n \in Nat, NEW no, NEW m, Tells(m, n, no)
    PROVE  Tells(m, n + 1, no \cup {n + 1})
<1>1. ASSUME NEW k \in 1..(n + 1), k # n + 1 PROVE k \in 1..n
  BY <1>1
<1>2. /\ m \in Seq(Nat)
      /\ \A i, j \in 1..Len(m) : i < j => m[i] < m[j]
      /\ \A i \in 1..Len(m) : m[i] <= n /\ m[i] \in Nat
      /\ \A k \in 1..n : \/ \E i \in 1..Len(m) : m[i] = k
                         \/ k \in no
                         \/ Len(m) >= KeepLast /\ k < m[1]
  BY DEF Tells
<1>3. \A i \in 1..Len(m) : m[i] <= n + 1
  BY <1>2
<1> QED BY <1>1, <1>2, <1>3 DEF Tells

LEMMA AgentStart == ReconAgentInit => AgentInv
<1> SUFFICES ASSUME ReconAgentInit PROVE AgentInv
  OBVIOUS
<1>1. /\ stage = [a \in Agents |-> "none"] /\ reviews = [a \in Agents |-> <<>>]
      /\ learned = [a \in Agents |-> Never] /\ library = Never /\ found = Never
      /\ memory = [a \in Agents |-> <<>>] /\ episodes = <<>> /\ ended = 0
      /\ disk = [f \in Files |-> [torn |-> FALSE, writers |-> {}, late |-> {},
                                  broken |-> FALSE]]
      /\ refused = [runs |-> {}, skills |-> {}]
  BY DEF ReconAgentInit
<1>2. Never \in [Skills -> Nat]
  BY DEF Never
<1>3. AgentTyped
  BY <1>1, <1>2 DEF AgentTyped, Disk
<1>4. Tells(episodes, ended, refused.runs) /\ Len(episodes) <= KeepLast
  BY <1>1, ReconAgentAssumption DEF Tells
<1>5. Tallies(library, found, refused.skills)
  BY <1>1 DEF Tallies, Never
<1>6. AllDead(stage, reviews, library, episodes, disk, ended, found, refused)
  BY <1>1, <1>4, <1>5 DEF AllDead, Dead, FilesKnown, Files
<1> QED BY <1>3, <1>6 DEF AgentInv, HistoryKnown

(* Opening and closing of a file.                                          *)
LEMMA OpenIs ==
    ASSUME AgentTyped, NEW f \in Files, NEW a \in Agents, OpenFile(f, a)
    PROVE  /\ disk' \in [Files -> Disk]
           /\ disk'[f] = [torn |-> TRUE, writers |-> disk[f].writers \cup {a}, late |-> {},
                          broken |-> FALSE]
           /\ \A g \in Files : g # f => disk'[g] = disk[g]
BY DEF AgentTyped, OpenFile, Disk

LEMMA LeaveIs ==
    ASSUME AgentTyped, NEW f \in Files, NEW a \in Agents, NEW torn, NEW broken,
           torn \in BOOLEAN, broken \in BOOLEAN, LeaveFile(f, a, torn, broken)
    PROVE  /\ disk' \in [Files -> Disk]
           /\ \A g \in Files : g # f => disk'[g] = disk[g]
           /\ disk'[f] = [torn |-> torn, writers |-> disk[f].writers \ {a},
                          late |-> disk[f].writers \ {a}, broken |-> broken]
<1>1. PICK d, e : /\ d = disk[f]
                  /\ e = [torn |-> torn, writers |-> d.writers \ {a},
                          late |-> d.writers \ {a}, broken |-> broken]
  OBVIOUS
<1>2. disk \in [Files -> Disk] /\ d.writers \in SUBSET Agents
  BY <1>1 DEF AgentTyped, Disk
<1>3. e \in Disk
  BY <1>1, <1>2 DEF Disk
<1>4. disk' = [disk EXCEPT ![f] = e]
  BY <1>1 DEF LeaveFile
<1> QED BY <1>1, <1>2, <1>3, <1>4

LEMMA CloseIs ==
    ASSUME AgentTyped, NEW f \in Files, NEW a \in Agents, CloseFile(f, a) \/ BreakOff(f, a)
    PROVE  /\ disk' \in [Files -> Disk]
           /\ \A g \in Files : g # f => disk'[g] = disk[g]
           /\ BreakOff(f, a) => disk'[f].torn
           /\ disk[f].late = {} /\ disk[f].writers = {a} =>
                 disk'[f].late = {} /\ disk'[f].writers = {} /\ ~Cut(disk'[f])
<1>1. PICK torn, broken : /\ torn \in BOOLEAN /\ broken \in BOOLEAN
                          /\ LeaveFile(f, a, torn, broken)
                          /\ torn => broken \/ a \in disk[f].late
                          /\ BreakOff(f, a) => torn
  <2>1. TRUE \in BOOLEAN /\ FALSE \in BOOLEAN
    OBVIOUS
  <2>2. CASE BreakOff(f, a)
    BY <2>1, <2>2, Zenon DEF BreakOff
  <2>3. CASE ~BreakOff(f, a)
    BY <2>1, <2>3, Zenon DEF CloseFile
  <2> QED BY <2>2, <2>3
<1>2. /\ disk' \in [Files -> Disk]
      /\ \A g \in Files : g # f => disk'[g] = disk[g]
      /\ disk'[f] = [torn |-> torn, writers |-> disk[f].writers \ {a},
                     late |-> disk[f].writers \ {a}, broken |-> broken]
  BY <1>1, LeaveIs
<1>3. /\ disk'[f].torn = torn /\ disk'[f].broken = broken
      /\ disk'[f].writers = disk[f].writers \ {a} /\ disk'[f].late = disk[f].writers \ {a}
  BY <1>2
<1>4. disk[f].late = {} /\ disk[f].writers = {a} =>
         disk'[f].late = {} /\ disk'[f].writers = {} /\ ~Cut(disk'[f])
  <2> SUFFICES ASSUME disk[f].late = {}, disk[f].writers = {a}
               PROVE  disk'[f].late = {} /\ disk'[f].writers = {} /\ ~Cut(disk'[f])
    OBVIOUS
  <2>1. disk[f].writers \ {a} = {}
    OBVIOUS
  <2>2. torn => broken
    BY <1>1
  <2>3. ~Cut(disk'[f])
    BY <1>3, <2>2, Zenon DEF Cut
  <2> QED BY <1>3, <2>1, <2>3
<1>5. BreakOff(f, a) => disk'[f].torn
  BY <1>1, <1>3, Zenon
<1> QED BY <1>2, <1>4, <1>5

(* RemoveAt takes a review out.                                            *)
LEMMA RemoveIs ==
    ASSUME NEW S, NEW s \in Seq(S), NEW i \in DOMAIN s, NEW t, t = RemoveAt(s, i)
    PROVE  /\ t \in Seq(S)
           /\ \A j \in DOMAIN t : \E k \in DOMAIN s : k # i /\ t[j] = s[k]
<1>1. PICK n, u, v : n = Len(s) /\ u = SubSeq(s, 1, i - 1) /\ v = SubSeq(s, i + 1, n)
  OBVIOUS
<1>2. n \in Nat /\ i \in 1..n /\ DOMAIN s = 1..n
  BY <1>1
<1>3. u \in Seq(S) /\ Len(u) = i - 1 /\ \A j \in 1..(i - 1) : u[j] = s[j]
  BY <1>1, <1>2
<1>4. v \in Seq(S) /\ Len(v) = n - i /\ \A j \in 1..(n - i) : v[j] = s[i + j]
  BY <1>1, <1>2
<1>5. t = u \o v
  BY <1>1 DEF RemoveAt
<1>6. /\ t \in Seq(S) /\ Len(t) = n - 1 /\ DOMAIN t = 1..(n - 1)
      /\ \A j \in 1..(n - 1) : t[j] = IF j <= i - 1 THEN u[j] ELSE v[j - (i - 1)]
  <2>1. u \in Seq(S) /\ v \in Seq(S) /\ t = u \o v
    BY <1>3, <1>4, <1>5
  <2>2. /\ t \in Seq(S) /\ Len(t) = Len(u) + Len(v) /\ DOMAIN t = 1..(Len(u) + Len(v))
        /\ \A j \in 1..(Len(u) + Len(v)) : t[j] = IF j <= Len(u) THEN u[j] ELSE v[j - Len(u)]
    BY ONLY <2>1
  <2>3. Len(u) = i - 1 /\ Len(u) + Len(v) = n - 1
    BY <1>2, <1>3, <1>4
  <2> QED BY <2>2, <2>3
<1>7. ASSUME NEW j \in 1..(n - 1) PROVE \E k \in 1..n : k # i /\ t[j] = s[k]
  <2>1. CASE j <= i - 1
    <3>1. j \in 1..(i - 1) /\ j \in 1..n /\ j # i
      BY <1>2, <2>1
    <3> QED BY <1>3, <1>6, <2>1, <3>1
  <2>2. CASE ~(j <= i - 1)
    <3>1. j - (i - 1) \in 1..(n - i) /\ i + (j - (i - 1)) = j + 1 /\ j + 1 \in 1..n /\ j + 1 # i
      BY <1>2, <2>2
    <3>2. t[j] = v[j - (i - 1)]
      BY <1>6, <2>2
    <3>3. v[j - (i - 1)] = s[j + 1]
      BY <1>4, <3>1
    <3> QED BY <3>1, <3>2, <3>3
  <2> QED BY <2>1, <2>2
<1> QED BY <1>2, <1>6, <1>7

LEMMA LearnIs ==
    ASSUME AgentTyped, NEW a \in Agents, NEW i \in DOMAIN reviews[a], NEW s \in Skills,
           Learn(a, i, s)
    PROVE  /\ learned' \in [Agents -> [Skills -> Nat]] /\ found' \in [Skills -> Nat]
           /\ \A no : Tallies(learned[a], found, no) => Tallies(learned'[a], found', no)
           /\ \A no : Tallies(library, found, no) => Tallies(library, found', no \cup {s})
<1>1. PICK l, k : l = learned[a] /\ k = [l EXCEPT ![s] = @ + 1]
  OBVIOUS
<1>2. /\ l \in [Skills -> Nat] /\ k \in [Skills -> Nat] /\ learned' = [learned EXCEPT ![a] = k]
      /\ found' = [found EXCEPT ![s] = @ + 1]
  BY <1>1 DEF AgentTyped, Learn
<1>3. /\ learned' \in [Agents -> [Skills -> Nat]] /\ learned'[a] = k
      /\ found \in [Skills -> Nat] /\ found' \in [Skills -> Nat]
      /\ library \in [Skills -> Nat]
  BY <1>2 DEF AgentTyped
<1>4. \A t \in Skills : IF t = s THEN k[t] = l[t] + 1 /\ found'[t] = found[t] + 1
                        ELSE k[t] = l[t] /\ found'[t] = found[t]
  BY <1>1, <1>2, <1>3
<1>5. ASSUME NEW no, Tallies(l, found, no) PROVE Tallies(k, found', no)
  <2>1. ASSUME NEW t \in Skills PROVE k[t] <= found'[t] /\ (t \notin no => k[t] = found'[t])
    <3>1. l[t] <= found[t] /\ (t \notin no => l[t] = found[t]) /\ l[t] \in Nat /\ found[t] \in Nat
      BY <1>2, <1>3, <1>5 DEF Tallies
    <3>2. CASE t = s
      BY <1>4, <3>1, <3>2
    <3>3. CASE t # s
      BY <1>4, <3>1, <3>3
    <3> QED BY <3>2, <3>3
  <2> QED BY <2>1 DEF Tallies
<1>6. ASSUME NEW no, Tallies(library, found, no) PROVE Tallies(library, found', no \cup {s})
  <2>1. ASSUME NEW t \in Skills
        PROVE  library[t] <= found'[t] /\ (t \notin no \cup {s} => library[t] = found'[t])
    <3>1. /\ library[t] <= found[t] /\ (t \notin no => library[t] = found[t])
          /\ library[t] \in Nat /\ found[t] \in Nat
      BY <1>3, <1>6 DEF Tallies
    <3>2. CASE t = s
      BY <1>4, <3>1, <3>2
    <3>3. CASE t # s
      BY <1>4, <3>1, <3>3
    <3> QED BY <3>2, <3>3
  <2> QED BY <2>1 DEF Tallies
<1> QED BY <1>1, <1>3, <1>5, <1>6

LEMMA SaveSkillIs ==
    ASSUME AgentTyped, NEW a \in Agents, NEW i \in DOMAIN reviews[a], NEW s \in Skills,
           SaveSkill(a, i, s)
    PROVE  /\ reviews' \in [Agents -> Seq(Review)]
           /\ \A b \in Agents : b # a => reviews'[b] = reviews[b]
           /\ reviews'[a] # <<>> /\ i \in DOMAIN reviews'[a] /\ reviews'[a][i].saving
           /\ \A j \in DOMAIN reviews'[a] : j # i => ~reviews'[a][j].saving
<1>1. PICK q, r, w : /\ q = reviews[a] /\ r = [left |-> q[i].left \ {s}, saving |-> TRUE]
                     /\ w = [q EXCEPT ![i] = r]
  OBVIOUS
<1>2. /\ reviews \in [Agents -> Seq(Review)] /\ q \in Seq(Review) /\ q[i] \in Review
      /\ i \in DOMAIN q
  BY <1>1 DEF AgentTyped
<1>3. r \in Review /\ r.saving
  <2>1. q[i].left \in SUBSET Skills
    BY <1>2 DEF Review
  <2> QED BY <1>1, <2>1 DEF Review
<1>4. w \in Seq(Review) /\ DOMAIN w = DOMAIN q /\ w[i] = r /\ w # <<>>
      /\ \A j \in DOMAIN q : j # i => w[j] = q[j]
  BY <1>1, <1>2, <1>3
<1>5. reviews' = [reviews EXCEPT ![a] = w]
  BY <1>1 DEF SaveSkill
<1>6. reviews' \in [Agents -> Seq(Review)] /\ reviews'[a] = w
      /\ \A b \in Agents : b # a => reviews'[b] = reviews[b]
  BY <1>2, <1>4, <1>5
<1>7. \A j \in DOMAIN q : ~q[j].saving
  BY <1>1 DEF SaveSkill, Learn
<1> QED BY <1>1, <1>3, <1>4, <1>6, <1>7

LEMMA PersistIs ==
    ASSUME AgentTyped, NEW a \in Agents, NEW i \in DOMAIN reviews[a],
           Persist(a, i) \/ PersistFails(a, i)
    PROVE  /\ reviews' \in [Agents -> Seq(Review)]
           /\ \A b \in Agents : b # a => reviews'[b] = reviews[b]
           /\ (\A k, j \in DOMAIN reviews[a] :
                  reviews[a][k].saving /\ reviews[a][j].saving => k = j) =>
              ~SavesOne(reviews'[a])
<1>1. PICK q, w : /\ q = reviews[a] /\ reviews' = [reviews EXCEPT ![a] = w] /\ q[i].saving
                  /\ w = RemoveAt(q, i) \/ w = [q EXCEPT ![i].saving = FALSE]
  BY DEF Persist, PersistFails
<1>2. /\ reviews \in [Agents -> Seq(Review)] /\ q \in Seq(Review) /\ q[i] \in Review
      /\ i \in DOMAIN q
  BY <1>1 DEF AgentTyped
<1>3. reviews' = [reviews EXCEPT ![a] = w] /\ q[i].saving
  BY <1>1
<1>4. /\ w \in Seq(Review)
      /\ \A j \in DOMAIN w : ~w[j].saving \/ \E k \in DOMAIN q : k # i /\ w[j] = q[k]
  <2>1. CASE w = RemoveAt(q, i)
    BY <1>2, <2>1, RemoveIs
  <2>2. CASE w = [q EXCEPT ![i].saving = FALSE]
    <3>1. PICK r : r = [q[i] EXCEPT !.saving = FALSE]
      OBVIOUS
    <3>2. r \in Review /\ ~r.saving
      BY <1>2, <3>1 DEF Review
    <3>3. w = [q EXCEPT ![i] = r]
      BY <2>2, <3>1
    <3>4. w \in Seq(Review) /\ DOMAIN w = DOMAIN q /\ w[i] = r
          /\ \A j \in DOMAIN q : j # i => w[j] = q[j]
      BY <1>2, <3>2, <3>3
    <3> QED BY <3>2, <3>4
  <2> QED BY <1>1, <2>1, <2>2
<1>5. reviews' \in [Agents -> Seq(Review)] /\ reviews'[a] = w
      /\ \A b \in Agents : b # a => reviews'[b] = reviews[b]
  BY <1>2, <1>3, <1>4
<1>6. ASSUME \A k, j \in DOMAIN q : q[k].saving /\ q[j].saving => k = j
      PROVE  \A j \in DOMAIN w : ~w[j].saving
  BY <1>2, <1>3, <1>4, <1>6
<1> QED BY <1>1, <1>5, <1>6 DEF SavesOne

LEMMA RefuseSkillIs ==
    ASSUME AgentTyped, NEW a \in Agents, NEW i \in DOMAIN reviews[a], NEW s \in Skills,
           RefuseSkill(a, i, s)
    PROVE  /\ reviews' \in [Agents -> Seq(Review)]
           /\ \A b \in Agents : b # a => reviews'[b] = reviews[b]
           /\ ~SavesOne(reviews[a]) /\ ~SavesOne(reviews'[a])
<1>1. PICK q, w : /\ q = reviews[a] /\ w = RemoveAt(q, i) /\ i \in DOMAIN q
                  /\ reviews' = [reviews EXCEPT ![a] = w]
                  /\ \A j \in DOMAIN q : ~q[j].saving
  BY DEF RefuseSkill, Learn
<1>2. reviews \in [Agents -> Seq(Review)] /\ q \in Seq(Review)
  BY <1>1 DEF AgentTyped
<1>3. w \in Seq(Review) /\ \A j \in DOMAIN w : \E k \in DOMAIN q : k # i /\ w[j] = q[k]
  BY <1>1, <1>2, RemoveIs
<1>4. reviews' \in [Agents -> Seq(Review)] /\ reviews'[a] = w
      /\ \A b \in Agents : b # a => reviews'[b] = reviews[b]
  BY <1>1, <1>2, <1>3
<1> QED BY <1>1, <1>3, <1>4 DEF SavesOne

LEMMA AgentTypedStep == AgentTyped /\ [ReconAgentNext]_agentVars => AgentTyped'
<1> SUFFICES ASSUME AgentTyped, [ReconAgentNext]_agentVars PROVE AgentTyped'
  OBVIOUS
<1>1. "semantic" \in Files /\ "episodic" \in Files /\ "skills" \in Files
  BY DEF Files
<1>2. /\ stage \in [Agents -> {"none", "created"} \cup Working]
      /\ reviews \in [Agents -> Seq(Review)]
      /\ learned \in [Agents -> [Skills -> Nat]] /\ library \in [Skills -> Nat]
      /\ found \in [Skills -> Nat]
      /\ memory \in [Agents -> Seq(Nat)] /\ episodes \in Seq(Nat) /\ ended \in Nat
      /\ disk \in [Files -> Disk]
      /\ refused \in [runs : SUBSET Nat, skills : SUBSET Skills]
  BY DEF AgentTyped
<1>3. Never \in [Skills -> Nat] /\ <<>> \in Seq(Review) /\ <<>> \in Seq(Nat)
  BY DEF Never
<1>4. ASSUME NEW a \in Agents, Create(a) PROVE AgentTyped'
  <2>1. disk' \in [Files -> Disk]
    BY <1>1, <1>4, OpenIs DEF Create
  <2> QED BY <1>2, <1>4, <2>1 DEF Create, AgentTyped
<1>5. ASSUME NEW a \in Agents, Equip(a) PROVE AgentTyped'
  <2>1. disk' \in [Files -> Disk]
    BY <1>1, <1>5, CloseIs DEF Equip
  <2>2. stage' \in [Agents -> {"none", "created"} \cup Working]
    BY <1>2, <1>5 DEF Equip, Working
  <2>3. learned' \in [Agents -> [Skills -> Nat]]
    BY <1>2, <1>5 DEF Equip
  <2> QED BY <1>2, <1>5, <2>1, <2>2, <2>3 DEF Equip, AgentTyped
<1>6. ASSUME NEW a \in Agents, NEW label, StartRun(a, label) PROVE AgentTyped'
  <2>1. stage' \in [Agents -> {"none", "created"} \cup Working]
    BY <1>2, <1>6 DEF StartRun, Working
  <2> QED BY <1>2, <1>6, <2>1 DEF StartRun, AgentTyped
<1>7. ASSUME NEW a \in Agents, FailRun(a) PROVE AgentTyped'
  <2>1. stage' \in [Agents -> {"none", "created"} \cup Working]
    BY <1>2, <1>7 DEF FailRun, Working
  <2> QED BY <1>2, <1>7, <2>1 DEF FailRun, AgentTyped
<1>8. ASSUME NEW a \in Agents, EndRun(a) \/ RefuseRun(a) PROVE AgentTyped'
  <2>1. disk' \in [Files -> Disk]
    BY <1>1, <1>2, <1>8, OpenIs DEF EndRun, RefuseRun
  <2>2. stage' \in [Agents -> {"none", "created"} \cup Working]
    BY <1>2, <1>8 DEF EndRun, RefuseRun, Working
  <2>3. memory' \in [Agents -> Seq(Nat)] /\ ended' \in Nat
    <3>1. PICK m : m = Append(memory[a], ended + 1)
      OBVIOUS
    <3>2. m \in Seq(Nat)
      <4>1. memory[a] \in Seq(Nat) /\ ended + 1 \in Nat
        BY <1>2
      <4> QED BY <3>1, <4>1
    <3>3. memory' = [memory EXCEPT ![a] = m] /\ ended' = ended + 1
      BY <1>8, <3>1 DEF EndRun, RefuseRun, Remember
    <3> QED BY <1>2, <3>2, <3>3
  <2>4. refused' \in [runs : SUBSET Nat, skills : SUBSET Skills]
    <3>1. refused.runs \cup {ended + 1} \in SUBSET Nat
      BY <1>2
    <3> QED BY <1>2, <1>8, <3>1 DEF EndRun, RefuseRun
  <2>5. Remember(a)
    BY <1>8 DEF EndRun, RefuseRun
  <2> QED BY <1>2, <2>1, <2>2, <2>3, <2>4, <2>5 DEF Remember, AgentTyped
<1>9. ASSUME NEW a \in Agents, NEW skills \in SUBSET Skills, Saved(a, skills) PROVE AgentTyped'
  <2>1. disk' \in [Files -> Disk]
    BY <1>1, <1>9, CloseIs DEF Saved
  <2>2. stage' \in [Agents -> {"none", "created"} \cup Working]
    BY <1>2, <1>9 DEF Saved, Working
  <2>3. episodes' \in Seq(Nat)
    <3>1. memory[a] \in Seq(Nat) /\ episodes' = LastOf(memory[a])
      BY <1>2, <1>9 DEF Saved
    <3> QED BY ONLY <3>1, LastOfIs
  <2>4. reviews' \in [Agents -> Seq(Review)]
    <3>1. PICK r, q : r = [left |-> skills, saving |-> FALSE] /\ q = Append(reviews[a], r)
      OBVIOUS
    <3>2. r \in Review /\ reviews[a] \in Seq(Review)
      BY <1>2, <3>1 DEF Review
    <3>3. q \in Seq(Review)
      BY <3>1, <3>2
    <3>4. reviews' = reviews \/ reviews' = [reviews EXCEPT ![a] = q]
      BY <1>9, <3>1 DEF Saved
    <3> QED BY <1>2, <3>3, <3>4
  <2> QED BY <1>2, <1>9, <2>1, <2>2, <2>3, <2>4 DEF Saved, AgentTyped
<1>10. ASSUME NEW a \in Agents, NEW i \in DOMAIN reviews[a], NEW s \in Skills, SaveSkill(a, i, s)
       PROVE  AgentTyped'
  <2>1. disk' \in [Files -> Disk]
    BY <1>1, <1>10, OpenIs DEF SaveSkill
  <2>2. Learn(a, i, s) /\ refused' = refused
    BY <1>10 DEF SaveSkill
  <2>3. /\ learned' \in [Agents -> [Skills -> Nat]] /\ found' \in [Skills -> Nat]
        /\ reviews' \in [Agents -> Seq(Review)]
    BY <1>10, <2>2, LearnIs, SaveSkillIs
  <2> QED BY <1>2, <2>1, <2>2, <2>3 DEF Learn, AgentTyped
<1>11. ASSUME NEW a \in Agents, NEW i \in DOMAIN reviews[a],
              Persist(a, i) \/ PersistFails(a, i)
       PROVE  AgentTyped'
  <2>1. disk' \in [Files -> Disk]
    BY <1>1, <1>11, CloseIs DEF Persist, PersistFails
  <2>2. reviews' \in [Agents -> Seq(Review)]
    BY <1>11, PersistIs
  <2>3. library' \in [Skills -> Nat]
    BY <1>2, <1>11 DEF Persist, PersistFails
  <2> QED BY <1>2, <1>11, <2>1, <2>2, <2>3 DEF Persist, PersistFails, AgentTyped
<1>12. ASSUME NEW a \in Agents, Forget(a) PROVE AgentTyped'
  <2>1. stage' \in [Agents -> {"none", "created"} \cup Working]
    BY <1>2, <1>12 DEF Forget
  <2>2. learned' \in [Agents -> [Skills -> Nat]] /\ memory' \in [Agents -> Seq(Nat)]
    BY <1>2, <1>3, <1>12 DEF Forget
  <2> QED BY <1>2, <1>12, <2>1, <2>2 DEF Forget, AgentTyped
<1>13. ASSUME Exit PROVE AgentTyped'
  <2>1. disk' \in [Files -> Disk]
    <3>1. \A f \in Files :
             [torn |-> disk[f].torn, writers |-> {}, late |-> {}, broken |-> FALSE] \in Disk
      BY <1>2 DEF Disk
    <3> QED BY <1>13, <3>1 DEF Exit
  <2> QED BY <1>2, <1>3, <1>13, <2>1 DEF Exit, AgentTyped
<1>14. ASSUME UNCHANGED agentVars PROVE AgentTyped'
  BY <1>2, <1>14 DEF agentVars, AgentTyped
<1>15. ASSUME NEW a \in Agents, SaveFails(a) PROVE AgentTyped'
  <2>1. disk' \in [Files -> Disk]
    BY <1>1, <1>15, CloseIs DEF SaveFails
  <2>2. stage' \in [Agents -> {"none", "created"} \cup Working]
    BY <1>2, <1>15 DEF SaveFails, Working
  <2> QED BY <1>2, <1>15, <2>1, <2>2 DEF SaveFails, AgentTyped
<1>16. ASSUME NEW a \in Agents, NEW i \in DOMAIN reviews[a], NEW s \in Skills,
              RefuseSkill(a, i, s)
       PROVE  AgentTyped'
  <2>1. Learn(a, i, s) /\ disk' = disk
    BY <1>16 DEF RefuseSkill
  <2>2. /\ learned' \in [Agents -> [Skills -> Nat]] /\ found' \in [Skills -> Nat]
        /\ reviews' \in [Agents -> Seq(Review)]
    BY <1>16, <2>1, LearnIs, RefuseSkillIs
  <2>3. refused' \in [runs : SUBSET Nat, skills : SUBSET Skills]
    <3>1. refused.skills \cup {s} \in SUBSET Skills
      BY <1>2
    <3> QED BY <1>2, <1>16, <3>1 DEF RefuseSkill
  <2> QED BY <1>2, <2>1, <2>2, <2>3 DEF Learn, AgentTyped
<1> QED
  BY ONLY [ReconAgentNext]_agentVars, <1>4, <1>5, <1>6, <1>7, <1>8, <1>9, <1>10, <1>11, <1>12,
          <1>13, <1>14, <1>15, <1>16 DEF ReconAgentNext, AgentStep

Now(a) == Known(a, stage, reviews, learned, memory, library, episodes, disk, ended, found,
                refused)
Nobody == AllDead(stage, reviews, library, episodes, disk, ended, found, refused)

(* Who does something is the one who lives.                                *)
LEMMA LiveIs ==
    ASSUME HistoryKnown, NEW a \in Agents, ~Dead(a, stage, reviews)
    PROVE  Now(a)
BY DEF HistoryKnown, AllDead, Known, Now

LEMMA NobodyIs ==
    ASSUME HistoryKnown, \A b \in Agents : Dead(b, stage, reviews) PROVE Nobody
<1>1. CASE Nobody
  BY <1>1
<1>2. CASE \E a \in Agents : Now(a)
  <2>1. PICK a \in Agents : Now(a)
    BY <1>2
  <2>2. \A f \in Files : ~Writes(f, stage[a], reviews[a])
    BY DEF Dead, Writes, SavesOne
  <2> QED BY <2>1, <2>2 DEF Now, Known, AllDead, Nobody
<1> QED BY <1>1, <1>2 DEF HistoryKnown, Nobody, Now

(* What is known of the one who lives, part by part.                       *)
LEMMA NowIs ==
    ASSUME NEW a \in Agents, Now(a)
    PROVE  /\ \A b \in Agents \ {a} : Dead(b, stage, reviews)
           /\ \A f \in Files : /\ disk[f].late = {}
                               /\ Writes(f, stage[a], reviews[a]) => disk[f].writers = {a}
                               /\ ~Writes(f, stage[a], reviews[a]) => disk[f].writers = {}
           /\ \A i, j \in DOMAIN reviews[a] :
                 reviews[a][i].saving /\ reviews[a][j].saving => i = j
           /\ Cut(disk["semantic"]) => stage[a] = "created" \/ Dead(a, stage, reviews)
           /\ Cut(disk["episodic"]) => stage[a] = "saving" \/ Dead(a, stage, reviews)
           /\ Cut(disk["skills"]) =>
                 \/ SavesOne(reviews[a])
                 \/ stage[a] \in {"none", "created"} /\ reviews[a] = <<>>
           /\ stage[a] = "created" => reviews[a] = <<>>
           /\ stage[a] \in Working \/ reviews[a] # <<>> => Tallies(learned[a], found, refused.skills)
           /\ stage[a] # "none" => Tells(memory[a], ended, refused.runs)
           /\ disk["skills"].torn \/ Tallies(library, found, refused.skills)
           /\ disk["episodic"].torn \/
                 (Tells(episodes, ended, refused.runs) /\ Len(episodes) <= KeepLast)
BY DEF Now, Known, FilesKnown

(* The same after a step, to be shown part by part.                        *)
LEMMA KnownNext ==
    ASSUME NEW a \in Agents,
           \A b \in Agents \ {a} : Dead(b, stage', reviews'),
           \A f \in Files : /\ disk'[f].late = {}
                            /\ Writes(f, stage'[a], reviews'[a]) => disk'[f].writers = {a}
                            /\ ~Writes(f, stage'[a], reviews'[a]) => disk'[f].writers = {},
           \A i, j \in DOMAIN reviews'[a] :
              reviews'[a][i].saving /\ reviews'[a][j].saving => i = j,
           Cut(disk'["semantic"]) => stage'[a] = "created" \/ Dead(a, stage', reviews'),
           Cut(disk'["episodic"]) => stage'[a] = "saving" \/ Dead(a, stage', reviews'),
           Cut(disk'["skills"]) =>
              \/ SavesOne(reviews'[a])
              \/ stage'[a] \in {"none", "created"} /\ reviews'[a] = <<>>,
           stage'[a] = "created" => reviews'[a] = <<>>,
           stage'[a] \in Working \/ reviews'[a] # <<>> =>
              Tallies(learned'[a], found', refused'.skills),
           stage'[a] # "none" => Tells(memory'[a], ended', refused'.runs),
           FilesKnown(library', episodes', disk', ended', found', refused')
    PROVE  HistoryKnown'
<1>1. Known(a, stage', reviews', learned', memory', library', episodes', disk', ended', found',
          refused')
  BY DEF Known
<1> QED BY <1>1 DEF HistoryKnown

LEMMA CreateKnown ==
    ASSUME AgentTyped, HistoryKnown, NEW a \in Agents, Create(a), ~together'
    PROVE  HistoryKnown'
<1>1. \A b \in Agents : Dead(b, stage, reviews)
  BY DEF Create, Lives, Dead
<1>2. Nobody
  BY <1>1, NobodyIs
<1>3. "semantic" \in Files /\ "episodic" \in Files /\ "skills" \in Files
  BY DEF Files
<1>4. /\ disk'["semantic"] = [torn |-> TRUE, writers |-> disk["semantic"].writers \cup {a},
                              late |-> {}, broken |-> FALSE]
      /\ \A g \in Files : g # "semantic" => disk'[g] = disk[g]
  BY <1>3, OpenIs DEF Create
<1>5. /\ stage'[a] = "created" /\ memory'[a] = episodes /\ reviews' = reviews
      /\ (\A b \in Agents \ {a} : stage'[b] = stage[b])
      /\ library' = library /\ episodes' = episodes /\ ended' = ended /\ found' = found
      /\ refused' = refused /\ ~disk["episodic"].torn
  BY DEF Create, AgentTyped
<1>6. Tells(memory'[a], ended', refused'.runs)
  <2>1. Tells(episodes, ended, refused.runs)
    BY <1>2, <1>5 DEF Nobody, AllDead, FilesKnown
  <2> QED BY <1>5, <2>1
<1>7. \A f \in Files : /\ disk'[f].late = {}
                       /\ Writes(f, stage'[a], reviews'[a]) => disk'[f].writers = {a}
                       /\ ~Writes(f, stage'[a], reviews'[a]) => disk'[f].writers = {}
  <2>1. \A f \in Files : disk[f].late = {} /\ disk[f].writers = {}
    BY <1>2 DEF Nobody, AllDead
  <2>2. \A f \in Files : Writes(f, stage'[a], reviews'[a]) <=> f = "semantic"
    <3>1. ~SavesOne(reviews'[a])
      BY <1>1, <1>5 DEF Dead, SavesOne
    <3> QED BY <1>5, <3>1 DEF Writes
  <2>3. disk'["semantic"].late = {} /\ disk'["semantic"].writers = {a}
    BY <1>3, <1>4, <2>1
  <2>4. \A f \in Files : f # "semantic" => disk'[f].late = {} /\ disk'[f].writers = {}
    BY <1>4, <2>1
  <2> QED BY <2>2, <2>3, <2>4
<1>8. reviews'[a] = <<>> /\ stage'[a] \notin Working
  BY <1>1, <1>5 DEF Dead, Working
<1>9. \A b \in Agents \ {a} : Dead(b, stage', reviews')
  BY <1>1, <1>5 DEF Dead
<1>10. FilesKnown(library', episodes', disk', ended', found', refused')
  BY <1>2, <1>3, <1>4, <1>5 DEF Nobody, AllDead, FilesKnown
<1>11. ~Cut(disk'["episodic"])
  BY <1>3, <1>4, <1>5 DEF Cut
<1>12. \A i, j \in DOMAIN reviews'[a] :
          reviews'[a][i].saving /\ reviews'[a][j].saving => i = j
  BY <1>8
<1> QED BY ONLY a \in Agents, <1>5, <1>6, <1>7, <1>8, <1>9, <1>10, <1>11, <1>12, KnownNext

LEMMA EquipKnown ==
    ASSUME AgentTyped, HistoryKnown, NEW a \in Agents, Equip(a) PROVE HistoryKnown'
<1>1. stage[a] = "created" /\ ~Dead(a, stage, reviews)
  BY DEF Equip, Dead
<1>2. Now(a)
  BY <1>1, LiveIs
<1>3. "semantic" \in Files /\ "episodic" \in Files /\ "skills" \in Files
  BY DEF Files
<1>4. disk["semantic"].late = {} /\ disk["semantic"].writers = {a} /\ reviews[a] = <<>>
  BY <1>1, <1>2, <1>3, NowIs DEF Writes
<1>5. /\ disk'["semantic"].late = {} /\ disk'["semantic"].writers = {}
      /\ ~Cut(disk'["semantic"])
      /\ \A g \in Files : g # "semantic" => disk'[g] = disk[g]
  BY <1>3, <1>4, CloseIs DEF Equip
<1>6. /\ \A b \in Agents \ {a} : stage'[b] = stage[b]
      /\ reviews' = reviews /\ memory' = memory /\ library' = library /\ episodes' = episodes
      /\ ended' = ended /\ found' = found /\ refused' = refused
      /\ \/ disk["skills"].torn /\ stage'[a] = "none"
         \/ ~disk["skills"].torn /\ stage'[a] = "idle" /\ learned'[a] = library
  BY DEF Equip, AgentTyped
<1>7. ~SavesOne(reviews'[a])
  BY <1>4, <1>6 DEF SavesOne
<1>8. \A f \in Files : /\ disk'[f].late = {}
                       /\ Writes(f, stage'[a], reviews'[a]) => disk'[f].writers = {a}
                       /\ ~Writes(f, stage'[a], reviews'[a]) => disk'[f].writers = {}
  <2>1. \A f \in Files : ~Writes(f, stage'[a], reviews'[a])
    BY <1>6, <1>7 DEF Writes
  <2>2. \A f \in Files : f # "semantic" => ~Writes(f, stage[a], reviews[a])
    BY <1>1, <1>6, <1>7 DEF Writes
  <2>3. \A f \in Files : f # "semantic" => disk[f].late = {} /\ disk[f].writers = {}
    BY <1>2, <2>2, NowIs
  <2>4. disk'["semantic"].late = {} /\ disk'["semantic"].writers = {}
    BY <1>5
  <2>5. \A f \in Files : f # "semantic" => disk'[f].late = {} /\ disk'[f].writers = {}
    BY <1>5, <2>3
  <2> QED BY <2>1, <2>4, <2>5
<1>9. /\ ~Cut(disk["episodic"]) /\ Tells(memory[a], ended, refused.runs)
      /\ disk["skills"].torn \/ Tallies(library, found, refused.skills)
      /\ disk["episodic"].torn \/
            (Tells(episodes, ended, refused.runs) /\ Len(episodes) <= KeepLast)
      /\ \A b \in Agents \ {a} : Dead(b, stage, reviews)
  BY <1>1, <1>2, NowIs DEF Dead
<1>10. \A b \in Agents \ {a} : Dead(b, stage', reviews')
  BY <1>6, <1>9 DEF Dead
<1>11. FilesKnown(library', episodes', disk', ended', found', refused')
  BY <1>3, <1>5, <1>6, <1>9 DEF FilesKnown
<1>12. /\ ~Cut(disk'["episodic"]) /\ ~Cut(disk'["semantic"])
       /\ disk'["skills"] = disk["skills"]
  BY <1>3, <1>5, <1>9
<1>13. stage'[a] \in Working => Tallies(learned'[a], found', refused'.skills)
  BY <1>6, <1>9 DEF Working
<1>14. reviews'[a] = <<>>
  BY <1>4, <1>6
<1>15. \A i, j \in DOMAIN reviews'[a] :
          reviews'[a][i].saving /\ reviews'[a][j].saving => i = j
  BY <1>14
<1>16. Tells(memory'[a], ended', refused'.runs)
  BY <1>6, <1>9
<1>17. Cut(disk'["skills"]) => stage'[a] = "none"
  BY <1>6, <1>12 DEF Cut
<1> QED
  BY ONLY a \in Agents, <1>8, <1>10, <1>11, <1>12, <1>13, <1>14, <1>15, <1>16, <1>17, KnownNext

(* A run begins, fails, or cannot be saved: no file changes.               *)
LEMMA RunKnown ==
    ASSUME AgentTyped, HistoryKnown, NEW a \in Agents,
           FailRun(a) \/ RefuseRun(a) \/ \E label \in Questions : StartRun(a, label)
    PROVE  HistoryKnown'
<1>1. /\ stage[a] \in {"idle", "running"} /\ stage'[a] \in {"idle", "running"}
      /\ \A b \in Agents \ {a} : stage'[b] = stage[b]
      /\ reviews' = reviews /\ library' = library /\ episodes' = episodes
      /\ found' = found /\ learned' = learned /\ disk' = disk
      /\ refused'.skills = refused.skills
  <2>1. CASE RefuseRun(a)
    BY <2>1 DEF RefuseRun, Remember, AgentTyped
  <2>2. CASE FailRun(a) \/ \E label \in Questions : StartRun(a, label)
    BY <2>2 DEF FailRun, StartRun, AgentTyped
  <2> QED BY <2>1, <2>2
<1>2. Now(a)
  BY <1>1, LiveIs DEF Dead
<1>3. \A f \in Files : Writes(f, stage'[a], reviews'[a]) <=> Writes(f, stage[a], reviews[a])
  BY <1>1 DEF Writes
<1>4. stage[a] \in Working /\ stage'[a] \in Working
  BY <1>1 DEF Working
<1>5. \A b \in Agents \ {a} : Dead(b, stage', reviews')
  BY <1>1, <1>2, NowIs DEF Dead
<1>6. \A f \in Files : /\ disk'[f].late = {}
                       /\ Writes(f, stage'[a], reviews'[a]) => disk'[f].writers = {a}
                       /\ ~Writes(f, stage'[a], reviews'[a]) => disk'[f].writers = {}
  BY <1>1, <1>2, <1>3, NowIs
<1>7. /\ ~Cut(disk'["semantic"]) /\ ~Cut(disk'["episodic"])
      /\ Cut(disk'["skills"]) => SavesOne(reviews'[a])
  BY <1>1, <1>2, NowIs DEF Dead
<1>8. Tallies(learned'[a], found', refused'.skills) /\ stage'[a] # "created"
  BY <1>1, <1>2, <1>4, NowIs
<1>9. ended \in Nat /\ (stage[a] # "none" => Tells(memory[a], ended, refused.runs))
  BY <1>2, NowIs DEF AgentTyped
<1>10. /\ Tells(memory'[a], ended', refused'.runs)
       /\ Tells(episodes, ended, refused.runs) => Tells(episodes, ended', refused'.runs)
  <2>1. CASE RefuseRun(a)
    <3>1. /\ ended' = ended + 1 /\ memory'[a] = Append(memory[a], ended + 1)
          /\ refused'.runs = refused.runs \cup {ended + 1}
      BY <2>1 DEF RefuseRun, Remember, AgentTyped
    <3>2. Tells(memory'[a], ended', refused.runs)
      BY <1>1, <1>9, <3>1, TellsAppend
    <3>3. ended + 1 \in Nat
      BY <1>9
    <3>4. Tells(memory'[a], ended', refused'.runs)
      BY <3>1, <3>2 DEF Tells
    <3>5. Tells(episodes, ended, refused.runs) => Tells(episodes, ended', refused'.runs)
      BY <1>9, <3>1, TellsMore
    <3> QED BY <3>4, <3>5
  <2>2. CASE FailRun(a) \/ \E label \in Questions : StartRun(a, label)
    <3>1. ended' = ended /\ memory' = memory /\ refused' = refused
      BY <2>2 DEF FailRun, StartRun
    <3> QED BY <1>1, <1>9, <3>1
  <2> QED BY <2>1, <2>2
<1>11. FilesKnown(library', episodes', disk', ended', found', refused')
  BY <1>1, <1>2, <1>10, NowIs DEF FilesKnown
<1>12. \A i, j \in DOMAIN reviews'[a] :
          reviews'[a][i].saving /\ reviews'[a][j].saving => i = j
  BY <1>1, <1>2, NowIs
<1> QED BY ONLY a \in Agents, <1>5, <1>6, <1>7, <1>8, <1>10, <1>11, <1>12, KnownNext

(* A run ends: the file of the episodes is opened.                         *)
LEMMA EndRunKnown ==
    ASSUME AgentTyped, HistoryKnown, NEW a \in Agents, EndRun(a) PROVE HistoryKnown'
<1>1. stage[a] = "running" /\ stage[a] \in Working /\ ~Dead(a, stage, reviews)
  BY DEF EndRun, Remember, Dead, Working
<1>2. Now(a)
  BY <1>1, LiveIs
<1>3. "semantic" \in Files /\ "episodic" \in Files /\ "skills" \in Files
  BY DEF Files
<1>4. ~Writes("episodic", stage[a], reviews[a])
  BY <1>1 DEF Writes
<1>5. disk["episodic"].writers = {}
  BY <1>2, <1>3, <1>4, NowIs
<1>6. /\ disk'["episodic"].torn /\ disk'["episodic"].late = {}
      /\ disk'["episodic"].writers = {a}
      /\ \A g \in Files : g # "episodic" => disk'[g] = disk[g]
  <2>1. OpenFile("episodic", a)
    BY DEF EndRun
  <2>2. /\ disk'["episodic"] = [torn |-> TRUE, writers |-> disk["episodic"].writers \cup {a},
                               late |-> {}, broken |-> FALSE]
        /\ \A g \in Files : g # "episodic" => disk'[g] = disk[g]
    BY <1>3, <2>1, OpenIs
  <2>3. {} \cup {a} = {a}
    OBVIOUS
  <2> QED BY <1>5, <2>2, <2>3
<1>7. /\ stage'[a] = "saving" /\ stage'[a] \in Working
      /\ \A b \in Agents \ {a} : stage'[b] = stage[b]
      /\ reviews' = reviews /\ library' = library /\ episodes' = episodes
      /\ ended' = ended + 1 /\ found' = found /\ learned' = learned
      /\ memory'[a] = Append(memory[a], ended + 1) /\ refused' = refused
  BY DEF EndRun, Remember, AgentTyped, Working
<1>8. \A f \in Files : /\ disk'[f].late = {}
                       /\ Writes(f, stage'[a], reviews'[a]) => disk'[f].writers = {a}
                       /\ ~Writes(f, stage'[a], reviews'[a]) => disk'[f].writers = {}
  <2>1. Writes("episodic", stage'[a], reviews'[a])
    BY <1>7 DEF Writes
  <2>2. \A f \in Files : f # "episodic" =>
           (Writes(f, stage'[a], reviews'[a]) <=> Writes(f, stage[a], reviews[a]))
    BY <1>1, <1>7 DEF Writes
  <2>3. \A f \in Files : f # "episodic" =>
           /\ disk[f].late = {}
           /\ Writes(f, stage[a], reviews[a]) => disk[f].writers = {a}
           /\ ~Writes(f, stage[a], reviews[a]) => disk[f].writers = {}
    BY <1>2, NowIs
  <2> QED BY <1>6, <2>1, <2>2, <2>3
<1>9. \A b \in Agents \ {a} : Dead(b, stage', reviews')
  <2>1. \A b \in Agents \ {a} : Dead(b, stage, reviews)
    BY ONLY a \in Agents, <1>2, NowIs
  <2> QED BY <2>1, <1>7 DEF Dead
<1>10. /\ ~Cut(disk'["semantic"])
       /\ Cut(disk'["skills"]) => SavesOne(reviews'[a])
  BY <1>1, <1>2, <1>3, <1>6, <1>7, NowIs DEF Dead
<1>11. Tallies(learned'[a], found', refused'.skills)
  BY <1>1, <1>2, <1>7, NowIs
<1>12. Tells(memory'[a], ended', refused'.runs)
  <2>1. Tells(memory[a], ended, refused.runs)
    BY <1>1, <1>2, NowIs
  <2>2. ended \in Nat
    BY DEF AgentTyped
  <2> QED BY <1>7, <2>1, <2>2, TellsAppend
<1>13. FilesKnown(library', episodes', disk', ended', found', refused')
  BY <1>2, <1>3, <1>6, <1>7, NowIs DEF FilesKnown
<1>14. \A i, j \in DOMAIN reviews'[a] :
          reviews'[a][i].saving /\ reviews'[a][j].saving => i = j
  BY <1>2, <1>7, NowIs
<1> QED
  BY ONLY a \in Agents, <1>7, <1>8, <1>9, <1>10, <1>11, <1>12, <1>13, <1>14, KnownNext

(* ... and closed, or left when the save breaks off; a review may begin,   *)
(* which saves nothing yet.                                                *)
LEMMA SavedKnown ==
    ASSUME AgentTyped, HistoryKnown, NEW a \in Agents, NEW skills \in SUBSET Skills,
           Saved(a, skills) \/ SaveFails(a)
    PROVE  HistoryKnown'
<1>1. stage[a] = "saving" /\ stage[a] \in Working /\ ~Dead(a, stage, reviews)
  BY DEF Saved, SaveFails, Dead, Working
<1>2. Now(a)
  BY <1>1, LiveIs
<1>3. "semantic" \in Files /\ "episodic" \in Files /\ "skills" \in Files
  BY DEF Files
<1>4. disk["episodic"].late = {} /\ disk["episodic"].writers = {a}
  <2>1. Writes("episodic", stage[a], reviews[a])
    BY <1>1 DEF Writes
  <2> QED BY <1>2, <1>3, <2>1, NowIs
<1>5. /\ disk'["episodic"].late = {} /\ disk'["episodic"].writers = {}
      /\ ~Cut(disk'["episodic"])
      /\ \A g \in Files : g # "episodic" => disk'[g] = disk[g]
      /\ SaveFails(a) => disk'["episodic"].torn
  BY <1>3, <1>4, CloseIs DEF Saved, SaveFails
<1>6. /\ stage'[a] = "idle" /\ stage'[a] \in Working
      /\ \A b \in Agents \ {a} : stage'[b] = stage[b] /\ reviews'[b] = reviews[b]
      /\ memory' = memory /\ library' = library
      /\ episodes' = LastOf(memory[a]) \/ SaveFails(a)
      /\ ended' = ended /\ found' = found /\ learned' = learned /\ refused' = refused
  BY DEF Saved, SaveFails, AgentTyped, Working
<1>7. /\ DOMAIN reviews[a] \subseteq DOMAIN reviews'[a]
      /\ \A i \in DOMAIN reviews'[a] : reviews'[a][i].saving =>
            i \in DOMAIN reviews[a] /\ reviews[a][i].saving
      /\ \A i \in DOMAIN reviews[a] : reviews'[a][i] = reviews[a][i]
  <2>1. PICK r, q, p : /\ r = [left |-> skills, saving |-> FALSE] /\ q = reviews[a]
                       /\ p = Append(q, r)
    OBVIOUS
  <2>2. q \in Seq(Review) /\ r \in Review /\ ~r.saving
    BY <2>1 DEF AgentTyped, Review
  <2>3. /\ p \in Seq(Review) /\ Len(p) = Len(q) + 1 /\ p[Len(q) + 1] = r
        /\ \A i \in 1..Len(q) : p[i] = q[i]
    BY <2>1, <2>2
  <2>4. /\ DOMAIN q = 1..Len(q) /\ DOMAIN p = 1..(Len(q) + 1) /\ Len(q) \in Nat
    BY <2>2, <2>3
  <2>5. \A i \in DOMAIN p : i \in DOMAIN q \/ p[i] = r
    BY <2>3, <2>4
  <2>6. reviews' = reviews \/ reviews' = [reviews EXCEPT ![a] = p]
    BY <2>1 DEF Saved, SaveFails
  <2>7. reviews'[a] = q \/ reviews'[a] = p
    BY <2>1, <2>6 DEF AgentTyped
  <2>8. DOMAIN q \subseteq DOMAIN p /\ \A i \in DOMAIN q : p[i] = q[i]
    BY <2>3, <2>4
  <2> QED BY <2>1, <2>2, <2>5, <2>7, <2>8
<1>8. SavesOne(reviews'[a]) <=> SavesOne(reviews[a])
  BY <1>7 DEF SavesOne
<1>9. \A f \in Files : /\ disk'[f].late = {}
                       /\ Writes(f, stage'[a], reviews'[a]) => disk'[f].writers = {a}
                       /\ ~Writes(f, stage'[a], reviews'[a]) => disk'[f].writers = {}
  <2>1. ~Writes("episodic", stage'[a], reviews'[a])
    BY <1>6 DEF Writes
  <2>2. \A f \in Files : f # "episodic" =>
           (Writes(f, stage'[a], reviews'[a]) <=> Writes(f, stage[a], reviews[a]))
    BY <1>1, <1>6, <1>8 DEF Writes
  <2>3. \A f \in Files : f # "episodic" =>
           /\ disk[f].late = {}
           /\ Writes(f, stage[a], reviews[a]) => disk[f].writers = {a}
           /\ ~Writes(f, stage[a], reviews[a]) => disk[f].writers = {}
    BY <1>2, NowIs
  <2>4. disk'["episodic"].late = {} /\ disk'["episodic"].writers = {}
    BY <1>5
  <2> QED BY <1>5, <2>1, <2>2, <2>3, <2>4
<1>10. \A b \in Agents \ {a} : Dead(b, stage', reviews')
  <2>1. \A b \in Agents \ {a} : Dead(b, stage, reviews)
    BY ONLY a \in Agents, <1>2, NowIs
  <2> QED BY <2>1, <1>6 DEF Dead
<1>11. /\ ~Cut(disk'["semantic"]) /\ ~Cut(disk'["episodic"])
       /\ Cut(disk'["skills"]) => SavesOne(reviews'[a])
  <2>1. /\ ~Cut(disk["semantic"])
        /\ Cut(disk["skills"]) => SavesOne(reviews[a])
    BY <1>1, <1>2, NowIs DEF Dead
  <2> QED BY <1>3, <1>5, <1>8, <2>1
<1>12. Tallies(learned'[a], found', refused'.skills) /\ Tells(memory'[a], ended', refused'.runs)
  BY <1>1, <1>2, <1>6, NowIs
<1>13. FilesKnown(library', episodes', disk', ended', found', refused')
  <2>1. /\ Tells(LastOf(memory[a]), ended, refused.runs)
        /\ Len(LastOf(memory[a])) <= KeepLast
    <3>1. ended \in Nat /\ Tells(memory[a], ended, refused.runs)
      BY <1>1, <1>2, NowIs DEF AgentTyped
    <3> QED BY <3>1, TellsLast
  <2>2. disk'["skills"].torn \/ Tallies(library', found', refused'.skills)
    BY <1>2, <1>3, <1>5, <1>6, NowIs
  <2> QED BY <1>5, <1>6, <2>1, <2>2 DEF FilesKnown
<1>14. \A i, j \in DOMAIN reviews'[a] :
          reviews'[a][i].saving /\ reviews'[a][j].saving => i = j
  BY <1>2, <1>7, NowIs
<1> QED
  BY ONLY a \in Agents, <1>6, <1>9, <1>10, <1>11, <1>12, <1>13, <1>14, KnownNext

(* A reviewer takes the lock and opens the file of the skills.             *)
LEMMA SaveSkillKnown ==
    ASSUME AgentTyped, HistoryKnown, NEW a \in Agents, NEW i \in DOMAIN reviews[a],
           NEW s \in Skills, SaveSkill(a, i, s)
    PROVE  HistoryKnown'
<1>1. /\ reviews[a] # <<>> /\ ~SavesOne(reviews[a]) /\ ~Dead(a, stage, reviews)
  BY DEF SaveSkill, Learn, SavesOne, Dead
<1>2. Now(a)
  BY <1>1, LiveIs
<1>3. "semantic" \in Files /\ "episodic" \in Files /\ "skills" \in Files
  BY DEF Files
<1>4. disk["skills"].writers = {}
  <2>1. ~Writes("skills", stage[a], reviews[a])
    BY <1>1 DEF Writes
  <2> QED BY <1>2, <1>3, <2>1, NowIs
<1>5. /\ disk'["skills"].torn /\ disk'["skills"].late = {} /\ disk'["skills"].writers = {a}
      /\ \A g \in Files : g # "skills" => disk'[g] = disk[g]
  <2>1. OpenFile("skills", a)
    BY DEF SaveSkill
  <2>2. /\ disk'["skills"] = [torn |-> TRUE, writers |-> disk["skills"].writers \cup {a},
                             late |-> {}, broken |-> FALSE]
        /\ \A g \in Files : g # "skills" => disk'[g] = disk[g]
    BY <1>3, <2>1, OpenIs
  <2>3. {} \cup {a} = {a}
    OBVIOUS
  <2> QED BY <1>4, <2>2, <2>3
<1>6. /\ \A b \in Agents : b # a => reviews'[b] = reviews[b]
      /\ reviews'[a] # <<>> /\ i \in DOMAIN reviews'[a] /\ reviews'[a][i].saving
      /\ \A j \in DOMAIN reviews'[a] : j # i => ~reviews'[a][j].saving
  BY SaveSkillIs
<1>7. /\ stage' = stage /\ memory' = memory /\ library' = library /\ episodes' = episodes
      /\ ended' = ended /\ refused' = refused /\ Learn(a, i, s)
  BY DEF SaveSkill, Learn
<1>8. SavesOne(reviews'[a])
  BY <1>6 DEF SavesOne
<1>9. \A f \in Files : /\ disk'[f].late = {}
                       /\ Writes(f, stage'[a], reviews'[a]) => disk'[f].writers = {a}
                       /\ ~Writes(f, stage'[a], reviews'[a]) => disk'[f].writers = {}
  <2>1. Writes("skills", stage'[a], reviews'[a])
    BY <1>8 DEF Writes
  <2>2. \A f \in Files : f # "skills" =>
           (Writes(f, stage'[a], reviews'[a]) <=> Writes(f, stage[a], reviews[a]))
    BY <1>7 DEF Writes
  <2>3. \A f \in Files : f # "skills" =>
           /\ disk[f].late = {}
           /\ Writes(f, stage[a], reviews[a]) => disk[f].writers = {a}
           /\ ~Writes(f, stage[a], reviews[a]) => disk[f].writers = {}
    BY <1>2, NowIs
  <2> QED BY <1>5, <2>1, <2>2, <2>3
<1>10. \A b \in Agents \ {a} : Dead(b, stage', reviews')
  <2>1. \A b \in Agents \ {a} : Dead(b, stage, reviews)
    BY ONLY a \in Agents, <1>2, NowIs
  <2> QED BY <2>1, <1>6, <1>7 DEF Dead
<1>11. /\ Cut(disk'["semantic"]) => stage'[a] = "created"
       /\ Cut(disk'["episodic"]) => stage'[a] = "saving"
       /\ stage'[a] # "created"
  BY <1>1, <1>2, <1>3, <1>5, <1>7, NowIs DEF Dead
<1>12. /\ Tallies(learned'[a], found', refused'.skills)
       /\ stage'[a] # "none" => Tells(memory'[a], ended', refused'.runs)
  BY <1>1, <1>2, <1>7, NowIs, LearnIs
<1>13. FilesKnown(library', episodes', disk', ended', found', refused')
  BY <1>2, <1>3, <1>5, <1>7, NowIs DEF FilesKnown
<1>14. \A k, j \in DOMAIN reviews'[a] :
          reviews'[a][k].saving /\ reviews'[a][j].saving => k = j
  BY <1>6
<1> QED
  BY ONLY a \in Agents, <1>8, <1>9, <1>10, <1>11, <1>12, <1>13, <1>14, KnownNext

(* ... and closes it, with what its agent has learned, or breaks off.      *)
LEMMA PersistKnown ==
    ASSUME AgentTyped, HistoryKnown, NEW a \in Agents, NEW i \in DOMAIN reviews[a],
           Persist(a, i) \/ PersistFails(a, i)
    PROVE  HistoryKnown'
<1>1. reviews[a] # <<>> /\ SavesOne(reviews[a]) /\ ~Dead(a, stage, reviews)
  BY DEF Persist, PersistFails, SavesOne, Dead
<1>2. Now(a)
  BY <1>1, LiveIs
<1>3. "semantic" \in Files /\ "episodic" \in Files /\ "skills" \in Files
  BY DEF Files
<1>4. disk["skills"].late = {} /\ disk["skills"].writers = {a}
  <2>1. Writes("skills", stage[a], reviews[a])
    BY <1>1 DEF Writes
  <2> QED BY <1>2, <1>3, <2>1, NowIs
<1>5. /\ disk'["skills"].late = {} /\ disk'["skills"].writers = {} /\ ~Cut(disk'["skills"])
      /\ \A g \in Files : g # "skills" => disk'[g] = disk[g]
      /\ PersistFails(a, i) => disk'["skills"].torn
  BY <1>3, <1>4, CloseIs DEF Persist, PersistFails
<1>6. /\ \A b \in Agents : b # a => reviews'[b] = reviews[b]
      /\ ~SavesOne(reviews'[a])
  <2>1. \A k, j \in DOMAIN reviews[a] :
           reviews[a][k].saving /\ reviews[a][j].saving => k = j
    BY <1>2, NowIs
  <2> QED BY <2>1, PersistIs
<1>7. /\ stage' = stage /\ memory' = memory /\ episodes' = episodes
      /\ library' = learned[a] \/ PersistFails(a, i)
      /\ ended' = ended /\ found' = found /\ learned' = learned /\ refused' = refused
  BY DEF Persist, PersistFails
<1>8. Tallies(learned[a], found, refused.skills)
  BY <1>1, <1>2, NowIs
<1>9. \A f \in Files : /\ disk'[f].late = {}
                       /\ Writes(f, stage'[a], reviews'[a]) => disk'[f].writers = {a}
                       /\ ~Writes(f, stage'[a], reviews'[a]) => disk'[f].writers = {}
  <2>1. ~Writes("skills", stage'[a], reviews'[a])
    BY <1>6 DEF Writes
  <2>2. \A f \in Files : f # "skills" =>
           (Writes(f, stage'[a], reviews'[a]) <=> Writes(f, stage[a], reviews[a]))
    BY <1>7 DEF Writes
  <2>3. \A f \in Files : f # "skills" =>
           /\ disk[f].late = {}
           /\ Writes(f, stage[a], reviews[a]) => disk[f].writers = {a}
           /\ ~Writes(f, stage[a], reviews[a]) => disk[f].writers = {}
    BY <1>2, NowIs
  <2>4. disk'["skills"].late = {} /\ disk'["skills"].writers = {}
    BY <1>5
  <2> QED BY <1>5, <2>1, <2>2, <2>3, <2>4
<1>10. \A b \in Agents \ {a} : Dead(b, stage', reviews')
  <2>1. \A b \in Agents \ {a} : Dead(b, stage, reviews)
    BY ONLY a \in Agents, <1>2, NowIs
  <2> QED BY <2>1, <1>6, <1>7 DEF Dead
<1>11. /\ Cut(disk'["semantic"]) => stage'[a] = "created"
       /\ Cut(disk'["episodic"]) => stage'[a] = "saving"
       /\ ~Cut(disk'["skills"]) /\ stage'[a] # "created"
  <2>1. /\ Cut(disk["semantic"]) => stage[a] = "created"
        /\ Cut(disk["episodic"]) => stage[a] = "saving"
        /\ stage[a] # "created"
    BY <1>1, <1>2, NowIs DEF Dead
  <2> QED BY <1>3, <1>5, <1>7, <2>1
<1>12. /\ Tallies(learned'[a], found', refused'.skills)
       /\ stage'[a] # "none" => Tells(memory'[a], ended', refused'.runs)
  BY <1>2, <1>7, <1>8, NowIs
<1>13. FilesKnown(library', episodes', disk', ended', found', refused')
  BY <1>2, <1>3, <1>5, <1>7, <1>8, NowIs DEF FilesKnown
<1>14. \A k, j \in DOMAIN reviews'[a] :
          reviews'[a][k].saving /\ reviews'[a][j].saving => k = j
  BY <1>6 DEF SavesOne
<1> QED
  BY ONLY a \in Agents, <1>9, <1>10, <1>11, <1>12, <1>13, <1>14, KnownNext

(* The file of the skills cannot be opened: the review ends.               *)
LEMMA RefuseSkillKnown ==
    ASSUME AgentTyped, HistoryKnown, NEW a \in Agents, NEW i \in DOMAIN reviews[a],
           NEW s \in Skills, RefuseSkill(a, i, s)
    PROVE  HistoryKnown'
<1>1. reviews[a] # <<>> /\ ~Dead(a, stage, reviews)
  BY DEF Dead
<1>2. Now(a)
  BY <1>1, LiveIs
<1>3. /\ \A b \in Agents : b # a => reviews'[b] = reviews[b]
      /\ ~SavesOne(reviews[a]) /\ ~SavesOne(reviews'[a])
  BY RefuseSkillIs
<1>4. /\ stage' = stage /\ memory' = memory /\ library' = library /\ episodes' = episodes
      /\ ended' = ended /\ disk' = disk /\ Learn(a, i, s)
      /\ refused'.runs = refused.runs /\ refused'.skills = refused.skills \cup {s}
  BY DEF RefuseSkill, Learn, AgentTyped
<1>5. \A f \in Files : /\ disk'[f].late = {}
                       /\ Writes(f, stage'[a], reviews'[a]) => disk'[f].writers = {a}
                       /\ ~Writes(f, stage'[a], reviews'[a]) => disk'[f].writers = {}
  <2>1. \A f \in Files :
           Writes(f, stage'[a], reviews'[a]) <=> Writes(f, stage[a], reviews[a])
    BY <1>3, <1>4 DEF Writes
  <2> QED BY <1>2, <1>4, <2>1, NowIs
<1>6. \A b \in Agents \ {a} : Dead(b, stage', reviews')
  <2>1. \A b \in Agents \ {a} : Dead(b, stage, reviews)
    BY ONLY a \in Agents, <1>2, NowIs
  <2> QED BY <2>1, <1>3, <1>4 DEF Dead
<1>7. /\ Cut(disk'["semantic"]) => stage'[a] = "created"
      /\ Cut(disk'["episodic"]) => stage'[a] = "saving"
      /\ ~Cut(disk'["skills"]) /\ stage'[a] # "created"
  BY <1>1, <1>2, <1>3, <1>4, NowIs DEF Dead
<1>8. Tallies(learned'[a], found', refused'.skills)
  <2>1. Tallies(learned'[a], found', refused.skills)
    BY <1>1, <1>2, <1>4, NowIs, LearnIs
  <2> QED BY <1>4, <2>1 DEF Tallies
<1>9. stage'[a] # "none" => Tells(memory'[a], ended', refused'.runs)
  BY <1>2, <1>4, NowIs
<1>10. FilesKnown(library', episodes', disk', ended', found', refused')
  BY <1>2, <1>4, NowIs, LearnIs DEF FilesKnown
<1>11. \A k, j \in DOMAIN reviews'[a] :
          reviews'[a][k].saving /\ reviews'[a][j].saving => k = j
  BY <1>3 DEF SavesOne
<1> QED
  BY ONLY a \in Agents, <1>5, <1>6, <1>7, <1>8, <1>9, <1>10, <1>11, KnownNext

(* An agent is dropped; its reviews go on with what it learned.            *)
LEMMA ForgetKnown ==
    ASSUME AgentTyped, HistoryKnown, NEW a \in Agents, Forget(a) PROVE HistoryKnown'
<1>1. stage[a] = "idle" /\ stage[a] \in Working /\ ~Dead(a, stage, reviews)
  BY DEF Forget, Dead, Working
<1>2. Now(a)
  BY <1>1, LiveIs
<1>3. /\ stage'[a] = "none" /\ \A b \in Agents \ {a} : stage'[b] = stage[b]
      /\ reviews' = reviews /\ library' = library /\ episodes' = episodes
      /\ ended' = ended /\ found' = found /\ disk' = disk /\ refused' = refused
      /\ reviews[a] # <<>> => learned' = learned
  BY DEF Forget, AgentTyped
<1>4. "none" \notin Working
  BY DEF Working
<1>5. \A f \in Files : /\ disk'[f].late = {}
                       /\ Writes(f, stage'[a], reviews'[a]) => disk'[f].writers = {a}
                       /\ ~Writes(f, stage'[a], reviews'[a]) => disk'[f].writers = {}
  <2>1. \A f \in Files :
           Writes(f, stage'[a], reviews'[a]) <=> Writes(f, stage[a], reviews[a])
    BY <1>1, <1>3 DEF Writes
  <2> QED BY <1>2, <1>3, <2>1, NowIs
<1>6. \A b \in Agents \ {a} : Dead(b, stage', reviews')
  <2>1. \A b \in Agents \ {a} : Dead(b, stage, reviews)
    BY ONLY a \in Agents, <1>2, NowIs
  <2> QED BY <2>1, <1>3 DEF Dead
<1>7. /\ ~Cut(disk'["semantic"]) /\ ~Cut(disk'["episodic"])
      /\ Cut(disk'["skills"]) => SavesOne(reviews'[a])
  BY <1>1, <1>2, <1>3, NowIs DEF Dead
<1>8. reviews'[a] # <<>> => Tallies(learned'[a], found', refused'.skills)
  BY <1>1, <1>2, <1>3, NowIs
<1>9. FilesKnown(library', episodes', disk', ended', found', refused')
  BY <1>2, <1>3, NowIs DEF FilesKnown
<1>10. \A i, j \in DOMAIN reviews'[a] :
          reviews'[a][i].saving /\ reviews'[a][j].saving => i = j
  BY <1>2, <1>3, NowIs
<1> QED
  BY ONLY a \in Agents, <1>3, <1>4, <1>5, <1>6, <1>7, <1>8, <1>9, <1>10, KnownNext

(* After the end of the process nothing lives; files may stay torn.        *)
LEMMA ExitKnown == ASSUME AgentTyped, HistoryKnown, Exit PROVE HistoryKnown'
<1>1. FilesKnown(library, episodes, disk, ended, found, refused)
  BY DEF HistoryKnown, AllDead, Known
<1>2. "episodic" \in Files /\ "skills" \in Files
  BY DEF Files
<1>3. /\ \A f \in Files : disk'[f] = [torn |-> disk[f].torn, writers |-> {}, late |-> {},
                                     broken |-> FALSE]
      /\ stage' = [a \in Agents |-> "none"] /\ reviews' = [a \in Agents |-> <<>>]
      /\ library' = library /\ episodes' = episodes /\ ended' = ended /\ found' = found
      /\ refused' = refused
  BY DEF Exit
<1>4. \A f \in Files : /\ disk'[f].late = {} /\ disk'[f].writers = {}
                       /\ disk'[f].torn = disk[f].torn
  <2> TAKE f \in Files
  <2>1. disk'[f] = [torn |-> disk[f].torn, writers |-> {}, late |-> {}, broken |-> FALSE]
    BY <1>3
  <2> QED BY <2>1
<1>5. FilesKnown(library', episodes', disk', ended', found', refused')
  BY <1>1, <1>2, <1>3, <1>4 DEF FilesKnown
<1> QED BY <1>3, <1>4, <1>5 DEF HistoryKnown, AllDead, Dead

LEMMA AgentInvStep == AgentInv /\ [ReconAgentNext]_agentVars => AgentInv'
<1> SUFFICES ASSUME AgentInv, [ReconAgentNext]_agentVars PROVE AgentInv'
  OBVIOUS
<1>1. AgentTyped /\ AgentTyped'
  BY AgentTypedStep DEF AgentInv
<1>2. ASSUME ~together' PROVE HistoryKnown'
  <2>1. ~together
    <3>1. ASSUME NEW a \in Agents, AgentStep(a) PROVE together => together'
      <4>1. ASSUME NEW i, Persist(a, i) \/ PersistFails(a, i) PROVE together' = together
        BY <4>1 DEF Persist, PersistFails
      <4>2. ASSUME NEW i, NEW s, SaveSkill(a, i, s) \/ RefuseSkill(a, i, s)
            PROVE  together' = together
        BY <4>2 DEF SaveSkill, RefuseSkill, Learn
      <4>3. ASSUME EndRun(a) \/ RefuseRun(a) \/ SaveFails(a) PROVE together' = together
        BY <4>3 DEF EndRun, RefuseRun, Remember, SaveFails
      <4>4. ASSUME NEW label, StartRun(a, label) PROVE together' = together
        BY <4>4 DEF StartRun
      <4>5. ASSUME NEW skills, Saved(a, skills) PROVE together' = together
        BY <4>5 DEF Saved
      <4>6. ASSUME Create(a) \/ Equip(a) \/ FailRun(a) \/ Forget(a) PROVE together => together'
        BY <4>6 DEF Create, Equip, FailRun, Forget
      <4> QED BY <3>1, <4>1, <4>2, <4>3, <4>4, <4>5, <4>6 DEF AgentStep
    <3>2. Exit \/ UNCHANGED agentVars => together' = together
      BY DEF Exit, agentVars
    <3> QED BY <1>2, <3>1, <3>2 DEF ReconAgentNext
  <2>2. AgentTyped /\ HistoryKnown
    BY <2>1 DEF AgentInv
  <2>3. ASSUME NEW a \in Agents, AgentStep(a) PROVE HistoryKnown'
    <3>1. CASE Create(a)
      BY <1>2, <2>2, <3>1, CreateKnown
    <3>2. CASE Equip(a)
      BY <2>2, <3>2, EquipKnown
    <3>3. CASE FailRun(a) \/ RefuseRun(a) \/ \E label \in Questions : StartRun(a, label)
      BY <2>2, <3>3, RunKnown
    <3>4. CASE EndRun(a)
      BY <2>2, <3>4, EndRunKnown
    <3>5. CASE SaveFails(a) \/ \E skills \in SUBSET Skills : Saved(a, skills)
      <4>1. {} \in SUBSET Skills
        OBVIOUS
      <4> QED BY <2>2, <3>5, <4>1, SavedKnown
    <3>6. CASE Forget(a)
      BY <2>2, <3>6, ForgetKnown
    <3>7. ASSUME NEW i \in DOMAIN reviews[a], Persist(a, i) \/ PersistFails(a, i)
          PROVE  HistoryKnown'
      BY <2>2, <3>7, PersistKnown
    <3>8. ASSUME NEW i \in DOMAIN reviews[a], NEW s \in Skills, SaveSkill(a, i, s)
          PROVE  HistoryKnown'
      BY <2>2, <3>8, SaveSkillKnown
    <3>9. ASSUME NEW i \in DOMAIN reviews[a], NEW s \in Skills, RefuseSkill(a, i, s)
          PROVE  HistoryKnown'
      BY <2>2, <3>9, RefuseSkillKnown
    <3> QED
      BY <2>3, <3>1, <3>2, <3>3, <3>4, <3>5, <3>6, <3>7, <3>8, <3>9 DEF AgentStep
  <2>4. CASE Exit
    BY <2>2, <2>4, ExitKnown
  <2>5. CASE UNCHANGED agentVars
    BY <2>2, <2>5 DEF agentVars, HistoryKnown, AllDead, Known, Dead, FilesKnown
  <2> QED BY <2>3, <2>4, <2>5 DEF ReconAgentNext
<1> QED BY <1>1, <1>2 DEF AgentInv

(* Unless two agents lived at once, over any number of agents, runs, saves *)
(* that fail and ends of the process: a file is torn only while it is      *)
(* written or after a save that broke off in the same process, and nothing *)
(* works after an exit that left it so; a whole library holds each skill   *)
(* as often as it was found unless a save of it was refused; a whole       *)
(* memory has the runs in their order, all but those refused and those     *)
(* before its last KeepLast (SkillReviewer._save_skill, MemoryTool).       *)
THEOREM FilesTellHistory == ReconAgentSpec => []FilesAreHistory
<1>1. AgentInv => FilesAreHistory
  <2> SUFFICES ASSUME AgentInv, ~together PROVE FilesAreHistory
    BY DEF FilesAreHistory
  <2>1. HistoryKnown
    BY DEF AgentInv
  <2>2. disk["skills"].torn \/ Tallies(library, found, refused.skills)
    BY <2>1 DEF HistoryKnown, AllDead, Known, FilesKnown
  <2>3. disk["episodic"].torn \/ (Tells(episodes, ended, refused.runs) /\ Len(episodes) <= KeepLast)
    BY <2>1 DEF HistoryKnown, AllDead, Known, FilesKnown
  <2>4. ASSUME NEW f \in Files, Cut(disk[f]), disk[f].writers = {}, NEW b \in Agents
        PROVE  stage[b] \in {"none", "created"}
    <3>1. CASE Nobody
      BY <3>1 DEF Nobody, AllDead, Dead
    <3>2. ASSUME NEW a \in Agents, Now(a) PROVE stage[b] \in {"none", "created"}
      <4>1. CASE b # a
        BY <3>2, <4>1, NowIs DEF Dead
      <4>2. CASE b = a
        <5>1. ~Writes(f, stage[a], reviews[a])
          <6>1. Writes(f, stage[a], reviews[a]) => disk[f].writers = {a}
            BY <3>2, NowIs
          <6> QED BY <2>4, <6>1
        <5>2. CASE f = "semantic"
          BY <2>4, <3>2, <4>2, <5>2, NowIs DEF Dead
        <5>3. CASE f = "episodic"
          BY <2>4, <3>2, <4>2, <5>1, <5>3, NowIs DEF Dead, Writes
        <5>4. CASE f = "skills"
          BY <2>4, <3>2, <4>2, <5>1, <5>4, NowIs DEF Writes
        <5> QED BY <5>2, <5>3, <5>4 DEF Files
      <4> QED BY <4>1, <4>2
    <3> QED BY <2>1, <3>1, <3>2 DEF HistoryKnown, Nobody, Now
  <2>5. disk["episodic"].torn \/
           /\ \A i, j \in 1..Len(episodes) : i < j => episodes[i] < episodes[j]
           /\ \A n \in 1..ended :
                 \/ \E i \in 1..Len(episodes) : episodes[i] = n
                 \/ n \in refused.runs
                 \/ Len(episodes) = KeepLast /\ n < episodes[1]
    <3>1. Len(episodes) \in Nat /\ KeepLast \in Nat
      BY ReconAgentAssumption DEF AgentInv, AgentTyped
    <3>2. CASE Tells(episodes, ended, refused.runs) /\ Len(episodes) <= KeepLast
      <4>1. Len(episodes) >= KeepLast => Len(episodes) = KeepLast
        BY <3>1, <3>2
      <4> QED BY <3>2, <4>1 DEF Tells
    <3> QED BY <2>3, <3>2
  <2> QED BY <2>2, <2>4, <2>5 DEF FilesAreHistory, Tallies, Cut
<1> QED BY <1>1, AgentStart, AgentInvStep, PTL DEF ReconAgentSpec

------------------------------------------------------------------------------
(* The comparison of tables, for any tables with one column of values: K   *)
(* are the keys that occur, among them perhaps Null.  Sets of numbers have *)
(* a least element, so a key has a last row.                               *)
Row(K) == [key : K, values : [1..1 -> Int]]

TablesTyped(K) ==
    /\ DOMAIN tables = 1..Len(tables) /\ Len(tables) \in Nat
    /\ \A i \in DOMAIN tables : /\ tables[i].success \in BOOLEAN
                                /\ tables[i].rows \in Seq(Row(K))
    /\ plan.tables \in Nat \ {1} /\ plan.tolerance \in Nat

LEMMA LeastNumber ==
    ASSUME NEW T \in SUBSET Nat, T # {} PROVE \E n \in T : \A k \in T : n <= k
<1>1. PICK n \in T : \A k \in T : ~ (<<k, n>> \in OpToRel(<, Nat))
  BY NatLessThanWellFounded, WFMin, Zenon
<1>2. \A k \in T : ~ (k < n)
  BY <1>1, Zenon DEF OpToRel
<1> QED BY <1>2

IsLast(rows, k, l) ==
    /\ l \in DOMAIN rows /\ rows[l].key = k
    /\ \A j \in DOMAIN rows : rows[j].key = k => j <= l

LEMMA HasLast ==
    ASSUME NEW K, NEW rows \in Seq(Row(K)), NEW i \in DOMAIN rows
    PROVE  \E l \in DOMAIN rows : IsLast(rows, rows[i].key, l)
<1>1. PICK n, k : n = Len(rows) /\ k = rows[i].key
  OBVIOUS
<1>2. n \in Nat /\ DOMAIN rows = 1..n
  BY <1>1
<1>3. PICK T : T = {n - j : j \in {j \in 1..n : rows[j].key = k}}
  OBVIOUS
<1>4. T \in SUBSET Nat /\ T # {}
  BY <1>1, <1>2, <1>3
<1>5. PICK m \in T : \A h \in T : m <= h
  BY <1>4, LeastNumber
<1>6. PICK l \in 1..n : rows[l].key = k /\ m = n - l
  BY <1>3, <1>5
<1>7. ASSUME NEW j \in 1..n, rows[j].key = k PROVE j <= l
  <2>1. n - j \in T
    BY <1>3, <1>7
  <2>2. n - l <= n - j
    BY <1>5, <1>6, <2>1
  <2> QED BY <1>2, <2>2
<1> QED BY <1>1, <1>2, <1>6, <1>7 DEF IsLast

LEMMA LastRowIs ==
    ASSUME NEW K, NEW t, t.rows \in Seq(Row(K)), NEW l, NEW k, IsLast(t.rows, k, l)
    PROVE  LastRow(t, k) = t.rows[l]
<1>1. PICK n, rows : rows = t.rows /\ n = Len(rows)
  OBVIOUS
<1>2. n \in Nat /\ DOMAIN rows = 1..n
  BY <1>1
<1>3. PICK m : m = CHOOSE i \in DOMAIN rows :
                      /\ rows[i].key = k
                      /\ \A j \in DOMAIN rows : rows[j].key = k => j <= i
  OBVIOUS
<1>4. /\ m \in DOMAIN rows /\ rows[m].key = k
      /\ \A j \in DOMAIN rows : rows[j].key = k => j <= m
  BY <1>1, <1>3 DEF IsLast
<1>5. /\ l \in DOMAIN rows /\ rows[l].key = k
      /\ \A j \in DOMAIN rows : rows[j].key = k => j <= l
  BY <1>1 DEF IsLast
<1>6. m = l
  <2>1. m <= l /\ l <= m
    BY <1>4, <1>5
  <2> QED BY <1>2, <1>4, <1>5, <2>1
<1> QED BY <1>1, <1>3, <1>6 DEF LastRow

(* The keys of a table that a comparison accounts for.                     *)
Keyed(i) == {tables[i].rows[l].key : l \in DOMAIN tables[i].rows} \
               (IF plan.tables = 0 THEN {} ELSE {Null})

(* The row that counts for a key is the last one.                          *)
LEMMA LastCounts ==
    ASSUME NEW K, TablesTyped(K), NEW i \in DOMAIN tables, NEW k \in Keyed(i)
    PROVE  /\ LastRow(tables[i], k) \in ToSet(tables[i].rows)
           /\ LastRow(tables[i], k).key = k /\ Counts(LastRow(tables[i], k), i)
           /\ LastRow(tables[i], k) \in Row(K)
           /\ \A r \in ToSet(tables[i].rows) :
                 Counts(r, i) /\ r.key = k => r = LastRow(tables[i], k)
<1>1. PICK t, rows, n : t = tables[i] /\ rows = t.rows /\ n = Len(rows)
  OBVIOUS
<1>2. rows \in Seq(Row(K)) /\ n \in Nat /\ DOMAIN rows = 1..n
  <2>1. rows \in Seq(Row(K))
    BY <1>1 DEF TablesTyped
  <2> QED BY <1>1, <2>1
<1>3. PICK h \in DOMAIN rows : rows[h].key = k
  BY <1>1 DEF Keyed
<1>4. k # Null \/ plan.tables = 0
  BY DEF Keyed
<1>5. PICK l \in DOMAIN rows : IsLast(rows, k, l)
  BY <1>2, <1>3, HasLast
<1>6. LastRow(t, k) = rows[l]
  BY <1>1, <1>2, <1>5, LastRowIs
<1>7. /\ rows[l].key = k
      /\ \A j \in DOMAIN rows : rows[j].key = k => j <= l
  BY <1>5 DEF IsLast
<1>8. rows[l] \in ToSet(rows) /\ rows[l] \in Row(K)
  <2>1. rows[l] \in Row(K)
    BY <1>2
  <2> QED BY <1>2, <2>1 DEF ToSet
<1>9. Counts(rows[l], i)
  <2>1. \A j \in DOMAIN rows : j > l => rows[j].key # rows[l].key
    BY <1>2, <1>7
  <2> QED BY <1>1, <1>4, <1>7, <2>1 DEF Counts
<1>10. ASSUME NEW r \in ToSet(rows), Counts(r, i), r.key = k PROVE r = rows[l]
  <2>1. PICK j \in DOMAIN rows : /\ rows[j] = r
                                 /\ \A m \in DOMAIN rows : m > j => rows[m].key # r.key
    BY <1>1, <1>10 DEF Counts
  <2>2. j <= l /\ ~(l > j)
    BY <1>7, <1>10, <2>1
  <2>3. j = l
    BY <1>2, <2>2
  <2> QED BY <2>1, <2>3
<1> QED BY <1>1, <1>6, <1>7, <1>8, <1>9, <1>10

(* What the verdict says of two tables, by keys.                           *)
Matches(i, j) == \A k \in Keyed(i) :
    k \in Keyed(j) /\ Agree(LastRow(tables[i], k), LastRow(tables[j], k))

LEMMA MatchesIs ==
    ASSUME NEW K, TablesTyped(K), NEW i \in DOMAIN tables, NEW j \in DOMAIN tables
    PROVE  (\A r \in ToSet(tables[i].rows) : Counts(r, i) =>
               \E s \in ToSet(tables[j].rows) :
                  s.key = r.key /\ Counts(s, j) /\ Agree(r, s))
           <=> Matches(i, j)
<1>1. ASSUME NEW h \in DOMAIN tables, NEW r \in ToSet(tables[h].rows), Counts(r, h)
      PROVE  r.key \in Keyed(h) /\ r = LastRow(tables[h], r.key)
  <2>1. r.key \in Keyed(h)
    BY <1>1 DEF Keyed, Counts
  <2> QED BY <1>1, <2>1, LastCounts
<1>2. ASSUME \A r \in ToSet(tables[i].rows) : Counts(r, i) =>
                \E s \in ToSet(tables[j].rows) :
                   s.key = r.key /\ Counts(s, j) /\ Agree(r, s),
             NEW k \in Keyed(i)
      PROVE  k \in Keyed(j) /\ Agree(LastRow(tables[i], k), LastRow(tables[j], k))
  <2>1. PICK r : r = LastRow(tables[i], k)
    OBVIOUS
  <2>2. r \in ToSet(tables[i].rows) /\ r.key = k /\ Counts(r, i)
    BY <2>1, LastCounts
  <2>3. PICK s \in ToSet(tables[j].rows) : s.key = r.key /\ Counts(s, j) /\ Agree(r, s)
    BY <1>2, <2>2
  <2>4. s.key \in Keyed(j) /\ s = LastRow(tables[j], s.key)
    BY <1>1, <2>3
  <2> QED BY <2>1, <2>2, <2>3, <2>4
<1>3. ASSUME Matches(i, j), NEW r \in ToSet(tables[i].rows), Counts(r, i)
      PROVE  \E s \in ToSet(tables[j].rows) : s.key = r.key /\ Counts(s, j) /\ Agree(r, s)
  <2>1. r.key \in Keyed(i) /\ r = LastRow(tables[i], r.key)
    BY <1>1, <1>3
  <2>2. PICK s : s = LastRow(tables[j], r.key)
    OBVIOUS
  <2>3. r.key \in Keyed(j) /\ Agree(r, s)
    BY <1>3, <2>1, <2>2 DEF Matches
  <2>4. s \in ToSet(tables[j].rows) /\ s.key = r.key /\ Counts(s, j)
    BY <2>2, <2>3, LastCounts
  <2> QED BY <2>3, <2>4
<1> QED BY <1>2, <1>3 DEF Matches

(* Two rows agree if no two of their amounts are apart.                    *)
LEMMA NumbersIs ==
    ASSUME NEW K, NEW r \in Row(K)
    PROVE  /\ AsNumber(r.values[1]) \in Int
           /\ Numbers(r.values) = IF r.values[1] = Words THEN {} ELSE {AsNumber(r.values[1])}
<1>1. PICK v : v = r.values
  OBVIOUS
<1>2. v \in [1..1 -> Int] /\ DOMAIN v = {1} /\ v[1] \in Int
  BY <1>1 DEF Row
<1>3. {d \in {1} : v[d] # Words} = IF v[1] = Words THEN {} ELSE {1}
  OBVIOUS
<1> QED BY <1>1, <1>2, <1>3 DEF Numbers, AsNumber

LEMMA AgreeIs ==
    ASSUME NEW K, TablesTyped(K), NEW r \in Row(K), NEW s \in Row(K)
    PROVE  Agree(r, s) <=>
              \A x \in Numbers(r.values) : \A y \in Numbers(s.values) : ~Apart(x, y, Tolerance)
<1>1. PICK x, y, t : x = AsNumber(r.values[1]) /\ y = AsNumber(s.values[1]) /\ t = Tolerance
  OBVIOUS
<1>2. /\ x \in Int /\ y \in Int
      /\ Numbers(r.values) = IF r.values[1] = Words THEN {} ELSE {x}
      /\ Numbers(s.values) = IF s.values[1] = Words THEN {} ELSE {y}
  BY <1>1, NumbersIs
<1>3. t \in Nat
  BY <1>1 DEF Tolerance, TablesTyped
<1>4. x - y \in -t..t <=> ~Apart(x, y, t)
  BY <1>2, <1>3 DEF Apart
<1> QED BY <1>1, <1>2, <1>4 DEF Agree

(* What a comparison has to say of the tables that were read.              *)
AllMatch(read) == \A i \in read : \A j \in read \ {i} : Matches(i, j)

(* _nway_diff_engine: no key is missing and no amounts differ.             *)
LEMMA NwayIs ==
    ASSUME NEW K, TablesTyped(K), plan.tables >= 2, NEW valid, NEW d,
           d = NwayDiff(tables, valid, plan.tolerance),
           d.kind \in {"consistent", "different"}
    PROVE  d.read \subseteq DOMAIN tables /\ (d.kind = "consistent" <=> AllMatch(d.read))
<1>1. PICK read, keys, missing, amounts :
         /\ read = {i \in DOMAIN tables : tables[i].success}
         /\ keys = UNION {KeysOf(tables[i]) : i \in read}
         /\ missing = {k \in keys : \E i \in read : k \notin KeysOf(tables[i])}
         /\ amounts = {k \in keys \ missing : AmountsDiffer(tables, read, k, plan.tolerance)}
  OBVIOUS
<1>2. d = Compared(missing, amounts, read)
  <2>1. d = IF ~valid THEN Report("unrelated", {}, {}, {})
            ELSE IF keys = {} THEN Report("empty", {}, {}, read)
            ELSE IF Cardinality(read) < 2 THEN Report("alone", {}, {}, read)
            ELSE Compared(missing, amounts, read)
    BY <1>1 DEF NwayDiff
  <2> QED BY <2>1 DEF Report
<1>3. d.read = read /\ (d.kind = "consistent" <=> missing = {} /\ amounts = {})
  BY <1>2 DEF Compared, Report
<1>4. \A i \in DOMAIN tables : KeysOf(tables[i]) = Keyed(i)
  BY DEF KeysOf, Keyed, TablesTyped
<1>5. Tolerance = plan.tolerance
  BY DEF Tolerance
<1>6. read \subseteq DOMAIN tables
  BY <1>1
<1>7. ASSUME missing = {}, amounts = {}, NEW i \in read, NEW j \in read \ {i}, NEW k \in Keyed(i)
      PROVE  k \in Keyed(j) /\ Agree(LastRow(tables[i], k), LastRow(tables[j], k))
  <2>1. k \in keys
    BY <1>1, <1>4, <1>6, <1>7
  <2>2. k \in Keyed(j)
    BY <1>1, <1>4, <1>6, <1>7, <2>1
  <2>3. ~AmountsDiffer(tables, read, k, plan.tolerance)
    BY <1>1, <1>7, <2>1
  <2>4. \A x \in Numbers(LastRow(tables[i], k).values) :
           \A y \in Numbers(LastRow(tables[j], k).values) : ~Apart(x, y, Tolerance)
    BY <1>5, <1>7, <2>3 DEF AmountsDiffer
  <2>5. LastRow(tables[i], k) \in Row(K) /\ LastRow(tables[j], k) \in Row(K)
    BY <1>6, <1>7, <2>2, LastCounts
  <2> QED BY <2>2, <2>4, <2>5, AgreeIs
<1>8. ASSUME AllMatch(read) PROVE missing = {}
  <2>1. ASSUME NEW k \in keys, NEW j \in read PROVE k \in KeysOf(tables[j])
    <3>1. PICK i \in read : k \in Keyed(i)
      BY <1>1, <1>4, <1>6, <2>1
    <3>2. CASE i = j
      BY <1>4, <1>6, <3>1, <3>2
    <3>3. CASE i # j
      <4>1. Matches(i, j)
        BY <1>8, <2>1, <3>1, <3>3 DEF AllMatch
      <4> QED BY <1>4, <1>6, <2>1, <3>1, <4>1 DEF Matches
    <3> QED BY <3>2, <3>3
  <2> QED BY <1>1, <2>1
<1>9. ASSUME AllMatch(read) PROVE amounts = {}
  <2>1. ASSUME NEW k \in keys \ missing PROVE ~AmountsDiffer(tables, read, k, plan.tolerance)
    <3>1. \A i \in read : k \in Keyed(i)
      BY <1>1, <1>4, <1>6, <2>1
    <3>2. ASSUME NEW i \in read, NEW j \in read,
                 NEW x \in Numbers(LastRow(tables[i], k).values),
                 NEW y \in Numbers(LastRow(tables[j], k).values)
          PROVE  ~Apart(x, y, plan.tolerance)
      <4>1. PICK r, s : r = LastRow(tables[i], k) /\ s = LastRow(tables[j], k)
        OBVIOUS
      <4>2. r \in Row(K) /\ s \in Row(K)
        BY <1>6, <3>1, <4>1, LastCounts
      <4>3. CASE i = j
        <5>1. AsNumber(r.values[1]) \in Int /\ x = AsNumber(r.values[1]) /\ y = x
          <6>1. /\ AsNumber(r.values[1]) \in Int
                /\ Numbers(r.values) =
                      IF r.values[1] = Words THEN {} ELSE {AsNumber(r.values[1])}
            BY <4>2, NumbersIs
          <6>2. s = r
            BY <4>1, <4>3
          <6> QED BY <3>2, <4>1, <6>1, <6>2
        <5>2. plan.tolerance \in Nat
          BY DEF TablesTyped
        <5> QED BY <5>1, <5>2 DEF Apart
      <4>4. CASE i # j
        <5>1. Agree(r, s)
          BY <1>9, <3>1, <3>2, <4>1, <4>4 DEF AllMatch, Matches
        <5>2. \A u \in Numbers(r.values) : \A v \in Numbers(s.values) : ~Apart(u, v, Tolerance)
          BY <4>2, <5>1, AgreeIs
        <5> QED BY <1>5, <3>2, <4>1, <5>2
      <4> QED BY <4>3, <4>4
    <3> QED BY <3>2 DEF AmountsDiffer
  <2> QED BY <1>1, <2>1
<1>10. missing = {} /\ amounts = {} => AllMatch(read)
  BY <1>7 DEF AllMatch, Matches
<1> QED BY <1>3, <1>6, <1>8, <1>9, <1>10

(* _diff_parallel_results: without a plan, of the first two tables.        *)
LEMMA TwoWayIs ==
    ASSUME NEW K, TablesTyped(K), plan.tables = 0, Len(tables) >= 2, NEW shared, NEW d,
           d = TwoWayDiff(tables, shared),
           d.kind \in {"consistent", "different"}
    PROVE  d.read \subseteq DOMAIN tables /\ (d.kind = "consistent" <=> AllMatch(d.read))
<1>1. PICK one, two, both, alone, amounts :
         /\ one = {tables[1].rows[j].key : j \in DOMAIN tables[1].rows}
         /\ two = {tables[2].rows[j].key : j \in DOMAIN tables[2].rows}
         /\ both = one \cap two /\ alone = (one \cup two) \ both
         /\ amounts = {k \in both :
               /\ LastRow(tables[1], k).values[1] # Words
               /\ LastRow(tables[2], k).values[1] # Words
               /\ Apart(AsNumber(LastRow(tables[1], k).values[1]),
                        AsNumber(LastRow(tables[2], k).values[1]), 0)}
  OBVIOUS
<1>2. d = Compared(alone, amounts, {1, 2})
  <2>1. d = IF ~tables[1].success \/ ~tables[2].success THEN Report("failed", {}, {}, {})
            ELSE IF tables[1].rows = <<>> \/ tables[2].rows = <<>>
                 THEN Report("empty", {}, {}, {})
            ELSE IF ~shared THEN Report("unrelated", {}, {}, {})
            ELSE Compared(alone, amounts, {1, 2})
    BY <1>1 DEF TwoWayDiff
  <2> QED BY <2>1 DEF Report
<1>3. d.read = {1, 2} /\ (d.kind = "consistent" <=> alone = {} /\ amounts = {})
  BY <1>2 DEF Compared, Report
<1>4. one = Keyed(1) /\ two = Keyed(2) /\ {1, 2} \subseteq DOMAIN tables
  <2>1. {1, 2} \subseteq DOMAIN tables
    BY DEF TablesTyped
  <2> QED BY <1>1, <2>1 DEF Keyed
<1>5. Tolerance = 0
  BY DEF Tolerance
<1>6. ASSUME NEW i \in {1, 2}, NEW k \in Keyed(i)
      PROVE  LastRow(tables[i], k) \in Row(K)
  BY <1>4, <1>6, LastCounts
<1>7. ASSUME NEW r \in Row(K), NEW s \in Row(K)
      PROVE  /\ Agree(r, s) <=> ~(/\ r.values[1] # Words /\ s.values[1] # Words
                                  /\ Apart(AsNumber(r.values[1]), AsNumber(s.values[1]), 0))
             /\ Agree(r, s) <=> Agree(s, r)
  <2>1. AsNumber(r.values[1]) \in Int /\ AsNumber(s.values[1]) \in Int
    BY NumbersIs
  <2> QED BY <1>5, <2>1 DEF Agree, Apart
<1>8. ASSUME alone = {}, amounts = {} PROVE Matches(1, 2) /\ Matches(2, 1)
  <2>1. Keyed(1) = both /\ Keyed(2) = both
    BY <1>1, <1>4, <1>8
  <2>2. ASSUME NEW k \in both PROVE /\ Agree(LastRow(tables[1], k), LastRow(tables[2], k))
                                    /\ Agree(LastRow(tables[2], k), LastRow(tables[1], k))
    <3>1. LastRow(tables[1], k) \in Row(K) /\ LastRow(tables[2], k) \in Row(K)
      BY <1>6, <2>1
    <3> QED BY <1>1, <1>7, <1>8, <3>1
  <2> QED BY <2>1, <2>2 DEF Matches
<1>9. ASSUME Matches(1, 2), Matches(2, 1) PROVE alone = {} /\ amounts = {}
  <2>1. Keyed(1) = Keyed(2)
    BY <1>9 DEF Matches
  <2>2. ASSUME NEW k \in both
        PROVE  ~(/\ LastRow(tables[1], k).values[1] # Words
                 /\ LastRow(tables[2], k).values[1] # Words
                 /\ Apart(AsNumber(LastRow(tables[1], k).values[1]),
                          AsNumber(LastRow(tables[2], k).values[1]), 0))
    <3>1. k \in Keyed(1) /\ k \in Keyed(2)
      BY <1>1, <1>4
    <3>2. LastRow(tables[1], k) \in Row(K) /\ LastRow(tables[2], k) \in Row(K)
      BY <1>6, <3>1
    <3>3. Agree(LastRow(tables[1], k), LastRow(tables[2], k))
      BY <1>9, <3>1 DEF Matches
    <3> QED BY <1>7, <3>2, <3>3
  <2> QED BY <1>1, <1>4, <2>1, <2>2
<1>10. AllMatch({1, 2}) <=> Matches(1, 2) /\ Matches(2, 1)
  BY DEF AllMatch
<1> QED BY <1>3, <1>4, <1>8, <1>9, <1>10

(* Whatever the tables hold and whatever the plan is, a report that all    *)
(* tables agree, or that they do not, is right (_summarize_observations).  *)
AnyTables(K) == TablesTyped(K) /\ report = Pending

TablesInv(K) ==
    TablesTyped(K) /\ (report = Pending \/ report = Summary(tables, plan, TRUE))

LEMMA VerdictStep ==
    ASSUME NEW K, TablesInv(K), [ReconNext]_reconVars PROVE TablesInv(K)'
<1>1. tables' = tables /\ plan' = plan
  BY DEF ReconNext, ObserveTables, reconVars
<1>2. report' = report \/ report' = Summary(tables, plan, TRUE)
  BY DEF ReconNext, ObserveTables, reconVars
<1> QED BY <1>1, <1>2 DEF TablesInv, TablesTyped

LEMMA VerdictHolds == ASSUME NEW K, TablesInv(K) PROVE VerdictIsTrue
<1> SUFFICES ASSUME report.kind \in {"consistent", "different"}
             PROVE  /\ report.read \subseteq DOMAIN tables
                    /\ report.kind = "consistent" <=> AllMatch(report.read)
  <2>1. ASSUME report.read \subseteq DOMAIN tables,
               report.kind = "consistent" <=> AllMatch(report.read)
        PROVE  report.kind = "consistent" <=>
                  \A i \in report.read : \A j \in report.read \ {i} :
                     \A r \in ToSet(tables[i].rows) : Counts(r, i) =>
                        \E s \in ToSet(tables[j].rows) :
                           s.key = r.key /\ Counts(s, j) /\ Agree(r, s)
    <3>1. TablesTyped(K)
      BY DEF TablesInv
    <3>2. \A i \in report.read : \A j \in report.read \ {i} :
             (\A r \in ToSet(tables[i].rows) : Counts(r, i) =>
                 \E s \in ToSet(tables[j].rows) :
                    s.key = r.key /\ Counts(s, j) /\ Agree(r, s)) <=> Matches(i, j)
      BY <2>1, <3>1, MatchesIs
    <3> QED BY <2>1, <3>2 DEF AllMatch
  <2> QED BY <2>1 DEF VerdictIsTrue
<1>1. TablesTyped(K) /\ report = Summary(tables, plan, TRUE)
  <2>1. Pending.kind = "pending"
    BY DEF Pending, Report
  <2>2. report # Pending
    BY <2>1
  <2> QED BY <2>2 DEF TablesInv
<1> DEFINE n == plan.tables l == Len(tables)
<1>2. n \in Nat \ {1} /\ l \in Nat
  BY <1>1 DEF TablesTyped
<1> HIDE DEF n, l
<1>3. CASE l < 2
  BY <1>1, <1>3 DEF Summary, Report, l
<1>4. CASE l >= 2 /\ n >= 2
  <2>1. report = NwayDiff(tables, plan.valid, plan.tolerance)
    <3>1. ~(l < 2)
      BY <1>4, <1>2
    <3> QED BY <1>1, <1>4, <3>1 DEF Summary, l, n
  <2> QED BY <1>1, <1>4, <2>1, NwayIs DEF n
<1>5. CASE l >= 2 /\ n = 0
  <2>1. report = TwoWayDiff(tables, plan.shared)
    <3>1. ~(l < 2) /\ ~(n >= 2)
      BY <1>5, <1>2
    <3> QED BY <1>1, <3>1 DEF Summary, l, n
  <2> QED BY <1>1, <1>5, <2>1, TwoWayIs DEF l, n
<1> QED
  <2>1. l < 2 \/ (l >= 2 /\ n >= 2) \/ (l >= 2 /\ n = 0)
    BY <1>2
  <2> QED BY <1>3, <1>4, <1>5, <2>1

THEOREM VerdictIsRight ==
    ASSUME NEW CONSTANT K
    PROVE  AnyTables(K) /\ [][ReconNext]_reconVars => []VerdictIsTrue
<1>1. AnyTables(K) => TablesInv(K)
  BY DEF AnyTables, TablesInv
<1>2. TablesInv(K) /\ [ReconNext]_reconVars => TablesInv(K)'
  BY VerdictStep
<1>3. TablesInv(K) => VerdictIsTrue
  BY VerdictHolds
<1> QED BY <1>1, <1>2, <1>3, PTL

(* The tables of the run are such tables.                                  *)
LEMMA ReconInitIsAny == ReconInit => AnyTables({"k1", "k2", Null})
<1> SUFFICES ASSUME ReconInit PROVE TablesTyped({"k1", "k2", Null})
  BY DEF ReconInit, AnyTables
<1>1. PICK K : K = {"k1", "k2", Null}
  OBVIOUS
<1>2. SampleRows \subseteq Row(K)
  <2>1. \A v \in Int : <<v>> \in [1..1 -> Int]
    OBVIOUS
  <2> QED BY <1>1, <2>1 DEF SampleRows, Row, NoValue, Words
<1>3. ASSUME NEW n \in Nat, NEW t \in UpTo(n) PROVE t.success \in BOOLEAN /\ t.rows \in Seq(Row(K))
  <2>1. CASE t = Failed
    BY <2>1 DEF Failed
  <2>2. ASSUME NEW k \in 0..n, NEW rows \in [1..k -> SampleRows], t = Read(rows)
        PROVE  t.success \in BOOLEAN /\ t.rows \in Seq(Row(K))
    <3>1. rows \in [1..k -> Row(K)]
      BY <1>2
    <3>2. rows \in Seq(Row(K))
      BY <3>1
    <3> QED BY <2>2, <3>2 DEF Read
  <2> QED BY <1>3, <2>1, <2>2 DEF UpTo
<1>4. plan.tables \in Nat \ {1} /\ plan.tolerance \in Nat
  <2>1. plan \in Plans
    BY DEF ReconInit
  <2>2. plan.tables \in {0, 3} /\ plan.tolerance = 1
    BY <2>1 DEF Plans
  <2> QED BY <2>2
<1>5. PICK one \in UpTo(2), two \in UpTo(2) :
         \/ \E three \in UpTo(1) : tables = <<one, two, three>>
         \/ tables = <<one, two>>
  BY DEF ReconInit
<1>6. CASE tables = <<one, two>>
  <2>1. DOMAIN tables = 1..2 /\ Len(tables) = 2 /\ tables[1] = one /\ tables[2] = two
    BY <1>6
  <2>2. \A i \in 1..2 : tables[i].success \in BOOLEAN /\ tables[i].rows \in Seq(Row(K))
    <3>1. /\ one.success \in BOOLEAN /\ one.rows \in Seq(Row(K))
          /\ two.success \in BOOLEAN /\ two.rows \in Seq(Row(K))
      BY <1>3
    <3>2. \A i \in 1..2 : i = 1 \/ i = 2
      OBVIOUS
    <3> QED BY <2>1, <3>1, <3>2
  <2> QED BY <1>1, <1>4, <2>1, <2>2 DEF TablesTyped
<1>7. ASSUME NEW three \in UpTo(1), tables = <<one, two, three>> PROVE TablesTyped(K)
  <2>1. /\ DOMAIN tables = 1..3 /\ Len(tables) = 3
        /\ tables[1] = one /\ tables[2] = two /\ tables[3] = three
    BY <1>7
  <2>2. \A i \in 1..3 : tables[i].success \in BOOLEAN /\ tables[i].rows \in Seq(Row(K))
    <3>1. /\ one.success \in BOOLEAN /\ one.rows \in Seq(Row(K))
          /\ two.success \in BOOLEAN /\ two.rows \in Seq(Row(K))
          /\ three.success \in BOOLEAN /\ three.rows \in Seq(Row(K))
      BY <1>3
    <3>2. \A i \in 1..3 : i = 1 \/ i = 2 \/ i = 3
      OBVIOUS
    <3> QED BY <2>1, <3>1, <3>2
  <2> QED BY <1>4, <2>1, <2>2 DEF TablesTyped
<1> QED BY <1>1, <1>5, <1>6, <1>7
==============================================================================
