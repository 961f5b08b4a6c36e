------------------------------ MODULE FileTools --------------------------------
(***************************************************************************)
(* The Read, Write, Edit and MultiEdit tools on one file that several      *)
(* agents of a project share.  A call is a sequence of system calls; the   *)
(* calls of different agents interleave, and the process may die between   *)
(* two of them.  A version stands for what a write puts into a file, 0 for *)
(* a file just truncated, filled in part or written by two at once.  The   *)
(* optimistic lock compares modification times in milliseconds; backups    *)
(* are named by the second.                                                *)
(***************************************************************************)
EXTENDS Integers, FiniteSets

CONSTANTS
    Callers,      (* agents, in one process or several                       *)
    MaxWrites,    (* bound: calls that get as far as writing                 *)
    MaxClock,     (* bound: the clock in milliseconds                        *)
    Second,       (* milliseconds in a second                                *)
    MaxFaults     (* bound: crashes and writes that fail                     *)

ASSUME FileAssumption ==
    /\ MaxWrites \in Nat /\ MaxClock \in Nat /\ MaxFaults \in Nat
    /\ Second \in Nat \ {0}

VARIABLES
    inode,     (* inode -> the version in it and its modification time       *)
    file,      (* inode the path names                                       *)
    temp,      (* inode of the path with .tmp, or 0                          *)
    backups,   (* second -> version, or Unknown: the files in .backups       *)
    cached,    (* read_metadata_cache: a modification time, or Unknown       *)
    known,     (* caller -> version and time its last Read returned          *)
    op,        (* caller -> the call it is in                                *)
    clock,
    writes,    (* number of versions written so far                          *)
    made,      (* history: version -> the time it was written                *)
    whole,     (* history: the last version that was whole in the file       *)
    last,      (* history: what the last call replaced, if it knew what      *)
    mixed,     (* history: two calls that write have overlapped              *)
    harm,      (* history: what befell the file since it was last whole: an  *)
               (* Edit's writing was "cut", its backup was "buried"          *)
    faults     (* crashes and writes that failed                             *)

filesVars == <<inode, file, temp, backups, cached, known, op, clock, writes, made,
          whole, last, mixed, harm, faults>>

Unknown == -1
Inodes == 1..(MaxWrites + 2)
Versions == 0..(MaxWrites + 1)
Torn == 0

(* seen is the version the caller takes the file to have, when it can: no  *)
(* call has overlapped, and a Write is locked with the time of its         *)
(* caller's own Read.                                                      *)
NoOp == [tool |-> "none", pc |-> "idle", seen |-> Unknown, fd |-> 0, alone |-> TRUE]

NothingKnown == [version |-> Unknown, mtime |-> Unknown]
NoReplacement == [seen |-> 0, replaced |-> 0]

Writing(c) == op[c].tool \in {"Write", "Edit"}

Interrupted(call) == [call EXCEPT !.seen = Unknown, !.alone = FALSE]

(* Beginning a call disturbs those under way, and is disturbed by them.    *)
BeginCall(c, call) ==
    /\ op' = [d \in Callers |->
                IF d = c
                THEN IF \E e \in Callers \ {c} : op[e].pc # "idle" THEN Interrupted(call) ELSE call
                ELSE IF op[d].pc # "idle" THEN Interrupted(op[d]) ELSE op[d]]
    /\ mixed' = (mixed \/ (call.tool # "Read"
                             /\ \E d \in Callers \ {c} : Writing(d)))
    /\ last' = NoReplacement

Continue(c, pc) == op' = [op EXCEPT ![c].pc = pc] /\ UNCHANGED mixed
End(c) == op' = [op EXCEPT ![c] = NoOp] /\ UNCHANGED mixed

FilesSame == UNCHANGED <<inode, file, temp, backups, writes, made, whole, harm>>
RestSame == UNCHANGED <<cached, known, clock, last, faults>>

Put(i, version) == [inode EXCEPT ![i] = [version |-> version, mtime |-> clock]]

------------------------------------------------------------------------------
(* ReadTool.run reads the file first and asks for its time afterwards.     *)
ReadContent(c) ==
    /\ op[c].pc = "idle"
    /\ BeginCall(c, [NoOp EXCEPT !.tool = "Read", !.pc = "stat",
                             !.seen = inode[file].version])
    /\ FilesSame /\ UNCHANGED <<cached, known, clock, faults>>

ReadStat(c) ==
    /\ op[c].tool = "Read" /\ op[c].pc = "stat"
    /\ known' = [known EXCEPT ![c] = [version |-> op[c].seen,
                                      mtime |-> inode[file].mtime]]
    /\ cached' = inode[file].mtime
    /\ End(c)
    /\ FilesSame /\ UNCHANGED <<clock, last, faults>>

(* The time a call may be given: none, that of the caller's own Read, or   *)
(* the one in the cache, whoever read last.                                *)
Locks(c) == {Unknown, known[c].mtime, cached}

(* Mutant: the lock is not looked at.                                      *)
Passes_Always(held) == TRUE

Passes(held) == held # Unknown => inode[file].mtime = held

(* WriteTool.run and EditTool.run up to the check of the lock; a failed    *)
(* check ends the call before it has done anything.                        *)
Check(c, tool) ==
    /\ op[c].pc = "idle" /\ writes < MaxWrites
    /\ \E held \in Locks(c) :
         /\ Passes(held)
         /\ BeginCall(c, [NoOp EXCEPT !.tool = tool,
                !.pc = IF tool = "Edit" THEN "load" ELSE "backup",
                !.seen = IF tool = "Write" /\ held # Unknown /\ held = known[c].mtime
                         THEN known[c].version ELSE Unknown])
    /\ FilesSame /\ UNCHANGED <<cached, known, clock, faults>>

(* EditTool and MultiEditTool read the file again; when a text to replace  *)
(* is not there exactly once the call ends.                                *)
EditLoad(c) ==
    /\ op[c].pc = "load"
    /\ \/ /\ op' = [op EXCEPT ![c].pc = "backup",
                             ![c].seen = IF op[c].alone THEN inode[file].version ELSE Unknown]
          /\ UNCHANGED mixed
       \/ End(c)
    /\ FilesSame /\ RestSame

(* The backup of this second, of which there is one: it takes the place of *)
(* an earlier one, which a file that is torn may still need.               *)
BackUp(version) ==
    /\ backups' = [backups EXCEPT ![clock \div Second] = version]
    /\ harm' = IF inode[file].version = Torn /\ backups[clock \div Second] = whole
               THEN harm \cup {"buried"} ELSE harm

(* _backup_file, which may fail before it copies.           Mutant: Edit   *)
(* goes without.                                                           *)
Backup_WriteOnly(c) ==
    /\ op[c].pc = "backup"
    /\ \/ /\ IF op[c].tool = "Edit" THEN UNCHANGED <<backups, harm>>
             ELSE BackUp(inode[file].version)
          /\ Continue(c, "open")
       \/ End(c) /\ UNCHANGED <<backups, harm>>
    /\ UNCHANGED <<inode, file, temp, writes, made, whole>> /\ RestSame

Backup(c) ==
    /\ op[c].pc = "backup"
    /\ \/ Continue(c, "open") /\ BackUp(inode[file].version)
       \/ End(c) /\ UNCHANGED <<backups, harm>>
    /\ UNCHANGED <<inode, file, temp, writes, made, whole>> /\ RestSame

(* What a call overwrites, against what it took to be there.               *)
Replaces(c) ==
    last' = IF op[c].seen = Unknown THEN NoReplacement
            ELSE [seen |-> op[c].seen, replaced |-> inode[file].version]

(* Inodes of no file yet.                                                  *)
Fresh == {j \in Inodes : inode[j].mtime = Unknown}

(* WriteTool opens the temporary file, which has one name for all callers: *)
(* it is created or emptied.                                               *)
WriteOpen(c) ==
    /\ op[c].tool = "Write" /\ op[c].pc = "open"
    /\ temp = 0 => Fresh # {}
    /\ LET i == IF temp # 0 THEN temp ELSE CHOOSE j \in Fresh : TRUE
       IN  /\ temp' = i /\ inode' = Put(i, Torn)
           /\ op' = [op EXCEPT ![c].fd = i, ![c].pc = "fill"]
    /\ UNCHANGED <<file, backups, writes, made, whole, mixed, harm>> /\ RestSame

(* EditTool opens the file itself, which empties it.                       *)
EditOpen(c) ==
    /\ op[c].tool = "Edit" /\ op[c].pc = "open"
    /\ inode' = Put(file, Torn)
    /\ op' = [op EXCEPT ![c].fd = file, ![c].pc = "fill"]
    /\ Replaces(c)
    /\ UNCHANGED <<file, temp, backups, writes, made, whole, mixed, harm>>
    /\ UNCHANGED <<cached, known, clock, faults>>

(* What the path names from now on; a torn version ends nothing.           *)
Holds(version) ==
    IF version # Torn THEN whole' = version /\ harm' = {} ELSE UNCHANGED <<whole, harm>>

(* The content is written; into an inode that another call has filled      *)
(* since, it may come out mixed.                                           *)
Fill(c) ==
    /\ op[c].pc = "fill" /\ writes < MaxWrites
    /\ LET version == writes + 2
           fd == op[c].fd
       IN  /\ \/ inode' = Put(fd, version)
              \/ inode[fd].version # Torn /\ inode' = Put(fd, Torn)
           /\ made' = [made EXCEPT ![version] = clock]
           /\ IF fd = file THEN Holds(inode'[fd].version) ELSE UNCHANGED <<whole, harm>>
    /\ writes' = writes + 1
    /\ IF op[c].tool = "Edit" THEN End(c) ELSE Continue(c, "replace")
    /\ UNCHANGED <<file, temp, backups>> /\ RestSame

(* os.replace, which fails when another call has moved the temporary file. *)
Replace(c) ==
    /\ op[c].pc = "replace"
    /\ IF temp = 0 THEN UNCHANGED <<file, temp, whole, harm, last>>
       ELSE /\ file' = temp /\ temp' = 0
            /\ Holds(inode[temp].version)
            /\ Replaces(c)
    /\ End(c)
    /\ UNCHANGED <<inode, backups, writes, made, cached, known, clock, faults>>

(* One of these raises - a file may not be opened or moved, the disk is    *)
(* full, a character has no encoding - and the call reports it and ends.   *)
(* A file it was writing, the backup or what open has emptied, keeps as    *)
(* much as was written.                                                    *)
WriteFails(c) ==
    /\ faults < MaxFaults /\ faults' = faults + 1
    /\ \/ op[c].pc = "backup" /\ BackUp(Torn) /\ UNCHANGED inode
       \/ op[c].pc \in {"open", "replace"} /\ UNCHANGED <<inode, backups, harm>>
       \/ /\ op[c].pc = "fill"
          /\ inode' \in {inode, Put(op[c].fd, Torn)}
          /\ harm' = IF op[c].tool = "Edit" THEN harm \cup {"cut"} ELSE harm
          /\ UNCHANGED backups
    /\ End(c)
    /\ UNCHANGED <<file, temp, writes, made, whole, cached, known, clock, last>>

Tick ==
    /\ clock < MaxClock /\ clock' = clock + 1
    /\ FilesSame /\ UNCHANGED <<cached, known, op, last, mixed, faults>>

(* The process dies; what is on disk stays, and a saved session may bring  *)
(* the cache back.                                                         *)
Crash ==
    /\ faults < MaxFaults /\ faults' = faults + 1
    /\ op' = [c \in Callers |-> NoOp]
    /\ known' = [c \in Callers |-> NothingKnown]
    /\ cached' \in {cached, Unknown}
    /\ harm' = IF \E c \in Callers : op[c].tool = "Edit" /\ op[c].pc = "fill"
               THEN harm \cup {"cut"} ELSE harm
    /\ UNCHANGED <<inode, file, temp, backups, writes, made, whole, clock, last, mixed>>

------------------------------------------------------------------------------
FilesInit ==
    /\ inode = [i \in Inodes |-> IF i = 1 THEN [version |-> 1, mtime |-> 0]
                                 ELSE [version |-> Torn, mtime |-> Unknown]]
    /\ file = 1 /\ temp = 0
    /\ backups = [s \in 0..(MaxClock \div Second) |-> Unknown]
    /\ cached = Unknown /\ known = [c \in Callers |-> NothingKnown]
    /\ op = [c \in Callers |-> NoOp]
    /\ clock = 0 /\ writes = 0
    /\ made = [v \in Versions |-> 0] /\ whole = 1
    /\ last = NoReplacement
    /\ mixed = FALSE /\ harm = {} /\ faults = 0

FileCall(c) ==
    \/ ReadContent(c) \/ ReadStat(c)
    \/ Check(c, "Write") \/ Check(c, "Edit")
    \/ EditLoad(c) \/ Backup(c) \/ WriteOpen(c) \/ EditOpen(c) \/ Fill(c) \/ Replace(c)
    \/ WriteFails(c)

FilesNext == (\E c \in Callers : FileCall(c)) \/ Tick \/ Crash

FilesSpec == FilesInit /\ [][FilesNext]_filesVars

------------------------------------------------------------------------------
FilesTypeOK ==
    /\ inode \in [Inodes -> [version : Versions, mtime : {Unknown} \cup 0..MaxClock]]
    /\ file \in Inodes /\ temp \in {0} \cup Inodes /\ temp # file
    /\ backups \in [0..(MaxClock \div Second) -> {Unknown} \cup Versions]
    /\ \A c \in Callers : op[c].pc \in {"idle", "stat", "load", "backup", "open", "fill", "replace"}
    /\ harm \subseteq {"cut", "buried"}
    /\ clock \in 0..MaxClock /\ writes \in 0..MaxWrites /\ whole \in Versions \ {Torn}

(* No update is lost but by overlapping calls or within one millisecond: a *)
(* call that ran alone, an Edit, or a Write locked with the time of its    *)
(* caller's own undisturbed Read, replaces the version it has seen, or one *)
(* that was written in the same millisecond as that (a file that is empty  *)
(* or that two calls have mixed has no version to lose).                   *)
LostOnlyInParallel ==
    \/ last.replaced \in {last.seen, Torn} \/ last.seen = Torn
    \/ made[last.replaced] = made[last.seen]

(* Neither a crash nor a failed write loses a version for good: when no    *)
(* two writing calls have ever overlapped, a file that is not whole is one *)
(* that an Edit is writing or was cut off from writing, for a Write that   *)
(* dies or fails leaves it alone; and the last whole version is among the  *)
(* backups, unless it was buried there: a later call of the same second    *)
(* backed up the torn file under its name.                                 *)
Recoverable ==
    inode[file].version = Torn /\ ~mixed =>
       /\ "buried" \in harm \/ \E s \in DOMAIN backups : backups[s] = whole
       /\ "cut" \in harm \/ \E c \in Callers : op[c].tool = "Edit" /\ op[c].pc = "fill"
==============================================================================
