------------------------------ MODULE ToolNotes --------------------------------
(***************************************************************************)
(* The two tools an agent takes notes with: the task list of TodoWrite,    *)
(* replaced as a whole and saved under the second of its writing, and the  *)
(* development log, appended to and saved as a whole under the id of its   *)
(* session.  Saving may fail, and the process may die and a tool of the    *)
(* same session be created again.                                          *)
(***************************************************************************)
EXTENDS Integers, FiniteSets, Sequences, SequencesExt

CONSTANTS
    MaxTasks,     (* bound: tasks in a list                                  *)
    MaxEntries,   (* bound: entries written to the log                       *)
    MaxSeconds,   (* bound: seconds                                          *)
    MaxRestarts   (* bound: restarts                                         *)

ASSUME NotesAssumption ==
    MaxTasks \in Nat /\ MaxEntries \in Nat /\ MaxSeconds \in Nat /\ MaxRestarts \in Nat

VARIABLES
    todos,      (* current_todos: the states of the tasks                    *)
    todoFiles,  (* second -> list, or NoList: todoList-<second>.json         *)
    second,
    entries,    (* DevLogStore.entries                                       *)
    logFile,    (* entries in devlog-<session>.json                          *)
    appended,   (* number of entries so far                                  *)
    told,       (* history: entries the tool has reported as recorded        *)
    unread,     (* history: the file could not be read at a restart          *)
    restarts

notesVars == <<todos, todoFiles, second, entries, logFile, appended, told, unread, restarts>>
logVars == <<entries, logFile, appended, told, unread>>
todoVars == <<todos, todoFiles>>

Statuses == {"pending", "in_progress", "completed"}
NoList == <<"none">>
Lists == UNION {[1..n -> Statuses \cup {"other"}] : n \in 0..MaxTasks}

(* _validate_todos; "other" is a state the tool does not know, a task      *)
(* without a text or no task at all.                                       *)
Valid(list) ==
    /\ Cardinality({i \in DOMAIN list : list[i] = "in_progress"}) <= 1
    /\ \A i \in DOMAIN list : list[i] \in Statuses

(* _generate_recap: what the recap shows of a list.                        *)
Recap(list) ==
    LET of(status) == SelectSeq(list, LAMBDA s : s = status) IN
    [completed |-> Len(of("completed")), total |-> Len(list),
     doing |-> Len(of("in_progress")), shown |-> IF Len(of("pending")) > 3 THEN 3
                                                 ELSE Len(of("pending")),
     done |-> list # <<>> /\ Len(of("completed")) = Len(list)]

(* A finished list has nothing left to do or to show, and a recap leaves   *)
(* out no task but pending ones beyond the third.                          *)
ASSUME RecapCounts ==
    \A list \in {l \in Lists : Valid(l)} :
       LET r == Recap(list)
       IN  /\ r.done => r.doing = 0 /\ r.shown = 0
           /\ r.completed + r.doing + r.shown <= r.total
           /\ r.shown < 3 => r.completed + r.doing + r.shown = r.total

(* TodoWriteTool.run: the list is replaced before it is saved, so it stays *)
(* when saving fails and the call reports an error.                        *)
TodoWrite ==
    /\ \E list \in {l \in Lists : Valid(l)} :
         /\ todos' = list
         /\ \/ todoFiles' = [todoFiles EXCEPT ![second] = list]
            \/ UNCHANGED todoFiles
    /\ UNCHANGED <<second, logVars, restarts>>

(* Clearing is not saved.                                                  *)
TodoClear ==
    /\ todos' = <<>>
    /\ UNCHANGED <<todoFiles, second, logVars, restarts>>

TodoLoad ==
    /\ \E s \in DOMAIN todoFiles : todoFiles[s] # NoList /\ todos' = todoFiles[s]
    /\ UNCHANGED <<todoFiles, second, logVars, restarts>>

(* DevLogTool._handle_append, with a known category and a content.         *)
(* Mutant: the call answers before the entry is saved.                     *)
LogAppend_TellsFirst ==
    /\ appended < MaxEntries
    /\ LET entry == appended + 1 IN
       /\ appended' = entry
       /\ entries' = Append(entries, entry)
       /\ told' = told \cup {entry}
       /\ logFile' \in {entries', logFile}
    /\ UNCHANGED <<todoVars, second, unread, restarts>>

LogAppend ==
    /\ appended < MaxEntries
    /\ LET entry == appended + 1 IN
       /\ appended' = entry
       /\ entries' = Append(entries, entry)
       /\ \/ logFile' = entries' /\ told' = told \cup {entry}
          \/ UNCHANGED <<logFile, told>>
    /\ UNCHANGED <<todoVars, second, unread, restarts>>

(* _handle_clear                                                           *)
LogClear ==
    /\ entries' = <<>> /\ told' = {}
    /\ logFile' \in {<<>>, logFile}
    /\ UNCHANGED <<todoVars, second, appended, unread, restarts>>

(* filter_entries: the latest limit entries among the wanted ones, a limit *)
(* of 0 or less meaning all.                                               *)
Matching(log, wanted, limit) ==
    LET matching == SelectSeq(log, LAMBDA e : e \in wanted) IN
    IF limit > 0 /\ limit < Len(matching)
    THEN SubSeq(matching, Len(matching) - limit + 1, Len(matching)) ELSE matching

(* Reading drops only entries that are not wanted or older than limit      *)
(* wanted ones.                                                            *)
ASSUME FilterKeepsLatest ==
    \A wanted \in SUBSET (1..4), limit \in 0..5 :
       LET log == <<1, 2, 3, 4>>
           kept == ToSet(Matching(log, wanted, limit))
       IN  /\ kept \subseteq wanted
           /\ \A e \in wanted \ kept : Cardinality({k \in kept : k > e}) = limit

(* A new process: an empty list of tasks, and the log of the session as    *)
(* the file has it, or an empty one when it cannot be read.                *)
Restart ==
    /\ restarts < MaxRestarts /\ restarts' = restarts + 1
    /\ todos' = <<>>
    /\ \/ entries' = logFile /\ UNCHANGED unread
       \/ logFile # <<>> /\ entries' = <<>> /\ unread' = TRUE
    /\ UNCHANGED <<todoFiles, second, logFile, appended, told>>

NextSecond ==
    /\ second < MaxSeconds /\ second' = second + 1
    /\ UNCHANGED <<todoVars, logVars, restarts>>

NotesInit ==
    /\ todos = <<>> /\ second = 0
    /\ todoFiles = [s \in 0..MaxSeconds |-> NoList]
    /\ entries = <<>> /\ logFile = <<>> /\ appended = 0
    /\ told = {} /\ unread = FALSE /\ restarts = 0

NotesNext ==
    \/ TodoWrite \/ TodoClear \/ TodoLoad
    \/ LogAppend \/ LogClear \/ Restart \/ NextSecond

NotesSpec == NotesInit /\ [][NotesNext]_notesVars

------------------------------------------------------------------------------
(* An entry of the development log that was reported as recorded is in the *)
(* file, in its place, whatever saves failed and whenever the process was  *)
(* restarted, until the log is cleared; only a restart that could not read *)
(* the file makes the next append write over it.                           *)
LogAcknowledged ==
    ~unread =>
       /\ told \subseteq ToSet(logFile)
       /\ \A i, j \in DOMAIN logFile : i < j => logFile[i] < logFile[j]
==============================================================================
