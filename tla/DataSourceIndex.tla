--------------------------- MODULE DataSourceIndex ---------------------------
(***************************************************************************)
(* Registered data sources and the indexes that narrow a query to the      *)
(* tables it is about.  The registry keeps its entries in memory and in a  *)
(* JSON file it rewrites as a whole; creating or reindexing a source       *)
(* starts an index task that builds in a thread pool and reports by the    *)
(* name of the source.  Endpoints and tasks interleave; the process may    *)
(* crash, in the middle of a save as well, and restart.                    *)
(*                                                                         *)
(* An index is reduced to the database it was built from and the version   *)
(* of that database's schema it saw.                                       *)
(***************************************************************************)
EXTENDS Naturals

CONSTANTS
    Sources,     (* names of data sources                                    *)
    Databases,   (* what a connection configuration or a db_path points to   *)
    Tasks,       (* bound: index tasks alive at the same time                *)
    MaxVersion,  (* bound: schema changes per database                       *)
    MaxBoots,    (* bound: restarts                                          *)
    None

ASSUME IndexAssumption ==
    /\ None \notin Databases
    /\ MaxVersion \in Nat /\ MaxBoots \in Nat

VARIABLES
    entries,    (* _entries: per name the database, index_status, enabled    *)
    file,       (* what _load would read from the JSON file                  *)
    linkers,    (* _ds_linkers: per name the index queries are narrowed by   *)
    tasks,      (* index_datasource coroutines                               *)
    version,    (* schema version of every database                          *)
    boots,      (* restarts so far                                           *)
    requested,  (* history: schema version when indexing was last requested  *)
    tangled,    (* history: sources whose index was requested while a task   *)
                (* for that name was alive                                   *)
    inherited,  (* history: sources whose status was read from the file      *)
    unsaved,    (* history: sources changed since the last save that worked  *)
    wiped       (* history: a save since then failed with the file emptied   *)

histories == <<requested, tangled, inherited, unsaved, wiped>>
registry  == <<entries, file, unsaved, wiped>>
vars == <<entries, file, linkers, tasks, version, boots, histories>>

Statuses == {"pending", "indexing", "ready", "failed"}

Entry == [db : Databases, status : Statuses, enabled : BOOLEAN]

Index == [db : Databases, seen : 0..MaxVersion]

NoEntry == [db |-> None, status |-> "none", enabled |-> FALSE]

(* A file that is empty or torn: _load reads no entry from it.             *)
NothingStored == [s \in Sources |-> NoEntry]

NoIndex == [db |-> None, seen |-> 0]

Task(pc, s, d, v) == [pc |-> pc, src |-> s, db |-> d, seen |-> v]

IdleTask == Task("idle", None, None, 0)

Registered(s) == entries[s] # NoEntry

Live(s) == \E t \in Tasks : tasks[t].pc # "idle" /\ tasks[t].src = s

Init ==
    /\ entries = NothingStored /\ file = NothingStored
    /\ linkers = [s \in Sources |-> NoIndex]
    /\ tasks = [t \in Tasks |-> IdleTask]
    /\ version = [d \in Databases |-> 0]
    /\ boots = 0
    /\ requested = [s \in Sources |-> 0]
    /\ tangled = {} /\ inherited = {} /\ unsaved = {} /\ wiped = FALSE

------------------------------------------------------------------------------
(* Every change of an entry is followed by _save under the same lock.  A   *)
(* save that fails is logged, whether before or after write_text emptied   *)
(* the file; the next one writes everything.                               *)
SaveWorks == file' = entries' /\ unsaved' = {} /\ wiped' = FALSE

SaveFails(s) ==
    /\ unsaved' = unsaved \cup {s}
    /\ \/ UNCHANGED <<file, wiped>>
       \/ file' = NothingStored /\ wiped' = TRUE

SetEntry(s, e) ==
    /\ entries' = [entries EXCEPT ![s] = e]
    /\ SaveWorks \/ SaveFails(s)

(* update_index_status, which ignores a name that is not registered.       *)
SetStatus(s, status) ==
    IF Registered(s)
    THEN SetEntry(s, [entries[s] EXCEPT !.status = status])
    ELSE UNCHANGED registry

Spawn(t, s) ==
    /\ tasks[t].pc = "idle"
    /\ tasks' = [tasks EXCEPT ![t] = Task("scheduled", s, None, 0)]
    /\ tangled' = IF Live(s) THEN tangled \cup {s} ELSE tangled \ {s}
    /\ inherited' = inherited \ {s}

Create(s, d, t) ==
    /\ ~Registered(s)
    /\ SetEntry(s, [db |-> d, status |-> "pending", enabled |-> TRUE])
    /\ Spawn(t, s)
    /\ requested' = [requested EXCEPT ![s] = version[d]]
    /\ UNCHANGED <<linkers, version, boots>>

Delete(s) ==
    /\ Registered(s)
    /\ SetEntry(s, NoEntry)
    /\ inherited' = inherited \ {s}
    /\ UNCHANGED <<linkers, tasks, version, boots, requested, tangled>>

(* Mutant: the status stays as it is until the task starts.                *)
Reindex_KeepsStatus(s, t) ==
    /\ Registered(s)
    /\ Spawn(t, s)
    /\ requested' = [requested EXCEPT ![s] = version[entries[s].db]]
    /\ UNCHANGED <<registry, linkers, version, boots>>

Reindex(s, t) ==
    /\ Registered(s)
    /\ SetStatus(s, "pending")
    /\ Spawn(t, s)
    /\ requested' = [requested EXCEPT ![s] = version[entries[s].db]]
    /\ UNCHANGED <<linkers, version, boots>>

SetEnabled(s) ==
    /\ Registered(s)
    /\ SetEntry(s, [entries[s] EXCEPT !.enabled = ~@])
    /\ UNCHANGED <<linkers, tasks, version, boots, requested, tangled,
                   inherited>>

------------------------------------------------------------------------------
(* index_datasource.  Up to its await it runs without another coroutine;   *)
(* the build reads the schema in the thread pool; the rest, again without  *)
(* another coroutine, installs the linker and then reports.                *)

Start(t) ==
    LET s == tasks[t].src IN
    /\ tasks[t].pc = "scheduled"
    /\ Registered(s)
    /\ SetStatus(s, "indexing")
    /\ tasks' = [tasks EXCEPT ![t] = Task("building", s, entries[s].db, 0)]
    /\ inherited' = inherited \ {s}
    /\ UNCHANGED <<linkers, version, boots, requested, tangled>>

Build(t) ==
    /\ tasks[t].pc = "building"
    /\ tasks' = [tasks EXCEPT ![t] =
                    Task("built", tasks[t].src, tasks[t].db, version[tasks[t].db])]
    /\ UNCHANGED <<registry, linkers, version, boots, requested, tangled,
                   inherited>>

(* Mutant: writes an entry of its own instead of updating the status.      *)
Finish_Registers(t) ==
    LET s == tasks[t].src IN
    /\ tasks[t].pc = "built"
    /\ linkers' = [linkers EXCEPT ![s] = [db |-> tasks[t].db, seen |-> tasks[t].seen]]
    /\ SetEntry(s, [db |-> tasks[t].db, status |-> "ready", enabled |-> TRUE])
    /\ tasks' = [tasks EXCEPT ![t] = IdleTask]
    /\ UNCHANGED <<version, boots, requested, tangled, inherited>>

Finish(t) ==
    LET s == tasks[t].src IN
    /\ tasks[t].pc = "built"
    /\ linkers' = [linkers EXCEPT ![s] = [db |-> tasks[t].db, seen |-> tasks[t].seen]]
    /\ SetStatus(s, "ready")
    /\ tasks' = [tasks EXCEPT ![t] = IdleTask]
    /\ UNCHANGED <<version, boots, requested, tangled, inherited>>

(* Mutant: the error is only logged.                                       *)
Fail_Silent(t) ==
    /\ tasks[t].pc \in {"scheduled", "building"}
    /\ UNCHANGED registry
    /\ tasks' = [tasks EXCEPT ![t] = IdleTask]
    /\ inherited' = inherited \ {tasks[t].src}
    /\ UNCHANGED <<linkers, version, boots, requested, tangled>>

(* The source is gone, its adapter cannot be built, or the build fails.    *)
Fail(t) ==
    /\ tasks[t].pc \in {"scheduled", "building"}
    /\ SetStatus(tasks[t].src, "failed")
    /\ tasks' = [tasks EXCEPT ![t] = IdleTask]
    /\ inherited' = inherited \ {tasks[t].src}
    /\ UNCHANGED <<linkers, version, boots, requested, tangled>>

TaskStep(t) == Start(t) \/ Build(t) \/ Finish(t) \/ Fail(t)

------------------------------------------------------------------------------
(* The environment: schema changes and crashes.                            *)

SchemaChange(d) ==
    /\ version[d] < MaxVersion
    /\ version' = [version EXCEPT ![d] = @ + 1]
    /\ UNCHANGED <<registry, linkers, tasks, boots, requested, tangled,
                   inherited>>

(* A crash takes the memory, and the file if a save was under way, whose   *)
(* first half has emptied it: _load then starts without entries.           *)
Restart ==
    /\ boots < MaxBoots
    /\ boots' = boots + 1
    /\ file' \in {file, NothingStored}
    /\ entries' = file'
    /\ inherited' = {s \in Sources : file'[s] # NoEntry}
    /\ linkers' = [s \in Sources |-> NoIndex]
    /\ tasks' = [t \in Tasks |-> IdleTask]
    /\ unsaved' = {} /\ wiped' = FALSE /\ tangled' = {}
    /\ UNCHANGED <<version, requested>>

Next ==
    \/ \E s \in Sources : Delete(s) \/ SetEnabled(s)
    \/ \E s \in Sources, t \in Tasks : Reindex(s, t) \/ \E d \in Databases : Create(s, d, t)
    \/ \E t \in Tasks : TaskStep(t)
    \/ \E d \in Databases : SchemaChange(d)
    \/ Restart

(* The event loop resumes its tasks and a build ends, with an index or an  *)
(* error; nobody has to call an endpoint.                                  *)
Spec == Init /\ [][Next]_vars /\ \A t \in Tasks : WF_vars(TaskStep(t))

------------------------------------------------------------------------------
TypeOK ==
    /\ entries \in [Sources -> Entry \cup {NoEntry}]
    /\ file \in [Sources -> Entry \cup {NoEntry}]
    /\ linkers \in [Sources -> Index \cup {NoIndex}]
    /\ tasks \in [Tasks -> [pc : {"idle", "scheduled", "building", "built"},
                            src : Sources \cup {None}, db : Databases \cup {None},
                            seen : 0..MaxVersion]]
    /\ version \in [Databases -> 0..MaxVersion]
    /\ boots \in 0..MaxBoots
    /\ requested \in [Sources -> 0..MaxVersion]
    /\ tangled \subseteq Sources /\ inherited \subseteq Sources /\ unsaved \subseteq Sources
    /\ wiped \in BOOLEAN

(* "ready" means that queries on the source are narrowed by an index of    *)
(* its own database, built after indexing was last requested; unless tasks *)
(* of one name overlapped or the status is older than this process.        *)
ReadyIsIndexed ==
    \A s \in Sources \ (tangled \cup inherited) :
        entries[s].status = "ready" =>
            linkers[s].db = entries[s].db /\ linkers[s].seen >= requested[s]

(* The file holds what the memory holds of every source, but for changes   *)
(* since the last save that worked; a save that failed with the file       *)
(* emptied lost the others as well, and any later one that works makes up  *)
(* for it.                                                                 *)
SavedIsCurrent ==
    \A s \in Sources :
        file[s] # entries[s] => s \in unsaved \/ (wiped /\ file[s] = NoEntry)

(* An index task that ends after its source was deleted does not bring the *)
(* source back.                                                            *)
NoResurrection ==
    [][boots' = boots =>
          \A s \in Sources : ~Registered(s) /\ entries'[s] # NoEntry =>
              entries'[s].status = "pending"]_vars

(* A source does not stay "pending" or "indexing", whatever is deleted,    *)
(* re-created or reindexed meanwhile; unless it was so when the process    *)
(* was restarted, which nothing resumes.                                   *)
IndexingSettles ==
    \A s \in Sources :
        entries[s].status \in {"pending", "indexing"} ~>
            entries[s].status \in {"ready", "failed", "none"} \/ s \in inherited
==============================================================================
