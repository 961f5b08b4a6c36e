------------------------ MODULE DataSourceIndex_proofs ------------------------
(* Proofs about DataSourceIndex for any sources, databases and tasks.      *)
EXTENDS DataSourceIndex, TLAPS

TaskType == [pc : {"idle", "scheduled", "building", "built"}, src : Sources \cup {None},
         db : Databases \cup {None}, seen : 0..MaxVersion]

(* A live task works for a source; only a started one has a database.      *)
TasksWork ==
    \A t \in Tasks :
        /\ tasks[t].pc # "idle" => tasks[t].src \in Sources
        /\ tasks[t].pc \in {"building", "built"} => tasks[t].db \in Databases

(* The requested schema version was reached; a source with a live task has *)
(* not got its status from the file.                                       *)
RequestsKnown ==
    \A s \in Sources \ inherited : Registered(s) => requested[s] <= version[entries[s].db]

LiveIsOwn ==
    \A t \in Tasks : tasks[t].pc # "idle" => tasks[t].src \notin inherited

(* A source that is not tangled has one live task at most; while it lives  *)
(* the source is not ready, and what the task has read is what the index   *)
(* must hold.                                                              *)
OneTask ==
    \A t \in Tasks : tasks[t].pc # "idle" /\ tasks[t].src \notin tangled =>
        /\ \A u \in Tasks : tasks[u].pc # "idle" /\ tasks[u].src = tasks[t].src => u = t
        /\ Registered(tasks[t].src) =>
              /\ entries[tasks[t].src].status # "ready"
              /\ tasks[t].pc \in {"building", "built"} =>
                    tasks[t].db = entries[tasks[t].src].db
              /\ tasks[t].pc = "built" => tasks[t].seen >= requested[tasks[t].src]

IndexInv ==
    TypeOK /\ SavedIsCurrent /\ TasksWork /\ RequestsKnown /\ LiveIsOwn /\ OneTask
    /\ ReadyIsIndexed

------------------------------------------------------------------------------
LEMMA NoEntryIsNone ==
    /\ NoEntry \notin Entry
    /\ NoEntry.status \notin Statuses
    /\ \A e \in Entry : e # NoEntry /\ e.db \in Databases /\ e.status \in Statuses
BY IndexAssumption DEF NoEntry, Entry, Statuses

(* What a change of one entry keeps.                                       *)
EntriesTyped ==
    /\ entries \in [Sources -> Entry \cup {NoEntry}]
    /\ file \in [Sources -> Entry \cup {NoEntry}]
    /\ unsaved \subseteq Sources /\ wiped \in BOOLEAN

LEMMA SetEntryType ==
    ASSUME TypeOK, NEW s \in Sources, NEW e \in Entry \cup {NoEntry}, SetEntry(s, e)
    PROVE  EntriesTyped'
<1>1. NothingStored \in [Sources -> Entry \cup {NoEntry}]
  BY DEF NothingStored
<1> QED BY <1>1 DEF TypeOK, SetEntry, SaveWorks, SaveFails, EntriesTyped

LEMMA StatusTyped ==
    ASSUME NEW e \in Entry, NEW st \in Statuses
    PROVE  [e EXCEPT !.status = st] \in Entry /\ [e EXCEPT !.enabled = ~@] \in Entry
BY DEF Entry

LEMMA SetStatusType ==
    ASSUME TypeOK, NEW s \in Sources, NEW st \in Statuses, SetStatus(s, st)
    PROVE  EntriesTyped'
<1>1. CASE Registered(s)
  <2>1. entries[s] \in Entry
    BY <1>1 DEF TypeOK, Registered
  <2>2. [entries[s] EXCEPT !.status = st] \in Entry
    BY <2>1, StatusTyped
  <2> QED BY <1>1, <2>2, SetEntryType DEF SetStatus
<1>2. CASE ~Registered(s)
  BY <1>2 DEF SetStatus, registry, TypeOK, EntriesTyped
<1> QED BY <1>1, <1>2

(* What a save, and one that fails, leave in the file.                     *)
LEMMA EntrySaved ==
    ASSUME TypeOK, SavedIsCurrent, NEW s \in Sources, NEW e, SetEntry(s, e)
    PROVE  SavedIsCurrent'
<1>1. \A x \in Sources : x # s => entries'[x] = entries[x]
  BY DEF SetEntry, TypeOK
<1>2. CASE SaveWorks
  BY <1>2 DEF SaveWorks, SavedIsCurrent
<1>3. CASE SaveFails(s)
  <2>1. CASE UNCHANGED <<file, wiped>>
    BY <1>1, <1>3, <2>1 DEF SaveFails, SavedIsCurrent
  <2>2. CASE file' = NothingStored /\ wiped' = TRUE
    BY <2>2 DEF NothingStored, SavedIsCurrent
  <2> QED BY <1>3, <2>1, <2>2 DEF SaveFails
<1> QED BY <1>2, <1>3 DEF SetEntry

LEMMA StatusSaved ==
    ASSUME TypeOK, SavedIsCurrent, NEW s \in Sources, NEW st, SetStatus(s, st)
    PROVE  SavedIsCurrent'
<1>1. CASE Registered(s)
  BY <1>1, EntrySaved DEF SetStatus
<1>2. CASE ~Registered(s)
  BY <1>2 DEF SetStatus, registry, SavedIsCurrent
<1> QED BY <1>1, <1>2

LEMMA SpawnType ==
    ASSUME TypeOK, NEW s \in Sources, NEW t \in Tasks, Spawn(t, s)
    PROVE  tasks' \in [Tasks -> TaskType] /\ tangled' \subseteq Sources /\ inherited' \subseteq Sources
<1>0. 0 \in 0..MaxVersion
  BY IndexAssumption
<1>1. Task("scheduled", s, None, 0) \in TaskType
  BY <1>0 DEF Task, TaskType
<1> QED BY <1>1 DEF TypeOK, Spawn, TaskType

LEMMA StoredNothing ==
    /\ NothingStored \in [Sources -> Entry \cup {NoEntry}]
    /\ \A s \in Sources : NothingStored[s] = NoEntry
BY DEF NothingStored

LEMMA IndexInit == Init => IndexInv
<1> SUFFICES ASSUME Init PROVE IndexInv
  OBVIOUS
<1>1. TypeOK
  <2>1. 0 \in 0..MaxVersion /\ 0 \in 0..MaxBoots
    BY IndexAssumption
  <2>2. IdleTask \in TaskType
    BY <2>1 DEF IdleTask, Task, TaskType
  <2>3. tasks \in [Tasks -> TaskType]
    BY <2>2 DEF Init
  <2> QED BY StoredNothing, <2>1, <2>3 DEF Init, TypeOK, TaskType
<1>2. SavedIsCurrent
  BY DEF Init, SavedIsCurrent
<1>3. TasksWork /\ RequestsKnown /\ LiveIsOwn /\ OneTask
  BY StoredNothing
  DEF Init, TasksWork, RequestsKnown, LiveIsOwn, OneTask, Registered, IdleTask, Task
<1>4. ReadyIsIndexed
  BY StoredNothing DEF Init, ReadyIsIndexed, NoEntry
<1> QED BY <1>1, <1>2, <1>3, <1>4 DEF IndexInv

LEMMA IndexStep == IndexInv /\ [Next]_vars => IndexInv'
<1> SUFFICES ASSUME IndexInv, [Next]_vars PROVE IndexInv'
  OBVIOUS
<1> USE NoEntryIsNone, IndexAssumption
    DEF IndexInv, TypeOK, SavedIsCurrent, TasksWork, RequestsKnown, LiveIsOwn, OneTask,
        ReadyIsIndexed, Registered, Statuses
<1>1. ASSUME NEW s \in Sources, NEW d \in Databases, NEW t \in Tasks, Create(s, d, t)
      PROVE  IndexInv'
  <2>1. TypeOK'
    <3>1. [db |-> d, status |-> "pending", enabled |-> TRUE] \in Entry
      BY DEF Entry
    <3>2. EntriesTyped'
      BY <1>1, <3>1, SetEntryType DEF Create
    <3> QED BY <1>1, <3>2, SpawnType DEF Create, EntriesTyped, TaskType
  <2>2. SavedIsCurrent'
    BY <1>1, EntrySaved DEF Create
  <2>3. TasksWork'
    BY <1>1 DEF Create, SetEntry, Spawn, Live, IdleTask, Task, Entry
  <2>4. RequestsKnown'
    BY <1>1 DEF Create, SetEntry, Spawn, Live, IdleTask, Task, Entry
  <2>5. LiveIsOwn'
    BY <1>1 DEF Create, SetEntry, Spawn, Live, IdleTask, Task, Entry
  <2>6. OneTask'
    BY <1>1 DEF Create, SetEntry, Spawn, Live, IdleTask, Task, Entry
  <2>7. ReadyIsIndexed'
    BY <1>1 DEF Create, SetEntry, Spawn, Live, IdleTask, Task, Entry
  <2> QED BY <2>1, <2>2, <2>3, <2>4, <2>5, <2>6, <2>7
<1>2. ASSUME NEW s \in Sources, Delete(s) PROVE IndexInv'
  <2>1. TypeOK'
    <3>1. EntriesTyped'
      BY <1>2, SetEntryType DEF Delete
    <3> QED BY <1>2, <3>1 DEF Delete, EntriesTyped
  <2>2. SavedIsCurrent'
    BY <1>2, EntrySaved DEF Delete
  <2>3. TasksWork'
    BY <1>2 DEF Delete, SetEntry
  <2>4. RequestsKnown'
    BY <1>2 DEF Delete, SetEntry
  <2>5. LiveIsOwn'
    BY <1>2 DEF Delete, SetEntry
  <2>6. OneTask'
    BY <1>2 DEF Delete, SetEntry
  <2>7. ReadyIsIndexed'
    BY <1>2 DEF Delete, SetEntry
  <2> QED BY <2>1, <2>2, <2>3, <2>4, <2>5, <2>6, <2>7
<1>3. ASSUME NEW s \in Sources, NEW t \in Tasks, Reindex(s, t) PROVE IndexInv'
  <2>1. TypeOK'
    <3>1. EntriesTyped'
      BY <1>3, SetStatusType DEF Reindex
    <3>2. version[entries[s].db] \in 0..MaxVersion
      BY <1>3 DEF Reindex, Entry
    <3> QED BY <1>3, <3>1, <3>2, SpawnType DEF Reindex, EntriesTyped, TaskType
  <2>2. SavedIsCurrent'
    BY <1>3, StatusSaved DEF Reindex
  <2>3. TasksWork'
    BY <1>3 DEF Reindex, SetStatus, SetEntry, Spawn, Live, IdleTask, Task, Entry
  <2>4. RequestsKnown'
    BY <1>3 DEF Reindex, SetStatus, SetEntry, Spawn, Live, IdleTask, Task, Entry
  <2>5. LiveIsOwn'
    BY <1>3 DEF Reindex, SetStatus, SetEntry, Spawn, Live, IdleTask, Task, Entry
  <2>6. OneTask'
    BY <1>3 DEF Reindex, SetStatus, SetEntry, Spawn, Live, IdleTask, Task, Entry
  <2>7. ReadyIsIndexed'
    BY <1>3 DEF Reindex, SetStatus, SetEntry, Spawn, Live, IdleTask, Task, Entry
  <2> QED BY <2>1, <2>2, <2>3, <2>4, <2>5, <2>6, <2>7
<1>4. ASSUME NEW s \in Sources, SetEnabled(s) PROVE IndexInv'
  <2>1. TypeOK'
    <3>1. entries[s] \in Entry
      BY <1>4 DEF SetEnabled
    <3>2. [entries[s] EXCEPT !.enabled = ~@] \in Entry
      BY <3>1 DEF Entry
    <3>3. EntriesTyped'
      BY <1>4, <3>2, SetEntryType DEF SetEnabled
    <3> QED BY <1>4, <3>3 DEF SetEnabled, EntriesTyped
  <2>2. SavedIsCurrent'
    BY <1>4, EntrySaved DEF SetEnabled
  <2>3. TasksWork'
    BY <1>4 DEF SetEnabled, SetEntry, Entry
  <2>4. RequestsKnown'
    BY <1>4 DEF SetEnabled, SetEntry, Entry
  <2>5. LiveIsOwn'
    BY <1>4 DEF SetEnabled, SetEntry, Entry
  <2>6. OneTask'
    BY <1>4 DEF SetEnabled, SetEntry, Entry
  <2>7. ReadyIsIndexed'
    BY <1>4 DEF SetEnabled, SetEntry, Entry
  <2> QED BY <2>1, <2>2, <2>3, <2>4, <2>5, <2>6, <2>7
<1>5. ASSUME NEW t \in Tasks, Start(t) PROVE IndexInv'
  <2>1. TypeOK'
    <3>1. EntriesTyped'
      BY <1>5, SetStatusType DEF Start
    <3>2. entries[tasks[t].src].db \in Databases
      BY <1>5 DEF Start
    <3>3. tasks' \in [Tasks -> TaskType]
      BY <1>5, <3>2 DEF Start, Task, TaskType
    <3> QED BY <1>5, <3>1, <3>3 DEF Start, EntriesTyped, TaskType
  <2>2. SavedIsCurrent'
    BY <1>5, StatusSaved DEF Start
  <2>3. TasksWork'
    BY <1>5 DEF Start, SetStatus, SetEntry, Entry, Task
  <2>4. RequestsKnown'
    BY <1>5 DEF Start, SetStatus, SetEntry, Entry, Task
  <2>5. LiveIsOwn'
    BY <1>5 DEF Start, SetStatus, SetEntry, Entry, Task
  <2>6. OneTask'
    BY <1>5 DEF Start, SetStatus, SetEntry, Entry, Task
  <2>7. ReadyIsIndexed'
    BY <1>5 DEF Start, SetStatus, SetEntry, Entry, Task
  <2> QED BY <2>1, <2>2, <2>3, <2>4, <2>5, <2>6, <2>7
<1>6. ASSUME NEW t \in Tasks, Build(t) PROVE IndexInv'
  <2>1. TypeOK'
    <3>1. version[tasks[t].db] \in 0..MaxVersion
      BY <1>6 DEF Build
    <3>2. tasks' \in [Tasks -> TaskType]
      BY <1>6, <3>1 DEF Build, Task, TaskType
    <3> QED BY <1>6, <3>2 DEF Build, registry, TaskType
  <2>2. SavedIsCurrent'
    BY <1>6 DEF Build, registry
  <2>3. TasksWork'
    BY <1>6 DEF Build, registry, Task
  <2>4. RequestsKnown'
    BY <1>6 DEF Build, registry, Task
  <2>5. LiveIsOwn'
    BY <1>6 DEF Build, registry, Task
  <2>6. OneTask'
    BY <1>6 DEF Build, registry, Task
  <2>7. ReadyIsIndexed'
    BY <1>6 DEF Build, registry, Task
  <2> QED BY <2>1, <2>2, <2>3, <2>4, <2>5, <2>6, <2>7
<1>7. ASSUME NEW t \in Tasks, Finish(t) PROVE IndexInv'
  <2>1. TypeOK'
    <3>1. EntriesTyped'
      BY <1>7, SetStatusType DEF Finish
    <3>2. [db |-> tasks[t].db, seen |-> tasks[t].seen] \in Index
      BY <1>7 DEF Finish, Index
    <3>3. tasks' \in [Tasks -> TaskType]
      BY <1>7 DEF Finish, TaskType, IdleTask, Task
    <3> QED BY <1>7, <3>1, <3>2, <3>3 DEF Finish, EntriesTyped, TaskType
  <2>2. SavedIsCurrent'
    BY <1>7, StatusSaved DEF Finish
  <2>3. TasksWork'
    BY <1>7 DEF Finish, SetStatus, SetEntry, Entry, Index, IdleTask, Task, registry
  <2>4. RequestsKnown'
    BY <1>7 DEF Finish, SetStatus, SetEntry, Entry, Index, IdleTask, Task, registry
  <2>5. LiveIsOwn'
    BY <1>7 DEF Finish, SetStatus, SetEntry, Entry, Index, IdleTask, Task, registry
  <2>6. OneTask'
    BY <1>7 DEF Finish, SetStatus, SetEntry, Entry, Index, IdleTask, Task, registry
  <2>7. ReadyIsIndexed'
    BY <1>7 DEF Finish, SetStatus, SetEntry, Entry, Index, IdleTask, Task, registry
  <2> QED BY <2>1, <2>2, <2>3, <2>4, <2>5, <2>6, <2>7
<1>8. ASSUME NEW t \in Tasks, Fail(t) PROVE IndexInv'
  <2>1. TypeOK'
    <3>1. EntriesTyped'
      BY <1>8, SetStatusType DEF Fail
    <3>2. tasks' \in [Tasks -> TaskType]
      BY <1>8 DEF Fail, TaskType, IdleTask, Task
    <3> QED BY <1>8, <3>1, <3>2 DEF Fail, EntriesTyped, TaskType
  <2>2. SavedIsCurrent'
    BY <1>8, StatusSaved DEF Fail
  <2>3. TasksWork'
    BY <1>8 DEF Fail, SetStatus, SetEntry, IdleTask, Task, registry, Entry
  <2>4. RequestsKnown'
    BY <1>8 DEF Fail, SetStatus, SetEntry, IdleTask, Task, registry, Entry
  <2>5. LiveIsOwn'
    BY <1>8 DEF Fail, SetStatus, SetEntry, IdleTask, Task, registry, Entry
  <2>6. OneTask'
    BY <1>8 DEF Fail, SetStatus, SetEntry, IdleTask, Task, registry, Entry
  <2>7. ReadyIsIndexed'
    BY <1>8 DEF Fail, SetStatus, SetEntry, IdleTask, Task, registry, Entry
  <2> QED BY <2>1, <2>2, <2>3, <2>4, <2>5, <2>6, <2>7
<1>9. ASSUME NEW d \in Databases, SchemaChange(d) PROVE IndexInv'
  BY <1>9 DEF SchemaChange, registry
<1>10. CASE Restart
  <2>1. file' \in [Sources -> Entry \cup {NoEntry}]
    BY <1>10, StoredNothing DEF Restart
  <2>2. IdleTask \in TaskType
    BY DEF IdleTask, Task, TaskType
  <2>3. TypeOK'
    <3>1. tasks' \in [Tasks -> TaskType]
      BY <1>10, <2>2 DEF Restart
    <3>2. linkers' \in [Sources -> Index \cup {NoIndex}]
      BY <1>10 DEF Restart
    <3>3. boots' \in 0..MaxBoots /\ inherited' \subseteq Sources
      BY <1>10 DEF Restart
    <3>4. EntriesTyped' /\ tangled' = {} /\ UNCHANGED <<version, requested>>
      BY <1>10, <2>1 DEF Restart, EntriesTyped
    <3> QED BY <3>1, <3>2, <3>3, <3>4 DEF EntriesTyped, TaskType
  <2>4. SavedIsCurrent'
    BY <1>10 DEF Restart
  <2>5. TasksWork' /\ LiveIsOwn' /\ OneTask'
    BY <1>10 DEF Restart, IdleTask, Task
  <2>6. RequestsKnown'
    BY <1>10 DEF Restart
  <2>7. ReadyIsIndexed'
    BY <1>10 DEF Restart, NoEntry
  <2> QED BY <2>3, <2>4, <2>5, <2>6, <2>7
<1>11. CASE UNCHANGED vars
  BY <1>11 DEF vars, histories
<1> QED
  BY <1>1, <1>2, <1>3, <1>4, <1>5, <1>6, <1>7, <1>8, <1>9, <1>10, <1>11
  DEF Next, TaskStep

LEMMA IndexInvariance == Spec => []IndexInv
BY IndexInit, IndexStep, PTL DEF Spec

(* What the file lacks of the memory was changed since the last save that  *)
(* worked, or is gone because a save since then failed with the file       *)
(* emptied; whatever the endpoints, the tasks and restarts do (_save).     *)
THEOREM Saved == Spec => []SavedIsCurrent
BY IndexInvariance, PTL DEF IndexInv

(* A source that became ready in this process has an index of its own      *)
(* database, built after indexing was last requested, unless its tasks     *)
(* overlapped.  Nothing is said of a status read from the file: after a    *)
(* restart a source is ready without an index (index_datasource, _load).   *)
THEOREM ReadyMeansIndexed == Spec => []ReadyIsIndexed
BY IndexInvariance, PTL DEF IndexInv

(* An index task that ends late does not bring a deleted source back.      *)
THEOREM DeletedStaysDeleted == Spec => NoResurrection
<1>1. IndexInv /\ [Next]_vars =>
        [boots' = boots =>
          \A s \in Sources : ~Registered(s) /\ entries'[s] # NoEntry =>
              entries'[s].status = "pending"]_vars
  <2> SUFFICES ASSUME IndexInv, [Next]_vars, boots' = boots,
                      NEW s \in Sources, ~Registered(s), entries'[s] # NoEntry
               PROVE  entries'[s].status = "pending"
    OBVIOUS
  <2> USE DEF IndexInv, TypeOK, TasksWork, Registered
  <2>1. ASSUME NEW x \in Sources, NEW d \in Databases, NEW t \in Tasks, Create(x, d, t)
        PROVE  entries'[s].status = "pending"
    BY <2>1 DEF Create, SetEntry
  <2>2. ASSUME NEW x \in Sources, Delete(x) PROVE FALSE
    BY <2>2 DEF Delete, SetEntry
  <2>3. ASSUME NEW x \in Sources, NEW t \in Tasks, Reindex(x, t) PROVE FALSE
    BY <2>3 DEF Reindex, SetStatus, SetEntry
  <2>4. ASSUME NEW x \in Sources, SetEnabled(x) PROVE FALSE
    BY <2>4 DEF SetEnabled, SetEntry
  <2>5. ASSUME NEW t \in Tasks, TaskStep(t) PROVE FALSE
    BY <2>5 DEF TaskStep, Start, Build, Finish, Fail, SetStatus, SetEntry, registry
  <2>6. ASSUME NEW d \in Databases, SchemaChange(d) PROVE FALSE
    BY <2>6 DEF SchemaChange, registry
  <2>7. CASE Restart
    BY <2>7 DEF Restart
  <2>8. CASE UNCHANGED vars
    BY <2>8 DEF vars
  <2> QED BY <2>1, <2>2, <2>3, <2>4, <2>5, <2>6, <2>7, <2>8 DEF Next
<1> QED BY <1>1, IndexInvariance, PTL DEF Spec, NoResurrection
==============================================================================
