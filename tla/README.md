# A verification project for the SQL reconciliation agent

TLA+ models of the parts of this repository whose behaviour depends on order, failure and
sharing, model-checked with TLC on small instances and, for what matters most, proved with TLAPS
for every value of the constants. The models are translated from the code; documents are used
only to say what the code is meant to do, and where the two differ a run shows it.

Contents: [the system](#the-system), [modules](#modules), [runs and bounds](#runs-and-bounds),
[fairness](#fairness), [proofs](#proofs), [where code and documents differ](#where-code-and-documents-differ),
[not modelled](#not-modelled), [plan](#plan).

Checking it: `tlc -config Query.cfg MCReconGraph`, and so on with the table of runs below;
`tlapm SubagentTools_proofs.tla` and so on for the proofs.

## The system

A user asks a question about business data in natural language. A FastAPI server
(`apps/api/main.py`) runs the query through a LangGraph state machine (`recon_v2/orchestration`)
that classifies it, perhaps asks back, plans, generates and runs SQL, judges the result, retries,
and learns from how it ended. A second, older framework (`recon_core`) has general agents with
tools, subagents, sessions and histories. A single web page (`apps/ui/index.html`) is the client.

| Component | State it keeps | Operations | What makes it correct |
|---|---|---|---|
| Query graph: `nodes/route, clarify, plan, act, parallel_act, observe, reflect`, `graph.py`, `core/budget.py` | `GraphState` (observations through a reducer that appends, `retry_count`, `final_status`, `last_sql_error`, `parallel_results`, plan), `AgentContext` (mode, step counter, budget) | one node per super-step, then a conditional edge; tools may fail, be refused or raise; the budget may run out at any time | bounded retries and steps; a verdict that fits the last attempt and not an earlier one; no giving up early; corrections reach the next attempt; termination; learning only from success |
| Reconciliation: `plan.py`, `observe.py`, `diff_calculator.py`, `diff_tool.py` | the plan and the tables of one parallel round | discover join keys, validate the plan, compare any number of tables pairwise | "consistent" and "different" say what is true of every table that was read |
| Clarification dialogue: `route.py`, `clarify.py`, `apps/ui/index.html` | the `clarify_context` that travels with the replies, the client's copy | send, reply with a question, click a suggestion, fail, switch session | questions stay bounded; a reply is about the running dialogue |
| Context registry: `ctx_registry.py`, `ctx_store.py` | per process a dictionary under a lock; one SQLite table with a time to live, shared by instances | `register`, `get` (read-through, rebuilding), `remove`, expiry | a query keeps the context it registered; other instances find it; contexts leave |
| Data sources: `adapters/factory.py`, `rag/schema_indexer.py`, endpoints | entries in memory and in a JSON file; one linker per name; one default linker; asyncio index tasks | create, delete, enable, reindex, task start / build in a thread / finish / fail, restart | `ready` means there is an index of the right database; file and memory agree; nothing deleted returns; no status hangs |
| Skills: `memory/store.py`, `evolution/pipeline.py`, `reflect.py` | SQLite rows with use and success counts | retrieve, review in three doors, insert, count a use, archive | counts are real; no duplicates; only judged skills are archived |
| Cases and rules: `memory/store.py`, `reflect.py`, feedback and evolution endpoints | SQLite rows with importance, promotion flag, rules derived per intent | write a case by novelty, judge by a user, consolidate, decay | a case is promoted once, a rule is derived once |
| Retrieval and context: `rag/`, `context/builder.py`, `truncator.py`, `compressor.py` | vectors, chunks, texts cut to a budget | chunk, embed, index, search twice and fuse, rerank, select, compress, truncate | nothing lost but what must be; the better ranked come first; budgets kept |
| Error diagnosis: `error_diagnosis.py` | none | classify an error, suggest names, explain an empty result | the nearest name first; a kind for each pattern |
| Agents: `agents/*.py`, `core/agent.py` | the messages of a run, open tool calls, steps left | four kinds of agent, four ways to run each, subtasks, interrupts | every tool call is answered before the next call of the model; honest answers; runs end |
| Conversation history and sessions: `history.py`, `session_store.py` | messages, token count, session files | append, compress, save automatically and by name, load, clear | whole rounds; nothing forgotten without a summary; bounded |
| Subagents: `core/agent.py`, `task_tool.py`, `tool_filter.py`, `tools/registry.py` | the shared `ToolRegistry`: its tools and one dictionary of temporarily disabled tools | Task calls in parallel threads, nested; filter, run, restore | a filter holds while its subagent runs; tools come back |
| Reconciliation agents: `reconciliation_agent.py`, `intent*.py`, `skill_reviewer.py`, `memory_tool.py`, `case_store.py`, `skills/loader.py` | an agent's registry, its dictionaries of skills and episodes, three files rewritten whole, the threads of the reviewer | create from the files, route a question, keep the tools its intent needs, remember the run, learn skills in the background, exit | an agent has the tools its question needs; files hold what was remembered and learned, over restarts |
| Circuit breaker: `circuit_breaker.py` | failure counts, time stamps of open breakers, no lock | ask, run, count, trip, recover | a broken tool is shut out; no tool is shut out for good |
| File tools: `file_tools.py` | modification times agents have seen, backups | Read, Write, Edit, MultiEdit with an optimistic lock | no update lost but by overlapping calls; a crash loses nothing for good |
| Notes: `todowrite_tool.py`, `devlog_tool.py` | the task list, the development log and their files | replace, clear, load, append, filter, restart | what was reported as recorded is in the file |
| LLM clients: `core/llm.py`, `llm_adapters.py`; gateway: `infra/llm_gateway.py`, `cache.py`, `cost.py` | statistics of the last call; cache and cost records | convert histories, tools and answers; chat with cache and retries | results follow the calls they answer; the same question has the same answer |
| Sessions and other stores of the API, web page | SQLite rows and files rewritten by read-then-write handlers; the page's current session and lock | ask, file the answer, open, begin, delete, log in and out; users, agents, models, documents | a confirmed message is kept, in its tenant's session, where it was asked; the page never locks up |
| SQL safety, adapters, tools of the query graph, tracing, evaluation | external stores, texts, output | | see [not modelled](#not-modelled) |

How they interact. A `/query` request creates an `AgentContext`, registers it (context registry),
invokes the graph and removes the context in a `finally` clause. `route` reads the clarification
context the client sent; `act` asks the data source's linker which tables to show the model,
and the memory for skills, and calls the model through the gateway, whose cache it shares with its
parallel subtasks; `observe` compares tables and decides on the edge back to `act`; `reflect` reports
to the memory. Requests run in parallel threads of one process and share the memory's SQLite file,
the data source registry and the linkers; several instances share the snapshot table. The page files a
question and its answer in the sessions table by a second request of its own. An agent of
`recon_core` runs the tool calls of a step in parallel threads that share its `ToolRegistry`, and the
agents of a project share its files.

What is hard here: the reducer that appends where a node means to replace; a verdict taken from
old observations; budgets that run out between two nodes; read-then-write on SQLite without a
transaction; a table and a dictionary written one after the other; background index tasks that
report by name to a registry that has changed; filters implemented by mutating a shared
registry; an optimistic lock with a gap between check and write; counters in unlocked dictionaries;
a page that reads its current session again after an await; thresholds that meet a numeric function
at a boundary. `PROJECT.json` lists each at its line under `hazards`.

## Modules

| Module | Models | Correspondence |
|---|---|---|
| `Routing` | the pure decisions of `route.py` and `clarify.py` | a text is what the functions tell apart (vague, placeholder, write statement, mention of a write verb); confidences are percentages |
| `ReconGraph` | one query through the graph | each node is one action together with its conditional edge; a node with several ways through (early returns, exceptions) is several actions, `ActOverBudget`, `ActParallel`, `ActUnknownTool`, `ActRaises`, `ActTool`, `ObserveEmpty`, `ObserveOverBudget`, `ObserveGuardRetry`, `ObserveVerdict`; an observation is the call it reports and how `observe` would judge it; tokens and seconds are the flag `overrun`, steps are counted |
| `QueryLifecycle` | what the graph promises its caller, abstractly | `ReconGraph` implements it: bounded attempts, one closing verdict that fits, no attempt after it |
| `Reconciliation` | the plan, its correction by the database and the comparison of its tables | the state is the tables, the plan and the report; `_nway_diff_engine` and `_diff_parallel_results` are `NwayDiff` and `TwoWayDiff`; a value is a number, NULL or words |
| `TableDiffs` | the tools `diff_calculator` and `diff_compare`, growth rates | functions of two tables, compared with each other |
| `Diagnosis` | `error_diagnosis.py`, relations inferred by `relationship_builder.py` | a message or a statement is the patterns it matches; `EditDistance` is the code's row by row computation, checked against the recursion that defines it |
| `ClarifyDialogue` | many `/query` requests of one user, with the web client's state | sending and the answer are an action each, built from `Routing`, and the user may open another session between the two; what happens inside a request is `ReconGraph`'s matter |
| `CtxRegistry` | `register`, `get`, `remove` of several instances, the TTL, crashes | one action per access of the dictionary or of the table; each table access, and a rebuild, may fail as the code allows |
| `DataSourceIndex` | registry, file, index tasks, restarts | code between two `await`s is one action; the build in the thread pool is one; a save works, or fails before or after `write_text` has emptied the file |
| `DataSourceQueries` | queries that are narrowed by those indexes | extends `DataSourceIndex` with the binding of a query and `get_default_linker` |
| `SkillMemory` | skills from review to archive | one action per SQL statement; the Wilson bound and its two thresholds in whole numbers (`Above3`, `Below2`) |
| `EpisodicMemory` | cases and rules | one action per SQL statement; how new a query is follows from the latest `Recall` cases that were read (the code: 200) |
| `AgentHistory` | messages, token count, compression, saving and loading | a message is its role, round and size; a file is what it restores |
| `AgentRun` | the agents of `recon_core` and all their ways to run, over many runs | extends `AgentHistory`; one action per call of the model, per tool call (or per set of tool calls where the code gathers them), per message recorded; `run.pc` says where in the loop it is |
| `SubagentTools` | Task calls on the shared registry | a step is a stretch of `run_as_subagent` between two accesses of the registry; the iteration that raises when the dictionary grows is `Break` |
| `IntentRouting` | which intent, which skills, cases and documents a question gets | a text is how many keywords or words it shares with another; the intents are those of `intent.py`, their prompts left out |
| `ReconAgent` | agents that reconcile, over runs and restarts | extends `IntentRouting`; emptying a file, filling it, and the lock of a reviewer are steps, and the first two may raise; a skill is its name and category, an episode the number of its run; what happens inside a run is `AgentRun`'s matter |
| `LLMAdapters` | which adapter, and what becomes of histories, tools, answers and streams | functions on sequences of messages |
| `FileTools` | Read, Write, Edit, MultiEdit on one shared file | one action per system call; a version of the file stands for what a write puts there, the file for an inode, so that a rename and a truncation differ; `WriteFails` is any of these calls raising, with what it leaves behind |
| `TextEdit` | what Edit and MultiEdit do to a text | Python's `count` and `replace` on sequences, checked against a definition by positions |
| `ToolNotes` | task list and development log | one action per call of a tool, saving included, which may fail |
| `Retrieval` | chunking, batches, indexing, search, fusion, reranking | functions on sequences; the similarity scores are inputs |
| `Condense` | what is cut: contexts, documents, outputs of tools | functions on the sizes of texts |
| `WebSessions` | the page and the handlers of the sessions table | every `await` of the page and every statement of a handler is a step; a message remembers whose it is and where it was asked |
| `ApiTables` | users, agents, model configurations, documents | each handler looks in one step and changes in another |
| `Breaker` | the circuit breaker of one tool | each look at or change of a dictionary is a step of a thread |
| `Gateway` | `LLMGateway.chat` and its cache | lookup, answer, failure and store of each caller |
| `MC*` | values of the constants that a `.cfg` cannot write, symmetry, components side by side | in `MCServices`, `MCTools` and `MCSkillMemory` a variable `part` chooses the component that runs; they share no state, so nothing is lost |
| `*_proofs` | theorems | see below |

Functions without state are checked by TLC as named assumptions, over every input up to a
bound written in the assumption: `Diagnosis` in the runs of `MCReconGraph`, `Retrieval` in
`skill_memory`, `Condense`, `TextEdit`, `Reconciliation`, `TableDiffs` and `IntentRouting` in `tools`, `LLMAdapters` in
`agent_run`. No proof uses one of these. Each says either what such a function guarantees
(`EditIsExact`, `MergeRespectsBoth`, `ResultsFollowCalls`, `DistanceIsLevenshtein`) or the exact case in which it
does not (`MultiEditMayDropOrRepeat`, `ChunksMayBeLost`, `ThreeTablesMayMix`, `StaleStats`, `EqualScoresRaise`).

History variables are marked `history:` where they are declared; no guard reads them. Operators
whose names contain `_` after a definition's name (`Drop_First`) are faulty variants of that
definition, used to test that a property can fail; nothing uses them otherwise.

## Runs and bounds

| Run | Module, configuration | Shows | Bounds, and why they are enough |
|---|---|---|---|
| `query` | `MCReconGraph`, `Query.cfg` | eight properties of one query, among them the refinement of `QueryLifecycle` and termination | the code's own limits (6 rounds, 3 retries, mode switch after 4 steps) at full size; step limits 6 and 15, one that cuts the loop at every node and the one the code uses; 2 results of a parallel step, enough for a last and an earlier one |
| `query_failure_feedback` | same, `QueryFailureFeedback.cfg` | a failed SQL is retried without its error (violation) | same |
| `clarify_endless` | `ClarifyDialogue`, `ClarifyEndless.cfg` | a fourth question can be asked (violation) | 6 messages: three questions, the forced plan, and two of a next dialogue; confidences on both sides of each threshold |
| `services` | `MCServices`, `Services.cfg` | eleven properties of the web page, the dialogue, the registry, the other tables, the breaker and the gateway | page: 2 tenants, 2 questions that overlap, 2 moves (away and back, or out and in as another), 1 deletion; dialogue as above; contexts never meet, so one suffices, over 3 instances, the home and two that race; tables: 3 calls, two that collide and one after, 1 restart; breaker: 2 threads and the code's threshold 3, counts up to 6; gateway: 2 callers, 2 fingerprints, 3 answers, 3 tries as in the code, 1 lost entry |
| `datasource_index` | `DataSourceIndex` | entries, file, linkers and tasks | one name (entries never meet except in the file, which is rewritten whole), two databases to re-create it with, two tasks that overlap, one schema change, one restart; any save may fail |
| `datasource_narrowing` | `DataSourceQueries` | a query may be narrowed by another database's index (violation) | one query is enough |
| `agent_run` | `AgentRun`, `AgentRun.cfg` | six properties of agents and their conversations | all four kinds, with and without tools and trace; 3 runs of 2 steps, so that a threshold of 3 messages compresses the first run in the second and the summary in the third; 2 tool calls in one answer, so that one can fail and the other not; 1 crash; automatic save after every second message |
| `agent_second_run` | `AgentRun`, `AgentSecondRun.cfg` | a traced ReActAgent cannot run twice (violation) | 2 runs of one step |
| `tools` | `MCTools`, `Tools.cfg` | file tools, log, comparison of tables, subagents' filters, the files of the reconciliation agents | 2 callers and 2 writes: a lost update needs no more; 2 milliseconds, to write in the same one and in another, each in a second of its own for the backups; 1 crash or failed write, so that a file that was cut off is overwritten, edited and backed up by whole calls; logs and lists of 2; two and three tables of up to 2 rows, among them a repeated key and a key that is NULL; Task calls: 2 threads, depth 2, 4 calls (two that overlap, one nested, one afterwards), a tool each that only one filter allows, and the Task tool; agents: 2, at once or one after the other, 2 runs, so that their reviews overlap or an exit comes between, of questions that keep one tool or raise, 2 skills, 1 episode kept, so that the second run displaces the first, 1 exit, and saves that fail as often as they are tried; nothing is symmetric |
| `skill_memory` | `MCSkillMemory`, `SkillMemory.cfg` | counts, duplicates, archiving, reuse of skills; promotion and rules of cases | 3 requests that all hold one skill, 6 queries, so that 5 failed uses, the least decay asks for, can be reached and a request is over; 2 rows for twins; requests are interchangeable; 2 writers and 2 evolution threads, 3 jobs, of two similar queries; a case is compared with the latest 2, so that with up to 6 rows one that was promoted can be out of sight |
| `subagent_read_only` | `SubagentTools`, `SubagentReadOnly.cfg` | a read-only subagent sees writing tools (violation) | as in `tools` |
| `agent_intent_tools` | `ReconAgent`, `IntentTools.cfg` | a second question lacks the tools its intent requires (violation) | one agent, 2 runs of any intents |

Properties, by what they guard against:

- **Old results for new** - `OkIsEarned`, `CorrectionReachesAct`: `parallel_act` returns the whole
  state and the reducer of `observations` appends it again, so old rows are always there; still
  `ok` is only said of the latest round's result, and the range guard's correction is never
  shadowed by an old parallel step or its results.
- **Too many or too few tries** - `AttemptsBounded`, `NoEarlyGiveUp`, `WithinRecursionLimit`,
  `QueryTerminates`: `act` and `observe` both raise `retry_count` for one
  retry, three limits apply at once; none is overrun and none ends a query early.
- **Verdicts that flip** - `ImplementsLifecycle`, `LearnsOnlyFromSuccess`.
- **A wrong comparison** - `VerdictIsTrue`: whatever tables come back (repeated keys, rows without one, NULL
  and words for numbers, tables that failed), "consistent" is said exactly when every row of a table that was
  read and that the comparison counts is found in every other.
- **Dialogues** - `ReplyStaysInDialogue`: of the dialogue the request was sent in, although the page is not locked while it
  waits; the exception, a question that arrives in another session, is a history variable (`late`).
- **Shared contexts** - `OwnContextKept`, `RunningIsFound`, `ContextLeaves`: a lookup that fails to read or rebuild is told apart
  from one that finds nothing (`lost`), and the copies a racing `get` may leave in the query's own dictionary for good are named
  (`revived`).
- **Background index tasks** - `ReadyIsIndexed` (with the two exceptions the code has, named by
  history variables), `NoResurrection`, `IndexingSettles`.
- **Mutating a shared registry** - `FilterHolds`, `NothingLost`, each with the
  precondition under which the code keeps it; `ReadOnlyStaysReadOnly` is what the guide promises
  without it, and fails.
- **Read, then write** - `CountsAreReal`, `TwinsOverlapped`, `ArchivedOnEvidence`, `LearnedOnce`,
  `ConfirmedIsKept`, `AloneIsSerial`: what lost updates and overlapping handlers can and cannot do. Each
  says that only an overlap of two handlers on the same row, recorded in a history variable when it happens, does harm.
- **A threshold at a boundary** - `ReusedOnlyInParallel`: a skill that has been used once is not
  retrieved again; any further use was already handed out.
- **State read after an await** - `FiledWhereAsked`, `TenantsApart`, `InputReturns`.
- **Tool calls, failures, interrupts** - `CallsAnswered`, `AnswerHonest`, `RunEnds`, for all loops of all agents.
- **Compression, saving, loading, crashing** - `RoundsWhole`, `ForgetsIntoSummary`, `HistoryBounded`.
- **An optimistic lock with a gap, writes that fail** - `LostOnlyInParallel`, `Recoverable`: the first of calls that ran alone, the
  second while no two writing calls have overlapped. A torn file then means that an Edit was cut off, and its last version is in the backups,
  or was, until a later call of the same second backed up the torn file (`harm`). The log: `LogAcknowledged`.
- **Files rewritten whole by several objects** - `FilesAreHistory`: while agents live one after the other, background reviews, restarts,
  saves that fail and exits at any moment lose nothing from a file that can be read but what a save could not open it for (`refused`); two at once do. `IntentHasItsTools` is what the
  design of the intents says, and fails.
- **Counters without a lock** - `TripsAndRetries`; the cache: `RepeatsItself`.

Deadlock is checked for `datasource_index` and `datasource_narrowing`, where the system never stops (a crash or a change of the
schema is always possible). The other configurations turn it off: a query ends, and the numbers of calls, messages and runs are bounded.

## Fairness

- `ReconGraph`: weak fairness of the nodes' steps. `graph.invoke` runs node after node; a node's
  calls of models and databases have time-outs, and both outcomes are in the model. Nothing is
  assumed of the clock.
- `CtxRegistry`: of a query's own next step and of a `get` that was begun. No `get` has to be made,
  no crash has to happen.
- `DataSourceIndex`: of every index task: the event loop resumes it and the build ends one way or
  the other. No endpoint has to be called.
- `AgentRun`: of the agent's own next step (`Work`): the loops are bounded, model and tools return or raise. Nobody has
  to start a run, close a stream, interrupt, save or load.
- `WebSessions`: of the arrival of an answer or a failure for what the page has sent (`Response`). The user owes nothing.
- `Breaker`: of each thread's next step and of the passing of the time-out; `TripsAndRetries` is about a tool
  that agents keep asking for, and that is why a thread's next call is included. When the tool breaks is left open.
- `SubagentTools`: of every thread that runs a subagent, whose loop is bounded by `max_steps`.
- `ClarifyDialogue`: a request is answered or fails; the user owes nothing.
- The others have none: they make no promise about the future.

## Proofs

Every invariant and every step property that a passing run checks is also a theorem, for all values of the
constants; the temporal properties that are left are named at the end of this section.

| Module | Theorems | From |
|---|---|---|
| `ReconGraph_proofs` | `TypeCorrect`, `RoundsBounded`, `StepBudget`, `EarnedOk`, `NoEarlyEnd`, `CorrectionDelivered`, `BudgetVerdictKept`, `LifecycleSafety`, `LearnsSuccess`, `RecursionLimit` | `RoutingAssumption`, `GraphAssumption`, `ToolsAssumption`; `RecursionLimit` also from `MAX_ACT_ITER + max_retries <= 10` (the code: 6 and 3) |
| `CtxRegistry_proofs` | `OwnKept`, `FoundWhileRunning`, `LeftForGood` | nothing |
| `DataSourceIndex_proofs` | `Saved`, `ReadyMeansIndexed`, `DeletedStaysDeleted` | `IndexAssumption` |
| `SubagentTools_proofs` | `Typed`, `FilterKept`, `ToolsKept` | `ToolAssumption` |
| `SkillMemory_proofs` | `CountsReal`, `TwinsOnlyOverlapping`, `ArchivedJustly`, `ReuseIsParallel`, `PromotedOnce` | `MemoryAssumption`, `CasesAssumption` |
| `AgentRun_proofs` | `NoCallUnanswered`, `AnswersHonest`, `RoundsStayWhole`, `ForgottenIsSummarised`, `HistoryIsBounded` | `RunAssumption`, `HistoryAssumption` |
| `Services_proofs` | `GatewayRepeats`, `TablesSerial`, `TenantsNeverMix`, `AnswersFiled`, `ConfirmedKept`, `RepliesStay` | `TablesAssumption`, `WebAssumption`; the gateway and the dialogue from nothing |
| `Tools_proofs` | `LockKeepsUpdates`, `FilesRecoverable`, `RecordedIsKept`, `FilesTellHistory`, `VerdictIsRight` | `FileAssumption`, `ReconAgentAssumption` |

The assumptions say what a constant is: a number or a set, a bound that is positive, kinds of names that do not meet. Two say
what code builds: `ToolsAssumption`, that a set of tools is empty or has `sql_runner` and `rag_searcher` (`build_default_registry`, or a
context rebuilt without tools), and `ToolAssumption`, that the Task tool and no denied one is registered. `VerdictIsRight` is about tables with one column of amounts, as in the run; what happens with
several is under [where code and documents differ](#where-code-and-documents-differ).

The inductive invariants and why the properties are not inductive alone:

- *Query graph* (`IInv`). `AttemptsBounded` alone is not inductive: that a round may start only while
  rounds are left is decided one node earlier, by `observe_decide`, on the number of observations.
  `Looping` says `act` is entered again only with retries and rounds left; `Observed` that every round
  left an observation, so that their number bounds the rounds; `Latest` that the last observation is a
  failure or of the latest round although the reducer repeats earlier ones; `NothingObserved` and `Fresh`
  cover the way to the first one; `Overspent` ties the over-budget verdict to a budget that is still
  overspent when `observe` looks. `LifecycleSafety` shows that every step maps to a step of
  `QueryLifecycle` or to a stutter.
- *Context registry* (`RegistryInv`). A `get` can put a copy in the place of a query's own context only
  after a miss; `HomeHits` says that none is under way in the home instance while the query runs.
  `RowExcused` gives every missing row its reason. `NothingComesBack` (for `LeftForGood`) says that after `remove` a
  lookup of the query's own instance holds a snapshot only if it read it before the row was deleted, or the row was not.
- *Data sources* (`IndexInv`). `OneTask`: a name that no second task was started for has one live task at
  most, which works on the entry's database, will have read what was requested, and while it lives the
  entry is not `ready`. `EntrySaved` is what a save, and each way it fails, leaves in the file.
- *Subagents.* The proof of `ToolsKept` counts on at most one thread running filtered subagents
  (`OneFilteredSlot`), on what the stack of that thread still has to do at each program point
  (`FilterProgress`), and on every tool outside the registry being in the dictionary (`Remembered`). Any
  number of threads, levels and tools.
- *Skills.* What a request has read is never ahead of what was reported (`SnapshotReal`); a request past
  the dedup door shares its body with no live skill unless the body is already a twin (`PassedAlone`); a
  skill no two requests held at once has no use while it is held (`HeldAlone`), which rests on the
  Wilson bound of one success out of one being below 0.3.
- *Recursion limit* (`HopsInv`). The super-steps taken are two for each attempt or retry, and what the way to the first one
  took; what `HopsCounted` says at each node, the bounds of `IInv` turn into a number. `ToolsMissing` says
  that without tools the last observation is no failure, so that an `act` that counts nothing is not entered again.
- *Learning* (`LearnInv`): until `reflect` nothing is learned, and the verdict it sees was earned (`OkIsEarned`).
- *Cases and rules* (`CasesInv`). That a promotion is the only one of its query within `Recall` rows needs that, as long as no writer was blind to another, one
  writer at a time has the query in hand, and what it took to be new has no promoted case among the latest rows (`NewIsNew`, `LongAgo`); that a promoted case is not
  archived, so that the next writer sees it (`PromotedLive`); and the like for a rule between the look for it and its insertion (`RuleIsNew`).
- *Agents* (`RunInv`). At each program point of each kind of agent: which calls are open (`Answering`), how the first attempt of a
  reflecting agent ended (`Attempted`), and from which outcomes the answer in hand comes (`Honest`).
- *Conversations* (`HistInv`). One predicate of a list of messages, `Conv`, holds of the history, and of the file a crash may
  restore (`GoodFile`): rounds ascend, an answer follows its question, a summary is only at the head, and every round that is gone is gone
  into it. Compression keeps `Conv` for every cut, which is a lemma about sequences; `Talk` says how a run that is under way stands in it, `Counted` that
  the token count is the sum of the sizes while it follows the history. TLC checked `HistInv` first.
- *Gateway* (`GatewayInv`). An answer that a later caller is owed is what the cache holds; a chat that missed the cache is owed none, and one that
  is owed an answer has had it.
- *Other tables* (`TablesInv`). A record no handler is at is what the calls make of it (`Quiet`); a call at a record that has not collided is
  the only one there and has seen what is in it (`Alone`); what a start of the server inserts is not deleted (`StartedStay`).
- *Sessions.* `Book` numbers questions and sessions: a question has one task at a time, an id is drawn once, what is yet to be drawn
  for questions under way included. `Filed` says of every message under way and in a row whose it is and where it belongs; `KeepInv`, that a
  number is nowhere before it is written (`NotYetThere`), that an append no other crossed writes what the session holds
  (`AloneAppends`) and that nothing gets into a session before it is created (`CreatedOnce`).
- *Dialogue* (`DialogueInv`). The page has no context while the server works on the one it sent; a context is of a message of the running dialogue
  or the late one; and a request carries a context of the dialogue it was sent in, whatever session the page shows by then.
- *File lock* (`LockInv`). Versions carry the time they were written at (`Stamped`); a call alone has seen the version in the
  file, or holds the time that tells them apart (`Undisturbed`). *Recovery* (`RecoverInv`): with writing calls one after the
  other, at each point of the one that writes, where the whole version is (`Progress`), and what a fault has done to it (`harm`).
- *Log* (`LogInv`). The tool's list and the file are both in the order of writing and both have what was reported as recorded: the file so that a
  restart keeps it, the list so that the next save does.
- *Files of agents* (`AgentInv`). Unless two lived at once, either none lives and what is not torn is the history (`AllDead`), or one does (`Known`): it alone writes,
  its dictionary of skills and its list of episodes are the history too, one of its reviews at a time has the lock, and a file is torn
  only while it writes it or after a save of its own broke off (`Cut`); what a save could not open the file for is in the dictionary. The episodes kept are the last of those remembered (`Recent`). TLC checked it with two agents first.
- *Comparison of tables.* The state is trivial, the function is not: with `Matches` of two tables, `LastCounts` (the rows that count
  are the last of their keys), `NwayIs` and `TwoWayIs` (each comparison says that all tables match).

Induction over data. The library's induction rules take an operator as parameter, which the provers cannot instantiate. Where a
proof needs it (the sum of token counts, the last row of a key, where a compression cuts) it goes by the
least number that would be a counterexample: `LeastNumber`, that a set of naturals has one, follows from `WFMin`.

`TypeCorrect`, `StepBudget`, `BudgetVerdictKept`, `LifecycleSafety`, `Typed`, `Saved` and `LeftForGood` state what no run lists by itself; the safety half of
`ImplementsLifecycle` is `LifecycleSafety`, that of `ContextLeaves` is `LeftForGood`.

Only model-checked, not proved: liveness (`QueryTerminates`, the liveness half of
`ImplementsLifecycle`, `ContextLeaves`, `IndexingSettles`, `RunEnds`, `InputReturns`, `TripsAndRetries`), which the
prover does not treat, and what functions over data compute (the named assumptions): those are checked for every input up to a bound.

## Where code and documents differ

With a run (see `findings` in `PROJECT.json`):

- A failed SQL goes back to `act` without its error, only the range guard feeds back (`observe.py:1003`).
- A fourth clarifying question can be asked: a classification of 0.55 or more drops the
  context before its turn is looked at, and a short reply is sent to `clarify` whatever the confidence (`ClarifyEndless.cfg`).
- Until the linker of a data source is built in this process, before its first index or after a restart,
  its queries are narrowed by the default linker's index, whichever database that was built from
  (`DataSourceNarrowing.cfg`); and that linker never notices another path, since `schema_indexer.py:577`
  reads an attribute that does not exist.
- A read-only subagent sees writing tools while another Task call ends or starts.
- A traced `ReActAgent` runs once: `run` and `arun` close its trace logger, and the first event of a second run
  goes to the closed file (`AgentSecondRun.cfg`).
- A `ReconciliationAgent` that has answered one question lacks, for all later ones, the tools the first did not need:
  `keep_only` removes them from its registry for good (`IntentTools.cfg`).

Met while reading, without a run of their own. Of the query graph:

- `observe` reports `budget_exceeded` only when it has observations; without any it reports `error`,
  and `act`'s verdict is overwritten.
- One retry of the range guard raises `retry_count` twice, in `observe` and again in `act`.
- Tight step limits and an empty tool set end every query in `error` rather than in a message of their own.
- Nodes after `route` work on the bare reply, not on the reply merged with the original query
  (`state.py:33`); `act.py:472`.
- `observe.py:420-533` cannot be reached, and `diff_calculator.py` defines its classes twice.
- The message of exhausted retries speaks of all attempts and shows the last three, numbered from one;
  `diagnose_empty_result` expects that there may be no SQL in one line and not in the next; every table with a short name counts as similar to another.
- Since the cache answers the same prompt with the same text, a retry whose prompt has not changed runs the same SQL.

Of comparisons of tables:

- With three or more tables each is keyed by the columns of its last pair, so two may be keyed by columns that were
  never matched (`ThreeTablesMayMix`); only the first column of a composite key is used, the last of two rows with one key wins, rows without a
  key are dropped, and tables that failed are left out of what is called consistent.
- Two value columns of one table are compared with each other, and tables the database does not know pass the validation.
- `diff_compare` ignores the columns it was asked to compare; the three comparisons take NULL and words for different things (`DiffsPartOnMissing`).

Of contexts, memory and retrieval:

- A lookup of a running query whose row cannot be read, or whose context cannot be rebuilt, ends in a `KeyError` although the row is good
  (`ctx_registry.py:56`); a copy that a `get` in the query's own instance installs after `remove` stays there for good.
- `remove` does not clean copies of a context that other instances rebuilt (`ctx_registry.py:9`),
  `cleanup_expired` is never called (`ctx_store.py:7`), and a rebuilt context gets tools on the local
  database whatever its data source (`ctx_registry.py:96`).
- One successful use takes a skill's confidence from 0.6 to 0.2065, below what `query_skills` returns;
  it is neither used nor archived any more, and the dedup door keeps refusing its body.
- `reflect` writes two episodic rows for a query. The first carries no intent and is the only one new
  enough to be promoted; the second carries the intent but is a duplicate by then. Cases that were promoted
  automatically therefore never reach the examples `route` selects by intent (`reflect.py:111`, `route.py:180`).
- How new a query is is judged by the latest 200 live cases (`store.py:161`): after 200 others the same query is new again and promoted a second time.
- A save of the data sources that fails can leave an empty file, which is only logged (`factory.py:172`): a restart before the next save that
  works starts without any source. After a restart a source can be `ready` without an index.
- The sandbox door compares a score with itself and never refuses (`pipeline.py:138`), and counters of
  a skill can go down when an older update is written last. `evolution_run` logs the key `archived`, which `decay` does not return.
- Of a knowledge base whose embeddings failed the missing vectors are never added, and one whose count fails is indexed a second time;
  the Milvus collection of schemas is shared by data sources, so that tables of one name replace each other (`UpsertReplaces`).
- Vectors are shared by texts with the same first 512 characters (`VectorsOfPrefix`); those made without a model depend on the process's
  `hash()`; a short rest of a document is dropped though a comment says fragments are avoided (`ChunksMayBeLost`).
- BM25 returns documents that match nothing (`NoMatchIsFound`), and a document stored twice outranks one that both searches rank above it (`CopiesCountTwice`).
- The compressor says it restores the order of sentences and leaves them ordered by score (`compressor.py:106-110`); if the best does not fit it
  takes the beginning of the text. The truncator shows an output of few long lines whole and calls it truncated.
- Packets of a type without a section take their share of the budget and are not shown (`PacketsShown`).
- `auto_relationships.md` is left out even when no database is found to replace it; a second relation between the same two tables is not
  inferred, and two foreign keys between them give chunks of one id.

Of agents and their tools:

- Filters do not reach function tools; a tool can be lost for good when one thread puts tools back
  while another takes one out; nothing limits the depth of nested subagents; while a filtered subagent runs,
  the main agent lacks the tools too.
- Edit and MultiEdit open the file itself, so that a write that fails (no space, a character without an encoding) is reported and leaves it
  empty or in part (`file_tools.py:548`), where Write leaves it alone; backups are named by the second, and a retry within it replaces the
  good backup by the broken file.
- Agents run `Tool` objects directly, so the circuit breaker never counts them (`agent.py:665`).
- Loading a session and returning from a subtask leave the token count of before, so that compression comes late (`HistoryBounded`).
- Call ids Gemini's adapter makes from the millisecond collide (`SameMillisecond`); a choice of tools "none" is lost with Claude though
  `llm.py` documents it, and only the last system message reaches Claude and Gemini (`LostOnTheWay`); a stream that breaks leaves the
  statistics of the call before (`StaleStats`); `stream_invoke` drops the client's temperature, `astream_invoke` also `max_tokens` (`ClientLeftOut`).

Of the reconciliation agents:

- Two intents with equal keyword scores raise a `TypeError` out of the run, since they are compared themselves (`EqualScoresRaise`; three
  keywords of reconciliation and four of complex queries, for instance), and a single short keyword of `adhoc_query` is not enough for it (`OneShortWord`).
- A library or memory file that an exit or a failed save left half written keeps every later agent from being created (`skill_reviewer.py:241`,
  `memory_tool.py:160`); agents that live at once overwrite each other's skills and episodes, and `ReconciliationPlanAndSolveAgent` makes one per simple question.
- A skill learned again has its content replaced and keeps the description of its first question (`skill_reviewer.py:192`); its uses alone
  then make it found by any question (`UsedSkillsAlwaysFound`).
- Two cases saved in one second are one file and two entries of the index (`CasesOfOneSecond`); a skill's text is that of its first reading (`SkillAsFirstRead`).

Of the API and the page:

- A `/query` that fails is answered by the page with a made-up example, which it files as a result of status "ok".
- Messages of the page have no `role`, and it never sends a `session_id`, so `_load_prior_context` finds nothing.
- Logging out leaves the current session, and what is asked next by another user is sent to it; the server refuses it (`TenantsApart`).
- A click on "new session" while one is being created files the message under the session `null`; `addHistoryItem` takes the
  session that is current after its await (`FiledWhereAsked`); a failed request loses the clarification context,
  and a question that arrives after the user opened another session is answered by the next message there (`index.html:3668`).
- `append_message` reads and writes without a transaction around both; documents of the knowledge base are truncated and then written, and two names
  that differ only in replaced characters are one document.

## Not modelled

- Texts: prompts, SQL generation, safety analysis, dialect rewriting, how texts are cut into words, the rewriting of queries,
  similarity scores. The models let them give any answer they can give.
- External systems: databases, model providers, vector stores. Their calls succeed or fail.
- The other built-in tools and the tools of the query graph: each is one call whose outcome is left open where it is used.
- Presentation: the page but for sessions and dialogue, tracing, metrics, examples, evaluation.
- Of the modelled components: listing and deleting session files, the log of retrievals, explicit registration of tools, the settings pages.

`PROJECT.json` lists every component with its reason.

## Plan

What is left, in this order:

1. Theorems about functions in place of bounded assumptions, by the least counterexample as above, where the function is written with a
   recursive function or a fold: `TwoTablesByJoinedKeys`, `ClassifiedByBest`, `ResultsFollowCalls`, `ThreeDiffsAgree`.
2. `VerdictIsRight` for several columns of amounts, with `Agree` of the largest and smallest amount of a row.
3. Abstract specifications of more components, and steps that map to theirs: a registry as a map from queries to contexts (`CtxRegistry`), a file
   with atomic writes (`FileTools` without overlap), a log that only grows (`ToolNotes`).
4. The safety analysis of SQL as a function of the patterns a statement matches.
