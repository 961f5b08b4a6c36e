------------------------------ MODULE ReconAgent ------------------------------
(***************************************************************************)
(* The agents of recon_core that reconcile tables, over their runs and     *)
(* over restarts.  A run is routed to an intent, keeps of the agent's      *)
(* registry the tools this intent needs, and is remembered when it         *)
(* succeeds: at once in the episodic memory, and by a thread of the        *)
(* SkillReviewer, after the run has returned, in the library of skills.    *)
(* Every agent has dictionaries of its own, read from the files when it is *)
(* created; every save empties a file and writes all of the dictionary,    *)
(* and may fail before the one or in the middle of the other.              *)
(*                                                                         *)
(* Left out: what a run does (AgentRun), the texts of prompts and skills,  *)
(* the working memory, which no code reads, and the cases (IntentRouting). *)
(* Skills are told apart by name and category.                             *)
(***************************************************************************)
EXTENDS IntentRouting

CONSTANTS
    Agents,       (* ReconciliationAgent objects, one after another or not   *)
    Skills,       (* what a reviewer can find in a run                       *)
    Questions,    (* bound: what questions are classified as                 *)
    KeepLast,     (* episodes in the file, 500                               *)
    MaxRuns,      (* bound: runs altogether                                  *)
    MaxExits      (* bound: ends of the process                              *)

ASSUME ReconAgentAssumption ==
    KeepLast \in Nat \ {0} /\ MaxRuns \in Nat /\ MaxExits \in Nat

VARIABLES
    stage,     (* agent -> what its thread is doing                          *)
    kit,       (* agent -> the tools in its registry                         *)
    intent,    (* agent -> the intent of the run it is in                    *)
    learned,   (* agent -> SkillReviewer._skills: uses, 0 for none           *)
    memory,    (* agent -> MemoryTool._episodic: numbers of runs             *)
    reviews,   (* agent -> reviews running in threads                        *)
    library,   (* skill_library/_index.json                                  *)
    episodes,  (* memory_store/episodic.json                                 *)
    disk,      (* file -> whether it is torn, who is writing it, and whether *)
               (* a save broke off in a process that goes on                 *)
    runs,      (* runs so far                                                *)
    ended,     (* history: runs that succeeded                               *)
    found,     (* history: skill -> how often reviewers saved it             *)
    refused,   (* history: runs and skills for which no file could be opened *)
    together,  (* history: two agents with their dictionaries lived at once  *)
    exits

agentVars == <<stage, kit, intent, learned, memory, reviews, library, episodes,
               disk, runs, ended, found, refused, together, exits>>

Files == {"episodic", "semantic", "skills"}
Never == [s \in Skills |-> 0]

(* What a question may be classified as; "other" is whatever the model     *)
(* makes up.                                                               *)
Labels == DOMAIN AllIntents \cup {"clarify", "other", "TypeError"}

(* These are the results of the classification, no more and no less.       *)
ASSUME LabelsAreClassified ==
    Labels = {Classify(f, model) : f \in [DOMAIN AllIntents -> FoundWords],
                                   model \in [intent : {"other"}, confidence : {50, 60}]}

ASSUME QuestionsHaveLabels == Questions \subseteq Labels

ReconAgentInit ==
    /\ stage = [a \in Agents |-> "none"] /\ intent = [a \in Agents |-> "none"]
    /\ kit = [a \in Agents |-> {}] /\ memory = [a \in Agents |-> <<>>]
    /\ learned = [a \in Agents |-> Never] /\ reviews = [a \in Agents |-> <<>>]
    /\ library = Never /\ episodes = <<>>
    /\ disk = [f \in Files |-> [torn |-> FALSE, writers |-> {}, late |-> {}, broken |-> FALSE]]
    /\ runs = 0 /\ ended = 0 /\ exits = 0 /\ found = Never /\ together = FALSE
    /\ refused = [runs |-> {}, skills |-> {}]

------------------------------------------------------------------------------
(* open(path, 'w') empties the file ...                                    *)
OpenFile(f, a) ==
    disk' = [disk EXCEPT ![f] = [torn |-> TRUE, writers |-> @.writers \cup {a}, late |-> {},
                                 broken |-> FALSE]]

LeaveFile(f, a, torn, broken) ==
    disk' = [disk EXCEPT ![f] = [torn |-> torn, writers |-> @.writers \ {a},
                                 late |-> @.writers \ {a}, broken |-> broken]]

(* ... which is whole when it is closed, unless another writer closed it   *)
(* in between and its text was longer.                                     *)
CloseFile(f, a) ==
    \/ LeaveFile(f, a, FALSE, FALSE)
    \/ a \in disk[f].late /\ LeaveFile(f, a, TRUE, FALSE)

(* Or json.dump raises on the way and leaves what it has written.          *)
BreakOff(f, a) == LeaveFile(f, a, TRUE, TRUE)

Lives(a) == stage[a] # "none" \/ reviews[a] # <<>>

(* The constructor of an agent reads the files of the memory, and writes   *)
(* what it finds of the schema ...                                         *)
Create(a) ==
    /\ ~Lives(a) /\ ~disk["episodic"].torn /\ ~disk["semantic"].torn
    /\ stage' = [stage EXCEPT ![a] = "created"]
    /\ memory' = [memory EXCEPT ![a] = episodes]
    /\ OpenFile("semantic", a)
    /\ together' = (together \/ \E b \in Agents \ {a} : Lives(b))
    /\ UNCHANGED <<kit, intent, learned, reviews, library, episodes, runs, ended, found, refused,
                   exits>>

(* Mutant: the library is not read.                                        *)
Equip_Anew(a) ==
    /\ stage[a] = "created"
    /\ IF disk["skills"].torn
       THEN stage' = [stage EXCEPT ![a] = "none"] /\ UNCHANGED <<learned, kit>>
       ELSE /\ stage' = [stage EXCEPT ![a] = "idle"]
            /\ learned' = [learned EXCEPT ![a] = Never]
            /\ kit' = [kit EXCEPT ![a] = AllTools]
    /\ CloseFile("semantic", a) \/ BreakOff("semantic", a)
    /\ UNCHANGED <<intent, memory, reviews, library, episodes, runs, ended, found, refused,
                   together, exits>>

(* ... where an exception is only reported; it reads the library of skills *)
(* (a torn one raises) and registers the tools.                            *)
Equip(a) ==
    /\ stage[a] = "created"
    /\ IF disk["skills"].torn
       THEN stage' = [stage EXCEPT ![a] = "none"] /\ UNCHANGED <<learned, kit>>
       ELSE /\ stage' = [stage EXCEPT ![a] = "idle"]
            /\ learned' = [learned EXCEPT ![a] = library]
            /\ kit' = [kit EXCEPT ![a] = AllTools]
    /\ CloseFile("semantic", a) \/ BreakOff("semantic", a)
    /\ UNCHANGED <<intent, memory, reviews, library, episodes, runs, ended, found, refused,
                   together, exits>>

(* run: the question is classified; the tools its intent does not need are *)
(* unregistered.  A classification that raises ends the run.               *)
StartRun(a, label) ==
    /\ stage[a] = "idle" /\ runs < MaxRuns
    /\ runs' = runs + 1
    /\ IF label = "TypeError" THEN UNCHANGED <<stage, intent, kit>>
       ELSE LET needs == IntentOf(label).tools
            IN  /\ stage' = [stage EXCEPT ![a] = "running"]
                /\ intent' = [intent EXCEPT ![a] = label]
                /\ kit' = [kit EXCEPT ![a] = IF needs = {} THEN @ ELSE @ \cap needs]
    /\ UNCHANGED <<learned, memory, reviews, library, episodes, disk, ended, found, refused,
                   together, exits>>

(* The loop of the run raised.                                             *)
FailRun(a) ==
    /\ stage[a] = "running"
    /\ stage' = [stage EXCEPT ![a] = "idle"]
    /\ intent' = [intent EXCEPT ![a] = "none"]
    /\ UNCHANGED <<kit, learned, memory, reviews, library, episodes, disk, runs, ended, found,
                   refused, together, exits>>

(* Or it answered: the run is an episode ...                               *)
Remember(a) ==
    /\ stage[a] = "running"
    /\ ended' = ended + 1
    /\ memory' = [memory EXCEPT ![a] = Append(@, ended + 1)]
    /\ intent' = [intent EXCEPT ![a] = "none"]
    /\ UNCHANGED <<kit, learned, reviews, library, episodes, runs, found, together, exits>>

(* ... which is saved ...                                                  *)
EndRun(a) ==
    /\ Remember(a)
    /\ stage' = [stage EXCEPT ![a] = "saving"]
    /\ OpenFile("episodic", a) /\ UNCHANGED refused

(* ... unless the file cannot be opened: the run raises.                   *)
RefuseRun(a) ==
    /\ Remember(a)
    /\ stage' = [stage EXCEPT ![a] = "idle"]
    /\ refused' = [refused EXCEPT !.runs = @ \cup {ended + 1}]
    /\ UNCHANGED disk

LastOf(s) == SubSeq(s, Max({1, Len(s) - KeepLast + 1}), Len(s))

(* The save raises, and with it the run: there is no review.               *)
SaveFails(a) ==
    /\ stage[a] = "saving"
    /\ stage' = [stage EXCEPT ![a] = "idle"]
    /\ BreakOff("episodic", a)
    /\ UNCHANGED <<kit, intent, learned, memory, reviews, library, episodes, runs, ended, found,
                   refused, together, exits>>

(* The run is saved; its review begins in a thread and the run returns.    *)
Saved(a, skills) ==
    /\ stage[a] = "saving"
    /\ stage' = [stage EXCEPT ![a] = "idle"]
    /\ episodes' = LastOf(memory[a])
    /\ CloseFile("episodic", a)
    /\ reviews' = IF skills = {} THEN reviews
                  ELSE [reviews EXCEPT ![a] = Append(@, [left |-> skills, saving |-> FALSE])]
    /\ UNCHANGED <<kit, intent, learned, memory, library, runs, ended, found, refused,
                   together, exits>>

(* _save_skill, under the lock of the reviewer: a skill is new or used     *)
(* once more ...                                                           *)
Learn(a, i, s) ==
    /\ \A j \in DOMAIN reviews[a] : ~reviews[a][j].saving
    /\ s \in reviews[a][i].left
    /\ learned' = [learned EXCEPT ![a][s] = @ + 1]
    /\ found' = [found EXCEPT ![s] = @ + 1]
    /\ UNCHANGED <<stage, kit, intent, memory, library, episodes, runs, ended, together, exits>>

(* ... the file is emptied ...                                             *)
SaveSkill(a, i, s) ==
    /\ Learn(a, i, s)
    /\ reviews' = [reviews EXCEPT ![a][i] = [left |-> @.left \ {s}, saving |-> TRUE]]
    /\ OpenFile("skills", a) /\ UNCHANGED refused

(* ... or cannot be opened, which ends the review ...                      *)
RefuseSkill(a, i, s) ==
    /\ Learn(a, i, s)
    /\ reviews' = [reviews EXCEPT ![a] = RemoveAt(@, i)]
    /\ refused' = [refused EXCEPT !.skills = @ \cup {s}]
    /\ UNCHANGED disk

(* ... and filled.  Between two skills other reviews may have the lock.    *)
Persist(a, i) ==
    /\ reviews[a][i].saving
    /\ library' = learned[a]
    /\ CloseFile("skills", a)
    /\ reviews' = [reviews EXCEPT ![a] = IF @[i].left = {} THEN RemoveAt(@, i)
                                         ELSE [@ EXCEPT ![i].saving = FALSE]]
    /\ UNCHANGED <<stage, kit, intent, learned, memory, episodes, runs, ended, found, refused,
                   together, exits>>

(* Filling it raises, which is reported and ends the review.               *)
PersistFails(a, i) ==
    /\ reviews[a][i].saving
    /\ BreakOff("skills", a)
    /\ reviews' = [reviews EXCEPT ![a] = RemoveAt(@, i)]
    /\ UNCHANGED <<stage, kit, intent, learned, memory, library, episodes, runs, ended, found,
                   refused, together, exits>>

(* The agent is dropped, as by ReconciliationPlanAndSolveAgent after each  *)
(* simple question; its reviews go on with the skills they have.           *)
Forget(a) ==
    /\ stage[a] = "idle"
    /\ stage' = [stage EXCEPT ![a] = "none"]
    /\ kit' = [kit EXCEPT ![a] = {}] /\ memory' = [memory EXCEPT ![a] = <<>>]
    /\ learned' = IF reviews[a] = <<>> THEN [learned EXCEPT ![a] = Never] ELSE learned
    /\ UNCHANGED <<intent, reviews, library, episodes, disk, runs, ended, found, refused,
                   together, exits>>

(* The process ends, by a crash or because its main thread is done: the    *)
(* threads of the reviewers are daemons.                                   *)
Exit ==
    /\ exits < MaxExits
    /\ exits' = exits + 1
    /\ stage' = [a \in Agents |-> "none"] /\ intent' = [a \in Agents |-> "none"]
    /\ kit' = [a \in Agents |-> {}] /\ memory' = [a \in Agents |-> <<>>]
    /\ learned' = [a \in Agents |-> Never] /\ reviews' = [a \in Agents |-> <<>>]
    /\ disk' = [f \in Files |-> [torn |-> disk[f].torn, writers |-> {}, late |-> {},
                                  broken |-> FALSE]]
    /\ UNCHANGED <<library, episodes, runs, ended, found, refused, together>>

AgentStep(a) ==
    \/ Create(a) \/ Equip(a) \/ FailRun(a) \/ EndRun(a) \/ RefuseRun(a) \/ SaveFails(a)
    \/ Forget(a)
    \/ \E label \in Questions : StartRun(a, label)
    \/ \E skills \in SUBSET Skills : Saved(a, skills)
    \/ \E i \in DOMAIN reviews[a] :
         \/ Persist(a, i) \/ PersistFails(a, i)
         \/ \E s \in Skills : SaveSkill(a, i, s) \/ RefuseSkill(a, i, s)

ReconAgentNext == Exit \/ \E a \in Agents : AgentStep(a)

ReconAgentSpec == ReconAgentInit /\ [][ReconAgentNext]_agentVars

------------------------------------------------------------------------------
(* Unless two agents lived at once: a file is torn only while it is being  *)
(* written or after a save that broke off in the same process, and nothing *)
(* works after an exit that left it so; a whole library holds each skill   *)
(* as often as it was found, or less when a save of it was refused; and a  *)
(* whole memory holds the runs that succeeded in their order, all but those*)
(* refused and those before its KeepLast entries (MemoryTool and           *)
(* SkillReviewer, over all agents and restarts).                           *)
FilesAreHistory ==
    ~together =>
       /\ \A f \in Files : disk[f].torn /\ disk[f].writers = {} /\ ~disk[f].broken =>
             \A a \in Agents : stage[a] \in {"none", "created"}
       /\ disk["skills"].torn \/ \A s \in Skills :
             library[s] <= found[s] /\ (s \notin refused.skills => library[s] = found[s])
       /\ disk["episodic"].torn \/
             /\ \A i, j \in 1..Len(episodes) : i < j => episodes[i] < episodes[j]
             /\ \A n \in 1..ended :
                   \/ \E i \in 1..Len(episodes) : episodes[i] = n
                   \/ n \in refused.runs
                   \/ Len(episodes) = KeepLast /\ n < episodes[1]

(* The design of the intents: after the routing an agent has the tools its *)
(* intent requires, all of them for a reconciliation (keep_only).          *)
IntentHasItsTools ==
    \A a \in Agents : stage[a] = "running" => IntentOf(intent[a]).tools \subseteq kit[a]
==============================================================================
