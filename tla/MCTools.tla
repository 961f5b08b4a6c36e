------------------------------- MODULE MCTools --------------------------------
(***************************************************************************)
(* The tools of the agents and what is kept in files beside them, checked  *)
(* side by side: a behaviour belongs to the file tools, to the tools for   *)
(* notes, to a comparison of tables, to subagents on one registry of       *)
(* tools, or to the agents that reconcile; these share nothing.            *)
(***************************************************************************)
EXTENDS FileTools, ToolNotes, TextEdit, TableDiffs, Condense, SubagentTools, ReconAgent

VARIABLE part

toolsVars == <<filesVars, notesVars, reconVars, vars, agentVars, part>>

(* The parts that do not run begin in one state.                           *)
ToolsInit ==
    /\ part \in {"files", "notes", "tables", "subagents", "agents"}
    /\ FilesInit /\ NotesInit /\ Init /\ ReconAgentInit
    /\ IF part = "tables" THEN ReconInit
       ELSE tables = <<>> /\ plan = <<>> /\ report = Pending

ToolsNext ==
    /\ UNCHANGED part
    /\ \/ part = "files" /\ FilesNext /\ UNCHANGED <<notesVars, reconVars, vars, agentVars>>
       \/ part = "notes" /\ NotesNext /\ UNCHANGED <<filesVars, reconVars, vars, agentVars>>
       \/ part = "tables" /\ ReconNext /\ UNCHANGED <<filesVars, notesVars, vars, agentVars>>
       \/ part = "subagents" /\ Next /\ UNCHANGED <<filesVars, notesVars, reconVars, agentVars>>
       \/ part = "agents" /\ ReconAgentNext /\ UNCHANGED <<filesVars, notesVars, reconVars, vars>>

ToolsSpec == ToolsInit /\ [][ToolsNext]_toolsVars
==============================================================================
