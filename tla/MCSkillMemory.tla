---------------------------- MODULE MCSkillMemory ----------------------------
(***************************************************************************)
(* The two halves of the memory, checked side by side: a behaviour belongs *)
(* to the skills or to the cases, which are tables of their own.           *)
(***************************************************************************)
EXTENDS SkillMemory, EpisodicMemory, Retrieval, TLC

VARIABLE part

MemoryInit == part \in {"skills", "cases"} /\ Init /\ CasesInit

MemoryNext ==
    /\ UNCHANGED part
    /\ \/ part = "skills" /\ Next /\ UNCHANGED casesVars
       \/ part = "cases" /\ CasesNext /\ UNCHANGED vars

MemorySpec == MemoryInit /\ [][MemoryNext]_<<vars, casesVars, part>>

(* Requests are interchangeable.                                           *)
Symmetry == Permutations(Requests)
==============================================================================
