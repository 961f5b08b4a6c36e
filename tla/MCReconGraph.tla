---------------------------- MODULE MCReconGraph ----------------------------
(* The query graph on the constants the code uses, with small input sets.  *)
EXTENDS ReconGraph, Diagnosis

(* One intent per way through route_decide and plan: a skip-plan intent    *)
(* that is the default, one that is not, a reconciliation intent and the   *)
(* safety intent.                                                          *)
MCIntents == {"simple_query", "topn_ranking", "numeric_diff", "boundary_edge"}

(* On either side of 35 (fallback), 45 (clarify) and 55 (context cleared). *)
MCConfLevels == {20, 40, 50, 90}

(* The step limit the code uses and one that cuts the loop at every node.  *)
MCStepLimits == {6, 15}

(* The tools act_node can pick, the others are never asked for by name; and *)
(* none, in a context rebuilt when the registry cannot be built.           *)
MCToolsets == {{"sql_runner", "rag_searcher"}, {}}
=============================================================================
