------------------------------- MODULE Routing -------------------------------
(***************************************************************************)
(* The pure decisions around the first node of the query graph: what the   *)
(* four-layer classifier may answer, which node route_decide sends the     *)
(* query to, and how clarify_node closes a query it is handed.             *)
(*                                                                         *)
(* A query text is abstracted to what these functions tell apart: whether  *)
(* it is short and without a business word (vague), a REJECT / CLARIFY     *)
(* placeholder, a write statement or comment injection, or merely mentions *)
(* a write verb.  Confidences are percentages.                             *)
(***************************************************************************)
EXTENDS Naturals

CONSTANTS
    Intents,     (* intent labels the classifier answers with              *)
    ConfLevels   (* confidences an LLM answer carries                      *)

VALID_INTENTS ==
    {"simple_query", "multi_table_join", "time_window_recon", "numeric_diff",
     "boundary_edge", "trend_analysis", "period_comparison", "topn_ranking"}

RECON_INTENTS ==
    {"numeric_diff", "time_window_recon", "multi_table_join", "period_comparison"}

SKIP_PLAN_INTENTS ==
    {"simple_query", "topn_ranking", "trend_analysis", "boundary_edge"}

ASSUME RoutingAssumption ==
    /\ Intents \subseteq VALID_INTENTS
    /\ "simple_query" \in Intents
    /\ ConfLevels \subseteq 0..100

QueryTexts ==
    {"clear", "vague", "reject_mark", "clarify_mark", "write", "write_word"}

(* route_decide calls a text vague when it is shorter than ten characters  *)
(* and has none of the business words; both placeholders are.              *)
IsVague(text) == text \in {"vague", "reject_mark", "clarify_mark"}

Classification == [intent : VALID_INTENTS, conf : 0..100]

(* Layers 1 and 2 (keyword rule, KNN vote of at least 85) answer with a    *)
(* high confidence; layer 3 answers anything, and (simple_query, 40) when  *)
(* there is no LLM, the call fails or the label is unknown.                *)
Classified(llm) ==
    {[intent |-> "simple_query", conf |-> 40]}
        \cup [intent : Intents, conf : {90}]
        \cup (IF llm THEN [intent : Intents, conf : ConfLevels] ELSE {})

(* Layer 4: a very low confidence falls back to simple_query.              *)
Fallback(c) ==
    IF c.conf < 35 THEN [intent |-> "simple_query", conf |-> 50] ELSE c

(* route_node drops the clarification context of a confident answer.       *)
ClearsClarify(c) == c.conf >= 55 /\ c.intent # "boundary_edge"

(* The clarification turn left in the state by route_node (0: no context). *)
TurnAfterRoute(c, turn) == IF ClearsClarify(c) THEN 0 ELSE turn

(* Mutant: answers with a label the graph has no edge for.                 *)
route_decide_NoEdge(c, turn, text) ==
    IF c.intent = "boundary_edge" THEN "reject"
    ELSE IF c.conf < 45 \/ IsVague(text) THEN "clarify"
    ELSE IF c.intent \in SKIP_PLAN_INTENTS THEN "act"
    ELSE "plan"

(* route_decide, with "reject" and "clarify" both leading to clarify_node. *)
route_decide(c, turn, text) ==
    IF c.intent = "boundary_edge" THEN "clarify"
    ELSE IF turn >= 3 THEN "plan"
    ELSE IF c.conf < 45 \/ IsVague(text) THEN "clarify"
    ELSE IF c.intent \in SKIP_PLAN_INTENTS THEN "act"
    ELSE "plan"

ClarifyStatus == {"rejected", "clarify", "awaiting_clarification"}

(* The final_status clarify_node gives a query.                            *)
clarify_status(text, intent) ==
    IF text \in {"reject_mark", "write"} THEN "rejected"
    ELSE IF text = "clarify_mark" THEN "clarify"
    ELSE IF intent = "boundary_edge"
         THEN IF text = "write_word" THEN "rejected" ELSE "clarify"
    ELSE "awaiting_clarification"
==============================================================================
