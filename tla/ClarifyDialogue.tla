--------------------------- MODULE ClarifyDialogue ---------------------------
(***************************************************************************)
(* A user who is asked back.  A query that route_decide sends to           *)
(* clarify_node is answered by a question and a clarify_context, which the *)
(* web client sends along with the next message, once.  One /query request *)
(* is one action; what happens inside it is module ReconGraph.             *)
(*                                                                         *)
(* Messages are numbered; a clarify_context names the message it keeps as  *)
(* original_query and counts the questions.  The page is not locked during *)
(* a request: the user may open another session, and the answer comes to   *)
(* the page as it then is.                                                 *)
(***************************************************************************)
EXTENDS Routing

CONSTANT MaxMessages   (* bound: messages the user sends *)

ASSUME DialogueAssumption == MaxMessages \in Nat

VARIABLES
    phase,     (* who moves: the user or the server                         *)
    sent,      (* number of messages sent                                   *)
    pending,   (* the client's _pendingClarifyCtx                           *)
    req,       (* the request the server works on                           *)
    reply,     (* last reply: its kind, the messages it was classified by,  *)
               (* and the messages it is about                              *)
    open,      (* history: messages of the running dialogue, which ends     *)
               (* with a reply that is not a question or another session    *)
    late,      (* history: what a question of a session left meanwhile was  *)
               (* about, if its context came to the running dialogue        *)
    asked      (* history: questions in the running dialogue                *)

vars == <<phase, sent, pending, req, reply, open, late, asked>>

NoContext == [orig |-> 0, turn |-> 0]

Context == [orig : 0..MaxMessages, turn : Nat]

(* A request, with the history it was sent in.                             *)
Request == [id : 0..MaxMessages, text : QueryTexts, chip : BOOLEAN, llm : BOOLEAN,
            context : Context, open : SUBSET (1..MaxMessages), late : SUBSET (1..MaxMessages)]

NoRequest == [id |-> 0, text |-> "clear", chip |-> FALSE, llm |-> FALSE,
              context |-> NoContext, open |-> {}, late |-> {}]

Replies == {"none", "failed", "answered"} \cup ClarifyStatus

Init ==
    /\ phase = "user"
    /\ sent = 0
    /\ pending = NoContext
    /\ req = NoRequest
    /\ reply = [kind |-> "none", read |-> {}, about |-> {}]
    /\ open = {} /\ late = {} /\ asked = 0

------------------------------------------------------------------------------
(* The user types a message or, after a question, clicks one of the        *)
(* suggested queries; the client sends the context along and forgets it.   *)
Send ==
    /\ phase = "user"
    /\ sent < MaxMessages
    /\ sent' = sent + 1
    /\ open' = open \cup {sent'}
    /\ \E text \in QueryTexts, chip \in BOOLEAN, llm \in BOOLEAN :
         /\ chip => pending # NoContext
         /\ req' = [id |-> sent', text |-> text, chip |-> chip, llm |-> llm,
                    context |-> pending, open |-> open', late |-> late]
    /\ pending' = NoContext
    /\ phase' = "server"
    /\ UNCHANGED <<reply, late, asked>>

(* The request fails: the context it carried is gone.                      *)
RequestFails ==
    /\ phase = "server"
    /\ reply' = [kind |-> "failed", read |-> {}, about |-> {}]
    /\ phase' = "user"
    /\ req' = NoRequest
    /\ late' = {}
    /\ UNCHANGED <<sent, pending, open, asked>>

(* Mutant: the context follows the user into the other session.            *)
SwitchSession_KeepsContext ==
    /\ pending # NoContext \/ open # {}
    /\ open' = {} /\ late' = {} /\ asked' = 0
    /\ UNCHANGED <<phase, sent, pending, req, reply>>

(* The user opens another session, or a new one, also while a request is   *)
(* under way.                                                              *)
SwitchSession ==
    /\ pending # NoContext \/ open # {}
    /\ pending' = NoContext
    /\ open' = {} /\ late' = {} /\ asked' = 0
    /\ UNCHANGED <<phase, sent, req, reply>>

(* The messages route_node reads as one query: the reply merged with the   *)
(* original query, unless a suggestion was clicked.                        *)
MergedQuery ==
    {req.id} \cup (IF req.context # NoContext /\ ~req.chip
                   THEN {req.context.orig} ELSE {})

(* Every node but route and observe works on state["query"], the bare      *)
(* message; clarify asks about the original query of the context, if the   *)
(* context survived route.  The page keeps the context of a question,      *)
(* whichever session it shows by then.                                     *)
Respond ==
    /\ phase = "server"
    /\ \E answer \in Classified(req.llm) :
         LET c    == Fallback(answer)
             kept == IF ClearsClarify(c) THEN NoContext ELSE req.context
             node == route_decide(c, TurnAfterRoute(c, req.context.turn), req.text)
             kind == IF node = "clarify" THEN clarify_status(req.text, c.intent)
                     ELSE "answered"
             orig == IF kept = NoContext THEN req.id ELSE kept.orig
         IN  IF kind = "awaiting_clarification"
             THEN /\ pending' = [orig |-> orig, turn |-> kept.turn + 1]
                  /\ reply' = [kind |-> kind, read |-> MergedQuery, about |-> {orig}]
                  /\ IF req.id \in open
                     THEN asked' = asked + 1 /\ UNCHANGED late
                     ELSE late' = {orig} /\ UNCHANGED asked
                  /\ UNCHANGED open
             ELSE /\ reply' = [kind |-> kind, read |-> MergedQuery, about |-> {req.id}]
                  /\ open' = {} /\ late' = {} /\ asked' = 0
                  /\ UNCHANGED pending
    /\ phase' = "user"
    /\ req' = NoRequest
    /\ UNCHANGED sent

Next == Send \/ RequestFails \/ SwitchSession \/ Respond

(* A request is answered or fails; the user owes nothing.                  *)
Spec == Init /\ [][Next]_vars /\ WF_vars(RequestFails \/ Respond)

------------------------------------------------------------------------------
TypeOK ==
    /\ phase \in {"user", "server"}
    /\ sent \in 0..MaxMessages
    /\ pending \in Context
    /\ req \in Request
    /\ reply \in [kind : Replies, read : SUBSET (1..MaxMessages),
                  about : SUBSET (1..MaxMessages)]
    /\ open \subseteq 1..MaxMessages /\ late \subseteq 1..MaxMessages
    /\ asked \in Nat

(* Whatever failed or was left in between, a reply is made from, and is    *)
(* about, messages of the dialogue its request was sent in; but a question *)
(* that arrives after its session was left gives the next request the one  *)
(* message it asked about.                                                 *)
ReplyStaysInDialogue ==
    [][reply' # reply => reply'.read \cup reply'.about \subseteq req.open \cup req.late]_vars

(* route_decide: after three questions a plan is forced.                   *)
QuestionsBounded == asked <= 3
==============================================================================
