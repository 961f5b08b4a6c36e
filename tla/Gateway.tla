------------------------------- MODULE Gateway ---------------------------------
(***************************************************************************)
(* LLMGateway.chat with its cache, for callers that share the cache: the   *)
(* parallel subtasks of a query, and with Redis all queries.  A            *)
(* fingerprint stands for the model, the messages and the temperature, an  *)
(* answer is numbered in the order of the provider's answers; the provider *)
(* answers the same messages differently each time.                        *)
(***************************************************************************)
EXTENDS Integers, FiniteSets

CONSTANTS
    Callers,
    Fingerprints,
    RetryMax,    (* retry_max                                                *)
    MaxAnswers,  (* bound: answers of the provider                           *)
    MaxLosses    (* bound: entries the cache loses                           *)

ASSUME GatewayAssumption ==
    RetryMax \in Nat \ {0} /\ MaxAnswers \in Nat /\ MaxLosses \in Nat

VARIABLES
    cache,     (* fingerprint -> answer, Nothing or Garbage                  *)
    chat,      (* caller -> the chat it is in, or the last one               *)
    answers,   (* number of answers so far                                   *)
    billed,    (* answers in the cost tracker with source "live"             *)
    losses,
    settled    (* history: fingerprint -> an answer every later chat must    *)
               (* get, or Nothing                                            *)

gatewayVars == <<cache, chat, answers, billed, losses, settled>>

Nothing == 0
Garbage == -1

NoChat == [pc |-> "idle", key |-> CHOOSE f \in Fingerprints : TRUE,
           attempt |-> 0, answer |-> Nothing, due |-> Nothing]

Others(c, key) == {d \in Callers \ {c} : chat[d].pc # "idle" /\ chat[d].key = key}

(* The look into the cache; an entry that cannot be parsed counts for      *)
(* nothing.  Mutant: no two callers have the same fingerprint.             *)
Lookup_Private(c) ==
    /\ chat[c].pc = "idle"
    /\ \E key \in Fingerprints :
          chat' = [chat EXCEPT ![c] = [NoChat EXCEPT !.key = key, !.due = settled[key],
                                                     !.pc = "call", !.attempt = 1]]
    /\ UNCHANGED <<cache, answers, billed, losses, settled>>

Lookup(c) ==
    /\ chat[c].pc = "idle"
    /\ \E key \in Fingerprints :
         LET begun == [NoChat EXCEPT !.key = key, !.due = settled[key]] IN
         chat' = [chat EXCEPT ![c] =
                    IF cache[key] \in {Nothing, Garbage}
                    THEN [begun EXCEPT !.pc = "call", !.attempt = 1]
                    ELSE [begun EXCEPT !.answer = cache[key]]]
    /\ UNCHANGED <<cache, answers, billed, losses, settled>>

(* litellm.completion returns; two live chats with one fingerprint leave   *)
(* open which answer stays.                                                *)
Answer(c) ==
    /\ chat[c].pc = "call" /\ answers < MaxAnswers
    /\ answers' = answers + 1
    /\ chat' = [chat EXCEPT ![c].pc = "store", ![c].answer = answers + 1]
    /\ UNCHANGED <<cache, billed, losses, settled>>

(* It raises, or what it returned cannot be used, which is the same to the *)
(* caller.  After RetryMax attempts chat raises.                           *)
CallFails(c) ==
    /\ chat[c].pc = "call"
    /\ IF chat[c].attempt < RetryMax
       THEN chat' = [chat EXCEPT ![c].attempt = @ + 1]
       ELSE chat' = [chat EXCEPT ![c] = NoChat]
    /\ UNCHANGED <<cache, answers, billed, losses, settled>>

(* cache.set, which may fail silently, and the record of the cost.         *)
Store(c) ==
    /\ chat[c].pc = "store"
    /\ chat' = [chat EXCEPT ![c].pc = "idle"]
    /\ billed' = billed \cup {chat[c].answer}
    /\ LET key == chat[c].key IN
       \/ /\ cache' = [cache EXCEPT ![key] = chat[c].answer]
          /\ settled' = [settled EXCEPT ![key] =
                           IF Others(c, key) = {} THEN chat[c].answer ELSE Nothing]
       \/ UNCHANGED <<cache, settled>>
    /\ UNCHANGED <<answers, losses>>

(* An entry expires, is evicted, is damaged, or a look at Redis fails: no  *)
(* chat under way has a claim to the old answer any more.                  *)
Lose ==
    /\ losses < MaxLosses /\ losses' = losses + 1
    /\ \E key \in {f \in Fingerprints : cache[f] # Nothing}, left \in {Nothing, Garbage} :
         /\ cache' = [cache EXCEPT ![key] = left]
         /\ settled' = [settled EXCEPT ![key] = Nothing]
         /\ chat' = [d \in Callers |-> IF chat[d].key = key
                                       THEN [chat[d] EXCEPT !.due = Nothing] ELSE chat[d]]
    /\ UNCHANGED <<answers, billed>>

GatewayInit ==
    /\ cache = [f \in Fingerprints |-> Nothing]
    /\ chat = [c \in Callers |-> NoChat]
    /\ answers = 0 /\ billed = {} /\ losses = 0
    /\ settled = [f \in Fingerprints |-> Nothing]

GatewayNext ==
    \/ \E c \in Callers : Lookup(c) \/ Answer(c) \/ CallFails(c) \/ Store(c)
    \/ Lose

GatewaySpec == GatewayInit /\ [][GatewayNext]_gatewayVars

------------------------------------------------------------------------------
(* Who asks the same again gets the same answer, as long as the cache      *)
(* keeps it.  (So a query that fails and is tried again with an unchanged  *)
(* prompt runs the same SQL again: its retries depend on the error being   *)
(* put into the prompt.)                                                   *)
RepeatsItself ==
    \A c \in Callers :
       LET h == chat[c] IN
       h.pc = "idle" /\ h.answer # Nothing /\ h.due # Nothing => h.answer = h.due

==============================================================================
