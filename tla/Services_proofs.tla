---------------------------- MODULE Services_proofs ----------------------------
(***************************************************************************)
(* Proofs about the services around the query graph: the gateway's cache,  *)
(* the tables of the API, the web client's sessions, and the dialogue with *)
(* a user who is asked back.                                               *)
(***************************************************************************)
EXTENDS Gateway, ApiTables, WebSessions, ClarifyDialogue, FiniteSetTheorems, TLAPS

------------------------------------------------------------------------------
(* The gateway.  What is settled is what the cache holds; a chat that      *)
(* missed the cache has no claim to an answer.                             *)

AnyKey == CHOOSE f \in Fingerprints : TRUE

Chats ==
    [pc : {"idle", "call", "store"}, key : {AnyKey} \cup Fingerprints,
     attempt : Nat, answer : Int, due : Int]

ChatSound(h) ==
    /\ h.pc # "idle" => h.key \in Fingerprints
    /\ h.pc = "store" => h.answer > 0
    /\ h.due # Nothing => h.pc = "idle" /\ h.answer = h.due

GatewayInv ==
    /\ cache \in [Fingerprints -> Int] /\ settled \in [Fingerprints -> Nat]
    /\ answers \in Nat
    /\ chat \in [Callers -> Chats]
    /\ \A c \in Callers : ChatSound(chat[c])
    /\ \A f \in Fingerprints : settled[f] # Nothing => cache[f] = settled[f]

LEMMA NoChatType ==
    NoChat \in Chats /\ NoChat.pc = "idle" /\ NoChat.answer = Nothing /\ NoChat.due = Nothing
BY DEF NoChat, Chats, AnyKey, Nothing

LEMMA GatewayInitial == GatewayInit => GatewayInv
BY NoChatType DEF GatewayInit, GatewayInv, ChatSound, Chats, Nothing

LEMMA ChatReplaced ==
    ASSUME GatewayInv, NEW c \in Callers, NEW h \in Chats, ChatSound(h),
           chat' = [chat EXCEPT ![c] = h]
    PROVE  chat' \in [Callers -> Chats] /\ \A d \in Callers : ChatSound(chat'[d])
BY DEF GatewayInv

LEMMA GatewayStep == GatewayInv /\ [GatewayNext]_gatewayVars => GatewayInv'
<1> SUFFICES ASSUME GatewayInv, [GatewayNext]_gatewayVars PROVE GatewayInv'
  OBVIOUS
<1> USE DEF GatewayInv
<1>1. ASSUME NEW c \in Callers, Lookup(c) PROVE GatewayInv'
  <2>1. PICK key \in Fingerprints :
          LET begun == [NoChat EXCEPT !.key = key, !.due = settled[key]]
          IN  chat' = [chat EXCEPT ![c] =
                         IF cache[key] \in {Nothing, Garbage}
                         THEN [begun EXCEPT !.pc = "call", !.attempt = 1]
                         ELSE [begun EXCEPT !.answer = cache[key]]]
    BY <1>1 DEF Lookup
  <2> DEFINE begun == [NoChat EXCEPT !.key = key, !.due = settled[key]]
             h == IF cache[key] \in {Nothing, Garbage}
                  THEN [begun EXCEPT !.pc = "call", !.attempt = 1]
                  ELSE [begun EXCEPT !.answer = cache[key]]
  <2>2. cache[key] \in {Nothing, Garbage} => settled[key] = Nothing
    BY DEF Nothing, Garbage
  <2>3. h \in Chats /\ ChatSound(h)
    <3>1. /\ begun \in Chats /\ begun.pc = "idle" /\ begun.key = key
          /\ begun.due = settled[key] /\ begun.answer = Nothing
      BY NoChatType DEF Chats
    <3> HIDE DEF begun
    <3>2. CASE cache[key] \in {Nothing, Garbage}
      BY <2>2, <3>1, <3>2 DEF Chats, ChatSound, Nothing
    <3>3. CASE cache[key] \notin {Nothing, Garbage}
      BY <3>1, <3>3 DEF Chats, ChatSound, Nothing
    <3> QED BY <3>2, <3>3
  <2>4. chat' = [chat EXCEPT ![c] = h]
    BY <2>1
  <2> HIDE DEF h
  <2> QED BY <1>1, <2>3, <2>4, ChatReplaced DEF Lookup
<1>2. ASSUME NEW c \in Callers, Answer(c) PROVE GatewayInv'
  <2> DEFINE h == [chat[c] EXCEPT !.pc = "store", !.answer = answers + 1]
  <2>1. h \in Chats /\ ChatSound(h)
    <3>1. /\ chat[c] \in Chats /\ chat[c].pc = "call" /\ ChatSound(chat[c])
          /\ answers + 1 \in Int /\ answers + 1 > 0
      BY <1>2 DEF Answer
    <3> HIDE DEF GatewayInv
    <3>2. chat[c].due = Nothing /\ chat[c].key \in Fingerprints
      BY <3>1 DEF ChatSound
    <3>3. /\ h \in Chats /\ h.pc = "store" /\ h.answer = answers + 1
          /\ h.key = chat[c].key /\ h.due = chat[c].due
      BY <3>1 DEF Chats
    <3> HIDE DEF h
    <3> QED BY <3>1, <3>2, <3>3 DEF ChatSound, Nothing
  <2>2. chat' = [chat EXCEPT ![c] = h]
    BY <1>2 DEF Answer, Chats
  <2> HIDE DEF h
  <2> QED BY <1>2, <2>1, <2>2, ChatReplaced DEF Answer
<1>3. ASSUME NEW c \in Callers, CallFails(c) PROVE GatewayInv'
  <2>1. CASE chat[c].attempt < RetryMax
    <3> DEFINE h == [chat[c] EXCEPT !.attempt = @ + 1]
    <3>1. h \in Chats /\ ChatSound(h)
      BY <1>3 DEF CallFails, Chats, ChatSound, Nothing
    <3>2. chat' = [chat EXCEPT ![c] = h]
      BY <1>3, <2>1 DEF CallFails
    <3> HIDE DEF h
    <3> QED BY <1>3, <3>1, <3>2, ChatReplaced DEF CallFails
  <2>2. CASE ~(chat[c].attempt < RetryMax)
    <3>1. chat' = [chat EXCEPT ![c] = NoChat] /\ ChatSound(NoChat)
      BY <1>3, <2>2, NoChatType DEF CallFails, ChatSound, Nothing
    <3> QED BY <1>3, <3>1, NoChatType, ChatReplaced DEF CallFails
  <2> QED BY <2>1, <2>2
<1>4. ASSUME NEW c \in Callers, Store(c) PROVE GatewayInv'
  <2>1. chat[c].key \in Fingerprints /\ chat[c].answer \in Nat
    BY <1>4 DEF Store, Chats, ChatSound
  <2>2. chat'[c] \in Chats /\ ChatSound(chat'[c])
    BY <1>4 DEF Store, Chats, ChatSound
  <2>3. /\ DOMAIN chat' = Callers /\ chat' = [d \in Callers |-> chat'[d]]
        /\ \A d \in Callers \ {c} : chat'[d] = chat[d]
    BY <1>4 DEF Store
  <2>4. /\ cache' \in [Fingerprints -> Int] /\ settled' \in [Fingerprints -> Nat]
        /\ \A f \in Fingerprints : settled'[f] # Nothing => cache'[f] = settled'[f]
    BY <1>4, <2>1 DEF Store, Nothing
  <2> QED BY <1>4, <2>2, <2>3, <2>4 DEF Store
<1>5. CASE Lose
  <2>1. PICK key \in Fingerprints, left \in {Nothing, Garbage} :
          /\ cache' = [cache EXCEPT ![key] = left]
          /\ settled' = [settled EXCEPT ![key] = Nothing]
          /\ chat' = [d \in Callers |-> IF chat[d].key = key
                                        THEN [chat[d] EXCEPT !.due = Nothing] ELSE chat[d]]
    BY <1>5 DEF Lose
  <2>2. \A d \in Callers : chat'[d] \in Chats /\ ChatSound(chat'[d])
    BY <2>1 DEF Chats, ChatSound, Nothing
  <2> QED BY <1>5, <2>1, <2>2 DEF Lose, Nothing, Garbage
<1>6. CASE UNCHANGED gatewayVars
  BY <1>6 DEF gatewayVars
<1> QED BY <1>1, <1>2, <1>3, <1>4, <1>5, <1>6 DEF GatewayNext

(* Who asks the same again gets the same answer as long as the cache keeps *)
(* it, for any number of callers that share the cache.                     *)
THEOREM GatewayRepeats == GatewaySpec => []RepeatsItself
<1>1. GatewayInv => RepeatsItself
  BY DEF GatewayInv, ChatSound, RepeatsItself
<1> QED BY <1>1, GatewayInitial, GatewayStep, PTL DEF GatewaySpec

------------------------------------------------------------------------------
(* The tables.  A handler that is alone at its key finds there what it has *)
(* looked at, and that is what one step would have found.                  *)

RecordType == [text : Int, enabled : BOOLEAN]

CallType ==
    [n : Nat \ {0}, op : {"create", "update", "toggle", "delete", "write"}, key : Keys,
     enabled : BOOLEAN, seen : RecordType]

Busy(k) == \E c \in calls : c.key = k

TablesType ==
    /\ made \in Nat /\ collided \subseteq Keys
    /\ record \in [Keys -> RecordType] /\ expected \in [Keys -> RecordType]
    /\ calls \subseteq CallType
    /\ \A c \in calls : <<c.op, c.key>> \in Operations
    /\ \A k \in Keys : record[k].text = -1 => record[k] = Absent

Alone ==
    \A c \in calls : c.key \notin collided =>
       /\ \A d \in calls : d.key = c.key => d = c
       /\ Accepts(c.op, c.key, c.seen)
       /\ IF c.op = "write" THEN record[c.key] = Torn
          ELSE record[c.key] = c.seen /\ record[c.key] = expected[c.key]

Quiet == \A k \in Keys \ collided : Busy(k) \/ record[k] = expected[k]

(* What a start inserts is not deleted, so that no later start does.       *)
StartedStay == \A k \in Keys \ collided : Started(k) => record[k] # Absent

TablesInv == TablesType /\ Alone /\ Quiet /\ StartedStay

LEMMA TablesInitial == TablesInit => TablesInv
BY DEF TablesInit, TablesInv, TablesType, Alone, Quiet, StartedStay, RecordType, Absent, Default

(* What a handler leaves at a key it is alone at is what one step would    *)
(* have left, and no record that is there loses its text.                  *)
LEMMA ChangeAlone ==
    ASSUME TablesInv, NEW c \in calls, c.key \notin collided
    PROVE  /\ Change(c) = Result(c, expected[c.key])
           /\ Change(c) # record[c.key] \/ c.op # "create"
           /\ Started(c.key) => Change(c) # Absent
<1>1. /\ c.key \in Keys /\ c \in CallType /\ Accepts(c.op, c.key, c.seen)
      /\ <<c.op, c.key>> \in Operations
      /\ record[c.key] \in RecordType
      /\ Started(c.key) => record[c.key] # Absent
  BY DEF TablesInv, TablesType, Alone, StartedStay, CallType
<1>2. CASE c.op = "write"
  <2>1. Change(c) = [text |-> c.n, enabled |-> c.enabled]
    BY <1>2 DEF Change, Result
  <2> QED BY <1>1, <1>2, <2>1 DEF Result, Absent, CallType
<1>3. CASE c.op # "write"
  <2>1. record[c.key] = c.seen /\ record[c.key] = expected[c.key]
    BY <1>3 DEF TablesInv, Alone
  <2>2. CASE c.op = "create"
    <3>1. record[c.key] = Absent
      <4>1. c.key \notin Tenants
        BY <1>1, <2>2, TablesAssumption DEF Operations
      <4> QED BY <1>1, <2>1, <2>2, <4>1 DEF Accepts
    <3>2. Change(c) = Result(c, record[c.key])
      BY <2>2, <3>1 DEF Change
    <3>3. Result(c, record[c.key]) = [text |-> c.n, enabled |-> c.enabled]
      BY <2>2 DEF Result
    <3> QED BY <1>1, <2>1, <3>1, <3>2, <3>3 DEF Absent, CallType
  <2>3. CASE c.op = "delete"
    BY <1>1, <2>1, <2>3, TablesAssumption
    DEF Accepts, Change, Result, Operations, Started
  <2>4. CASE c.op = "toggle"
    <3>1. c.key \in Agents /\ c.key \notin Tenants
      BY <1>1, <2>4, TablesAssumption DEF Operations
    <3>2. record[c.key] # Absent
      BY <1>1, <2>1, <2>4, <3>1 DEF Accepts
    <3>3. Change(c) = [record[c.key] EXCEPT !.enabled = ~c.seen.enabled]
      BY <2>4, <3>2 DEF Change
    <3>4. Result(c, expected[c.key]) = [expected[c.key] EXCEPT !.enabled = ~@]
      BY <2>4 DEF Result
    <3>5. record[c.key].text # -1
      BY <1>1, <3>2 DEF TablesInv, TablesType
    <3>6. Change(c).text # -1
      BY <1>1, <3>3, <3>5 DEF RecordType
    <3>7. Change(c) = Result(c, expected[c.key])
      BY <2>1, <3>3, <3>4, Zenon
    <3> QED BY <2>4, <3>6, <3>7 DEF Absent
  <2>5. CASE c.op = "update"
    BY <1>1, <2>1, <2>5 DEF Accepts, Change, Result, Absent, CallType
  <2> QED BY <1>1, <1>3, <2>2, <2>3, <2>4, <2>5 DEF CallType
<1> QED BY <1>2, <1>3

LEMMA BeginStep == TablesInv /\ Begin => TablesInv'
<1> SUFFICES ASSUME TablesInv, Begin PROVE TablesInv'
  OBVIOUS
<1>1. PICK o \in Operations, enabled \in BOOLEAN :
        LET op == o[1]  k == o[2] IN
        /\ Accepts(op, k, record[k])
        /\ calls' = calls \cup {Call(op, k, enabled)}
        /\ record' = IF op = "write" THEN [record EXCEPT ![k] = Torn] ELSE record
        /\ collided' = collided \cup {d.key : d \in {e \in calls : e.key = k}}
  BY DEF Begin
<1> DEFINE op == o[1]
           k == o[2]
           new == Call(op, k, enabled)
<1>2. /\ Accepts(op, k, record[k])
      /\ calls' = calls \cup {new}
      /\ record' = IF op = "write" THEN [record EXCEPT ![k] = Torn] ELSE record
      /\ collided' = collided \cup {d.key : d \in {e \in calls : e.key = k}}
      /\ made' = made + 1 /\ expected' = expected
  BY <1>1 DEF Begin
<1>3. /\ k \in Keys /\ op \in {"create", "update", "toggle", "delete", "write"}
      /\ <<op, k>> \in Operations
  BY DEF Operations, Keys
<1>4. /\ made \in Nat /\ record \in [Keys -> RecordType] /\ record[k] \in RecordType
      /\ expected \in [Keys -> RecordType]
      /\ calls \subseteq CallType /\ collided \subseteq Keys
  BY <1>3 DEF TablesInv, TablesType
<1>5. /\ new \in CallType /\ new.op = op /\ new.key = k /\ new.seen = record[k]
  BY <1>3, <1>4 DEF Call, CallType
<1> HIDE DEF new, op, k
<1>6. TablesType'
  <2>1. Torn \in RecordType /\ Torn.text # -1
    BY DEF Torn, RecordType
  <2>2. record' \in [Keys -> RecordType]
    BY <1>2, <1>4, <2>1
  <2>3. \A j \in Keys : record'[j].text = -1 => record'[j] = Absent
    BY <1>2, <1>4, <2>1 DEF TablesInv, TablesType
  <2>4. collided' \subseteq Keys
    BY <1>2, <1>3, <1>4
  <2>5. \A c \in calls' : <<c.op, c.key>> \in Operations
    BY <1>2, <1>3, <1>5 DEF TablesInv, TablesType
  <2> QED BY <1>2, <1>4, <1>5, <2>2, <2>3, <2>4, <2>5 DEF TablesType
<1>7. k \notin collided' => k \notin collided /\ ~Busy(k)
  BY <1>2 DEF Busy
<1>8. Alone'
  <2> SUFFICES ASSUME NEW c \in calls', c.key \notin collided'
               PROVE  /\ \A d \in calls' : d.key = c.key => d = c
                      /\ Accepts(c.op, c.key, c.seen)
                      /\ IF c.op = "write" THEN record'[c.key] = Torn
                         ELSE record'[c.key] = c.seen /\ record'[c.key] = expected'[c.key]
    BY DEF Alone, Accepts
  <2>1. CASE c = new
    <3>1. ~Busy(k) /\ record[k] = expected[k]
      BY <1>3, <1>5, <1>7, <2>1 DEF TablesInv, Quiet
    <3>2. \A d \in calls' : d.key = c.key => d = c
      BY <1>2, <1>5, <2>1, <3>1 DEF Busy
    <3> QED BY <1>2, <1>3, <1>4, <1>5, <2>1, <3>1, <3>2
  <2>2. CASE c \in calls
    <3>1. c.key # k /\ c.key \notin collided
      BY <1>2, <1>7, <2>2 DEF Busy
    <3>2. c.key \in Keys
      BY <1>4, <2>2 DEF CallType
    <3>3. record'[c.key] = record[c.key]
      BY <1>2, <1>4, <3>1, <3>2
    <3> QED BY <1>2, <1>5, <2>2, <3>1, <3>3 DEF TablesInv, Alone
  <2> QED BY <1>2, <2>1, <2>2
<1>9. Quiet'
  <2> SUFFICES ASSUME NEW j \in Keys, j \notin collided', ~(\E c \in calls' : c.key = j)
               PROVE  record'[j] = expected'[j]
    BY DEF Quiet, Busy
  <2>1. j # k /\ ~Busy(j) /\ j \notin collided
    BY <1>2, <1>5 DEF Busy
  <2> QED BY <1>2, <1>4, <2>1 DEF TablesInv, Quiet
<1>10. StartedStay'
  BY <1>2, <1>4 DEF TablesInv, StartedStay, Started, Torn, Absent
<1> QED BY <1>6, <1>8, <1>9, <1>10 DEF TablesInv

LEMMA FinishStep == TablesInv /\ Finish => TablesInv'
<1> SUFFICES ASSUME TablesInv, Finish PROVE TablesInv'
  OBVIOUS
<1>1. PICK c \in calls :
        /\ calls' = calls \ {c}
        /\ record' = [record EXCEPT ![c.key] = Change(c)]
        /\ expected' = IF Change(c) # record[c.key] \/ c.op # "create"
                       THEN [expected EXCEPT ![c.key] = Result(c, @)]
                       ELSE expected
        /\ UNCHANGED <<made, restarts, collided>>
  BY DEF Finish
<1>2. /\ c \in CallType /\ c.key \in Keys
      /\ record \in [Keys -> RecordType] /\ expected \in [Keys -> RecordType]
      /\ record[c.key] \in RecordType /\ expected[c.key] \in RecordType
      /\ record[c.key].text = -1 => record[c.key] = Absent
  BY DEF TablesInv, TablesType, CallType
<1>3. \A r \in RecordType : Result(c, r) \in RecordType
  <2> TAKE r \in RecordType
  <2>1. CASE c.op = "delete"
    BY <2>1 DEF Result, RecordType, Absent
  <2>2. CASE c.op = "toggle"
    <3>1. Result(c, r) = [r EXCEPT !.enabled = ~@]
      BY <2>2 DEF Result
    <3> QED BY <3>1 DEF RecordType
  <2>3. CASE c.op \notin {"delete", "toggle"}
    <3>1. Result(c, r) = [text |-> c.n, enabled |-> c.enabled]
      BY <2>3 DEF Result
    <3> QED BY <1>2, <3>1 DEF RecordType, CallType
  <2> QED BY <2>1, <2>2, <2>3
<1>4. Change(c) \in RecordType /\ (Change(c).text = -1 => Change(c) = Absent)
  <2>1. CASE Change(c) = record[c.key]
    BY <1>2, <2>1
  <2>2. CASE Change(c) # record[c.key] /\ c.op = "toggle"
    <3>1. c.key \notin Tenants
      BY <2>2, TablesAssumption DEF TablesInv, TablesType, Operations
    <3>2. record[c.key] # Absent /\ Change(c) = [record[c.key] EXCEPT !.enabled = ~c.seen.enabled]
      BY <2>2, <3>1 DEF Change
    <3>3. c.seen.enabled \in BOOLEAN
      BY <1>2 DEF CallType, RecordType
    <3> QED BY <1>2, <3>2, <3>3 DEF RecordType
  <2>3. CASE Change(c) # record[c.key] /\ c.op # "toggle"
    <3>1. Change(c) = Result(c, record[c.key])
      BY <2>3 DEF Change
    <3>2. Result(c, record[c.key]) = Absent
          \/ Result(c, record[c.key]) = [text |-> c.n, enabled |-> c.enabled]
      BY <2>3 DEF Result
    <3> QED BY <1>2, <1>3, <3>1, <3>2 DEF CallType
  <2> QED BY <2>1, <2>2, <2>3
<1>5. TablesType'
  BY <1>1, <1>2, <1>3, <1>4 DEF TablesInv, TablesType
<1>6. \A k \in Keys \ {c.key} : record'[k] = record[k] /\ expected'[k] = expected[k]
  BY <1>1, <1>2
<1>7. c.key \notin collided =>
        /\ record'[c.key] = expected'[c.key]
        /\ Started(c.key) => record'[c.key] # Absent
        /\ \A d \in calls' : d.key # c.key
  BY <1>1, <1>2, ChangeAlone DEF TablesInv, Alone
<1>8. Alone'
  <2> SUFFICES ASSUME NEW d \in calls', d.key \notin collided
               PROVE  /\ \A e \in calls' : e.key = d.key => e = d
                      /\ Accepts(d.op, d.key, d.seen)
                      /\ IF d.op = "write" THEN record'[d.key] = Torn
                         ELSE record'[d.key] = d.seen /\ record'[d.key] = expected'[d.key]
    BY <1>1 DEF Alone, Accepts
  <2>1. d \in calls /\ d.key \in Keys
    BY <1>1 DEF TablesInv, TablesType, CallType
  <2>2. d.key # c.key
    BY <1>7
  <2> QED BY <1>1, <1>6, <2>1, <2>2 DEF TablesInv, Alone
<1>9. Quiet'
  <2> SUFFICES ASSUME NEW k \in Keys, k \notin collided, ~(\E d \in calls' : d.key = k)
               PROVE  record'[k] = expected'[k]
    BY <1>1 DEF Quiet, Busy
  <2>1. CASE k = c.key
    BY <1>7, <2>1
  <2>2. CASE k # c.key
    BY <1>1, <1>6, <2>2 DEF TablesInv, Quiet, Busy
  <2> QED BY <2>1, <2>2
<1>10. StartedStay'
  BY <1>1, <1>6, <1>7 DEF TablesInv, StartedStay, Started
<1> QED BY <1>5, <1>8, <1>9, <1>10 DEF TablesInv

LEMMA RestartStep == TablesInv /\ Restart => TablesInv'
<1> SUFFICES ASSUME TablesInv, Restart PROVE TablesInv'
  OBVIOUS
<1>1. /\ calls' = {} /\ made' = made /\ expected' = expected
      /\ record' = [k \in Keys |->
                      IF Started(k) /\ record[k] = Absent THEN Default ELSE record[k]]
      /\ collided' = collided \cup {c.key : c \in {d \in calls : d.op = "write"}}
  BY DEF Restart
<1>2. TablesType'
  BY <1>1 DEF TablesInv, TablesType, CallType, RecordType, Default
<1>3. \A k \in Keys \ collided : record'[k] = record[k]
  BY <1>1 DEF TablesInv, StartedStay
<1>4. Quiet'
  <2> SUFFICES ASSUME NEW k \in Keys, k \notin collided' PROVE record'[k] = expected'[k]
    BY DEF Quiet
  <2>1. k \notin collided /\ \A c \in calls : c.key = k => c.op # "write"
    BY <1>1
  <2>2. record[k] = expected[k]
    BY <2>1 DEF TablesInv, Quiet, Busy, Alone
  <2> QED BY <1>1, <1>3, <2>1, <2>2
<1>5. Alone'
  BY <1>1 DEF Alone
<1>6. StartedStay'
  BY <1>1, <1>3 DEF TablesInv, StartedStay, Started
<1> QED BY <1>2, <1>4, <1>5, <1>6 DEF TablesInv

(* A record is what its confirmed calls make of it one after the other,    *)
(* unless two handlers were at it at once or its writing was cut off.      *)
THEOREM TablesSerial == TablesSpec => []AloneIsSerial
<1>1. TablesInv => AloneIsSerial
  BY DEF TablesInv, Quiet, Alone, Busy, AloneIsSerial
<1>2. TablesInv /\ UNCHANGED tablesVars => TablesInv'
  BY DEF tablesVars, TablesInv, TablesType, Alone, Quiet, StartedStay, Busy, Started, Accepts
<1>3. TablesInv /\ [TablesNext]_tablesVars => TablesInv'
  BY <1>2, BeginStep, FinishStep, RestartStep DEF TablesNext
<1> QED BY <1>1, <1>3, TablesInitial, PTL DEF TablesSpec

------------------------------------------------------------------------------
(* The web client.  First the bookkeeping: every question draws one id at  *)
(* most, so that the page never runs out of ids, and a question has one    *)
(* task at a time.                                                         *)

Message ==
    [n : Nat \ {0}, by : Users \cup {None}, asked : Nat \cup {None}, moved : BOOLEAN]

Session == [tenant : Users \cup {None}, messages : Seq(Message)]

Task ==
    [kind : {"query", "put", "post", "posted", "load", "write"}, n : Nat,
     via : {"send", "rerun"}, by : Users \cup {None}, asked : Nat \cup {None},
     moved : BOOLEAN, clarify : BOOLEAN, id : Nat \cup {None}, read : Seq(Message)]

Drawn == 1..drawn

Pending == {t.n : t \in {u \in tasks : u.kind = "query"}}

WebType ==
    /\ table \in [Ids -> Session]
    /\ user \in Users \cup {None} /\ current \in Drawn \cup {None}
    /\ tasks \subseteq Task /\ saved \subseteq Drawn \X (1..questions)
    /\ crossed \subseteq Drawn
    /\ questions \in 0..MaxQuestions /\ drawn \in Nat
    /\ Cardinality(Pending) + drawn <= questions

Numbered ==
    /\ \A t \in tasks : IF t.kind = "load" THEN t.n = 0 ELSE t.n \in 1..questions
    /\ \A t, u \in tasks : t.n = u.n => t = u \/ t.kind = "load"

(* A request names a session whose id has been drawn; a message is put     *)
(* where the page is, which may be nowhere.                                *)
HasSession(t) ==
    /\ t.kind \in {"load", "post", "write"} => t.id \in Drawn
    /\ t.kind = "put" => t.id \in Drawn \cup {None}

Placed == \A t \in tasks : HasSession(t)

RowSound(id) ==
    /\ table[id] # NoRow => id <= drawn
    /\ table[id].tenant = None => table[id] = NoRow

Book == WebType /\ Numbered /\ Placed /\ \A id \in Ids : RowSound(id)

(* Where a message may be: sent with the token of the session's tenant,    *)
(* and in the session it was asked in unless the user has moved.           *)
Belongs(m, tenant, id) == m.by = tenant /\ (m.moved \/ m.asked \in {id, None})

(* The session a task is for.                                              *)
TaskFiled(t) ==
    /\ t.kind = "query" => t.moved \/ t.asked \in {current, None}
    /\ t.kind \in {"post", "posted"} => t.moved \/ t.asked = None
    /\ t.kind \in {"put", "write"} => t.moved \/ t.asked \in {t.id, None}
    /\ t.kind = "write" => \A i \in DOMAIN t.read : Belongs(t.read[i], t.by, t.id)

Filed ==
    /\ \A t \in tasks : TaskFiled(t)
    /\ \A id \in Ids : \A i \in DOMAIN table[id].messages :
          Belongs(table[id].messages[i], table[id].tenant, id)

(* A session is created once: none is there while it is being created, and *)
(* nothing is written to it before.                                        *)
CreatedOnce ==
    \A p \in tasks : p.kind = "post" =>
       /\ table[p.id] = NoRow
       /\ \A t \in tasks : t.kind \in {"post", "write"} /\ t.id = p.id => t = p
       /\ \A s \in saved : s[1] # p.id

(* The number of a question is nowhere yet while the question is underway. *)
NotYetThere ==
    \A t \in tasks :
       /\ \A id \in Ids : \A i \in DOMAIN table[id].messages : table[id].messages[i].n # t.n
       /\ \A w \in tasks : w.kind = "write" => \A i \in DOMAIN w.read : w.read[i].n # t.n
       /\ \A s \in saved : s[2] # t.n

Asked ==
    /\ \A id \in Ids : \A i \in DOMAIN table[id].messages : table[id].messages[i].n <= questions
    /\ \A w \in tasks : w.kind = "write" => \A i \in DOMAIN w.read : w.read[i].n <= questions

(* An append that is alone at its session writes what the session holds.   *)
AloneAppends ==
    \A w \in tasks : w.kind = "write" =>
       /\ w.by # None
       /\ table[w.id] = NoRow \/ table[w.id].tenant = w.by
       /\ w.id \notin crossed =>
             /\ table[w.id] = NoRow \/ w.read = table[w.id].messages
             /\ \A x \in tasks : x.kind = "write" /\ x.id = w.id => x = w

Once(messages, n) ==
    \E i \in DOMAIN messages :
       messages[i].n = n /\ \A j \in DOMAIN messages : messages[j].n = n => j = i

Kept ==
    \A s \in saved :
       table[s[1]] = NoRow \/ s[1] \in crossed \/ Once(table[s[1]].messages, s[2])

KeepInv == CreatedOnce /\ NotYetThere /\ Asked /\ AloneAppends /\ Kept

LEMMA DrawnIds ==
    ASSUME Book
    PROVE  /\ Drawn \subseteq Ids /\ None \notin Nat
           /\ Pending \subseteq 1..questions /\ IsFiniteSet(Pending)
           /\ Cardinality(Pending) \in Nat
<1>1. Pending \subseteq 1..questions
  BY DEF Book, Numbered, Pending
<1>2. IsFiniteSet(1..questions)
  BY FS_Interval DEF Book, WebType
<1>3. IsFiniteSet(Pending)
  BY <1>1, <1>2, FS_Subset
<1>4. Cardinality(Pending) \in Nat
  BY <1>3, FS_CardinalityType
<1> QED BY <1>1, <1>3, <1>4, WebAssumption DEF Book, WebType, Drawn, Ids

LEMMA BookParts ==
    ASSUME Book
    PROVE  /\ table \in [Ids -> Session] /\ user \in Users \cup {None}
           /\ current \in Drawn \cup {None} /\ tasks \subseteq Task
           /\ saved \subseteq Drawn \X (1..questions) /\ crossed \subseteq Drawn
           /\ questions \in 0..MaxQuestions /\ drawn \in Nat
           /\ Cardinality(Pending) + drawn <= questions
           /\ Numbered /\ Placed /\ \A id \in Ids : RowSound(id)
BY DEF Book, WebType

(* What a task that goes on may become.                                    *)
Later(t, u) ==
    u \in Task /\ u.n = t.n /\ u.kind \notin {"query", "load"} /\ HasSession(u)

LEMMA PutLater == ASSUME Book, NEW t \in tasks PROVE Later(t, Put(t))
<1>1. t \in Task /\ current \in Nat \cup {None} /\ user \in Users \cup {None}
  BY DEF Book, WebType, Drawn
<1>2. Put(t) \in Task /\ Put(t).n = t.n /\ Put(t).kind = "put" /\ Put(t).id = current
  BY <1>1 DEF Put, Task
<1> QED BY <1>2, BookParts DEF Later, HasSession

LEMMA PostedLater ==
    ASSUME Book, NEW t \in tasks PROVE Later(t, [t EXCEPT !.kind = "posted"])
<1>1. t \in Task
  BY BookParts
<1>2. /\ [t EXCEPT !.kind = "posted"] \in Task /\ [t EXCEPT !.kind = "posted"].n = t.n
      /\ [t EXCEPT !.kind = "posted"].kind = "posted"
  BY <1>1 DEF Task
<1> QED BY <1>2 DEF Later, HasSession

LEMMA WriteLater ==
    ASSUME Book, NEW t \in tasks, NEW r \in Seq(Message), t.id \in Drawn
    PROVE  Later(t, [t EXCEPT !.kind = "write", !.read = r])
<1> DEFINE u == [t EXCEPT !.kind = "write", !.read = r]
<1>1. t \in Task
  BY BookParts
<1>2. u \in Task /\ u.n = t.n /\ u.kind = "write" /\ u.id = t.id
  BY <1>1 DEF Task
<1> QED BY <1>2 DEF Later, HasSession

LEMMA MessageType ==
    ASSUME Book, NEW t \in tasks, t.kind # "load"
    PROVE  /\ MessageOf(t) \in Message
           /\ MessageOf(t).n = t.n /\ MessageOf(t).by = t.by
           /\ MessageOf(t).asked = t.asked /\ MessageOf(t).moved = t.moved
<1>1. t \in Task /\ t.n \in Nat \ {0}
  BY BookParts DEF Numbered
<1> QED BY <1>1 DEF MessageOf, Task, Message

(* A task goes on as another of the same question, or is done.             *)
LEMMA TaskGoesOn ==
    ASSUME Book, NEW t \in tasks, t.kind # "load", NEW us,
           (\A u \in us : Later(t, u))', \A u, v \in us : u = v,
           tasks' = (tasks \ {t}) \cup us, questions' = questions, Drawn \subseteq Drawn'
    PROVE  /\ tasks' \subseteq Task /\ Numbered' /\ Placed'
           /\ t.kind # "query" => Pending' = Pending
           /\ t.kind = "query" =>
                 Cardinality(Pending') = Cardinality(Pending) - 1
<1>1. t.n \in 1..questions /\ Numbered /\ tasks \subseteq Task /\ Placed
  BY BookParts DEF Numbered
<1>2. \A x \in tasks' : (x \in tasks /\ x # t) \/ x \in us
  OBVIOUS
<1>3. \A u \in us : /\ u \in Task /\ u.n = t.n /\ u.kind \notin {"query", "load"}
                    /\ HasSession(u)'
  BY DEF Later
<1>4. tasks' \subseteq Task
  BY <1>1, <1>3
<1>5. Numbered'
  <2>1. \A x \in tasks' : IF x.kind = "load" THEN x.n = 0 ELSE x.n \in 1..questions'
    BY <1>1, <1>2, <1>3 DEF Numbered
  <2>2. ASSUME NEW x \in tasks', NEW y \in tasks', x.n = y.n, x.kind # "load"
        PROVE  x = y
    BY <1>1, <1>2, <1>3, <2>2 DEF Numbered
  <2>3. ASSUME NEW x \in tasks', NEW y \in tasks', x.n = y.n
        PROVE  x = y \/ x.kind = "load"
    BY <2>2, <2>3
  <2> QED BY <2>1, <2>3 DEF Numbered
<1>6. Placed'
  <2> SUFFICES ASSUME NEW x \in tasks' PROVE HasSession(x)'
    BY DEF Placed
  <2>1. CASE x \in tasks
    BY <1>1, <2>1 DEF Placed, HasSession
  <2>2. CASE x \in us
    BY <1>3, <2>2
  <2> QED BY <1>2, <2>1, <2>2
<1>7. CASE t.kind # "query"
  <2>1. \A x : x \in tasks /\ x.kind = "query" <=> x \in tasks' /\ x.kind = "query"
    BY <1>3, <1>7
  <2>2. Pending' = Pending
    BY <2>1 DEF Pending
  <2> QED BY <1>4, <1>5, <1>6, <1>7, <2>2
<1>8. CASE t.kind = "query"
  <2>1. \A x : x \in tasks' /\ x.kind = "query" <=> x \in tasks /\ x.kind = "query" /\ x # t
    BY <1>3
  <2>2. Pending' = Pending \ {t.n} /\ t.n \in Pending
    BY <1>1, <1>8, <2>1 DEF Pending, Numbered
  <2>3. Cardinality(Pending \ {t.n}) = Cardinality(Pending) - 1
    BY <2>2, DrawnIds, FS_RemoveElement
  <2> QED BY <1>4, <1>5, <1>6, <1>8, <2>2, <2>3
<1> QED BY <1>7, <1>8

LEMMA OpeningType ==
    ASSUME Book, NEW id \in Ids, NEW u \in Users
    PROVE  /\ [Opening(id) EXCEPT !.by = u] \in Task
           /\ [Opening(id) EXCEPT !.by = u].kind = "load"
           /\ [Opening(id) EXCEPT !.by = u].n = 0
           /\ [Opening(id) EXCEPT !.by = u].id = id
           /\ user \in Users => [Opening(id) EXCEPT !.by = user] = Opening(id)
<1>1. id \in Nat /\ user \in Users \cup {None} /\ <<>> \in Seq(Message)
  BY BookParts DEF Ids
<1>2. PICK o : o = Opening(id)
  OBVIOUS
<1>3. o \in Task /\ o.kind = "load" /\ o.n = 0 /\ o.id = id /\ o.by = user
  BY <1>1, <1>2 DEF Opening, Task
<1>4. /\ [o EXCEPT !.by = u] \in Task /\ [o EXCEPT !.by = u].kind = "load"
      /\ [o EXCEPT !.by = u].n = 0 /\ [o EXCEPT !.by = u].id = id
  BY <1>3 DEF Task
<1>5. [o EXCEPT !.by = user] = o
  BY <1>3 DEF Task
<1> QED BY <1>2, <1>4, <1>5

(* A question notices that the user has moved; a session may be opened.    *)
LEMMA UserMoves ==
    ASSUME Book, NEW ts \in SUBSET tasks, \A t \in tasks \ ts : t.kind = "load",
           NEW os \in SUBSET Task,
           \A o \in os : o.kind = "load" /\ o.n = 0 /\ o.id \in Drawn,
           tasks' = Moved(ts) \cup os, questions' = questions, drawn' = drawn
    PROVE  tasks' \subseteq Task /\ Numbered' /\ Placed' /\ Pending' = Pending
<1> DEFINE m(t) == [t EXCEPT !.moved = TRUE]
<1>1. \A t \in ts : /\ m(t) \in Task /\ m(t).n = t.n /\ m(t).kind = t.kind
                    /\ m(t).id = t.id
  <2> TAKE t \in ts
  <2>1. t \in Task
    BY BookParts
  <2> QED BY <2>1 DEF Task
<1>2. tasks' = {m(t) : t \in ts} \cup os
  BY DEF Moved
<1> HIDE DEF m
<1>3. tasks' \subseteq Task
  BY <1>1, <1>2
<1>4. Numbered'
  <2>1. \A t \in tasks' : IF t.kind = "load" THEN t.n = 0 ELSE t.n \in 1..questions'
    BY <1>1, <1>2, BookParts DEF Numbered
  <2>2. ASSUME NEW t \in tasks', NEW u \in tasks', t.n = u.n, t.kind # "load"
        PROVE  t = u
    <3>1. t.n # 0 /\ u.n # 0
      BY <2>1, <2>2, BookParts
    <3>2. PICK x \in ts, y \in ts : t = m(x) /\ u = m(y)
      BY <1>2, <3>1
    <3>3. x = y
      BY <1>1, <2>2, <3>2, BookParts DEF Numbered
    <3> QED BY <3>2, <3>3
  <2> QED BY <2>1, <2>2 DEF Numbered
<1>5. Placed'
  BY <1>1, <1>2, BookParts DEF Placed, HasSession, Drawn
<1>6. Pending' = Pending
  <2>1. Pending' \subseteq Pending
    BY <1>1, <1>2 DEF Pending
  <2>2. Pending \subseteq Pending'
    BY <1>1, <1>2 DEF Pending
  <2> QED BY <2>1, <2>2
<1> QED BY <1>3, <1>4, <1>5, <1>6

LEMMA BookInit == WebInit => Book
<1> SUFFICES ASSUME WebInit PROVE Book
  OBVIOUS
<1>1. Pending = {}
  BY DEF WebInit, Pending
<1>2. Cardinality({}) = 0
  BY FS_EmptySet
<1> QED
  BY <1>1, <1>2, WebAssumption
  DEF WebInit, Book, WebType, Numbered, Placed, RowSound, Session, NoRow, Drawn, Ids

(* A question becomes a message for the current session, or begins one.    *)
LEMMA FileBook ==
    ASSUME Book, NEW t \in tasks, t.kind = "query", NEW asks \in BOOLEAN, File(t, asks),
           UNCHANGED <<table, user, questions, saved, crossed>>
    PROVE  Book'
<1> USE BookParts
<1>1. CASE /\ current # None
           /\ tasks' = Swap(t, {Put(t)})
           /\ UNCHANGED <<current, drawn>>
  <2>1. PICK us : us = {Put(t)}
    OBVIOUS
  <2>2. /\ (\A u \in us : Later(t, u))' /\ \A u, v \in us : u = v
    BY <1>1, <2>1, PutLater DEF Later, HasSession, Drawn
  <2>3. tasks' = (tasks \ {t}) \cup us /\ Drawn \subseteq Drawn'
    BY <1>1, <2>1 DEF Swap, Drawn
  <2>4. /\ tasks' \subseteq Task /\ Numbered' /\ Placed'
        /\ Cardinality(Pending') = Cardinality(Pending) - 1
    BY <2>2, <2>3, TaskGoesOn
  <2>5. Cardinality(Pending') + drawn' <= questions'
    BY <1>1, <2>4, DrawnIds
  <2>6. WebType' /\ (\A id \in Ids : RowSound(id))'
    BY <1>1, <2>4, <2>5 DEF WebType, RowSound, Drawn
  <2> QED BY <2>4, <2>6 DEF Book
<1>2. CASE /\ drawn' = drawn + 1 /\ current' = drawn'
           /\ tasks' = Swap(t, {Post(t, drawn', asks)})
  <2>1. drawn' \in Nat /\ Drawn \subseteq Drawn' /\ drawn' \in Drawn'
    BY <1>2 DEF Drawn
  <2>2. PICK us : us = {Post(t, drawn', asks)}
    OBVIOUS
  <2>3. /\ (\A u \in us : Later(t, u))' /\ \A u, v \in us : u = v
    <3>1. PICK u : u = Post(t, drawn', asks)
      OBVIOUS
    <3>2. /\ u \in Task /\ u.n = t.n /\ u.kind = "post" /\ u.id = drawn'
      BY <2>1, <3>1 DEF Post, Task
    <3> QED BY <2>1, <2>2, <3>1, <3>2 DEF Later, HasSession
  <2>4. tasks' = (tasks \ {t}) \cup us /\ Drawn \subseteq Drawn'
    BY <1>2, <2>1, <2>2 DEF Swap
  <2>5. /\ tasks' \subseteq Task /\ Numbered' /\ Placed'
        /\ Cardinality(Pending') = Cardinality(Pending) - 1
    BY <2>3, <2>4, TaskGoesOn
  <2>6. (\A id \in Ids : RowSound(id))'
    <3>1. \A id \in Ids : id \in Int
      BY WebAssumption DEF Ids
    <3> QED BY <1>2, <2>1, <3>1 DEF RowSound
  <2>7. Cardinality(Pending') + drawn' <= questions'
    BY <1>2, <2>5, DrawnIds
  <2>8. WebType'
    BY <1>2, <2>1, <2>5, <2>7 DEF WebType
  <2> QED BY <2>5, <2>6, <2>8 DEF Book
<1> QED BY <1>1, <1>2 DEF File

LEMMA BookStep == Book /\ [WebNext]_webVars => Book'
<1> SUFFICES ASSUME Book, [WebNext]_webVars PROVE Book'
  OBVIOUS
<1> USE DrawnIds, BookParts
<1>a. ASSUME /\ tasks' \subseteq Task /\ Numbered' /\ Placed' /\ Pending' = Pending
             /\ UNCHANGED <<questions, drawn>>
             /\ table' \in [Ids -> Session] /\ (\A id \in Ids : RowSound(id))'
             /\ user' \in Users \cup {None} /\ current' \in Drawn \cup {None}
             /\ crossed' \subseteq Drawn /\ saved' \subseteq Drawn \X (1..questions)
      PROVE  Book'
  BY <1>a DEF Book, WebType, Drawn
<1>b. ASSUME UNCHANGED <<table, drawn>>
      PROVE  table' \in [Ids -> Session] /\ (\A id \in Ids : RowSound(id))'
  BY <1>b DEF RowSound
<1>c. ASSUME NEW t \in tasks, t.kind \notin {"load", "query"}, NEW u, Later(t, u),
             tasks' \in {Swap(t, {u}), tasks \ {t}}, UNCHANGED <<questions, drawn>>
      PROVE  tasks' \subseteq Task /\ Numbered' /\ Placed' /\ Pending' = Pending
  <2>1. PICK us : us \in SUBSET {u} /\ tasks' = (tasks \ {t}) \cup us
    <3>1. tasks \ {t} = (tasks \ {t}) \cup {}
      OBVIOUS
    <3> QED BY <1>c, <3>1 DEF Swap
  <2>2. /\ (\A v \in us : Later(t, v))' /\ \A v, w \in us : v = w
    BY <1>c, <2>1 DEF Later, HasSession, Drawn
  <2>3. tasks' = (tasks \ {t}) \cup us /\ Drawn \subseteq Drawn'
    BY <1>c, <2>1 DEF Drawn
  <2>4. questions' = questions /\ t.kind # "load" /\ t.kind # "query"
    BY <1>c
  <2> QED BY <2>2, <2>3, <2>4, TaskGoesOn
<1>1. ASSUME Ask \/ Rerun PROVE Book'
  <2>1. PICK via \in {"send", "rerun"} : tasks' = tasks \cup {Question(via)}
    BY <1>1 DEF Ask, Rerun
  <2>2. /\ questions' = questions + 1 /\ questions' \in 1..MaxQuestions
        /\ UNCHANGED <<table, user, current, drawn, saved, crossed>>
    BY <1>1, WebAssumption DEF Ask, Rerun
  <2>3. PICK q : q = Question(via)
    OBVIOUS
  <2>4. q \in Task /\ q.n = questions + 1 /\ q.kind = "query"
    BY <2>3 DEF Question, Task, Drawn
  <2>5. tasks' = tasks \cup {q}
    BY <2>1, <2>3
  <2>6. tasks' \subseteq Task /\ Numbered' /\ Placed'
    <3>1. \A t \in tasks : t.n # q.n
      BY <2>4 DEF Numbered
    <3>2. \A t \in tasks' : IF t.kind = "load" THEN t.n = 0 ELSE t.n \in 1..questions'
      BY <2>2, <2>4, <2>5 DEF Numbered
    <3>3. \A t, u \in tasks' : t.n = u.n => t = u \/ t.kind = "load"
      BY <2>5, <3>1 DEF Numbered
    <3> QED BY <2>2, <2>4, <2>5, <3>2, <3>3 DEF Numbered, Placed, HasSession, Drawn
  <2>7. Cardinality(Pending') + drawn' <= questions'
    <3>1. Pending' = Pending \cup {q.n}
      BY <2>4, <2>5 DEF Pending
    <3>2. /\ IsFiniteSet(Pending \cup {q.n})
          /\ Cardinality(Pending \cup {q.n})
               = IF q.n \in Pending THEN Cardinality(Pending) ELSE Cardinality(Pending) + 1
      BY FS_AddElement
    <3> QED BY <2>2, <3>1, <3>2
  <2>8. saved' \subseteq Drawn' \X (1..questions')
    BY <2>2 DEF Drawn
  <2> QED BY <2>2, <2>6, <2>7, <2>8 DEF Book, WebType, RowSound, Drawn
<1>2. ASSUME NEW t \in tasks, Answered(t) \/ Failed(t) PROVE Book'
  <2>1. /\ t.kind = "query"
        /\ UNCHANGED <<table, user, questions, saved, crossed>>
    BY <1>2 DEF Answered, Failed
  <2>2. CASE \E asks \in BOOLEAN : File(t, asks)
    BY <2>1, <2>2, FileBook
  <2>3. CASE tasks' = tasks \ {t} /\ UNCHANGED <<current, drawn>>
    <3>1. PICK us : us = {}
      OBVIOUS
    <3>2. /\ (\A u \in us : Later(t, u))' /\ \A u, v \in us : u = v
          /\ tasks' = (tasks \ {t}) \cup us /\ Drawn \subseteq Drawn'
      BY <2>3, <3>1 DEF Drawn
    <3>3. /\ tasks' \subseteq Task /\ Numbered' /\ Placed'
          /\ Cardinality(Pending') = Cardinality(Pending) - 1
      BY <2>1, <3>2, TaskGoesOn
    <3>4. Cardinality(Pending') + drawn' <= questions'
      BY <2>1, <2>3, <3>3
    <3> QED BY <2>1, <2>3, <3>3, <3>4 DEF Book, WebType, RowSound, Drawn
  <2> QED BY <1>2, <2>2, <2>3 DEF Answered, Failed
<1>3. ASSUME NEW t \in tasks, Created(t) PROVE Book'
  <2>1. tasks' \in {Swap(t, {Put(t)}), tasks \ {t}}
    BY <1>3 DEF Created, Swap
  <2>2. tasks' \subseteq Task /\ Numbered' /\ Placed' /\ Pending' = Pending
    BY <1>3, <1>c, <2>1, PutLater DEF Created
  <2> QED BY <1>3, <1>a, <1>b, <2>2 DEF Created
<1>4. ASSUME NEW t \in tasks, Loaded(t) PROVE Book'
  <2>1. t.id \in Drawn
    BY <1>4 DEF Loaded, Placed, HasSession
  <2>2. PICK ts, os : ts = tasks \ {t} /\ os = {}
    OBVIOUS
  <2>3. tasks' \subseteq Task /\ Numbered' /\ Placed' /\ Pending' = Pending
    <3>1. /\ ts \in SUBSET tasks /\ \A x \in tasks \ ts : x.kind = "load"
          /\ os \in SUBSET Task /\ \A o \in os : o.kind = "load" /\ o.n = 0 /\ o.id \in Drawn
          /\ tasks' = Moved(ts) \cup os
      BY <1>4, <2>2 DEF Loaded
    <3> QED BY <1>4, <3>1, UserMoves DEF Loaded
  <2> QED BY <1>4, <1>a, <1>b, <2>1, <2>3 DEF Loaded
<1>5. ASSUME NEW t \in tasks, PostArrives(t) \/ PostLost(t) PROVE Book'
  <2>1. PICK u : u = [t EXCEPT !.kind = "posted"]
    OBVIOUS
  <2>2. /\ tasks' = Swap(t, {u}) /\ t.kind = "post"
        /\ UNCHANGED <<user, current, questions, drawn, saved, crossed>>
    BY <1>5, <2>1 DEF PostArrives, PostLost
  <2>3. tasks' \subseteq Task /\ Numbered' /\ Placed' /\ Pending' = Pending
    BY <1>c, <2>1, <2>2, PostedLater
  <2>4. table' \in [Ids -> Session] /\ (\A id \in Ids : RowSound(id))'
    <3>1. t.id \in Drawn /\ t.by \in Users \cup {None}
      BY <2>2 DEF Placed, HasSession, Task
    <3>2. CASE UNCHANGED table
      BY <1>b, <2>2, <3>2
    <3>3. CASE t.by # None /\ table' = [table EXCEPT ![t.id] = Row(t.by, <<>>)]
      <4>1. Row(t.by, <<>>) \in Session /\ Row(t.by, <<>>).tenant # None /\ t.id <= drawn
        BY <3>1, <3>3 DEF Row, Session, Drawn
      <4> QED BY <2>2, <3>1, <3>3, <4>1 DEF RowSound
    <3> QED BY <1>5, <3>2, <3>3 DEF PostArrives, PostLost
  <2> QED BY <1>a, <2>2, <2>3, <2>4
<1>6. ASSUME NEW t \in tasks, AppendReads(t) PROVE Book'
  <2>1. t.kind = "put" /\ Own(t)
    BY <1>6 DEF AppendReads
  <2>2. t.id \in Drawn /\ table[t.id].messages \in Seq(Message)
    BY <2>1 DEF Own, Placed, HasSession, Session
  <2>3. PICK u : u = [t EXCEPT !.kind = "write", !.read = table[t.id].messages]
    OBVIOUS
  <2>4. Later(t, u) /\ tasks' = Swap(t, {u})
    BY <1>6, <2>2, <2>3, WriteLater DEF AppendReads
  <2>5. tasks' \subseteq Task /\ Numbered' /\ Placed' /\ Pending' = Pending
    BY <1>6, <1>c, <2>1, <2>4 DEF AppendReads
  <2>6. crossed' \subseteq Drawn
    BY <1>6, <2>2 DEF AppendReads
  <2> QED BY <1>6, <1>a, <1>b, <2>5, <2>6 DEF AppendReads
<1>7. ASSUME NEW t \in tasks, AppendRefused(t) \/ PutLost(t) PROVE Book'
  <2>1. tasks' \subseteq Task /\ Numbered' /\ Placed' /\ Pending' = Pending
    BY <1>7, <1>c, PutLater DEF AppendRefused, PutLost
  <2> QED BY <1>7, <1>a, <1>b, <2>1 DEF AppendRefused, PutLost
<1>8. ASSUME NEW t \in tasks, AppendWrites(t) PROVE Book'
  <2>1. tasks' \subseteq Task /\ Numbered' /\ Placed' /\ Pending' = Pending
    BY <1>8, <1>c, PutLater DEF AppendWrites
  <2>2. t.id \in Drawn /\ t.n \in 1..questions /\ t.read \in Seq(Message)
    BY <1>8 DEF AppendWrites, Placed, HasSession, Numbered, Task
  <2>3. saved' \subseteq Drawn \X (1..questions)
    BY <1>8, <2>2 DEF AppendWrites
  <2>4. table' \in [Ids -> Session] /\ (\A id \in Ids : RowSound(id))'
    <3>1. CASE ~Own(t)
      BY <1>8, <1>b, <3>1 DEF AppendWrites
    <3>2. CASE Own(t)
      <4>1. Append(t.read, MessageOf(t)) \in Seq(Message)
        BY <1>8, <2>2, MessageType DEF AppendWrites
      <4>2. PICK new : new = Append(t.read, MessageOf(t))
        OBVIOUS
      <4>3. table' = [table EXCEPT ![t.id].messages = new]
        BY <1>8, <3>2, <4>2 DEF AppendWrites
      <4>4. table[t.id].tenant # None
        BY <3>2 DEF Own
      <4>5. PICK r : r = [table[t.id] EXCEPT !.messages = new]
        OBVIOUS
      <4>6. r \in Session /\ r.tenant # None /\ t.id <= drawn
        <5>1. PICK x : x = table[t.id]
          OBVIOUS
        <5>2. x \in Session /\ new \in Seq(Message) /\ x.tenant # None
          BY <2>2, <4>1, <4>2, <4>4, <5>1
        <5>3. [x EXCEPT !.messages = new] \in Session
              /\ [x EXCEPT !.messages = new].tenant = x.tenant
          BY <5>2 DEF Session
        <5> QED BY <2>2, <4>5, <5>1, <5>2, <5>3 DEF Drawn
      <4>7. table' = [table EXCEPT ![t.id] = r] /\ drawn' = drawn
        BY <1>8, <4>3, <4>5 DEF AppendWrites
      <4> QED BY <2>2, <4>6, <4>7 DEF RowSound
    <3> QED BY <3>1, <3>2
  <2> QED BY <1>8, <1>a, <2>1, <2>3, <2>4 DEF AppendWrites
<1>9. ASSUME Switch \/ Login PROVE Book'
  <2>1. PICK u \in Users : \/ tasks' = tasks
                           \/ \E id \in {i \in Ids : table[i].tenant = u} :
                                tasks' = Moved(tasks) \cup {[Opening(id) EXCEPT !.by = u]}
    <3>1. CASE Login
      BY <3>1 DEF Login
    <3>2. CASE Switch
      <4>1. user \in Users
        BY <3>2 DEF Switch
      <4>2. \A id \in Ids : Opening(id) = [Opening(id) EXCEPT !.by = user]
        BY <4>1, OpeningType
      <4> QED BY <3>2, <4>1, <4>2 DEF Switch
    <3> QED BY <1>9, <3>1, <3>2
  <2>2. /\ user' \in Users \cup {None}
        /\ UNCHANGED <<table, current, questions, drawn, saved, crossed>>
    BY <1>9 DEF Switch, Login
  <2>3. tasks' \subseteq Task /\ Numbered' /\ Placed' /\ Pending' = Pending
    <3>1. CASE tasks' = tasks
      BY <2>2, <3>1 DEF Numbered, Placed, HasSession, Pending, Drawn
    <3>2. CASE tasks' # tasks
      <4>1. PICK id \in Ids : /\ table[id].tenant = u
                              /\ tasks' = Moved(tasks) \cup {[Opening(id) EXCEPT !.by = u]}
        BY <2>1, <3>2
      <4>2. PICK o, os, ts : o = [Opening(id) EXCEPT !.by = u] /\ os = {o} /\ ts = tasks
        OBVIOUS
      <4>3. id \in Drawn
        BY <4>1, WebAssumption DEF RowSound, NoRow, Drawn, Ids
      <4>4. o \in Task /\ o.kind = "load" /\ o.n = 0 /\ o.id = id
        BY <4>1, <4>2, OpeningType
      <4>5. /\ ts \in SUBSET tasks /\ \A x \in tasks \ ts : x.kind = "load"
            /\ os \in SUBSET Task /\ \A x \in os : x.kind = "load" /\ x.n = 0 /\ x.id \in Drawn
            /\ tasks' = Moved(ts) \cup os
        BY <4>1, <4>2, <4>3, <4>4
      <4> QED BY <2>2, <4>5, UserMoves
    <3> QED BY <3>1, <3>2
  <2> QED BY <1>a, <1>b, <2>2, <2>3
<1>10. ASSUME NewSession \/ Logout PROVE Book'
  <2>1. PICK ts, os : ts = tasks /\ os = {}
    OBVIOUS
  <2>2. /\ ts \in SUBSET tasks /\ \A x \in tasks \ ts : x.kind = "load"
        /\ os \in SUBSET Task /\ \A x \in os : x.kind = "load" /\ x.n = 0 /\ x.id \in Drawn
        /\ tasks' = Moved(ts) \cup os
    BY <1>10, <2>1 DEF NewSession, Logout
  <2>3. /\ tasks' \subseteq Task /\ Numbered' /\ Placed' /\ Pending' = Pending
    BY <1>10, <2>2, UserMoves DEF NewSession, Logout
  <2> QED BY <1>10, <1>a, <1>b, <2>3 DEF NewSession, Logout
<1>11. CASE DeleteSession
  <2>1. PICK id \in Ids : table' = [table EXCEPT ![id] = NoRow]
                          /\ saved' = {s \in saved : s[1] # id}
    BY <1>11 DEF DeleteSession
  <2>2. NoRow \in Session
    BY DEF NoRow, Session
  <2>3. table' \in [Ids -> Session] /\ (\A j \in Ids : RowSound(j))'
    BY <1>11, <2>1, <2>2 DEF DeleteSession, RowSound
  <2>4. tasks' \subseteq Task /\ Numbered' /\ Placed' /\ Pending' = Pending
    BY <1>11 DEF DeleteSession, Numbered, Placed, HasSession, Pending, Drawn
  <2> QED BY <1>11, <1>a, <2>1, <2>3, <2>4 DEF DeleteSession
<1>12. CASE UNCHANGED webVars
  BY <1>12, <1>a, <1>b DEF webVars, Pending, Numbered, Placed, HasSession, Drawn
<1> QED
  BY <1>1, <1>2, <1>3, <1>4, <1>5, <1>6, <1>7, <1>8, <1>9, <1>10, <1>11, <1>12
  DEF WebNext, Response

LEMMA FiledInit == WebInit => Filed
BY DEF WebInit, Filed, NoRow, Belongs

LEMMA MovedFiled ==
    ASSUME Book, NEW t \in tasks, TaskFiled(t)
    PROVE  TaskFiled([t EXCEPT !.moved = TRUE])'
<1>1. t \in Task
  BY BookParts
<1>2. PICK u : u = [t EXCEPT !.moved = TRUE]
  OBVIOUS
<1>3. /\ u.moved = TRUE /\ u.kind = t.kind /\ u.read = t.read /\ u.by = t.by
      /\ u.id = t.id
  BY <1>1, <1>2 DEF Task
<1> QED BY <1>2, <1>3 DEF TaskFiled

(* Tasks that the user's move reaches, with a session that is opened.      *)
LEMMA MovedTasksFiled ==
    ASSUME Book, Filed, NEW ts \in SUBSET tasks, NEW os, \A o \in os : o.kind = "load",
           tasks' = Moved(ts) \cup os, table' = table
    PROVE  Filed'
<1>1. ASSUME NEW u \in tasks' PROVE TaskFiled(u)'
  <2>1. CASE u \in os
    BY <2>1 DEF TaskFiled
  <2>2. CASE u \in Moved(ts)
    <3>1. PICK t \in ts : u = [t EXCEPT !.moved = TRUE]
      BY <2>2 DEF Moved
    <3> QED BY <3>1, MovedFiled DEF Filed
  <2> QED BY <2>1, <2>2
<1> QED BY <1>1 DEF Filed

LEMMA Opens ==
    ASSUME Book, Switch \/ Login, tasks' # tasks
    PROVE  \E ts, os : /\ ts = tasks /\ (\A o \in os : o.kind = "load")
                       /\ tasks' = Moved(ts) \cup os
<1>1. PICK id \in Ids, u \in Users :
         tasks' \in {Moved(tasks) \cup {Opening(id)},
                     Moved(tasks) \cup {[Opening(id) EXCEPT !.by = u]}}
  <2>1. CASE Switch
    <3>1. user \in Users
      BY <2>1, BookParts DEF Switch
    <3> QED BY <2>1, <3>1 DEF Switch
  <2>2. CASE Login
    BY <2>2 DEF Login
  <2> QED BY <2>1, <2>2
<1>2. Opening(id).kind = "load"
  BY DEF Opening
<1>3. [Opening(id) EXCEPT !.by = u].kind = "load"
  BY OpeningType
<1>4. PICK ts, os : ts = tasks /\ os \in {{Opening(id)}, {[Opening(id) EXCEPT !.by = u]}}
                    /\ tasks' = Moved(ts) \cup os
  BY <1>1
<1>5. \A o \in os : o.kind = "load"
  <2>1. CASE os = {Opening(id)}
    BY <1>2, <2>1
  <2>2. CASE os = {[Opening(id) EXCEPT !.by = u]}
    BY <1>3, <2>2, Zenon
  <2> QED BY <1>4, <2>1, <2>2
<1> QED BY <1>4, <1>5

LEMMA FiledStep == Book /\ Filed /\ [WebNext]_webVars => Filed'
<1> SUFFICES ASSUME Book, Filed, [WebNext]_webVars PROVE Filed'
  OBVIOUS
<1>a. ASSUME NEW x \in tasks, current' = current PROVE TaskFiled(x)'
  BY <1>a DEF Filed, TaskFiled
<1>b. ASSUME table' = table, \A x \in tasks' : TaskFiled(x)' PROVE Filed'
  BY <1>b DEF Filed
<1>c. ASSUME table' = table, current' = current,
             \A x \in tasks' : x \in tasks \/ TaskFiled(x)'
      PROVE  Filed'
  BY <1>a, <1>b, <1>c
<1>d. ASSUME NEW u, u.kind # "query", TaskFiled(u) PROVE TaskFiled(u)'
  BY <1>d DEF TaskFiled
<1>e. ASSUME NEW t \in tasks, t.kind \in {"query", "posted"}
      PROVE  Put(t).kind = "put" /\ TaskFiled(Put(t))
  <2>1. t \in Task /\ TaskFiled(t)
    BY BookParts DEF Filed
  <2>2. PICK u : u = Put(t)
    OBVIOUS
  <2>3. u.kind = "put" /\ u.id = current /\ u.moved = t.moved /\ u.asked = t.asked
    BY <2>1, <2>2 DEF Put, Task
  <2>4. t.moved \/ t.asked \in {current, None}
    BY <1>e, <2>1 DEF TaskFiled
  <2> QED BY <2>2, <2>3, <2>4 DEF TaskFiled
<1>1. ASSUME Ask \/ Rerun PROVE Filed'
  <2>1. PICK via \in {"send", "rerun"} : tasks' = tasks \cup {Question(via)}
    BY <1>1 DEF Ask, Rerun
  <2>2. UNCHANGED <<table, current>>
    BY <1>1 DEF Ask, Rerun
  <2>3. PICK q : q = Question(via)
    OBVIOUS
  <2>4. q.kind = "query" /\ q.asked = current
    BY <2>3 DEF Question
  <2>5. TaskFiled(q)'
    BY <2>2, <2>4 DEF TaskFiled
  <2> QED BY <1>c, <2>1, <2>2, <2>3, <2>5
<1>2. ASSUME NEW t \in tasks, Answered(t) \/ Failed(t) PROVE Filed'
  <2>1. t.kind = "query" /\ table' = table /\ TaskFiled(t) /\ t \in Task
    BY <1>2, BookParts DEF Answered, Failed, Filed
  <2>2. CASE /\ tasks' = Swap(t, {Put(t)})
             /\ UNCHANGED <<current, drawn>>
    <3>1. PICK u : u = Put(t)
      OBVIOUS
    <3>2. TaskFiled(u)'
      BY <1>d, <1>e, <2>1, <3>1
    <3> QED BY <1>c, <2>1, <2>2, <3>1, <3>2 DEF Swap
  <2>3. ASSUME NEW asks \in BOOLEAN, current = None,
               tasks' = Swap(t, {Post(t, drawn', asks)})
        PROVE  Filed'
    <3>1. PICK u : u = Post(t, drawn', asks)
      OBVIOUS
    <3>2. u.kind = "post" /\ u.moved = t.moved /\ u.asked = t.asked
      BY <2>1, <3>1 DEF Post, Task
    <3>3. TaskFiled(u)'
      BY <2>1, <2>3, <3>2 DEF TaskFiled
    <3>4. \A x \in tasks : TaskFiled(x)'
      BY <2>3 DEF Filed, TaskFiled
    <3>5. \A x \in tasks' : x \in tasks \/ x = u
      BY <2>3, <3>1 DEF Swap
    <3> QED BY <1>b, <2>1, <3>3, <3>4, <3>5
  <2>4. CASE tasks' = tasks \ {t} /\ UNCHANGED <<current, drawn>>
    BY <1>c, <2>1, <2>4
  <2> QED BY <1>2, <2>2, <2>3, <2>4 DEF Answered, Failed, File
<1>3. ASSUME NEW t \in tasks, Created(t) PROVE Filed'
  <2>1. t.kind = "posted" /\ UNCHANGED <<table, current>>
    BY <1>3 DEF Created
  <2>2. PICK u : u = Put(t)
    OBVIOUS
  <2>3. TaskFiled(u)'
    BY <1>d, <1>e, <2>1, <2>2
  <2>4. \A x \in tasks' : x \in tasks \/ x = u
    BY <1>3, <2>2 DEF Created, Swap
  <2> QED BY <1>c, <2>1, <2>3, <2>4
<1>4. ASSUME NEW t \in tasks, Loaded(t) PROVE Filed'
  <2>1. PICK ts, os : ts = tasks \ {t} /\ os = {}
    OBVIOUS
  <2>2. tasks' = Moved(ts) \cup os /\ table' = table
    BY <1>4, <2>1 DEF Loaded
  <2> QED BY <2>1, <2>2, MovedTasksFiled
<1>5. ASSUME NEW t \in tasks, PostArrives(t) \/ PostLost(t) PROVE Filed'
  <2>1. PICK u : u = [t EXCEPT !.kind = "posted"]
    OBVIOUS
  <2>2. /\ tasks' = Swap(t, {u}) /\ t.kind = "post" /\ t \in Task /\ TaskFiled(t)
        /\ current' = current
    BY <1>5, <2>1, BookParts DEF PostArrives, PostLost, Filed
  <2>3. u.kind = "posted" /\ u.moved = t.moved /\ u.asked = t.asked
    BY <2>1, <2>2 DEF Task
  <2>4. TaskFiled(u)'
    BY <2>2, <2>3 DEF TaskFiled
  <2>5. \A x \in tasks' : TaskFiled(x)'
    BY <1>a, <2>2, <2>4 DEF Swap
  <2>6. CASE table' = table
    BY <1>b, <2>5, <2>6
  <2>7. CASE table' = [table EXCEPT ![t.id] = Row(t.by, <<>>)]
    <3>1. Row(t.by, <<>>).messages = <<>>
      BY DEF Row
    <3>2. \A id \in Ids : table'[id] = table[id] \/ table'[id].messages = <<>>
      BY <2>7, <3>1, BookParts
    <3> QED BY <2>5, <3>2 DEF Filed
  <2> QED BY <1>5, <2>6, <2>7 DEF PostArrives, PostLost
<1>6. ASSUME NEW t \in tasks, AppendReads(t) PROVE Filed'
  <2>1. /\ t.kind = "put" /\ Own(t) /\ UNCHANGED <<table, current>>
        /\ t \in Task /\ TaskFiled(t) /\ t.id \in Ids
    BY <1>6, BookParts, DrawnIds DEF AppendReads, Filed, Own, Placed, HasSession
  <2>2. PICK u : u = [t EXCEPT !.kind = "write", !.read = table[t.id].messages]
    OBVIOUS
  <2>3. /\ u.kind = "write" /\ u.read = table[t.id].messages /\ u.id = t.id
        /\ u.by = t.by /\ u.moved = t.moved /\ u.asked = t.asked
    BY <2>1, <2>2 DEF Task
  <2>4. \A i \in DOMAIN u.read : Belongs(u.read[i], u.by, u.id)
    BY <2>1, <2>3 DEF Filed, Own
  <2>5. TaskFiled(u)
    BY <2>1, <2>3, <2>4 DEF TaskFiled
  <2>6. tasks' = Swap(t, {u})
    BY <1>6, <2>2 DEF AppendReads
  <2> QED BY <1>c, <1>d, <2>1, <2>3, <2>5, <2>6 DEF Swap
<1>7. ASSUME NEW t \in tasks, AppendRefused(t) \/ PutLost(t) PROVE Filed'
  BY <1>7, <1>c DEF AppendRefused, PutLost
<1>8. ASSUME NEW t \in tasks, AppendWrites(t) PROVE Filed'
  <2>1. /\ t.kind = "write" /\ t \in Task /\ TaskFiled(t) /\ t.id \in Ids
        /\ current' = current /\ tasks' = tasks \ {t}
    BY <1>8, BookParts, DrawnIds DEF AppendWrites, Filed, Placed, HasSession
  <2>2. \A x \in tasks' : TaskFiled(x)'
    BY <1>a, <2>1
  <2>3. CASE table' = table
    BY <1>b, <2>2, <2>3
  <2>4. ASSUME Own(t) PROVE Filed'
    <3>1. PICK m : m = MessageOf(t)
      OBVIOUS
    <3>2. Belongs(m, t.by, t.id) /\ m \in Message
      BY <2>1, <3>1, MessageType DEF TaskFiled, Belongs
    <3>3. PICK new : new = Append(t.read, m)
      OBVIOUS
    <3>4. \A i \in DOMAIN new : Belongs(new[i], t.by, t.id)
      <4>1. t.read \in Seq(Message) /\ \A i \in DOMAIN t.read : Belongs(t.read[i], t.by, t.id)
        BY <2>1 DEF TaskFiled, Task
      <4>2. \A i \in DOMAIN new : (i \in DOMAIN t.read /\ new[i] = t.read[i]) \/ new[i] = m
        BY <3>2, <3>3, <4>1
      <4> QED BY <3>2, <4>1, <4>2
    <3>5. table' = [table EXCEPT ![t.id].messages = new]
      BY <1>8, <2>4, <3>1, <3>3 DEF AppendWrites
    <3>6. /\ table'[t.id].messages = new /\ table'[t.id].tenant = table[t.id].tenant
          /\ \A id \in Ids : id # t.id => table'[id] = table[id]
      <4>1. PICK x : x = table[t.id]
        OBVIOUS
      <4>2. /\ x \in Session /\ [x EXCEPT !.messages = new].messages = new
            /\ [x EXCEPT !.messages = new].tenant = x.tenant
        BY <2>1, <4>1, BookParts DEF Session
      <4> QED BY <2>1, <3>5, <4>1, <4>2, BookParts
    <3>7. table[t.id].tenant = t.by
      BY <2>4 DEF Own
    <3>8. \A id \in Ids : \A i \in DOMAIN table'[id].messages :
             Belongs(table'[id].messages[i], table'[id].tenant, id)
      BY <3>4, <3>6, <3>7 DEF Filed
    <3> QED BY <2>2, <3>8 DEF Filed
  <2> QED BY <1>8, <2>3, <2>4 DEF AppendWrites
<1>9. ASSUME Switch \/ Login PROVE Filed'
  <2>1. table' = table /\ current' = current
    BY <1>9 DEF Switch, Login
  <2>2. CASE tasks' = tasks
    BY <1>c, <2>1, <2>2
  <2>3. CASE tasks' # tasks
    <3>1. PICK ts, os : ts = tasks /\ (\A o \in os : o.kind = "load")
                        /\ tasks' = Moved(ts) \cup os
      BY <1>9, <2>3, Opens
    <3> QED BY <2>1, <3>1, MovedTasksFiled
  <2> QED BY <2>2, <2>3
<1>10. ASSUME NewSession \/ Logout PROVE Filed'
  <2>1. PICK ts, os : ts = tasks /\ os = {}
    OBVIOUS
  <2>2. tasks' = Moved(ts) \cup os /\ table' = table
    BY <1>10, <2>1 DEF NewSession, Logout
  <2> QED BY <2>1, <2>2, MovedTasksFiled
<1>11. CASE DeleteSession
  <2>1. PICK id \in Ids : table' = [table EXCEPT ![id] = NoRow]
    BY <1>11 DEF DeleteSession
  <2>2. NoRow.messages = <<>>
    BY DEF NoRow
  <2>3. \A j \in Ids : table'[j] = table[j] \/ table'[j].messages = <<>>
    BY <2>1, <2>2, BookParts
  <2>4. \A x \in tasks' : TaskFiled(x)'
    BY <1>11, <1>a DEF DeleteSession
  <2> QED BY <2>3, <2>4 DEF Filed
<1>12. CASE UNCHANGED webVars
  BY <1>12, <1>c DEF webVars
<1> QED
  BY <1>1, <1>2, <1>3, <1>4, <1>5, <1>6, <1>7, <1>8, <1>9, <1>10, <1>11, <1>12
  DEF WebNext, Response

LEMMA BookAlways == WebSpec => []Book
BY BookInit, BookStep, PTL DEF WebSpec

LEMMA FiledAlways == WebSpec => []Filed
BY FiledInit, FiledStep, BookAlways, PTL DEF WebSpec

(* The API (append_message) writes to a session only what was sent with    *)
(* its tenant's token, for any number of users, questions and moves.       *)
THEOREM TenantsNeverMix == WebSpec => []TenantsApart
<1>1. Filed => TenantsApart
  BY DEF Filed, TenantsApart, Belongs
<1> QED BY <1>1, FiledAlways, PTL

(* The page (addHistoryItem) files an answer in the session of its         *)
(* question, or in the one begun for it, unless the user has moved.        *)
THEOREM AnswersFiled == WebSpec => []FiledWhereAsked
<1>1. Filed => FiledWhereAsked
  BY DEF Filed, FiledWhereAsked, Belongs
<1> QED BY <1>1, FiledAlways, PTL

LEMMA RowTypes ==
    ASSUME Book
    PROVE  /\ \A id \in Ids : /\ table[id] \in Session /\ table[id].messages \in Seq(Message)
                              /\ \A i \in DOMAIN table[id].messages :
                                    table[id].messages[i].n \in Nat \ {0}
           /\ \A t \in tasks : /\ t \in Task /\ t.read \in Seq(Message)
                               /\ \A i \in DOMAIN t.read : t.read[i].n \in Nat \ {0}
           /\ \A s \in saved : s[1] \in Ids /\ s[1] \in Drawn /\ s[2] \in 1..questions
<1>1. ASSUME NEW r \in Seq(Message) PROVE \A i \in DOMAIN r : r[i].n \in Nat \ {0}
  <2> TAKE i \in DOMAIN r
  <2>1. r[i] \in Message
    OBVIOUS
  <2> QED BY <2>1 DEF Message
<1>2. ASSUME NEW id \in Ids
      PROVE  table[id] \in Session /\ table[id].messages \in Seq(Message)
  BY BookParts DEF Session
<1>3. ASSUME NEW t \in tasks PROVE t \in Task /\ t.read \in Seq(Message)
  BY BookParts DEF Task
<1>4. \A s \in saved : s[1] \in Ids /\ s[1] \in Drawn /\ s[2] \in 1..questions
  BY BookParts, DrawnIds
<1> QED BY <1>1, <1>2, <1>3, <1>4

LEMMA OnceMore ==
    ASSUME NEW r \in Seq(Message), NEW m \in Message
    PROVE  /\ \A i \in DOMAIN Append(r, m) :
                 (i \in DOMAIN r /\ Append(r, m)[i] = r[i]) \/ Append(r, m)[i] = m
           /\ \A n : n # m.n /\ Once(r, n) => Once(Append(r, m), n)
           /\ (\A i \in DOMAIN r : r[i].n # m.n) => Once(Append(r, m), m.n)
<1>1. PICK a : a = Append(r, m)
  OBVIOUS
<1>2. /\ DOMAIN a = DOMAIN r \cup {Len(r) + 1} /\ Len(r) + 1 \notin DOMAIN r
      /\ a[Len(r) + 1] = m /\ \A i \in DOMAIN r : a[i] = r[i]
  BY <1>1
<1>3. ASSUME NEW n, n # m.n, Once(r, n) PROVE Once(a, n)
  BY <1>2, <1>3 DEF Once
<1>4. ASSUME \A i \in DOMAIN r : r[i].n # m.n PROVE Once(a, m.n)
  BY <1>2, <1>4 DEF Once
<1> QED BY <1>1, <1>2, <1>3, <1>4

LEMMA KeepInit == WebInit => KeepInv
BY DEF WebInit, KeepInv, CreatedOnce, NotYetThere, Asked, AloneAppends, Kept, NoRow

(* What a task was before the step, as far as writes are concerned.        *)
Stems(u, t) ==
    /\ u.n = t.n
    /\ u.kind = "write" => /\ t.kind = "write" /\ u.id = t.id /\ u.by = t.by
                           /\ u.read = t.read

Untouched ==
    /\ UNCHANGED <<table, saved, crossed>> /\ questions' \in {questions, questions + 1}
    /\ \A u \in tasks' :
          \/ u.kind = "load"
          \/ (u.kind = "query" /\ u.n = questions + 1 /\ questions' = questions + 1)
          \/ \E t \in tasks : Stems(u, t)

LEMMA UntouchedKeeps ==
    ASSUME Book, Book', KeepInv, Untouched
    PROVE  NotYetThere' /\ Asked' /\ AloneAppends' /\ Kept'
<1> USE RowTypes
<1>1. UNCHANGED <<table, saved, crossed>> /\ questions \in Nat
  BY BookParts DEF Untouched
<1>2. \A u \in tasks' : u.kind = "load" => u.n = 0
  BY DEF Book, Numbered
<1>3. \A u \in tasks' : u.kind = "write" => \E t \in tasks : t.kind = "write" /\ Stems(u, t)
  BY DEF Untouched, Stems
<1>4. NotYetThere'
  <2> SUFFICES ASSUME NEW u \in tasks'
               PROVE  /\ \A id \in Ids : \A i \in DOMAIN table[id].messages :
                            table[id].messages[i].n # u.n
                      /\ \A w \in tasks' : w.kind = "write" =>
                            \A i \in DOMAIN w.read : w.read[i].n # u.n
                      /\ \A s \in saved : s[2] # u.n
    BY <1>1 DEF NotYetThere
  <2>1. CASE u.n = 0 \/ u.n = questions + 1
    <3>1. \A id \in Ids : \A i \in DOMAIN table[id].messages : table[id].messages[i].n # u.n
      BY <1>1, <2>1 DEF KeepInv, Asked
    <3>2. \A w \in tasks : w.kind = "write" => \A i \in DOMAIN w.read : w.read[i].n # u.n
      BY <1>1, <2>1 DEF KeepInv, Asked
    <3>3. \A w \in tasks' : w.kind = "write" => \A i \in DOMAIN w.read : w.read[i].n # u.n
      BY <1>3, <3>2 DEF Stems
    <3>4. \A s \in saved : s[2] # u.n
      BY <1>1, <2>1
    <3> QED BY <3>1, <3>3, <3>4
  <2>2. CASE \E t \in tasks : Stems(u, t)
    <3>1. PICK t \in tasks : t.n = u.n
      BY <2>2 DEF Stems
    <3> QED BY <1>3, <3>1 DEF KeepInv, NotYetThere, Stems
  <2> QED BY <1>2, <2>1, <2>2 DEF Untouched
<1>5. Asked'
  <2>1. \A n \in Nat : n <= questions => n <= questions'
    BY <1>1 DEF Untouched
  <2>2. \A id \in Ids : \A i \in DOMAIN table[id].messages : table[id].messages[i].n <= questions'
    BY <2>1 DEF KeepInv, Asked
  <2>3. ASSUME NEW w \in tasks', w.kind = "write", NEW i \in DOMAIN w.read
        PROVE  w.read[i].n <= questions'
    <3>1. PICK t \in tasks : t.kind = "write" /\ w.read = t.read
      BY <1>3, <2>3 DEF Stems
    <3> QED BY <2>1, <3>1 DEF KeepInv, Asked
  <2> QED BY <1>1, <2>2, <2>3 DEF Asked
<1>6. AloneAppends'
  <2> SUFFICES ASSUME NEW w \in tasks', w.kind = "write"
               PROVE  /\ w.by # None
                      /\ table[w.id] = NoRow \/ table[w.id].tenant = w.by
                      /\ w.id \notin crossed =>
                            /\ table[w.id] = NoRow \/ w.read = table[w.id].messages
                            /\ \A x \in tasks' : x.kind = "write" /\ x.id = w.id => x = w
    BY <1>1 DEF AloneAppends
  <2>1. PICK t \in tasks : t.kind = "write" /\ Stems(w, t)
    BY <1>3
  <2>2. /\ w.by = t.by /\ w.id = t.id /\ w.read = t.read /\ w.n = t.n
    BY <2>1 DEF Stems
  <2>3. ASSUME NEW x \in tasks', x.kind = "write", x.id = w.id, w.id \notin crossed
        PROVE  x = w
    <3>1. PICK y \in tasks : y.kind = "write" /\ Stems(x, y)
      BY <1>3, <2>3
    <3>2. y = t
      BY <2>1, <2>2, <2>3, <3>1 DEF KeepInv, AloneAppends, Stems
    <3> QED BY <2>2, <2>3, <3>1, <3>2 DEF Stems, Book, Numbered
  <2> QED BY <2>1, <2>2, <2>3 DEF KeepInv, AloneAppends
<1>7. Kept'
  BY <1>1 DEF KeepInv, Kept
<1> QED BY <1>4, <1>5, <1>6, <1>7

LEMMA DrawnBound == Book => Drawn \subseteq Ids
BY DrawnIds

LEMMA DrawnBoundThen == Book' => Drawn' \subseteq Ids
<1>1. Book' => (Drawn \subseteq Ids)'
  BY DrawnBound, PTL
<1> QED BY <1>1 DEF Ids

SameTask(u, t) == Stems(u, t) /\ (u.kind = "post" => t.kind = "post" /\ u.id = t.id)

LEMMA StillKept ==
    ASSUME Book, Book', KeepInv, UNCHANGED <<table, saved, crossed>>,
           questions' \in {questions, questions + 1},
           \A u \in tasks' :
              \/ u.kind = "load"
              \/ (u.kind = "query" /\ u.n = questions + 1 /\ questions' = questions + 1)
              \/ \E t \in tasks : SameTask(u, t)
    PROVE  KeepInv'
<1>1. NotYetThere' /\ Asked' /\ AloneAppends' /\ Kept'
  BY UntouchedKeeps DEF Untouched, SameTask
<1>2. \A u \in tasks' : u.kind \in {"post", "write"} =>
         \E t \in tasks : t.kind = u.kind /\ t.id = u.id /\ t.n = u.n
  BY DEF SameTask, Stems
<1>3. CreatedOnce'
  <2> SUFFICES ASSUME NEW p \in tasks', p.kind = "post"
               PROVE  /\ table[p.id] = NoRow
                      /\ \A t \in tasks' : t.kind \in {"post", "write"} /\ t.id = p.id => t = p
                      /\ \A s \in saved : s[1] # p.id
    BY DEF CreatedOnce
  <2>1. PICK q \in tasks : q.kind = "post" /\ q.id = p.id /\ q.n = p.n
    BY <1>2
  <2>2. ASSUME NEW t \in tasks', t.kind \in {"post", "write"}, t.id = p.id PROVE t = p
    <3>1. PICK r \in tasks : r.kind \in {"post", "write"} /\ r.id = t.id /\ r.n = t.n
      BY <1>2, <2>2
    <3>2. r = q
      BY <2>1, <2>2, <3>1 DEF KeepInv, CreatedOnce
    <3> QED BY <2>1, <2>2, <3>1, <3>2 DEF Book, Numbered
  <2> QED BY <2>1, <2>2 DEF KeepInv, CreatedOnce
<1> QED BY <1>1, <1>3 DEF KeepInv

(* addHistoryItem draws an id nobody has used.                             *)
LEMMA FileKeeps ==
    ASSUME Book, Book', KeepInv, NEW t \in tasks, t.kind = "query",
           NEW asks \in BOOLEAN, drawn' = drawn + 1,
           tasks' = Swap(t, {Post(t, drawn', asks)}),
           UNCHANGED <<table, questions, saved, crossed>>
    PROVE  KeepInv'
<1>1. PICK u : u = Post(t, drawn', asks)
  OBVIOUS
<1>2. t \in Task /\ drawn \in Nat
  BY BookParts
<1>3. u.kind = "post" /\ u.id = drawn + 1 /\ u.n = t.n
  BY <1>1, <1>2 DEF Post, Task
<1>4. \A x \in tasks' : x = u \/ x \in tasks
  BY <1>1 DEF Swap
<1>5. NotYetThere' /\ Asked' /\ AloneAppends' /\ Kept'
  BY <1>3, <1>4, UntouchedKeeps DEF Untouched, Stems
<1>6. /\ drawn + 1 \in Ids /\ drawn + 1 \notin Drawn
      /\ \A x \in tasks : x.kind \in {"post", "write"} => x.id \in Drawn
  <2>1. drawn' \in Drawn' /\ Drawn' \subseteq Ids
    BY <1>2, DrawnBoundThen DEF Drawn
  <2> QED BY <1>2, <2>1, BookParts DEF Drawn, Placed, HasSession
<1>7. table[drawn + 1] = NoRow
  BY <1>2, <1>6, BookParts DEF RowSound
<1>8. CreatedOnce'
  <2> SUFFICES ASSUME NEW p \in tasks', p.kind = "post"
               PROVE  /\ table[p.id] = NoRow
                      /\ \A x \in tasks' : x.kind \in {"post", "write"} /\ x.id = p.id => x = p
                      /\ \A s \in saved : s[1] # p.id
    BY DEF CreatedOnce
  <2>1. CASE p = u
    BY <1>3, <1>4, <1>6, <1>7, <2>1, RowTypes
  <2>2. CASE p \in tasks
    BY <1>3, <1>4, <1>6, <2>2 DEF KeepInv, CreatedOnce
  <2> QED BY <1>4, <2>1, <2>2
<1> QED BY <1>5, <1>8 DEF KeepInv

(* create_session inserts a row where nothing has been written.            *)
LEMMA InsertKeeps ==
    ASSUME Book, Book', KeepInv, NEW t \in tasks, t.kind = "post", NEW by,
           tasks' = Swap(t, {[t EXCEPT !.kind = "posted"]}),
           table' = [table EXCEPT ![t.id] = Row(by, <<>>)],
           UNCHANGED <<questions, saved, crossed>>
    PROVE  KeepInv'
<1>1. PICK u : u = [t EXCEPT !.kind = "posted"]
  OBVIOUS
<1>2. t.id \in Ids /\ t \in Task
  BY BookParts, DrawnIds DEF Placed, HasSession
<1>3. u.kind = "posted" /\ u.n = t.n
  BY <1>1, <1>2 DEF Task
<1>4. \A x \in tasks' : x = u \/ (x \in tasks /\ x # t)
  <2>1. tasks' = (tasks \ {t}) \cup {u}
    BY <1>1, Zenon DEF Swap
  <2> QED BY <2>1
<1>5. /\ \A id \in Ids : id # t.id => table'[id] = table[id]
      /\ table'[t.id].messages = <<>>
  <2>1. Row(by, <<>>).messages = <<>>
    BY DEF Row
  <2> QED BY <1>2, <2>1, BookParts
<1>6. /\ \A x \in tasks : x.kind \in {"post", "write"} /\ x # t => x.id # t.id
      /\ \A s \in saved : s[1] # t.id
  BY DEF KeepInv, CreatedOnce
<1>7. \A x \in tasks : x.kind \in {"post", "write"} => x.id \in Ids
  BY BookParts, DrawnIds DEF Placed, HasSession
<1>8. CreatedOnce'
  <2> SUFFICES ASSUME NEW p \in tasks', p.kind = "post"
               PROVE  /\ table'[p.id] = NoRow
                      /\ \A x \in tasks' : x.kind \in {"post", "write"} /\ x.id = p.id => x = p
                      /\ \A s \in saved : s[1] # p.id
    BY DEF CreatedOnce
  <2>1. p \in tasks /\ p # t
    BY <1>3, <1>4
  <2> QED BY <1>3, <1>4, <1>5, <1>6, <1>7, <2>1 DEF KeepInv, CreatedOnce
<1>13. \A id \in Ids : table'[id] = table[id] \/ table'[id].messages = <<>>
  BY <1>5
<1>9. NotYetThere'
  <2> SUFFICES ASSUME NEW x \in tasks'
               PROVE  /\ \A id \in Ids : \A i \in DOMAIN table'[id].messages :
                            table'[id].messages[i].n # x.n
                      /\ \A w \in tasks' : w.kind = "write" =>
                            \A i \in DOMAIN w.read : w.read[i].n # x.n
                      /\ \A s \in saved : s[2] # x.n
    BY DEF NotYetThere
  <2>1. PICK y \in tasks : y.n = x.n
    BY <1>3, <1>4
  <2>2. \A id \in Ids : \A i \in DOMAIN table'[id].messages :
            table'[id].messages[i].n # x.n
    BY <1>13, <2>1 DEF KeepInv, NotYetThere
  <2>3. \A w \in tasks' : w.kind = "write" => w \in tasks
    BY <1>3, <1>4
  <2> QED BY <2>1, <2>2, <2>3 DEF KeepInv, NotYetThere
<1>10. Asked'
  <2>1. \A id \in Ids : \A i \in DOMAIN table'[id].messages :
            table'[id].messages[i].n <= questions
    BY <1>13 DEF KeepInv, Asked
  <2>2. \A w \in tasks' : w.kind = "write" => w \in tasks
    BY <1>3, <1>4
  <2> QED BY <2>1, <2>2 DEF KeepInv, Asked
<1>11. AloneAppends'
  <2>1. \A w \in tasks' : w.kind = "write" =>
           w \in tasks /\ w.id \in Ids /\ table'[w.id] = table[w.id]
    BY <1>3, <1>4, <1>5, <1>6, <1>7
  <2> QED BY <2>1 DEF KeepInv, AloneAppends
<1>12. Kept'
  BY <1>5, <1>6, RowTypes DEF KeepInv, Kept
<1> QED BY <1>8, <1>9, <1>10, <1>11, <1>12 DEF KeepInv

(* append_message selects the session's messages.                          *)
LEMMA ReadKeeps ==
    ASSUME Book, Book', KeepInv, NEW t \in tasks, AppendReads(t)
    PROVE  KeepInv'
<1>1. PICK u : u = [t EXCEPT !.kind = "write", !.read = table[t.id].messages]
  OBVIOUS
<1>2. /\ t.kind = "put" /\ Own(t) /\ t.id \in Ids /\ t \in Task
      /\ tasks' = (tasks \ {t}) \cup {u} /\ UNCHANGED <<table, questions, saved>>
      /\ crossed' = crossed \cup {w.id : w \in {x \in tasks : x.kind = "write" /\ x.id = t.id}}
  BY <1>1, BookParts, DrawnIds DEF AppendReads, Swap, Own, Placed, HasSession
<1>3. /\ u.kind = "write" /\ u.n = t.n /\ u.id = t.id /\ u.by = t.by
      /\ u.read = table[t.id].messages
  BY <1>1, <1>2 DEF Task
<1>4. \A x \in tasks' : x = u \/ (x \in tasks /\ x # t)
  BY <1>2
<1>5. t.by # None /\ table[t.id].tenant = t.by /\ table[t.id] # NoRow
  BY <1>2 DEF Own, NoRow
<1>6. CreatedOnce'
  <2> SUFFICES ASSUME NEW p \in tasks', p.kind = "post"
               PROVE  /\ table[p.id] = NoRow
                      /\ \A x \in tasks' : x.kind \in {"post", "write"} /\ x.id = p.id => x = p
                      /\ \A s \in saved : s[1] # p.id
    BY <1>2 DEF CreatedOnce
  <2>1. p \in tasks /\ table[p.id] = NoRow
    BY <1>3, <1>4 DEF KeepInv, CreatedOnce
  <2> QED BY <1>3, <1>4, <1>5, <2>1 DEF KeepInv, CreatedOnce
<1>7. NotYetThere'
  <2> SUFFICES ASSUME NEW x \in tasks'
               PROVE  /\ \A id \in Ids : \A i \in DOMAIN table[id].messages :
                            table[id].messages[i].n # x.n
                      /\ \A w \in tasks' : w.kind = "write" =>
                            \A i \in DOMAIN w.read : w.read[i].n # x.n
                      /\ \A s \in saved : s[2] # x.n
    BY <1>2 DEF NotYetThere
  <2>1. PICK y \in tasks : y.n = x.n
    BY <1>3, <1>4
  <2>2. \A i \in DOMAIN table[t.id].messages : table[t.id].messages[i].n # y.n
    BY <1>2 DEF KeepInv, NotYetThere
  <2> QED BY <1>3, <1>4, <2>1, <2>2 DEF KeepInv, NotYetThere
<1>8. Asked'
  <2>1. \A i \in DOMAIN u.read : u.read[i].n <= questions
    BY <1>2, <1>3 DEF KeepInv, Asked
  <2> QED BY <1>2, <1>4, <2>1 DEF KeepInv, Asked
<1>9. AloneAppends'
  <2> SUFFICES ASSUME NEW w \in tasks', w.kind = "write"
               PROVE  /\ w.by # None
                      /\ table[w.id] = NoRow \/ table[w.id].tenant = w.by
                      /\ w.id \notin crossed' =>
                            /\ table[w.id] = NoRow \/ w.read = table[w.id].messages
                            /\ \A x \in tasks' : x.kind = "write" /\ x.id = w.id => x = w
    BY <1>2 DEF AloneAppends
  <2>1. \A x \in tasks : x.kind = "write" /\ x.id = t.id => t.id \in crossed'
    BY <1>2
  <2>2. CASE w = u
    BY <1>3, <1>4, <1>5, <2>1, <2>2
  <2>3. CASE w \in tasks
    <3>1. w.id = t.id => w.id \in crossed'
      BY <2>1, <2>3
    <3>2. w.id \notin crossed' => w.id \notin crossed
      BY <1>2
    <3> QED BY <1>3, <1>4, <2>3, <3>1, <3>2 DEF KeepInv, AloneAppends
  <2> QED BY <1>4, <2>2, <2>3
<1>10. Kept'
  BY <1>2 DEF KeepInv, Kept
<1> QED BY <1>6, <1>7, <1>8, <1>9, <1>10 DEF KeepInv

(* append_message writes the list it has selected and one message more.    *)
LEMMA WriteKeeps ==
    ASSUME Book, Book', KeepInv, NEW t \in tasks, AppendWrites(t)
    PROVE  KeepInv'
<1>1. /\ t.kind = "write" /\ t.id \in Ids /\ t \in Task /\ t.n \in 1..questions
      /\ tasks' = tasks \ {t} /\ saved' = saved \cup {<<t.id, t.n>>}
      /\ UNCHANGED <<questions, crossed>>
  BY BookParts, DrawnIds DEF AppendWrites, Placed, HasSession, Numbered
<1>2. PICK m : m = MessageOf(t)
  OBVIOUS
<1>3. m \in Message /\ m.n = t.n
  BY <1>1, <1>2, MessageType
<1>4. PICK new : new = Append(t.read, m)
  OBVIOUS
<1>5. /\ \A i \in DOMAIN new : (i \in DOMAIN t.read /\ new[i] = t.read[i]) \/ new[i] = m
      /\ \A n : n # t.n /\ Once(t.read, n) => Once(new, n)
      /\ (\A i \in DOMAIN t.read : t.read[i].n # t.n) => Once(new, t.n)
  <2>1. t.read \in Seq(Message)
    BY RowTypes
  <2> QED BY <1>3, <1>4, <2>1, OnceMore
<1>6. /\ \A id \in Ids : id # t.id => table'[id] = table[id]
      /\ ~Own(t) => table' = table
      /\ Own(t) => /\ table'[t.id].messages = new /\ table'[t.id].tenant = table[t.id].tenant
                   /\ table[t.id] # NoRow
  <2>1. CASE ~Own(t)
    BY <2>1 DEF AppendWrites
  <2>2. CASE Own(t)
    <3>1. PICK x : x = table[t.id]
      OBVIOUS
    <3>2. /\ x \in Session /\ [x EXCEPT !.messages = new].messages = new
          /\ [x EXCEPT !.messages = new].tenant = x.tenant
      BY <1>1, <3>1, BookParts DEF Session
    <3>3. table' = [table EXCEPT ![t.id] = [x EXCEPT !.messages = new]]
      BY <1>2, <1>4, <2>2, <3>1 DEF AppendWrites
    <3> QED BY <1>1, <2>2, <3>1, <3>2, <3>3, BookParts DEF Own, NoRow
  <2> QED BY <2>1, <2>2
<1>7. \A x \in tasks' : x \in tasks /\ (x.kind # "load" => x.n # t.n)
                        /\ (x.kind = "load" => x.n = 0)
  BY <1>1, BookParts DEF Numbered
<1>8. /\ \A x \in tasks' : x.n # t.n
      /\ \A x \in tasks' : x.kind \in {"post", "write"} => x.id \in Ids
  BY <1>1, <1>7, BookParts, DrawnIds DEF Placed, HasSession
<1>9. CreatedOnce'
  <2> SUFFICES ASSUME NEW p \in tasks', p.kind = "post"
               PROVE  /\ table'[p.id] = NoRow
                      /\ \A x \in tasks' : x.kind \in {"post", "write"} /\ x.id = p.id => x = p
                      /\ \A s \in saved' : s[1] # p.id
    BY DEF CreatedOnce
  <2>1. p \in tasks /\ p.id \in Ids /\ p.id # t.id
    BY <1>1, <1>7, <1>8 DEF KeepInv, CreatedOnce
  <2> QED BY <1>1, <1>6, <1>7, <2>1 DEF KeepInv, CreatedOnce
<1>10. NotYetThere'
  <2> SUFFICES ASSUME NEW x \in tasks'
               PROVE  /\ \A id \in Ids : \A i \in DOMAIN table'[id].messages :
                            table'[id].messages[i].n # x.n
                      /\ \A w \in tasks' : w.kind = "write" =>
                            \A i \in DOMAIN w.read : w.read[i].n # x.n
                      /\ \A s \in saved' : s[2] # x.n
    BY DEF NotYetThere
  <2>1. x \in tasks /\ x.n # t.n
    BY <1>7, <1>8
  <2>2. \A i \in DOMAIN new : new[i].n # x.n
    BY <1>1, <1>3, <1>5, <2>1 DEF KeepInv, NotYetThere
  <2>3. \A id \in Ids : \A i \in DOMAIN table'[id].messages : table'[id].messages[i].n # x.n
    BY <1>6, <2>1, <2>2 DEF KeepInv, NotYetThere
  <2> QED BY <1>1, <1>7, <2>1, <2>3 DEF KeepInv, NotYetThere
<1>11. Asked'
  <2>1. \A i \in DOMAIN new : new[i].n <= questions
    BY <1>1, <1>3, <1>5, BookParts DEF KeepInv, Asked
  <2>2. \A id \in Ids : \A i \in DOMAIN table'[id].messages :
           table'[id].messages[i].n <= questions
    BY <1>6, <2>1 DEF KeepInv, Asked
  <2> QED BY <1>1, <1>7, <2>2 DEF KeepInv, Asked
<1>12. AloneAppends'
  <2> SUFFICES ASSUME NEW w \in tasks', w.kind = "write"
               PROVE  /\ w.by # None
                      /\ table'[w.id] = NoRow \/ table'[w.id].tenant = w.by
                      /\ w.id \notin crossed =>
                            /\ table'[w.id] = NoRow \/ w.read = table'[w.id].messages
                            /\ \A x \in tasks' : x.kind = "write" /\ x.id = w.id => x = w
    BY <1>1 DEF AloneAppends
  <2>1. w \in tasks /\ w.id \in Ids /\ w # t
    BY <1>1, <1>7, <1>8
  <2>2. CASE w.id # t.id
    BY <1>6, <1>7, <2>1, <2>2 DEF KeepInv, AloneAppends
  <2>3. CASE w.id = t.id
    <3>1. w.id \in crossed
      BY <1>1, <2>1, <2>3 DEF KeepInv, AloneAppends
    <3> QED BY <1>6, <2>1, <2>3, <3>1 DEF KeepInv, AloneAppends
  <2> QED BY <2>2, <2>3
<1>13. Kept'
  <2> SUFFICES ASSUME NEW s \in saved'
               PROVE  table'[s[1]] = NoRow \/ s[1] \in crossed \/ Once(table'[s[1]].messages, s[2])
    BY <1>1 DEF Kept
  <2>1. CASE s = <<t.id, t.n>>
    <3>1. s[1] = t.id /\ s[2] = t.n
      BY <2>1
    <3>2. Once(new, t.n)
      BY <1>1, <1>5 DEF KeepInv, NotYetThere
    <3>3. ~Own(t) => table[t.id] = NoRow
      BY <1>1, WebAssumption DEF KeepInv, AloneAppends, Own, Ids
    <3> QED BY <1>6, <3>1, <3>2, <3>3
  <2>2. CASE s \in saved
    <3>1. s[1] \in Ids /\ s[2] # t.n
      BY <1>1, <2>2, RowTypes DEF KeepInv, NotYetThere
    <3>2. CASE s[1] # t.id
      BY <1>6, <2>2, <3>1, <3>2 DEF KeepInv, Kept
    <3>3. CASE s[1] = t.id /\ Own(t) /\ t.id \notin crossed
      <4>1. t.read = table[t.id].messages
        BY <1>1, <1>6, <3>3 DEF KeepInv, AloneAppends
      <4>2. Once(t.read, s[2])
        BY <1>6, <2>2, <3>3, <4>1 DEF KeepInv, Kept
      <4> QED BY <1>5, <1>6, <3>1, <3>3, <4>2
    <3>4. CASE ~Own(t)
      BY <1>6, <2>2, <3>4 DEF KeepInv, Kept
    <3> QED BY <3>2, <3>3, <3>4
  <2> QED BY <1>1, <2>1, <2>2
<1> QED BY <1>9, <1>10, <1>11, <1>12, <1>13 DEF KeepInv

LEMMA DeleteKeeps ==
    ASSUME Book, Book', KeepInv, DeleteSession
    PROVE  KeepInv'
<1>1. PICK id \in Ids : /\ table' = [table EXCEPT ![id] = NoRow]
                        /\ saved' = {s \in saved : s[1] # id}
  BY DEF DeleteSession
<1>2. UNCHANGED <<tasks, questions, crossed>>
  BY DEF DeleteSession
<1>3. /\ table'[id] = NoRow /\ NoRow.messages = <<>>
      /\ \A j \in Ids : j # id => table'[j] = table[j]
      /\ \A j \in Ids : table'[j] = table[j] \/ table'[j].messages = <<>>
  <2>1. NoRow.messages = <<>>
    BY DEF NoRow
  <2> QED BY <1>1, <2>1, BookParts
<1>4. \A x \in tasks : x.kind \in {"post", "write"} => x.id \in Ids
  BY BookParts, DrawnIds DEF Placed, HasSession
<1>5. CreatedOnce'
  <2>1. \A p \in tasks : p.kind = "post" /\ table[p.id] = NoRow => table'[p.id] = NoRow
    BY <1>3, <1>4
  <2> QED BY <1>1, <1>2, <2>1 DEF KeepInv, CreatedOnce
<1>6. NotYetThere'
  BY <1>1, <1>2, <1>3 DEF KeepInv, NotYetThere
<1>7. Asked'
  BY <1>1, <1>2, <1>3 DEF KeepInv, Asked
<1>8. AloneAppends'
  <2>1. \A w \in tasks : w.kind = "write" => table'[w.id] \in {NoRow, table[w.id]}
    BY <1>3, <1>4
  <2> QED BY <1>2, <2>1 DEF KeepInv, AloneAppends
<1>9. Kept'
  <2>1. \A s \in saved' : s \in saved /\ table'[s[1]] = table[s[1]]
    BY <1>1, <1>3, RowTypes
  <2> QED BY <1>2, <2>1 DEF KeepInv, Kept
<1> QED BY <1>5, <1>6, <1>7, <1>8, <1>9 DEF KeepInv

LEMMA KeepStep == Book /\ KeepInv /\ [WebNext]_webVars => KeepInv'
<1> SUFFICES ASSUME Book, KeepInv, [WebNext]_webVars PROVE KeepInv'
  OBVIOUS
<1>0. Book'
  BY BookStep
<1>a. \A t \in tasks : SameTask(t, t)
  BY DEF SameTask, Stems
<1>b. ASSUME NEW t \in tasks, NEW u, u.n = t.n, u.kind \in {"put", "posted"},
             tasks' \in {Swap(t, {u}), tasks \ {t}},
             UNCHANGED <<table, questions, saved, crossed>>
      PROVE  KeepInv'
  <2>1. SameTask(u, t)
    BY <1>b DEF SameTask, Stems
  <2>2. \A x \in tasks' : x \in tasks \/ x = u
    BY <1>b DEF Swap
  <2> QED BY <1>0, <1>a, <1>b, <2>1, <2>2, StillKept
<1>c. ASSUME NEW ts \in SUBSET tasks, NEW os, \A o \in os : o.kind = "load",
             tasks' = Moved(ts) \cup os, UNCHANGED <<table, questions, saved, crossed>>
      PROVE  KeepInv'
  <2>1. ASSUME NEW t \in ts PROVE SameTask([t EXCEPT !.moved = TRUE], t)
    <3>1. PICK u : u = [t EXCEPT !.moved = TRUE]
      OBVIOUS
    <3>2. t \in Task
      BY BookParts
    <3>3. /\ u.kind = t.kind /\ u.n = t.n /\ u.id = t.id /\ u.by = t.by /\ u.read = t.read
      BY <3>1, <3>2 DEF Task
    <3> QED BY <3>1, <3>3 DEF SameTask, Stems
  <2>2. \A x \in tasks' : x.kind = "load" \/ \E t \in tasks : SameTask(x, t)
    <3> TAKE x \in tasks'
    <3>1. CASE x \in os
      BY <1>c, <3>1
    <3>2. CASE x \in Moved(ts)
      <4>1. PICK t \in ts : x = [t EXCEPT !.moved = TRUE]
        BY <3>2 DEF Moved
      <4> QED BY <2>1, <4>1
    <3> QED BY <1>c, <3>1, <3>2
  <2> QED BY <1>0, <1>c, <2>2, StillKept
<1>d. \A t \in tasks : t.kind # "load" => Put(t).kind = "put" /\ Put(t).n = t.n
  <2> TAKE t \in tasks
  <2>1. t \in Task
    BY BookParts
  <2> QED BY <2>1 DEF Put, Task
<1>1. ASSUME Ask \/ Rerun PROVE KeepInv'
  <2>1. PICK via \in {"send", "rerun"} : tasks' = tasks \cup {Question(via)}
    BY <1>1 DEF Ask, Rerun
  <2>2. questions' = questions + 1 /\ UNCHANGED <<table, saved, crossed>>
    BY <1>1 DEF Ask, Rerun
  <2>3. PICK q : q = Question(via)
    OBVIOUS
  <2>4. q.kind = "query" /\ q.n = questions + 1
    BY <2>3 DEF Question
  <2>5. \A x \in tasks' : x \in tasks \/ x = q
    BY <2>1, <2>3
  <2> QED BY <1>0, <1>a, <2>2, <2>4, <2>5, StillKept
<1>2. ASSUME NEW t \in tasks, Answered(t) \/ Failed(t) PROVE KeepInv'
  <2>1. t.kind = "query" /\ UNCHANGED <<table, user, questions, saved, crossed>>
    BY <1>2 DEF Answered, Failed
  <2>2. CASE tasks' \in {Swap(t, {Put(t)}), tasks \ {t}}
    <3>1. PICK u : u = Put(t)
      OBVIOUS
    <3>2. u.kind = "put" /\ u.n = t.n
      BY <1>d, <2>1, <3>1
    <3> QED BY <1>b, <2>1, <2>2, <3>1, <3>2
  <2>3. ASSUME NEW asks \in BOOLEAN, drawn' = drawn + 1,
               tasks' = Swap(t, {Post(t, drawn', asks)})
        PROVE  KeepInv'
    BY <1>0, <2>1, <2>3, FileKeeps
  <2> QED BY <1>2, <2>2, <2>3 DEF Answered, Failed, File
<1>3. ASSUME NEW t \in tasks, Created(t) PROVE KeepInv'
  <2>1. PICK u : u = Put(t)
    OBVIOUS
  <2>2. u.kind = "put" /\ u.n = t.n
    BY <1>3, <1>d, <2>1 DEF Created
  <2>3. /\ tasks' \in {Swap(t, {u}), tasks \ {t}}
        /\ UNCHANGED <<table, questions, saved, crossed>>
    BY <1>3, <2>1 DEF Created, Swap
  <2> QED BY <1>b, <2>2, <2>3
<1>4. ASSUME NEW t \in tasks, Loaded(t) PROVE KeepInv'
  <2>1. PICK ts, os : ts = tasks \ {t} /\ os = {}
    OBVIOUS
  <2>2. tasks' = Moved(ts) \cup os /\ UNCHANGED <<table, questions, saved, crossed>>
    BY <1>4, <2>1 DEF Loaded
  <2> QED BY <1>c, <2>1, <2>2
<1>5. ASSUME NEW t \in tasks, PostArrives(t) \/ PostLost(t) PROVE KeepInv'
  <2>1. /\ t.kind = "post" /\ tasks' = Swap(t, {[t EXCEPT !.kind = "posted"]})
        /\ UNCHANGED <<questions, saved, crossed>>
    BY <1>5 DEF PostArrives, PostLost
  <2>2. CASE table' = table
    <3>1. PICK u : u = [t EXCEPT !.kind = "posted"]
      OBVIOUS
    <3>2. t \in Task
      BY BookParts
    <3>3. u.kind = "posted" /\ u.n = t.n
      BY <3>1, <3>2 DEF Task
    <3> QED BY <1>b, <2>1, <2>2, <3>1, <3>3
  <2>3. CASE table' = [table EXCEPT ![t.id] = Row(t.by, <<>>)]
    <3>1. PICK by : by = t.by
      OBVIOUS
    <3> QED BY <1>0, <2>1, <2>3, <3>1, InsertKeeps
  <2> QED BY <1>5, <2>2, <2>3 DEF PostArrives, PostLost
<1>6. ASSUME NEW t \in tasks, AppendReads(t) PROVE KeepInv'
  BY <1>0, <1>6, ReadKeeps
<1>7. ASSUME NEW t \in tasks, AppendRefused(t) \/ PutLost(t) PROVE KeepInv'
  <2>1. tasks' = tasks \ {t} /\ UNCHANGED <<table, questions, saved, crossed>>
    BY <1>7 DEF AppendRefused, PutLost
  <2> QED BY <1>0, <1>a, <2>1, StillKept
<1>8. ASSUME NEW t \in tasks, AppendWrites(t) PROVE KeepInv'
  BY <1>0, <1>8, WriteKeeps
<1>9. ASSUME Switch \/ Login PROVE KeepInv'
  <2>1. UNCHANGED <<table, questions, saved, crossed>>
    BY <1>9 DEF Switch, Login
  <2>2. CASE tasks' = tasks
    BY <1>0, <1>a, <2>1, <2>2, StillKept
  <2>3. CASE tasks' # tasks
    <3>1. PICK ts, os : ts = tasks /\ (\A o \in os : o.kind = "load")
                        /\ tasks' = Moved(ts) \cup os
      BY <1>9, <2>3, Opens
    <3> QED BY <1>c, <2>1, <3>1
  <2> QED BY <2>2, <2>3
<1>10. ASSUME NewSession \/ Logout PROVE KeepInv'
  <2>1. PICK ts, os : ts = tasks /\ os = {}
    OBVIOUS
  <2>2. tasks' = Moved(ts) \cup os /\ UNCHANGED <<table, questions, saved, crossed>>
    BY <1>10, <2>1 DEF NewSession, Logout
  <2> QED BY <1>c, <2>1, <2>2
<1>11. CASE DeleteSession
  BY <1>0, <1>11, DeleteKeeps
<1>12. CASE UNCHANGED webVars
  BY <1>0, <1>12, <1>a, StillKept DEF webVars
<1> QED
  BY <1>1, <1>2, <1>3, <1>4, <1>5, <1>6, <1>7, <1>8, <1>9, <1>10, <1>11, <1>12
  DEF WebNext, Response

(* A message the API (append_message) has confirmed stays in its session,  *)
(* once, as long as the session is there and no two appends to it have     *)
(* run at the same time: for any number of questions, moves and deletes.   *)
THEOREM ConfirmedKept == WebSpec => []ConfirmedIsKept
<1>1. Book /\ KeepInv => ConfirmedIsKept
  <2> SUFFICES ASSUME Book, KeepInv, NEW s \in saved,
                      Once(table[s[1]].messages, s[2])
               PROVE  Cardinality({i \in DOMAIN table[s[1]].messages :
                                     table[s[1]].messages[i].n = s[2]}) = 1
    BY DEF KeepInv, Kept, ConfirmedIsKept
  <2>1. PICK i \in DOMAIN table[s[1]].messages :
           {j \in DOMAIN table[s[1]].messages : table[s[1]].messages[j].n = s[2]} = {i}
    BY DEF Once
  <2>2. Cardinality({i}) = 1
    BY FS_Singleton
  <2> QED BY <2>1, <2>2
<1> QED BY <1>1, KeepInit, KeepStep, BookAlways, PTL DEF WebSpec

------------------------------------------------------------------------------
(* The dialogue with a user who is asked back.  What a context refers to   *)
(* is a message of the running dialogue, or of a late question; the page   *)
(* has no context while the server works on the one it sent; and unless    *)
(* the user has opened another session, the running dialogue is still the  *)
(* one of the request.                                                     *)
DialogueInv ==
    /\ pending # NoContext => pending.orig \in open \cup late
    /\ phase = "server" =>
          /\ pending = NoContext /\ req.id \in req.open
          /\ req.context # NoContext => req.context.orig \in req.open \cup req.late
          /\ req.id \in open => open = req.open /\ late = req.late

LEMMA DialogueStart == Init => DialogueInv
BY DEF Init, DialogueInv

(* A reply is made from the request and the context it carried.            *)
LEMMA RespondIs ==
    ASSUME DialogueInv, Respond
    PROVE  DialogueInv' /\ reply'.read \cup reply'.about \subseteq req.open \cup req.late
<1>1. /\ phase = "server" /\ phase' = "user" /\ pending = NoContext /\ req.id \in req.open
      /\ req.context # NoContext => req.context.orig \in req.open \cup req.late
      /\ req.id \in open => open = req.open /\ late = req.late
  BY DEF Respond, DialogueInv
<1>2. MergedQuery \subseteq req.open \cup req.late
  BY <1>1 DEF MergedQuery
<1>3. PICK c, kept, kind, orig :
         /\ kept = (IF ClearsClarify(c) THEN NoContext ELSE req.context)
         /\ orig = (IF kept = NoContext THEN req.id ELSE kept.orig)
         /\ IF kind = "awaiting_clarification"
            THEN /\ pending' = [orig |-> orig, turn |-> kept.turn + 1]
                 /\ reply' = [kind |-> kind, read |-> MergedQuery, about |-> {orig}]
                 /\ IF req.id \in open THEN late' = late ELSE late' = {orig}
                 /\ open' = open
            ELSE /\ reply' = [kind |-> kind, read |-> MergedQuery, about |-> {req.id}]
                 /\ pending' = pending
  BY DEF Respond
<1>4. orig \in req.open \cup req.late
  BY <1>1, <1>3
<1>5. CASE kind = "awaiting_clarification"
  <2>1. pending'.orig = orig /\ reply'.read = MergedQuery /\ reply'.about = {orig}
    BY <1>3, <1>5
  <2>2. orig \in open' \cup late'
    BY <1>1, <1>3, <1>4, <1>5
  <2> QED BY <1>1, <1>2, <1>4, <2>1, <2>2 DEF DialogueInv
<1>6. CASE kind # "awaiting_clarification"
  <2>1. pending' = NoContext /\ reply'.read = MergedQuery /\ reply'.about = {req.id}
    BY <1>1, <1>3, <1>6
  <2> QED BY <1>1, <1>2, <2>1 DEF DialogueInv
<1> QED BY <1>5, <1>6

LEMMA DialogueStep ==
    ASSUME DialogueInv, [Next]_vars
    PROVE  /\ DialogueInv'
           /\ reply' # reply => reply'.read \cup reply'.about \subseteq req.open \cup req.late
<1>1. CASE Send
  <2>1. PICK text, chip, llm :
           req' = [id |-> sent', text |-> text, chip |-> chip, llm |-> llm, context |-> pending,
                   open |-> open', late |-> late]
    BY <1>1 DEF Send
  <2>2. req'.id = sent' /\ req'.context = pending /\ req'.open = open' /\ req'.late = late
    BY <2>1
  <2>3. /\ phase = "user" /\ pending' = NoContext /\ open' = open \cup {sent'} /\ late' = late
        /\ reply' = reply
    BY <1>1 DEF Send
  <2> QED BY <2>2, <2>3 DEF DialogueInv
<1>2. CASE RequestFails
  <2>1. reply'.read = {} /\ reply'.about = {}
    BY <1>2 DEF RequestFails
  <2>2. phase = "server" /\ phase' = "user" /\ pending' = pending
    BY <1>2 DEF RequestFails
  <2>3. pending' = NoContext
    BY <2>2 DEF DialogueInv
  <2> QED BY <2>1, <2>2, <2>3 DEF DialogueInv
<1>3. CASE SwitchSession
  BY <1>3 DEF SwitchSession, DialogueInv
<1>4. CASE Respond
  BY <1>4, RespondIs
<1>5. CASE UNCHANGED vars
  BY <1>5 DEF vars, DialogueInv
<1> QED BY <1>1, <1>2, <1>3, <1>4, <1>5 DEF Next

(* Whatever failed or was left in between, a reply is made from, and is    *)
(* about, messages of the dialogue its request was sent in, or the one     *)
(* that a question was about which arrived after its session was left      *)
(* (route_node, clarify_node, _pendingClarifyCtx of the web client).       *)
THEOREM RepliesStay == Spec => ReplyStaysInDialogue
<1>1. DialogueInv /\ [Next]_vars => DialogueInv'
  BY DialogueStep
<1>2. DialogueInv /\ [Next]_vars =>
         [reply' # reply => reply'.read \cup reply'.about \subseteq req.open \cup req.late]_vars
  BY DialogueStep
<1> QED BY DialogueStart, <1>1, <1>2, PTL DEF Spec, ReplyStaysInDialogue
==============================================================================
