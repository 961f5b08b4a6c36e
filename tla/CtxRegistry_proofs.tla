-------------------------- MODULE CtxRegistry_proofs --------------------------
(* Proofs about CtxRegistry for any number of instances and contexts.      *)
EXTENDS CtxRegistry, TLAPS

(* No get is under way in the instance that runs the query until the query *)
(* removes its context: every get there hits.                              *)
HomeHits ==
    \A c \in Ctxs : query[c] \in {"new", "saving", "running"} => lookup[home[c]][c] = "idle"

(* A running query without a fresh row has an excuse.                      *)
RowExcused ==
    \A c \in Ctxs :
        /\ query[c] = "running" /\ row[c] = "absent" => c \in unsaved \cup aged
        /\ row[c] = "expired" => c \in aged
        /\ \A i \in Instances : lookup[i][c] = "expired" => c \in aged

(* After remove nothing is on its way back into the dictionary, unless the *)
(* row outlived it or was read before it was deleted.                      *)
NothingComesBack ==
    \A c \in Ctxs : c \notin revived =>
        /\ query[c] \in {"deleting", "done"} =>
              local[home[c]][c] = "none" /\ lookup[home[c]][c] # "loaded"
        /\ query[c] = "done" => row[c] # "fresh"

RegistryInv ==
    /\ ContextsTyped /\ HomeHits /\ RowExcused /\ OwnContextKept /\ RunningIsFound
    /\ NothingComesBack

LEMMA RegistryInit == ContextInit => RegistryInv
BY DEF ContextInit, RegistryInv, ContextsTyped, QueryStates, LookupStates, HomeHits, RowExcused,
       OwnContextKept, RunningIsFound, NothingComesBack

LEMMA RegistryStep == RegistryInv /\ [ContextNext]_contextVars => RegistryInv'
<1> SUFFICES ASSUME RegistryInv, [ContextNext]_contextVars PROVE RegistryInv'
  OBVIOUS
<1> USE DEF RegistryInv, ContextsTyped, QueryStates, LookupStates, HomeHits, RowExcused,
            OwnContextKept, RunningIsFound, NothingComesBack, Reasons, Misses
<1>1. ASSUME NEW c \in Ctxs, Register(c) PROVE RegistryInv'
  BY <1>1 DEF Register
<1>2. ASSUME NEW c \in Ctxs, Save(c) PROVE RegistryInv'
  BY <1>2 DEF Save
<1>3. ASSUME NEW c \in Ctxs, Remove(c) PROVE RegistryInv'
  BY <1>3 DEF Remove
<1>4. ASSUME NEW c \in Ctxs, Delete(c) PROVE RegistryInv'
  BY <1>4 DEF Delete
<1>5. ASSUME NEW c \in Ctxs, Expire(c) PROVE RegistryInv'
  BY <1>5 DEF Expire
<1>6. ASSUME NEW i \in Instances, NEW c \in Ctxs, Miss(i, c) PROVE RegistryInv'
  BY <1>6 DEF Miss
<1>7. ASSUME NEW i \in Instances, NEW c \in Ctxs, Load(i, c) PROVE RegistryInv'
  <2>1. PICK to \in LookupStates :
           /\ lookup' = [lookup EXCEPT ![i][c] = to] /\ lookup[i][c] = "missed" /\ to # "missed"
           /\ to = "loaded" <=> row[c] = "fresh"
           /\ to = "expired" <=> row[c] = "expired"
    BY <1>7 DEF Load
  <2>2. /\ lookup' \in [Instances -> [Ctxs -> LookupStates]] /\ lookup'[i][c] = to
        /\ \A h \in Instances, x \in Ctxs : h # i \/ x # c => lookup'[h][x] = lookup[h][x]
    BY <2>1
  <2>3. /\ query' = query /\ home' = home /\ local' = local /\ row' = row
        /\ unsaved' = unsaved /\ aged' = aged
        /\ revived \subseteq revived' /\ revived' \subseteq Ctxs
        /\ row[c] = "fresh" /\ i = home[c] /\ query[c] = "deleting" => c \in revived'
    BY <1>7 DEF Load
  <2>4. \/ lost' = lost
        \/ /\ query[c] = "running" /\ row[c] \in {"expired", "absent"}
           /\ lost' = lost \cup {[ctx |-> c, why |-> row[c]]}
    BY <1>7 DEF Load
  <2>5. lost' \subseteq [ctx : Ctxs, why : Reasons] /\ RunningIsFound'
    <3>1. c \in aged \/ c \in unsaved \/ lost' = lost
      BY <2>4
    <3> QED BY <2>3, <2>4, <3>1
  <2>6. ContextsTyped'
    BY <2>2, <2>3, <2>5
  <2>7. HomeHits' /\ RowExcused' /\ OwnContextKept'
    BY <2>1, <2>2, <2>3
  <2>8. NothingComesBack'
    <3> SUFFICES ASSUME NEW x \in Ctxs, x \notin revived'
                 PROVE  /\ query'[x] \in {"deleting", "done"} =>
                              local'[home'[x]][x] = "none" /\ lookup'[home'[x]][x] # "loaded"
                        /\ query'[x] = "done" => row'[x] # "fresh"
      OBVIOUS
    <3>1. x \notin revived /\ home[x] \in Instances
      BY <2>3
    <3> QED BY <2>1, <2>2, <2>3, <3>1
  <2> QED BY <2>5, <2>6, <2>7, <2>8
<1>8. ASSUME NEW i \in Instances, NEW c \in Ctxs, LoadFails(i, c) PROVE RegistryInv'
  BY <1>8 DEF LoadFails
<1>9. ASSUME NEW i \in Instances, NEW c \in Ctxs, DeleteExpired(i, c) PROVE RegistryInv'
  BY <1>9 DEF DeleteExpired
<1>10. ASSUME NEW i \in Instances, NEW c \in Ctxs, Install(i, c) PROVE RegistryInv'
  BY <1>10 DEF Install
<1>11. ASSUME NEW i \in Instances, Crash(i) PROVE RegistryInv'
  BY <1>11 DEF Crash, Active
<1>12. CASE UNCHANGED contextVars
  BY <1>12 DEF contextVars
<1> QED
  BY <1>1, <1>2, <1>3, <1>4, <1>5, <1>6, <1>7, <1>8, <1>9, <1>10, <1>11, <1>12
  DEF ContextNext, QueryStep, LookupStep

LEMMA RegistryInvariance == ContextSpec => []RegistryInv
BY RegistryInit, RegistryStep, PTL DEF ContextSpec

(* Whatever instances call get, crash or restart, a query keeps the        *)
(* context it registered.                                                  *)
THEOREM OwnKept == ContextSpec => []OwnContextKept
BY RegistryInvariance, PTL DEF RegistryInv

(* A get of a running query that can read and rebuild what the table has   *)
(* fails only if the snapshot was never saved or passed its TTL.           *)
THEOREM FoundWhileRunning == ContextSpec => []RunningIsFound
BY RegistryInvariance, PTL DEF RegistryInv

(* When a query is done its instance has no copy of the context, not even  *)
(* one rebuilt by a get that crossed the removal, unless the row could not *)
(* be deleted or that get read it in between.                              *)
THEOREM LeftForGood == ContextSpec => [](\A c \in Ctxs : GoneForGood(c))
<1>1. RegistryInv => \A c \in Ctxs : GoneForGood(c)
  BY DEF RegistryInv, NothingComesBack, GoneForGood
<1> QED BY <1>1, RegistryInvariance, PTL
==============================================================================
