--------------------------- MODULE EffectorProofs ---------------------------
(***************************************************************************)
(* Proofs about Effector for every log, group, lease and fault budget.     *)
(***************************************************************************)
EXTENDS Effector, FiniteSetTheorems, TLAPS

-----------------------------------------------------------------------------
(* The awaits at which a worker has a delivery in hand, those it reaches     *)
(* only with a verified delivery, and those between claim and complete.      *)
Busy    == {"dead_letter", "claim", "granted", "running", "notify", "complete",
            "publish", "commit"}
Trusted == {"claim", "granted", "running", "notify", "complete", "publish"}
Holding == {"granted", "running", "notify", "complete"}

(* The delivery in hand is one of the log, the consumer stands right after   *)
(* it, and phase 0 has sorted it by its verification.                        *)
DeliveryInv ==
    \A m \in Members :
        /\ pc[m] \in Busy => at[m] \in Offsets /\ next[m] = at[m] + 1
        /\ pc[m] \in Trusted => verified(at[m])
        /\ pc[m] = "dead_letter" => ~verified(at[m])

(* Every offset of the partition carries an intent of the topic.             *)
LEMMA LogType == \A p \in Offsets : Log[p] \in IntentIds
  BY EffectorAssumption DEF Offsets

(* claim, complete and release write records of the store's own shape.       *)
LEMMA StoreOpsType ==
    ASSUME TypeOK, NEW i \in IntentIds, NEW t \in Nat, NEW res \in SUBSET Results,
           claim(i) \/ complete(i, t, res) \/ release(i, t) \/ UNCHANGED store
    PROVE  /\ records' \in [IntentIds -> SUBSET Records]
           /\ tokens' \in Nat
           /\ lapses' \in [IntentIds -> Nat]
<1>. USE StoreAssumption DEF TypeOK
<1>1. Claim(tokens + 1, clock + LeaseMs) \in Records
  BY DEF Claim, Records
<1>2. Terminal(res, clock + ResultTtlMs) \in Records
  BY DEF Terminal, Records
<1>3. CASE claim(i)
  BY <1>1, <1>3 DEF claim
<1>4. CASE complete(i, t, res)
  BY <1>2, <1>4 DEF complete
<1>5. CASE release(i, t)
  BY <1>5 DEF release
<1>6. CASE UNCHANGED store
  BY <1>6 DEF store
<1>7. QED
  BY <1>3, <1>4, <1>5, <1>6

(* Each of the four statuses makes a result of the results topic's type.     *)
LEMMA ResultType ==
    ASSUME NEW i \in IntentIds, NEW t \in Nat,
           NEW status \in {"OK", "ERROR", "REJECTED", "EXPIRED"}
    PROVE  {Result(i, status, t)} \in SUBSET Results
  BY DEF Result, Results

(* ReleaseClaim and Stopped keep the types, and leave the worker with no     *)
(* delivery in hand.                                                         *)
LEMMA StoppedType ==
    ASSUME TypeOK, DeliveryInv, NEW m \in Members, Stopped(m),
           claims' \in {claims, [claims EXCEPT ![m] = {}]},
           ReleaseClaim(m) \/ UNCHANGED store, faults' \in Nat
    PROVE  TypeOK' /\ DeliveryInv'
<1>1. /\ records' \in [IntentIds -> SUBSET Records]
      /\ tokens' \in Nat
      /\ lapses' \in [IntentIds -> Nat]
  <2>1. CASE UNCHANGED store
    BY <2>1 DEF TypeOK, store
  <2>2. CASE \E c \in claims[m] : release(c.id, c.token)
    <3>1. PICK c \in claims[m] : release(c.id, c.token)
      BY <2>2
    <3>2. c.id \in IntentIds /\ c.token \in Nat
      BY DEF TypeOK, Claims
    <3>3. QED
      BY <3>1, <3>2 DEF release, TypeOK
  <2>3. QED
    BY <2>1, <2>2 DEF ReleaseClaim
<1>2. TypeOK'
  BY <1>1 DEF Stopped, TypeOK, Pcs, topics, effects
<1>3. DeliveryInv'
  BY DEF Stopped, TypeOK, DeliveryInv, Busy, Trusted
<1>4. QED
  BY <1>2, <1>3

(* TypeOK and DeliveryInv together are inductive.                            *)
LEMMA TypeStep ==
    ASSUME TypeOK, DeliveryInv, [Next]_vars
    PROVE  TypeOK' /\ DeliveryInv'
<1>. USE DEF Pcs, Busy, Trusted
<1>1. ASSUME NEW m \in Members, Assign(m) PROVE TypeOK' /\ DeliveryInv'
  BY <1>1 DEF Assign, TypeOK, DeliveryInv, store, topics, effects
<1>2. ASSUME NEW m \in Members, Fetch(m) PROVE TypeOK' /\ DeliveryInv'
  <2>0. {Result(Log[next[m]], "EXPIRED", 0)} \in SUBSET Results
    BY <1>2, LogType, ResultType DEF Fetch
  <2>1. /\ at' \in [Members -> Nat] /\ next' \in [Members -> Nat]
        /\ pc' \in [Members -> Pcs]
        /\ token' \in [Members -> Nat]
    BY <1>2 DEF Fetch, TypeOK
  <2>5. outcome' \in [Members -> SUBSET Results]
    BY <1>2, <2>0 DEF Fetch, TypeOK
  <2>2. TypeOK'
    BY <1>2, <2>1, <2>5 DEF Fetch, TypeOK, store, topics, effects, broker
  <2>3. DeliveryInv'
    BY <1>2 DEF Fetch, TypeOK, DeliveryInv, Offsets
  <2>4. QED
    BY <2>2, <2>3
<1>3. ASSUME NEW m \in Members, ClaimGranted(m) PROVE TypeOK' /\ DeliveryInv'
  <2>1. Log[at[m]] \in IntentIds
    BY <1>3, LogType DEF ClaimGranted, DeliveryInv
  <2>2. /\ records' \in [IntentIds -> SUBSET Records]
        /\ tokens' \in Nat
        /\ lapses' \in [IntentIds -> Nat]
    BY <1>3, <2>1, StoreOpsType DEF ClaimGranted
  <2>3. QED
    BY <1>3, <2>2 DEF ClaimGranted, TypeOK, DeliveryInv, topics, effects, broker
<1>4. ASSUME NEW m \in Members, ClaimDone(m) PROVE TypeOK' /\ DeliveryInv'
  <2>1. Log[at[m]] \in IntentIds
    BY <1>4, LogType DEF ClaimDone, DeliveryInv
  <2>2. outcome' \in [Members -> SUBSET Results]
    BY <1>4, <2>1 DEF ClaimDone, TypeOK, done, live, Records
  <2>3. TypeOK'
    BY <1>4, <2>2 DEF ClaimDone, TypeOK, store, topics, effects, broker
  <2>4. DeliveryInv'
    BY <1>4 DEF ClaimDone, TypeOK, DeliveryInv
  <2>5. QED
    BY <2>3, <2>4
<1>5. ASSUME NEW m \in Members, Begin(m) PROVE TypeOK' /\ DeliveryInv'
  <2>1. Log[at[m]] \in IntentIds /\ at[m] \in Offsets
    BY <1>5, LogType DEF Begin, DeliveryInv
  <2>0. {Result(Log[at[m]], "REJECTED", token[m])} \in SUBSET Results
    BY <2>1, ResultType DEF TypeOK
  <2>2. /\ invoked' \in [IntentIds -> Nat]
        /\ ran' \subseteq Offsets
        /\ pc' \in [Members -> Pcs]
    BY <1>5, <2>1 DEF Begin, TypeOK, effects
  <2>6. outcome' \in [Members -> SUBSET Results]
    BY <1>5, <2>0 DEF Begin, TypeOK
  <2>7. claims' \in [Members -> SUBSET Claims]
    <3>1. PICK e \in BOOLEAN :
            claims' = [claims EXCEPT ![m] =
                         {[id |-> Log[at[m]], token |-> token[m], executing |-> e]}]
      BY <1>5 DEF Begin
    <3>2. [id |-> Log[at[m]], token |-> token[m], executing |-> e] \in Claims
      BY <2>1 DEF Claims, TypeOK
    <3>3. QED
      BY <3>1, <3>2 DEF TypeOK
  <2>3. TypeOK'
    BY <1>5, <2>2, <2>6, <2>7 DEF Begin, TypeOK, store, topics, broker
  <2>4. DeliveryInv'
    BY <1>5 DEF Begin, TypeOK, DeliveryInv
  <2>5. QED
    BY <2>3, <2>4
<1>6. ASSUME NEW m \in Members, Finish(m) PROVE TypeOK' /\ DeliveryInv'
  <2>1. Log[at[m]] \in IntentIds
    BY <1>6, LogType DEF Finish, DeliveryInv
  <2>2. outcome' \in [Members -> SUBSET Results]
    BY <1>6, <2>1 DEF Finish, TypeOK, Results, Result
  <2>3. QED
    BY <1>6, <2>2 DEF Finish, TypeOK, DeliveryInv, store, topics, effects, broker
<1>7. ASSUME NEW m \in Members, Complete(m) PROVE TypeOK' /\ DeliveryInv'
  <2>1. Log[at[m]] \in IntentIds /\ token[m] \in Nat /\ outcome[m] \in SUBSET Results
    BY <1>7, LogType DEF Complete, DeliveryInv, TypeOK
  <2>2. /\ records' \in [IntentIds -> SUBSET Records]
        /\ tokens' \in Nat
        /\ lapses' \in [IntentIds -> Nat]
    BY <1>7, <2>1, StoreOpsType DEF Complete
  <2>3. QED
    BY <1>7, <2>2 DEF Complete, TypeOK, DeliveryInv, topics, effects, broker
<1>8. ASSUME NEW m \in Members, LoseClaim(m) PROVE TypeOK' /\ DeliveryInv'
  BY <1>8 DEF LoseClaim, TypeOK, DeliveryInv, store, topics, effects, broker
<1>9. ASSUME NEW m \in Members, Land(m),
             pc[m] \in {"publish", "notify", "dead_letter"}
      PROVE  /\ results' \subseteq Results
             /\ notified' \in [IntentIds -> Nat]
             /\ buried' \subseteq Offsets
  <2>1. Log[at[m]] \in IntentIds /\ at[m] \in Offsets
    BY <1>9, LogType DEF DeliveryInv
  <2>2. QED
    BY <1>9, <2>1 DEF Land, TypeOK
<1>10. ASSUME NEW m \in Members, Publish(m) PROVE TypeOK' /\ DeliveryInv'
  <2>1. TypeOK'
    BY <1>9, <1>10 DEF Publish, TypeOK, store, effects, broker
  <2>2. DeliveryInv'
    BY <1>10 DEF Publish, TypeOK, DeliveryInv
  <2>3. QED
    BY <2>1, <2>2
<1>11. ASSUME NEW m \in Members, Commit(m) PROVE TypeOK' /\ DeliveryInv'
  BY <1>11 DEF Commit, TypeOK, DeliveryInv, store, topics, effects
<1>12. ASSUME NEW m \in Members, CommitFenced(m) PROVE TypeOK' /\ DeliveryInv'
  BY <1>12 DEF CommitFenced, TypeOK, DeliveryInv, store, topics, effects, broker
<1>13. ASSUME NEW m \in Members, PublishFails(m) PROVE TypeOK' /\ DeliveryInv'
  <2>1. tries' \in [Members -> Nat]
    BY <1>13, EffectorAssumption DEF PublishFails, TypeOK
  <2>2. /\ results' \subseteq Results
        /\ notified' \in [IntentIds -> Nat]
        /\ buried' \subseteq Offsets
    BY <1>9, <1>13 DEF PublishFails, TypeOK, topics
  <2>3. TypeOK'
    BY <1>13, <2>1, <2>2 DEF PublishFails, TypeOK, Fault, store, effects, broker
  <2>4. DeliveryInv'
    BY <1>13 DEF PublishFails, TypeOK, DeliveryInv
  <2>5. QED
    BY <2>3, <2>4
<1>14. ASSUME NEW m \in Members, StoreFails(m) PROVE TypeOK' /\ DeliveryInv'
  <2>1. Log[at[m]] \in IntentIds /\ token[m] \in Nat /\ outcome[m] \in SUBSET Results
    BY <1>14, LogType DEF StoreFails, DeliveryInv, TypeOK
  <2>2. /\ records' \in [IntentIds -> SUBSET Records]
        /\ tokens' \in Nat
        /\ lapses' \in [IntentIds -> Nat]
    BY <1>14, <2>1, StoreOpsType DEF StoreFails
  <2>3. QED
    BY <1>14, <2>2 DEF StoreFails, TypeOK, DeliveryInv, Fault, topics, effects, broker
<1>15. ASSUME NEW m \in Members,
              Revoke(m) \/ Shutdown(m) \/ Crash(m) \/ Rejoin(m)
       PROVE  TypeOK' /\ DeliveryInv'
  <2>1. faults' \in Nat
    BY <1>15 DEF Revoke, Shutdown, Crash, Rejoin, Fault, TypeOK
  <2>2. Stopped(m) /\ claims' \in {claims, [claims EXCEPT ![m] = {}]}
    BY <1>15 DEF Revoke, Shutdown, Crash, Rejoin, OnRevoked
  <2>3. ReleaseClaim(m) \/ UNCHANGED store
    BY <1>15 DEF Revoke, Shutdown, Crash, Rejoin, OnRevoked
  <2>4. QED
    BY <2>1, <2>2, <2>3, StoppedType
<1>16. ASSUME NEW m \in Members, Evict(m) PROVE TypeOK' /\ DeliveryInv'
  BY <1>16 DEF Evict, Fault, TypeOK, DeliveryInv, store, worker, topics, effects
<1>17. CASE Tick
  BY <1>17 DEF Tick, TypeOK, DeliveryInv, store, worker, topics, effects, broker
<1>18. CASE UNCHANGED vars
  BY <1>18 DEF vars, TypeOK, DeliveryInv, store, worker, topics, effects, broker
<1>19. QED
  BY <1>1, <1>2, <1>3, <1>4, <1>5, <1>6, <1>7, <1>8, <1>10, <1>11, <1>12, <1>13, <1>14,
     <1>15, <1>16, <1>17, <1>18 DEF Next, Step, Disturb

(* Every state of the effector is well typed, and a worker only ever has a   *)
(* delivery of its log in hand, verified when it is past phase 0.            *)
THEOREM EffectorTypeCorrect == Spec => [](TypeOK /\ DeliveryInv)
<1>1. Init => TypeOK /\ DeliveryInv
  BY DEF Init, StoreInit, TypeOK, DeliveryInv, Pcs, Busy, Trusted
<1>2. TypeOK /\ DeliveryInv /\ [Next]_vars => (TypeOK /\ DeliveryInv)'
  BY TypeStep
<1>3. QED
  BY <1>1, <1>2, PTL DEF Spec

-----------------------------------------------------------------------------
(* The members that may still turn a claim of intent i into an invocation or *)
(* a release: a grant not yet begun, or a registered claim whose tool has    *)
(* not been invoked.                                                         *)
unspent(i) ==
    {m \in Members : \/ pc[m] = "granted" /\ Log[at[m]] = i
                     \/ \E c \in claims[m] : c.id = i /\ ~c.executing}

(* Every grant of the store is paid for, by a record that ran out or by the  *)
(* one that stands now, and pays for one invocation.  A release takes the    *)
(* standing record away, which only an unspent claim may do.                 *)
MeterInv ==
    \A i \in IntentIds :
        invoked[i] + Cardinality(unspent(i)) <=
            lapses[i] + (IF records[i] = {} THEN 0 ELSE 1)

(* Sets of members are finite, and grow by at most the member that acts.     *)
LEMMA UnspentCount ==
    ASSUME NEW S \in SUBSET Members, NEW T \in SUBSET Members, NEW m \in Members
    PROVE  /\ Cardinality(S) \in Nat
           /\ S \subseteq T => Cardinality(S) <= Cardinality(T)
           /\ S \subseteq T \cup {m} => Cardinality(S) <= Cardinality(T) + 1
           /\ S \subseteq T \ {m} /\ m \in T => Cardinality(S) <= Cardinality(T) - 1
<1>1. IsFiniteSet(S) /\ IsFiniteSet(T)
  BY EffectorAssumption, FS_Subset
<1>2. Cardinality(S) \in Nat /\ Cardinality(T) \in Nat
  BY <1>1, FS_CardinalityType
<1>3. S \subseteq T => Cardinality(S) <= Cardinality(T)
  BY <1>1, FS_Subset
<1>4. ASSUME S \subseteq T \cup {m} PROVE Cardinality(S) <= Cardinality(T) + 1
  <2>1. IsFiniteSet(T \cup {m}) /\ Cardinality(T \cup {m}) <= Cardinality(T) + 1
    <3>1. /\ IsFiniteSet(T \cup {m})
          /\ Cardinality(T \cup {m}) =
                IF m \in T THEN Cardinality(T) ELSE Cardinality(T) + 1
      BY <1>1, FS_AddElement
    <3>2. QED
      BY <1>2, <3>1
  <2>2. Cardinality(S) <= Cardinality(T \cup {m})
    BY <1>4, <2>1, FS_Subset
  <2>3. Cardinality(T \cup {m}) \in Nat
    BY <2>1, FS_CardinalityType
  <2>4. QED
    BY <1>2, <2>1, <2>2, <2>3
<1>5. ASSUME S \subseteq T \ {m}, m \in T PROVE Cardinality(S) <= Cardinality(T) - 1
  <2>1. IsFiniteSet(T \ {m}) /\ Cardinality(T \ {m}) = Cardinality(T) - 1
    BY <1>1, <1>5, FS_RemoveElement
  <2>2. Cardinality(S) <= Cardinality(T \ {m})
    BY <1>5, <2>1, FS_Subset
  <2>3. QED
    BY <2>1, <2>2
<1>6. QED
  BY <1>2, <1>3, <1>4, <1>5

LEMMA UnspentType ==
    \A i : unspent(i) \in SUBSET Members /\ unspent(i)' \in SUBSET Members
  BY DEF unspent

(* A step that invokes nothing, forgets no record and no lapse, and makes no *)
(* claim unspent keeps the account.                                          *)
LEMMA MeterKept ==
    ASSUME TypeOK, TypeOK', MeterInv, UNCHANGED invoked,
           \A i \in IntentIds :
              /\ lapses'[i] >= lapses[i]
              /\ records[i] # {} => records'[i] # {}
              /\ unspent(i)' \subseteq unspent(i)
    PROVE  MeterInv'
<1>. SUFFICES ASSUME NEW i \in IntentIds
              PROVE  invoked'[i] + Cardinality(unspent(i)') <=
                        lapses'[i] + (IF records'[i] = {} THEN 0 ELSE 1)
  BY DEF MeterInv
<1>1. CASE Members = {}
  <2>1. unspent(i)' = unspent(i)
    BY <1>1 DEF unspent
  <2>2. Cardinality(unspent(i)) \in Nat
    <3>1. unspent(i) = {}
      BY <1>1 DEF unspent
    <3>2. QED
      BY <3>1, FS_EmptySet
  <2>3. QED
    BY <2>1, <2>2 DEF MeterInv, TypeOK
<1>2. CASE Members # {}
  <2>1. PICK m \in Members : TRUE
    BY <1>2
  <2>2. /\ Cardinality(unspent(i)) \in Nat
        /\ Cardinality(unspent(i)') \in Nat
        /\ Cardinality(unspent(i)') <= Cardinality(unspent(i))
    BY <2>1, UnspentCount, UnspentType
  <2>3. QED
    BY <2>2 DEF MeterInv, TypeOK
<1>3. QED
  BY <1>1, <1>2

(* A grant is paid for by the record it writes or by the one that ran out.   *)
LEMMA GrantPays ==
    ASSUME TypeOK, NEW i \in IntentIds, claim(i)
    PROVE  /\ lapses'[i] = lapses[i] + (IF records[i] = {} THEN 0 ELSE 1)
           /\ records'[i] # {}
           /\ \A j \in IntentIds \ {i} : lapses'[j] = lapses[j] /\ records'[j] = records[j]
<1>1. records[i] # {} <=> \E r \in records[i] : r.expires <= clock
  BY DEF claim, live, TypeOK, Records
<1>2. QED
  BY <1>1 DEF claim, TypeOK

(* The account of invocations against lapses is kept by every step.          *)
LEMMA MeterStep ==
    ASSUME TypeOK, DeliveryInv, TypeOK', MeterInv, [Next]_vars
    PROVE  MeterInv'
<1>1. ASSUME NEW m \in Members,
             \/ Assign(m) \/ Fetch(m) \/ ClaimDone(m) \/ Finish(m) \/ LoseClaim(m)
             \/ Publish(m) \/ Commit(m) \/ CommitFenced(m) \/ PublishFails(m) \/ Evict(m)
      PROVE  MeterInv'
  <2>1. UNCHANGED <<records, tokens, lapses, invoked>>
    BY <1>1 DEF Assign, Fetch, ClaimDone, Finish, LoseClaim, Publish, Commit, CommitFenced,
                PublishFails, Evict, store, effects
  <2>2. \A n \in Members : pc'[n] = "granted" => pc[n] = "granted" /\ at'[n] = at[n]
    BY <1>1 DEF TypeOK, Assign, Fetch, ClaimDone, Finish, LoseClaim, Publish, Commit,
                CommitFenced, PublishFails, Evict, worker
  <2>3. \A n \in Members : claims'[n] \subseteq claims[n]
    BY <1>1 DEF TypeOK, Assign, Fetch, ClaimDone, Finish, LoseClaim, Publish, Commit,
                CommitFenced, PublishFails, Evict, worker
  <2>4. \A i \in IntentIds : unspent(i)' \subseteq unspent(i)
    BY <2>2, <2>3 DEF unspent
  <2>5. QED
    BY <2>1, <2>4, MeterKept DEF TypeOK
<1>2. ASSUME NEW m \in Members, Complete(m) \/ StoreFails(m)
      PROVE  MeterInv'
  <2>1. Log[at[m]] \in IntentIds
    BY <1>2, LogType DEF Complete, StoreFails, DeliveryInv, Busy
  <2>2. \A i \in IntentIds : lapses'[i] >= lapses[i] /\ (records[i] # {} => records'[i] # {})
    <3>1. CASE claim(Log[at[m]])
      BY <2>1, <3>1, GrantPays DEF TypeOK
    <3>2. CASE complete(Log[at[m]], token[m], outcome[m])
      <4>1. PICK rec : records' = [records EXCEPT ![Log[at[m]]] = {rec}]
        BY <3>2 DEF complete
      <4>2. \A i \in IntentIds : records[i] # {} => records'[i] # {}
        BY <2>1, <4>1 DEF TypeOK
      <4>3. UNCHANGED lapses
        BY <3>2 DEF complete
      <4>4. QED
        BY <4>2, <4>3 DEF TypeOK
    <3>3. CASE UNCHANGED store
      BY <3>3 DEF store, TypeOK
    <3>4. QED
      BY <1>2, <3>1, <3>2, <3>3 DEF Complete, StoreFails
  <2>3. \A i \in IntentIds : unspent(i)' \subseteq unspent(i)
    <3>1. \A n \in Members : pc'[n] = "granted" => pc[n] = "granted"
      BY <1>2 DEF TypeOK, Complete, StoreFails
    <3>2. UNCHANGED <<at, claims>>
      BY <1>2 DEF Complete, StoreFails
    <3>3. QED
      BY <3>1, <3>2 DEF unspent
  <2>4. UNCHANGED invoked
    BY <1>2 DEF Complete, StoreFails, effects
  <2>5. QED
    BY <2>2, <2>3, <2>4, MeterKept
<1>3. ASSUME NEW m \in Members, ClaimGranted(m) PROVE MeterInv'
  <2>1. Log[at[m]] \in IntentIds /\ claim(Log[at[m]])
    BY <1>3, LogType DEF ClaimGranted, DeliveryInv, Busy
  <2>2. SUFFICES ASSUME NEW i \in IntentIds
                 PROVE  invoked'[i] + Cardinality(unspent(i)') <=
                           lapses'[i] + (IF records'[i] = {} THEN 0 ELSE 1)
    BY DEF MeterInv
  <2>3. UNCHANGED <<at, claims, invoked>> /\ pc' = [pc EXCEPT ![m] = "granted"]
    BY <1>3 DEF ClaimGranted, effects
  <2>4. /\ Cardinality(unspent(i)) \in Nat /\ Cardinality(unspent(i)') \in Nat
        /\ invoked[i] + Cardinality(unspent(i)) <=
              lapses[i] + (IF records[i] = {} THEN 0 ELSE 1)
    BY UnspentCount, UnspentType DEF MeterInv
  <2>5. CASE i = Log[at[m]]
    <3>1. unspent(i)' \subseteq unspent(i) \cup {m}
      BY <2>3 DEF unspent, TypeOK
    <3>2. Cardinality(unspent(i)') <= Cardinality(unspent(i)) + 1
      BY <3>1, UnspentCount, UnspentType
    <3>3. QED
      BY <2>1, <2>3, <2>4, <2>5, <3>2, GrantPays DEF TypeOK
  <2>6. CASE i # Log[at[m]]
    <3>1. unspent(i)' \subseteq unspent(i)
      BY <2>3, <2>6 DEF unspent, TypeOK
    <3>2. Cardinality(unspent(i)') <= Cardinality(unspent(i))
      BY <3>1, UnspentCount, UnspentType
    <3>3. QED
      BY <2>1, <2>3, <2>4, <2>6, <3>2, GrantPays DEF TypeOK
  <2>7. QED
    BY <2>5, <2>6
<1>4. ASSUME NEW m \in Members, Begin(m) PROVE MeterInv'
  <2>1. Log[at[m]] \in IntentIds
    BY <1>4, LogType DEF Begin, DeliveryInv, Busy
  <2>2. UNCHANGED <<records, lapses, at>>
    BY <1>4 DEF Begin, store
  <2>3. m \in unspent(Log[at[m]])
    BY <1>4 DEF Begin, unspent
  <2>4. SUFFICES ASSUME NEW i \in IntentIds
                 PROVE  invoked'[i] + Cardinality(unspent(i)') <=
                           lapses'[i] + (IF records'[i] = {} THEN 0 ELSE 1)
    BY DEF MeterInv
  <2>5. /\ Cardinality(unspent(i)) \in Nat /\ Cardinality(unspent(i)') \in Nat
        /\ invoked[i] + Cardinality(unspent(i)) <=
              lapses[i] + (IF records[i] = {} THEN 0 ELSE 1)
    BY UnspentCount, UnspentType DEF MeterInv
  <2>6. \A n \in Members : pc'[n] = "granted" => pc[n] = "granted" /\ n # m
    BY <1>4 DEF Begin, TypeOK
  <2>7. \A n \in Members \ {m} : claims'[n] = claims[n]
    BY <1>4 DEF Begin, TypeOK
  <2>8. \A c \in claims'[m] : c.id = Log[at[m]]
    BY <1>4 DEF Begin, TypeOK
  <2>9. unspent(i)' \subseteq unspent(i)
    <3>1. SUFFICES ASSUME NEW n \in Members, n \in unspent(i)' PROVE n \in unspent(i)
      BY DEF unspent
    <3>2. CASE n = m
      BY <2>2, <2>3, <2>6, <2>8, <3>1, <3>2 DEF unspent
    <3>3. CASE n # m
      BY <2>2, <2>6, <2>7, <3>1, <3>3 DEF unspent
    <3>4. QED
      BY <3>2, <3>3
  <2>10. CASE UNCHANGED invoked
    <3>1. Cardinality(unspent(i)') <= Cardinality(unspent(i))
      BY <2>9, UnspentCount, UnspentType
    <3>2. QED
      BY <2>2, <2>5, <2>10, <3>1 DEF TypeOK
  <2>11. CASE ~UNCHANGED invoked
    <3>1. /\ invoked' = [invoked EXCEPT ![Log[at[m]]] = @ + 1]
          /\ \A c \in claims'[m] : c.executing
      BY <1>4, <2>11 DEF Begin, TypeOK, effects
    <3>2. CASE i = Log[at[m]]
      <4>1. unspent(i)' \subseteq unspent(i) \ {m}
        BY <2>6, <2>9, <3>1 DEF unspent
      <4>2. Cardinality(unspent(i)') <= Cardinality(unspent(i)) - 1
        BY <2>3, <3>2, <4>1, UnspentCount, UnspentType
      <4>3. QED
        BY <2>2, <2>5, <3>1, <3>2, <4>2 DEF TypeOK
    <3>3. CASE i # Log[at[m]]
      <4>1. Cardinality(unspent(i)') <= Cardinality(unspent(i))
        BY <2>9, UnspentCount, UnspentType
      <4>2. QED
        BY <2>1, <2>2, <2>5, <3>1, <3>3, <4>1 DEF TypeOK
    <3>4. QED
      BY <3>2, <3>3
  <2>12. QED
    BY <2>10, <2>11
<1>5. ASSUME NEW m \in Members, Stopped(m),
             claims' \in {claims, [claims EXCEPT ![m] = {}]}, UNCHANGED store
      PROVE  MeterInv'
  <2>1. \A i \in IntentIds : unspent(i)' \subseteq unspent(i)
    BY <1>5 DEF Stopped, unspent, TypeOK
  <2>2. QED
    BY <1>5, <2>1, MeterKept DEF Stopped, effects, store, TypeOK
<1>6. ASSUME NEW m \in Members, Stopped(m), claims' = [claims EXCEPT ![m] = {}],
             NEW c \in claims[m], ~c.executing, release(c.id, c.token)
      PROVE  MeterInv'
  <2>1. \A i \in IntentIds : unspent(i)' \subseteq unspent(i) \ {m}
    BY <1>6 DEF Stopped, unspent, TypeOK
  <2>2. c.id \in IntentIds /\ m \in unspent(c.id)
    BY <1>6 DEF unspent, TypeOK, Claims
  <2>3. SUFFICES ASSUME NEW i \in IntentIds
                 PROVE  invoked'[i] + Cardinality(unspent(i)') <=
                           lapses'[i] + (IF records'[i] = {} THEN 0 ELSE 1)
    BY DEF MeterInv
  <2>4. /\ Cardinality(unspent(i)) \in Nat /\ Cardinality(unspent(i)') \in Nat
        /\ invoked[i] + Cardinality(unspent(i)) <=
              lapses[i] + (IF records[i] = {} THEN 0 ELSE 1)
    BY UnspentCount, UnspentType DEF MeterInv
  <2>5. CASE i = c.id
    <3>1. Cardinality(unspent(i)') <= Cardinality(unspent(i)) - 1
      BY <2>1, <2>2, <2>5, UnspentCount, UnspentType
    <3>2. QED
      BY <1>6, <2>4, <3>1 DEF release, Stopped, effects, TypeOK
  <2>6. CASE i # c.id
    <3>1. Cardinality(unspent(i)') <= Cardinality(unspent(i))
      BY <2>1, UnspentCount, UnspentType
    <3>2. records'[i] = records[i]
      BY <1>6, <2>2, <2>6 DEF release, TypeOK
    <3>3. QED
      BY <1>6, <2>4, <3>1, <3>2 DEF release, Stopped, effects, TypeOK
  <2>7. QED
    BY <2>5, <2>6
<1>7. ASSUME NEW m \in Members, Revoke(m) \/ Shutdown(m) \/ Crash(m) \/ Rejoin(m)
      PROVE  MeterInv'
  <2>1. Stopped(m) /\ claims' \in {claims, [claims EXCEPT ![m] = {}]}
    BY <1>7 DEF Revoke, Shutdown, Crash, Rejoin, OnRevoked
  <2>2. \/ UNCHANGED store
        \/ /\ claims' = [claims EXCEPT ![m] = {}]
           /\ \E c \in claims[m] : ~c.executing /\ release(c.id, c.token)
    BY <1>7 DEF Revoke, Shutdown, Crash, Rejoin, OnRevoked, ReleaseClaim
  <2>3. QED
    BY <1>5, <1>6, <2>1, <2>2
<1>8. CASE Tick \/ UNCHANGED vars
  <2>1. UNCHANGED <<records, lapses, invoked, pc, at, claims>>
    BY <1>8 DEF Tick, vars, store, worker, effects
  <2>2. QED
    BY <2>1, MeterKept DEF unspent, TypeOK
<1>9. QED
  BY <1>1, <1>2, <1>3, <1>4, <1>7, <1>8 DEF Next, Step, Disturb

(* Effectively once, for every log, every group and every fault budget, with *)
(* or without a stalled worker: an intent's tool is invoked at most once and *)
(* once more for each record of it that has run out.                         *)
THEOREM EffectivelyOnce == Spec => []InvokedOncePerLease
<1>1. Init => MeterInv
  <2>1. SUFFICES ASSUME Init, NEW i \in IntentIds
                 PROVE  invoked[i] + Cardinality(unspent(i)) <=
                           lapses[i] + (IF records[i] = {} THEN 0 ELSE 1)
    BY DEF MeterInv
  <2>2. unspent(i) = {}
    BY <2>1 DEF Init, unspent
  <2>3. Cardinality(unspent(i)) = 0
    BY <2>2, FS_EmptySet
  <2>4. invoked[i] = 0 /\ lapses[i] = 0 /\ records[i] = {}
    BY <2>1 DEF Init, StoreInit
  <2>5. QED
    BY <2>3, <2>4
<1>2. TypeOK /\ DeliveryInv /\ TypeOK' /\ MeterInv /\ [Next]_vars => MeterInv'
  BY MeterStep
<1>3. TypeOK /\ MeterInv => InvokedOncePerLease
  <2>1. SUFFICES ASSUME TypeOK, MeterInv, NEW i \in IntentIds
                 PROVE  invoked[i] <= 1 + lapses[i]
    BY DEF InvokedOncePerLease
  <2>2. Cardinality(unspent(i)) \in Nat
    BY EffectorAssumption, FS_Subset, FS_CardinalityType, UnspentType
  <2>3. QED
    BY <2>1, <2>2 DEF MeterInv, TypeOK
<1>4. QED
  BY <1>1, <1>2, <1>3, EffectorTypeCorrect, PTL DEF Spec

-----------------------------------------------------------------------------
(* Where a step may touch the store: a claim and a complete of the delivery  *)
(* in hand, the release of a claim whose tool has not been invoked.  The     *)
(* worker that completes or releases is past its claim with that step.       *)
StoreShape ==
    \/ UNCHANGED store
    \/ \E m \in Members : pc[m] = "claim" /\ claim(Log[at[m]])
    \/ \E m \in Members : /\ pc[m] = "complete" /\ pc'[m] \notin Holding
                           /\ complete(Log[at[m]], token[m], outcome[m])
    \/ \E m \in Members : \E c \in claims[m] :
          ~c.executing /\ pc'[m] \notin Holding /\ release(c.id, c.token)

(* Where a step may touch the topics: they only grow, by the result, the     *)
(* approval request or the dead letter of a publish under way.               *)
TopicShape ==
    /\ \/ UNCHANGED results
       \/ \E m \in Members : pc[m] = "publish" /\ results' = results \cup outcome[m]
    /\ \/ UNCHANGED notified
       \/ \E m \in Members : /\ pc[m] = "notify"
                             /\ notified' = [notified EXCEPT ![Log[at[m]]] = @ + 1]
    /\ buried \subseteq buried'

(* No action writes the store or a topic in any other way.                   *)
LEMMA StepShapes ==
    ASSUME TypeOK, [Next]_vars
    PROVE  StoreShape /\ TopicShape
<1>1. ASSUME NEW m \in Members,
             \/ Assign(m) \/ Fetch(m) \/ ClaimGranted(m) \/ ClaimDone(m) \/ Begin(m)
             \/ Finish(m) \/ Complete(m) \/ LoseClaim(m) \/ Commit(m) \/ CommitFenced(m)
             \/ StoreFails(m) \/ Evict(m)
      PROVE  StoreShape /\ TopicShape
  <2>1. TopicShape
    BY <1>1 DEF Assign, Fetch, ClaimGranted, ClaimDone, Begin, Finish, Complete, LoseClaim,
                Commit, CommitFenced, StoreFails, Evict, TopicShape, topics
  <2>2. (Complete(m) \/ StoreFails(m)) => pc'[m] \notin Holding
    BY DEF Complete, StoreFails, TypeOK, Holding
  <2>3. StoreShape
    BY <1>1, <2>2 DEF Assign, Fetch, ClaimGranted, ClaimDone, Begin, Finish, Complete,
                LoseClaim, Commit, CommitFenced, StoreFails, Evict, StoreShape
  <2>4. QED
    BY <2>1, <2>3
<1>2. ASSUME NEW m \in Members, Publish(m) \/ PublishFails(m)
      PROVE  StoreShape /\ TopicShape
  BY <1>2 DEF Publish, PublishFails, Land, StoreShape, TopicShape, topics
<1>3. ASSUME NEW m \in Members, Revoke(m) \/ Shutdown(m) \/ Crash(m) \/ Rejoin(m)
      PROVE  StoreShape /\ TopicShape
  <2>1. Stopped(m) /\ (UNCHANGED store \/ ReleaseClaim(m))
    BY <1>3 DEF Revoke, Shutdown, Crash, Rejoin, OnRevoked
  <2>2. pc'[m] \notin Holding
    BY <2>1 DEF Stopped, TypeOK, Holding
  <2>3. QED
    BY <2>1, <2>2 DEF ReleaseClaim, Stopped, StoreShape, TopicShape, topics
<1>4. CASE Tick \/ UNCHANGED vars
  BY <1>4 DEF Tick, vars, StoreShape, TopicShape, topics
<1>5. QED
  BY <1>1, <1>2, <1>3, <1>4 DEF Next, Step, Disturb

LEMMA NotifiedGrows ==
    ASSUME TypeOK, DeliveryInv, TopicShape
    PROVE  \A i \in IntentIds : notified'[i] >= notified[i]
  BY LogType DEF TopicShape, TypeOK, DeliveryInv, Busy

-----------------------------------------------------------------------------
(* An intent has at most one record; a terminal record holds at most one     *)
(* result, of that intent, and none only for an approval that was routed.    *)
RecordInv ==
    \A i \in IntentIds :
        /\ \A r, s \in records[i] : r = s
        /\ \A rec \in records[i] :
             /\ \A r, s \in rec.result : r = s
             /\ \A r \in rec.result : r.id = i
             /\ rec.tag = "done" /\ rec.result = {} => i \in Approvals /\ notified[i] > 0

(* r is the durable result of its intent, or was, or needs no record.        *)
stored(r) ==
    \/ r.status = "EXPIRED"
    \/ \E rec \in records[r.id] : rec.tag = "done" /\ r \in rec.result
    \/ lapses[r.id] > 0

(* What the worker of m carries from its claim to its commit.                *)
OutcomeOf(m) ==
    /\ pc[m] \in {"complete", "publish"} =>
         /\ \A r, s \in outcome[m] : r = s
         /\ \A r \in outcome[m] : r.id = Log[at[m]]
    /\ pc[m] = "notify" => Log[at[m]] \in Approvals /\ outcome[m] = {}
    /\ pc[m] = "running" => Log[at[m]] \notin Approvals
    /\ pc[m] = "complete" =>
         \/ Log[at[m]] \in Approvals /\ outcome[m] = {} /\ notified[Log[at[m]]] > 0
         \/ Log[at[m]] \notin Approvals /\ outcome[m] # {}
    /\ pc[m] = "publish" => outcome[m] # {} /\ \A r \in outcome[m] : stored(r)

OutcomeInv == \A m \in Members : OutcomeOf(m)

PublishInv == \A r \in results : stored(r)

ResultInv == RecordInv /\ OutcomeInv /\ PublishInv

(* A result once stored stays stored until its record runs out: complete and *)
(* release only ever take away a claim, claim only what has run out.         *)
LEMMA StoredKept ==
    ASSUME TypeOK, DeliveryInv, RecordInv, StoreShape, NEW r \in Results, stored(r)
    PROVE  stored(r)'
<1>1. r.id \in IntentIds
  BY DEF Results
<1>2. CASE r.status = "EXPIRED"
  BY <1>2 DEF stored
<1>3. ASSUME NEW i \in IntentIds, claim(i) PROVE stored(r)'
  <2>1. lapses[r.id] > 0 => lapses'[r.id] > 0
    BY <1>1, <1>3 DEF claim, TypeOK
  <2>2. CASE r.id = i
    <3>1. ASSUME NEW rec \in records[i] PROVE lapses'[i] > 0
      BY <1>3, <3>1, GrantPays DEF TypeOK
    <3>2. QED
      BY <2>1, <2>2, <3>1 DEF stored
  <2>3. CASE r.id # i
    BY <1>1, <1>3, <2>3, GrantPays DEF stored
  <2>4. QED
    BY <2>2, <2>3
<1>4. ASSUME NEW i \in IntentIds, NEW t, owns(i, t), UNCHANGED lapses,
             \A j \in IntentIds \ {i} : records'[j] = records[j]
      PROVE  stored(r)'
  <2>1. r.id = i => \A rec \in records[i] : rec.tag = "claim"
    BY <1>4 DEF owns, live, RecordInv
  <2>2. QED
    BY <1>1, <1>4, <2>1 DEF stored
<1>5. CASE UNCHANGED store
  BY <1>5 DEF stored, store
<1>6. ASSUME NEW m \in Members, pc[m] = "complete",
             complete(Log[at[m]], token[m], outcome[m])
      PROVE  stored(r)'
  <2>1. Log[at[m]] \in IntentIds
    BY <1>6, LogType DEF DeliveryInv, Busy
  <2>2. QED
    BY <1>4, <1>6, <2>1 DEF complete, TypeOK
<1>7. ASSUME NEW m \in Members, NEW c \in claims[m], release(c.id, c.token)
      PROVE  stored(r)'
  <2>1. c.id \in IntentIds
    BY DEF TypeOK, Claims
  <2>2. CASE owns(c.id, c.token)
    BY <1>4, <1>7, <2>1, <2>2 DEF release, TypeOK
  <2>3. CASE ~owns(c.id, c.token)
    BY <1>7, <2>1, <2>3 DEF release, TypeOK, stored
  <2>4. QED
    BY <2>2, <2>3
<1>8. ASSUME NEW m \in Members, pc[m] = "claim", claim(Log[at[m]]) PROVE stored(r)'
  BY <1>3, <1>8, LogType DEF DeliveryInv, Busy
<1>9. QED
  BY <1>5, <1>6, <1>7, <1>8 DEF StoreShape

(* The store's operations keep its records as RecordInv says.                *)
LEMMA RecordStep ==
    ASSUME TypeOK, DeliveryInv, RecordInv, OutcomeInv, StoreShape,
           \A i \in IntentIds : notified'[i] >= notified[i], TypeOK'
    PROVE  RecordInv'
<1>1. ASSUME NEW i \in IntentIds, NEW rec,
             records' = [records EXCEPT ![i] = {rec}],
             \A r, s \in rec.result : r = s, \A r \in rec.result : r.id = i,
             rec.tag = "done" /\ rec.result = {} => i \in Approvals /\ notified[i] > 0
      PROVE  RecordInv'
  <2>1. SUFFICES ASSUME NEW j \in IntentIds
                 PROVE  /\ \A r, s \in records'[j] : r = s
                        /\ \A q \in records'[j] :
                             /\ \A r, s \in q.result : r = s
                             /\ \A r \in q.result : r.id = j
                             /\ q.tag = "done" /\ q.result = {} =>
                                  j \in Approvals /\ notified'[j] > 0
    BY DEF RecordInv
  <2>2. CASE j = i
    BY <1>1, <2>2 DEF TypeOK
  <2>3. CASE j # i
    <3>1. records'[j] = records[j]
      BY <1>1, <2>3 DEF TypeOK
    <3>2. QED
      BY <3>1 DEF RecordInv, TypeOK
  <2>4. QED
    BY <2>2, <2>3
<1>2. CASE UNCHANGED store
  BY <1>2 DEF RecordInv, store, TypeOK
<1>3. ASSUME NEW m \in Members, pc[m] = "claim", claim(Log[at[m]]) PROVE RecordInv'
  <2>1. Log[at[m]] \in IntentIds
    BY <1>3, LogType DEF DeliveryInv, Busy
  <2>2. PICK rec : rec = Claim(tokens + 1, clock + LeaseMs)
    OBVIOUS
  <2>3. rec.tag = "claim" /\ rec.result = {}
    BY <2>2 DEF Claim
  <2>4. records' = [records EXCEPT ![Log[at[m]]] = {rec}]
    BY <1>3, <2>2 DEF claim
  <2>5. QED
    BY <1>1, <2>1, <2>3, <2>4
<1>4. ASSUME NEW m \in Members, pc[m] = "complete",
             complete(Log[at[m]], token[m], outcome[m])
      PROVE  RecordInv'
  <2>1. Log[at[m]] \in IntentIds
    BY <1>4, LogType DEF DeliveryInv, Busy
  <2>2. OutcomeOf(m)
    BY DEF OutcomeInv
  <2>3. PICK rec : rec = Terminal(outcome[m], clock + ResultTtlMs)
    OBVIOUS
  <2>4. rec.tag = "done" /\ rec.result = outcome[m]
    BY <2>3 DEF Terminal
  <2>5. records' = [records EXCEPT ![Log[at[m]]] = {rec}]
    BY <1>4, <2>3 DEF complete
  <2>6. /\ \A r, s \in rec.result : r = s
        /\ \A r \in rec.result : r.id = Log[at[m]]
        /\ rec.result = {} => Log[at[m]] \in Approvals /\ notified[Log[at[m]]] > 0
    BY <1>4, <2>2, <2>4 DEF OutcomeOf
  <2>7. QED
    BY <1>1, <2>1, <2>5, <2>6
<1>5. ASSUME NEW m \in Members, NEW c \in claims[m], release(c.id, c.token) PROVE RecordInv'
  BY <1>5 DEF RecordInv, release, TypeOK, Claims
<1>6. QED
  BY <1>2, <1>3, <1>4, <1>5 DEF StoreShape

(* A worker that does not act keeps what it carries.                         *)
LEMMA OutcomeKept ==
    ASSUME TypeOK, DeliveryInv, NEW n \in Members, OutcomeOf(n),
           pc'[n] = pc[n], at'[n] = at[n], outcome'[n] = outcome[n],
           \A r \in Results : stored(r) => stored(r)',
           \A i \in IntentIds : notified'[i] >= notified[i],
           notified' \in [IntentIds -> Nat]
    PROVE  OutcomeOf(n)'
<1>1. pc[n] = "complete" => Log[at[n]] \in IntentIds
  BY LogType DEF DeliveryInv, Busy
<1>2. outcome[n] \subseteq Results
  BY DEF TypeOK
<1>3. QED
  BY <1>1, <1>2 DEF OutcomeOf, TypeOK

(* An action of m leaves the other workers where they are.                   *)
Alone(m) ==
    \A n \in Members \ {m} :
        /\ pc'[n] = pc[n] /\ at'[n] = at[n] /\ next'[n] = next[n]
        /\ outcome'[n] = outcome[n]
        /\ token'[n] = token[n] /\ claims'[n] = claims[n]

LEMMA OthersWait ==
    ASSUME TypeOK, NEW m \in Members, Assign(m) \/ Step(m) \/ Disturb(m)
    PROVE  Alone(m)
<1>1. CASE Assign(m) \/ Fetch(m) \/ ClaimGranted(m) \/ ClaimDone(m)
  BY <1>1 DEF Assign, Fetch, ClaimGranted, ClaimDone, Alone, TypeOK
<1>2. CASE Begin(m)
  BY <1>2 DEF Begin, Alone, TypeOK
<1>3. CASE Finish(m) \/ Complete(m) \/ LoseClaim(m) \/ Publish(m) \/ Commit(m) \/ CommitFenced(m)
  BY <1>3 DEF Finish, Complete, LoseClaim, Publish, Commit, CommitFenced, Alone, TypeOK
<1>4. CASE PublishFails(m) \/ StoreFails(m) \/ Evict(m)
  BY <1>4 DEF PublishFails, StoreFails, Evict, Alone, TypeOK, worker
<1>5. CASE Revoke(m) \/ Shutdown(m) \/ Crash(m) \/ Rejoin(m)
  BY <1>5 DEF Revoke, Shutdown, Crash, Rejoin, OnRevoked, Stopped, Alone, TypeOK
<1>6. QED
  BY <1>1, <1>2, <1>3, <1>4, <1>5 DEF Step, Disturb

(* Each worker carries to complete and to publish what OutcomeOf says.       *)
LEMMA OutcomeStep ==
    ASSUME TypeOK, TypeOK', DeliveryInv, RecordInv, OutcomeInv, [Next]_vars,
           StoreShape, TopicShape
    PROVE  OutcomeInv'
<1>1. /\ \A r \in Results : stored(r) => stored(r)'
      /\ \A i \in IntentIds : notified'[i] >= notified[i]
      /\ notified' \in [IntentIds -> Nat]
  BY StoredKept, NotifiedGrows DEF TypeOK
<1>2. ASSUME NEW n \in Members,
             pc'[n] = pc[n], at'[n] = at[n], outcome'[n] = outcome[n]
      PROVE  OutcomeOf(n)'
  <2>1. OutcomeOf(n)
    BY DEF OutcomeInv
  <2>2. QED
    BY <1>1, <1>2, <2>1, OutcomeKept
<1>3. ASSUME NEW m \in Members,
             \/ Assign(m) \/ ClaimGranted(m) \/ LoseClaim(m) \/ Commit(m) \/ CommitFenced(m)
             \/ StoreFails(m) \/ Revoke(m) \/ Shutdown(m) \/ Crash(m) \/ Rejoin(m)
      PROVE  OutcomeOf(m)'
  <2>1. pc'[m] \in {"idle", "granted", "dead", "out"}
    BY <1>3 DEF TypeOK, Assign, ClaimGranted, LoseClaim, Commit, CommitFenced, StoreFails,
                Revoke, Shutdown, Crash, Rejoin, OnRevoked, Stopped
  <2>2. QED
    BY <2>1 DEF OutcomeOf
<1>4. ASSUME NEW m \in Members, Fetch(m) PROVE OutcomeOf(m)'
  <2>1. CASE pc'[m] = "publish"
    <3>1. outcome'[m] = {Result(Log[at'[m]], "EXPIRED", 0)}
      BY <1>4, <2>1 DEF Fetch, TypeOK
    <3>2. \A r \in outcome'[m] : r.id = Log[at'[m]] /\ stored(r)'
      BY <3>1 DEF Result, stored
    <3>3. QED
      BY <2>1, <3>1, <3>2 DEF OutcomeOf
  <2>2. CASE pc'[m] # "publish"
    <3>1. pc'[m] \in {"dead_letter", "commit", "claim"}
      BY <1>4, <2>2 DEF Fetch, TypeOK
    <3>2. QED
      BY <3>1 DEF OutcomeOf
  <2>3. QED
    BY <2>1, <2>2
<1>5. ASSUME NEW m \in Members, ClaimDone(m) PROVE OutcomeOf(m)'
  <2>1. Log[at[m]] \in IntentIds
    BY <1>5, LogType DEF ClaimDone, DeliveryInv, Busy
  <2>2. PICK rec \in done(Log[at[m]]) :
           /\ outcome' = [outcome EXCEPT ![m] = rec.result]
           /\ pc' = [pc EXCEPT ![m] = IF rec.result = {} THEN "commit" ELSE "publish"]
    BY <1>5 DEF ClaimDone
  <2>3. rec \in records[Log[at[m]]] /\ rec.tag = "done"
    BY <2>2 DEF done, live
  <2>4. /\ \A r, s \in rec.result : r = s
        /\ \A r \in rec.result : r.id = Log[at[m]]
    BY <2>1, <2>3 DEF RecordInv
  <2>5. \A r \in rec.result : stored(r)'
    <3>1. rec.result \subseteq Results
      BY <2>1, <2>3 DEF TypeOK, Records
    <3>2. QED
      BY <1>1, <2>3, <2>4, <3>1 DEF stored
  <2>6. /\ outcome'[m] = rec.result /\ at'[m] = at[m]
        /\ pc'[m] = IF rec.result = {} THEN "commit" ELSE "publish"
    BY <1>5, <2>2 DEF ClaimDone, TypeOK
  <2>7. QED
    BY <2>4, <2>5, <2>6 DEF OutcomeOf
<1>6. ASSUME NEW m \in Members, Begin(m) PROVE OutcomeOf(m)'
  <2>1. at'[m] = at[m]
    BY <1>6 DEF Begin
  <2>2. \/ pc'[m] = "notify" /\ Log[at[m]] \in Approvals /\ outcome'[m] = {}
        \/ /\ pc'[m] = "complete" /\ Log[at[m]] \notin Approvals
           /\ outcome'[m] = {Result(Log[at[m]], "REJECTED", token[m])}
        \/ pc'[m] = "running" /\ Log[at[m]] \notin Approvals
    BY <1>6 DEF Begin, TypeOK
  <2>3. CASE pc'[m] # "complete"
    BY <2>1, <2>2, <2>3 DEF OutcomeOf
  <2>4. CASE pc'[m] = "complete"
    <3>1. PICK r : r = Result(Log[at[m]], "REJECTED", token[m])
      OBVIOUS
    <3>2. r.id = Log[at[m]] /\ outcome'[m] = {r} /\ Log[at[m]] \notin Approvals
      BY <2>2, <2>4, <3>1 DEF Result
    <3>3. QED
      BY <2>1, <2>4, <3>2 DEF OutcomeOf
  <2>5. QED
    BY <2>3, <2>4
<1>7. ASSUME NEW m \in Members, Finish(m) PROVE OutcomeOf(m)'
  <2>1. at'[m] = at[m] /\ pc'[m] = "complete" /\ Log[at[m]] \notin Approvals
    BY <1>7 DEF Finish, TypeOK, OutcomeInv, OutcomeOf
  <2>2. PICK status : outcome'[m] = {Result(Log[at[m]], status, token[m])}
    BY <1>7 DEF Finish, TypeOK
  <2>3. QED
    BY <2>1, <2>2 DEF OutcomeOf, Result
<1>8. ASSUME NEW m \in Members, Complete(m) PROVE OutcomeOf(m)'
  <2>1. Log[at[m]] \in IntentIds
    BY <1>8, LogType DEF Complete, DeliveryInv, Busy
  <2>2. /\ at'[m] = at[m] /\ outcome'[m] = outcome[m]
        /\ pc'[m] = IF Log[at[m]] \in Approvals THEN "commit" ELSE "publish"
    BY <1>8 DEF Complete, TypeOK
  <2>3. OutcomeOf(m) /\ pc[m] = "complete"
    BY <1>8 DEF OutcomeInv, Complete
  <2>4. \A r \in outcome[m] : stored(r)'
    <3>1. records'[Log[at[m]]] = {Terminal(outcome[m], clock + ResultTtlMs)}
      BY <1>8, <2>1 DEF Complete, complete, TypeOK
    <3>2. \A r \in outcome[m] : r.id = Log[at[m]]
      BY <2>3 DEF OutcomeOf
    <3>3. PICK rec : rec = Terminal(outcome[m], clock + ResultTtlMs)
      OBVIOUS
    <3>4. rec.tag = "done" /\ rec.result = outcome[m] /\ rec \in records'[Log[at[m]]]
      BY <3>1, <3>3 DEF Terminal
    <3>5. QED
      BY <3>2, <3>4 DEF stored
  <2>5. QED
    BY <2>2, <2>3, <2>4 DEF OutcomeOf
<1>9. ASSUME NEW m \in Members, Publish(m) PROVE OutcomeOf(m)'
  <2>1. CASE pc[m] = "notify"
    <3>1. Log[at[m]] \in IntentIds
      BY <2>1, LogType DEF DeliveryInv, Busy
    <3>2. at'[m] = at[m] /\ outcome'[m] = outcome[m] /\ pc'[m] = "complete"
      BY <1>9, <2>1 DEF Publish, TypeOK
    <3>3. notified' = [notified EXCEPT ![Log[at[m]]] = @ + 1]
      BY <1>9, <2>1 DEF Publish, Land
    <3>4. notified'[Log[at[m]]] > 0
      BY <3>1, <3>3 DEF TypeOK
    <3>5. Log[at[m]] \in Approvals /\ outcome[m] = {}
      BY <2>1 DEF OutcomeInv, OutcomeOf
    <3>6. QED
      BY <3>2, <3>4, <3>5 DEF OutcomeOf
  <2>2. CASE pc[m] # "notify"
    <3>1. pc'[m] = "commit"
      BY <1>9, <2>2 DEF Publish, TypeOK
    <3>2. QED
      BY <3>1 DEF OutcomeOf
  <2>3. QED
    BY <2>1, <2>2
<1>10. ASSUME NEW m \in Members, PublishFails(m) PROVE OutcomeOf(m)'
  <2>1. at'[m] = at[m] /\ outcome'[m] = outcome[m] /\ pc'[m] \in {pc[m], "dead"}
    BY <1>10 DEF PublishFails, TypeOK
  <2>2. CASE pc'[m] = pc[m]
    BY <1>2, <2>1, <2>2
  <2>3. CASE pc'[m] = "dead"
    BY <2>3 DEF OutcomeOf
  <2>4. QED
    BY <2>1, <2>2, <2>3
<1>11. ASSUME NEW m \in Members, Evict(m) PROVE OutcomeOf(m)'
  BY <1>2, <1>11 DEF Evict, worker
<1>12. ASSUME NEW m \in Members, Assign(m) \/ Step(m) \/ Disturb(m) PROVE OutcomeInv'
  <2>1. OutcomeOf(m)'
    BY <1>3, <1>4, <1>5, <1>6, <1>7, <1>8, <1>9, <1>10, <1>11, <1>12 DEF Step, Disturb
  <2>2. \A n \in Members \ {m} : OutcomeOf(n)'
    BY <1>2, <1>12, OthersWait DEF Alone
  <2>3. QED
    BY <2>1, <2>2 DEF OutcomeInv
<1>13. CASE Tick \/ UNCHANGED vars
  <2>1. UNCHANGED <<pc, at, outcome>>
    BY <1>13 DEF Tick, vars, worker
  <2>2. QED
    BY <1>2, <2>1 DEF OutcomeInv
<1>14. QED
  BY <1>12, <1>13 DEF Next

(* Nothing is published that is not stored.                                  *)
LEMMA PublishStep ==
    ASSUME TypeOK, DeliveryInv, ResultInv, StoreShape, TopicShape
    PROVE  PublishInv'
<1>1. \A r \in results : stored(r)'
  BY StoredKept DEF ResultInv, PublishInv, TypeOK
<1>2. ASSUME NEW m \in Members, pc[m] = "publish" PROVE \A r \in outcome[m] : stored(r)'
  BY <1>2, StoredKept DEF ResultInv, OutcomeInv, OutcomeOf, TypeOK
<1>3. QED
  BY <1>1, <1>2 DEF TopicShape, PublishInv

LEMMA ResultInvariant == Spec => []ResultInv
<1>1. Init => ResultInv
  BY DEF Init, StoreInit, ResultInv, RecordInv, OutcomeInv, OutcomeOf, PublishInv
<1>2. ASSUME TypeOK, TypeOK', DeliveryInv, ResultInv, [Next]_vars PROVE ResultInv'
  <2>1. StoreShape /\ TopicShape /\ \A i \in IntentIds : notified'[i] >= notified[i]
    BY <1>2, StepShapes, NotifiedGrows
  <2>2. QED
    BY <1>2, <2>1, RecordStep, OutcomeStep, PublishStep DEF ResultInv
<1>3. QED
  BY <1>1, <1>2, EffectorTypeCorrect, PTL DEF Spec

(* Complete before publish, and one agreed result, for every instance: what  *)
(* the pipeline hears of an intent is its stored result, and the same one    *)
(* each time, until a record of the intent has run out.                      *)
THEOREM OneResultHeard == Spec => []OneResultIsHeard
<1>1. TypeOK /\ ResultInv => OneResultIsHeard
  <2>1. SUFFICES ASSUME TypeOK, ResultInv PROVE OneResultIsHeard
    OBVIOUS
  <2>2. PublishedIsStored
    BY <2>1 DEF ResultInv, PublishInv, stored, PublishedIsStored
  <2>3. ASSUME NEW r \in results, NEW s \in results, r.id = s.id,
               r.status # "EXPIRED", s.status # "EXPIRED", ~(lapses[r.id] > 0)
        PROVE  r = s
    <3>1. r.id \in IntentIds
      BY <2>1 DEF TypeOK, Results
    <3>2. PICK p \in records[r.id] : r \in p.result
      BY <2>2, <2>3 DEF PublishedIsStored
    <3>3. PICK q \in records[r.id] : s \in q.result
      BY <2>2, <2>3 DEF PublishedIsStored
    <3>4. QED
      BY <2>1, <3>1, <3>2, <3>3 DEF ResultInv, RecordInv
  <2>4. QED
    BY <2>2, <2>3 DEF OneResultIsHeard, AgreedResult
<1>2. QED
  BY <1>1, EffectorTypeCorrect, ResultInvariant, PTL

-----------------------------------------------------------------------------
(* A tool is only ever invoked for the delivery of a fresh grant.            *)
EffectShape ==
    \/ UNCHANGED effects
    \/ \E m \in Members : /\ pc[m] = "granted"
                          /\ invoked' = [invoked EXCEPT ![Log[at[m]]] = @ + 1]
                          /\ ran' = ran \cup {at[m]}

LEMMA EffectShapes ==
    ASSUME [Next]_vars
    PROVE  EffectShape
<1>1. ASSUME NEW m \in Members,
             \/ Assign(m) \/ Fetch(m) \/ ClaimGranted(m) \/ ClaimDone(m) \/ Begin(m)
             \/ Finish(m) \/ Complete(m) \/ LoseClaim(m) \/ Publish(m) \/ Commit(m)
             \/ CommitFenced(m) \/ PublishFails(m) \/ StoreFails(m) \/ Evict(m)
      PROVE  EffectShape
  BY <1>1 DEF Assign, Fetch, ClaimGranted, ClaimDone, Begin, Finish, Complete, LoseClaim,
              Publish, Commit, CommitFenced, PublishFails, StoreFails, Evict, EffectShape
<1>2. ASSUME NEW m \in Members, Revoke(m) \/ Shutdown(m) \/ Crash(m) \/ Rejoin(m)
      PROVE  EffectShape
  BY <1>2 DEF Revoke, Shutdown, Crash, Rejoin, OnRevoked, Stopped, EffectShape
<1>3. CASE Tick \/ UNCHANGED vars
  BY <1>3 DEF Tick, vars, EffectShape
<1>4. QED
  BY <1>1, <1>2, <1>3 DEF Next, Step, Disturb

(* No delivery of the intent carries an acceptable signature.                *)
unauthentic(i) == Mode # "off" /\ \A p \in Offsets : Log[p] = i => Verdict[p] = "bad"

(* A worker past phase 0 has an authentic intent in hand.                    *)
LEMMA TrustedIsAuthentic ==
    ASSUME DeliveryInv, NEW m \in Members, pc[m] \in Trusted
    PROVE  Log[at[m]] \in IntentIds /\ ~unauthentic(Log[at[m]])
<1>1. at[m] \in Offsets /\ verified(at[m])
  BY DEF DeliveryInv, Trusted, Busy
<1>2. QED
  BY <1>1, LogType DEF verified, unauthentic

LEMMA TraceStep ==
    ASSUME TypeOK, DeliveryInv, OutcomeInv, UnverifiedLeavesNoTrace,
           StoreShape, TopicShape, EffectShape
    PROVE  UnverifiedLeavesNoTrace'
<1>. SUFFICES ASSUME NEW i \in IntentIds, unauthentic(i)
              PROVE  /\ records'[i] = {} /\ invoked'[i] = 0 /\ notified'[i] = 0
                     /\ \A r \in results' : r.id # i
  BY DEF UnverifiedLeavesNoTrace, unauthentic
<1>1. records[i] = {} /\ invoked[i] = 0 /\ notified[i] = 0 /\ \A r \in results : r.id # i
  BY DEF UnverifiedLeavesNoTrace, unauthentic
<1>2. ASSUME NEW m \in Members, pc[m] \in Trusted
      PROVE  Log[at[m]] \in IntentIds /\ Log[at[m]] # i
  BY <1>2, TrustedIsAuthentic
<1>3. records'[i] = {}
  <2>1. CASE UNCHANGED store
    BY <1>1, <2>1 DEF store
  <2>2. ASSUME NEW m \in Members, pc[m] = "claim", claim(Log[at[m]]) PROVE records'[i] = {}
    BY <1>1, <1>2, <2>2, GrantPays DEF Trusted
  <2>3. ASSUME NEW m \in Members, pc[m] = "complete",
               complete(Log[at[m]], token[m], outcome[m])
        PROVE  records'[i] = {}
    BY <1>1, <1>2, <2>3 DEF complete, TypeOK, Trusted
  <2>4. ASSUME NEW m \in Members, NEW c \in claims[m], release(c.id, c.token)
        PROVE  records'[i] = {}
    BY <1>1, <2>4 DEF release, TypeOK
  <2>5. QED
    BY <2>1, <2>2, <2>3, <2>4 DEF StoreShape
<1>4. invoked'[i] = 0
  BY <1>1, <1>2 DEF EffectShape, effects, TypeOK, Trusted
<1>5. notified'[i] = 0
  BY <1>1, <1>2 DEF TopicShape, TypeOK, Trusted
<1>6. \A r \in results' : r.id # i
  <2>1. ASSUME NEW m \in Members, pc[m] = "publish", NEW r \in outcome[m] PROVE r.id # i
    BY <1>2, <2>1 DEF OutcomeInv, OutcomeOf, Trusted
  <2>2. QED
    BY <1>1, <2>1 DEF TopicShape
<1>7. QED
  BY <1>3, <1>4, <1>5, <1>6

(* Verification is a gate: whatever the mode, the group and the faults, an   *)
(* intent that no delivery authenticates is never claimed, invoked, put up   *)
(* for approval or answered.                                                 *)
THEOREM VerificationGates == Spec => []UnverifiedLeavesNoTrace
<1>1. Init => UnverifiedLeavesNoTrace
  BY DEF Init, StoreInit, UnverifiedLeavesNoTrace
<1>2. TypeOK /\ DeliveryInv /\ ResultInv /\ UnverifiedLeavesNoTrace /\ [Next]_vars
         => UnverifiedLeavesNoTrace'
  BY StepShapes, EffectShapes, TraceStep DEF ResultInv
<1>3. QED
  BY <1>1, <1>2, EffectorTypeCorrect, ResultInvariant, PTL DEF Spec

-----------------------------------------------------------------------------
(* Tokens are never reissued: what one member holds or has registered, no    *)
(* other member holds.                                                       *)
TokenInv ==
    /\ \A m \in Members : token[m] <= tokens /\ \A c \in claims[m] : c.token <= tokens
    /\ \A m \in Members : pc[m] \in Holding => token[m] > 0
    /\ \A m \in Members : \A c \in claims[m] : c.token > 0
    /\ \A m, n \in Members : m # n =>
         /\ token[m] > 0 => token[m] # token[n]
         /\ \A c \in claims[m] : c.token # token[n]

(* tokens only counts up, and a worker's token is its last grant or none.    *)
LEMMA TokenStep ==
    ASSUME TypeOK, TypeOK', TokenInv, [Next]_vars
    PROVE  TokenInv'
<1>1. ASSUME NEW m \in Members, Alone(m), tokens' >= tokens, token'[m] \in {0, token[m]},
             claims'[m] \subseteq claims[m],
             pc'[m] \in Holding => pc[m] \in Holding /\ token'[m] = token[m]
      PROVE  TokenInv'
  <2>1. \A n \in Members : /\ token'[n] \in {0, token[n]} /\ claims'[n] \subseteq claims[n]
                           /\ pc'[n] \in Holding => pc[n] \in Holding /\ token'[n] = token[n]
    BY <1>1 DEF Alone
  <2>2. \A n \in Members : token'[n] \in Nat /\ token[n] \in Nat
                           /\ \A c \in claims[n] : c.token \in Nat
    BY DEF TypeOK, Claims
  <2>3. tokens \in Nat /\ tokens' \in Nat
    BY DEF TypeOK
  <2>4. /\ \A n \in Members : token'[n] <= tokens' /\ \A c \in claims'[n] : c.token <= tokens'
        /\ \A n \in Members : pc'[n] \in Holding => token'[n] > 0
        /\ \A n \in Members : \A c \in claims'[n] : c.token > 0
    BY <1>1, <2>1, <2>2, <2>3 DEF TokenInv
  <2>5. \A k, n \in Members : k # n =>
           /\ token'[k] > 0 => token'[k] # token'[n]
           /\ \A c \in claims'[k] : c.token # token'[n]
    BY <2>1, <2>2 DEF TokenInv
  <2>6. QED
    BY <2>4, <2>5 DEF TokenInv
<1>2. ASSUME NEW m \in Members,
             \/ Assign(m) \/ Fetch(m) \/ ClaimDone(m) \/ Finish(m) \/ Complete(m)
             \/ LoseClaim(m) \/ Publish(m) \/ Commit(m) \/ CommitFenced(m) \/ PublishFails(m)
             \/ Evict(m)
      PROVE  TokenInv'
  <2>1. Alone(m)
    BY <1>2, OthersWait DEF Step, Disturb
  <2>2. tokens' = tokens
    BY <1>2 DEF Assign, Fetch, ClaimDone, Finish, Complete, complete, LoseClaim, Publish, Commit,
                CommitFenced, PublishFails, Evict, store
  <2>3. /\ token'[m] \in {0, token[m]} /\ claims'[m] \subseteq claims[m]
        /\ pc'[m] \in Holding => pc[m] \in Holding /\ token'[m] = token[m]
    BY <1>2 DEF Assign, Fetch, ClaimDone, Finish, Complete, LoseClaim, Publish, Commit,
                CommitFenced, PublishFails, Evict, worker, Holding, TypeOK
  <2>4. QED
    BY <1>1, <2>1, <2>2, <2>3 DEF TypeOK
<1>3. ASSUME NEW m \in Members, ClaimGranted(m) PROVE TokenInv'
  <2>1. Alone(m)
    BY <1>3, OthersWait DEF Step
  <2>2. tokens' = tokens + 1 /\ token'[m] = tokens + 1 /\ claims' = claims
    BY <1>3 DEF ClaimGranted, claim, TypeOK
  <2>3. \A n \in Members : token[n] \in Nat /\ \A c \in claims[n] : c.token \in Nat
    BY DEF TypeOK, Claims
  <2>4. tokens \in Nat
    BY DEF TypeOK
  <2>5. QED
    BY <2>1, <2>2, <2>3, <2>4 DEF TokenInv, Alone
<1>4. ASSUME NEW m \in Members, Begin(m) PROVE TokenInv'
  <2>1. Alone(m)
    BY <1>4, OthersWait DEF Step
  <2>2. UNCHANGED <<tokens, token>> /\ pc[m] \in Holding
    BY <1>4 DEF Begin, store, Holding
  <2>3. \A c \in claims'[m] : c.token = token[m]
    BY <1>4 DEF Begin, TypeOK
  <2>4. \A n \in Members : token[n] \in Nat /\ \A c \in claims[n] : c.token \in Nat
    BY DEF TypeOK, Claims
  <2>5. QED
    BY <2>1, <2>2, <2>3, <2>4 DEF TokenInv, Alone
<1>5. ASSUME NEW m \in Members, StoreFails(m) PROVE TokenInv'
  <2>1. Alone(m)
    BY <1>5, OthersWait DEF Disturb
  <2>2. tokens' >= tokens
    BY <1>5 DEF StoreFails, claim, complete, store, TypeOK
  <2>3. token'[m] = token[m] /\ claims'[m] = claims[m] /\ pc'[m] \notin Holding
    BY <1>5 DEF StoreFails, TypeOK, Holding
  <2>4. QED
    BY <1>1, <2>1, <2>2, <2>3
<1>6. ASSUME NEW m \in Members, Revoke(m) \/ Shutdown(m) \/ Crash(m) \/ Rejoin(m)
      PROVE  TokenInv'
  <2>1. Alone(m)
    BY <1>6, OthersWait DEF Disturb
  <2>2. tokens' = tokens
    BY <1>6 DEF Revoke, Shutdown, Crash, Rejoin, OnRevoked, ReleaseClaim, release, store
  <2>3. token'[m] = token[m] /\ claims'[m] \subseteq claims[m] /\ pc'[m] \notin Holding
    BY <1>6 DEF Revoke, Shutdown, Crash, Rejoin, OnRevoked, Stopped, TypeOK, Holding
  <2>4. QED
    BY <1>1, <2>1, <2>2, <2>3 DEF TypeOK
<1>7. CASE Tick \/ UNCHANGED vars
  <2>1. UNCHANGED <<tokens, token, claims, pc>>
    BY <1>7 DEF Tick, vars, store, worker
  <2>2. QED
    BY <2>1 DEF TokenInv
<1>8. QED
  BY <1>2, <1>3, <1>4, <1>5, <1>6, <1>7 DEF Next, Step, Disturb

-----------------------------------------------------------------------------
(* The worker of m stands on a live claim of its own.                        *)
held(m) ==
    \E r \in records[Log[at[m]]] :
        r.tag = "claim" /\ r.token = token[m] /\ clock < r.expires

HoldInv == \A m \in Members : pc[m] \in Holding => held(m)

(* Only a grant brings a worker between claim and complete.                  *)
LEMMA HoldingSince ==
    ASSUME TypeOK, [Next]_vars, NEW n \in Members, pc'[n] \in Holding
    PROVE  \/ ClaimGranted(n)
           \/ pc[n] \in Holding /\ token'[n] = token[n] /\ at'[n] = at[n]
<1>1. ASSUME NEW m \in Members, Assign(m) \/ Step(m) \/ Disturb(m), n # m
      PROVE  pc[n] \in Holding /\ token'[n] = token[n] /\ at'[n] = at[n]
  BY <1>1, OthersWait DEF Alone
<1>2. CASE \/ Assign(n) \/ Fetch(n) \/ ClaimDone(n) \/ Begin(n) \/ Finish(n) \/ Complete(n)
           \/ LoseClaim(n) \/ Publish(n) \/ Commit(n) \/ CommitFenced(n) \/ PublishFails(n)
           \/ StoreFails(n) \/ Evict(n)
  BY <1>2 DEF Assign, Fetch, ClaimDone, Begin, Finish, Complete, LoseClaim, Publish, Commit,
              CommitFenced, PublishFails, StoreFails, Evict, worker, Holding, TypeOK
<1>3. CASE Revoke(n) \/ Shutdown(n) \/ Crash(n) \/ Rejoin(n)
  BY <1>3 DEF Revoke, Shutdown, Crash, Rejoin, OnRevoked, Stopped, Holding, TypeOK
<1>4. CASE Tick \/ UNCHANGED vars
  BY <1>4 DEF Tick, vars, worker
<1>5. QED
  BY <1>1, <1>2, <1>3, <1>4 DEF Next, Step, Disturb

(* The store takes no live claim from its holder: claim needs the record     *)
(* run out, and complete and release the holder's own token.                 *)
LEMMA ClaimIsKept ==
    ASSUME TypeOK, DeliveryInv, RecordInv, TokenInv, StoreShape,
           NEW n \in Members, pc[n] \in Holding, pc'[n] \in Holding, held(n)
    PROVE  records'[Log[at[n]]] = records[Log[at[n]]]
<1>1. Log[at[n]] \in IntentIds
  BY LogType DEF DeliveryInv, Holding, Busy
<1>2. PICK rec \in records[Log[at[n]]] :
         rec.tag = "claim" /\ rec.token = token[n] /\ clock < rec.expires
  BY DEF held
<1>3. \A r \in records[Log[at[n]]] : r = rec
  BY <1>1, <1>2 DEF RecordInv
<1>4. CASE UNCHANGED store
  BY <1>4 DEF store
<1>5. ASSUME NEW m \in Members, pc[m] = "claim", claim(Log[at[m]])
      PROVE  records'[Log[at[n]]] = records[Log[at[n]]]
  <2>1. Log[at[m]] \in IntentIds
    BY <1>5, LogType DEF DeliveryInv, Busy
  <2>2. Log[at[n]] # Log[at[m]]
    BY <1>2, <1>5 DEF claim, live
  <2>3. QED
    BY <1>1, <1>5, <2>1, <2>2, GrantPays
<1>6. ASSUME NEW m \in Members, pc[m] = "complete", pc'[m] \notin Holding,
             complete(Log[at[m]], token[m], outcome[m])
      PROVE  records'[Log[at[n]]] = records[Log[at[n]]]
  <2>1. m # n /\ token[m] > 0
    BY <1>6 DEF TokenInv, Holding
  <2>2. token[m] # token[n]
    BY <2>1 DEF TokenInv
  <2>3. Log[at[n]] # Log[at[m]]
    BY <1>2, <1>3, <1>6, <2>2 DEF complete, owns, live
  <2>4. QED
    BY <1>1, <1>6, <2>3 DEF complete, TypeOK
<1>7. ASSUME NEW m \in Members, NEW c \in claims[m], pc'[m] \notin Holding,
             release(c.id, c.token)
      PROVE  records'[Log[at[n]]] = records[Log[at[n]]]
  <2>1. m # n
    BY <1>7
  <2>2. c.token # token[n]
    BY <2>1 DEF TokenInv
  <2>3. owns(c.id, c.token) => Log[at[n]] # c.id
    BY <1>2, <1>3, <2>2 DEF owns, live
  <2>4. QED
    BY <1>1, <1>7, <2>3 DEF release, TypeOK
<1>8. QED
  BY <1>4, <1>5, <1>6, <1>7 DEF StoreShape

(* Timely: a worker between its claim and its complete never loses it.       *)
LEMMA HoldStep ==
    ASSUME Timely, TypeOK, DeliveryInv, RecordInv, TokenInv, HoldInv, StoreShape, [Next]_vars
    PROVE  HoldInv'
<1>. SUFFICES ASSUME NEW n \in Members, pc'[n] \in Holding PROVE held(n)'
  BY DEF HoldInv
<1>1. CASE ClaimGranted(n)
  <2>1. Log[at[n]] \in IntentIds
    BY <1>1, LogType DEF ClaimGranted, DeliveryInv, Busy
  <2>2. PICK rec : rec = Claim(tokens + 1, clock + LeaseMs)
    OBVIOUS
  <2>3. rec.tag = "claim" /\ rec.token = tokens + 1 /\ clock < rec.expires
    BY <2>2, StoreAssumption DEF Claim, TypeOK
  <2>4. rec \in records'[Log[at[n]]]
    BY <1>1, <2>1, <2>2 DEF ClaimGranted, claim, TypeOK
  <2>5. token'[n] = tokens + 1 /\ at' = at /\ clock' = clock
    BY <1>1 DEF ClaimGranted, TypeOK
  <2>6. QED
    BY <2>3, <2>4, <2>5 DEF held
<1>2. CASE pc[n] \in Holding /\ token'[n] = token[n] /\ at'[n] = at[n]
  <2>1. held(n)
    BY <1>2 DEF HoldInv
  <2>2. records'[Log[at[n]]] = records[Log[at[n]]]
    BY <1>2, <2>1, ClaimIsKept
  <2>3. CASE clock' = clock
    BY <1>2, <2>1, <2>2, <2>3 DEF held
  <2>4. CASE Tick
    <3>1. \A r \in records[Log[at[n]]] : r.token = token[n] => clock + 1 < r.expires
      BY <1>2, <2>4 DEF Tick, Holding
    <3>2. clock' = clock + 1
      BY <2>4 DEF Tick
    <3>3. QED
      BY <1>2, <2>1, <2>2, <3>1, <3>2 DEF held
  <2>5. clock' = clock \/ Tick
    <3>1. ASSUME NEW m \in Members,
                 \/ Assign(m) \/ Fetch(m) \/ ClaimGranted(m) \/ ClaimDone(m) \/ Begin(m)
                 \/ Finish(m) \/ Complete(m) \/ LoseClaim(m) \/ Publish(m) \/ Commit(m)
                 \/ CommitFenced(m) \/ PublishFails(m) \/ StoreFails(m) \/ Evict(m)
          PROVE  clock' = clock
      BY <3>1 DEF Assign, Fetch, ClaimGranted, ClaimDone, Begin, Finish, Complete, LoseClaim,
                  Publish, Commit, CommitFenced, PublishFails, StoreFails, Evict
    <3>2. ASSUME NEW m \in Members, Revoke(m) \/ Shutdown(m) \/ Crash(m) \/ Rejoin(m)
          PROVE  clock' = clock
      BY <3>2 DEF Revoke, Shutdown, Crash, Rejoin, OnRevoked, Stopped
    <3>3. QED
      BY <3>1, <3>2 DEF Next, Step, Disturb, vars
  <2>6. QED
    BY <2>3, <2>4, <2>5
<1>3. QED
  BY <1>1, <1>2, HoldingSince

-----------------------------------------------------------------------------
(* Everything before the delivery in hand is settled, and the delivery       *)
(* itself once its worker is about to commit it.                             *)
BehindIsSettled(m) ==
    /\ pc[m] = "idle" => \A p \in Offsets : p < next[m] => settled(p)
    /\ pc[m] \in Busy => \A p \in Offsets : p < at[m] => settled(p)
    /\ pc[m] = "commit" => settled(at[m])

ProgressInv ==
    /\ \A m \in Members : BehindIsSettled(m)
    /\ NoIntentLost
    /\ InvokedInOrder

(* The topics only grow, so that what is settled stays settled.              *)
LEMMA SettledStays ==
    ASSUME TypeOK, DeliveryInv, TopicShape, TypeOK', NEW p \in Offsets, settled(p)
    PROVE  settled(p)'
<1>1. Log[p] \in IntentIds
  BY LogType
<1>2. notified'[Log[p]] >= notified[Log[p]]
  BY <1>1, NotifiedGrows
<1>3. results \subseteq results' /\ buried \subseteq buried'
  BY DEF TopicShape
<1>4. QED
  BY <1>1, <1>2, <1>3 DEF settled, TypeOK

LEMMA ProgressStep ==
    ASSUME TypeOK, TypeOK', DeliveryInv, DeliveryInv', RecordInv, OutcomeInv, HoldInv,
           ProgressInv, StoreShape, TopicShape, EffectShape, [Next]_vars
    PROVE  ProgressInv'
<1>1. \A p \in Offsets : settled(p) => settled(p)'
  BY SettledStays
<1>2. ASSUME NEW n \in Members, pc'[n] = pc[n], at'[n] = at[n], next'[n] = next[n]
      PROVE  BehindIsSettled(n)'
  <2>1. BehindIsSettled(n)
    BY DEF ProgressInv
  <2>2. pc[n] = "commit" => at[n] \in Offsets
    BY DEF DeliveryInv, Busy
  <2>3. QED
    BY <1>1, <1>2, <2>1, <2>2 DEF BehindIsSettled
<1>3. ASSUME NEW m \in Members, Assign(m) PROVE BehindIsSettled(m)'
  <2>1. pc'[m] = "idle" /\ next'[m] = committed
    BY <1>3 DEF Assign, TypeOK
  <2>2. QED
    BY <1>1, <2>1 DEF BehindIsSettled, ProgressInv, NoIntentLost, Busy
<1>4. ASSUME NEW m \in Members, Fetch(m) PROVE BehindIsSettled(m)'
  <2>1. /\ pc[m] = "idle" /\ at'[m] = next[m] /\ next[m] \in Offsets
        /\ pc'[m] \in {"dead_letter", "publish", "claim", "commit"}
        /\ pc'[m] = "commit" => ~verified(next[m]) /\ ~DeadLetters
    BY <1>4 DEF Fetch, TypeOK
  <2>2. \A p \in Offsets : p < next[m] => settled(p)'
    BY <1>1, <2>1 DEF ProgressInv, BehindIsSettled
  <2>3. pc'[m] = "commit" => settled(at[m])'
    BY <2>1 DEF settled
  <2>4. QED
    BY <2>1, <2>2, <2>3 DEF BehindIsSettled
<1>5. ASSUME NEW m \in Members, at'[m] = at[m], pc[m] \in Busy,
             pc'[m] \in Busy, pc'[m] = "commit" => settled(at[m])'
      PROVE  BehindIsSettled(m)'
  <2>1. \A p \in Offsets : p < at[m] => settled(p)'
    BY <1>1, <1>5 DEF ProgressInv, BehindIsSettled
  <2>2. pc'[m] # "idle"
    BY <1>5 DEF Busy
  <2>3. QED
    BY <1>5, <2>1, <2>2 DEF BehindIsSettled
<1>6. ASSUME NEW m \in Members, ClaimGranted(m) \/ Begin(m) \/ Finish(m)
      PROVE  BehindIsSettled(m)'
  <2>1. at'[m] = at[m] /\ pc[m] \in Busy /\ pc'[m] \in Busy /\ pc'[m] # "commit"
    BY <1>6 DEF ClaimGranted, Begin, Finish, Busy, TypeOK
  <2>2. QED
    BY <1>5, <2>1
<1>7. ASSUME NEW m \in Members, ClaimDone(m) PROVE BehindIsSettled(m)'
  <2>1. PICK rec \in done(Log[at[m]]) :
           pc' = [pc EXCEPT ![m] = IF rec.result = {} THEN "commit" ELSE "publish"]
    BY <1>7 DEF ClaimDone
  <2>2. at'[m] = at[m] /\ pc[m] \in Busy /\ pc'[m] \in Busy /\ Log[at[m]] \in IntentIds
    BY <1>7, <2>1, LogType DEF ClaimDone, Busy, TypeOK, DeliveryInv
  <2>3. rec \in records[Log[at[m]]] /\ rec.tag = "done"
    BY <2>1 DEF done, live
  <2>4. pc'[m] = "commit" => Log[at[m]] \in Approvals /\ notified[Log[at[m]]] > 0
    BY <2>1, <2>2, <2>3 DEF RecordInv, TypeOK
  <2>5. at[m] \in Offsets
    BY <2>2 DEF DeliveryInv
  <2>6. pc'[m] = "commit" => settled(at[m])'
    BY <1>1, <2>2, <2>4, <2>5 DEF settled
  <2>7. QED
    BY <1>5, <2>2, <2>6
<1>8. ASSUME NEW m \in Members, Complete(m) PROVE BehindIsSettled(m)'
  <2>1. /\ at'[m] = at[m] /\ pc[m] = "complete" /\ at[m] \in Offsets
        /\ pc'[m] \in {"commit", "publish"}
        /\ pc'[m] = "commit" => Log[at[m]] \in Approvals
    BY <1>8 DEF Complete, TypeOK, DeliveryInv, Busy
  <2>2. pc'[m] = "commit" => notified[Log[at[m]]] > 0
    BY <2>1 DEF OutcomeInv, OutcomeOf
  <2>3. pc'[m] = "commit" => settled(at[m])'
    BY <1>1, <2>1, <2>2 DEF settled
  <2>4. QED
    BY <1>5, <2>1, <2>3 DEF Busy
<1>9. ASSUME NEW m \in Members, LoseClaim(m) PROVE FALSE
  <2>1. held(m)
    BY <1>9 DEF LoseClaim, HoldInv, Holding
  <2>2. QED
    BY <1>9, <2>1 DEF LoseClaim, held, owns, live
<1>10. ASSUME NEW m \in Members, Publish(m) PROVE BehindIsSettled(m)'
  <2>1. /\ at'[m] = at[m] /\ pc[m] \in {"publish", "notify", "dead_letter"}
        /\ pc'[m] \in {"commit", "complete"} /\ at[m] \in Offsets
        /\ pc'[m] = "commit" => pc[m] # "notify"
    BY <1>10 DEF Publish, TypeOK, DeliveryInv, Busy
  <2>2. CASE pc[m] = "publish"
    <3>1. PICK r \in outcome[m] : r.id = Log[at[m]]
      BY <2>2 DEF OutcomeInv, OutcomeOf
    <3>2. r \in results'
      BY <1>10, <2>2, <3>1 DEF Publish, Land
    <3>3. settled(at[m])'
      BY <2>1, <3>1, <3>2 DEF settled
    <3>4. QED
      BY <1>5, <2>1, <3>3 DEF Busy
  <2>3. CASE pc[m] = "dead_letter"
    <3>1. ~verified(at[m]) /\ at[m] \in buried'
      BY <1>10, <2>3 DEF Publish, Land, DeliveryInv
    <3>2. settled(at[m])'
      BY <2>1, <3>1 DEF settled
    <3>3. QED
      BY <1>5, <2>1, <3>2 DEF Busy
  <2>4. CASE pc[m] = "notify"
    BY <1>5, <2>1, <2>4 DEF Busy
  <2>5. QED
    BY <2>1, <2>2, <2>3, <2>4
<1>11. ASSUME NEW m \in Members, Commit(m)
       PROVE  /\ BehindIsSettled(m)'
              /\ \A p \in Offsets : p < committed' => settled(p)'
  <2>1. /\ pc[m] = "commit" /\ pc'[m] = "idle" /\ committed' = at[m] + 1
        /\ next'[m] = at[m] + 1 /\ at[m] \in Offsets /\ at[m] \in Nat
    BY <1>11 DEF Commit, DeliveryInv, Busy, TypeOK
  <2>2. \A p \in Offsets : p < at[m] + 1 => settled(p)'
    <3>1. SUFFICES ASSUME NEW p \in Offsets, p < at[m] + 1 PROVE settled(p)'
      OBVIOUS
    <3>2. p < at[m] \/ p = at[m]
      BY <2>1, <3>1, EffectorAssumption DEF Offsets
    <3>3. QED
      BY <1>1, <2>1, <3>2 DEF ProgressInv, BehindIsSettled, Busy
  <2>3. QED
    BY <2>1, <2>2 DEF BehindIsSettled, Busy
<1>12. ASSUME NEW m \in Members,
              \/ CommitFenced(m) \/ StoreFails(m) \/ Revoke(m) \/ Shutdown(m) \/ Crash(m)
              \/ Rejoin(m)
       PROVE  BehindIsSettled(m)'
  <2>1. pc'[m] \in {"dead", "out"}
    BY <1>12 DEF CommitFenced, StoreFails, Revoke, Shutdown, Crash, Rejoin, OnRevoked,
                 Stopped, TypeOK
  <2>2. QED
    BY <2>1 DEF BehindIsSettled, Busy
<1>13. ASSUME NEW m \in Members, PublishFails(m) \/ Evict(m) PROVE BehindIsSettled(m)'
  <2>1. at'[m] = at[m] /\ next'[m] = next[m] /\ pc'[m] \in {pc[m], "dead"}
    BY <1>13 DEF PublishFails, Evict, worker, TypeOK
  <2>2. CASE pc'[m] = "dead"
    BY <2>2 DEF BehindIsSettled, Busy
  <2>3. CASE pc'[m] = pc[m]
    BY <1>2, <2>1, <2>3
  <2>4. QED
    BY <2>1, <2>2, <2>3
<1>14. ASSUME NEW m \in Members, Assign(m) \/ Step(m) \/ Disturb(m)
       PROVE  \A n \in Members : BehindIsSettled(n)'
  <2>1. BehindIsSettled(m)'
    BY <1>3, <1>4, <1>6, <1>7, <1>8, <1>9, <1>10, <1>11, <1>12, <1>13, <1>14
       DEF Step, Disturb
  <2>2. \A n \in Members \ {m} : BehindIsSettled(n)'
    BY <1>2, <1>14, OthersWait DEF Alone
  <2>3. QED
    BY <2>1, <2>2
<1>15. \A n \in Members : BehindIsSettled(n)'
  <2>1. CASE Tick \/ UNCHANGED vars
    BY <1>2, <2>1 DEF Tick, vars, worker
  <2>2. QED
    BY <1>14, <2>1 DEF Next
<1>16. NoIntentLost'
  <2>1. CASE UNCHANGED committed
    BY <1>1, <2>1 DEF NoIntentLost, ProgressInv
  <2>2. CASE \E m \in Members : Commit(m)
    BY <1>11, <2>2 DEF NoIntentLost
  <2>3. UNCHANGED committed \/ \E m \in Members : Commit(m)
    <3>1. ASSUME NEW m \in Members,
                 \/ Assign(m) \/ Fetch(m) \/ ClaimGranted(m) \/ ClaimDone(m) \/ Begin(m)
                 \/ Finish(m) \/ Complete(m) \/ LoseClaim(m) \/ Publish(m)
                 \/ CommitFenced(m) \/ PublishFails(m) \/ StoreFails(m) \/ Evict(m)
          PROVE  UNCHANGED committed
      BY <3>1 DEF Assign, Fetch, ClaimGranted, ClaimDone, Begin, Finish, Complete, LoseClaim,
                  Publish, CommitFenced, PublishFails, StoreFails, Evict, broker
    <3>2. ASSUME NEW m \in Members, Revoke(m) \/ Shutdown(m) \/ Crash(m) \/ Rejoin(m)
          PROVE  UNCHANGED committed
      BY <3>2 DEF Revoke, Shutdown, Crash, Rejoin, OnRevoked, Stopped
    <3>3. CASE Tick \/ UNCHANGED vars
      BY <3>3 DEF Tick, vars, broker
    <3>4. QED
      BY <3>1, <3>2, <3>3 DEF Next, Step, Disturb
  <2>4. QED
    BY <2>1, <2>2, <2>3
<1>17. InvokedInOrder'
  <2>1. \A q \in ran, p \in Offsets : p < q => settled(p)'
    BY <1>1 DEF ProgressInv, InvokedInOrder
  <2>2. ASSUME NEW m \in Members, pc[m] = "granted", NEW p \in Offsets, p < at[m]
        PROVE  settled(p)'
    BY <1>1, <2>2 DEF ProgressInv, BehindIsSettled, Busy
  <2>3. QED
    BY <2>1, <2>2 DEF EffectShape, effects, InvokedInOrder
<1>18. QED
  BY <1>15, <1>16, <1>17 DEF ProgressInv

LEMMA ProgressInvariant ==
    ASSUME Timely
    PROVE  Spec => [](TokenInv /\ HoldInv /\ ProgressInv)
<1>1. Init => TokenInv /\ HoldInv /\ ProgressInv
  <2>1. Init => TokenInv
    BY DEF Init, StoreInit, TokenInv, Holding
  <2>2. Init => HoldInv
    BY DEF Init, HoldInv, Holding
  <2>3. Init => ProgressInv
    BY EffectorAssumption DEF Init, ProgressInv, BehindIsSettled, Busy, NoIntentLost,
                              InvokedInOrder, Offsets
  <2>4. QED
    BY <2>1, <2>2, <2>3
<1>2. ASSUME TypeOK, TypeOK', DeliveryInv, DeliveryInv', ResultInv, [Next]_vars,
             TokenInv, HoldInv, ProgressInv
      PROVE  (TokenInv /\ HoldInv /\ ProgressInv)'
  <2>1. StoreShape /\ TopicShape /\ EffectShape
    BY <1>2, StepShapes, EffectShapes
  <2>2. RecordInv /\ OutcomeInv
    BY <1>2 DEF ResultInv
  <2>3. TokenInv'
    BY <1>2, TokenStep
  <2>4. HoldInv'
    BY <1>2, <2>1, <2>2, HoldStep
  <2>5. ProgressInv'
    BY <1>2, <2>1, <2>2, ProgressStep
  <2>6. QED
    BY <2>3, <2>4, <2>5
<1>3. QED
  BY <1>1, <1>2, EffectorTypeCorrect, ResultInvariant, PTL DEF Spec

(* Where a running worker completes within its lease, the group's committed  *)
(* offset passes no delivery that is not settled, whatever crashes, rebal-   *)
(* ances, lost replies and failed publishes come between.                    *)
THEOREM NothingIsLost == ASSUME Timely PROVE Spec => []NoIntentLost
<1>1. ProgressInv => NoIntentLost
  BY DEF ProgressInv
<1>2. QED
  BY <1>1, ProgressInvariant, PTL

(* Under the same proviso a tool is invoked for a delivery only when every   *)
(* earlier one of the partition is settled.                                  *)
THEOREM DeliveriesSettleInOrder == ASSUME Timely PROVE Spec => []SettledInOrder
<1>1. TypeOK /\ ProgressInv => SettledInOrder
  BY DEF ProgressInv, SettledInOrder
<1>2. QED
  BY <1>1, EffectorTypeCorrect, ProgressInvariant, PTL
=============================================================================
