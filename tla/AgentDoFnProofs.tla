--------------------------- MODULE AgentDoFnProofs ---------------------------
(***************************************************************************)
(* Proofs about AgentDoFn for every value of its constants.                *)
(***************************************************************************)
EXTENDS AgentDoFn, FiniteSetTheorems, TLAPS

(* The part of TypeOK that a commit writes or leaves alone itself ...        *)
CommitTypeOK ==
    /\ memory \in Nat /\ llm_cache \in Nat /\ seq \in Nat
    /\ Cell(continuation, Continuations)
    /\ pending \subseteq Intents
    /\ batch \subseteq [ev : Events, t : Int]
    /\ Cell(ttl_timer, Int) /\ Cell(hitl_timer, Int) /\ Cell(flush_timer, Int)
    /\ wall \in Nat /\ watermark \in Nat
    /\ Cell(longterm, [seq : Nat, value : Nat])
    /\ emissions \in Nat /\ outbox \subseteq Intents /\ epoch \in Nat

(* ... and the part the handler around it is responsible for.                *)
HandlerTypeOK ==
    /\ hitl_fired \subseteq Int /\ flush_fired \subseteq Int
    /\ arrived \subseteq Events /\ answers \in Nat
    /\ reports \subseteq Reports
    /\ handled \in [Events -> Nat]

(* The two parts are TypeOK.                                                 *)
LEMMA TypeSplit == TypeOK <=> CommitTypeOK /\ HandlerTypeOK
BY DEF TypeOK, CommitTypeOK, HandlerTypeOK

(* The same split, for the state after a step.                               *)
LEMMA TypeSplitPrime == TypeOK' <=> CommitTypeOK' /\ HandlerTypeOK'
BY DEF TypeOK, CommitTypeOK, HandlerTypeOK

(* _commit keeps the types, whatever the activation staged.                  *)
LEMMA CommitType ==
    ASSUME CommitTypeOK,
           NEW s \in Nat, NEW t \in Int, NEW first \in Nat, NEW steps \in 0..MaxSteps,
           NEW acting \in SUBSET (first..(first + steps - 1)),
           NEW ttl \in [acting -> IntentTtls],
           NEW deadline, Cell(deadline, Int),
           NEW flush \in BOOLEAN,
           Commit(s, t, first, steps, ttl, deadline, flush)
    PROVE  CommitTypeOK'
<1> DEFINE n == emissions + 1
           staged == {[id |-> intent_id_for(s, i), expires |-> t + ttl[i],
                       n |-> n, epoch |-> epoch] : i \in DOMAIN ttl}
<1>1. n \in Nat /\ epoch \in Nat /\ DOMAIN ttl = acting
  BY DEF CommitTypeOK
<1>2. staged \subseteq Intents
  <2> SUFFICES ASSUME NEW i \in acting
               PROVE  [id |-> intent_id_for(s, i), expires |-> t + ttl[i],
                       n |-> n, epoch |-> epoch] \in Intents
    BY <1>1
  <2>1. i \in Nat
    <3>1. i \in first..(first + steps - 1)
      OBVIOUS
    <3>2. first \in Nat /\ steps \in Int
      BY BoundAssumption
    <3> QED
      BY <3>1, <3>2
  <2>2. ttl[i] \in Int
    <3>1. ttl[i] \in IntentTtls
      OBVIOUS
    <3> QED
      BY <3>1, TimeAssumption
  <2> QED
    BY <1>1, <2>1, <2>2 DEF Intents, Ids, intent_id_for
<1>3. first + steps \in Nat
  BY BoundAssumption
<1>4. Cell(continuation', Continuations)
  <2> DEFINE cont(d) == [seq |-> s, step |-> first + steps,
                         ids |-> {i.id : i \in staged}, deadline |-> d,
                         escalations |-> 0, origins |-> {n}]
  <2>1. continuation' = {cont(d) : d \in deadline}
    BY DEF Commit
  <2>2. {i.id : i \in staged} \in SUBSET Ids
    BY <1>2 DEF Intents
  <2>3. \A d \in deadline : cont(d) \in Continuations
    BY <1>1, <1>3, <2>2 DEF Continuations, Cell
  <2> QED
    BY <2>1, <2>3 DEF Cell
<1>5. Cell(hitl_timer', Int) /\ Cell(ttl_timer', Int) /\ Cell(flush_timer', Int)
  <2>1. Ttl \in Int /\ wall \in Int
    BY TimeAssumption DEF CommitTypeOK
  <2>2. Cell(hitl_timer', Int)
    BY DEF Commit
  <2>3. Cell(ttl_timer', Int)
    <3>1. CASE deadline = {}
      BY <2>1, <3>1 DEF Commit, Cell
    <3>2. CASE deadline # {}
      <4>1. ttl_timer' = {Max2(t, d) + Ttl : d \in deadline}
        BY <3>2 DEF Commit
      <4>2. \A d \in deadline : Max2(t, d) + Ttl \in Int
        BY <2>1 DEF Cell, Max2
      <4> QED
        BY <4>1, <4>2 DEF Cell
    <3> QED
      BY <3>1, <3>2
  <2>4. Cell(flush_timer', Int)
    BY <2>1 DEF Commit, CommitTypeOK, Cell, rearm_flush
  <2> QED
    BY <2>2, <2>3, <2>4
<1>6. pending' \subseteq Intents /\ outbox' \subseteq Intents
  BY <1>2 DEF Commit, CommitTypeOK
<1>7. /\ memory' \in Nat /\ llm_cache' \in Nat /\ seq' \in Nat /\ emissions' \in Nat
      /\ batch' \subseteq [ev : Events, t : Int]
      /\ wall' \in Nat /\ watermark' \in Nat /\ epoch' \in Nat
      /\ Cell(longterm', [seq : Nat, value : Nat])
  BY DEF Commit, CommitTypeOK, clocks, Cell
<1> QED
  BY <1>4, <1>5, <1>6, <1>7 DEF CommitTypeOK, Cell

(* A successful activation keeps the types.                                  *)
LEMMA SucceedsType ==
    ASSUME CommitTypeOK, NEW s \in Nat, NEW t \in Int, NEW first \in Nat,
           NEW flush \in BOOLEAN, Succeeds(s, t, first, flush)
    PROVE  CommitTypeOK'
<1> SUFFICES ASSUME NEW steps \in 0..MaxSteps,
                    NEW acting \in SUBSET (first..(first + steps - 1)),
                    NEW ttl \in [acting -> IntentTtls],
                    \/ Commit(s, t, first, steps, ttl, {}, flush)
                    \/ \E timeout \in Timeouts :
                         \E d \in {t + timeout} \cup {t + ttl[i] : i \in acting} :
                            Commit(s, t, first, steps, ttl, {d}, flush)
             PROVE  CommitTypeOK'
  BY DEF Succeeds
<1>2. CASE Commit(s, t, first, steps, ttl, {}, flush)
  BY <1>2, CommitType DEF Cell
<1>3. ASSUME NEW timeout \in Timeouts,
             NEW d \in {t + timeout} \cup {t + ttl[i] : i \in acting},
             Commit(s, t, first, steps, ttl, {d}, flush)
      PROVE  CommitTypeOK'
  <2>1. d \in Int
    BY TimeAssumption
  <2>2. Cell({d}, Int)
    BY <2>1 DEF Cell
  <2> QED
    BY <1>3, <2>2, CommitType
<1> QED
  BY <1>2, <1>3

-----------------------------------------------------------------------------
(* A failed start or resume, and a flush, keep the types.                    *)
LEMMA FailsType ==
    ASSUME CommitTypeOK, NEW cause \in Causes, Fails(cause)
    PROVE  CommitTypeOK' /\ reports' \subseteq Reports
<1>1. CommitTypeOK'
  BY DEF CommitTypeOK, Fails, keyed, clocks, Cell
<1>2. reports' \subseteq Reports
  BY DEF Fails, Causes, failed_activation, Report, Reports
<1> QED
  BY <1>1, <1>2

(* _flush keeps the types, whether its activation commits or fails.          *)
LEMMA FlushType ==
    ASSUME TypeOK, NEW b \in SUBSET [ev : Events, t : Int],
           NEW ttl, Cell(ttl, Int), Flush(b, ttl)
    PROVE  /\ CommitTypeOK'
           /\ reports' \subseteq Reports
           /\ handled' \in [Events -> Nat]
<1>1. handled' \in [Events -> Nat]
  BY DEF Flush, FailedFlush, TypeOK
<1>2. ASSUME NEW last \in b, Succeeds(seq, last.t, 0, TRUE), reports' = {}
      PROVE  CommitTypeOK' /\ reports' \subseteq Reports
  <2>1. last.t \in Int /\ seq \in Nat /\ CommitTypeOK
    BY TypeSplit DEF TypeOK
  <2> QED
    BY <1>2, <2>1, SucceedsType
<1>3. ASSUME NEW cause \in Causes,
             reports' = {Report(failed_flush(cause), cause)},
             batch' = {}, flush_timer' = {}, ttl_timer' = ttl,
             UNCHANGED <<keyed, hitl_timer, longterm, clocks, emissions, outbox, epoch>>
      PROVE  CommitTypeOK' /\ reports' \subseteq Reports
  <2>1. CommitTypeOK'
    BY <1>3 DEF TypeOK, CommitTypeOK, keyed, clocks, Cell
  <2>2. reports' \subseteq Reports
    BY <1>3 DEF Causes, failed_flush, Report, Reports
  <2> QED
    BY <2>1, <2>2
<1> QED
  BY <1>1, <1>2, <1>3 DEF Flush, FailedFlush

(* _escalate keeps the types.                                                *)
LEMMA EscalateType ==
    ASSUME TypeOK, NEW c \in continuation, NEW m \in Int, NEW timeout \in EscalateTimeouts,
           Escalate(c, m, timeout)
    PROVE  /\ Cell(continuation', Continuations)
           /\ pending' \subseteq Intents /\ outbox' \subseteq Intents
           /\ Cell(hitl_timer', Int) /\ Cell(ttl_timer', Int)
           /\ emissions' \in Nat
<1> DEFINE d == m + timeout
           intent == [id |-> intent_id_for(c.seq, c.step), expires |-> d,
                      n |-> emissions + 1, epoch |-> epoch]
<1>1. d \in Int /\ d + Ttl \in Int
  BY TimeAssumption
<1>2. c \in Continuations /\ emissions + 1 \in Nat
  BY DEF TypeOK, Cell
<1>3. intent \in Intents
  BY <1>1, <1>2 DEF TypeOK, Intents, Ids, intent_id_for, Continuations
<1>4. continuation' = {[c EXCEPT !.step = @ + 1, !.deadline = d, !.escalations = @ + 1,
                                 !.ids = @ \cup {intent.id},
                                 !.origins = @ \cup {emissions + 1}]}
  BY DEF Escalate, escalated
<1>5. [c EXCEPT !.step = @ + 1, !.deadline = d, !.escalations = @ + 1,
                !.ids = @ \cup {intent.id},
                !.origins = @ \cup {emissions + 1}] \in Continuations
  <2>1. intent.id \in Ids
    BY <1>3 DEF Intents
  <2>2. /\ c.step + 1 \in Nat /\ c.escalations + 1 \in Nat
        /\ c.ids \cup {intent.id} \in SUBSET Ids
        /\ c.origins \cup {emissions + 1} \in SUBSET Nat
    BY <1>2, <2>1 DEF Continuations
  <2> HIDE DEF intent, d
  <2> QED
    BY <1>1, <1>2, <2>2 DEF Continuations
<1>6. Cell(continuation', Continuations)
  BY <1>4, <1>5 DEF Cell
<1>7. pending' \subseteq Intents /\ outbox' \subseteq Intents
  BY <1>3 DEF Escalate, escalated, TypeOK
<1>8. Cell(hitl_timer', Int) /\ Cell(ttl_timer', Int) /\ emissions' \in Nat
  BY <1>1, <1>2 DEF Escalate, escalated, Cell
<1> QED
  BY <1>6, <1>7, <1>8

(* The inductive step of type correctness, one case per action.              *)
LEMMA NextType ==
    ASSUME TypeOK, [Next]_vars
    PROVE  TypeOK'
<1> USE DEF clocks, inputs, history, keyed
<1>0. CommitTypeOK /\ HandlerTypeOK
  BY TypeSplit
<1>1. ASSUME NEW e \in Events, NEW t \in 1..wall, Start(e, t)
      PROVE  TypeOK'
  <2>1. CommitTypeOK' /\ reports' \subseteq Reports
    <3>1. CASE Succeeds(seq, t, 0, FALSE) /\ reports' = {}
      <4>1. seq \in Nat /\ t \in Int
        BY DEF TypeOK
      <4>2. CommitTypeOK'
        BY <1>0, <3>1, <4>1, SucceedsType
      <4> QED
        BY <3>1, <4>2
    <3>2. CASE \E cause \in Causes : Fails(cause)
      BY <1>0, <3>2, FailsType
    <3> QED
      BY <1>1, <3>1, <3>2 DEF Start
  <2>2. HandlerTypeOK'
    BY <1>1, <2>1 DEF Start, Deliver, TypeOK, HandlerTypeOK
  <2> QED
    BY <2>1, <2>2, TypeSplitPrime
<1>2. ASSUME NEW e \in Events, BufferOverflow(e)
      PROVE  TypeOK'
  <2>1. reports' \subseteq Reports
    BY <1>2 DEF BufferOverflow, Report, Reports
  <2> QED
    BY <1>2, <2>1 DEF BufferOverflow, Deliver, TypeOK, Cell
<1>3. ASSUME NEW e \in Events, NEW t \in 1..wall, Buffer(e, t)
      PROVE  TypeOK'
  <2> DEFINE b == batch \cup {[ev |-> e, t |-> t]}
  <2>1. t \in Int /\ t + Ttl \in Int /\ wall + MaxWait \in Int
    BY TimeAssumption DEF TypeOK
  <2>2. b \in SUBSET [ev : Events, t : Int]
    BY <2>1 DEF TypeOK
  <2>3. CASE Flush(b, {t + Ttl})
    <3>1. Cell({t + Ttl}, Int)
      BY <2>1 DEF Cell
    <3>2. /\ CommitTypeOK'
          /\ reports' \subseteq Reports
          /\ handled' \in [Events -> Nat]
      BY <2>2, <2>3, <3>1, FlushType
    <3>3. HandlerTypeOK'
      BY <1>3, <3>2 DEF Buffer, Deliver, TypeOK, HandlerTypeOK
    <3> QED
      BY <3>2, <3>3, TypeSplitPrime
  <2>4. CASE ~should_flush_on_size(b)
    BY <1>3, <2>1, <2>2, <2>4 DEF Buffer, Deliver, TypeOK, Cell
  <2> QED
    BY <1>3, <2>3, <2>4 DEF Buffer
<1>4. ASSUME NEW i \in outbox, NEW t \in 1..wall, Orphan(i, t)
      PROVE  TypeOK'
  <2>1. \A detail \in admission_failure(i, t) :
          detail \in {"no_continuation", "unknown_intent", "deadline_passed", "intent_expired"}
    BY DEF admission_failure
  <2>2. reports' \subseteq Reports
    BY <1>4, <2>1 DEF Orphan, Report, Reports
  <2> QED
    BY <1>4, <2>2 DEF Orphan, Answer, TypeOK, Cell
<1>5. ASSUME NEW i \in outbox, NEW t \in 1..wall, Resume(i, t)
      PROVE  TypeOK'
  <2>1. PICK c \in continuation :
          \/ /\ Succeeds(c.seq, t, c.step, FALSE)
             /\ reports' = {Report("resumed", Provenance(i, c))}
          \/ \E cause \in Causes : Fails(cause)
    BY <1>5 DEF Resume
  <2>2. c.seq \in Nat /\ c.step \in Nat
    BY DEF TypeOK, Cell, Continuations
  <2>3. CommitTypeOK' /\ reports' \subseteq Reports
    <3>1. CASE /\ Succeeds(c.seq, t, c.step, FALSE)
               /\ reports' = {Report("resumed", Provenance(i, c))}
      <4>1. t \in Int
        BY DEF TypeOK
      <4>2. CommitTypeOK'
        BY <1>0, <2>2, <3>1, <4>1, SucceedsType
      <4>3. reports' \subseteq Reports
        BY <3>1 DEF Report, Provenance, Reports
      <4> QED
        BY <4>2, <4>3
    <3>2. CASE \E cause \in Causes : Fails(cause)
      BY <1>0, <3>2, FailsType
    <3> QED
      BY <2>1, <3>1, <3>2
  <2>4. HandlerTypeOK'
    BY <1>5, <2>3 DEF Resume, Answer, TypeOK, HandlerTypeOK
  <2> QED
    BY <2>3, <2>4, TypeSplitPrime
<1>6. CASE DispatchHitl
  BY <1>6 DEF DispatchHitl, TypeOK, Cell
<1>7. CASE DispatchFlush
  BY <1>7 DEF DispatchFlush, TypeOK, Cell
<1>8. ASSUME NEW m \in hitl_fired, OnHitl(m)
      PROVE  TypeOK'
  <2>0. m \in Int
    BY DEF TypeOK
  <2>1. CASE UNCHANGED <<keyed, ttl_timer, hitl_timer, flush_timer, emissions, outbox>>
             /\ reports' = {}
    BY <1>8, <2>1 DEF OnHitl, TypeOK, Cell
  <2>2. ASSUME NEW c \in continuation, NEW timeout \in EscalateTimeouts,
               Escalate(c, m, timeout)
        PROVE  TypeOK'
    <3>1. /\ Cell(continuation', Continuations)
          /\ pending' \subseteq Intents /\ outbox' \subseteq Intents
          /\ Cell(hitl_timer', Int) /\ Cell(ttl_timer', Int)
          /\ emissions' \in Nat
      BY <2>0, <2>2, EscalateType
    <3> QED
      BY <1>8, <2>2, <3>1 DEF OnHitl, Escalate, escalated, TypeOK, Cell
  <2>3. ASSUME NEW route \in Routes, NEW kind \in {"deny", "hitl_timeout"},
               EndSuspension(Report(kind, route))
        PROVE  TypeOK'
    <3>1. route \in {"deny", "drop", "escalate", "raise"}
      BY PolicyAssumption
    <3>2. reports' \subseteq Reports
      BY <2>3, <3>1 DEF EndSuspension, Report, Reports
    <3> QED
      BY <1>8, <2>3, <3>2 DEF OnHitl, EndSuspension, TypeOK, Cell, rearm_flush
  <2> QED
    BY <1>8, <2>1, <2>2, <2>3 DEF OnHitl
<1>9. ASSUME NEW m \in flush_fired, OnFlush(m)
      PROVE  TypeOK'
  <2>1. CASE Flush(batch, ttl_timer)
    <3>1. batch \in SUBSET [ev : Events, t : Int] /\ Cell(ttl_timer, Int)
      BY DEF TypeOK
    <3>2. /\ CommitTypeOK'
          /\ reports' \subseteq Reports
          /\ handled' \in [Events -> Nat]
      BY <2>1, <3>1, FlushType
    <3>3. HandlerTypeOK'
      BY <1>9, <3>2 DEF OnFlush, TypeOK, HandlerTypeOK
    <3> QED
      BY <3>2, <3>3, TypeSplitPrime
  <2>2. CASE ~should_flush_on_timer(batch)
    BY <1>9, <2>2 DEF OnFlush, TypeOK, Cell
  <2> QED
    BY <1>9, <2>1, <2>2 DEF OnFlush
<1>10. CASE OnTtl
  <2>1. reports' \subseteq Reports
    BY <1>10 DEF OnTtl, Wipe, Report, Reports
  <2>2. Cell(longterm', [seq : Nat, value : Nat])
    BY <1>10 DEF OnTtl, Wipe, flush_expiring, TypeOK, Cell
  <2>3. handled' \in [Events -> Nat]
    BY <1>10 DEF OnTtl, Wipe, TypeOK
  <2> QED
    BY <1>10, <2>1, <2>2, <2>3 DEF OnTtl, Wipe, TypeOK, Cell
<1>11. CASE OnTtlRetry
  <2>1. Cell(longterm', [seq : Nat, value : Nat])
    BY <1>11 DEF OnTtlRetry, flush_expiring, TypeOK, Cell
  <2> QED
    BY <1>11, <2>1 DEF OnTtlRetry, TypeOK, Cell
<1>12. CASE Tick
  BY <1>12 DEF Tick, TypeOK, Cell
<1>13. CASE AdvanceWatermark
  BY <1>13 DEF AdvanceWatermark, TypeOK, Cell
<1>14. CASE UNCHANGED vars
  BY <1>14 DEF vars, TypeOK, Cell
<1> QED
  BY <1>1, <1>2, <1>3, <1>4, <1>5, <1>6, <1>7, <1>8, <1>9, <1>10, <1>11, <1>12, <1>13, <1>14
     DEF Next

(* A fresh key is well typed.                                                *)
LEMMA InitType == Init => TypeOK
BY DEF Init, TypeOK, Cell

(* Type correctness of the activation engine: every state spec, timer and    *)
(* delivery of _AgentDoFn keeps its range along every behaviour.             *)
THEOREM TypeCorrect == Spec => []TypeOK
BY InitType, NextType, PTL DEF Spec

-----------------------------------------------------------------------------
(* The entry point of an activation is fresh: no intent of this life of the  *)
(* key was minted at seq s from step first on.                               *)
Fresh(s, first) ==
    /\ s <= seq
    /\ \A i \in outbox : i.epoch = epoch /\ i.id[1] = s => i.id[2] < first

(* _commit of an activation that entered at a fresh point keeps the ids      *)
(* unique and the suspension it writes above everything minted.              *)
LEMMA CommitIds ==
    ASSUME TypeOK, IdsInv,
           NEW s \in Nat, NEW t \in Int, NEW first \in Nat, NEW steps \in 0..MaxSteps,
           NEW acting \in SUBSET (first..(first + steps - 1)),
           NEW ttl \in [acting -> IntentTtls],
           NEW deadline, NEW flush \in BOOLEAN,
           Fresh(s, first),
           Commit(s, t, first, steps, ttl, deadline, flush)
    PROVE  IdsInv'
<1> DEFINE n == emissions + 1
           staged == {[id |-> intent_id_for(s, i), expires |-> t + ttl[i],
                       n |-> n, epoch |-> epoch] : i \in DOMAIN ttl}
<1>1. outbox' = outbox \cup staged /\ epoch' = epoch /\ seq' = seq + 1
  BY DEF Commit
<1>2. \A i \in staged : /\ i.n = n /\ i.epoch = epoch
                        /\ i.id[1] = s /\ first <= i.id[2] /\ i.id[2] < first + steps
  <2> SUFFICES ASSUME NEW k \in acting
               PROVE  first <= k /\ k < first + steps
    BY DEF intent_id_for
  <2>1. k \in first..(first + steps - 1)
    OBVIOUS
  <2> QED
    BY <2>1, BoundAssumption
<1>3. seq \in Nat /\ epoch \in Nat /\ first + steps \in Nat
  BY BoundAssumption DEF TypeOK
<1>4. \A i \in outbox : i.id[1] \in Nat /\ i.id[2] \in Nat /\ i.epoch \in Nat
  BY DEF TypeOK, Intents, Ids
<1>5. \A i \in outbox : \A j \in staged : i.epoch = epoch => i.id # j.id
  BY <1>2, <1>4 DEF Fresh
<1>6. \A i \in outbox' : i.epoch <= epoch' /\ (i.epoch = epoch' => i.id[1] < seq')
  <2>1. \A i \in outbox : i.epoch <= epoch' /\ (i.epoch = epoch' => i.id[1] < seq')
    BY <1>1, <1>3, <1>4 DEF IdsInv
  <2>2. \A i \in staged : i.epoch <= epoch' /\ (i.epoch = epoch' => i.id[1] < seq')
    BY <1>1, <1>2, <1>3 DEF Fresh
  <2> QED
    BY <1>1, <2>1, <2>2
<1>7. IntentIdsUnique'
  BY <1>1, <1>2, <1>5 DEF IdsInv, IntentIdsUnique
<1>8. ASSUME NEW c \in continuation'
      PROVE  /\ c.seq < seq'
             /\ \A k \in c.origins : k <= emissions'
             /\ \A i \in outbox' : i.epoch = epoch' =>
                   /\ i.id[1] = c.seq => i.id[2] < c.step
                   /\ i.id \in c.ids => i.n \in c.origins
  <2>1. c.seq = s /\ c.step = first + steps /\ c.ids = {i.id : i \in staged}
        /\ c.origins = {n}
    BY DEF Commit
  <2>2. c.seq < seq'
    BY <1>1, <1>3, <2>1 DEF Fresh
  <2>3. ASSUME NEW i \in outbox, i.epoch = epoch
        PROVE  /\ i.id[1] = c.seq => i.id[2] < c.step
               /\ i.id \notin c.ids
    BY <1>3, <1>4, <1>5, <2>1, <2>3 DEF Fresh
  <2>4. ASSUME NEW i \in staged
        PROVE  i.id[2] < c.step /\ i.n \in c.origins
    BY <1>2, <2>1
  <2>5. \A k \in c.origins : k <= emissions'
    BY <2>1 DEF Commit, TypeOK
  <2> QED
    BY <1>1, <2>2, <2>3, <2>4, <2>5
<1> QED
  BY <1>6, <1>7, <1>8 DEF IdsInv

(* An activation entered at a fresh step keeps the ids apart.                *)
LEMMA SucceedsIds ==
    ASSUME TypeOK, IdsInv, NEW s \in Nat, NEW t \in Int, NEW first \in Nat,
           NEW flush \in BOOLEAN, Fresh(s, first), Succeeds(s, t, first, flush)
    PROVE  IdsInv'
<1> SUFFICES ASSUME NEW steps \in 0..MaxSteps,
                    NEW acting \in SUBSET (first..(first + steps - 1)),
                    NEW ttl \in [acting -> IntentTtls],
                    NEW deadline,
                    Commit(s, t, first, steps, ttl, deadline, flush)
             PROVE  IdsInv'
  BY DEF Succeeds
<1> QED
  BY CommitIds

(* A step that leaves outbox, epoch, SEQ and the emission count alone, and   *)
(* CONTINUATION alone or cleared, keeps the ids.                             *)
LEMMA QuietIds ==
    ASSUME IdsInv, UNCHANGED <<outbox, epoch, seq, emissions>>,
           continuation' = continuation \/ continuation' = {}
    PROVE  IdsInv'
BY DEF IdsInv, IntentIdsUnique

(* A new activation at SEQ is fresh, and so is a resume at the cursor.       *)
LEMMA FreshEntry ==
    ASSUME TypeOK, IdsInv
    PROVE  Fresh(seq, 0) /\ \A c \in continuation : Fresh(c.seq, c.step)
<1>1. \A i \in outbox : i.epoch = epoch => i.id[1] # seq
  BY DEF TypeOK, Intents, Ids, IdsInv
<1>2. \A c \in continuation : c.seq \in Nat /\ seq \in Nat
  BY DEF TypeOK, Cell, Continuations
<1> QED
  BY <1>1, <1>2 DEF Fresh, IdsInv, TypeOK

(* _escalate mints at the cursor and moves it.                               *)
LEMMA EscalateIds ==
    ASSUME TypeOK, IdsInv, NEW c \in continuation, NEW m \in Int,
           NEW timeout \in EscalateTimeouts, Escalate(c, m, timeout), epoch' = epoch
    PROVE  IdsInv'
<1> DEFINE n == emissions + 1
           intent == [id |-> intent_id_for(c.seq, c.step), expires |-> m + timeout,
                      n |-> n, epoch |-> epoch]
<1>1. outbox' = outbox \cup {intent} /\ seq' = seq
  BY DEF Escalate, escalated
<1>2. c \in Continuations /\ c.seq \in Nat /\ c.step \in Nat /\ seq \in Nat /\ epoch \in Nat
  BY DEF TypeOK, Cell, Continuations
<1>3. intent.id[1] = c.seq /\ intent.id[2] = c.step /\ intent.epoch = epoch /\ intent.n = n
  BY DEF intent_id_for
<1>4. \A i \in outbox : i.id[1] \in Nat /\ i.id[2] \in Nat /\ i.epoch \in Nat
  BY DEF TypeOK, Intents, Ids
<1>5. \A i \in outbox : i.epoch = epoch => i.id # intent.id
  BY <1>2, <1>3, <1>4 DEF IdsInv
<1>6. \A d \in continuation' : /\ d.seq = c.seq /\ d.step = c.step + 1
                               /\ d.ids = c.ids \cup {intent.id}
                               /\ d.origins = c.origins \cup {n}
  BY <1>2 DEF Escalate, escalated, Continuations
<1> HIDE DEF intent, n
<1>7. \A i \in outbox' : i.epoch <= epoch' /\ (i.epoch = epoch' => i.id[1] < seq')
  BY <1>1, <1>2, <1>3 DEF IdsInv
<1>8. IntentIdsUnique'
  BY <1>1, <1>3, <1>5 DEF IdsInv, IntentIdsUnique
<1>9. ASSUME NEW d \in continuation'
      PROVE  /\ d.seq < seq'
             /\ \A k \in d.origins : k <= emissions'
             /\ \A i \in outbox' : i.epoch = epoch' =>
                   /\ i.id[1] = d.seq => i.id[2] < d.step
                   /\ i.id \in d.ids => i.n \in d.origins
  <2>1. d.seq < seq'
    BY <1>1, <1>6 DEF IdsInv
  <2>2. ASSUME NEW i \in outbox, i.epoch = epoch
        PROVE  /\ i.id[1] = d.seq => i.id[2] < d.step
               /\ i.id \in d.ids => i.n \in d.origins
    BY <1>2, <1>4, <1>5, <1>6, <2>2 DEF IdsInv
  <2>3. intent.id[2] < d.step /\ intent.n \in d.origins
    BY <1>2, <1>3, <1>6
  <2>4. \A k \in d.origins : k <= emissions'
    <3>1. emissions' = n /\ n = emissions + 1 /\ emissions \in Nat
      BY DEF Escalate, escalated, TypeOK, n
    <3>2. \A k \in c.origins : k \in Nat /\ k <= emissions
      BY <1>2 DEF IdsInv, Continuations
    <3> QED
      BY <1>6, <3>1, <3>2
  <2> QED
    BY <1>1, <2>1, <2>2, <2>3, <2>4
<1> QED
  BY <1>7, <1>8, <1>9 DEF IdsInv

(* A flush enters at (SEQ, 0), or fails and mints nothing.                   *)
LEMMA FlushIds ==
    ASSUME TypeOK, IdsInv, NEW b \in SUBSET [ev : Events, t : Int], NEW ttl, Flush(b, ttl)
    PROVE  IdsInv'
<1>1. ASSUME NEW last \in b, Succeeds(seq, last.t, 0, TRUE)
      PROVE  IdsInv'
  <2>1. seq \in Nat /\ last.t \in Int
    BY DEF TypeOK
  <2> QED
    BY <1>1, <2>1, FreshEntry, SucceedsIds
<1>2. CASE UNCHANGED <<keyed, hitl_timer, longterm, clocks, emissions, outbox, epoch>>
  BY <1>2, QuietIds DEF keyed
<1> QED
  BY <1>1, <1>2 DEF Flush, FailedFlush

(* The inductive step, one case per action.                                  *)
LEMMA NextIds ==
    ASSUME TypeOK, IdsInv, [Next]_vars
    PROVE  IdsInv'
<1> USE DEF keyed, history
<1>1. ASSUME NEW e \in Events, NEW t \in 1..wall, Start(e, t)
      PROVE  IdsInv'
  <2>1. CASE Succeeds(seq, t, 0, FALSE)
    <3>1. seq \in Nat /\ t \in Int
      BY DEF TypeOK
    <3> QED
      BY <2>1, <3>1, FreshEntry, SucceedsIds
  <2>2. CASE \E cause \in Causes : Fails(cause)
    BY <2>2, QuietIds DEF Fails
  <2> QED
    BY <1>1, <2>1, <2>2 DEF Start
<1>2. ASSUME NEW e \in Events, BufferOverflow(e)
      PROVE  IdsInv'
  BY <1>2, QuietIds DEF BufferOverflow
<1>3. ASSUME NEW e \in Events, NEW t \in 1..wall, Buffer(e, t)
      PROVE  IdsInv'
  <2> DEFINE b == batch \cup {[ev |-> e, t |-> t]}
  <2>1. CASE Flush(b, {t + Ttl})
    <3>1. t \in Int
      BY DEF TypeOK
    <3>2. b \in SUBSET [ev : Events, t : Int]
      BY <3>1 DEF TypeOK
    <3> QED
      BY <2>1, <3>2, FlushIds
  <2>2. CASE ~should_flush_on_size(b)
    BY <1>3, <2>2, QuietIds DEF Buffer
  <2> QED
    BY <1>3, <2>1, <2>2 DEF Buffer
<1>4. ASSUME NEW i \in outbox, NEW t \in 1..wall, Orphan(i, t)
      PROVE  IdsInv'
  BY <1>4, QuietIds DEF Orphan
<1>5. ASSUME NEW i \in outbox, NEW t \in 1..wall, Resume(i, t)
      PROVE  IdsInv'
  <2>1. CASE \E cause \in Causes : Fails(cause)
    BY <2>1, QuietIds DEF Fails
  <2>2. ASSUME NEW c \in continuation, Succeeds(c.seq, t, c.step, FALSE)
        PROVE  IdsInv'
    <3>1. c.seq \in Nat /\ c.step \in Nat /\ t \in Int
      BY DEF TypeOK, Cell, Continuations
    <3> QED
      BY <2>2, <3>1, FreshEntry, SucceedsIds
  <2> QED
    BY <1>5, <2>1, <2>2 DEF Resume
<1>6. ASSUME NEW m \in hitl_fired, OnHitl(m)
      PROVE  IdsInv'
  <2>1. CASE UNCHANGED <<keyed, ttl_timer, hitl_timer, flush_timer, emissions, outbox>>
    BY <1>6, <2>1, QuietIds DEF OnHitl
  <2>2. ASSUME NEW c \in continuation, NEW timeout \in EscalateTimeouts,
               Escalate(c, m, timeout)
        PROVE  IdsInv'
    <3>1. m \in Int /\ epoch' = epoch
      BY <1>6 DEF OnHitl, TypeOK
    <3> QED
      BY <2>2, <3>1, EscalateIds
  <2>3. ASSUME NEW report, EndSuspension(report)
        PROVE  IdsInv'
    BY <1>6, <2>3, QuietIds DEF OnHitl, EndSuspension
  <2> QED
    BY <1>6, <2>1, <2>2, <2>3 DEF OnHitl
<1>7. ASSUME NEW m \in flush_fired, OnFlush(m)
      PROVE  IdsInv'
  <2>1. CASE Flush(batch, ttl_timer)
    BY <2>1, FlushIds DEF TypeOK
  <2>2. CASE ~should_flush_on_timer(batch)
    BY <1>7, <2>2, QuietIds DEF OnFlush
  <2> QED
    BY <1>7, <2>1, <2>2 DEF OnFlush
<1>8. CASE OnTtl
  <2>1. outbox' = outbox /\ epoch' = epoch + 1 /\ continuation' = {} /\ epoch \in Nat
    BY <1>8 DEF OnTtl, Wipe, TypeOK
  <2>2. \A i \in outbox : i.epoch \in Nat /\ i.epoch <= epoch
    BY DEF IdsInv, TypeOK, Intents
  <2>3. \A i \in outbox' : i.epoch <= epoch' /\ i.epoch # epoch'
    BY <2>1, <2>2
  <2> QED
    BY <2>1, <2>3 DEF IdsInv, IntentIdsUnique
<1>9. CASE \/ DispatchHitl \/ DispatchFlush \/ OnTtlRetry \/ Tick \/ AdvanceWatermark
           \/ UNCHANGED vars
  BY <1>9, QuietIds DEF DispatchHitl, DispatchFlush, OnTtlRetry, Tick, AdvanceWatermark, vars
<1> QED
  BY <1>1, <1>2, <1>3, <1>4, <1>5, <1>6, <1>7, <1>8, <1>9 DEF Next

(* A fresh key has emitted no intent.                                        *)
LEMMA InitIds == Init => IdsInv
BY DEF Init, IdsInv, IntentIdsUnique

(* Correctness invariant 2: between two TTL wipes of a key no two committed  *)
(* activations or escalations mint the same intent_id, for any batching      *)
(* policy, any number of steps and any interleaving of elements and timers.  *)
THEOREM IdsNeverReused == Spec => []IntentIdsUnique
<1>1. TypeOK /\ IdsInv /\ [Next]_vars => (TypeOK /\ IdsInv)'
  BY NextType, NextIds
<1>2. Init => TypeOK /\ IdsInv
  BY InitType, InitIds
<1>3. TypeOK /\ IdsInv => IntentIdsUnique
  BY DEF IdsInv
<1> QED
  BY <1>1, <1>2, <1>3, PTL DEF Spec

(* A late, repeated or misrouted answer never resumes a suspension that did  *)
(* not ask for it, within one life of the key (_admission_failure).          *)
THEOREM AnswersNotMisrouted == Spec => []AnswersResumeTheirSuspension
<1> DEFINE Inv == TypeOK /\ IdsInv /\ AnswersResumeTheirSuspension
<1>1. Init => Inv
  BY InitType, InitIds DEF Init, AnswersResumeTheirSuspension
<1>2. ASSUME TypeOK, IdsInv, AnswersResumeTheirSuspension, [Next]_vars
      PROVE  AnswersResumeTheirSuspension'
  <2>1. ASSUME NEW i \in outbox, NEW t \in 1..wall, Resume(i, t)
        PROVE  AnswersResumeTheirSuspension'
    <3>1. CASE \E cause \in Causes : Fails(cause)
      BY <3>1 DEF Fails, Causes, failed_activation, Report, AnswersResumeTheirSuspension
    <3>2. ASSUME NEW c \in continuation, reports' = {Report("resumed", Provenance(i, c))}
          PROVE  AnswersResumeTheirSuspension'
      <4>1. i.id \in c.ids
        BY <2>1 DEF Resume, admission_failure
      <4>2. i.epoch = epoch => i.n \in c.origins
        BY <1>2, <4>1 DEF IdsInv
      <4>3. Provenance(i, c) # "stale"
        BY <4>2 DEF Provenance
      <4> QED
        BY <3>2, <4>3 DEF Report, AnswersResumeTheirSuspension
    <3> QED
      BY <2>1, <3>1, <3>2 DEF Resume
  <2>2. ASSUME \A r \in reports' : r.kind # "resumed"
        PROVE  AnswersResumeTheirSuspension'
    BY <2>2 DEF AnswersResumeTheirSuspension
  <2>3. ASSUME NEW b, NEW ttl, Flush(b, ttl)
        PROVE  \A r \in reports' : r.kind # "resumed"
    <3>1. \A cause \in Causes : failed_flush(cause) # "resumed"
      BY DEF failed_flush
    <3>2. reports' = {} \/ \E cause \in Causes : reports' = {Report(failed_flush(cause), cause)}
      BY <2>3 DEF Flush, FailedFlush
    <3> QED
      BY <3>1, <3>2 DEF Report
  <2>4. ASSUME NEW e \in Events, NEW t \in 1..wall, Start(e, t) \/ Buffer(e, t)
        PROVE  \A r \in reports' : r.kind # "resumed"
    <3>1. CASE Start(e, t)
      <4>1. \A cause \in Causes : failed_activation(cause) # "resumed"
        BY DEF Causes, failed_activation
      <4>2. \/ reports' = {}
            \/ \E cause \in Causes : reports' = {Report(failed_activation(cause), cause)}
        BY <3>1 DEF Start, Fails
      <4> QED
        BY <4>1, <4>2 DEF Report
    <3>2. CASE Buffer(e, t)
      BY <2>3, <3>2 DEF Buffer
    <3> QED
      BY <2>4, <3>1, <3>2
  <2>5. ASSUME NEW e \in Events, BufferOverflow(e)
        PROVE  \A r \in reports' : r.kind # "resumed"
    BY <2>5 DEF BufferOverflow, Report
  <2>6. ASSUME NEW i \in outbox, NEW t \in 1..wall, Orphan(i, t)
        PROVE  \A r \in reports' : r.kind # "resumed"
    BY <2>6 DEF Orphan, Report
  <2>7. ASSUME NEW m \in hitl_fired, OnHitl(m)
        PROVE  \A r \in reports' : r.kind # "resumed"
    <3>1. \/ reports' = {}
          \/ \E route \in Routes : \/ reports' = {Report("deny", route)}
                                   \/ reports' = {Report("hitl_timeout", route)}
      BY <2>7 DEF OnHitl, Escalate, escalated, EndSuspension
    <3> QED
      BY <3>1 DEF Report
  <2>8. ASSUME NEW m \in flush_fired, OnFlush(m)
        PROVE  \A r \in reports' : r.kind # "resumed"
    BY <2>3, <2>8 DEF OnFlush
  <2>9. CASE OnTtl
    BY <2>2, <2>9 DEF OnTtl, Wipe, Report
  <2>10. CASE DispatchHitl \/ DispatchFlush \/ OnTtlRetry \/ Tick \/ AdvanceWatermark
    BY <2>2, <2>10 DEF DispatchHitl, DispatchFlush, OnTtlRetry, Tick, AdvanceWatermark
  <2>11. CASE UNCHANGED vars
    BY <1>2, <2>11 DEF vars, AnswersResumeTheirSuspension
  <2> QED
    BY <1>2, <2>1, <2>2, <2>4, <2>5, <2>6, <2>7, <2>8, <2>9, <2>10, <2>11 DEF Next
<1>3. Inv /\ [Next]_vars => Inv'
  BY <1>2, NextType, NextIds
<1>4. Inv => AnswersResumeTheirSuspension
  OBVIOUS
<1> QED
  BY <1>1, <1>3, <1>4, PTL DEF Spec

-----------------------------------------------------------------------------
(* _commit leaves a suspended key with its timer, its pended intents and a   *)
(* working-memory mark past the deadline, and a completed one with nothing   *)
(* to wait for and its buffer due.                                           *)
LEMMA CommitTimers ==
    ASSUME TypeOK, TimerInv,
           NEW s, NEW t \in Int, NEW first, NEW steps, NEW ttl,
           NEW deadline, Cell(deadline, Int), NEW flush \in BOOLEAN,
           Commit(s, t, first, steps, ttl, deadline, flush),
           hitl_fired' = hitl_fired
    PROVE  TimerInv'
<1>1. \A m \in hitl_fired' : m <= wall'
  BY DEF TimerInv, Commit, clocks
<1>2. batch' # {} => Adaptive
  BY DEF TimerInv, Commit
<1>3. SuspensionHasTimer'
  BY DEF Commit, SuspensionHasTimer
<1>4. PendingMatchesContinuation'
  BY DEF Commit, PendingMatchesContinuation
<1>5. DeferredBufferHasTimer'
  <2>1. CASE deadline = {}
    BY <2>1 DEF Commit, DeferredBufferHasTimer, rearm_flush, TimerInv
  <2>2. CASE deadline # {}
    BY <2>2 DEF Commit, DeferredBufferHasTimer
  <2> QED
    BY <2>1, <2>2
<1>6. GcBehindDeadline'
  <2> SUFFICES ASSUME NEW c \in continuation'
               PROVE  \E m \in ttl_timer' : m >= c.deadline + Ttl
    BY DEF GcBehindDeadline
  <2>1. c.deadline \in deadline
    BY DEF Commit
  <2>2. Max2(t, c.deadline) + Ttl \in ttl_timer'
    BY <2>1 DEF Commit
  <2>3. c.deadline \in Int /\ Ttl \in Int
    <3>1. c.deadline \in Int
      BY <2>1 DEF Cell
    <3>2. Ttl \in Int
      BY TimeAssumption
    <3> QED
      BY <3>1, <3>2
  <2>4. Max2(t, c.deadline) + Ttl >= c.deadline + Ttl
    BY <2>3 DEF Max2
  <2> QED
    BY <2>2, <2>4
<1> QED
  BY <1>1, <1>2, <1>3, <1>4, <1>5, <1>6 DEF TimerInv

(* _commit leaves the timers in step with what it committed.                 *)
LEMMA SucceedsTimers ==
    ASSUME TypeOK, TimerInv, NEW s, NEW t \in Int, NEW first, NEW flush \in BOOLEAN,
           Succeeds(s, t, first, flush), hitl_fired' = hitl_fired
    PROVE  TimerInv'
<1> SUFFICES ASSUME NEW steps, NEW acting, NEW ttl \in [acting -> IntentTtls],
                    \/ Commit(s, t, first, steps, ttl, {}, flush)
                    \/ \E timeout \in Timeouts :
                         \E d \in {t + timeout} \cup {t + ttl[i] : i \in acting} :
                            Commit(s, t, first, steps, ttl, {d}, flush)
             PROVE  TimerInv'
  BY DEF Succeeds
<1>1. CASE Commit(s, t, first, steps, ttl, {}, flush)
  BY <1>1, CommitTimers DEF Cell
<1>2. ASSUME NEW timeout \in Timeouts,
             NEW d \in {t + timeout} \cup {t + ttl[i] : i \in acting},
             Commit(s, t, first, steps, ttl, {d}, flush)
      PROVE  TimerInv'
  <2>1. d \in Int
    <3>1. \A i \in acting : ttl[i] \in Int
      BY TimeAssumption
    <3>2. timeout \in Int
      BY TimeAssumption
    <3> QED
      BY <3>1, <3>2
  <2>2. Cell({d}, Int)
    BY <2>1 DEF Cell
  <2> QED
    BY <1>2, <2>2, CommitTimers
<1> QED
  BY <1>1, <1>2

(* A flush, committed or failed, leaves no buffer to wait for.               *)
LEMMA FlushTimers ==
    ASSUME TypeOK, TimerInv, Adaptive, NEW b \in SUBSET [ev : Events, t : Int],
           NEW ttl, Flush(b, ttl), hitl_fired' = hitl_fired
    PROVE  TimerInv'
<1>1. ASSUME NEW last \in b, Succeeds(seq, last.t, 0, TRUE)
      PROVE  TimerInv'
  BY <1>1, SucceedsTimers
<1>2. CASE /\ batch' = {}
           /\ UNCHANGED <<keyed, hitl_timer, longterm, clocks, emissions, outbox, epoch>>
  BY <1>2 DEF TimerInv, SuspensionHasTimer, PendingMatchesContinuation,
              DeferredBufferHasTimer, GcBehindDeadline, keyed, clocks
<1> QED
  BY <1>1, <1>2 DEF Flush, FailedFlush

(* The inductive step of the timer invariant, one case per action.           *)
LEMMA NextTimers ==
    ASSUME TypeOK, TimerInv, [Next]_vars
    PROVE  TimerInv'
<1> USE DEF keyed, clocks, inputs, history
<1>1. ASSUME NEW e \in Events, NEW t \in 1..wall, Start(e, t)
      PROVE  TimerInv'
  <2>1. t \in Int /\ hitl_fired' = hitl_fired /\ flush_fired' = flush_fired
    BY <1>1 DEF TypeOK, Start, Deliver
  <2>2. CASE Succeeds(seq, t, 0, FALSE)
    BY <2>1, <2>2, SucceedsTimers
  <2>3. CASE \E cause \in Causes : Fails(cause)
    BY <2>1, <2>3 DEF Fails, TimerInv, SuspensionHasTimer, PendingMatchesContinuation,
                      DeferredBufferHasTimer, GcBehindDeadline
  <2> QED
    BY <1>1, <2>2, <2>3 DEF Start
<1>2. ASSUME NEW e \in Events, BufferOverflow(e)
      PROVE  TimerInv'
  BY <1>2 DEF BufferOverflow, Deliver, TimerInv, SuspensionHasTimer,
              PendingMatchesContinuation, DeferredBufferHasTimer, GcBehindDeadline
<1>3. ASSUME NEW e \in Events, NEW t \in 1..wall, Buffer(e, t)
      PROVE  TimerInv'
  <2> DEFINE b == batch \cup {[ev |-> e, t |-> t]}
  <2>1. t \in Int /\ hitl_fired' = hitl_fired /\ flush_fired' = flush_fired /\ Adaptive
    BY <1>3 DEF TypeOK, Buffer, Deliver
  <2>2. CASE Flush(b, {t + Ttl})
    <3>1. b \in SUBSET [ev : Events, t : Int]
      BY <2>1 DEF TypeOK
    <3> QED
      BY <2>1, <2>2, <3>1, FlushTimers
  <2>3. CASE ~should_flush_on_size(b)
    BY <1>3, <2>1, <2>3 DEF Buffer, TimerInv, SuspensionHasTimer,
              PendingMatchesContinuation, DeferredBufferHasTimer, GcBehindDeadline
  <2> QED
    BY <1>3, <2>2, <2>3 DEF Buffer
<1>4. ASSUME NEW i \in outbox, NEW t \in 1..wall, Orphan(i, t)
      PROVE  TimerInv'
  BY <1>4 DEF Orphan, Answer, TimerInv, SuspensionHasTimer, PendingMatchesContinuation,
              DeferredBufferHasTimer, GcBehindDeadline
<1>5. ASSUME NEW i \in outbox, NEW t \in 1..wall, Resume(i, t)
      PROVE  TimerInv'
  <2>1. t \in Int /\ hitl_fired' = hitl_fired /\ flush_fired' = flush_fired
    BY <1>5 DEF TypeOK, Resume, Answer
  <2>2. CASE \E cause \in Causes : Fails(cause)
    BY <2>1, <2>2 DEF Fails, TimerInv, SuspensionHasTimer, PendingMatchesContinuation,
                      DeferredBufferHasTimer, GcBehindDeadline
  <2>3. ASSUME NEW c \in continuation, Succeeds(c.seq, t, c.step, FALSE)
        PROVE  TimerInv'
    BY <2>1, <2>3, SucceedsTimers
  <2> QED
    BY <1>5, <2>2, <2>3 DEF Resume
<1>6. CASE DispatchHitl
  <2>1. hitl_timer' \cup hitl_fired' = hitl_timer \cup hitl_fired
    BY <1>6 DEF DispatchHitl, TypeOK, Cell
  <2> QED
    BY <1>6, <2>1 DEF DispatchHitl, TimerInv, SuspensionHasTimer, PendingMatchesContinuation,
                DeferredBufferHasTimer, GcBehindDeadline
<1>7. CASE DispatchFlush
  <2>1. flush_timer' \cup flush_fired' = flush_timer \cup flush_fired
    BY <1>7 DEF DispatchFlush, TypeOK, Cell
  <2> QED
    BY <1>7, <2>1 DEF DispatchFlush, TimerInv, SuspensionHasTimer, PendingMatchesContinuation,
                DeferredBufferHasTimer, GcBehindDeadline
<1>8. ASSUME NEW m \in hitl_fired, OnHitl(m)
      PROVE  TimerInv'
  <2>1. /\ \A x \in hitl_fired' : x <= wall'
        /\ batch' = batch /\ flush_fired' = flush_fired /\ hitl_fired' = hitl_fired \ {m}
    BY <1>8 DEF OnHitl, TimerInv
  <2>2. CASE /\ stale_hitl(m)
             /\ UNCHANGED <<keyed, ttl_timer, hitl_timer, flush_timer, emissions, outbox>>
    <3>1. \A c \in continuation : m # c.deadline
      BY <2>2 DEF stale_hitl, TypeOK, Cell, Continuations
    <3> QED
      BY <2>1, <2>2, <3>1 DEF TimerInv, SuspensionHasTimer, PendingMatchesContinuation,
                DeferredBufferHasTimer, GcBehindDeadline
  <2>3. ASSUME NEW c \in continuation, NEW timeout \in EscalateTimeouts,
               Escalate(c, m, timeout)
        PROVE  TimerInv'
    <3> DEFINE d == m + timeout
               id == intent_id_for(c.seq, c.step)
    <3>1. m \in Int /\ d \in Int /\ d + Ttl \in Int /\ c \in Continuations
      BY TimeAssumption DEF TypeOK, Cell
    <3>2. \A x \in continuation' : x.deadline = d /\ x.ids = c.ids \cup {id}
      BY <2>3, <3>1 DEF Escalate, escalated, Continuations
    <3>3. continuation' # {} /\ hitl_timer' = {d} /\ ttl_timer' = {d + Ttl}
      BY <2>3 DEF Escalate, escalated
    <3>4. {p.id : p \in pending'} = {p.id : p \in pending} \cup {id}
      <4>1. PICK intent : intent.id = id /\ pending' = pending \cup {intent}
        BY <2>3 DEF Escalate, escalated
      <4> QED
        BY <4>1
    <3>5. c.ids = {p.id : p \in pending}
      BY DEF TimerInv, PendingMatchesContinuation
    <3> HIDE DEF d, id
    <3> QED
      BY <2>1, <3>1, <3>2, <3>3, <3>4, <3>5
         DEF TimerInv, SuspensionHasTimer, PendingMatchesContinuation,
             DeferredBufferHasTimer, GcBehindDeadline
  <2>4. ASSUME NEW report, EndSuspension(report)
        PROVE  TimerInv'
    BY <2>1, <2>4 DEF EndSuspension, rearm_flush, TimerInv, SuspensionHasTimer,
                PendingMatchesContinuation, DeferredBufferHasTimer, GcBehindDeadline
  <2> QED
    BY <1>8, <2>2, <2>3, <2>4 DEF OnHitl
<1>9. ASSUME NEW m \in flush_fired, OnFlush(m)
      PROVE  TimerInv'
  <2>1. hitl_fired' = hitl_fired
    BY <1>9 DEF OnFlush
  <2>2. CASE should_flush_on_timer(batch) /\ Flush(batch, ttl_timer)
    <3>1. Adaptive /\ batch \in SUBSET [ev : Events, t : Int]
      BY <2>2 DEF should_flush_on_timer, TimerInv, TypeOK
    <3> QED
      BY <2>1, <2>2, <3>1, FlushTimers
  <2>3. CASE ~should_flush_on_timer(batch)
    BY <1>9, <2>1, <2>3 DEF OnFlush, should_flush_on_timer, TimerInv, SuspensionHasTimer,
                PendingMatchesContinuation, DeferredBufferHasTimer, GcBehindDeadline
  <2> QED
    BY <1>9, <2>2, <2>3 DEF OnFlush
<1>10. CASE OnTtl
  BY <1>10 DEF OnTtl, Wipe, TimerInv, SuspensionHasTimer, PendingMatchesContinuation,
                DeferredBufferHasTimer, GcBehindDeadline
<1>11. CASE Tick
  <2>1. \A m \in hitl_fired : m \in Int /\ wall \in Int
    BY DEF TypeOK
  <2> QED
    BY <1>11, <2>1 DEF Tick, TimerInv, SuspensionHasTimer, PendingMatchesContinuation,
                DeferredBufferHasTimer, GcBehindDeadline
<1>12. CASE OnTtlRetry \/ AdvanceWatermark \/ UNCHANGED vars
  BY <1>12 DEF OnTtlRetry, AdvanceWatermark, vars, TimerInv, SuspensionHasTimer,
               PendingMatchesContinuation, DeferredBufferHasTimer, GcBehindDeadline
<1> QED
  BY <1>1, <1>2, <1>3, <1>4, <1>5, <1>6, <1>7, <1>8, <1>9, <1>10, <1>11, <1>12 DEF Next

(* The three parts of the inductive invariant hold together.                 *)
LEMMA TimersHold == Spec => [](TypeOK /\ IdsInv /\ TimerInv)
<1>1. Init => TypeOK /\ IdsInv /\ TimerInv
  BY InitType, InitIds DEF Init, TimerInv, SuspensionHasTimer, PendingMatchesContinuation,
                           DeferredBufferHasTimer, GcBehindDeadline
<1>2. TypeOK /\ IdsInv /\ TimerInv /\ [Next]_vars => (TypeOK /\ IdsInv /\ TimerInv)'
  BY NextType, NextIds, NextTimers
<1> QED
  BY <1>1, <1>2, PTL DEF Spec

(* Fail-closed: no interleaving leaves a live suspension without a           *)
(* HITL_TIMER mark or delivery at its deadline.                              *)
THEOREM SuspensionsAreTimed == Spec => []SuspensionHasTimer
<1>1. TimerInv => SuspensionHasTimer
  BY DEF TimerInv
<1> QED
  BY <1>1, TimersHold, PTL

(* CONTINUATION and PENDING never drift apart while a suspension is live.    *)
THEOREM PendingInStep == Spec => []PendingMatchesContinuation
<1>1. TimerInv => PendingMatchesContinuation
  BY DEF TimerInv
<1> QED
  BY <1>1, TimersHold, PTL

(* No deferred buffer is forgotten: once nothing holds it back a flush is on *)
(* its way (_rearm_flush on every path that ends a suspension).              *)
THEOREM DeferredBuffersFlush == Spec => []DeferredBufferHasTimer
<1>1. TimerInv => DeferredBufferHasTimer
  BY DEF TimerInv
<1> QED
  BY <1>1, TimersHold, PTL

(* Under BatchPolicy.NONE the TTL_TIMER of a suspended key is at least       *)
(* ttl_ms past the deadline, through resumes, re-suspensions, escalations.   *)
THEOREM GcWaitsForDeadline == Spec => []GcBehindDeadline
<1>1. TimerInv => GcBehindDeadline
  BY DEF TimerInv
<1> QED
  BY <1>1, TimersHold, PTL

-----------------------------------------------------------------------------
(* The action of TimeoutNotEarly.                                            *)
NotEarly ==
    \A c \in continuation :
       wall < c.deadline =>
          /\ \A r \in reports' : r.kind \notin {"deny", "hitl_timeout"}
          /\ \A d \in continuation' : d.origins \cap c.origins = {} \/ d = c

(* No report of this step is the end of a wait by timeout.                   *)
NoTimeoutReport == \A r \in reports' : r.kind \notin {"deny", "hitl_timeout"}

(* A commit starts a suspension of its own; it extends none.                 *)
LEMMA CommitNotEarly ==
    ASSUME TypeOK, IdsInv, NEW s, NEW t, NEW first, NEW flush,
           Succeeds(s, t, first, flush), NoTimeoutReport
    PROVE  NotEarly
<1>1. \A d \in continuation' : d.origins = {emissions + 1}
  BY DEF Succeeds, Commit
<1>2. \A c \in continuation : emissions + 1 \notin c.origins
  BY DEF TypeOK, IdsInv
<1> QED
  BY <1>1, <1>2 DEF NotEarly, NoTimeoutReport

(* A step that keeps or wipes the suspension is not a timeout.               *)
LEMMA QuietNotEarly ==
    ASSUME TypeOK, NoTimeoutReport, continuation' = continuation \/ continuation' = {}
    PROVE  NotEarly
BY DEF TypeOK, Cell, NotEarly, NoTimeoutReport

(* A failed activation leaves the suspension as it was.                      *)
LEMMA FailsQuiet ==
    ASSUME NEW cause \in Causes, Fails(cause)
    PROVE  NoTimeoutReport /\ continuation' = continuation
<1>1. failed_activation(cause) \in {"activation_timeout", "budget_exceeded", "activation_error"}
  BY DEF Causes, failed_activation
<1> QED
  BY <1>1 DEF Fails, Report, NoTimeoutReport, keyed

(* _flush neither times a suspension out nor extends it.                     *)
LEMMA FlushNotEarly ==
    ASSUME TypeOK, IdsInv, NEW b, NEW ttl, Flush(b, ttl)
    PROVE  NotEarly
<1>1. ASSUME NEW last \in b, Succeeds(seq, last.t, 0, TRUE), reports' = {}
      PROVE  NotEarly
  BY <1>1, CommitNotEarly DEF NoTimeoutReport
<1>2. ASSUME NEW cause \in Causes, reports' = {Report(failed_flush(cause), cause)},
             continuation' = continuation
      PROVE  NotEarly
  <2>1. failed_flush(cause) \in {"activation_timeout", "activation_error"}
    BY DEF failed_flush
  <2> QED
    BY <1>2, <2>1, QuietNotEarly DEF NoTimeoutReport, Report
<1> QED
  BY <1>1, <1>2 DEF Flush, FailedFlush, keyed

(* Every step obeys the stale-handle rule, one case per action.              *)
LEMMA NextNotEarly ==
    ASSUME TypeOK, IdsInv, TimerInv, [Next]_vars
    PROVE  [NotEarly]_vars
<1> USE DEF keyed
<1>1. ASSUME NEW e \in Events, NEW t \in 1..wall, Start(e, t)
      PROVE  NotEarly
  <2>1. CASE Succeeds(seq, t, 0, FALSE) /\ reports' = {}
    BY <2>1, CommitNotEarly DEF NoTimeoutReport
  <2>2. CASE \E cause \in Causes : Fails(cause)
    BY <2>2, FailsQuiet, QuietNotEarly
  <2> QED
    BY <1>1, <2>1, <2>2 DEF Start
<1>2. ASSUME NEW e \in Events, BufferOverflow(e)
      PROVE  NotEarly
  BY <1>2, QuietNotEarly DEF BufferOverflow, Report, NoTimeoutReport
<1>3. ASSUME NEW e \in Events, NEW t \in 1..wall, Buffer(e, t)
      PROVE  NotEarly
  <2>1. CASE \E b, ttl : Flush(b, ttl)
    BY <2>1, FlushNotEarly
  <2>2. CASE reports' = {} /\ continuation' = continuation
    BY <2>2, QuietNotEarly DEF NoTimeoutReport
  <2> QED
    BY <1>3, <2>1, <2>2 DEF Buffer
<1>4. ASSUME NEW i \in outbox, NEW t \in 1..wall, Orphan(i, t)
      PROVE  NotEarly
  BY <1>4, QuietNotEarly DEF Orphan, Report, NoTimeoutReport
<1>5. ASSUME NEW i \in outbox, NEW t \in 1..wall, Resume(i, t)
      PROVE  NotEarly
  <2>1. CASE \E cause \in Causes : Fails(cause)
    BY <2>1, FailsQuiet, QuietNotEarly
  <2>2. ASSUME NEW c \in continuation, Succeeds(c.seq, t, c.step, FALSE),
               reports' = {Report("resumed", Provenance(i, c))}
        PROVE  NotEarly
    <3>1. NoTimeoutReport
      BY <2>2 DEF Report, NoTimeoutReport
    <3> QED
      BY <2>2, <3>1, CommitNotEarly
  <2> QED
    BY <1>5, <2>1, <2>2 DEF Resume
<1>6. ASSUME NEW m \in hitl_fired, OnHitl(m)
      PROVE  NotEarly
  <2>1. CASE stale_hitl(m)
    <3>1. reports' = {} /\ continuation' = continuation
      BY <1>6, <2>1 DEF OnHitl
    <3> QED
      BY <3>1, QuietNotEarly DEF NoTimeoutReport
  <2>2. CASE ~stale_hitl(m)
    <3>1. \A c \in continuation : c.deadline <= m
      BY <2>2 DEF stale_hitl, TypeOK, Cell, Continuations
    <3>2. m <= wall /\ m \in Int /\ wall \in Int
      BY DEF TimerInv, TypeOK
    <3>3. \A c \in continuation : c.deadline \in Int
      BY DEF TypeOK, Cell, Continuations
    <3> QED
      BY <3>1, <3>2, <3>3 DEF NotEarly
  <2> QED
    BY <2>1, <2>2
<1>7. ASSUME NEW m \in flush_fired, OnFlush(m)
      PROVE  NotEarly
  <2>1. CASE Flush(batch, ttl_timer)
    BY <2>1, FlushNotEarly
  <2>2. CASE reports' = {} /\ continuation' = continuation
    BY <2>2, QuietNotEarly DEF NoTimeoutReport
  <2> QED
    BY <1>7, <2>1, <2>2 DEF OnFlush
<1>8. CASE OnTtl
  BY <1>8, QuietNotEarly DEF OnTtl, Wipe, Report, NoTimeoutReport
<1>9. CASE DispatchHitl \/ DispatchFlush \/ OnTtlRetry \/ Tick \/ AdvanceWatermark
  BY <1>9, QuietNotEarly
     DEF DispatchHitl, DispatchFlush, OnTtlRetry, Tick, AdvanceWatermark, NoTimeoutReport
<1> QED
  BY <1>1, <1>2, <1>3, <1>4, <1>5, <1>6, <1>7, <1>8, <1>9 DEF Next

(* on_hitl's stale-handle guard is sound: whatever deliveries are under way, *)
(* a live suspension is neither ended nor extended by a timeout while its    *)
(* deadline lies ahead on the wall clock.                                    *)
THEOREM TimeoutsNotEarly == Spec => TimeoutNotEarly
<1>1. TypeOK /\ IdsInv /\ TimerInv /\ [Next]_vars => [NotEarly]_vars
  BY NextNotEarly
<1>2. Spec => [][NotEarly]_vars
  BY <1>1, TimersHold, PTL DEF Spec
<1> QED
  BY <1>2 DEF TimeoutNotEarly, NotEarly

-----------------------------------------------------------------------------
(* What a key holds in step with its life: FreshKeyIsEmpty and the chain of  *)
(* EscalationsBounded.  An activation that commits starts a new chain.       *)
LEMMA SucceedsLife ==
    ASSUME TypeOK, NEW s, NEW t, NEW first, NEW flush, Succeeds(s, t, first, flush)
    PROVE  FreshKeyIsEmpty' /\ EscalationsBounded'
<1>1. /\ seq' = seq + 1 /\ memory' = emissions + 1 /\ llm_cache' = emissions + 1
      /\ \A c \in continuation' : c.escalations = 0 /\ c.origins = {emissions + 1}
  BY DEF Succeeds, Commit
<1>2. FreshKeyIsEmpty'
  BY <1>1 DEF FreshKeyIsEmpty, TypeOK
<1>3. Cardinality({emissions + 1}) = 1
  BY FS_Singleton
<1>4. EscalationsBounded'
  <2> SUFFICES ASSUME NEW c \in continuation'
               PROVE  c.escalations <= MaxEscalations /\ Cardinality(c.origins) = c.escalations + 1
    BY DEF EscalationsBounded
  <2>1. c.escalations = 0 /\ c.origins = {emissions + 1}
    BY <1>1
  <2>2. Cardinality(c.origins) = 1
    BY <1>3, <2>1
  <2> QED
    BY <2>1, <2>2, PolicyAssumption
<1> QED
  BY <1>2, <1>4

(* A step that commits nothing and keeps or drops the suspension with its    *)
(* pended intents leaves both as they are.                                   *)
LEMMA QuietLife ==
    ASSUME FreshKeyIsEmpty, EscalationsBounded, UNCHANGED <<memory, llm_cache, seq>>,
           \/ UNCHANGED <<continuation, pending>>
           \/ continuation' = {} /\ pending' = {}
    PROVE  FreshKeyIsEmpty' /\ EscalationsBounded'
BY DEF FreshKeyIsEmpty, EscalationsBounded

(* _escalate adds one link to a chain that the routing keeps below the cap.  *)
LEMMA EscalateLife ==
    ASSUME TypeOK, IdsInv, FreshKeyIsEmpty, EscalationsBounded,
           NEW c \in continuation, NEW m, NEW timeout, NEW route \in Routes,
           route_timeout(route, c) = "escalate", Escalate(c, m, timeout)
    PROVE  FreshKeyIsEmpty' /\ EscalationsBounded'
<1>1. c \in Continuations /\ emissions \in Nat
  BY DEF TypeOK, Cell
<1>2. c.escalations \in Nat /\ c.origins \in SUBSET Nat
  BY <1>1 DEF Continuations
<1>3. \A n \in c.origins : n <= emissions
  BY DEF IdsInv
<1>4. IsFiniteSet(c.origins)
  BY <1>1, <1>2, <1>3, FS_BoundedSetOfNaturals
<1>5. emissions + 1 \notin c.origins
  BY <1>1, <1>2, <1>3
<1>6. Cardinality(c.origins \cup {emissions + 1}) = Cardinality(c.origins) + 1
  BY <1>4, <1>5, FS_AddElement
<1>7. Cardinality(c.origins) = c.escalations + 1
  BY DEF EscalationsBounded
<1>8. c.escalations < MaxEscalations
  BY <1>2, PolicyAssumption DEF route_timeout
<1>9. \A d \in continuation' :
         /\ d.escalations = c.escalations + 1
         /\ d.origins = c.origins \cup {emissions + 1}
  <2>1. PICK intent : intent.n = emissions + 1 /\ continuation' = {escalated(c, intent)}
    BY DEF Escalate
  <2>2. escalated(c, intent).escalations = c.escalations + 1
    BY <1>1 DEF escalated, Continuations
  <2>3. escalated(c, intent).origins = c.origins \cup {emissions + 1}
    BY <1>1, <2>1 DEF escalated, Continuations
  <2> QED
    BY <2>1, <2>2, <2>3
<1>10. EscalationsBounded'
  <2> SUFFICES ASSUME NEW d \in continuation'
               PROVE  d.escalations <= MaxEscalations /\ Cardinality(d.origins) = d.escalations + 1
    BY DEF EscalationsBounded
  <2>1. d.escalations = c.escalations + 1 /\ d.origins = c.origins \cup {emissions + 1}
    BY <1>9
  <2>2. Cardinality(d.origins) = c.escalations + 1 + 1
    BY <1>6, <1>7, <2>1
  <2> QED
    BY <1>2, <1>8, <2>1, <2>2, PolicyAssumption
<1>11. seq # 0 /\ UNCHANGED <<memory, llm_cache, seq>>
  BY DEF Escalate, FreshKeyIsEmpty
<1>12. FreshKeyIsEmpty'
  BY <1>11 DEF FreshKeyIsEmpty
<1> QED
  BY <1>10, <1>12

(* The inductive step, one case per action.                                  *)
LEMMA NextLife ==
    ASSUME TypeOK, IdsInv, FreshKeyIsEmpty, EscalationsBounded, [Next]_vars
    PROVE  FreshKeyIsEmpty' /\ EscalationsBounded'
<1> USE DEF keyed
<1>1. ASSUME NEW cause, Fails(cause) PROVE FreshKeyIsEmpty' /\ EscalationsBounded'
  BY <1>1, QuietLife DEF Fails
<1>2. ASSUME NEW b, NEW ttl, Flush(b, ttl) PROVE FreshKeyIsEmpty' /\ EscalationsBounded'
  <2>1. CASE \E last \in b : Succeeds(seq, last.t, 0, TRUE)
    BY <2>1, SucceedsLife
  <2>2. CASE \E cause \in Causes : FailedFlush(b, ttl, cause)
    BY <2>2, QuietLife DEF FailedFlush
  <2> QED
    BY <1>2, <2>1, <2>2 DEF Flush
<1>3. ASSUME NEW e \in Events, NEW t \in 1..wall, Start(e, t)
      PROVE  FreshKeyIsEmpty' /\ EscalationsBounded'
  BY <1>1, <1>3, SucceedsLife DEF Start
<1>4. ASSUME NEW e \in Events, BufferOverflow(e)
      PROVE  FreshKeyIsEmpty' /\ EscalationsBounded'
  BY <1>4, QuietLife DEF BufferOverflow
<1>5. ASSUME NEW e \in Events, NEW t \in 1..wall, Buffer(e, t)
      PROVE  FreshKeyIsEmpty' /\ EscalationsBounded'
  <2>1. CASE \E b, ttl : Flush(b, ttl)
    BY <1>2, <2>1
  <2>2. CASE UNCHANGED keyed
    BY <2>2, QuietLife
  <2> QED
    BY <1>5, <2>1, <2>2 DEF Buffer
<1>6. ASSUME NEW i \in outbox, NEW t \in 1..wall, Orphan(i, t)
      PROVE  FreshKeyIsEmpty' /\ EscalationsBounded'
  BY <1>6, QuietLife DEF Orphan
<1>7. ASSUME NEW i \in outbox, NEW t \in 1..wall, Resume(i, t)
      PROVE  FreshKeyIsEmpty' /\ EscalationsBounded'
  BY <1>1, <1>7, SucceedsLife DEF Resume
<1>8. ASSUME NEW m \in hitl_fired, OnHitl(m)
      PROVE  FreshKeyIsEmpty' /\ EscalationsBounded'
  <2>1. CASE UNCHANGED <<keyed, ttl_timer, hitl_timer, flush_timer, emissions, outbox>>
    BY <2>1, QuietLife
  <2>2. ASSUME NEW c \in continuation, NEW timeout \in EscalateTimeouts, NEW route \in Routes,
               route_timeout(route, c) = "escalate", Escalate(c, m, timeout)
        PROVE  FreshKeyIsEmpty' /\ EscalationsBounded'
    BY <2>2, EscalateLife
  <2>3. ASSUME NEW report, EndSuspension(report)
        PROVE  FreshKeyIsEmpty' /\ EscalationsBounded'
    BY <2>3, QuietLife DEF EndSuspension
  <2> QED
    BY <1>8, <2>1, <2>2, <2>3 DEF OnHitl
<1>9. ASSUME NEW m \in flush_fired, OnFlush(m)
      PROVE  FreshKeyIsEmpty' /\ EscalationsBounded'
  BY <1>2, <1>9, QuietLife DEF OnFlush
<1>10. CASE OnTtl
  BY <1>10 DEF OnTtl, Wipe, FreshKeyIsEmpty, EscalationsBounded
<1>11. CASE \/ DispatchHitl \/ DispatchFlush \/ OnTtlRetry \/ Tick \/ AdvanceWatermark
            \/ UNCHANGED vars
  BY <1>11, QuietLife DEF DispatchHitl, DispatchFlush, OnTtlRetry, Tick, AdvanceWatermark, vars
<1> QED
  BY <1>3, <1>4, <1>5, <1>6, <1>7, <1>8, <1>9, <1>10, <1>11 DEF Next

(* A key owes nothing to an earlier life and its escalation chains end: the  *)
(* cells on_ttl clears, the ids the next entry mints and the cap of          *)
(* max_escalations, for every policy and every interleaving.                 *)
THEOREM KeyLivesAreSeparate == Spec => []KeyLifeInv
<1>1. Init => FreshKeyIsEmpty /\ EscalationsBounded
  BY DEF Init, FreshKeyIsEmpty, EscalationsBounded
<1>2. TypeOK /\ IdsInv /\ FreshKeyIsEmpty /\ EscalationsBounded /\ [Next]_vars
         => (FreshKeyIsEmpty /\ EscalationsBounded)'
  BY NextLife
<1>3. IdsInv /\ FreshKeyIsEmpty /\ EscalationsBounded => KeyLifeInv
  BY DEF KeyLifeInv
<1> QED
  BY <1>1, <1>2, <1>3, TimersHold, PTL DEF Spec

-----------------------------------------------------------------------------
(* The step formula of LongtermNeverRegresses.                               *)
Forward == \A row \in longterm : \A new \in longterm' : new.seq >= row.seq

(* _flush_expiring writes the row under its seq guard or leaves it alone.    *)
LEMMA FlushExpiringForward ==
    ASSUME TypeOK, longterm' \in {longterm, flush_expiring}
    PROVE  Forward
<1>1. CASE longterm' = longterm
  BY <1>1 DEF Forward, TypeOK, Cell
<1>2. CASE longterm' = {[seq |-> seq, value |-> memory]} /\ seq_guard_applies(seq)
  BY <1>2 DEF Forward, seq_guard_applies
<1> QED
  BY <1>1, <1>2 DEF flush_expiring

LEMMA NextForward ==
    ASSUME TypeOK, [Next]_vars
    PROVE  [Forward]_vars
<1>1. CASE OnTtl \/ OnTtlRetry
  BY <1>1, FlushExpiringForward DEF OnTtl, OnTtlRetry
<1>2. ASSUME UNCHANGED longterm PROVE Forward
  BY <1>2, FlushExpiringForward
<1>3. ASSUME NEW s, NEW t, NEW first, NEW flush, Succeeds(s, t, first, flush)
      PROVE  UNCHANGED longterm
  BY <1>3 DEF Succeeds, Commit
<1>4. ASSUME NEW b, NEW ttl, Flush(b, ttl) PROVE UNCHANGED longterm
  BY <1>3, <1>4 DEF Flush, FailedFlush
<1>5. ASSUME NEW e \in Events, NEW t \in 1..wall, Start(e, t) \/ Buffer(e, t)
      PROVE  UNCHANGED longterm
  BY <1>3, <1>4, <1>5 DEF Start, Fails, Buffer
<1>6. ASSUME NEW i \in outbox, NEW t \in 1..wall, Orphan(i, t) \/ Resume(i, t)
      PROVE  UNCHANGED longterm
  BY <1>3, <1>6 DEF Orphan, Resume, Fails
<1>7. ASSUME NEW e \in Events, BufferOverflow(e) PROVE UNCHANGED longterm
  BY <1>7 DEF BufferOverflow
<1>8. ASSUME NEW m \in hitl_fired, OnHitl(m) PROVE UNCHANGED longterm
  BY <1>8 DEF OnHitl
<1>9. ASSUME NEW m \in flush_fired, OnFlush(m) PROVE UNCHANGED longterm
  BY <1>4, <1>9 DEF OnFlush
<1>10. CASE DispatchHitl \/ DispatchFlush \/ Tick \/ AdvanceWatermark
  BY <1>2, <1>10 DEF DispatchHitl, DispatchFlush, Tick, AdvanceWatermark
<1> QED
  BY <1>1, <1>2, <1>5, <1>6, <1>7, <1>8, <1>9, <1>10 DEF Next

(* The on_expire row never goes back to an older seq, however often the      *)
(* expiry bundle is retried before or after its upsert landed.               *)
THEOREM LongtermOnlyForward == Spec => LongtermNeverRegresses
<1>1. TypeOK /\ [Next]_vars => [Forward]_vars
  BY NextForward
<1>2. Spec => [][Forward]_vars
  BY <1>1, TypeCorrect, PTL DEF Spec
<1> QED
  BY <1>2 DEF LongtermNeverRegresses, Forward

-----------------------------------------------------------------------------
(* The step formula of SuspensionEndsVisibly.                                *)
EndsVisibly ==
    Adaptive => \A c \in continuation :
       (\A d \in continuation' : d.origins \cap c.origins = {}) =>
          \E r \in reports' :
             r.kind \in {"resumed", "deny", "hitl_timeout", "ttl_wiped_suspension"}

(* A suspension has an origin, so that one that stays shares it with itself. *)
LEMMA StaysVisible ==
    ASSUME EscalationsBounded, TypeOK, UNCHANGED continuation
    PROVE  EndsVisibly
<1>1. ASSUME NEW c \in continuation PROVE c.origins # {}
  <2>1. c.escalations \in Nat
    BY DEF TypeOK, Cell, Continuations
  <2>2. Cardinality(c.origins) = c.escalations + 1
    BY DEF EscalationsBounded
  <2>3. Cardinality({}) = 0
    BY FS_EmptySet
  <2> QED
    BY <2>1, <2>2, <2>3
<1> QED
  BY <1>1 DEF EndsVisibly

LEMMA NextVisible ==
    ASSUME TypeOK, EscalationsBounded, [Next]_vars
    PROVE  [EndsVisibly]_vars
<1> USE DEF keyed
<1>1. ASSUME NEW e \in Events, NEW t \in 1..wall, Start(e, t) PROVE EndsVisibly
  BY <1>1 DEF Start, EndsVisibly
<1>2. ASSUME NEW e \in Events, BufferOverflow(e) PROVE EndsVisibly
  BY <1>2, StaysVisible DEF BufferOverflow
<1>3. ASSUME NEW e \in Events, NEW t \in 1..wall, Buffer(e, t) PROVE EndsVisibly
  <2>1. CASE continuation = {}
    BY <2>1 DEF EndsVisibly
  <2>2. CASE UNCHANGED keyed
    BY <2>2, StaysVisible
  <2> QED
    BY <1>3, <2>1, <2>2 DEF Buffer, should_flush_on_size
<1>4. ASSUME NEW i \in outbox, NEW t \in 1..wall, Orphan(i, t) PROVE EndsVisibly
  BY <1>4, StaysVisible DEF Orphan
<1>5. ASSUME NEW i \in outbox, NEW t \in 1..wall, Resume(i, t) PROVE EndsVisibly
  <2>1. CASE \E cause \in Causes : Fails(cause)
    BY <2>1, StaysVisible DEF Fails
  <2>2. CASE \E c \in continuation : reports' = {Report("resumed", Provenance(i, c))}
    BY <2>2 DEF EndsVisibly, Report
  <2> QED
    BY <1>5, <2>1, <2>2 DEF Resume
<1>6. ASSUME NEW m \in hitl_fired, OnHitl(m) PROVE EndsVisibly
  <2>1. CASE UNCHANGED <<keyed, ttl_timer, hitl_timer, flush_timer, emissions, outbox>>
    BY <2>1, StaysVisible
  <2>2. ASSUME NEW c \in continuation, NEW timeout \in EscalateTimeouts,
               Escalate(c, m, timeout)
        PROVE  EndsVisibly
    <3>1. c \in Continuations /\ \A d \in continuation : d = c
      BY DEF TypeOK, Cell
    <3>2. PICK intent : continuation' = {escalated(c, intent)}
      BY <2>2 DEF Escalate
    <3>3. c.origins \subseteq escalated(c, intent).origins
      BY <3>1 DEF escalated, Continuations
    <3>4. c.origins # {}
      <4>1. c.escalations \in Nat
        BY <3>1 DEF Continuations
      <4>2. Cardinality(c.origins) = c.escalations + 1
        BY DEF EscalationsBounded
      <4>3. Cardinality({}) = 0
        BY FS_EmptySet
      <4> QED
        BY <4>1, <4>2, <4>3
    <3> QED
      BY <3>1, <3>2, <3>3, <3>4 DEF EndsVisibly
  <2>3. ASSUME NEW route, NEW kind \in {"deny", "hitl_timeout"},
               EndSuspension(Report(kind, route))
        PROVE  EndsVisibly
    BY <2>3 DEF EndSuspension, EndsVisibly, Report
  <2> QED
    BY <1>6, <2>1, <2>2, <2>3 DEF OnHitl
<1>7. ASSUME NEW m \in flush_fired, OnFlush(m) PROVE EndsVisibly
  <2>1. CASE continuation = {}
    BY <2>1 DEF EndsVisibly
  <2>2. CASE UNCHANGED keyed
    BY <2>2, StaysVisible
  <2> QED
    BY <1>7, <2>1, <2>2 DEF OnFlush, should_flush_on_timer
<1>8. CASE OnTtl
  <2>1. ASSUME NEW c \in continuation
        PROVE  \E r \in reports' : r.kind = "ttl_wiped_suspension"
    <3>1. PICK cause : Report("ttl_wiped_suspension", cause) \in reports'
      BY <1>8 DEF OnTtl
    <3>2. Report("ttl_wiped_suspension", cause).kind = "ttl_wiped_suspension"
      BY DEF Report
    <3> QED
      BY <3>1, <3>2
  <2> QED
    BY <2>1 DEF EndsVisibly
<1>9. CASE DispatchHitl \/ DispatchFlush \/ OnTtlRetry \/ Tick \/ AdvanceWatermark
  BY <1>9, StaysVisible DEF DispatchHitl, DispatchFlush, OnTtlRetry, Tick, AdvanceWatermark
<1> QED
  BY <1>1, <1>2, <1>3, <1>4, <1>5, <1>6, <1>7, <1>8, <1>9 DEF Next

(* Under ADAPTIVE no suspension is overwritten: it stays, escalated or not,  *)
(* until a resume, the policy's answer or a dead letter ends it.             *)
THEOREM SuspensionsEndVisibly == Spec => SuspensionEndsVisibly
<1>1. TypeOK /\ KeyLifeInv /\ [Next]_vars => [EndsVisibly]_vars
  BY NextVisible DEF KeyLifeInv
<1>2. Spec => [][EndsVisibly]_vars
  BY <1>1, TypeCorrect, KeyLivesAreSeparate, PTL DEF Spec
<1> QED
  BY <1>2 DEF SuspensionEndsVisibly, EndsVisibly

-----------------------------------------------------------------------------
(* What makes EventsHandledOnce inductive: the buffer is finite and holds an *)
(* event once, an event in it has not been consumed, and a delivered event   *)
(* that is not in it has been consumed exactly once.                         *)
EventsInv ==
    /\ IsFiniteSet(batch)
    /\ \A x \in batch : x.ev \in arrived /\ handled[x.ev] = 0
    /\ \A x, y \in batch : x.ev = y.ev => x = y
    /\ \A e \in Events \ arrived : handled[e] = 0
    /\ \A e \in arrived : \/ handled[e] = 1
                          \/ handled[e] = 0 /\ \E x \in batch : x.ev = e

(* The ways a step changes the buffer and the account of the events.         *)
BufferKept == UNCHANGED <<batch, arrived, handled>>

TakenAtOnce(e) ==
    /\ e \in Events \ arrived
    /\ arrived' = arrived \cup {e}
    /\ handled' = [handled EXCEPT ![e] = @ + 1]
    /\ batch' = batch

Appended(e, t) ==
    /\ e \in Events \ arrived
    /\ t \in Int
    /\ arrived' = arrived \cup {e}
    /\ handled' = handled
    /\ batch' = batch \cup {[ev |-> e, t |-> t]}
    /\ ~buffer_is_full(batch)

Emptied(b) ==
    /\ batch' = {}
    /\ handled' = [e \in Events |-> IF e \in {x.ev : x \in b} THEN handled[e] + 1
                                    ELSE handled[e]]

AppendedAndEmptied(e, t) ==
    /\ e \in Events \ arrived
    /\ t \in Int
    /\ arrived' = arrived \cup {e}
    /\ Emptied(batch \cup {[ev |-> e, t |-> t]})

BufferShape ==
    \/ BufferKept
    \/ \E e : TakenAtOnce(e)
    \/ \E e, t : Appended(e, t) \/ AppendedAndEmptied(e, t)
    \/ Emptied(batch) /\ arrived' = arrived

(* Only a commit of a flush touches the buffer of an activation.             *)
LEMMA SucceedsBuffer ==
    ASSUME NEW s, NEW t, NEW first, NEW flush, Succeeds(s, t, first, flush)
    PROVE  batch' = IF flush THEN {} ELSE batch
BY DEF Succeeds, Commit

(* _flush and _failed_flush consume the whole buffer they were given.        *)
LEMMA FlushEmpties ==
    ASSUME NEW b, NEW ttl, Flush(b, ttl)
    PROVE  Emptied(b)
<1>1. batch' = {}
  <2>1. ASSUME NEW last \in b, Succeeds(seq, last.t, 0, TRUE) PROVE batch' = {}
    BY <2>1, SucceedsBuffer
  <2>2. ASSUME NEW cause, FailedFlush(b, ttl, cause) PROVE batch' = {}
    BY <2>2 DEF FailedFlush
  <2> QED
    BY <2>1, <2>2 DEF Flush
<1> QED
  BY <1>1 DEF Flush, Emptied

(* Every step has one of the shapes.                                         *)
LEMMA StepBuffers ==
    ASSUME TypeOK, [Next]_vars
    PROVE  BufferShape
<1> USE DEF keyed, clocks, inputs, history
<1>1. ASSUME NEW e \in Events, NEW t \in 1..wall, Start(e, t)
      PROVE  BufferShape
  <2>1. batch' = batch
    BY <1>1, SucceedsBuffer DEF Start, Fails
  <2>2. TakenAtOnce(e)
    BY <1>1, <2>1 DEF Start, Deliver, TakenAtOnce
  <2> QED
    BY <2>2 DEF BufferShape
<1>2. ASSUME NEW e \in Events, BufferOverflow(e)
      PROVE  BufferShape
  <2>1. TakenAtOnce(e)
    BY <1>2 DEF BufferOverflow, Deliver, TakenAtOnce
  <2> QED
    BY <2>1 DEF BufferShape
<1>3. ASSUME NEW e \in Events, NEW t \in 1..wall, Buffer(e, t)
      PROVE  BufferShape
  <2> DEFINE b == batch \cup {[ev |-> e, t |-> t]}
  <2>1. t \in Int /\ e \notin arrived /\ arrived' = arrived \cup {e}
    BY <1>3 DEF TypeOK, Buffer, Deliver
  <2>2. CASE Flush(b, {t + Ttl})
    <3>1. AppendedAndEmptied(e, t)
      BY <2>1, <2>2, FlushEmpties DEF AppendedAndEmptied
    <3> QED
      BY <3>1 DEF BufferShape
  <2>3. CASE ~should_flush_on_size(b)
    <3>1. Appended(e, t)
      BY <1>3, <2>1, <2>3 DEF Buffer, Appended
    <3> QED
      BY <3>1 DEF BufferShape
  <2> QED
    BY <1>3, <2>2, <2>3 DEF Buffer
<1>4. ASSUME NEW i, NEW t, Orphan(i, t)
      PROVE  BufferShape
  BY <1>4 DEF Orphan, Answer, BufferShape, BufferKept
<1>5. ASSUME NEW i, NEW t, Resume(i, t)
      PROVE  BufferShape
  BY <1>5, SucceedsBuffer DEF Resume, Answer, Fails, BufferShape, BufferKept
<1>6. ASSUME NEW m, OnHitl(m)
      PROVE  BufferShape
  BY <1>6 DEF OnHitl, BufferShape, BufferKept
<1>7. ASSUME NEW m, OnFlush(m)
      PROVE  BufferShape
  <2>1. CASE Flush(batch, ttl_timer)
    BY <1>7, <2>1, FlushEmpties DEF OnFlush, BufferShape
  <2>2. CASE UNCHANGED <<batch, history>>
    BY <1>7, <2>2 DEF OnFlush, BufferShape, BufferKept
  <2> QED
    BY <1>7, <2>1, <2>2 DEF OnFlush
<1>8. CASE OnTtl
  <2>1. Emptied(batch) /\ arrived' = arrived
    BY <1>8 DEF OnTtl, Wipe, Emptied
  <2> QED
    BY <2>1 DEF BufferShape
<1>9. CASE \/ DispatchHitl \/ DispatchFlush \/ OnTtlRetry \/ Tick \/ AdvanceWatermark
           \/ UNCHANGED vars
  BY <1>9 DEF DispatchHitl, DispatchFlush, OnTtlRetry, Tick, AdvanceWatermark, vars,
              BufferShape, BufferKept
<1> QED
  BY <1>1, <1>2, <1>3, <1>4, <1>5, <1>6, <1>7, <1>8, <1>9 DEF Next

(* The account of the events, one case per shape.                            *)
LEMMA NextEvents ==
    ASSUME TypeOK, EventsInv, BufferShape
    PROVE  EventsInv'
<1> handled \in [Events -> Nat] /\ arrived \subseteq Events
    /\ batch \subseteq [ev : Events, t : Int]
  BY DEF TypeOK
<1>1. CASE BufferKept
  BY <1>1 DEF BufferKept, EventsInv
<1>2. ASSUME NEW e, TakenAtOnce(e)
      PROVE  EventsInv'
  <2>1. handled[e] = 0 /\ \A x \in batch : x.ev # e
    BY <1>2 DEF TakenAtOnce, EventsInv
  <2>2. handled'[e] = 1 /\ \A f \in Events \ {e} : handled'[f] = handled[f]
    BY <1>2, <2>1 DEF TakenAtOnce
  <2> QED
    BY <1>2, <2>1, <2>2 DEF TakenAtOnce, EventsInv
<1>3. ASSUME NEW e, NEW t, Appended(e, t)
      PROVE  EventsInv'
  <2>1. PICK new : new = [ev |-> e, t |-> t]
    OBVIOUS
  <2>2. new.ev = e
    BY <2>1
  <2>3. batch' = batch \cup {new} /\ handled' = handled /\ arrived' = arrived \cup {e}
        /\ e \in Events \ arrived
    BY <1>3, <2>1 DEF Appended
  <2>4. IsFiniteSet(batch')
    BY <2>3, FS_AddElement DEF EventsInv
  <2>5. handled[e] = 0 /\ \A x \in batch : x.ev # e
    BY <2>3 DEF EventsInv
  <2> QED
    BY <2>2, <2>3, <2>4, <2>5 DEF EventsInv
<1>4. ASSUME NEW e, NEW t, AppendedAndEmptied(e, t)
      PROVE  EventsInv'
  <2>1. PICK new : new = [ev |-> e, t |-> t]
    OBVIOUS
  <2> DEFINE evs == {x.ev : x \in batch \cup {new}}
  <2>2. new.ev = e
    BY <2>1
  <2>3. /\ batch' = {} /\ arrived' = arrived \cup {e} /\ e \in Events \ arrived
        /\ handled' = [f \in Events |-> IF f \in evs THEN handled[f] + 1 ELSE handled[f]]
    BY <1>4, <2>1 DEF AppendedAndEmptied, Emptied
  <2>4. \A f \in evs : handled[f] = 0 /\ f \in arrived'
    BY <2>2, <2>3 DEF EventsInv
  <2>5. \A f \in arrived' : f \in evs \/ handled[f] = 1
    BY <2>2, <2>3 DEF EventsInv
  <2>6. IsFiniteSet(batch')
    BY <2>3, FS_EmptySet
  <2> HIDE DEF evs
  <2> QED
    BY <2>3, <2>4, <2>5, <2>6 DEF EventsInv
<1>5. CASE Emptied(batch) /\ arrived' = arrived
  <2> DEFINE evs == {x.ev : x \in batch}
  <2>1. \A f \in evs : handled[f] = 0 /\ f \in arrived
    BY DEF EventsInv
  <2>2. \A f \in arrived : f \in evs \/ handled[f] = 1
    BY DEF EventsInv
  <2>3. IsFiniteSet(batch')
    BY <1>5, FS_EmptySet DEF Emptied
  <2>4. /\ batch' = {}
        /\ handled' = [f \in Events |-> IF f \in evs THEN handled[f] + 1 ELSE handled[f]]
    BY <1>5 DEF Emptied
  <2> HIDE DEF evs
  <2> QED
    BY <1>5, <2>1, <2>2, <2>3, <2>4 DEF EventsInv
<1> QED
  BY <1>1, <1>2, <1>3, <1>4, <1>5 DEF BufferShape

(* The account says that an event is in the buffer or was consumed, never    *)
(* both and never twice.                                                     *)
LEMMA EventsCounted == EventsInv => EventsHandledOnce
<1> SUFFICES ASSUME EventsInv, NEW e \in arrived
             PROVE  handled[e] + Cardinality({x \in batch : x.ev = e}) = 1
  BY DEF EventsHandledOnce
<1>1. CASE handled[e] = 1
  <2>1. {x \in batch : x.ev = e} = {}
    BY <1>1 DEF EventsInv
  <2>2. Cardinality({}) = 0
    BY FS_EmptySet
  <2>3. handled[e] + Cardinality({}) = 1
    BY <1>1, <2>2
  <2> QED
    BY <2>1, <2>3
<1>2. ASSUME handled[e] = 0, NEW y \in batch, y.ev = e
      PROVE  handled[e] + Cardinality({x \in batch : x.ev = e}) = 1
  <2>1. {x \in batch : x.ev = e} = {y}
    BY <1>2 DEF EventsInv
  <2>2. Cardinality({y}) = 1
    BY FS_Singleton
  <2> QED
    BY <1>2, <2>1, <2>2
<1> QED
  BY <1>1, <1>2 DEF EventsInv

(* _buffer appends only below the cap, and the event it appends is new.      *)
LEMMA BufferWithinCap ==
    ASSUME TypeOK, EventsInv, BufferShape, Cardinality(batch) <= MaxBuffered
    PROVE  Cardinality(batch') <= MaxBuffered
<1>1. CASE batch' = batch
  BY <1>1
<1>2. CASE batch' = {}
  BY <1>2, FS_EmptySet, BatchAssumption
<1>3. ASSUME NEW e, NEW t, Appended(e, t)
      PROVE  Cardinality(batch') <= MaxBuffered
  <2>1. PICK new : new = [ev |-> e, t |-> t]
    OBVIOUS
  <2>2. batch' = batch \cup {new} /\ Cardinality(batch) < MaxBuffered
    <3>1. Cardinality(batch) \in Nat
      BY FS_CardinalityType DEF EventsInv
    <3> QED
      BY <1>3, <2>1, <3>1, BatchAssumption DEF Appended, buffer_is_full
  <2>3. new.ev = e /\ e \notin arrived
    BY <1>3, <2>1 DEF Appended
  <2>4. new \notin batch
    BY <2>3 DEF EventsInv
  <2>5. Cardinality(batch \cup {new}) = Cardinality(batch) + 1
    BY <2>4, FS_AddElement DEF EventsInv
  <2>6. Cardinality(batch) \in Nat
    BY FS_CardinalityType DEF EventsInv
  <2> QED
    BY <2>2, <2>5, <2>6, BatchAssumption
<1> QED
  BY <1>1, <1>2, <1>3
     DEF BufferShape, BufferKept, TakenAtOnce, Emptied, AppendedAndEmptied

(* The second half of BufferBounded: a buffer at the threshold that nothing  *)
(* holds back is due.                                                        *)
FullBufferIsDue ==
    Cardinality(batch) >= MaxBatchSize /\ continuation = {} =>
        \E m \in flush_timer \cup flush_fired : m <= wall

(* An empty buffer is below the threshold.                                   *)
LEMMA EmptyIsNotDue == batch' = {} => FullBufferIsDue'
<1> SUFFICES ASSUME batch' = {} PROVE ~(Cardinality(batch') >= MaxBatchSize)
  BY DEF FullBufferIsDue
<1>1. Cardinality({}) = 0
  BY FS_EmptySet
<1> QED
  BY <1>1, BatchAssumption

(* A step that leaves the buffer, the suspension and its marks alone, or     *)
(* ends by re-arming FLUSH_TIMER, or leaves a suspension behind.             *)
LEMMA StaysDue ==
    ASSUME FullBufferIsDue, wall' = wall, batch' = batch,
           \/ UNCHANGED <<continuation, flush_timer, flush_fired>>
           \/ continuation' # {}
           \/ flush_timer' = {wall}
           \/ batch = {},
           wall \in Nat
    PROVE  FullBufferIsDue'
<1>1. CASE batch = {}
  BY <1>1, EmptyIsNotDue
<1>2. CASE flush_timer' = {wall}
  BY <1>2 DEF FullBufferIsDue
<1>3. CASE continuation' # {} \/ UNCHANGED <<continuation, flush_timer, flush_fired>>
  BY <1>3 DEF FullBufferIsDue
<1> QED
  BY <1>1, <1>2, <1>3

(* The inductive step, one case per action.                                  *)
LEMMA NextDue ==
    ASSUME TypeOK, TimerInv, FullBufferIsDue, [Next]_vars
    PROVE  FullBufferIsDue'
<1> USE DEF keyed, clocks, inputs, history
<1> wall \in Nat /\ Cell(flush_timer, Int)
  BY DEF TypeOK
<1>1. ASSUME NEW s, NEW t, NEW first, Succeeds(s, t, first, FALSE)
      PROVE  FullBufferIsDue'
  <2>1. /\ batch' = batch /\ wall' = wall
        /\ \/ continuation' # {}
           \/ flush_timer' = rearm_flush
    <3>1. ASSUME NEW steps, NEW ttl, NEW deadline,
                 Commit(s, t, first, steps, ttl, deadline, FALSE)
          PROVE  /\ batch' = batch /\ wall' = wall
                 /\ \/ continuation' # {}
                    \/ flush_timer' = rearm_flush
      <4>1. batch' = batch /\ wall' = wall
        BY <3>1 DEF Commit
      <4>2. CASE deadline = {}
        BY <3>1, <4>1, <4>2 DEF Commit
      <4>3. ASSUME NEW d \in deadline PROVE continuation' # {}
        BY <3>1, <4>3 DEF Commit
      <4> QED
        BY <4>1, <4>2, <4>3
    <3> QED
      BY <1>1, <3>1 DEF Succeeds
  <2>2. batch = {} \/ continuation' # {} \/ flush_timer' = {wall}
    BY <2>1 DEF TimerInv, rearm_flush
  <2> QED
    BY <2>1, <2>2, StaysDue
<1>2. ASSUME NEW b, NEW ttl, Flush(b, ttl) PROVE FullBufferIsDue'
  BY <1>2, FlushEmpties, EmptyIsNotDue DEF Emptied
<1>3. ASSUME NEW e \in Events, NEW t \in 1..wall, Start(e, t)
      PROVE  FullBufferIsDue'
  <2>1. CASE \E cause \in Causes : Fails(cause)
    BY <1>3, <2>1, StaysDue DEF Start, Deliver, Fails
  <2> QED
    BY <1>1, <1>3, <2>1 DEF Start
<1>4. ASSUME NEW e \in Events, BufferOverflow(e)
      PROVE  FullBufferIsDue'
  BY <1>4, StaysDue DEF BufferOverflow, Deliver
<1>5. ASSUME NEW e \in Events, NEW t \in 1..wall, Buffer(e, t)
      PROVE  FullBufferIsDue'
  <2> DEFINE b == batch \cup {[ev |-> e, t |-> t]}
  <2>1. CASE Flush(b, {t + Ttl})
    BY <1>2, <2>1
  <2>2. CASE ~should_flush_on_size(b) /\ batch' = b /\ continuation' = continuation
    BY <2>2 DEF should_flush_on_size, FullBufferIsDue
  <2> QED
    BY <1>5, <2>1, <2>2 DEF Buffer
<1>6. ASSUME NEW i, NEW t, Orphan(i, t)
      PROVE  FullBufferIsDue'
  BY <1>6, StaysDue DEF Orphan, Answer
<1>7. ASSUME NEW i, NEW t, Resume(i, t)
      PROVE  FullBufferIsDue'
  <2>1. CASE \E cause \in Causes : Fails(cause)
    BY <1>7, <2>1, StaysDue DEF Resume, Answer, Fails
  <2> QED
    BY <1>1, <1>7, <2>1 DEF Resume
<1>8. ASSUME NEW m, OnHitl(m)
      PROVE  FullBufferIsDue'
  <2>1. batch' = batch /\ wall' = wall /\ flush_fired' = flush_fired
    BY <1>8 DEF OnHitl
  <2>2. CASE UNCHANGED <<keyed, ttl_timer, hitl_timer, flush_timer, emissions, outbox>>
    BY <2>1, <2>2, StaysDue
  <2>3. ASSUME NEW c, NEW timeout, Escalate(c, m, timeout)
        PROVE  FullBufferIsDue'
    BY <2>1, <2>3, StaysDue DEF Escalate
  <2>4. ASSUME NEW report, EndSuspension(report)
        PROVE  FullBufferIsDue'
    <3>1. flush_timer' = {wall} \/ batch = {}
      BY <2>4 DEF EndSuspension, rearm_flush, TimerInv
    <3> QED
      BY <2>1, <3>1, StaysDue
  <2> QED
    BY <1>8, <2>2, <2>3, <2>4 DEF OnHitl
<1>9. ASSUME NEW m, OnFlush(m)
      PROVE  FullBufferIsDue'
  <2>1. CASE Flush(batch, ttl_timer)
    BY <1>2, <2>1
  <2>2. CASE ~should_flush_on_timer(batch) /\ UNCHANGED <<keyed, batch, clocks>>
    BY <2>2, StaysDue DEF should_flush_on_timer
  <2> QED
    BY <1>9, <2>1, <2>2 DEF OnFlush
<1>10. CASE OnTtl
  BY <1>10, EmptyIsNotDue DEF OnTtl, Wipe
<1>11. CASE DispatchFlush
  <2>1. flush_timer' \cup flush_fired' = flush_timer \cup flush_fired
    BY <1>11 DEF DispatchFlush, Cell
  <2> QED
    BY <1>11, <2>1 DEF DispatchFlush, FullBufferIsDue
<1>12. CASE Tick
  <2>1. \A m \in flush_timer \cup flush_fired : m \in Int
    BY DEF TypeOK, Cell
  <2> QED
    BY <1>12, <2>1 DEF Tick, FullBufferIsDue
<1>13. CASE DispatchHitl \/ OnTtlRetry \/ AdvanceWatermark \/ UNCHANGED vars
  BY <1>13, StaysDue DEF DispatchHitl, OnTtlRetry, AdvanceWatermark, vars
<1> QED
  BY <1>3, <1>4, <1>5, <1>6, <1>7, <1>8, <1>9, <1>10, <1>11, <1>12, <1>13 DEF Next

(* The buffer stays within max_buffered_events and is due when full, and     *)
(* _flush, _failed_flush, the overflow path and on_ttl consume every         *)
(* delivered event exactly once, whatever the batch policy and the timers do. *)
THEOREM BufferedOnce == Spec => []BufferInv
<1>1. Init => EventsInv /\ FullBufferIsDue /\ Cardinality(batch) <= MaxBuffered
  <2>1. Cardinality({}) = 0 /\ IsFiniteSet({})
    BY FS_EmptySet
  <2> QED
    BY <2>1, BatchAssumption DEF Init, EventsInv, FullBufferIsDue
<1>2. TypeOK /\ TimerInv /\ [Next]_vars
         /\ EventsInv /\ FullBufferIsDue /\ Cardinality(batch) <= MaxBuffered
         => (EventsInv /\ FullBufferIsDue /\ Cardinality(batch) <= MaxBuffered)'
  BY StepBuffers, NextEvents, BufferWithinCap, NextDue
<1>3. TimerInv /\ EventsInv /\ FullBufferIsDue /\ Cardinality(batch) <= MaxBuffered
         => BufferInv
  BY EventsCounted DEF BufferInv, BufferBounded, FullBufferIsDue
<1> QED
  BY <1>1, <1>2, <1>3, TimersHold, PTL DEF Spec
==============================================================================
