---------------------------- MODULE RuntimeProofs ----------------------------
(* The processes around the agent: what is proved of a worker's two event    *)
(* loops (the shared vLLM sidecar and the async bridge), of the effector's   *)
(* dispatcher, result sinks and Pub/Sub source, of the pipeline's intent     *)
(* outbox and of their composition, for any instances, deadlines,            *)
(* submissions, partitions, keys, rebalances, deaths and redeliveries.       *)
EXTENDS MCRuntime, FiniteSetTheorems, SequenceTheorems, TLAPS

-----------------------------------------------------------------------------
(* The vLLM sidecar.  A handle is alive while an instance or a coroutine     *)
(* holds it, and an engine is built while nobody else builds it.             *)
EngineHandle == [engine : {"none", "up", "closing", "closed", "abandoned"}, builds : Int,
                 dead : BOOLEAN, by : Instances]
Holder == [at : {"off", "probing", "ready", "waiting", "failed"}, handle : Nat, on : Int]
Coroutine == [id : Int, by : Instances, handle : Nat, kind : {"probe", "generate"},
              at : {"queued", "building", "running"}]

SidecarType ==
    /\ handles \in Seq(EngineHandle) /\ current \in {0} \cup DOMAIN handles
    /\ holder \in [Instances -> Holder] /\ coroutines \subseteq Coroutine
    /\ setups \in Nat /\ generations \in Nat /\ setups <= MaxSetups

\* The identity of every coroutine was drawn from one of the two counters.
Drawn(id) == id \in 1..setups \cup MaxSetups + 1..MaxSetups + generations

HolderInv(d) ==
    /\ holder[d].at \in {"probing", "ready", "waiting"} <=> holder[d].handle # 0
    /\ holder[d].handle # 0 =>
           holder[d].handle \in DOMAIN handles /\ ~handles[holder[d].handle].dead
    /\ holder[d].at \in {"ready", "waiting"} => handles[holder[d].handle].engine = "up"
    /\ holder[d].on = 0 \/ Drawn(holder[d].on)

CoroutineInv(c) ==
    /\ c.handle \in DOMAIN handles /\ ~handles[c.handle].dead
    /\ Drawn(c.id)
    /\ c.at = "running" => handles[c.handle].engine = "up"
    /\ c.at = "building" => handles[c.handle].engine = "none"
    /\ holder[c.by].on = c.id =>
           /\ holder[c.by].handle = c.handle
           /\ holder[c.by].at = IF c.kind = "probe" THEN "probing" ELSE "waiting"

SidecarInv ==
    /\ SidecarType
    /\ \A h \in DOMAIN handles :
           /\ ~handles[h].dead => h = current /\ handles[h].engine \in {"none", "up"}
           /\ handles[h].builds = IF handles[h].engine = "none" THEN 0 ELSE 1
    /\ \A d \in Instances : HolderInv(d)
    /\ \A c \in coroutines : CoroutineInv(c)
    /\ \A c, e \in coroutines :
           c.at = "building" /\ e.at = "building" /\ c.handle = e.handle => c = e

(* The sidecar starts with nothing acquired: SidecarInit.                    *)
LEMMA SidecarStarts == SidecarInit => SidecarInv
<1> SUFFICES ASSUME SidecarInit PROVE SidecarInv
  OBVIOUS
<1>1. handles \in Seq(EngineHandle) /\ DOMAIN handles = {}
  BY DEF SidecarInit
<1>2. holder \in [Instances -> Holder]
  BY DEF SidecarInit, Holder
<1>3. \A d \in Instances : HolderInv(d)
  BY DEF SidecarInit, HolderInv
<1> QED BY <1>1, <1>2, <1>3, SidecarAssumption DEF SidecarInit, SidecarInv, SidecarType

(* What may happen to the handles when nobody builds an engine: those that   *)
(* change are dead.                                                          *)
HandlesStand(hs) ==
    /\ hs \in Seq(EngineHandle) /\ DOMAIN hs = DOMAIN handles
    /\ \A k \in DOMAIN handles :
          /\ hs[k].builds = handles[k].builds
          /\ hs[k].engine = "none" <=> handles[k].engine = "none"
          /\ hs[k] = handles[k] \/ hs[k].dead

(* The finalizer closes or abandons an engine nobody holds, builds nothing   *)
(* and leaves every other handle as it is: _shutdown_engine.                 *)
LEMMA FinalizerShape ==
  ASSUME handles \in Seq(EngineHandle), NEW h \in DOMAIN handles, NEW holders, NEW running,
         NEW where, NEW d \in Instances, NEW hs, hs = released(h, holders, running, where, d)
  PROVE  HandlesStand(hs) /\ \A k \in DOMAIN handles : Held(k, holders, running) => hs[k] = handles[k]
<1>1. CASE Held(h, holders, running)
  BY <1>1 DEF released, HandlesStand
<1>2. CASE ~Held(h, holders, running)
  <2>1. PICK o : o = handles[h]
    OBVIOUS
  <2>2. o \in EngineHandle
    BY <2>1
  <2>3. PICK e : e = CASE o.engine = "none" -> "none"
                       [] o.engine # "none" /\ where = "engine thread" -> "abandoned"
                       [] OTHER -> "closing"
    OBVIOUS
  <2>4. e \in {"none", "closing", "abandoned"} /\ (e = "none" <=> o.engine = "none")
    BY <2>3
  <2>5. PICK m : m = [[o EXCEPT !.dead = TRUE] EXCEPT !.by = d]
    OBVIOUS
  <2>6. m \in EngineHandle /\ m.engine = o.engine /\ m.builds = o.builds /\ m.dead
    BY <2>2, <2>5 DEF EngineHandle
  <2>7. PICK n : n = [m EXCEPT !.engine = e]
    OBVIOUS
  <2>8. n \in EngineHandle /\ n.dead /\ n.builds = o.builds /\ n.engine = e
    BY <2>4, <2>6, <2>7 DEF EngineHandle
  <2>9. hs = [handles EXCEPT ![h] = n]
    <3>1. PICK a : a = [[handles EXCEPT ![h].dead = TRUE] EXCEPT ![h].by = d]
      OBVIOUS
    <3>2. a[h] = m /\ a = [handles EXCEPT ![h] = m]
      BY <3>1, <2>1, <2>5
    <3>3. hs = [a EXCEPT ![h].engine = e]
      <4>1. hs = finalized(h, handles, where, d)
        BY <1>2 DEF released
      <4>2. e = CASE handles[h].engine = "none" -> "none"
                  [] handles[h].engine # "none" /\ where = "engine thread" -> "abandoned"
                  [] OTHER -> "closing"
        BY <2>1, <2>3
      <4>3. hs = [handles EXCEPT ![h].dead = TRUE, ![h].by = d, ![h].engine = e]
        BY <4>1, <4>2 DEF finalized
      <4> QED BY <4>3, <3>1
    <3> QED BY <3>2, <3>3, <2>7
  <2> QED BY <1>2, <2>1, <2>4, <2>8, <2>9 DEF HandlesStand
<1> QED BY <1>1, <1>2

(* A shutdown ends: the handle was dead, and its engine is gone.             *)
LEMMA ShutDownShape ==
  ASSUME SidecarInv, NEW h \in DOMAIN handles, ShutDown(h)
  PROVE  HandlesStand(handles') /\ \A k \in DOMAIN handles : ~handles[k].dead => handles'[k] = handles[k]
<1>1. PICK o : o = handles[h]
  OBVIOUS
<1>2. o \in EngineHandle /\ o.engine = "closing" /\ o.dead /\ handles \in Seq(EngineHandle)
  BY <1>1 DEF ShutDown, SidecarInv, SidecarType
<1>3. PICK n : n = [o EXCEPT !.engine = "closed"]
  OBVIOUS
<1>4. n \in EngineHandle /\ n.engine = "closed" /\ n.dead /\ n.builds = o.builds
  BY <1>2, <1>3 DEF EngineHandle
<1>5. handles' = [handles EXCEPT ![h] = n]
  BY <1>1, <1>3 DEF ShutDown
<1> QED BY <1>1, <1>2, <1>4, <1>5 DEF HandlesStand

(* What an instance or a coroutine holds stays as it is when another of them *)
(* lets go, or when only dead handles change.                                *)
LEMMA HoldersMove ==
  ASSUME SidecarInv, SidecarAssumption,
         HandlesStand(handles'),
         \A k \in DOMAIN handles : Held(k, holder', coroutines') => handles'[k] = handles[k],
         UNCHANGED <<current, setups, generations>>,
         coroutines' \subseteq coroutines,
         holder' \in [Instances -> Holder],
         \A d \in Instances :
            \/ holder'[d] = holder[d]
            \/ holder'[d].at \in {"off", "failed"} /\ holder'[d].handle = 0 /\ holder'[d].on = 0
            \/ /\ holder'[d].at = "ready" /\ holder'[d].on = 0 /\ holder'[d].handle = holder[d].handle
               /\ holder[d].handle # 0 /\ handles[holder[d].handle].engine = "up"
  PROVE  SidecarInv'
<1> USE DEF SidecarInv
<1>1. HandlesStand(handles') /\ \A k \in DOMAIN handles : Held(k, holder', coroutines') => handles'[k] = handles[k]
  OBVIOUS
<1>2. SidecarType'
  BY <1>1 DEF SidecarType, HandlesStand
<1>3. \A h \in DOMAIN handles' :
           /\ ~handles'[h].dead => h = current' /\ handles'[h].engine \in {"none", "up"}
           /\ handles'[h].builds = IF handles'[h].engine = "none" THEN 0 ELSE 1
  BY <1>1 DEF HandlesStand
<1>4. ASSUME NEW d \in Instances PROVE HolderInv(d)'
  <2>1. HolderInv(d)
    OBVIOUS
  <2>2. holder'[d].handle # 0 => holder'[d].handle = holder[d].handle
    BY <2>1 DEF HolderInv
  <2>3. holder'[d].handle # 0 =>
           holder'[d].handle \in DOMAIN handles /\ handles'[holder'[d].handle] = handles[holder'[d].handle]
    BY <1>1, <2>1, <2>2 DEF HolderInv, Held, HandlesStand
  <2>4. ~Drawn(0) /\ (\A id : Drawn(id)' <=> Drawn(id))
    BY DEF Drawn
  <2> QED BY <1>1, <2>1, <2>2, <2>3, <2>4 DEF HolderInv, HandlesStand
<1>5. ASSUME NEW c \in coroutines' PROVE CoroutineInv(c)'
  <2>1. c \in coroutines /\ CoroutineInv(c)
    OBVIOUS
  <2>2. c.by \in Instances
    BY <2>1 DEF SidecarType, Coroutine
  <2>3. handles'[c.handle] = handles[c.handle]
    BY <1>1, <2>1 DEF Held, CoroutineInv, HandlesStand
  <2>4. Drawn(c.id)' /\ c.id # 0
    BY <2>1, SidecarAssumption DEF CoroutineInv, Drawn, SidecarType
  <2>5. holder'[c.by].on = c.id => holder'[c.by] = holder[c.by]
    BY <2>2, <2>4
  <2> QED BY <1>1, <2>1, <2>3, <2>4, <2>5 DEF CoroutineInv, HandlesStand
<1> QED BY <1>2, <1>3, <1>4, <1>5

(* One of them lets go, by a teardown, an outcome or a deadline.             *)
LEMMA LettingGo ==
  ASSUME SidecarInv, SidecarAssumption,
         handles' = handles
            \/ \E h \in DOMAIN handles, d \in Instances : \E where :
                  handles' = released(h, holder', coroutines', where, d),
         UNCHANGED <<current, setups, generations>>,
         coroutines' \subseteq coroutines,
         holder' \in [Instances -> Holder],
         \A d \in Instances :
            \/ holder'[d] = holder[d]
            \/ holder'[d].at \in {"off", "failed"} /\ holder'[d].handle = 0 /\ holder'[d].on = 0
            \/ /\ holder'[d].at = "ready" /\ holder'[d].on = 0 /\ holder'[d].handle = holder[d].handle
               /\ holder[d].handle # 0 /\ handles[holder[d].handle].engine = "up"
  PROVE  SidecarInv'
<1>1. handles \in Seq(EngineHandle)
  BY DEF SidecarInv, SidecarType
<1>2. HandlesStand(handles') /\ \A k \in DOMAIN handles : Held(k, holder', coroutines') => handles'[k] = handles[k]
  <2>1. CASE handles' = handles
    BY <2>1, <1>1 DEF HandlesStand
  <2>2. ASSUME NEW h \in DOMAIN handles, NEW d \in Instances, NEW where,
               handles' = released(h, holder', coroutines', where, d)
        PROVE  HandlesStand(handles') /\ \A k \in DOMAIN handles : Held(k, holder', coroutines') => handles'[k] = handles[k]
    BY <2>2, <1>1, FinalizerShape
  <2> QED BY <2>1, <2>2
<1> QED BY <1>2, HoldersMove

(* setup() finds the living handle or makes the only one, and its probe is   *)
(* no coroutine anybody waits for yet: VllmSidecarProvider.__init__.         *)
LEMMA SetupKeeps == ASSUME SidecarInv, NEW d \in Instances, Setup(d) PROVE SidecarInv'
<1> USE DEF SidecarInv
<1> DEFINE h == acquire(current)
           fresh == [engine |-> "none", builds |-> 0, dead |-> FALSE, by |-> d]
           probe == [id |-> setups + 1, by |-> d, handle |-> h, kind |-> "probe", at |-> "queued"]
           held == [at |-> "probing", handle |-> h, on |-> setups + 1]
<1>1. /\ holder[d].at = "off" /\ setups < MaxSetups
      /\ handles' = IF h \in DOMAIN handles THEN handles ELSE Append(handles, fresh)
      /\ current' = h
      /\ holder' = [holder EXCEPT ![d] = held]
      /\ coroutines' = coroutines \cup {probe}
      /\ setups' = setups + 1 /\ generations' = generations
  BY DEF Setup
<1>2. /\ handles \in Seq(EngineHandle) /\ setups \in Nat /\ generations \in Nat
      /\ current \in {0} \cup DOMAIN handles /\ DOMAIN handles = 1..Len(handles) /\ Len(handles) \in Nat
  BY DEF SidecarType
<1>3. fresh \in EngineHandle /\ fresh.engine = "none" /\ fresh.builds = 0 /\ ~fresh.dead
  BY DEF EngineHandle
<1> HIDE DEF fresh
<1>4. \/ h \in DOMAIN handles /\ h = current /\ handles' = handles /\ ~handles[h].dead
      \/ /\ h = Len(handles) + 1 /\ h \notin DOMAIN handles /\ handles' = Append(handles, fresh)
         /\ \A k \in DOMAIN handles : handles[k].dead
  <2>1. CASE current # 0 /\ ~handles[current].dead
    BY <2>1, <1>1, <1>2 DEF acquire
  <2>2. CASE ~(current # 0 /\ ~handles[current].dead)
    <3>1. h = Len(handles) + 1
      BY <2>2 DEF acquire
    <3>2. h \notin DOMAIN handles
      BY <3>1, <1>2
    <3>3. \A k \in DOMAIN handles : k # 0 /\ (~handles[k].dead => k = current)
      BY <1>2
    <3> QED BY <3>1, <3>2, <3>3, <2>2, <1>1
  <2> QED BY <2>1, <2>2
<1>5. /\ handles' \in Seq(EngineHandle) /\ DOMAIN handles \subseteq DOMAIN handles'
      /\ h \in DOMAIN handles' /\ h \in Nat /\ h # 0
      /\ DOMAIN handles' = DOMAIN handles \cup {h}
      /\ \A k \in DOMAIN handles : handles'[k] = handles[k]
      /\ ~handles'[h].dead
      /\ h \notin DOMAIN handles => handles'[h] = fresh
  <2>1. CASE h \in DOMAIN handles /\ handles' = handles /\ ~handles[h].dead
    BY <2>1, <1>2
  <2>2. CASE h = Len(handles) + 1 /\ h \notin DOMAIN handles /\ handles' = Append(handles, fresh)
    <3> HIDE DEF h
    <3>1. /\ handles' \in Seq(EngineHandle) /\ Len(handles') = Len(handles) + 1
          /\ DOMAIN handles' = 1..Len(handles) + 1 /\ handles'[Len(handles) + 1] = fresh
          /\ \A k \in 1..Len(handles) : handles'[k] = handles[k]
      BY <1>2, <1>3, <2>2
    <3> QED BY <3>1, <2>2, <1>2, <1>3
  <2> QED BY <2>1, <2>2, <1>4
<1> HIDE DEF h
<1>6. probe \in Coroutine /\ held \in Holder
  BY <1>2, <1>5 DEF Coroutine, Holder
<1>7. /\ probe.id = setups + 1 /\ probe.by = d /\ probe.handle = h /\ probe.kind = "probe" /\ probe.at = "queued"
      /\ held.at = "probing" /\ held.handle = h /\ held.on = setups + 1
  OBVIOUS
<1> HIDE DEF probe, held
<1>8. SidecarType'
  BY <1>1, <1>2, <1>5, <1>6, SidecarAssumption DEF SidecarType
<1>9. \A k \in DOMAIN handles' :
           /\ ~handles'[k].dead => k = current' /\ handles'[k].engine \in {"none", "up"}
           /\ handles'[k].builds = IF handles'[k].engine = "none" THEN 0 ELSE 1
  BY <1>1, <1>3, <1>4, <1>5
<1>10. \A id : Drawn(id) => Drawn(id)' /\ id # setups + 1 /\ id # 0
  BY <1>1, <1>2, SidecarAssumption DEF Drawn
<1>11. \A x : x = setups + 1 => Drawn(x)'
  BY <1>1, <1>2 DEF Drawn
<1>12. ASSUME NEW e \in Instances PROVE HolderInv(e)'
  <2>1. HolderInv(e) /\ holder \in [Instances -> Holder]
    BY DEF SidecarType
  <2>2. CASE e = d
    BY <2>1, <2>2, <1>1, <1>5, <1>7, <1>11 DEF HolderInv
  <2>3. CASE e # d
    BY <2>1, <2>3, <1>1, <1>5, <1>10 DEF HolderInv
  <2> QED BY <2>2, <2>3
<1>13. ASSUME NEW c \in coroutines' PROVE CoroutineInv(c)'
  <2>1. CASE c = probe
    <3>1. holder'[d] = held
      BY <1>1 DEF SidecarType
    <3> QED BY <3>1, <2>1, <1>1, <1>5, <1>7, <1>11 DEF CoroutineInv
  <2>2. CASE c \in coroutines
    <3>1. CoroutineInv(c) /\ c.by \in Instances
      BY <2>2 DEF SidecarType, Coroutine
    <3>2. holder'[c.by].on = c.id => holder'[c.by] = holder[c.by]
      BY <3>1, <1>1, <1>7, <1>10 DEF CoroutineInv, SidecarType
    <3> QED BY <3>1, <3>2, <1>5, <1>10 DEF CoroutineInv
  <2> QED BY <2>1, <2>2, <1>1
<1>14. \A c, e \in coroutines' :
           c.at = "building" /\ e.at = "building" /\ c.handle = e.handle => c = e
  BY <1>1, <1>7
<1> QED BY <1>8, <1>9, <1>12, <1>13, <1>14

(* A request is one more coroutine on an engine that is up: complete.        *)
LEMMA CompleteKeeps == ASSUME SidecarInv, NEW d \in Instances, Complete(d) PROVE SidecarInv'
<1> USE DEF SidecarInv
<1> DEFINE id == MaxSetups + generations + 1
           request == [id |-> id, by |-> d, handle |-> holder[d].handle, kind |-> "generate", at |-> "queued"]
<1>1. /\ holder[d].at = "ready" /\ generations' = generations + 1
      /\ coroutines' = coroutines \cup {request}
      /\ holder' = [holder EXCEPT ![d].at = "waiting", ![d].on = id]
      /\ handles' = handles /\ current' = current /\ setups' = setups
  BY DEF Complete
<1>2. setups \in Nat /\ generations \in Nat /\ setups <= MaxSetups /\ id \in Int
  BY SidecarAssumption DEF SidecarType
<1>3. \A x : Drawn(x) => Drawn(x)' /\ x # id /\ x # 0
  BY <1>1, <1>2, SidecarAssumption DEF Drawn
<1>4. \A x : x = id => Drawn(x)'
  BY <1>1, <1>2, SidecarAssumption DEF Drawn
<1> HIDE DEF id
<1>5. PICK o : o = holder[d]
  OBVIOUS
<1>6. o \in Holder /\ HolderInv(d)
  BY <1>5 DEF SidecarType
<1>7. PICK m : m = [o EXCEPT !.at = "waiting"]
  OBVIOUS
<1>8. m \in Holder /\ m.at = "waiting" /\ m.handle = o.handle
  BY <1>6, <1>7 DEF Holder
<1>9. PICK n : n = [m EXCEPT !.on = id]
  OBVIOUS
<1>10. n \in Holder /\ n.at = "waiting" /\ n.handle = o.handle /\ n.on = id
  BY <1>2, <1>8, <1>9 DEF Holder
<1>11. holder' = [holder EXCEPT ![d] = n]
  BY <1>1, <1>5, <1>7, <1>9
<1>12. request \in Coroutine
  BY <1>2, <1>5, <1>6 DEF Coroutine, Holder
<1>13. /\ request.id = id /\ request.by = d /\ request.handle = o.handle
       /\ request.kind = "generate" /\ request.at = "queued"
  BY <1>5
<1> HIDE DEF request
<1>14. SidecarType'
  <2>1. holder' \in [Instances -> Holder]
    BY <1>10, <1>11 DEF SidecarType
  <2>2. coroutines' \subseteq Coroutine
    BY <1>1, <1>12 DEF SidecarType
  <2>3. handles' \in Seq(EngineHandle) /\ current' \in {0} \cup DOMAIN handles'
    BY <1>1 DEF SidecarType
  <2> QED BY <2>1, <2>2, <2>3, <1>1, <1>2 DEF SidecarType
<1>15. ASSUME NEW e \in Instances PROVE HolderInv(e)'
  <2>1. HolderInv(e) /\ holder \in [Instances -> Holder]
    BY DEF SidecarType
  <2>2. CASE e = d
    BY <2>1, <2>2, <1>1, <1>4, <1>5, <1>10, <1>11 DEF HolderInv
  <2>3. CASE e # d
    BY <2>1, <2>3, <1>1, <1>3, <1>11 DEF HolderInv
  <2> QED BY <2>2, <2>3
<1>16. ASSUME NEW c \in coroutines' PROVE CoroutineInv(c)'
  <2>1. CASE c = request
    <3>1. holder'[d] = n
      BY <1>11 DEF SidecarType
    <3> QED BY <3>1, <2>1, <1>1, <1>4, <1>5, <1>6, <1>10, <1>13 DEF CoroutineInv, HolderInv
  <2>2. CASE c \in coroutines
    <3>1. CoroutineInv(c) /\ c.by \in Instances
      BY <2>2 DEF SidecarType, Coroutine
    <3>2. holder'[c.by].on = c.id => holder'[c.by] = holder[c.by]
      BY <3>1, <1>3, <1>10, <1>11 DEF CoroutineInv, SidecarType
    <3> QED BY <3>1, <3>2, <1>1, <1>3 DEF CoroutineInv
  <2> QED BY <2>1, <2>2, <1>1
<1>17. \A c, e \in coroutines' :
           c.at = "building" /\ e.at = "building" /\ c.handle = e.handle => c = e
  BY <1>1, <1>13
<1> QED BY <1>1, <1>14, <1>15, <1>16, <1>17

(* A coroutine moves on with its handle's engine: it builds one where there  *)
(* is none and nobody else builds, or runs on one that is up.                *)
LEMMA MovedOn ==
  ASSUME SidecarInv, NEW c \in coroutines, NEW step \in {"building", "running"},
         coroutines' = Moved(c, step),
         UNCHANGED <<holder, current, setups, generations>>,
         handles' \in Seq(EngineHandle), DOMAIN handles' = DOMAIN handles,
         \A k \in DOMAIN handles :
            \/ handles'[k] = handles[k]
            \/ /\ k = c.handle /\ handles[k].engine = "none" /\ handles'[k].engine = "up"
               /\ handles'[k].builds = handles[k].builds + 1 /\ ~handles'[k].dead
               /\ c.at = "building",
         step = "running" => handles'[c.handle].engine = "up",
         step = "building" => handles'[c.handle].engine = "none" /\ loop_is_free(c.handle)
  PROVE  SidecarInv'
<1> USE DEF SidecarInv
<1>1. PICK n : n = [c EXCEPT !.at = step]
  OBVIOUS
<1>2. coroutines' = (coroutines \ {c}) \cup {n}
  BY <1>1 DEF Moved
<1>3. c \in Coroutine /\ CoroutineInv(c)
  BY DEF SidecarType
<1>4. n \in Coroutine /\ n.at = step /\ n.id = c.id /\ n.by = c.by /\ n.handle = c.handle /\ n.kind = c.kind
  BY <1>1, <1>3 DEF Coroutine
<1>5. \A id : Drawn(id)' <=> Drawn(id)
  BY DEF Drawn
<1>6. SidecarType'
  BY <1>2, <1>4 DEF SidecarType
<1>7. \A k \in DOMAIN handles' :
           /\ ~handles'[k].dead => k = current' /\ handles'[k].engine \in {"none", "up"}
           /\ handles'[k].builds = IF handles'[k].engine = "none" THEN 0 ELSE 1
  BY <1>3 DEF CoroutineInv
<1>8. ASSUME NEW e \in Instances PROVE HolderInv(e)'
  <2>1. HolderInv(e)
    OBVIOUS
  <2> QED BY <2>1, <1>5 DEF HolderInv
<1>9. ASSUME NEW e \in coroutines' PROVE CoroutineInv(e)'
  <2>1. CASE e = n
    <3>1. ~handles'[c.handle].dead
      BY <1>3 DEF CoroutineInv
    <3> QED BY <3>1, <2>1, <1>3, <1>4, <1>5 DEF CoroutineInv
  <2>2. CASE e \in coroutines /\ e # c
    <3>1. CoroutineInv(e)
      BY <2>2
    <3>2. handles'[e.handle] = handles[e.handle]
             \/ /\ e.handle = c.handle /\ c.at = "building" /\ handles[e.handle].engine = "none"
                /\ handles'[e.handle].engine = "up" /\ ~handles'[e.handle].dead
      BY <3>1 DEF CoroutineInv
    <3>3. e.at = "building" => handles'[e.handle] = handles[e.handle]
      BY <2>2, <3>2
    <3> QED BY <3>1, <3>2, <3>3, <1>5 DEF CoroutineInv
  <2> QED BY <2>1, <2>2, <1>2
<1>10. \A a, b \in coroutines' :
           a.at = "building" /\ b.at = "building" /\ a.handle = b.handle => a = b
  BY <1>2, <1>4 DEF loop_is_free
<1> QED BY <1>6, <1>7, <1>8, <1>9, <1>10

(* _ensure_engine: nothing is awaited between its check and its store.       *)
LEMMA EnsureKeeps == ASSUME SidecarInv, NEW c \in coroutines, Ensure(c) PROVE SidecarInv'
<1>1. c \in Coroutine /\ CoroutineInv(c)
  BY DEF SidecarInv, SidecarType
<1>2. handles[c.handle].engine \in {"none", "up"}
  BY <1>1 DEF CoroutineInv, SidecarInv
<1>3. handles' \in Seq(EngineHandle) /\ DOMAIN handles' = DOMAIN handles
      /\ \A k \in DOMAIN handles : handles'[k] = handles[k]
  BY DEF Ensure, SidecarInv, SidecarType
<1>4. UNCHANGED <<holder, current, setups, generations>> /\ handles' = handles /\ loop_is_free(c.handle)
  BY DEF Ensure
<1>5. CASE handles[c.handle].engine = "none"
  <2>1. coroutines' = Moved(c, "building")
    BY <1>5 DEF Ensure
  <2> QED BY <2>1, <1>3, <1>4, <1>5, MovedOn
<1>6. CASE handles[c.handle].engine = "up"
  <2>1. coroutines' = Moved(c, "running")
    BY <1>6 DEF Ensure
  <2> QED BY <2>1, <1>3, <1>4, <1>6, MovedOn
<1> QED BY <1>2, <1>5, <1>6

(* A build is over: the handle's engine is up, built once (_ensure_engine).  *)
LEMMA BuiltKeeps == ASSUME SidecarInv, NEW c \in coroutines, Built(c) PROVE SidecarInv'
<1>1. c \in Coroutine /\ CoroutineInv(c) /\ handles \in Seq(EngineHandle)
  BY DEF SidecarInv, SidecarType
<1>2. PICK o : o = handles[c.handle]
  OBVIOUS
<1>3. c.at = "building" /\ c.handle \in DOMAIN handles /\ o.engine = "none" /\ ~o.dead /\ o \in EngineHandle
  BY <1>1, <1>2 DEF Built, CoroutineInv
<1>4. PICK m : m = [o EXCEPT !.engine = "up"]
  OBVIOUS
<1>5. m \in EngineHandle /\ m.engine = "up" /\ m.builds = o.builds /\ ~m.dead
  BY <1>3, <1>4 DEF EngineHandle
<1>6. PICK n : n = [m EXCEPT !.builds = @ + 1]
  OBVIOUS
<1>7. n \in EngineHandle /\ n.engine = "up" /\ n.builds = o.builds + 1 /\ ~n.dead
  BY <1>5, <1>6 DEF EngineHandle
<1>8. handles' = [handles EXCEPT ![c.handle] = n]
  <2>1. PICK a : a = [handles EXCEPT ![c.handle].engine = "up"]
    OBVIOUS
  <2>2. a[c.handle] = m /\ a = [handles EXCEPT ![c.handle] = m]
    BY <2>1, <1>1, <1>2, <1>3, <1>4
  <2>3. handles' = [a EXCEPT ![c.handle].builds = handles[c.handle].builds + 1]
    BY <2>1 DEF Built
  <2>4. n = [m EXCEPT !.builds = handles[c.handle].builds + 1]
    BY <1>2, <1>5, <1>6
  <2> QED BY <2>2, <2>3, <2>4
<1>9. handles' \in Seq(EngineHandle) /\ DOMAIN handles' = DOMAIN handles
      /\ handles'[c.handle] = n /\ \A k \in DOMAIN handles : k # c.handle => handles'[k] = handles[k]
  BY <1>1, <1>3, <1>7, <1>8
<1>10. coroutines' = Moved(c, "running") /\ UNCHANGED <<holder, current, setups, generations>>
  BY DEF Built
<1> QED BY <1>2, <1>3, <1>7, <1>9, <1>10, MovedOn

(* A coroutine ends: who waits for it has its outcome and keeps the handle,  *)
(* or lets it go with a failed setup.                                        *)
LEMMA EndKeeps ==
  ASSUME SidecarInv, NEW c \in coroutines, NEW ok \in BOOLEAN, Ends(c, ok),
         ok => c.at = "running"
  PROVE  SidecarInv'
<1> DEFINE waits == holder[c.by].on = c.id
<1>1. c \in Coroutine /\ CoroutineInv(c) /\ HolderInv(c.by) /\ c.by \in Instances /\ holder[c.by] \in Holder
  BY DEF SidecarInv, SidecarType, Coroutine
<1>2. /\ coroutines' = coroutines \ {c} /\ UNCHANGED <<current, setups, generations>>
      /\ \E where : handles' = released(c.handle, holder', coroutines', where, c.by)
  BY DEF Ends
<1>3. PICK failed : failed = [at |-> "failed", handle |-> 0, on |-> 0]
  OBVIOUS
<1>4. failed \in Holder /\ failed.at = "failed" /\ failed.handle = 0 /\ failed.on = 0
  BY <1>3 DEF Holder
<1>5. PICK o : o = holder[c.by]
  OBVIOUS
<1>6. PICK m : m = [o EXCEPT !.at = "ready"]
  OBVIOUS
<1>7. m \in Holder /\ m.at = "ready" /\ m.handle = o.handle
  BY <1>1, <1>5, <1>6 DEF Holder
<1>8. PICK n : n = [m EXCEPT !.on = 0]
  OBVIOUS
<1>9. n \in Holder /\ n.at = "ready" /\ n.handle = o.handle /\ n.on = 0
  BY <1>7, <1>8 DEF Holder
<1>10. CASE ~waits
  <2>1. holder' = holder
    BY <1>10 DEF Ends
  <2> QED BY <2>1, <1>1, <1>2, LettingGo, SidecarAssumption DEF SidecarInv, SidecarType, CoroutineInv
<1>11. CASE waits /\ (ok \/ c.kind = "generate")
  <2>1. holder' = [holder EXCEPT ![c.by].at = "ready", ![c.by].on = 0]
    BY <1>11 DEF Ends
  <2>2. holder' = [holder EXCEPT ![c.by] = n]
    BY <2>1, <1>5, <1>6, <1>8
  <2>3. o.handle # 0 /\ handles[o.handle].engine = "up"
    BY <1>1, <1>5, <1>11 DEF HolderInv, CoroutineInv
  <2>4. holder' \in [Instances -> Holder]
    BY <2>2, <1>9 DEF SidecarInv, SidecarType
  <2>5. \A d \in Instances :
            \/ holder'[d] = holder[d]
            \/ /\ holder'[d].at = "ready" /\ holder'[d].on = 0 /\ holder'[d].handle = holder[d].handle
               /\ holder[d].handle # 0 /\ handles[holder[d].handle].engine = "up"
    BY <2>2, <2>3, <1>1, <1>5, <1>9 DEF SidecarInv, SidecarType
  <2> QED BY <2>4, <2>5, <1>1, <1>2, LettingGo, SidecarAssumption DEF CoroutineInv
<1>12. CASE waits /\ ~(ok \/ c.kind = "generate")
  <2>1. holder' = [holder EXCEPT ![c.by] = failed]
    BY <1>3, <1>12 DEF Ends
  <2>2. holder' \in [Instances -> Holder]
    BY <2>1, <1>4 DEF SidecarInv, SidecarType
  <2>3. \A d \in Instances :
            \/ holder'[d] = holder[d]
            \/ holder'[d].at \in {"off", "failed"} /\ holder'[d].handle = 0 /\ holder'[d].on = 0
    BY <2>1, <1>4 DEF SidecarInv, SidecarType
  <2> QED BY <2>2, <2>3, <1>1, <1>2, LettingGo, SidecarAssumption DEF CoroutineInv
<1> QED BY <1>10, <1>11, <1>12

(* A deadline or a teardown: the instance lets go of its handle.             *)
LEMMA DropKeeps ==
  ASSUME SidecarInv, NEW d \in Instances, NEW r, r \in Holder,
         r.at \in {"off", "failed"}, r.handle = 0, r.on = 0,
         holder' = [holder EXCEPT ![d] = r],
         UNCHANGED <<current, coroutines, setups, generations>>,
         IF holder[d].handle = 0 THEN handles' = handles
         ELSE \E where : handles' = released(holder[d].handle, holder', coroutines', where, d)
  PROVE  SidecarInv'
<1>1. HolderInv(d)
  BY DEF SidecarInv
<1>2. holder' \in [Instances -> Holder]
  BY DEF SidecarInv, SidecarType
<1>3. \A e \in Instances :
            \/ holder'[e] = holder[e]
            \/ holder'[e].at \in {"off", "failed"} /\ holder'[e].handle = 0 /\ holder'[e].on = 0
  BY DEF SidecarInv, SidecarType
<1> QED BY <1>1, <1>2, <1>3, LettingGo, SidecarAssumption DEF HolderInv

(* The probe of a setup runs out of time: setup raises.                      *)
LEMMA ProbeTimeoutKeeps == ASSUME SidecarInv, NEW d \in Instances, ProbeTimesOut(d) PROVE SidecarInv'
<1>1. PICK r : r = [at |-> "failed", handle |-> 0, on |-> 0]
  OBVIOUS
<1>2. r \in Holder /\ r.at = "failed" /\ r.handle = 0 /\ r.on = 0
  BY <1>1 DEF Holder
<1>3. /\ holder' = [holder EXCEPT ![d] = r]
      /\ UNCHANGED <<current, coroutines, setups, generations>>
      /\ handles' = released(holder[d].handle, holder', coroutines', "setup thread", d)
      /\ holder[d].handle # 0
  BY <1>1 DEF ProbeTimesOut, SidecarInv, HolderInv
<1> QED BY <1>2, <1>3, DropKeeps

(* An instance is torn down: teardown, release.                              *)
LEMMA TeardownKeeps == ASSUME SidecarInv, NEW d \in Instances, Teardown(d) PROVE SidecarInv'
<1>1. PICK r : r = [at |-> "off", handle |-> 0, on |-> 0]
  OBVIOUS
<1>2. r \in Holder /\ r.at = "off" /\ r.handle = 0 /\ r.on = 0
  BY <1>1 DEF Holder
<1>3. /\ holder' = [holder EXCEPT ![d] = r]
      /\ UNCHANGED <<current, coroutines, setups, generations>>
      /\ handles' = IF holder[d].handle = 0 THEN handles
                    ELSE released(holder[d].handle, holder', coroutines', "bundle thread", d)
  BY <1>1 DEF Teardown
<1> QED BY <1>2, <1>3, DropKeeps

(* The shut-down of a dead handle is over: _shutdown_engine returns.         *)
LEMMA ShutDownKeeps == ASSUME SidecarInv, NEW h \in DOMAIN handles, ShutDown(h) PROVE SidecarInv'
<1>1. UNCHANGED <<holder, current, coroutines, setups, generations>>
  BY DEF ShutDown
<1>2. holder \in [Instances -> Holder]
  BY DEF SidecarInv, SidecarType
<1>3. holder' \in [Instances -> Holder] /\ coroutines' \subseteq coroutines
  BY <1>1, <1>2
<1>4. HandlesStand(handles') /\ \A k \in DOMAIN handles : ~handles[k].dead => handles'[k] = handles[k]
  BY ShutDownShape
<1>5. ASSUME NEW k \in DOMAIN handles, Held(k, holder', coroutines') PROVE handles'[k] = handles[k]
  <2>1. k # 0 /\ Held(k, holder, coroutines)
    BY <1>1, <1>5 DEF Held, SidecarInv, SidecarType
  <2>2. ~handles[k].dead
    BY <2>1 DEF Held, SidecarInv, HolderInv, CoroutineInv
  <2> QED BY <2>2, <1>4
<1>6. \A d \in Instances :
            \/ holder'[d] = holder[d]
            \/ holder'[d].at \in {"off", "failed"} /\ holder'[d].handle = 0 /\ holder'[d].on = 0
  BY <1>1
<1> QED BY <1>1, <1>3, <1>4, <1>5, <1>6, HoldersMove, SidecarAssumption

(* wait_for: the request is given up, its handle is kept.                    *)
LEMMA RequestTimeoutKeeps == ASSUME SidecarInv, NEW d \in Instances, RequestTimesOut(d) PROVE SidecarInv'
<1>1. PICK o : o = holder[d]
  OBVIOUS
<1>2. PICK m : m = [o EXCEPT !.at = "ready"]
  OBVIOUS
<1>3. PICK n : n = [m EXCEPT !.on = 0]
  OBVIOUS
<1>4. o \in Holder /\ HolderInv(d) /\ o.at = "waiting"
  BY <1>1 DEF SidecarInv, SidecarType, RequestTimesOut
<1>5. m \in Holder /\ m.at = "ready" /\ m.handle = o.handle
  BY <1>2, <1>4 DEF Holder
<1>6. n \in Holder /\ n.at = "ready" /\ n.handle = o.handle /\ n.on = 0
  BY <1>3, <1>5 DEF Holder
<1>7. holder' = [holder EXCEPT ![d] = n]
  BY <1>1, <1>2, <1>3 DEF RequestTimesOut
<1>8. o.handle # 0 /\ handles[o.handle].engine = "up"
  BY <1>1, <1>4 DEF HolderInv
<1>9. holder' \in [Instances -> Holder]
  BY <1>6, <1>7 DEF SidecarInv, SidecarType
<1>10. \A e \in Instances :
            \/ holder'[e] = holder[e]
            \/ /\ holder'[e].at = "ready" /\ holder'[e].on = 0 /\ holder'[e].handle = holder[e].handle
               /\ holder[e].handle # 0 /\ handles[holder[e].handle].engine = "up"
  BY <1>1, <1>6, <1>7, <1>8 DEF SidecarInv, SidecarType
<1>11. handles' = handles /\ UNCHANGED <<current, coroutines, setups, generations>>
  BY DEF RequestTimesOut
<1> QED BY <1>9, <1>10, <1>11, LettingGo, SidecarAssumption

(* Every step of the instances and of the shared loop keeps the invariant.   *)
LEMMA SidecarKeeps == SidecarInv /\ [SidecarNext]_sidecarVars => SidecarInv'
<1> SUFFICES ASSUME SidecarInv, [SidecarNext]_sidecarVars PROVE SidecarInv'
  OBVIOUS
<1>1. ASSUME NEW d \in Instances,
             Setup(d) \/ Complete(d) \/ ProbeTimesOut(d) \/ RequestTimesOut(d) \/ Teardown(d)
      PROVE  SidecarInv'
  BY <1>1, SetupKeeps, CompleteKeeps, ProbeTimeoutKeeps, RequestTimeoutKeeps, TeardownKeeps
<1>2. ASSUME NEW c \in coroutines,
             Ensure(c) \/ Built(c) \/ Answered(c) \/ BuildRaises(c) \/ EngineRaises(c)
      PROVE  SidecarInv'
  <2>1. CASE Ensure(c) \/ Built(c)
    BY <2>1, EnsureKeeps, BuiltKeeps
  <2>2. CASE Answered(c)
    <3>1. Ends(c, TRUE) /\ c.at = "running"
      BY <2>2 DEF Answered
    <3>3. PICK ok \in BOOLEAN : ok = TRUE
      OBVIOUS
    <3>4. Ends(c, ok)
      BY <3>1, <3>3
    <3>5. ok => c.at = "running"
      BY <3>1
    <3> QED BY <3>4, <3>5, EndKeeps
  <2>3. CASE BuildRaises(c)
    BY <2>3, EndKeeps DEF BuildRaises
  <2>4. CASE EngineRaises(c)
    BY <2>4, EndKeeps DEF EngineRaises
  <2> QED BY <1>2, <2>1, <2>2, <2>3, <2>4
<1>3. ASSUME NEW h \in DOMAIN handles, ShutDown(h) PROVE SidecarInv'
  BY <1>3, ShutDownKeeps
<1>4. CASE UNCHANGED sidecarVars
  <2>1. \A d \in Instances : HolderInv(d)'
    BY <1>4 DEF sidecarVars, SidecarInv, HolderInv, Drawn
  <2>2. \A c \in coroutines' : CoroutineInv(c)'
    BY <1>4 DEF sidecarVars, SidecarInv, CoroutineInv, Drawn
  <2>3. SidecarType'
    BY <1>4 DEF sidecarVars, SidecarInv, SidecarType
  <2> QED BY <2>1, <2>2, <2>3, <1>4 DEF sidecarVars, SidecarInv
<1> QED BY <1>1, <1>2, <1>3, <1>4 DEF SidecarNext

(* One engine serves: the living handle is the one Shared remembers.         *)
LEMMA SidecarServes == SidecarInv => OneEngineServes
<1> SUFFICES ASSUME SidecarInv PROVE OneEngineServes
  OBVIOUS
<1>1. BuiltOnce
  BY DEF SidecarInv, BuiltOnce
<1>2. OneLiveHandle
  <2> DEFINE alive == {h \in DOMAIN handles : ~handles[h].dead}
  <2>1. alive \subseteq {current}
    BY DEF SidecarInv
  <2>2. IsFiniteSet({current}) /\ Cardinality({current}) = 1
    BY FS_Singleton
  <2>3. Cardinality(alive) <= Cardinality({current})
    BY <2>1, <2>2, FS_Subset
  <2> QED BY <2>2, <2>3 DEF OneLiveHandle
<1>3. HeldEngineIsUp
  BY DEF SidecarInv, HolderInv, HeldEngineIsUp
<1> QED BY <1>1, <1>2, <1>3 DEF OneEngineServes

(* Through any setups, deadlines and teardowns the instances of a process    *)
(* share one live handle, its engine is built once, and whoever is ready or  *)
(* waits for an answer finds it up (model/vllm.py, _EngineHandle).           *)
THEOREM OneEngineIsUp == SidecarInit /\ [][SidecarNext]_sidecarVars => []OneEngineServes
  BY SidecarStarts, SidecarKeeps, SidecarServes, PTL

-----------------------------------------------------------------------------
(* The async bridge.  What the loop's queue holds of a run, and in which     *)
(* order, says how far the run is.                                           *)
Run == [for : {"build", "activation", "hook", "close"},
        future : {"pending", "cancelled", "returned", "raised", "timeout_error", ""},
        chained : BOOLEAN, holder : BOOLEAN, task : {"none", "ready", "parked", "done"},
        told : BOOLEAN, deaf : BOOLEAN, work : Nat,
        ends : {"", "cancelled", "returned", "raised", "timeout_error"},
        said : {"", "returned", "raised", "timeout"},
        graced : BOOLEAN, untasked : BOOLEAN, raced : BOOLEAN]

LoopHandle == [do : {"submit", "wrapper", "step", "cancel", "settle"}, run : Nat] \cup [do : {"stop"}, run : {0}]

Waiting == {"waiting", "expired", "draining", "untasked"}
Beam == [at : {"off", "idle", "stopping", "joining", "closed", "failed"} \cup Waiting, run : Nat]

BridgeType ==
    /\ runs \in Seq(Run) /\ ready \in Seq(LoopHandle)
    /\ \A i \in DOMAIN ready : ready[i].run \in DOMAIN runs \/ ready[i] = Handle("stop", 0)
    /\ beam.at \in Waiting => beam.run \in DOMAIN runs /\ runs[beam.run].said = ""
    /\ beam \in Beam

Driving == {"submit", "wrapper", "step"}

\* One handle at most drives a run on, and says where the run is.
DrivenOnce(n) ==
    \A i, j \in DOMAIN ready :
        ready[i].run = n /\ ready[j].run = n /\ ready[i].do \in Driving /\ ready[j].do \in Driving
            => i = j

Place(n) ==
    LET r == runs[n] IN
    /\ Queued("submit", n) <=> ~r.chained
    /\ Queued("wrapper", n) <=> r.chained /\ r.task = "none"
    /\ Queued("step", n) => r.task = "ready"
    /\ Queued("settle", n) => r.task = "done"
    /\ Queued("cancel", n) => r.chained
    /\ ~r.chained => r.task = "none"
    /\ r.holder <=> r.task # "none"
    /\ r.task = "none" => r.work = 0

\* A cancellation is never taken before the task it is for exists.
CancelAfterWrapper(n) ==
    \A i, j \in DOMAIN ready :
        ready[i] = Handle("wrapper", n) /\ ready[j] = Handle("cancel", n) => i < j

\* A cancellation that comes before the coroutine's first step.
CancelBeforeStep(n) ==
    \E j \in DOMAIN ready : /\ ready[j] = Handle("cancel", n)
                            /\ \A i \in DOMAIN ready : ready[i] = Handle("step", n) => j < i

ToBeCancelled(n) == runs[n].future = "cancelled" /\ Queued("submit", n)

GaveUpOn(n) == runs[n].said = "timeout" \/ (beam.at = "draining" /\ beam.run = n)

Outcome(n) ==
    LET r == runs[n] IN
    /\ r.future # "pending" => r.task = "done" \/ r.said # ""
    /\ GaveUpOn(n) => r.task = "done" \/ r.told \/ r.deaf \/ Queued("cancel", n) \/ ToBeCancelled(n)
    /\ r.said # "" => r.task = "done" \/ r.graced \/ r.raced \/ r.untasked
    /\ r.untasked =>
           /\ r.work = 0
           /\ r.task = "done" \/ r.told \/ ToBeCancelled(n) \/ CancelBeforeStep(n)

RunInv(n) == DrivenOnce(n) /\ Place(n) /\ CancelAfterWrapper(n) /\ Outcome(n)

BridgeInv == BridgeType /\ \A n \in DOMAIN runs : RunInv(n)

\* The queue's head is taken when taken is 1, and the handles hs are added.
Moves(taken, hs) ==
    /\ Len(ready') = Len(ready) - taken + Len(hs)
    /\ \A i \in 1..Len(ready) - taken : ready'[i] = ready[i + taken]
    /\ \A k \in 1..Len(hs) : ready'[Len(ready) - taken + k] = hs[k]

(* A bridge starts with an empty queue and no run: BridgeInit.               *)
LEMMA BridgeStarts == BridgeInit => BridgeInv
  BY DEF BridgeInit, BridgeInv, BridgeType, Beam, Waiting

(* call_soon_threadsafe appends a handle to the loop's queue.                *)
LEMMA AddMoves ==
  ASSUME ready \in Seq(LoopHandle), NEW h \in LoopHandle, ready' = Append(ready, h)
  PROVE  ready' \in Seq(LoopHandle) /\ Moves(0, <<h>>)
<1>1. /\ ready' \in Seq(LoopHandle) /\ Len(ready') = Len(ready) + 1
      /\ \A i \in 1..Len(ready) : ready'[i] = ready[i]
      /\ ready'[Len(ready) + 1] = h
  OBVIOUS
<1>2. Len(ready) \in Nat /\ Len(<<h>>) = 1 /\ <<h>>[1] = h
  OBVIOUS
<1> QED BY <1>1, <1>2 DEF Moves

(* The loop takes the first handle, and what it runs may queue more.         *)
LEMMA TakeMoves ==
  ASSUME ready \in Seq(LoopHandle), ready # <<>>, NEW hs \in Seq(LoopHandle),
         ready' = Tail(ready) \o hs
  PROVE  ready' \in Seq(LoopHandle) /\ Moves(1, hs) /\ 1 \in DOMAIN ready /\ Head(ready) = ready[1]
<1>1. /\ Tail(ready) \in Seq(LoopHandle) /\ Len(Tail(ready)) = Len(ready) - 1
      /\ \A i \in 1..Len(ready) - 1 : Tail(ready)[i] = ready[i + 1]
      /\ Len(ready) \in Nat \ {0}
  OBVIOUS
<1>2. PICK t : t = Tail(ready)
  OBVIOUS
<1>3. /\ t \o hs \in Seq(LoopHandle) /\ Len(t \o hs) = Len(t) + Len(hs)
      /\ \A i \in 1..Len(t) : (t \o hs)[i] = t[i]
      /\ \A k \in 1..Len(hs) : (t \o hs)[Len(t) + k] = hs[k]
  BY <1>1, <1>2
<1> QED BY <1>1, <1>2, <1>3 DEF Moves

(* A step that leaves the queue alone.                                       *)
LEMMA StillMoves ==
  ASSUME ready \in Seq(LoopHandle), ready' = ready
  PROVE  ready' \in Seq(LoopHandle) /\ Moves(0, <<>>)
  BY DEF Moves

(* The handles of a run the loop does not touch keep their order, and with   *)
(* it what they say of the run.                                              *)
LEMMA RunUntouched ==
  ASSUME ready \in Seq(LoopHandle), ready' \in Seq(LoopHandle), NEW taken \in {0, 1},
         NEW hs \in Seq(LoopHandle), Moves(taken, hs), taken <= Len(ready),
         NEW n, RunInv(n), runs'[n] = runs[n],
         GaveUpOn(n)' => GaveUpOn(n),
         taken = 1 => ready[1].run # n,
         \A k \in 1..Len(hs) : hs[k].run # n
  PROVE  RunInv(n)'
<1>1. /\ Len(ready) \in Nat /\ Len(ready') \in Nat /\ Len(hs) \in Nat
      /\ DOMAIN ready = 1..Len(ready) /\ DOMAIN ready' = 1..Len(ready')
  OBVIOUS
<1>2. \A j \in DOMAIN ready' : ready'[j].run = n =>
            j + taken \in DOMAIN ready /\ ready[j + taken] = ready'[j]
  <2> SUFFICES ASSUME NEW j \in DOMAIN ready', ready'[j].run = n
               PROVE  j + taken \in DOMAIN ready /\ ready[j + taken] = ready'[j]
    OBVIOUS
  <2>1. CASE j \in 1..Len(ready) - taken
    <3>1. ready'[j] = ready[j + taken]
      BY <2>1 DEF Moves
    <3>2. j + taken \in 1..Len(ready)
      BY <2>1, <1>1
    <3> QED BY <3>1, <3>2, <1>1
  <2>2. CASE j \notin 1..Len(ready) - taken
    <3>1. PICK k \in 1..Len(hs) : j = Len(ready) - taken + k
      <4>1. j - (Len(ready) - taken) \in 1..Len(hs) /\ j = Len(ready) - taken + (j - (Len(ready) - taken))
        BY <2>2, <1>1 DEF Moves
      <4> QED BY <4>1
    <3> QED BY <3>1 DEF Moves
  <2> QED BY <2>1, <2>2
<1>3. \A i \in DOMAIN ready : ready[i].run = n =>
            i - taken \in DOMAIN ready' /\ ready'[i - taken] = ready[i]
  <2> SUFFICES ASSUME NEW i \in DOMAIN ready, ready[i].run = n
               PROVE  i - taken \in DOMAIN ready' /\ ready'[i - taken] = ready[i]
    OBVIOUS
  <2>1. i - taken \in 1..Len(ready) - taken /\ (i - taken) + taken = i
    BY <1>1
  <2> QED BY <2>1, <1>1 DEF Moves
<1>4. \A do : Handle(do, n).run = n /\ Handle(do, n).do = do
  BY DEF Handle
<1>5. \A do : Queued(do, n)' <=> Queued(do, n)
  BY <1>2, <1>3, <1>4, SMTT(30) DEF Queued
<1>6. DrivenOnce(n)'
  BY <1>1, <1>2 DEF DrivenOnce, RunInv
<1>7. CancelAfterWrapper(n)'
  <2> SUFFICES ASSUME NEW i \in DOMAIN ready', NEW j \in DOMAIN ready',
                      ready'[i] = Handle("wrapper", n), ready'[j] = Handle("cancel", n)
               PROVE  i < j
    BY DEF CancelAfterWrapper
  <2>1. i + taken \in DOMAIN ready /\ ready[i + taken] = Handle("wrapper", n)
    BY <1>2, <1>4
  <2>2. j + taken \in DOMAIN ready /\ ready[j + taken] = Handle("cancel", n)
    BY <1>2, <1>4
  <2>3. i + taken < j + taken
    BY <2>1, <2>2 DEF CancelAfterWrapper, RunInv
  <2>4. i \in Nat /\ j \in Nat
    BY <1>1
  <2> QED BY <2>3, <2>4
<1>8. CancelBeforeStep(n) => CancelBeforeStep(n)'
  <2> SUFFICES ASSUME CancelBeforeStep(n) PROVE CancelBeforeStep(n)'
    OBVIOUS
  <2>1. PICK j \in DOMAIN ready : /\ ready[j] = Handle("cancel", n)
                                  /\ \A i \in DOMAIN ready : ready[i] = Handle("step", n) => j < i
    BY DEF CancelBeforeStep
  <2>2. j - taken \in DOMAIN ready' /\ ready'[j - taken] = Handle("cancel", n)
    BY <2>1, <1>3, <1>4
  <2>3. \A i \in DOMAIN ready' : ready'[i] = Handle("step", n) => j - taken < i
    BY <2>1, <1>1, <1>2, <1>4
  <2> QED BY <2>2, <2>3 DEF CancelBeforeStep
<1>9. Place(n)'
  BY <1>5 DEF Place, RunInv
<1>10. Outcome(n)'
  BY <1>5, <1>8 DEF Outcome, RunInv, ToBeCancelled
<1> QED BY <1>6, <1>7, <1>9, <1>10 DEF RunInv

\* Where every handle of the queue comes from and goes.
QueueMoved(taken, hs) ==
    /\ \A j \in DOMAIN ready' :
          \/ j + taken \in DOMAIN ready /\ ready'[j] = ready[j + taken]
          \/ \E k \in 1..Len(hs) : j = Len(ready) - taken + k /\ ready'[j] = hs[k]
    /\ \A i \in DOMAIN ready : i > taken => i - taken \in DOMAIN ready' /\ ready'[i - taken] = ready[i]
    /\ \A k \in 1..Len(hs) :
          Len(ready) - taken + k \in DOMAIN ready' /\ ready'[Len(ready) - taken + k] = hs[k]
    /\ Len(ready) \in Nat /\ Len(hs) \in Nat /\ DOMAIN ready = 1..Len(ready)
    /\ DOMAIN ready' \subseteq Nat \ {0}

(* A handle of the queue was there before or was added behind the others.    *)
LEMMA QueueShape ==
  ASSUME ready \in Seq(LoopHandle), ready' \in Seq(LoopHandle), NEW taken \in {0, 1},
         NEW hs \in Seq(LoopHandle), Moves(taken, hs), taken <= Len(ready)
  PROVE  QueueMoved(taken, hs)
<1>1. /\ Len(ready) \in Nat /\ Len(ready') \in Nat /\ Len(hs) \in Nat
      /\ DOMAIN ready = 1..Len(ready) /\ DOMAIN ready' = 1..Len(ready')
  OBVIOUS
<1>2. ASSUME NEW j \in DOMAIN ready'
      PROVE  \/ j + taken \in DOMAIN ready /\ ready'[j] = ready[j + taken]
             \/ \E k \in 1..Len(hs) : j = Len(ready) - taken + k /\ ready'[j] = hs[k]
  <2>1. CASE j \in 1..Len(ready) - taken
    <3>1. j + taken \in 1..Len(ready)
      BY <2>1, <1>1
    <3> QED BY <3>1, <2>1, <1>1 DEF Moves
  <2>2. CASE j \notin 1..Len(ready) - taken
    <3>1. j - (Len(ready) - taken) \in 1..Len(hs) /\ j = Len(ready) - taken + (j - (Len(ready) - taken))
      BY <2>2, <1>1 DEF Moves
    <3> QED BY <3>1 DEF Moves
  <2> QED BY <2>1, <2>2
<1>3. ASSUME NEW i \in DOMAIN ready, i > taken
      PROVE  i - taken \in DOMAIN ready' /\ ready'[i - taken] = ready[i]
  <2>1. i - taken \in 1..Len(ready) - taken /\ (i - taken) + taken = i
    BY <1>1, <1>3
  <2> QED BY <2>1, <1>1 DEF Moves
<1>4. \A k \in 1..Len(hs) : Len(ready) - taken + k \in DOMAIN ready' /\ ready'[Len(ready) - taken + k] = hs[k]
  BY <1>1 DEF Moves
<1> QED BY <1>1, <1>2, <1>3, <1>4 DEF QueueMoved

(* What is queued of a run after a move: what was left, and what was added.  *)
LEMMA QueuedMoves ==
  ASSUME ready \in Seq(LoopHandle), ready' \in Seq(LoopHandle), NEW taken \in {0, 1},
         NEW hs \in Seq(LoopHandle), Moves(taken, hs), taken <= Len(ready), NEW n, NEW do
  PROVE  Queued(do, n)' <=> \/ \E i \in DOMAIN ready : i > taken /\ ready[i] = Handle(do, n)
                            \/ \E k \in 1..Len(hs) : hs[k] = Handle(do, n)
<1>0. QueueMoved(taken, hs)
  BY QueueShape
<1>1. ASSUME Queued(do, n)'
      PROVE  \/ \E i \in DOMAIN ready : i > taken /\ ready[i] = Handle(do, n)
             \/ \E k \in 1..Len(hs) : hs[k] = Handle(do, n)
  <2>1. PICK j \in DOMAIN ready' : ready'[j] = Handle(do, n)
    BY <1>1 DEF Queued
  <2>2. j \in Nat \ {0}
    BY <1>0 DEF QueueMoved
  <2>3. CASE j + taken \in DOMAIN ready /\ ready'[j] = ready[j + taken]
    BY <2>1, <2>2, <2>3
  <2>4. CASE \E k \in 1..Len(hs) : j = Len(ready) - taken + k /\ ready'[j] = hs[k]
    BY <2>1, <2>4
  <2> QED BY <2>3, <2>4, <1>0 DEF QueueMoved
<1>2. ASSUME NEW i \in DOMAIN ready, i > taken, ready[i] = Handle(do, n) PROVE Queued(do, n)'
  BY <1>2, <1>0 DEF QueueMoved, Queued
<1>3. ASSUME NEW k \in 1..Len(hs), hs[k] = Handle(do, n) PROVE Queued(do, n)'
  <2>1. Len(ready) - taken + k \in DOMAIN ready' /\ ready'[Len(ready) - taken + k] = Handle(do, n)
    BY <1>3, <1>0 DEF QueueMoved
  <2> QED BY <2>1 DEF Queued
<1> QED BY <1>1, <1>2, <1>3

(* A run is driven once if what drove it is taken before it is driven anew.  *)
LEMMA DrivenMoves ==
  ASSUME ready \in Seq(LoopHandle), ready' \in Seq(LoopHandle), NEW taken \in {0, 1},
         NEW hs \in Seq(LoopHandle), Moves(taken, hs), taken <= Len(ready), NEW n, DrivenOnce(n),
         \/ \A k \in 1..Len(hs) : hs[k].do \notin Driving
         \/ /\ \A i \in DOMAIN ready : i > taken /\ ready[i].run = n => ready[i].do \notin Driving
            /\ \A k, l \in 1..Len(hs) : hs[k].do \in Driving /\ hs[l].do \in Driving => k = l
  PROVE  DrivenOnce(n)'
<1>0. QueueMoved(taken, hs)
  BY QueueShape
<1> SUFFICES ASSUME NEW i \in DOMAIN ready', NEW j \in DOMAIN ready',
                    ready'[i].run = n, ready'[j].run = n,
                    ready'[i].do \in Driving, ready'[j].do \in Driving
             PROVE  i = j
  BY DEF DrivenOnce
<1>1. /\ Len(ready) \in Nat /\ Len(hs) \in Nat /\ i \in Nat \ {0} /\ j \in Nat \ {0}
      /\ DOMAIN ready \subseteq Nat
  BY <1>0 DEF QueueMoved
<1>2. \/ i + taken \in DOMAIN ready /\ ready'[i] = ready[i + taken]
      \/ \E k \in 1..Len(hs) : i = Len(ready) - taken + k /\ ready'[i] = hs[k]
  BY <1>0 DEF QueueMoved
<1>3. \/ j + taken \in DOMAIN ready /\ ready'[j] = ready[j + taken]
      \/ \E k \in 1..Len(hs) : j = Len(ready) - taken + k /\ ready'[j] = hs[k]
  BY <1>0 DEF QueueMoved
<1>4. CASE \A k \in 1..Len(hs) : hs[k].do \notin Driving
  <2>1. /\ i + taken \in DOMAIN ready /\ ready'[i] = ready[i + taken]
        /\ j + taken \in DOMAIN ready /\ ready'[j] = ready[j + taken]
    BY <1>2, <1>3, <1>4
  <2>2. i + taken = j + taken
    BY <2>1 DEF DrivenOnce
  <2> QED BY <2>2, <1>1
<1>5. CASE /\ \A m \in DOMAIN ready : m > taken /\ ready[m].run = n => ready[m].do \notin Driving
           /\ \A k, l \in 1..Len(hs) : hs[k].do \in Driving /\ hs[l].do \in Driving => k = l
  <2>1. i + taken > taken /\ j + taken > taken
    BY <1>1
  <2>2. PICK k \in 1..Len(hs) : i = Len(ready) - taken + k /\ ready'[i] = hs[k]
    BY <2>1, <1>2, <1>5
  <2>3. PICK l \in 1..Len(hs) : j = Len(ready) - taken + l /\ ready'[j] = hs[l]
    BY <2>1, <1>3, <1>5
  <2> QED BY <2>2, <2>3, <1>5
<1> QED BY <1>4, <1>5

(* No cancellation overtakes the wrapper's first turn while no new wrapper   *)
(* is queued.                                                                *)
LEMMA CancelsStay ==
  ASSUME ready \in Seq(LoopHandle), ready' \in Seq(LoopHandle), NEW taken \in {0, 1},
         NEW hs \in Seq(LoopHandle), Moves(taken, hs), taken <= Len(ready), NEW n,
         CancelAfterWrapper(n), \A k \in 1..Len(hs) : hs[k].do # "wrapper"
  PROVE  CancelAfterWrapper(n)'
<1>0. QueueMoved(taken, hs)
  BY QueueShape
<1> SUFFICES ASSUME NEW i \in DOMAIN ready', NEW j \in DOMAIN ready',
                    ready'[i] = Handle("wrapper", n), ready'[j] = Handle("cancel", n)
             PROVE  i < j
  BY DEF CancelAfterWrapper
<1>1. /\ Len(ready) \in Nat /\ i \in Nat \ {0} /\ j \in Nat \ {0} /\ DOMAIN ready = 1..Len(ready)
  BY <1>0 DEF QueueMoved
<1>2. i + taken \in DOMAIN ready /\ ready'[i] = ready[i + taken]
  <2>1. ready'[i].do = "wrapper"
    BY DEF Handle
  <2> QED BY <2>1, <1>0 DEF QueueMoved
<1>3. CASE j + taken \in DOMAIN ready /\ ready'[j] = ready[j + taken]
  <2>1. i + taken < j + taken
    BY <1>2, <1>3 DEF CancelAfterWrapper
  <2> QED BY <2>1, <1>1
<1>4. CASE \E k \in 1..Len(hs) : j = Len(ready) - taken + k /\ ready'[j] = hs[k]
  <2>1. PICK k \in 1..Len(hs) : j = Len(ready) - taken + k
    BY <1>4
  <2> QED BY <2>1, <1>1, <1>2, <1>0 DEF QueueMoved
<1> QED BY <1>3, <1>4, <1>0 DEF QueueMoved

(* A cancellation ahead of the first step stays ahead of it.                 *)
LEMMA CancelStaysAhead ==
  ASSUME ready \in Seq(LoopHandle), ready' \in Seq(LoopHandle), NEW taken \in {0, 1},
         NEW hs \in Seq(LoopHandle), Moves(taken, hs), taken <= Len(ready), NEW n,
         CancelBeforeStep(n), taken = 1 => ready[1] # Handle("cancel", n)
  PROVE  CancelBeforeStep(n)'
<1>0. QueueMoved(taken, hs)
  BY QueueShape
<1>1. PICK j \in DOMAIN ready : /\ ready[j] = Handle("cancel", n)
                                /\ \A i \in DOMAIN ready : ready[i] = Handle("step", n) => j < i
  BY DEF CancelBeforeStep
<1>2. /\ Len(ready) \in Nat /\ DOMAIN ready = 1..Len(ready) /\ DOMAIN ready' \subseteq Nat \ {0}
  BY <1>0 DEF QueueMoved
<1>3. j > taken
  BY <1>1, <1>2
<1>4. j - taken \in DOMAIN ready' /\ ready'[j - taken] = Handle("cancel", n)
  BY <1>1, <1>3, <1>0 DEF QueueMoved
<1>5. ASSUME NEW i \in DOMAIN ready', ready'[i] = Handle("step", n) PROVE j - taken < i
  <2>1. CASE i + taken \in DOMAIN ready /\ ready'[i] = ready[i + taken]
    <3>1. j < i + taken
      BY <2>1, <1>1, <1>5
    <3> QED BY <3>1, <1>2
  <2>2. CASE \E k \in 1..Len(hs) : i = Len(ready) - taken + k /\ ready'[i] = hs[k]
    <3>1. PICK k \in 1..Len(hs) : i = Len(ready) - taken + k
      BY <2>2
    <3> QED BY <3>1, <1>2
  <2> QED BY <2>1, <2>2, <1>0 DEF QueueMoved
<1> QED BY <1>4, <1>5 DEF CancelBeforeStep

(* A cancellation queued while no step is queued comes before it.            *)
LEMMA CancelGetsAhead ==
  ASSUME NEW n, Queued("cancel", n)', ~Queued("step", n)'
  PROVE  CancelBeforeStep(n)'
  BY DEF CancelBeforeStep, Queued

(* Nothing is taken of a queue of any length.                                *)
LEMMA NothingTaken == ASSUME NEW k \in Nat, NEW t, t = 0 PROVE t <= k /\ t # 1
OBVIOUS

(* A step that queues nothing.                                               *)
LEMMA EmptyList == ASSUME NEW S PROVE \E s \in Seq(S) : s = <<>> /\ 1..Len(s) = {}
<1>1. <<>> \in Seq(S) /\ Len(<<>>) = 0
  OBVIOUS
<1>2. 1..0 = {}
  OBVIOUS
<1> QED BY <1>1, <1>2

(* A step that queues one handle.                                            *)
LEMMA ListOfOne ==
  ASSUME NEW S, NEW h \in S
  PROVE  \E s \in Seq(S) : s = <<h>> /\ Len(s) = 1 /\ s[1] = h /\ 1..Len(s) = {1}
<1>1. PICK s : s = <<h>>
  OBVIOUS
<1>2. s \in Seq(S) /\ Len(s) = 1 /\ s[1] = h
  BY <1>1
<1>3. 1..Len(s) = {1}
  BY <1>2
<1> QED BY <1>1, <1>2, <1>3

(* The elements of a list and their numbers.                                 *)
LEMMA ListFacts ==
  ASSUME NEW S, NEW s \in Seq(S)
  PROVE  /\ Len(s) \in Nat /\ DOMAIN s = 1..Len(s) /\ s \in [DOMAIN s -> S] /\ DOMAIN s \subseteq Nat \ {0}
         /\ \A i \in DOMAIN s : s[i] \in S /\ i \in Nat
OBVIOUS

(* run appends a run to those before it.                                     *)
LEMMA ListAppended ==
  ASSUME NEW S, NEW s \in Seq(S), NEW e \in S, NEW n, n = Len(s) + 1
  PROVE  /\ Append(s, e) \in Seq(S) /\ DOMAIN Append(s, e) = DOMAIN s \cup {n}
         /\ Append(s, e)[n] = e /\ \A m \in DOMAIN s : Append(s, e)[m] = s[m]
         /\ n \in Nat /\ n # 0 /\ n \notin DOMAIN s
OBVIOUS

(* One run's record is replaced; the others stay.                            *)
LEMMA ListReplaced ==
  ASSUME NEW S, NEW s \in Seq(S), NEW n \in DOMAIN s, NEW e \in S
  PROVE  /\ [s EXCEPT ![n] = e] \in Seq(S) /\ DOMAIN [s EXCEPT ![n] = e] = DOMAIN s
         /\ [s EXCEPT ![n] = e][n] = e
         /\ \A m \in DOMAIN s : m # n => [s EXCEPT ![n] = e][m] = s[m]
OBVIOUS

(* One run moves on, with its handles: the others stand as they stood.       *)
LEMMA RunMoves ==
  ASSUME BridgeInv, ready' \in Seq(LoopHandle), NEW taken \in {0, 1}, NEW hs \in Seq(LoopHandle),
         Moves(taken, hs), taken <= Len(ready), NEW n \in DOMAIN runs, NEW r \in Run,
         runs' = [runs EXCEPT ![n] = r],
         taken = 1 => ready[1].run = n, \A k \in 1..Len(hs) : hs[k].run = n,
         \A m \in DOMAIN runs : m # n /\ GaveUpOn(m)' => GaveUpOn(m),
         beam' \in Beam,
         beam'.at \in Waiting => beam'.run \in DOMAIN runs' /\ runs'[beam'.run].said = "",
         RunInv(n)'
  PROVE  BridgeInv'
<1>1. BridgeType /\ ready \in Seq(LoopHandle) /\ runs \in Seq(Run)
  BY DEF BridgeInv, BridgeType
<1>2. runs' \in Seq(Run) /\ DOMAIN runs' = DOMAIN runs
      /\ \A m \in DOMAIN runs : m # n => runs'[m] = runs[m]
  BY <1>1, ListReplaced
<1>3. QueueMoved(taken, hs)
  BY <1>1, QueueShape
<1>4. \A i \in DOMAIN ready' : ready'[i].run \in DOMAIN runs' \/ ready'[i] = Handle("stop", 0)
  <2> SUFFICES ASSUME NEW i \in DOMAIN ready'
               PROVE  ready'[i].run \in DOMAIN runs' \/ ready'[i] = Handle("stop", 0)
    OBVIOUS
  <2>1. CASE i + taken \in DOMAIN ready /\ ready'[i] = ready[i + taken]
    BY <2>1, <1>1, <1>2 DEF BridgeType
  <2>2. CASE \E k \in 1..Len(hs) : ready'[i] = hs[k]
    BY <2>2, <1>2
  <2> QED BY <2>1, <2>2, <1>3 DEF QueueMoved
<1>5. BridgeType'
  BY <1>2, <1>4 DEF BridgeType
<1>6. ASSUME NEW m \in DOMAIN runs, m # n PROVE RunInv(m)'
  <2>1. RunInv(m) /\ runs'[m] = runs[m] /\ (GaveUpOn(m)' => GaveUpOn(m))
    BY <1>2, <1>6 DEF BridgeInv
  <2>2. (taken = 1 => ready[1].run # m) /\ \A k \in 1..Len(hs) : hs[k].run # m
    BY <1>6
  <2> QED BY <1>1, <2>1, <2>2, RunUntouched
<1> QED BY <1>2, <1>5, <1>6 DEF BridgeInv

(* The same for a step of the loop thread, which moves no run's caller.      *)
LEMMA LoopMoves ==
  ASSUME BridgeInv, ready # <<>>, NEW hs \in Seq(LoopHandle), ready' = Tail(ready) \o hs,
         NEW n \in DOMAIN runs, Head(ready).run = n, \A k \in 1..Len(hs) : hs[k].run = n,
         NEW r \in Run, runs' = [runs EXCEPT ![n] = r], r.said = runs[n].said,
         beam' = beam, RunInv(n)'
  PROVE  BridgeInv'
<1>1. BridgeType /\ ready \in Seq(LoopHandle) /\ runs \in Seq(Run) /\ beam \in Beam
  BY DEF BridgeInv, BridgeType
<1>2. ready' \in Seq(LoopHandle) /\ Moves(1, hs) /\ 1 \in DOMAIN ready /\ ready[1].run = n /\ 1 <= Len(ready)
  <2>1. Len(ready) \in Nat /\ Len(ready) # 0
    BY <1>1
  <2>2. ready' \in Seq(LoopHandle) /\ Moves(1, hs) /\ 1 \in DOMAIN ready /\ Head(ready) = ready[1]
    BY <1>1, TakeMoves
  <2> QED BY <2>1, <2>2
<1>3. DOMAIN runs' = DOMAIN runs /\ \A m \in DOMAIN runs : runs'[m].said = runs[m].said
  BY <1>1
<1>4. \A m \in DOMAIN runs : m # n /\ GaveUpOn(m)' => GaveUpOn(m)
  BY <1>3 DEF GaveUpOn
<1>5. beam' \in Beam /\ (beam'.at \in Waiting => beam'.run \in DOMAIN runs' /\ runs'[beam'.run].said = "")
  BY <1>1, <1>3 DEF BridgeType
<1>6. PICK taken \in {0, 1} : taken = 1
  OBVIOUS
<1>7. Moves(taken, hs) /\ taken <= Len(ready) /\ (taken = 1 => ready[1].run = n)
  BY <1>2, <1>6
<1> QED BY <1>2, <1>4, <1>5, <1>7, RunMoves

(* No run moves: the Beam thread goes on, or the loop takes a stop.          *)
LEMMA QuietMoves ==
  ASSUME BridgeInv, ready' \in Seq(LoopHandle), NEW taken \in {0, 1}, NEW hs \in Seq(LoopHandle),
         Moves(taken, hs), taken <= Len(ready), runs' = runs,
         taken = 1 => ready[1].run \notin DOMAIN runs, \A k \in 1..Len(hs) : hs[k] = Handle("stop", 0),
         \A m \in DOMAIN runs : GaveUpOn(m)' => GaveUpOn(m),
         beam' \in Beam,
         beam'.at \in Waiting => beam'.run \in DOMAIN runs /\ runs[beam'.run].said = ""
  PROVE  BridgeInv'
<1>1. BridgeType /\ ready \in Seq(LoopHandle) /\ runs \in Seq(Run)
  BY DEF BridgeInv, BridgeType
<1>2. DOMAIN runs \subseteq Nat \ {0} /\ Handle("stop", 0).run = 0
  <2>2. DOMAIN runs \subseteq Nat \ {0}
    BY <1>1, ListFacts
  <2>3. Handle("stop", 0).run = 0
    BY DEF Handle
  <2> QED BY <2>2, <2>3
<1>3. QueueMoved(taken, hs)
  BY <1>1, QueueShape
<1>4. \A i \in DOMAIN ready' : ready'[i].run \in DOMAIN runs \/ ready'[i] = Handle("stop", 0)
  BY <1>1, <1>3 DEF QueueMoved, BridgeType
<1>5. BridgeType'
  BY <1>1, <1>4 DEF BridgeType
<1>6. ASSUME NEW m \in DOMAIN runs PROVE RunInv(m)'
  <2>1. RunInv(m) /\ runs'[m] = runs[m] /\ (GaveUpOn(m)' => GaveUpOn(m))
    BY DEF BridgeInv
  <2>2. (taken = 1 => ready[1].run # m) /\ \A k \in 1..Len(hs) : hs[k].run # m
    BY <1>2
  <2> QED BY <1>1, <2>1, <2>2, RunUntouched
<1> QED BY <1>5, <1>6 DEF BridgeInv

(* Only the Beam thread moves.                                               *)
LEMMA BeamGoesOn ==
  ASSUME BridgeInv, ready' = ready, runs' = runs, beam' \in Beam,
         beam'.at = "draining" => beam'.run = beam.run /\ beam.at = "draining",
         beam'.at \in Waiting => beam'.run = beam.run /\ beam.at \in Waiting
  PROVE  BridgeInv'
<1>1. BridgeType /\ ready \in Seq(LoopHandle) /\ Len(ready) \in Nat
  <2>1. BridgeType /\ ready \in Seq(LoopHandle)
    BY DEF BridgeInv, BridgeType
  <2>2. Len(ready) \in Nat
    BY <2>1
  <2> QED BY <2>1, <2>2
<1>2. ready' \in Seq(LoopHandle) /\ Moves(0, <<>>)
  BY <1>1, StillMoves
<1>3. \A m \in DOMAIN runs : GaveUpOn(m)' => GaveUpOn(m)
  BY DEF GaveUpOn
<1>4. beam'.at \in Waiting => beam'.run \in DOMAIN runs /\ runs[beam'.run].said = ""
  BY <1>1 DEF BridgeType
<1>5. PICK hs \in Seq(LoopHandle) : hs = <<>>
  <2>1. <<>> \in Seq(LoopHandle)
    OBVIOUS
  <2> QED BY <2>1
<1>6. PICK taken \in {0, 1} : taken = 0
  OBVIOUS
<1>7. Moves(taken, hs) /\ taken <= Len(ready) /\ taken # 1 /\ \A k \in 1..Len(hs) : hs[k] = Handle("stop", 0)
  BY <1>1, <1>2, <1>5, <1>6
<1> QED BY <1>2, <1>3, <1>4, <1>7, QuietMoves

(* A handle more of a run: nothing else of its handles changes.              *)
LEMMA HandleAdded ==
  ASSUME ready \in Seq(LoopHandle), NEW n \in Nat, NEW h \in LoopHandle,
         ready' = Append(ready, h)
  PROVE  /\ \A do : Queued(do, n)' <=> Queued(do, n) \/ h = Handle(do, n)
         /\ DrivenOnce(n) /\ (h.do \in Driving => \A do \in Driving : ~Queued(do, n)) => DrivenOnce(n)'
         /\ CancelAfterWrapper(n) /\ h.do # "wrapper" => CancelAfterWrapper(n)'
         /\ CancelBeforeStep(n) => CancelBeforeStep(n)'
         /\ h = Handle("cancel", n) /\ ~Queued("step", n) => CancelBeforeStep(n)'
<1>1. Len(ready) \in Nat
  OBVIOUS
<1>2. PICK hs \in Seq(LoopHandle) : hs = <<h>>
  <2>1. <<h>> \in Seq(LoopHandle)
    OBVIOUS
  <2> QED BY <2>1
<1>3. Len(hs) = 1 /\ hs[1] = h
  BY <1>2
<1>4. PICK taken \in {0, 1} : taken = 0
  OBVIOUS
<1>5. ready' \in Seq(LoopHandle) /\ Moves(taken, hs) /\ taken <= Len(ready)
  BY <1>1, <1>2, <1>4, AddMoves
<1>6. 1..Len(hs) = {1} /\ \A i \in DOMAIN ready : i > taken
  BY <1>3, <1>4
<1>7. \A do : Queued(do, n)' <=> Queued(do, n) \/ h = Handle(do, n)
  <2> SUFFICES ASSUME NEW do PROVE Queued(do, n)' <=> Queued(do, n) \/ h = Handle(do, n)
    OBVIOUS
  <2>1. Queued(do, n)' <=> \/ \E i \in DOMAIN ready : i > taken /\ ready[i] = Handle(do, n)
                           \/ \E k \in 1..Len(hs) : hs[k] = Handle(do, n)
    BY <1>5, QueuedMoves
  <2> QED BY <2>1, <1>3, <1>6 DEF Queued
<1>8. ASSUME DrivenOnce(n), h.do \in Driving => \A do \in Driving : ~Queued(do, n) PROVE DrivenOnce(n)'
  <2>1. CASE h.do \notin Driving
    <3>1. \A k \in 1..Len(hs) : hs[k].do \notin Driving
      BY <2>1, <1>3, <1>6
    <3> QED BY <3>1, <1>5, <1>8, DrivenMoves
  <2>2. CASE h.do \in Driving
    <3>1. ASSUME NEW i \in DOMAIN ready, ready[i].run = n, ready[i].do \in Driving PROVE FALSE
      <4>1. PICK do \in Driving : do = ready[i].do
        BY <3>1
      <4>2. ready[i] \in LoopHandle
        OBVIOUS
      <4>3. ready[i] = Handle(do, n)
        BY <3>1, <4>1, <4>2 DEF LoopHandle, Handle
      <4> QED BY <4>3, <2>2, <1>8 DEF Queued
    <3>2. \A k, l \in 1..Len(hs) : hs[k].do \in Driving /\ hs[l].do \in Driving => k = l
      BY <1>6
    <3> QED BY <3>1, <3>2, <1>5, <1>8, DrivenMoves
  <2> QED BY <2>1, <2>2
<1>9. ASSUME CancelAfterWrapper(n), h.do # "wrapper" PROVE CancelAfterWrapper(n)'
  <2>1. \A k \in 1..Len(hs) : hs[k].do # "wrapper"
    BY <1>3, <1>6, <1>9
  <2> QED BY <2>1, <1>5, <1>9, CancelsStay
<1>10. ASSUME CancelBeforeStep(n) PROVE CancelBeforeStep(n)'
  BY <1>4, <1>5, <1>10, CancelStaysAhead
<1>11. ASSUME h = Handle("cancel", n), ~Queued("step", n) PROVE CancelBeforeStep(n)'
  <2>1. Queued("cancel", n)'
    BY <1>7, <1>11
  <2>2. h # Handle("step", n)
    BY <1>11 DEF Handle
  <2>3. ~Queued("step", n)'
    BY <1>7, <1>11, <2>2
  <2> QED BY <2>1, <2>3, CancelGetsAhead
<1> QED BY <1>7, <1>8, <1>9, <1>10, <1>11

\* What is queued of run n when its handle it is taken and hs are queued.
HandleTaken(it, n, hs) ==
    /\ Queued(it, n)
    /\ \A do : Queued(do, n)' => Queued(do, n) \/ \E k \in 1..Len(hs) : hs[k] = Handle(do, n)
    /\ \A do : do # it /\ Queued(do, n) => Queued(do, n)'
    /\ \A do : (\E k \in 1..Len(hs) : hs[k] = Handle(do, n)) => Queued(do, n)'
    /\ it \in Driving =>
          /\ \A do \in Driving : do # it => ~Queued(do, n)
          /\ \A do \in Driving : Queued(do, n)' => \E k \in 1..Len(hs) : hs[k] = Handle(do, n)
    /\ (\A k \in 1..Len(hs) : hs[k].do \notin Driving) => DrivenOnce(n)'
    /\ it \in Driving /\ (\A k, l \in 1..Len(hs) : hs[k].do \in Driving /\ hs[l].do \in Driving => k = l)
          => DrivenOnce(n)'
    /\ (\A do \in Driving : ~Queued(do, n))
          /\ (\A k, l \in 1..Len(hs) : hs[k].do \in Driving /\ hs[l].do \in Driving => k = l)
          => DrivenOnce(n)'
    /\ (\A k \in 1..Len(hs) : hs[k].do # "wrapper") => CancelAfterWrapper(n)'
    /\ it # "cancel" /\ CancelBeforeStep(n) => CancelBeforeStep(n)'
    /\ it = "step" => ~CancelBeforeStep(n)
    /\ it = "cancel" => ~Queued("wrapper", n)

(* The head of the queue taken, and handles hs of the same run queued.       *)
LEMMA HeadTaken ==
  ASSUME ready \in Seq(LoopHandle), ready # <<>>, NEW hs \in Seq(LoopHandle),
         ready' = Tail(ready) \o hs, NEW n \in Nat, NEW it, Head(ready) = Handle(it, n),
         DrivenOnce(n), CancelAfterWrapper(n)
  PROVE  HandleTaken(it, n, hs)
<1>1. Len(ready) \in Nat /\ Len(ready) # 0 /\ Len(hs) \in Nat /\ DOMAIN ready = 1..Len(ready)
  OBVIOUS
<1>2. ready' \in Seq(LoopHandle) /\ Moves(1, hs) /\ 1 \in DOMAIN ready /\ ready[1] = Handle(it, n)
  BY TakeMoves
<1>3. PICK taken \in {0, 1} : taken = 1
  OBVIOUS
<1>4. Moves(taken, hs) /\ taken <= Len(ready)
  BY <1>1, <1>2, <1>3
<1>5. \A a, b : Handle(a, n) = Handle(b, n) => a = b
  <2>1. \A a : Handle(a, n).do = a
    BY DEF Handle
  <2> QED BY <2>1
<1>6. ASSUME NEW do PROVE Queued(do, n)' <=> \/ \E i \in DOMAIN ready : i > 1 /\ ready[i] = Handle(do, n)
                                             \/ \E k \in 1..Len(hs) : hs[k] = Handle(do, n)
  <2>1. Queued(do, n)' <=> \/ \E i \in DOMAIN ready : i > taken /\ ready[i] = Handle(do, n)
                           \/ \E k \in 1..Len(hs) : hs[k] = Handle(do, n)
    BY <1>1, <1>2, <1>3, <1>4, QueuedMoves, SMTT(60)
  <2> QED BY <2>1, <1>3
<1>7. Queued(it, n)
  BY <1>2 DEF Queued
<1>17. \A do : Queued(do, n)' => Queued(do, n) \/ \E k \in 1..Len(hs) : hs[k] = Handle(do, n)
  BY <1>6 DEF Queued
<1>18. \A do : (\E k \in 1..Len(hs) : hs[k] = Handle(do, n)) => Queued(do, n)'
  BY <1>6
<1>8. \A do : do # it /\ Queued(do, n) => Queued(do, n)'
  <2> SUFFICES ASSUME NEW do, do # it, Queued(do, n) PROVE Queued(do, n)'
    OBVIOUS
  <2>1. PICK i \in DOMAIN ready : ready[i] = Handle(do, n)
    BY DEF Queued
  <2>2. i # 1 /\ i \in 1..Len(ready)
    BY <2>1, <1>1, <1>2, <1>5
  <2> QED BY <2>1, <2>2, <1>1, <1>6
<1>9. ASSUME it \in Driving PROVE \A i \in DOMAIN ready : i > 1 /\ ready[i].run = n => ready[i].do \notin Driving
  <2>1. ready[1].run = n /\ ready[1].do \in Driving
    BY <1>2, <1>9 DEF Handle
  <2>2. ASSUME NEW i \in DOMAIN ready, i > 1, ready[i].run = n, ready[i].do \in Driving PROVE FALSE
    <3>1. i = 1
      BY <2>1, <2>2, <1>2 DEF DrivenOnce
    <3> QED BY <3>1, <2>2
  <2> QED BY <2>2
<1>10. ASSUME it \in Driving, NEW do \in Driving
       PROVE  /\ do # it => ~Queued(do, n)
              /\ Queued(do, n)' => \E k \in 1..Len(hs) : hs[k] = Handle(do, n)
  <2>1. Handle(do, n).run = n /\ Handle(do, n).do = do
    BY DEF Handle
  <2>2. ~\E i \in DOMAIN ready : i > 1 /\ ready[i] = Handle(do, n)
    BY <2>1, <1>9, <1>10
  <2>3. do # it => ~Queued(do, n)
    <3> SUFFICES ASSUME do # it, NEW i \in DOMAIN ready, ready[i] = Handle(do, n) PROVE FALSE
      BY DEF Queued
    <3>1. i # 1 /\ i \in 1..Len(ready)
      BY <1>1, <1>2, <1>5
    <3> QED BY <3>1, <2>2, <1>1
  <2> QED BY <2>2, <2>3, <1>6
<1>11. (\A k \in 1..Len(hs) : hs[k].do \notin Driving) => DrivenOnce(n)'
  BY <1>2, <1>4, DrivenMoves
<1>12. ASSUME it \in Driving, \A k, l \in 1..Len(hs) : hs[k].do \in Driving /\ hs[l].do \in Driving => k = l
       PROVE  DrivenOnce(n)'
  <2>1. \A i \in DOMAIN ready : i > taken /\ ready[i].run = n => ready[i].do \notin Driving
    BY <1>3, <1>9, <1>12
  <2> QED BY <2>1, <1>2, <1>4, <1>12, DrivenMoves
<1>19. ASSUME \A do \in Driving : ~Queued(do, n),
              \A k, l \in 1..Len(hs) : hs[k].do \in Driving /\ hs[l].do \in Driving => k = l
       PROVE  DrivenOnce(n)'
  <2>1. ASSUME NEW i \in DOMAIN ready, ready[i].run = n, ready[i].do \in Driving PROVE FALSE
    <3>1. PICK do \in Driving : do = ready[i].do
      BY <2>1
    <3>2. ready[i] \in LoopHandle
      OBVIOUS
    <3>3. ready[i] = Handle(do, n)
      BY <2>1, <3>1, <3>2 DEF LoopHandle, Handle
    <3> QED BY <3>3, <1>19 DEF Queued
  <2> QED BY <2>1, <1>2, <1>4, <1>19, DrivenMoves
<1>13. (\A k \in 1..Len(hs) : hs[k].do # "wrapper") => CancelAfterWrapper(n)'
  BY <1>2, <1>4, CancelsStay
<1>14. it # "cancel" /\ CancelBeforeStep(n) => CancelBeforeStep(n)'
  <2>1. it # "cancel" => ready[1] # Handle("cancel", n)
    BY <1>2, <1>5
  <2> QED BY <2>1, <1>2, <1>4, CancelStaysAhead
<1>15. it = "step" => ~CancelBeforeStep(n)
  <2> SUFFICES ASSUME it = "step", CancelBeforeStep(n) PROVE FALSE
    OBVIOUS
  <2>1. PICK j \in DOMAIN ready : j < 1
    BY <1>2 DEF CancelBeforeStep
  <2> QED BY <2>1, <1>1
<1>16. it = "cancel" => ~Queued("wrapper", n)
  <2> SUFFICES ASSUME it = "cancel", NEW i \in DOMAIN ready, ready[i] = Handle("wrapper", n) PROVE FALSE
    BY DEF Queued
  <2>1. i < 1
    BY <1>2 DEF CancelAfterWrapper
  <2> QED BY <2>1, <1>1
<1> QED BY <1>7, <1>17, <1>18, <1>8, <1>10, <1>11, <1>12, <1>13, <1>14, <1>15, <1>16, <1>19 DEF HandleTaken

Fields == {"for", "future", "chained", "holder", "task", "told", "deaf", "work",
           "ends", "said", "graced", "untasked", "raced"}
SameBut(s, r, fields) == s \in Run /\ \A f \in Fields \ fields : s[f] = r[f]

(* A run's record with one field set.                                        *)
LEMMA FieldSet ==
  ASSUME NEW r \in Run
  PROVE  /\ \A x \in {"", "returned", "raised", "timeout"} :
               SameBut([r EXCEPT !.said = x], r, {"said"}) /\ [r EXCEPT !.said = x].said = x
         /\ \A x \in {"pending", "cancelled", "returned", "raised", "timeout_error", ""} :
               SameBut([r EXCEPT !.future = x], r, {"future"}) /\ [r EXCEPT !.future = x].future = x
         /\ \A x \in {"none", "ready", "parked", "done"} :
               SameBut([r EXCEPT !.task = x], r, {"task"}) /\ [r EXCEPT !.task = x].task = x
         /\ \A x \in {"", "cancelled", "returned", "raised", "timeout_error"} :
               SameBut([r EXCEPT !.ends = x], r, {"ends"}) /\ [r EXCEPT !.ends = x].ends = x
         /\ \A x \in Nat : SameBut([r EXCEPT !.work = x], r, {"work"}) /\ [r EXCEPT !.work = x].work = x
<1>1. ASSUME NEW x \in {"", "returned", "raised", "timeout"}
      PROVE  SameBut([r EXCEPT !.said = x], r, {"said"}) /\ [r EXCEPT !.said = x].said = x
  BY DEF SameBut, Fields, Run
<1>2. ASSUME NEW x \in {"pending", "cancelled", "returned", "raised", "timeout_error", ""}
      PROVE  SameBut([r EXCEPT !.future = x], r, {"future"}) /\ [r EXCEPT !.future = x].future = x
  BY DEF SameBut, Fields, Run
<1>3. ASSUME NEW x \in {"none", "ready", "parked", "done"}
      PROVE  SameBut([r EXCEPT !.task = x], r, {"task"}) /\ [r EXCEPT !.task = x].task = x
  BY DEF SameBut, Fields, Run
<1>4. ASSUME NEW x \in {"", "cancelled", "returned", "raised", "timeout_error"}
      PROVE  SameBut([r EXCEPT !.ends = x], r, {"ends"}) /\ [r EXCEPT !.ends = x].ends = x
  BY DEF SameBut, Fields, Run
<1>5. ASSUME NEW x \in Nat PROVE SameBut([r EXCEPT !.work = x], r, {"work"}) /\ [r EXCEPT !.work = x].work = x
  BY DEF SameBut, Fields, Run
<1> QED BY <1>1, <1>2, <1>3, <1>4, <1>5

(* A run's record with one flag set.                                         *)
LEMMA FlagSet ==
  ASSUME NEW r \in Run, NEW x \in BOOLEAN
  PROVE  /\ SameBut([r EXCEPT !.chained = x], r, {"chained"}) /\ [r EXCEPT !.chained = x].chained = x
         /\ SameBut([r EXCEPT !.holder = x], r, {"holder"}) /\ [r EXCEPT !.holder = x].holder = x
         /\ SameBut([r EXCEPT !.told = x], r, {"told"}) /\ [r EXCEPT !.told = x].told = x
         /\ SameBut([r EXCEPT !.deaf = x], r, {"deaf"}) /\ [r EXCEPT !.deaf = x].deaf = x
         /\ SameBut([r EXCEPT !.graced = x], r, {"graced"}) /\ [r EXCEPT !.graced = x].graced = x
         /\ SameBut([r EXCEPT !.untasked = x], r, {"untasked"}) /\ [r EXCEPT !.untasked = x].untasked = x
         /\ SameBut([r EXCEPT !.raced = x], r, {"raced"}) /\ [r EXCEPT !.raced = x].raced = x
<1>1. SameBut([r EXCEPT !.chained = x], r, {"chained"}) /\ [r EXCEPT !.chained = x].chained = x
  BY DEF SameBut, Fields, Run
<1>2. SameBut([r EXCEPT !.holder = x], r, {"holder"}) /\ [r EXCEPT !.holder = x].holder = x
  BY DEF SameBut, Fields, Run
<1>3. SameBut([r EXCEPT !.told = x], r, {"told"}) /\ [r EXCEPT !.told = x].told = x
  BY DEF SameBut, Fields, Run
<1>4. SameBut([r EXCEPT !.deaf = x], r, {"deaf"}) /\ [r EXCEPT !.deaf = x].deaf = x
  BY DEF SameBut, Fields, Run
<1>5. SameBut([r EXCEPT !.graced = x], r, {"graced"}) /\ [r EXCEPT !.graced = x].graced = x
  BY DEF SameBut, Fields, Run
<1>6. SameBut([r EXCEPT !.untasked = x], r, {"untasked"}) /\ [r EXCEPT !.untasked = x].untasked = x
  BY DEF SameBut, Fields, Run
<1>7. SameBut([r EXCEPT !.raced = x], r, {"raced"}) /\ [r EXCEPT !.raced = x].raced = x
  BY DEF SameBut, Fields, Run
<1> QED BY <1>1, <1>2, <1>3, <1>4, <1>5, <1>6, <1>7

MayCancel(n) == ready' = ready \/ ready' = Append(ready, Handle("cancel", n))

(* The queue as it was, or with a cancellation of run n more.                *)
LEMMA CancelQueued ==
  ASSUME ready \in Seq(LoopHandle), NEW n \in Nat,
         MayCancel(n)
  PROVE  /\ \A do : do # "cancel" => (Queued(do, n)' <=> Queued(do, n))
         /\ Queued("cancel", n) => Queued("cancel", n)'
         /\ ready' = Append(ready, Handle("cancel", n)) => Queued("cancel", n)'
         /\ ready' = ready => (Queued("cancel", n)' <=> Queued("cancel", n))
         /\ DrivenOnce(n) => DrivenOnce(n)'
         /\ CancelAfterWrapper(n) => CancelAfterWrapper(n)'
         /\ CancelBeforeStep(n) => CancelBeforeStep(n)'
         /\ ready' = Append(ready, Handle("cancel", n)) /\ ~Queued("step", n) => CancelBeforeStep(n)'
<1>1. CASE ready' = ready
  <2>1. ready' # Append(ready, Handle("cancel", n))
    <3>1. PICK h : h = Handle("cancel", n)
      OBVIOUS
    <3>2. Len(Append(ready, h)) = Len(ready) + 1 /\ Len(ready) \in Nat
      OBVIOUS
    <3> QED BY <1>1, <3>1, <3>2
  <2> QED BY <2>1, <1>1 DEF Queued, DrivenOnce, CancelAfterWrapper, CancelBeforeStep
<1>2. CASE ready' = Append(ready, Handle("cancel", n))
  <2>1. PICK h : h = Handle("cancel", n)
    OBVIOUS
  <2>2. h \in LoopHandle /\ h.do = "cancel"
    BY <2>1 DEF LoopHandle, Handle
  <2>3. \A do : do # "cancel" => h # Handle(do, n)
    BY <2>1 DEF Handle
  <2>4. ready' # ready
    <3>1. Len(Append(ready, h)) = Len(ready) + 1 /\ Len(ready) \in Nat
      OBVIOUS
    <3> QED BY <1>2, <2>1, <3>1
  <2>5. h.do \notin Driving /\ h.do # "wrapper"
    BY <2>2 DEF Driving
  <2>6. /\ \A do : Queued(do, n)' <=> Queued(do, n) \/ h = Handle(do, n)
        /\ DrivenOnce(n) /\ (h.do \in Driving => \A do \in Driving : ~Queued(do, n)) => DrivenOnce(n)'
        /\ CancelAfterWrapper(n) /\ h.do # "wrapper" => CancelAfterWrapper(n)'
        /\ CancelBeforeStep(n) => CancelBeforeStep(n)'
        /\ h = Handle("cancel", n) /\ ~Queued("step", n) => CancelBeforeStep(n)'
    BY <1>2, <2>1, <2>2, HandleAdded
  <2> HIDE DEF Driving
  <2> QED BY <2>1, <2>3, <2>4, <2>5, <2>6
<1> QED BY <1>1, <1>2 DEF MayCancel

(* The same with the run's record set and its caller moved.                  *)
LEMMA CallerMoves ==
  ASSUME BridgeInv, NEW n \in DOMAIN runs, NEW r \in Run, runs' = [runs EXCEPT ![n] = r],
         MayCancel(n),
         \A m \in DOMAIN runs : m # n /\ GaveUpOn(m)' => GaveUpOn(m),
         beam' \in Beam,
         beam'.at \in Waiting => beam'.run \in DOMAIN runs' /\ runs'[beam'.run].said = "",
         RunInv(n)'
  PROVE  BridgeInv'
<1>1. ready \in Seq(LoopHandle) /\ runs \in Seq(Run)
  BY DEF BridgeInv, BridgeType
<1>2. n \in Nat /\ Len(ready) \in Nat
  BY <1>1, ListFacts
<1>3. PICK taken \in {0, 1} : taken = 0
  OBVIOUS
<1>4. PICK hs \in Seq(LoopHandle) : /\ ready' \in Seq(LoopHandle) /\ Moves(taken, hs)
                                    /\ \A k \in 1..Len(hs) : hs[k].run = n
  <2>1. CASE ready' = ready
    <3>1. PICK hs \in Seq(LoopHandle) : hs = <<>> /\ 1..Len(hs) = {}
      BY EmptyList
    <3>2. \A k \in 1..Len(hs) : hs[k].run = n
      BY <3>1
    <3> QED BY <2>1, <3>1, <3>2, <1>1, <1>3, StillMoves
  <2>2. CASE ready' = Append(ready, Handle("cancel", n))
    <3>1. PICK h : h = Handle("cancel", n)
      OBVIOUS
    <3>2. h \in LoopHandle /\ h.run = n
      BY <3>1, <1>2 DEF LoopHandle, Handle
    <3>3. PICK hs \in Seq(LoopHandle) : hs = <<h>> /\ hs[1] = h /\ 1..Len(hs) = {1}
      <4>1. h \in LoopHandle
        BY <3>2
      <4>2. \E s \in Seq(LoopHandle) : s = <<h>> /\ Len(s) = 1 /\ s[1] = h /\ 1..Len(s) = {1}
        BY <4>1, ListOfOne
      <4> QED BY <4>2
    <3>4. \A k \in 1..Len(hs) : hs[k].run = n
      BY <3>2, <3>3
    <3> QED BY <2>2, <3>1, <3>2, <3>3, <3>4, <1>1, <1>3, AddMoves
  <2> QED BY <2>1, <2>2 DEF MayCancel
<1>5. taken <= Len(ready) /\ taken # 1
  <2>1. Len(ready) \in Nat
    BY <1>2
  <2> QED BY <2>1, <1>3, NothingTaken, Zenon
<1> QED BY <1>4, <1>5, RunMoves

(* The caller of run has its outcome and goes on to something else.          *)
LEMMA LeaveKeeps ==
  ASSUME BridgeInv, NEW n, n = beam.run, beam.at \in Waiting, NEW r \in Run, r.for = runs[n].for,
         NEW said \in {"returned", "raised", "timeout"}, Leaves(r, said),
         MayCancel(n),
         RunInv(n)'
  PROVE  BridgeInv'
<1>1. BridgeType /\ runs \in Seq(Run) /\ beam \in Beam /\ n \in DOMAIN runs
  BY DEF BridgeInv, BridgeType
<1>2. PICK s : s = [r EXCEPT !.said = said]
  OBVIOUS
<1>3. s \in Run
  <2>1. r \in Run /\ said \in {"", "returned", "raised", "timeout"}
    OBVIOUS
  <2>2. SameBut([r EXCEPT !.said = said], r, {"said"})
    BY ONLY <2>1, FieldSet
  <2> QED BY ONLY <2>2, <1>2 DEF SameBut
<1>4. runs' = [runs EXCEPT ![n] = s]
  BY <1>2 DEF Leaves
<1>5. after_run(r.for, said) \in {"idle", "failed", "stopping"}
  BY DEF after_run, Run
<1>6. beam' \in Beam /\ beam'.at \in {"idle", "failed", "stopping"}
  <2>1. PICK at \in {"idle", "failed", "stopping"} : beam' = [beam EXCEPT !.at = at]
    BY <1>5 DEF Leaves
  <2> QED BY <2>1, <1>1 DEF Beam
<1>7. \A m \in DOMAIN runs : m # n => runs'[m] = runs[m]
  BY <1>1, <1>3, <1>4, ListReplaced
<1>8. \A m \in DOMAIN runs : m # n /\ GaveUpOn(m)' => GaveUpOn(m)
  BY <1>6, <1>7 DEF GaveUpOn
<1>9. beam'.at \notin Waiting
  BY <1>6 DEF Waiting
<1> QED BY <1>1, <1>3, <1>4, <1>6, <1>8, <1>9, CallerMoves

(* run submits a coroutine: it is queued, and its caller waits.              *)
LEMMA SubmittedKeeps ==
  ASSUME BridgeInv, NEW for \in {"build", "activation", "hook", "close"}, submitted(for)
  PROVE  BridgeInv'
<1>1. BridgeType /\ ready \in Seq(LoopHandle) /\ runs \in Seq(Run)
  BY DEF BridgeInv, BridgeType
<1>2. PICK n : n = Len(runs) + 1
  OBVIOUS
<1>3. PICK r : r = [for |-> for, future |-> "pending", chained |-> FALSE,
                             holder |-> FALSE, task |-> "none", told |-> FALSE, deaf |-> FALSE,
                             work |-> 0, ends |-> "", said |-> "", graced |-> FALSE,
                             untasked |-> FALSE, raced |-> FALSE]
  OBVIOUS
<1>4. /\ r \in Run /\ r.future = "pending" /\ ~r.chained /\ ~r.holder /\ r.task = "none"
      /\ r.work = 0 /\ r.said = "" /\ ~r.untasked
  BY <1>3 DEF Run
<1>5. PICK h : h = Handle("submit", n)
  OBVIOUS
<1>6. /\ runs' = Append(runs, r) /\ ready' = Append(ready, h)
      /\ beam' = [at |-> "waiting", run |-> n]
  BY <1>2, <1>3, <1>5 DEF submitted
<1> HIDE <1>3
<1>7. /\ runs' \in Seq(Run) /\ DOMAIN runs' = DOMAIN runs \cup {n} /\ n \in Nat /\ n \notin DOMAIN runs
      /\ n # 0 /\ runs'[n] = r /\ \A m \in DOMAIN runs : runs'[m] = runs[m]
  <2>1. r \in Run
    BY <1>4
  <2> QED BY <2>1, <1>1, <1>2, <1>6, ListAppended
<1>8. h \in LoopHandle /\ h.do = "submit" /\ h.run = n
  BY <1>5, <1>7 DEF LoopHandle, Handle
<1>9. ~\E i \in DOMAIN ready : ready[i].run = n
  <2>1. \A i \in DOMAIN ready : ready[i].run \in DOMAIN runs \/ ready[i] = Handle("stop", 0)
    BY <1>1 DEF BridgeType
  <2>2. Handle("stop", 0).run = 0
    BY DEF Handle
  <2> QED BY <2>1, <2>2, <1>7
<1>10. /\ \A do : Queued(do, n)' <=> Queued(do, n) \/ h = Handle(do, n)
       /\ DrivenOnce(n) /\ (h.do \in Driving => \A do \in Driving : ~Queued(do, n)) => DrivenOnce(n)'
       /\ CancelAfterWrapper(n) /\ h.do # "wrapper" => CancelAfterWrapper(n)'
  BY <1>1, <1>6, <1>7, <1>8, HandleAdded
<1>11. \A do : Handle(do, n).run = n /\ Handle(do, n).do = do
  BY DEF Handle
<1>12. \A do : ~Queued(do, n)
  BY <1>9, <1>11 DEF Queued
<1>13. DrivenOnce(n)' /\ CancelAfterWrapper(n)'
  <2>1. DrivenOnce(n) /\ CancelAfterWrapper(n)
    BY <1>9, <1>11 DEF DrivenOnce, CancelAfterWrapper
  <2> QED BY <2>1, <1>8, <1>10, <1>12
<1>14. \A do : Queued(do, n)' <=> do = "submit"
  BY <1>5, <1>10, <1>11, <1>12
<1>15. beam' \in Beam /\ beam'.at = "waiting" /\ beam'.run = n
  BY <1>6, <1>7 DEF Beam, Waiting
<1>16. RunInv(n)'
  <2>1. Place(n)'
    <3>1. /\ Queued("submit", n)' /\ ~Queued("wrapper", n)' /\ ~Queued("step", n)'
          /\ ~Queued("settle", n)' /\ ~Queued("cancel", n)'
      BY <1>14
    <3> QED BY <3>1, <1>4, <1>7 DEF Place
  <2>2. Outcome(n)'
    BY <1>4, <1>7, <1>15 DEF Outcome, GaveUpOn
  <2> QED BY <2>1, <2>2, <1>13 DEF RunInv
<1>17. ASSUME NEW m \in DOMAIN runs PROVE RunInv(m)'
  <2>1. PICK taken \in {0, 1} : taken = 0
    OBVIOUS
  <2>2. PICK hs \in Seq(LoopHandle) : hs = <<h>> /\ hs[1] = h /\ 1..Len(hs) = {1}
    <3>1. h \in LoopHandle
      BY <1>8
    <3>2. \E s \in Seq(LoopHandle) : s = <<h>> /\ Len(s) = 1 /\ s[1] = h /\ 1..Len(s) = {1}
      BY <3>1, ListOfOne
    <3> QED BY <3>2
  <2>3. ready' \in Seq(LoopHandle) /\ Moves(taken, hs)
    BY <1>1, <1>6, <1>8, <2>1, <2>2, AddMoves
  <2>4. Len(ready) \in Nat
    BY <1>1, ListFacts
  <2>5. taken <= Len(ready) /\ taken # 1
    BY <2>1, <2>4, NothingTaken
  <2>6. \A k \in 1..Len(hs) : hs[k].run # m
    BY <2>2, <1>7, <1>8
  <2>7. RunInv(m) /\ runs'[m] = runs[m] /\ (GaveUpOn(m)' => GaveUpOn(m))
    BY <1>7, <1>15 DEF BridgeInv, GaveUpOn
  <2> QED BY <2>3, <2>5, <2>6, <2>7, <1>1, RunUntouched
<1>18. BridgeType'
  <2>1. ready' \in Seq(LoopHandle) /\ \A i \in DOMAIN ready' : ready'[i] = h \/ \E k \in DOMAIN ready : ready'[i] = ready[k]
    BY <1>1, <1>6, <1>8
  <2>2. \A i \in DOMAIN ready' : ready'[i].run \in DOMAIN runs' \/ ready'[i] = Handle("stop", 0)
    BY <2>1, <1>1, <1>7, <1>8 DEF BridgeType
  <2>3. beam'.at \in Waiting => beam'.run \in DOMAIN runs' /\ runs'[beam'.run].said = ""
    BY <1>4, <1>7, <1>15
  <2> QED BY <2>1, <2>2, <2>3, <1>7, <1>15 DEF BridgeType
<1> QED BY <1>7, <1>16, <1>17, <1>18 DEF BridgeInv

(* The run the Beam thread waits for.                                        *)
LEMMA CurrentRun ==
  ASSUME BridgeInv, beam.at \in Waiting, NEW n, n = beam.run
  PROVE  /\ BridgeType /\ ready \in Seq(LoopHandle) /\ runs \in Seq(Run) /\ n \in DOMAIN runs
         /\ n \in Nat /\ runs[n] \in Run /\ runs[n].said = "" /\ RunInv(n)
<1>1. /\ BridgeType /\ ready \in Seq(LoopHandle) /\ runs \in Seq(Run) /\ n \in DOMAIN runs
      /\ runs[n].said = ""
  BY DEF BridgeInv, BridgeType
<1>2. n \in Nat /\ runs[n] \in Run
  BY <1>1, ListFacts
<1> QED BY <1>1, <1>2 DEF BridgeInv

(* future.result returns or raises: what the run's task has done, it stands.  *)
LEMMA FutureAnswersKeeps == ASSUME BridgeInv, FutureAnswers PROVE BridgeInv'
<1>1. PICK n : n = beam.run
  OBVIOUS
<1>2. PICK r : r = runs[n]
  OBVIOUS
<1>3. PICK said \in {"returned", "raised"} : Leaves(r, said)
  BY <1>1, <1>2 DEF FutureAnswers, current_run
<1>4. beam.at = "waiting" /\ r.future # "pending" /\ ready' = ready
  BY <1>1, <1>2 DEF FutureAnswers, current_run
<1>5. BridgeType /\ n \in DOMAIN runs /\ runs \in Seq(Run) /\ r \in Run /\ r.said = "" /\ RunInv(n)
  BY <1>1, <1>2, <1>4, CurrentRun DEF Waiting
<1>6. PICK s : s = [r EXCEPT !.said = said]
  OBVIOUS
<1>7. SameBut(s, r, {"said"}) /\ s.said = said
  <2>1. said \in {"", "returned", "raised", "timeout"} /\ r \in Run
    BY <1>3, <1>5
  <2> QED BY <2>1, <1>6, FieldSet
<1>8. runs'[n] = s
  BY <1>1, <1>3, <1>5, <1>6 DEF Leaves
<1>9. r.task = "done"
  BY <1>2, <1>4, <1>5 DEF RunInv, Outcome
<1>10. RunInv(n)'
  <2>1. DrivenOnce(n)' /\ CancelAfterWrapper(n)' /\ (\A do : Queued(do, n)' <=> Queued(do, n))
    BY <1>4, <1>5 DEF RunInv, DrivenOnce, CancelAfterWrapper, Queued
  <2>2. Place(n)'
    BY <1>2, <1>5, <1>7, <1>8, <2>1 DEF RunInv, Place, SameBut, Fields
  <2>3. Outcome(n)'
    BY <1>2, <1>5, <1>7, <1>8, <1>9 DEF RunInv, Outcome, SameBut, Fields
  <2> QED BY <2>1, <2>2, <2>3 DEF RunInv
<1>11. MayCancel(n)
  BY <1>4 DEF MayCancel
<1> QED BY <1>1, <1>2, <1>3, <1>4, <1>5, <1>10, <1>11, LeaveKeeps DEF Waiting

(* _drain ends with the future, or with the grace.                           *)
LEMMA DrainOverKeeps == ASSUME BridgeInv, DrainOver PROVE BridgeInv'
<1>1. PICK n : n = beam.run
  OBVIOUS
<1>2. PICK o : o = runs[n]
  OBVIOUS
<1>3. PICK out \in BOOLEAN : out <=> o.future = "pending"
  <2>1. (o.future = "pending") \in BOOLEAN
    OBVIOUS
  <2> QED BY <2>1
<1>4. PICK r : r = [o EXCEPT !.graced = out]
  OBVIOUS
<1>5. beam.at = "draining" /\ ready' = ready /\ Leaves(r, "timeout")
  <2>1. beam.at = "draining" /\ ready' = ready
    BY DEF DrainOver
  <2>2. r = [o EXCEPT !.graced = o.future = "pending"]
    BY <1>3, <1>4
  <2>3. Leaves([o EXCEPT !.graced = o.future = "pending"], "timeout")
    BY <1>1, <1>2 DEF DrainOver, current_run
  <2> QED BY <2>1, <2>2, <2>3
<1>6. BridgeType /\ n \in DOMAIN runs /\ runs \in Seq(Run) /\ o \in Run /\ o.said = "" /\ RunInv(n)
  BY <1>1, <1>2, <1>5, CurrentRun DEF Waiting
<1>7. SameBut(r, o, {"graced"}) /\ r.graced = out
  BY <1>3, <1>4, <1>6, FlagSet
<1>8. PICK s : s = [r EXCEPT !.said = "timeout"]
  OBVIOUS
<1>9. SameBut(s, r, {"said"}) /\ s.said = "timeout"
  <2>1. r \in Run
    BY <1>7 DEF SameBut
  <2> QED BY <2>1, <1>8, FieldSet
<1>10. runs'[n] = s
  BY <1>1, <1>5, <1>6, <1>8 DEF Leaves
<1>11. /\ s.future = o.future /\ s.task = o.task /\ s.told = o.told /\ s.deaf = o.deaf /\ s.work = o.work
       /\ s.chained = o.chained /\ s.holder = o.holder /\ s.untasked = o.untasked /\ s.raced = o.raced
       /\ s.graced = out
  BY <1>7, <1>9 DEF SameBut, Fields
<1>12. RunInv(n)'
  <2>1. DrivenOnce(n)' /\ CancelAfterWrapper(n)' /\ (\A do : Queued(do, n)' <=> Queued(do, n))
        /\ (CancelBeforeStep(n)' <=> CancelBeforeStep(n))
    BY <1>5, <1>6 DEF RunInv, DrivenOnce, CancelAfterWrapper, Queued, CancelBeforeStep
  <2>2. Place(n)'
    BY <1>2, <1>6, <1>10, <1>11, <2>1 DEF RunInv, Place
  <2>3. GaveUpOn(n)
    BY <1>1, <1>5 DEF GaveUpOn
  <2>4. Outcome(n)'
    BY <1>2, <1>3, <1>6, <1>9, <1>10, <1>11, <2>1, <2>3 DEF RunInv, Outcome, ToBeCancelled
  <2> QED BY <2>1, <2>2, <2>4 DEF RunInv
<1>13. MayCancel(n) /\ beam.at \in Waiting /\ r \in Run /\ r.for = runs[n].for
  BY <1>2, <1>5, <1>7 DEF MayCancel, Waiting, SameBut, Fields
<1> QED BY <1>1, <1>5, <1>12, <1>13, LeaveKeeps

(* holder has the task: its cancellation is on its way while run drains.     *)
LEMMA CancelTaskKeeps == ASSUME BridgeInv, CancelTask PROVE BridgeInv'
<1>1. PICK n : n = beam.run
  OBVIOUS
<1>2. PICK r : r = runs[n]
  OBVIOUS
<1>3. /\ beam.at = "expired" /\ r.holder /\ ready' = Append(ready, Handle("cancel", n))
      /\ beam' = [beam EXCEPT !.at = "draining"] /\ runs' = runs
  BY <1>1, <1>2 DEF CancelTask, current_run
<1>4. /\ BridgeType /\ ready \in Seq(LoopHandle) /\ runs \in Seq(Run) /\ n \in DOMAIN runs
      /\ n \in Nat /\ r \in Run /\ r.said = "" /\ RunInv(n)
  BY <1>1, <1>2, <1>3, CurrentRun DEF Waiting
<1>5. beam' \in Beam /\ beam'.at = "draining" /\ beam'.run = n
  BY <1>1, <1>3, <1>4 DEF BridgeType, Beam, Waiting
<1>6. MayCancel(n)
  BY <1>3 DEF MayCancel
<1>7. /\ \A do : do # "cancel" => (Queued(do, n)' <=> Queued(do, n))
      /\ Queued("cancel", n)'
      /\ DrivenOnce(n) => DrivenOnce(n)'
      /\ CancelAfterWrapper(n) => CancelAfterWrapper(n)'
      /\ CancelBeforeStep(n) => CancelBeforeStep(n)'
  BY <1>3, <1>4, <1>6, CancelQueued
<1>8. /\ Queued("submit", n)' <=> Queued("submit", n)
      /\ Queued("wrapper", n)' <=> Queued("wrapper", n)
      /\ Queued("step", n)' <=> Queued("step", n)
      /\ Queued("settle", n)' <=> Queued("settle", n)
  BY <1>7
<1>9. Place(n)'
  BY <1>2, <1>3, <1>4, <1>8 DEF RunInv, Place
<1>10. Outcome(n)'
  BY <1>2, <1>3, <1>4, <1>7, <1>8 DEF RunInv, Outcome, ToBeCancelled
<1>11. RunInv(n)'
  BY <1>4, <1>7, <1>9, <1>10 DEF RunInv
<1>12. \A m \in DOMAIN runs : m # n /\ GaveUpOn(m)' => GaveUpOn(m)
  BY <1>3, <1>5 DEF GaveUpOn
<1>13. runs' = [runs EXCEPT ![n] = r]
  <2>1. runs \in [DOMAIN runs -> Run]
    BY <1>4, ListFacts
  <2>2. [runs EXCEPT ![n] = r] = runs
    BY <2>1, <1>2, <1>4
  <2> QED BY <2>2, <1>3
<1>14. beam'.at \in Waiting => beam'.run \in DOMAIN runs' /\ runs'[beam'.run].said = ""
  BY <1>2, <1>3, <1>4, <1>5
<1> QED BY <1>4, <1>5, <1>6, <1>11, <1>12, <1>13, <1>14, CallerMoves

(* No task was found: the future is cancelled, and with it the task behind   *)
(* it, if the loop has made one in between.                                  *)
LEMMA CancelFutureKeeps == ASSUME BridgeInv, CancelFuture PROVE BridgeInv'
<1>1. PICK n : n = beam.run
  OBVIOUS
<1>2. PICK o : o = runs[n]
  OBVIOUS
<1>3. beam.at = "untasked"
  BY DEF CancelFuture
<1>4. /\ BridgeType /\ ready \in Seq(LoopHandle) /\ runs \in Seq(Run) /\ n \in DOMAIN runs
      /\ n \in Nat /\ o \in Run /\ o.said = "" /\ RunInv(n)
  BY <1>1, <1>2, <1>3, CurrentRun DEF Waiting
<1>5. PICK f : f = IF o.future = "pending" THEN "cancelled" ELSE o.future
  OBVIOUS
<1>6. f \in {"pending", "cancelled", "returned", "raised", "timeout_error", ""}
  BY <1>4, <1>5 DEF Run
<1>7. PICK a : a = [o EXCEPT !.future = f]
  OBVIOUS
<1>8. SameBut(a, o, {"future"}) /\ a.future = f /\ a \in Run
  <2>1. /\ SameBut([o EXCEPT !.future = f], o, {"future"})
        /\ [o EXCEPT !.future = f].future = f
    <3>1. o \in Run
      BY <1>4
    <3> QED BY ONLY <3>1, <1>6, FieldSet
  <2>2. SameBut(a, o, {"future"}) /\ a.future = f
    BY ONLY <2>1, <1>7
  <2> QED BY <2>2 DEF SameBut
<1>9. PICK b : b = [a EXCEPT !.untasked = ~o.holder]
  OBVIOUS
<1>10. SameBut(b, a, {"untasked"}) /\ b.untasked = ~o.holder
  <2>1. (~o.holder) \in BOOLEAN
    OBVIOUS
  <2> QED BY <2>1, <1>8, <1>9, FlagSet
<1>11. PICK r : r = [b EXCEPT !.raced = o.holder]
  OBVIOUS
<1>12. SameBut(r, b, {"raced"}) /\ r.raced = o.holder
  <2>1. o.holder \in BOOLEAN /\ b \in Run
    BY <1>4, <1>10 DEF Run, SameBut
  <2> QED BY <2>1, <1>11, FlagSet
<1>13. Leaves(r, "timeout")
  <2>1. Leaves([o EXCEPT !.future = IF o.future = "pending" THEN "cancelled" ELSE @,
                         !.untasked = ~o.holder, !.raced = o.holder], "timeout")
    BY <1>1, <1>2 DEF CancelFuture, current_run
  <2>2. [o EXCEPT !.future = IF o.future = "pending" THEN "cancelled" ELSE @,
                         !.untasked = ~o.holder, !.raced = o.holder] = r
    BY <1>5, <1>7, <1>9, <1>11
  <2> QED BY <2>1, <2>2
<1>14. ready' = IF o.future = "pending" /\ o.chained THEN Append(ready, Handle("cancel", n)) ELSE ready
  BY <1>1, <1>2 DEF CancelFuture, current_run
<1>15. PICK s : s = [r EXCEPT !.said = "timeout"]
  OBVIOUS
<1>16. SameBut(s, r, {"said"}) /\ s.said = "timeout"
  <2>1. r \in Run
    BY <1>12 DEF SameBut
  <2> QED BY <2>1, <1>15, FieldSet
<1>17. runs'[n] = s
  BY <1>1, <1>4, <1>13, <1>15 DEF Leaves
<1>18. /\ a.task = o.task /\ a.told = o.told /\ a.deaf = o.deaf /\ a.work = o.work
       /\ a.chained = o.chained /\ a.holder = o.holder /\ a.graced = o.graced /\ a.for = o.for
  BY <1>8 DEF SameBut, Fields
<1>19. /\ b.task = a.task /\ b.told = a.told /\ b.deaf = a.deaf /\ b.work = a.work
       /\ b.chained = a.chained /\ b.holder = a.holder /\ b.graced = a.graced /\ b.for = a.for
       /\ b.future = a.future
  BY <1>10 DEF SameBut, Fields
<1>20. /\ r.task = b.task /\ r.told = b.told /\ r.deaf = b.deaf /\ r.work = b.work
       /\ r.chained = b.chained /\ r.holder = b.holder /\ r.graced = b.graced /\ r.for = b.for
       /\ r.future = b.future /\ r.untasked = b.untasked
  BY <1>12 DEF SameBut, Fields
<1>21. /\ s.task = r.task /\ s.told = r.told /\ s.deaf = r.deaf /\ s.work = r.work
       /\ s.chained = r.chained /\ s.holder = r.holder /\ s.graced = r.graced
       /\ s.future = r.future /\ s.untasked = r.untasked /\ s.raced = r.raced
  BY <1>16 DEF SameBut, Fields
<1>22. /\ s.task = o.task /\ s.told = o.told /\ s.deaf = o.deaf /\ s.work = o.work
       /\ s.chained = o.chained /\ s.holder = o.holder /\ s.graced = o.graced
       /\ s.future = f /\ s.untasked = ~o.holder /\ s.raced = o.holder /\ s.said = "timeout"
  BY <1>8, <1>10, <1>12, <1>16, <1>18, <1>19, <1>20, <1>21
<1>23. MayCancel(n)
  BY <1>14 DEF MayCancel
<1> HIDE <1>5, <1>7, <1>9, <1>11, <1>15
<1>24. /\ \A do : do # "cancel" => (Queued(do, n)' <=> Queued(do, n))
       /\ Queued("cancel", n) => Queued("cancel", n)'
       /\ ready' = ready => (Queued("cancel", n)' <=> Queued("cancel", n))
       /\ ready' = Append(ready, Handle("cancel", n)) => Queued("cancel", n)'
       /\ DrivenOnce(n) => DrivenOnce(n)'
       /\ CancelAfterWrapper(n) => CancelAfterWrapper(n)'
       /\ CancelBeforeStep(n) => CancelBeforeStep(n)'
       /\ ready' = Append(ready, Handle("cancel", n)) /\ ~Queued("step", n) => CancelBeforeStep(n)'
  BY <1>4, <1>23, CancelQueued
<1>25. /\ Queued("submit", n)' <=> Queued("submit", n)
       /\ Queued("wrapper", n)' <=> Queued("wrapper", n)
       /\ Queued("step", n)' <=> Queued("step", n)
       /\ Queued("settle", n)' <=> Queued("settle", n)
  BY <1>24
<1>26. /\ Queued("submit", n) <=> ~o.chained
       /\ Queued("wrapper", n) <=> o.chained /\ o.task = "none"
       /\ Queued("step", n) => o.task = "ready"
       /\ Queued("settle", n) => o.task = "done"
       /\ Queued("cancel", n) => o.chained
       /\ ~o.chained => o.task = "none"
       /\ o.holder <=> o.task # "none"
       /\ o.task = "none" => o.work = 0
  BY <1>2, <1>4 DEF RunInv, Place
<1>27. o.future # "pending" => o.task = "done"
  BY <1>2, <1>4 DEF RunInv, Outcome
<1>28. Queued("cancel", n)' => o.chained
  BY <1>14, <1>24, <1>26
<1>29. Place(n)'
  BY <1>17, <1>22, <1>25, <1>26, <1>28 DEF Place
<1>30. o.future = "pending" => f = "cancelled"
  BY <1>5
<1>31. Outcome(n)'
  <2>1. CASE o.future # "pending"
    BY <2>1, <1>17, <1>22, <1>26, <1>27 DEF Outcome
  <2>2. CASE o.future = "pending" /\ ~o.chained
    <3>1. ToBeCancelled(n)'
      BY <2>2, <1>17, <1>22, <1>25, <1>26, <1>30 DEF ToBeCancelled
    <3> QED BY <3>1, <2>2, <1>17, <1>22, <1>26 DEF Outcome
  <2>3. CASE o.future = "pending" /\ o.chained
    <3>1. ready' = Append(ready, Handle("cancel", n))
      BY <2>3, <1>14
    <3>2. Queued("cancel", n)' /\ (o.task = "none" => CancelBeforeStep(n)')
      BY <3>1, <1>24, <1>26
    <3> QED BY <3>2, <2>3, <1>17, <1>22, <1>26 DEF Outcome
  <2> QED BY <2>1, <2>2, <2>3
<1>32. RunInv(n)'
  BY <1>4, <1>24, <1>29, <1>31 DEF RunInv
<1>33. r \in Run /\ r.for = runs[n].for /\ beam.at \in Waiting
  BY <1>2, <1>3, <1>12, <1>18, <1>19, <1>20 DEF SameBut, Waiting
<1> QED BY <1>1, <1>13, <1>23, <1>32, <1>33, LeaveKeeps

(* A step that queues two handles, one behind the other.                     *)
LEMMA ListOfTwo ==
  ASSUME NEW S, NEW g \in S, NEW h \in S
  PROVE  \E s \in Seq(S) : s = <<g>> \o <<h>> /\ Len(s) = 2 /\ s[1] = g /\ s[2] = h /\ 1..Len(s) = {1, 2}
<1>1. PICK s : s = <<g>> \o <<h>>
  OBVIOUS
<1>2. s \in Seq(S) /\ Len(s) = 2 /\ s[1] = g /\ s[2] = h
  BY <1>1
<1>3. 1..Len(s) = {1, 2}
  BY <1>2
<1> QED BY <1>1, <1>2, <1>3

(* The run whose handle the loop takes.                                      *)
LEMMA HeadRun ==
  ASSUME BridgeInv, NEW it \in {"submit", "wrapper", "step", "cancel", "settle"}, Takes(it),
         NEW n, n = next_run
  PROVE  /\ ready \in Seq(LoopHandle) /\ ready # <<>> /\ runs \in Seq(Run)
         /\ Head(ready) = Handle(it, n) /\ Head(ready).run = n
         /\ n \in DOMAIN runs /\ n \in Nat /\ runs[n] \in Run /\ RunInv(n)
<1>1. /\ ready \in Seq(LoopHandle) /\ ready # <<>> /\ runs \in Seq(Run) /\ Head(ready).do = it
      /\ Head(ready).run = n
      /\ \A i \in DOMAIN ready : ready[i].run \in DOMAIN runs \/ ready[i] = Handle("stop", 0)
  BY DEF BridgeInv, BridgeType, Takes, next_run
<1>2. 1 \in DOMAIN ready /\ Head(ready) = ready[1] /\ Head(ready) \in LoopHandle
  BY <1>1
<1>3. Head(ready) = Handle(it, n)
  BY <1>1, <1>2 DEF LoopHandle, Handle
<1>4. Handle("stop", 0).do = "stop"
  BY DEF Handle
<1>5. n \in DOMAIN runs
  BY <1>1, <1>2, <1>4
<1>6. n \in Nat /\ runs[n] \in Run
  BY <1>1, <1>5, ListFacts
<1> QED BY <1>1, <1>3, <1>5, <1>6 DEF BridgeInv

(* call_soon_threadsafe's handle runs: the wrapper's task is made, and the   *)
(* cancellation of a future cancelled meanwhile follows it.                  *)
LEMMA LoopSubmitsKeeps == ASSUME BridgeInv, LoopSubmits PROVE BridgeInv'
<1>1. PICK n : n = next_run
  OBVIOUS
<1>2. /\ ready \in Seq(LoopHandle) /\ ready # <<>> /\ runs \in Seq(Run)
      /\ Head(ready) = Handle("submit", n) /\ Head(ready).run = n
      /\ n \in DOMAIN runs /\ n \in Nat /\ runs[n] \in Run /\ RunInv(n)
  <2>1. Takes("submit")
    BY DEF LoopSubmits
  <2> QED BY <2>1, <1>1, HeadRun
<1>3. PICK o : o = runs[n]
  OBVIOUS
<1>4. PICK r : r = [o EXCEPT !.chained = TRUE]
  OBVIOUS
<1>5. SameBut(r, o, {"chained"}) /\ r.chained = TRUE /\ r \in Run
  <2>1. SameBut(r, o, {"chained"}) /\ r.chained = TRUE
    BY <1>2, <1>3, <1>4, FlagSet
  <2> QED BY <2>1 DEF SameBut
<1>6. runs' = [runs EXCEPT ![n] = r] /\ beam' = beam
  BY <1>1, <1>3, <1>4 DEF LoopSubmits, Updates
<1> HIDE <1>4
<1>7. PICK w, c : w = Handle("wrapper", n) /\ c = Handle("cancel", n)
  OBVIOUS
<1>8. /\ w \in LoopHandle /\ c \in LoopHandle /\ w.run = n /\ c.run = n
      /\ w.do = "wrapper" /\ c.do = "cancel" /\ w # c
  BY <1>2, <1>7 DEF LoopHandle, Handle
<1>9. PICK hs \in Seq(LoopHandle) :
         /\ ready' = Tail(ready) \o hs
         /\ hs[1] = w /\ 1 \in 1..Len(hs)
         /\ IF o.future = "cancelled" THEN 1..Len(hs) = {1, 2} /\ hs[2] = c ELSE 1..Len(hs) = {1}
  <2>1. ready' = Tail(ready) \o (<<w>> \o (IF o.future = "cancelled" THEN <<c>> ELSE <<>>))
    BY <1>1, <1>3, <1>7 DEF LoopSubmits, Requeue
  <2>2. CASE o.future = "cancelled"
    <3>1. ready' = Tail(ready) \o (<<w>> \o <<c>>)
      BY <2>1, <2>2
    <3>2. \E s \in Seq(LoopHandle) : s = <<w>> \o <<c>> /\ Len(s) = 2 /\ s[1] = w /\ s[2] = c /\ 1..Len(s) = {1, 2}
      BY <1>8, ListOfTwo
    <3> QED BY <3>1, <3>2, <2>2
  <2>3. CASE o.future # "cancelled"
    <3>1. <<w>> \o <<>> = <<w>>
      OBVIOUS
    <3>2. ready' = Tail(ready) \o <<w>>
      BY <2>1, <2>3, <3>1
    <3>3. \E s \in Seq(LoopHandle) : s = <<w>> /\ Len(s) = 1 /\ s[1] = w /\ 1..Len(s) = {1}
      BY <1>8, ListOfOne
    <3> QED BY <3>2, <3>3, <2>3
  <2> QED BY <2>2, <2>3
<1>10. /\ \A k \in 1..Len(hs) : hs[k].run = n /\ ((hs[k] = w /\ k = 1) \/ (hs[k] = c /\ k = 2 /\ o.future = "cancelled"))
       /\ o.future = "cancelled" => \E k \in 1..Len(hs) : hs[k] = c
       /\ \E k \in 1..Len(hs) : hs[k] = w
  <2>1. CASE o.future = "cancelled"
    BY <2>1, <1>8, <1>9
  <2>2. CASE o.future # "cancelled"
    BY <2>2, <1>8, <1>9
  <2> QED BY <2>1, <2>2
<1>11. \A do : Handle(do, n).do = do /\ Handle(do, n).run = n
  BY DEF Handle
<1>12. /\ Queued("submit", n)
       /\ \A do : Queued(do, n)' => Queued(do, n) \/ \E k \in 1..Len(hs) : hs[k] = Handle(do, n)
       /\ \A do : (\E k \in 1..Len(hs) : hs[k] = Handle(do, n)) => Queued(do, n)'
       /\ \A do \in Driving : do # "submit" => ~Queued(do, n)
       /\ \A do \in Driving : Queued(do, n)' => \E k \in 1..Len(hs) : hs[k] = Handle(do, n)
       /\ (\A k, l \in 1..Len(hs) : hs[k].do \in Driving /\ hs[l].do \in Driving => k = l) => DrivenOnce(n)'
  <2>1. DrivenOnce(n) /\ CancelAfterWrapper(n) /\ "submit" \in Driving
    BY <1>2 DEF RunInv, Driving
  <2>2. PICK it : it = "submit"
    OBVIOUS
  <2>3. Head(ready) = Handle(it, n) /\ it \in Driving
    BY <1>2, <2>1, <2>2
  <2>4. HandleTaken(it, n, hs)
    BY <1>2, <1>9, <2>1, <2>3, HeadTaken
  <2> HIDE DEF Driving
  <2> QED BY <2>2, <2>3, <2>4 DEF HandleTaken
<1>13. /\ Queued("submit", n) <=> ~o.chained
       /\ Queued("settle", n) => o.task = "done"
       /\ Queued("cancel", n) => o.chained
       /\ ~o.chained => o.task = "none"
       /\ o.holder <=> o.task # "none"
       /\ o.task = "none" => o.work = 0
  BY <1>2, <1>3 DEF RunInv, Place
<1>14. ~Queued("wrapper", n) /\ ~Queued("step", n) /\ ~Queued("cancel", n) /\ ~Queued("settle", n)
       /\ o.task = "none" /\ ~o.chained
  BY <1>12, <1>13 DEF Driving
<1>15. /\ ~Queued("submit", n)' /\ Queued("wrapper", n)' /\ ~Queued("step", n)' /\ ~Queued("settle", n)'
       /\ Queued("cancel", n)' <=> o.future = "cancelled"
  <2>1. ~Queued("submit", n)' /\ ~Queued("step", n)' /\ ~Queued("settle", n)'
    BY <1>8, <1>10, <1>11, <1>12, <1>14 DEF Driving
  <2>2. Queued("wrapper", n)'
    BY <1>7, <1>10, <1>12
  <2>3. Queued("cancel", n)' <=> o.future = "cancelled"
    BY <1>7, <1>8, <1>10, <1>12, <1>14
  <2> QED BY <2>1, <2>2, <2>3
<1>16. runs'[n] = r
  BY <1>2, <1>5, <1>6, ListReplaced
<1>17. /\ r.future = o.future /\ r.task = o.task /\ r.told = o.told /\ r.deaf = o.deaf /\ r.work = o.work
       /\ r.holder = o.holder /\ r.untasked = o.untasked /\ r.raced = o.raced
       /\ r.graced = o.graced /\ r.said = o.said
  BY <1>5 DEF SameBut, Fields
<1>18. Place(n)'
  BY <1>5, <1>13, <1>14, <1>15, <1>16, <1>17 DEF Place
<1>19. Outcome(n)'
  <2>1. Queued("cancel", n)' => CancelBeforeStep(n)'
    BY <1>15, CancelGetsAhead
  <2>2. GaveUpOn(n)' <=> GaveUpOn(n)
    BY <1>3, <1>6, <1>16, <1>17 DEF GaveUpOn
  <2>3. Outcome(n)
    BY <1>2 DEF RunInv
  <2>4. ~CancelBeforeStep(n)
    BY <1>14 DEF CancelBeforeStep, Queued
  <2> QED BY <2>1, <2>2, <2>3, <2>4, <1>3, <1>14, <1>15, <1>16, <1>17 DEF Outcome, ToBeCancelled
<1>20. DrivenOnce(n)'
  BY <1>8, <1>10, <1>12 DEF Driving
<1>21. CancelAfterWrapper(n)'
  <2> SUFFICES ASSUME NEW i \in DOMAIN ready', NEW j \in DOMAIN ready', ready'[i] = w, ready'[j] = c
               PROVE  i < j
    BY <1>7 DEF CancelAfterWrapper
  <2>1. ready' \in Seq(LoopHandle) /\ Moves(1, hs)
    BY <1>2, <1>9, TakeMoves
  <2>2. PICK taken \in {0, 1} : taken = 1
    OBVIOUS
  <2>3. Len(ready) \in Nat /\ Len(ready) # 0
    BY <1>2
  <2>4. QueueMoved(taken, hs)
    <3>1. Moves(taken, hs) /\ taken <= Len(ready)
      BY <2>1, <2>2, <2>3
    <3> QED BY <3>1, <2>1, <1>2, QueueShape
  <2>5. ~\E k \in DOMAIN ready : ready[k] = w \/ ready[k] = c
    BY <1>7, <1>14 DEF Queued
  <2>6. PICK k \in 1..Len(hs) : i = Len(ready) - taken + k /\ hs[k] = w
    BY <2>4, <2>5 DEF QueueMoved
  <2>7. PICK l \in 1..Len(hs) : j = Len(ready) - taken + l /\ hs[l] = c
    BY <2>4, <2>5 DEF QueueMoved
  <2>8. k = 1 /\ l = 2
    BY <2>6, <2>7, <1>8, <1>10
  <2> QED BY <2>2, <2>3, <2>6, <2>7, <2>8
<1>22. RunInv(n)'
  BY <1>18, <1>19, <1>20, <1>21 DEF RunInv
<1>23. r.said = runs[n].said
  BY <1>3, <1>17
<1> QED BY <1>2, <1>5, <1>6, <1>9, <1>10, <1>22, <1>23, LoopMoves

\* What is queued of run n when it is taken and at most nx is queued.
TakenThen(it, n, nx) ==
    /\ \A do : Queued(do, n)' => Queued(do, n) \/ do = nx
    /\ \A do : do # it /\ Queued(do, n) => Queued(do, n)'
    /\ nx # "" => Queued(nx, n)'
    /\ Queued(it, n)
    /\ it \in Driving => /\ \A do \in Driving : do # it => ~Queued(do, n)
                         /\ \A do \in Driving : Queued(do, n)' => do = nx
    /\ nx \notin Driving \/ it \in Driving \/ (\A do \in Driving : ~Queued(do, n)) => DrivenOnce(n)'
    /\ CancelAfterWrapper(n)'
    /\ it # "cancel" /\ CancelBeforeStep(n) => CancelBeforeStep(n)'
    /\ it = "step" => ~CancelBeforeStep(n)
    /\ it = "cancel" => ~Queued("wrapper", n)

(* The loop takes a handle of a run, moves the run and queues what is next.  *)
LEMMA LoopTakes ==
  ASSUME BridgeInv, NEW it \in {"submit", "wrapper", "step", "cancel", "settle"}, Takes(it),
         NEW n, n = next_run, NEW nx \in {"", "step", "settle"},
         nx = "" => Requeue(<<>>), nx # "" => Requeue(<<Handle(nx, n)>>)
  PROVE  /\ TakenThen(it, n, nx) /\ n \in DOMAIN runs /\ runs[n] \in Run /\ RunInv(n)
         /\ \A r \in Run : runs' = [runs EXCEPT ![n] = r] /\ r.said = runs[n].said /\ beam' = beam /\ RunInv(n)'
                              => BridgeInv'
<1>1. /\ ready \in Seq(LoopHandle) /\ ready # <<>> /\ runs \in Seq(Run)
      /\ Head(ready) = Handle(it, n) /\ Head(ready).run = n
      /\ n \in DOMAIN runs /\ n \in Nat /\ runs[n] \in Run /\ RunInv(n)
  BY HeadRun
<1>2. DrivenOnce(n) /\ CancelAfterWrapper(n)
  BY <1>1 DEF RunInv
<1>3. \A a : Handle(a, n).do = a /\ Handle(a, n).run = n
  BY DEF Handle
<1>4. PICK hs \in Seq(LoopHandle) :
         /\ ready' = Tail(ready) \o hs
         /\ \A k \in 1..Len(hs) : k = 1 /\ hs[k] = Handle(nx, n)
         /\ nx # "" <=> 1 \in 1..Len(hs)
  <2>1. CASE nx = ""
    <3>1. ready' = Tail(ready) \o <<>>
      BY <2>1 DEF Requeue
    <3>2. PICK hs \in Seq(LoopHandle) : hs = <<>> /\ 1..Len(hs) = {}
      BY EmptyList
    <3> QED BY <2>1, <3>1, <3>2
  <2>2. CASE nx # ""
    <3>1. PICK h : h = Handle(nx, n)
      OBVIOUS
    <3>2. h \in LoopHandle
      BY <2>2, <3>1, <1>1 DEF LoopHandle, Handle
    <3>3. \E s \in Seq(LoopHandle) : s = <<h>> /\ Len(s) = 1 /\ s[1] = h /\ 1..Len(s) = {1}
      BY <3>2, ListOfOne
    <3>4. PICK hs \in Seq(LoopHandle) : hs = <<h>> /\ hs[1] = h /\ 1..Len(hs) = {1}
      BY <3>3
    <3>5. ready' = Tail(ready) \o <<h>>
      BY <2>2, <3>1 DEF Requeue
    <3>6. /\ \A k \in 1..Len(hs) : k = 1 /\ hs[k] = h
          /\ 1 \in 1..Len(hs)
      BY <3>4
    <3> QED BY <2>2, <3>1, <3>4, <3>5, <3>6
  <2> QED BY <2>1, <2>2
<1>5. HandleTaken(it, n, hs)
  BY <1>1, <1>2, <1>4, HeadTaken
<1>6. /\ \A k \in 1..Len(hs) : hs[k].run = n /\ hs[k].do = nx
      /\ \A k, l \in 1..Len(hs) : k = l
      /\ \A do : (\E k \in 1..Len(hs) : hs[k] = Handle(do, n)) => do = nx
      /\ nx # "" => \E k \in 1..Len(hs) : hs[k] = Handle(nx, n)
  <2>1. \A k \in 1..Len(hs) : hs[k].run = n /\ hs[k].do = nx
    BY <1>3, <1>4
  <2>2. \A k, l \in 1..Len(hs) : k = l
    BY <1>4
  <2>3. ASSUME NEW do, NEW k \in 1..Len(hs), hs[k] = Handle(do, n) PROVE do = nx
    <3>1. hs[k].do = nx
      BY <2>1
    <3>2. Handle(do, n).do = do
      BY DEF Handle
    <3> QED BY <3>1, <3>2, <2>3
  <2>4. nx # "" => \E k \in 1..Len(hs) : hs[k] = Handle(nx, n)
    BY <1>4
  <2> QED BY <2>1, <2>2, <2>3, <2>4
<1>7. TakenThen(it, n, nx)
  <2>1. nx # "wrapper"
    OBVIOUS
  <2> HIDE DEF Driving
  <2>2. nx \notin Driving \/ it \in Driving \/ (\A do \in Driving : ~Queued(do, n)) => DrivenOnce(n)'
    BY <1>5, <1>6 DEF HandleTaken
  <2>3. CancelAfterWrapper(n)'
    BY <1>5, <1>6, <2>1 DEF HandleTaken
  <2>4. /\ \A do : Queued(do, n)' => Queued(do, n) \/ do = nx
        /\ nx # "" => Queued(nx, n)'
        /\ it \in Driving => \A do \in Driving : Queued(do, n)' => do = nx
    BY <1>5, <1>6 DEF HandleTaken
  <2> QED BY <1>5, <2>2, <2>3, <2>4 DEF HandleTaken, TakenThen
<1>8. ASSUME NEW r \in Run, runs' = [runs EXCEPT ![n] = r], r.said = runs[n].said, beam' = beam, RunInv(n)'
      PROVE  BridgeInv'
  BY <1>1, <1>4, <1>6, <1>8, LoopMoves
<1> QED BY <1>1, <1>7, <1>8

(* _await_task: the coroutine's task is made and put where run looks.        *)
LEMMA AwaitTaskKeeps == ASSUME BridgeInv, _await_task PROVE BridgeInv'
<1>1. PICK n : n = next_run
  OBVIOUS
<1>2. PICK o : o = runs[n]
  OBVIOUS
<1>3. /\ TakenThen("wrapper", n, "step") /\ n \in DOMAIN runs /\ runs[n] \in Run /\ RunInv(n)
      /\ \A r \in Run : runs' = [runs EXCEPT ![n] = r] /\ r.said = runs[n].said /\ beam' = beam /\ RunInv(n)'
                              => BridgeInv'
  <2>1. Takes("wrapper") /\ Requeue(<<Handle("step", n)>>)
    BY <1>1 DEF _await_task
  <2> QED BY <2>1, <1>1, LoopTakes
<1>4. PICK a : a = [o EXCEPT !.holder = TRUE]
  OBVIOUS
<1>5. SameBut(a, o, {"holder"}) /\ a.holder = TRUE
  BY <1>2, <1>3, <1>4, FlagSet
<1>6. PICK r : r = [a EXCEPT !.task = "ready"]
  OBVIOUS
<1>7. SameBut(r, a, {"task"}) /\ r.task = "ready"
  <2>1. a \in Run
    BY <1>5 DEF SameBut
  <2> QED BY <2>1, <1>6, FieldSet
<1>8. /\ runs' = [runs EXCEPT ![n] = r] /\ beam' = beam
  BY <1>1, <1>2, <1>4, <1>6 DEF _await_task, Updates
<1> HIDE <1>4, <1>6
<1>9. runs \in Seq(Run) /\ r \in Run
  BY <1>7 DEF BridgeInv, BridgeType, SameBut
<1>10. runs'[n] = r
  BY <1>3, <1>8, <1>9, ListReplaced
<1>11. /\ a.future = o.future /\ a.chained = o.chained /\ a.told = o.told /\ a.deaf = o.deaf /\ a.work = o.work
       /\ a.untasked = o.untasked /\ a.raced = o.raced /\ a.graced = o.graced /\ a.said = o.said
  BY <1>5 DEF SameBut, Fields
<1>12. /\ r.future = a.future /\ r.chained = a.chained /\ r.told = a.told /\ r.deaf = a.deaf /\ r.work = a.work
       /\ r.untasked = a.untasked /\ r.raced = a.raced /\ r.graced = a.graced /\ r.said = a.said
       /\ r.holder = a.holder
  BY <1>7 DEF SameBut, Fields
<1>13. /\ Queued("wrapper", n) /\ ~Queued("submit", n) /\ ~Queued("step", n)
       /\ ~Queued("submit", n)' /\ ~Queued("wrapper", n)' /\ Queued("step", n)'
       /\ Queued("settle", n)' => Queued("settle", n)
       /\ Queued("cancel", n)' <=> Queued("cancel", n)
       /\ DrivenOnce(n)' /\ CancelAfterWrapper(n)'
       /\ CancelBeforeStep(n) => CancelBeforeStep(n)'
  BY <1>3 DEF TakenThen, Driving
<1>14. o.chained /\ o.task = "none" /\ ~Queued("settle", n) /\ o.work = 0
  BY <1>2, <1>3, <1>13 DEF RunInv, Place
<1>15. Place(n)'
  BY <1>5, <1>7, <1>10, <1>11, <1>12, <1>13, <1>14 DEF Place
<1>16. Outcome(n)'
  <2>1. GaveUpOn(n)' <=> GaveUpOn(n)
    BY <1>2, <1>8, <1>10, <1>11, <1>12 DEF GaveUpOn
  <2>2. Outcome(n)
    BY <1>3 DEF RunInv
  <2> QED BY <2>1, <2>2, <1>2, <1>7, <1>10, <1>11, <1>12, <1>13, <1>14 DEF Outcome, ToBeCancelled
<1>17. RunInv(n)'
  BY <1>13, <1>15, <1>16 DEF RunInv
<1>18. r.said = runs[n].said
  BY <1>2, <1>11, <1>12
<1> QED BY <1>3, <1>8, <1>9, <1>17, <1>18

(* task.cancel, which wakes a task that awaits something.                    *)
LEMMA LoopCancelsKeeps == ASSUME BridgeInv, LoopCancels PROVE BridgeInv'
<1>1. PICK n : n = next_run
  OBVIOUS
<1>2. PICK o : o = runs[n]
  OBVIOUS
<1>3. PICK nx \in {"", "step"} : nx = IF o.task = "parked" THEN "step" ELSE ""
  OBVIOUS
<1>4. /\ TakenThen("cancel", n, nx) /\ n \in DOMAIN runs /\ runs[n] \in Run /\ RunInv(n)
      /\ \A r \in Run : runs' = [runs EXCEPT ![n] = r] /\ r.said = runs[n].said /\ beam' = beam /\ RunInv(n)'
                              => BridgeInv'
  <2>1. Takes("cancel")
    BY DEF LoopCancels
  <2>2. Requeue(IF o.task = "parked" THEN <<Handle("step", n)>> ELSE <<>>)
    BY <1>1, <1>2 DEF LoopCancels
  <2>3. CASE o.task = "parked"
    <3>1. nx = "step" /\ Requeue(<<Handle(nx, n)>>)
      BY <2>2, <2>3, <1>3
    <3> QED BY <3>1, <2>1, <1>1, LoopTakes
  <2>4. CASE o.task # "parked"
    <3>1. nx = "" /\ Requeue(<<>>)
      BY <2>2, <2>4, <1>3
    <3> QED BY <3>1, <2>1, <1>1, LoopTakes
  <2> QED BY <2>3, <2>4
<1>5. PICK a : a = [o EXCEPT !.told = TRUE]
  OBVIOUS
<1>6. SameBut(a, o, {"told"}) /\ a.told = TRUE
  BY <1>2, <1>4, <1>5, FlagSet
<1>7. PICK b : b = [a EXCEPT !.task = "ready"]
  OBVIOUS
<1>8. SameBut(b, a, {"task"}) /\ b.task = "ready"
  <2>1. a \in Run
    BY <1>6 DEF SameBut
  <2> QED BY <2>1, <1>7, FieldSet
<1>9. PICK r : r = IF o.task = "done" THEN o ELSE b
  OBVIOUS
<1>10. runs' = [runs EXCEPT ![n] = r] /\ beam' = beam
  <2>1. b = [o EXCEPT !.told = TRUE, !.task = "ready"]
    BY <1>5, <1>7
  <2> QED BY <2>1, <1>1, <1>2, <1>9 DEF LoopCancels, Updates
<1> HIDE <1>5, <1>7
<1>11. runs \in Seq(Run) /\ r \in Run
  BY <1>2, <1>4, <1>8, <1>9 DEF BridgeInv, BridgeType, SameBut
<1>12. runs'[n] = r
  BY <1>4, <1>10, <1>11, ListReplaced
<1>13. /\ a.future = o.future /\ a.chained = o.chained /\ a.deaf = o.deaf /\ a.work = o.work
       /\ a.untasked = o.untasked /\ a.raced = o.raced /\ a.graced = o.graced /\ a.said = o.said
       /\ a.holder = o.holder
  BY <1>6 DEF SameBut, Fields
<1>14. /\ b.future = a.future /\ b.chained = a.chained /\ b.told = a.told /\ b.deaf = a.deaf /\ b.work = a.work
       /\ b.untasked = a.untasked /\ b.raced = a.raced /\ b.graced = a.graced /\ b.said = a.said
       /\ b.holder = a.holder
  BY <1>8 DEF SameBut, Fields
<1>15. /\ r.future = o.future /\ r.chained = o.chained /\ r.deaf = o.deaf /\ r.work = o.work
       /\ r.untasked = o.untasked /\ r.raced = o.raced /\ r.graced = o.graced /\ r.said = o.said
       /\ r.holder = o.holder
       /\ o.task = "done" => r.task = "done" /\ r.told = o.told
       /\ o.task # "done" => r.task = "ready" /\ r.told
  BY <1>6, <1>8, <1>9, <1>13, <1>14
<1>16. Place(n) /\ Outcome(n)
  BY <1>4 DEF RunInv
<1>17. o.chained /\ o.task # "none" /\ ~Queued("submit", n) /\ ~Queued("wrapper", n)
  BY <1>2, <1>4, <1>16 DEF Place, TakenThen
<1>18. /\ ~Queued("submit", n)' /\ ~Queued("wrapper", n)'
       /\ Queued("step", n)' => Queued("step", n) \/ o.task = "parked"
       /\ Queued("settle", n)' => Queued("settle", n)
       /\ CancelAfterWrapper(n)'
  BY <1>3, <1>4, <1>17 DEF TakenThen
<1>19. DrivenOnce(n)'
  <2>1. CASE o.task = "parked"
    <3>1. ~Queued("step", n)
      BY <2>1, <1>2, <1>16 DEF Place
    <3>2. \A do \in Driving : ~Queued(do, n)
      BY <3>1, <1>17 DEF Driving
    <3> QED BY <3>2, <1>4 DEF TakenThen
  <2>2. CASE o.task # "parked"
    <3>1. nx \notin Driving
      BY <2>2, <1>3 DEF Driving
    <3> QED BY <3>1, <1>4 DEF TakenThen
  <2> QED BY <2>1, <2>2
<1>20. Place(n)'
  BY <1>2, <1>12, <1>15, <1>16, <1>17, <1>18 DEF Place
<1>21. Outcome(n)'
  <2>1. GaveUpOn(n)' <=> GaveUpOn(n)
    BY <1>2, <1>10, <1>12, <1>15 DEF GaveUpOn
  <2> QED BY <2>1, <1>2, <1>12, <1>15, <1>16, <1>17 DEF Outcome, ToBeCancelled
<1>22. RunInv(n)'
  BY <1>18, <1>19, <1>20, <1>21 DEF RunInv
<1>23. r.said = runs[n].said
  BY <1>2, <1>15
<1> QED BY <1>4, <1>10, <1>11, <1>22, <1>23

(* A count of awaits that is 0 is not more than 0.                           *)
LEMMA ZeroIsNotMore == ASSUME NEW w \in Nat PROVE ~(w = 0 /\ w > 0)
OBVIOUS

\* The record a step of run n's coroutine leaves, r for o, and what it queues.
Stepped(n, r, o) ==
    /\ \/ r.task = "parked" /\ Requeue(<<>>)
       \/ r.task = "done" /\ Requeue(<<Handle("settle", n)>>)
    /\ r.future = o.future /\ r.chained = o.chained /\ r.holder = o.holder /\ r.said = o.said
    /\ r.graced = o.graced /\ r.untasked = o.untasked /\ r.raced = o.raced
    /\ \/ r.task = "done" /\ r.work = o.work /\ o.told
       \/ /\ o.told => o.work > 0
          /\ r.task = "parked" => r.told = FALSE /\ (r.deaf <=> o.deaf \/ o.told)

(* A step of a coroutine that stays parked or ends.  One that was cancelled  *)
(* before its first step does not get here.                                  *)
LEMMA SteppedRun ==
  ASSUME BridgeInv, Takes("step"), NEW n, n = next_run, NEW o, o = runs[n], NEW r \in Run,
         runs' = [runs EXCEPT ![n] = r], beam' = beam,
         Stepped(n, r, o)
  PROVE  BridgeInv'
<1>1. PICK nx \in {"", "settle"} : nx = IF r.task = "parked" THEN "" ELSE "settle"
  OBVIOUS
<1>2. /\ TakenThen("step", n, nx) /\ n \in DOMAIN runs /\ runs[n] \in Run /\ RunInv(n)
      /\ \A q \in Run : runs' = [runs EXCEPT ![n] = q] /\ q.said = runs[n].said /\ beam' = beam /\ RunInv(n)'
                              => BridgeInv'
  <2>1. nx = "" => Requeue(<<>>)
    BY <1>1 DEF Stepped
  <2>2. nx # "" => Requeue(<<Handle(nx, n)>>)
    BY <1>1 DEF Stepped
  <2>3. nx \in {"", "step", "settle"}
    OBVIOUS
  <2> QED BY <2>1, <2>2, <2>3, LoopTakes
<1>14. /\ \/ r.task = "parked" /\ nx = ""
          \/ r.task = "done" /\ nx = "settle"
       /\ r.future = o.future /\ r.chained = o.chained /\ r.holder = o.holder /\ r.said = o.said
       /\ r.graced = o.graced /\ r.untasked = o.untasked /\ r.raced = o.raced
       /\ \/ r.task = "done" /\ r.work = o.work /\ o.told
          \/ /\ o.told => o.work > 0
             /\ r.task = "parked" => r.told = FALSE /\ (r.deaf <=> o.deaf \/ o.told)
  BY <1>1 DEF Stepped
<1>3. runs \in Seq(Run)
  BY DEF BridgeInv, BridgeType
<1>4. runs'[n] = r
  BY <1>2, <1>3, ListReplaced
<1>5. /\ Queued("step", n) /\ ~Queued("submit", n) /\ ~Queued("wrapper", n)
      /\ ~Queued("submit", n)' /\ ~Queued("wrapper", n)' /\ ~Queued("step", n)'
      /\ Queued("settle", n)' => Queued("settle", n) \/ nx = "settle"
      /\ Queued("cancel", n)' <=> Queued("cancel", n)
      /\ DrivenOnce(n)' /\ CancelAfterWrapper(n)' /\ ~CancelBeforeStep(n)
  BY <1>1, <1>2 DEF TakenThen, Driving
<1>6. Place(n) /\ Outcome(n)
  BY <1>2 DEF RunInv
<1>7. o.chained /\ o.task = "ready" /\ ~Queued("settle", n) /\ o.holder
  BY <1>5, <1>6 DEF Place
<1>8. Place(n)'
  BY <1>1, <1>4, <1>5, <1>7, <1>14 DEF Place
<1>9. GaveUpOn(n)' <=> GaveUpOn(n)
  BY <1>4, <1>14 DEF GaveUpOn
<1>10. ~ToBeCancelled(n)
  BY <1>5 DEF ToBeCancelled
<1>11. o.untasked => o.work = 0 /\ o.told
  BY <1>5, <1>6, <1>7, <1>10, <1>14 DEF Outcome
<1>12. Outcome(n)'
  <2>1. CASE r.task = "done" /\ r.work = o.work /\ o.told
    BY <2>1, <1>4, <1>6, <1>11, <1>14 DEF Outcome
  <2>2. CASE /\ o.told => o.work > 0
             /\ r.task = "parked" => r.told = FALSE /\ (r.deaf <=> o.deaf \/ o.told)
    <3>1. ~o.untasked
      <4>1. o.work \in Nat
        <5>1. o \in Run
          BY <1>2
        <5> QED BY <5>1 DEF Run
      <4>2. PICK w \in Nat : w = o.work
        BY <4>1
      <4>3. o.untasked => w = 0 /\ w > 0
        BY <4>2, <2>2, <1>11
      <4>4. ~(w = 0 /\ w > 0)
        BY ZeroIsNotMore
      <4> QED BY <4>3, <4>4
    <3>2. CASE r.task = "done"
      BY <3>1, <3>2, <1>4, <1>14 DEF Outcome
    <3>3. CASE r.task = "parked"
      <4>1. r.said = "" \/ r.graced \/ r.raced
        BY <3>1, <1>6, <1>7, <1>14 DEF Outcome
      <4>2. GaveUpOn(n) => o.told \/ o.deaf \/ Queued("cancel", n)
        BY <1>6, <1>7, <1>10 DEF Outcome
      <4>3. GaveUpOn(n) => r.deaf \/ Queued("cancel", n)
        BY <4>2, <3>3, <2>2
      <4>4. r.future # "pending" => r.said # ""
        BY <1>6, <1>7, <1>14 DEF Outcome
      <4>5. ~r.untasked
        BY <3>1, <1>14
      <4> QED BY <4>1, <4>3, <4>4, <4>5, <1>4, <1>5, <1>9 DEF Outcome
    <3> QED BY <3>2, <3>3, <1>14
  <2> QED BY <2>1, <2>2, <1>14
<1>13. RunInv(n)'
  BY <1>5, <1>8, <1>12 DEF RunInv
<1> QED BY <1>2, <1>13, <1>14

(* A coroutine that never ran is cancelled without running.                  *)
LEMMA StepUnstartedKeeps == ASSUME BridgeInv, StepUnstarted PROVE BridgeInv'
<1>1. PICK n : n = next_run
  OBVIOUS
<1>2. PICK o : o = runs[n]
  OBVIOUS
<1>3. Takes("step") /\ o.told /\ o.work = 0 /\ beam' = beam
  BY <1>1, <1>2 DEF StepUnstarted
<1>4. o \in Run
  BY <1>1, <1>2, <1>3, HeadRun
<1>5. PICK a : a = [o EXCEPT !.task = "done"]
  OBVIOUS
<1>6. SameBut(a, o, {"task"}) /\ a.task = "done"
  BY <1>4, <1>5, FieldSet
<1>7. PICK r : r = [a EXCEPT !.ends = "cancelled"]
  OBVIOUS
<1>8. SameBut(r, a, {"ends"})
  <2>1. a \in Run
    BY <1>6 DEF SameBut
  <2> QED BY <2>1, <1>7, FieldSet
<1>9. runs' = [runs EXCEPT ![n] = r] /\ Requeue(<<Handle("settle", n)>>)
  BY <1>1, <1>2, <1>5, <1>7 DEF StepUnstarted, Finished, Updates
<1>10. /\ a.future = o.future /\ a.chained = o.chained /\ a.holder = o.holder /\ a.said = o.said
       /\ a.graced = o.graced /\ a.untasked = o.untasked /\ a.raced = o.raced /\ a.work = o.work
  BY <1>6 DEF SameBut, Fields
<1>11. /\ r.future = a.future /\ r.chained = a.chained /\ r.holder = a.holder /\ r.said = a.said
       /\ r.graced = a.graced /\ r.untasked = a.untasked /\ r.raced = a.raced /\ r.work = a.work
       /\ r.task = a.task /\ r \in Run
  BY <1>8 DEF SameBut, Fields
<1>12. Stepped(n, r, o)
  BY <1>3, <1>6, <1>9, <1>10, <1>11 DEF Stepped
<1> QED BY <1>1, <1>2, <1>3, <1>9, <1>11, <1>12, SteppedRun

(* A step of the coroutine, whichever way it goes on.                        *)
LEMMA StepCoroutineKeeps == ASSUME BridgeInv, StepCoroutine PROVE BridgeInv'
<1>1. PICK n : n = next_run
  OBVIOUS
<1>2. PICK o : o = runs[n]
  OBVIOUS
<1>3. Takes("step") /\ (o.told => o.work > 0) /\ beam' = beam
  BY <1>1, <1>2 DEF StepCoroutine
<1>4. o \in Run
  BY <1>1, <1>2, <1>3, HeadRun
<1>5. o.work \in Nat /\ o.told \in BOOLEAN /\ o.deaf \in BOOLEAN
  BY <1>4 DEF Run
<1>6. PICK x \in Nat : x = o.work + 1
  BY <1>5
<1>7. PICK a : a = [o EXCEPT !.work = x]
  OBVIOUS
<1>8. SameBut(a, o, {"work"}) /\ a \in Run
  <2>1. SameBut(a, o, {"work"})
    BY <1>4, <1>7, FieldSet
  <2> QED BY <2>1 DEF SameBut
<1>9. PICK b : b = [a EXCEPT !.told = FALSE]
  OBVIOUS
<1>10. SameBut(b, a, {"told"}) /\ b.told = FALSE /\ b \in Run
  <2>1. SameBut(b, a, {"told"}) /\ b.told = FALSE
    BY <1>8, <1>9, FlagSet
  <2> QED BY <2>1 DEF SameBut
<1>11. PICK d \in BOOLEAN : d = (o.deaf \/ o.told)
  OBVIOUS
<1>12. PICK worked : worked = [b EXCEPT !.deaf = d]
  OBVIOUS
<1>13. SameBut(worked, b, {"deaf"}) /\ worked.deaf = d /\ worked \in Run
  <2>1. SameBut(worked, b, {"deaf"}) /\ worked.deaf = d
    BY <1>10, <1>11, <1>12, FlagSet
  <2> QED BY <2>1 DEF SameBut
<1>14. worked = [o EXCEPT !.work = @ + 1, !.told = FALSE, !.deaf = @ \/ o.told]
  BY <1>6, <1>7, <1>9, <1>11, <1>12
<1>15. /\ a.future = o.future /\ a.chained = o.chained /\ a.holder = o.holder /\ a.said = o.said
       /\ a.graced = o.graced /\ a.untasked = o.untasked /\ a.raced = o.raced
  BY <1>8 DEF SameBut, Fields
<1>16. /\ b.future = a.future /\ b.chained = a.chained /\ b.holder = a.holder /\ b.said = a.said
       /\ b.graced = a.graced /\ b.untasked = a.untasked /\ b.raced = a.raced
  BY <1>10 DEF SameBut, Fields
<1>17. /\ worked.future = b.future /\ worked.chained = b.chained /\ worked.holder = b.holder
       /\ worked.said = b.said /\ worked.graced = b.graced /\ worked.untasked = b.untasked
       /\ worked.raced = b.raced /\ worked.told = b.told
  BY <1>13 DEF SameBut, Fields
<1>18. /\ worked.future = o.future /\ worked.chained = o.chained /\ worked.holder = o.holder
       /\ worked.said = o.said /\ worked.graced = o.graced /\ worked.untasked = o.untasked
       /\ worked.raced = o.raced /\ worked.told = FALSE /\ (worked.deaf <=> o.deaf \/ o.told)
  BY <1>10, <1>11, <1>13, <1>15, <1>16, <1>17
<1>19. \/ Updates([worked EXCEPT !.task = "parked"]) /\ Requeue(<<>>)
       \/ \E ends \in {"returned"} \cup raisable(o.for) : Finished(worked, ends)
       \/ o.told /\ Finished([o EXCEPT !.told = FALSE], "cancelled")
  BY <1>1, <1>2, <1>14 DEF StepCoroutine
<1> HIDE <1>7, <1>9, <1>12, <1>14
<1>20. ASSUME NEW w \in Run, NEW ends \in {"returned", "raised", "timeout_error", "cancelled"},
              Finished(w, ends),
              w.future = o.future, w.chained = o.chained, w.holder = o.holder, w.said = o.said,
              w.graced = o.graced, w.untasked = o.untasked, w.raced = o.raced
       PROVE  BridgeInv'
  <2>1. PICK c : c = [w EXCEPT !.task = "done"]
    OBVIOUS
  <2>2. SameBut(c, w, {"task"}) /\ c.task = "done" /\ c \in Run
    <3>1. SameBut(c, w, {"task"}) /\ c.task = "done"
      BY <2>1, FieldSet
    <3> QED BY <3>1 DEF SameBut
  <2>3. PICK r : r = [c EXCEPT !.ends = ends]
    OBVIOUS
  <2>4. SameBut(r, c, {"ends"})
    <3>1. ends \in {"", "cancelled", "returned", "raised", "timeout_error"}
      OBVIOUS
    <3> QED BY <3>1, <2>2, <2>3, FieldSet
  <2>5. runs' = [runs EXCEPT ![n] = r] /\ Requeue(<<Handle("settle", n)>>)
    BY <1>1, <1>20, <2>1, <2>3 DEF Finished, Updates
  <2>6. /\ c.future = w.future /\ c.chained = w.chained /\ c.holder = w.holder /\ c.said = w.said
        /\ c.graced = w.graced /\ c.untasked = w.untasked /\ c.raced = w.raced
    BY <2>2 DEF SameBut, Fields
  <2>7. /\ r.future = c.future /\ r.chained = c.chained /\ r.holder = c.holder /\ r.said = c.said
        /\ r.graced = c.graced /\ r.untasked = c.untasked /\ r.raced = c.raced
        /\ r.task = c.task /\ r \in Run
    BY <2>4 DEF SameBut, Fields
  <2> HIDE <2>1, <2>3
  <2>8. r.task = "done" /\ r.task # "parked"
    BY <2>2, <2>7
  <2>9. Stepped(n, r, o)
    BY <1>3, <1>20, <2>5, <2>6, <2>7, <2>8 DEF Stepped
  <2> QED BY <1>1, <1>2, <1>3, <2>5, <2>7, <2>9, SteppedRun
<1>21. CASE Updates([worked EXCEPT !.task = "parked"]) /\ Requeue(<<>>)
  <2>1. PICK r : r = [worked EXCEPT !.task = "parked"]
    OBVIOUS
  <2>2. SameBut(r, worked, {"task"}) /\ r.task = "parked"
    BY <2>1, <1>13, FieldSet
  <2>3. runs' = [runs EXCEPT ![n] = r]
    BY <1>1, <1>21, <2>1 DEF Updates
  <2>4. /\ r.future = worked.future /\ r.chained = worked.chained /\ r.holder = worked.holder
        /\ r.said = worked.said /\ r.graced = worked.graced /\ r.untasked = worked.untasked
        /\ r.raced = worked.raced /\ r.told = worked.told /\ r.deaf = worked.deaf /\ r \in Run
    BY <2>2 DEF SameBut, Fields
  <2> HIDE <2>1
  <2>5. Stepped(n, r, o)
    BY <1>3, <1>18, <1>21, <2>2, <2>4 DEF Stepped
  <2> QED BY <1>1, <1>2, <1>3, <2>3, <2>4, <2>5, SteppedRun
<1>22. CASE \E ends \in {"returned"} \cup raisable(o.for) : Finished(worked, ends)
  <2>1. raisable(o.for) \subseteq {"raised", "timeout_error"}
    BY DEF raisable
  <2>2. PICK ends \in {"returned", "raised", "timeout_error", "cancelled"} : Finished(worked, ends)
    BY <2>1, <1>22
  <2> QED BY <2>2, <1>13, <1>18, <1>20
<1>23. CASE o.told /\ Finished([o EXCEPT !.told = FALSE], "cancelled")
  <2>1. PICK w : w = [o EXCEPT !.told = FALSE]
    OBVIOUS
  <2>2. SameBut(w, o, {"told"})
    BY <2>1, <1>4, FlagSet
  <2>3. /\ w.future = o.future /\ w.chained = o.chained /\ w.holder = o.holder /\ w.said = o.said
        /\ w.graced = o.graced /\ w.untasked = o.untasked /\ w.raced = o.raced /\ w \in Run
    BY <2>2 DEF SameBut, Fields
  <2>4. Finished(w, "cancelled")
    BY <2>1, <1>23
  <2> QED BY <2>3, <2>4, <1>20
<1> QED BY <1>19, <1>21, <1>22, <1>23

(* The coroutine's outcome reaches its future.                               *)
LEMMA LoopSettlesKeeps == ASSUME BridgeInv, LoopSettles PROVE BridgeInv'
<1>1. PICK n : n = next_run
  OBVIOUS
<1>2. PICK o : o = runs[n]
  OBVIOUS
<1>3. /\ TakenThen("settle", n, "") /\ n \in DOMAIN runs /\ runs[n] \in Run /\ RunInv(n)
      /\ \A r \in Run : runs' = [runs EXCEPT ![n] = r] /\ r.said = runs[n].said /\ beam' = beam /\ RunInv(n)'
                              => BridgeInv'
  <2>1. Takes("settle") /\ Requeue(<<>>)
    BY DEF LoopSettles
  <2> QED BY <2>1, <1>1, LoopTakes
<1>4. PICK future : future = IF o.future = "pending" THEN o.ends ELSE o.future
  OBVIOUS
<1>5. future \in {"pending", "cancelled", "returned", "raised", "timeout_error", ""}
  BY <1>2, <1>3, <1>4 DEF Run
<1>6. PICK r : r = [o EXCEPT !.future = future]
  OBVIOUS
<1>7. SameBut(r, o, {"future"}) /\ r.future = future
  <2>1. o \in Run
    BY <1>2, <1>3
  <2>2. /\ SameBut([o EXCEPT !.future = future], o, {"future"})
        /\ [o EXCEPT !.future = future].future = future
    BY ONLY <2>1, <1>5, FieldSet
  <2> QED BY ONLY <2>2, <1>6
<1>8. runs' = [runs EXCEPT ![n] = r] /\ beam' = beam
  BY <1>1, <1>2, <1>4, <1>6 DEF LoopSettles, Updates
<1> HIDE <1>6
<1>9. runs \in Seq(Run) /\ r \in Run
  BY <1>7 DEF BridgeInv, BridgeType, SameBut
<1>10. runs'[n] = r
  BY <1>3, <1>8, <1>9, ListReplaced
<1>11. /\ r.task = o.task /\ r.chained = o.chained /\ r.told = o.told /\ r.deaf = o.deaf /\ r.work = o.work
       /\ r.untasked = o.untasked /\ r.raced = o.raced /\ r.graced = o.graced /\ r.said = o.said
       /\ r.holder = o.holder
  BY <1>7 DEF SameBut, Fields
<1>12. /\ Queued("settle", n) /\ DrivenOnce(n)' /\ CancelAfterWrapper(n)'
       /\ Queued("submit", n)' <=> Queued("submit", n)
       /\ Queued("wrapper", n)' <=> Queued("wrapper", n)
       /\ Queued("step", n)' <=> Queued("step", n)
       /\ Queued("cancel", n)' <=> Queued("cancel", n)
       /\ Queued("settle", n)' => Queued("settle", n)
  BY <1>3 DEF TakenThen, Driving
<1>13. Place(n) /\ Outcome(n)
  BY <1>3 DEF RunInv
<1>14. o.task = "done"
  BY <1>2, <1>12, <1>13 DEF Place
<1>15. Place(n)'
  BY <1>2, <1>10, <1>11, <1>12, <1>13 DEF Place
<1>16. o.untasked => o.work = 0
  BY <1>2, <1>13 DEF Outcome
<1>17. Outcome(n)'
  BY <1>10, <1>11, <1>14, <1>16 DEF Outcome
<1>18. RunInv(n)'
  BY <1>12, <1>15, <1>17 DEF RunInv
<1> QED BY <1>2, <1>3, <1>8, <1>9, <1>11, <1>18

(* What a parked coroutine awaits is there: its next step is queued.         *)
LEMMA WakeKeeps == ASSUME BridgeInv, NEW n \in DOMAIN runs, WakeCoroutine(n) PROVE BridgeInv'
<1>1. BridgeType /\ ready \in Seq(LoopHandle) /\ runs \in Seq(Run) /\ RunInv(n)
  BY DEF BridgeInv, BridgeType
<1>2. n \in Nat /\ runs[n] \in Run
  BY <1>1, ListFacts
<1>3. PICK o : o = runs[n]
  OBVIOUS
<1>4. PICK r : r = [o EXCEPT !.task = "ready"]
  OBVIOUS
<1>5. SameBut(r, o, {"task"}) /\ r.task = "ready"
  <2>1. o \in Run
    BY <1>2, <1>3
  <2> QED BY <2>1, <1>4, FieldSet
<1>6. PICK h : h = Handle("step", n)
  OBVIOUS
<1>7. /\ o.task = "parked" /\ ready' = Append(ready, h) /\ beam' = beam
      /\ runs' = [runs EXCEPT ![n] = r]
  BY <1>3, <1>4, <1>6 DEF WakeCoroutine
<1> HIDE <1>4
<1>8. h \in LoopHandle /\ h.run = n /\ h.do = "step"
  BY <1>2, <1>6 DEF LoopHandle, Handle
<1>9. r \in Run /\ runs'[n] = r
  <2>1. r \in Run
    BY <1>5 DEF SameBut
  <2> QED BY <2>1, <1>1, <1>7, ListReplaced
<1>10. /\ r.future = o.future /\ r.chained = o.chained /\ r.told = o.told /\ r.deaf = o.deaf /\ r.work = o.work
       /\ r.untasked = o.untasked /\ r.raced = o.raced /\ r.graced = o.graced /\ r.said = o.said
       /\ r.holder = o.holder
  BY <1>5 DEF SameBut, Fields
<1>11. DrivenOnce(n) /\ Place(n) /\ CancelAfterWrapper(n) /\ Outcome(n)
  BY <1>1 DEF RunInv
<1>12. o.chained /\ ~Queued("submit", n) /\ ~Queued("wrapper", n) /\ ~Queued("step", n) /\ ~Queued("settle", n)
  BY <1>3, <1>7, <1>11 DEF Place
<1>13. \A do \in Driving : ~Queued(do, n)
  BY <1>12 DEF Driving
<1>14. /\ \A do : Queued(do, n)' <=> Queued(do, n) \/ h = Handle(do, n)
       /\ DrivenOnce(n)' /\ CancelAfterWrapper(n)'
       /\ CancelBeforeStep(n) => CancelBeforeStep(n)'
  BY <1>1, <1>2, <1>7, <1>8, <1>11, <1>13, HandleAdded
<1>15. \A do : h = Handle(do, n) => do = "step"
  <2>1. \A do : Handle(do, n).do = do
    BY DEF Handle
  <2> QED BY <2>1, <1>8
<1>16. /\ ~Queued("submit", n)' /\ ~Queued("wrapper", n)' /\ ~Queued("settle", n)'
       /\ Queued("cancel", n)' <=> Queued("cancel", n)
  BY <1>12, <1>14, <1>15
<1>17. Place(n)'
  BY <1>3, <1>5, <1>7, <1>9, <1>10, <1>11, <1>12, <1>16 DEF Place
<1>18. Outcome(n)'
  <2>1. GaveUpOn(n)' <=> GaveUpOn(n)
    BY <1>3, <1>7, <1>9, <1>10 DEF GaveUpOn
  <2> QED BY <2>1, <1>3, <1>7, <1>9, <1>10, <1>11, <1>12, <1>14, <1>16 DEF Outcome, ToBeCancelled
<1>19. RunInv(n)'
  BY <1>14, <1>17, <1>18 DEF RunInv
<1>20. PICK taken \in {0, 1} : taken = 0
  OBVIOUS
<1>21. PICK hs \in Seq(LoopHandle) : hs = <<h>> /\ hs[1] = h /\ 1..Len(hs) = {1}
  <2>1. \E s \in Seq(LoopHandle) : s = <<h>> /\ Len(s) = 1 /\ s[1] = h /\ 1..Len(s) = {1}
    BY <1>8, ListOfOne
  <2> QED BY <2>1
<1>22. ready' \in Seq(LoopHandle) /\ Moves(taken, hs)
  BY <1>1, <1>7, <1>8, <1>20, <1>21, AddMoves
<1>23. Len(ready) \in Nat
  BY <1>1, ListFacts
<1>24. taken <= Len(ready) /\ taken # 1
  BY <1>20, <1>23, NothingTaken
<1>25. \A k \in 1..Len(hs) : hs[k].run = n
  BY <1>8, <1>21
<1>26. \A m \in DOMAIN runs : m # n /\ GaveUpOn(m)' => GaveUpOn(m)
  BY <1>1, <1>7, <1>9, ListReplaced DEF GaveUpOn
<1>27. /\ beam' \in Beam
       /\ beam'.at \in Waiting => beam'.run \in DOMAIN runs' /\ runs'[beam'.run].said = ""
  <2>1. beam \in Beam /\ (beam.at \in Waiting => beam.run \in DOMAIN runs /\ runs[beam.run].said = "")
    BY <1>1 DEF BridgeType
  <2>2. DOMAIN runs' = DOMAIN runs /\ \A m \in DOMAIN runs : m # n => runs'[m] = runs[m]
    BY <1>1, <1>7, <1>9, ListReplaced
  <2>3. \A m \in DOMAIN runs : runs'[m].said = runs[m].said
    BY <2>2, <1>3, <1>9, <1>10
  <2> QED BY <2>1, <2>2, <2>3, <1>7
<1> QED BY <1>7, <1>9, <1>19, <1>22, <1>24, <1>25, <1>26, <1>27, RunMoves

(* loop.stop is a handle of no run; the loop stops once it was taken.        *)
LEMMA LoopStopsKeeps == ASSUME BridgeInv, LoopStops PROVE BridgeInv'
<1>1. /\ BridgeType /\ ready \in Seq(LoopHandle) /\ runs \in Seq(Run) /\ beam \in Beam
      /\ beam' = beam /\ runs' = runs
  BY DEF BridgeInv, BridgeType, LoopStops
<1>2. /\ beam'.at \in Waiting => beam'.run \in DOMAIN runs /\ runs[beam'.run].said = ""
      /\ \A m \in DOMAIN runs : GaveUpOn(m)' => GaveUpOn(m)
  BY <1>1 DEF BridgeType, GaveUpOn
<1>3. CASE Takes("stop") /\ Requeue(<<>>)
  <2>1. PICK hs \in Seq(LoopHandle) : hs = <<>> /\ 1..Len(hs) = {}
    BY EmptyList
  <2>2. ready # <<>> /\ Head(ready).do = "stop" /\ ready' = Tail(ready) \o hs
    BY <1>3, <2>1 DEF Takes, Requeue
  <2>3. PICK taken \in {0, 1} : taken = 1
    OBVIOUS
  <2>4. ready' \in Seq(LoopHandle) /\ Moves(taken, hs) /\ 1 \in DOMAIN ready /\ Head(ready) = ready[1]
    BY <1>1, <2>2, <2>3, TakeMoves
  <2>5. ready[1].run = 0
    <3>1. ready[1] \in LoopHandle /\ ready[1].do = "stop"
      BY <1>1, <2>2, <2>4, ListFacts
    <3> QED BY <3>1 DEF LoopHandle
  <2>6. ready[1].run \notin DOMAIN runs
    BY <1>1, <2>5, ListFacts
  <2>7. taken <= Len(ready)
    BY <1>1, <2>3, <2>4, ListFacts
  <2> QED BY <1>1, <1>2, <2>1, <2>4, <2>6, <2>7, QuietMoves
<1>4. CASE ready' = ready
  BY <1>1, <1>4, BeamGoesOn
<1> QED BY <1>3, <1>4 DEF LoopStops

(* stop queues the handle that stops the loop.                               *)
LEMMA StopLoopKeeps == ASSUME BridgeInv, StopLoop PROVE BridgeInv'
<1>1. /\ BridgeType /\ ready \in Seq(LoopHandle) /\ beam \in Beam /\ runs' = runs
      /\ beam' = [beam EXCEPT !.at = "joining"] /\ ready' = Append(ready, Handle("stop", 0))
  BY DEF BridgeInv, BridgeType, StopLoop
<1>2. beam' \in Beam /\ beam'.at = "joining" /\ "joining" \notin Waiting
  BY <1>1 DEF Beam, Waiting
<1>3. PICK h \in LoopHandle : h = Handle("stop", 0)
  BY DEF LoopHandle, Handle
<1>4. PICK hs \in Seq(LoopHandle) : hs = <<h>> /\ hs[1] = h /\ 1..Len(hs) = {1}
  <2>1. \E s \in Seq(LoopHandle) : s = <<h>> /\ Len(s) = 1 /\ s[1] = h /\ 1..Len(s) = {1}
    BY ListOfOne
  <2> QED BY <2>1
<1>5. PICK taken \in {0, 1} : taken = 0
  OBVIOUS
<1>6. ready' \in Seq(LoopHandle) /\ Moves(taken, hs)
  BY <1>1, <1>3, <1>4, <1>5, AddMoves
<1>7. Len(ready) \in Nat
  BY <1>1, ListFacts
<1>8. taken <= Len(ready) /\ taken # 1
  BY <1>5, <1>7, NothingTaken
<1>9. \A m \in DOMAIN runs : GaveUpOn(m)' => GaveUpOn(m)
  BY <1>1, <1>2 DEF GaveUpOn
<1>10. \A k \in 1..Len(hs) : hs[k] = Handle("stop", 0)
  BY <1>3, <1>4
<1> QED BY <1>1, <1>2, <1>6, <1>8, <1>9, <1>10, QuietMoves

(* The Beam thread's steps that leave the loop's queue and the runs alone:   *)
(* a wait that runs out, a look into holder, the end of the join.            *)
LEMMA BeamMovesKeeps ==
  ASSUME BridgeInv, ready' = ready, runs' = runs, NEW at, beam' = [beam EXCEPT !.at = at],
         \/ at \in {"idle", "stopping", "closed", "failed"}
         \/ at \in {"expired", "untasked"} /\ beam.at \in Waiting
  PROVE  BridgeInv'
<1>1. beam \in Beam
  BY DEF BridgeInv, BridgeType
<1>2. beam' \in Beam /\ beam'.at = at /\ beam'.run = beam.run
  BY <1>1 DEF Beam, Waiting
<1>3. at # "draining" /\ (at \in Waiting => beam.at \in Waiting)
  BY DEF Waiting
<1> QED BY <1>2, <1>3, BeamGoesOn

(* Every step of a bridge keeps its invariant.                               *)
LEMMA BridgeKeeps == BridgeInv /\ [BridgeNext]_bridgeVars => BridgeInv'
<1> SUFFICES ASSUME BridgeInv, [BridgeNext]_bridgeVars PROVE BridgeInv'
  OBVIOUS
<1>1. CASE BridgeSetup
  <2>1. CASE configured
    <3>1. submitted("build")
      BY <1>1, <2>1 DEF BridgeSetup
    <3> QED BY <3>1, SubmittedKeeps
  <2>2. CASE ~configured
    <3>1. beam' = [beam EXCEPT !.at = "idle"] /\ runs' = runs /\ ready' = ready
      BY <1>1, <2>2 DEF BridgeSetup
    <3> QED BY <3>1, BeamMovesKeeps
  <2> QED BY <2>1, <2>2
<1>2. CASE BridgeTeardown
  <2>1. CASE configured
    <3>1. submitted("close")
      BY <1>2, <2>1 DEF BridgeTeardown
    <3> QED BY <3>1, SubmittedKeeps
  <2>2. CASE ~configured
    <3>1. beam' = [beam EXCEPT !.at = "stopping"] /\ runs' = runs /\ ready' = ready
      BY <1>2, <2>2 DEF BridgeTeardown
    <3> QED BY <3>1, BeamMovesKeeps
  <2> QED BY <2>1, <2>2
<1>3. CASE CloseLoop
  <2>1. runs' = runs /\ ready' = ready
    BY <1>3 DEF CloseLoop
  <2>2. beam' = [beam EXCEPT !.at = "closed"] \/ beam' = [beam EXCEPT !.at = "failed"]
    BY <1>3 DEF CloseLoop
  <2> QED BY <2>1, <2>2, BeamMovesKeeps
<1>4. ASSUME NEW for \in {"activation", "hook"}, SubmitCoroutine(for) PROVE BridgeInv'
  <2>1. submitted(for)
    BY <1>4 DEF SubmitCoroutine
  <2> QED BY <2>1, SubmittedKeeps
<1>5. CASE FutureTimesOut
  <2>1. runs' = runs /\ ready' = ready /\ beam' = [beam EXCEPT !.at = "expired"] /\ beam.at \in Waiting
    BY <1>5 DEF FutureTimesOut, Waiting
  <2> QED BY <2>1, BeamMovesKeeps
<1>6. CASE FindNoTask
  <2>1. runs' = runs /\ ready' = ready /\ beam' = [beam EXCEPT !.at = "untasked"] /\ beam.at \in Waiting
    BY <1>6 DEF FindNoTask, Waiting
  <2> QED BY <2>1, BeamMovesKeeps
<1>7. CASE UNCHANGED bridgeVars
  <2>1. runs' = runs /\ ready' = ready /\ beam' = beam
    BY <1>7 DEF bridgeVars
  <2>2. beam \in Beam
    BY DEF BridgeInv, BridgeType
  <2> QED BY <2>1, <2>2, BeamGoesOn
<1>8. CASE \E n \in DOMAIN runs : WakeCoroutine(n)
  BY <1>8, WakeKeeps
<1> QED
  BY <1>1, <1>2, <1>3, <1>4, <1>5, <1>6, <1>7, <1>8, StopLoopKeeps, FutureAnswersKeeps, CancelTaskKeeps,
     CancelFutureKeeps, DrainOverKeeps, LoopSubmitsKeeps, AwaitTaskKeeps, LoopCancelsKeeps,
     StepUnstartedKeeps, StepCoroutineKeeps, LoopSettlesKeeps, LoopStopsKeeps DEF BridgeNext

(* What the queue says of a run is what run promises its caller.             *)
LEMMA BridgeServes == BridgeInv => BridgeIsSafe
<1> SUFFICES ASSUME BridgeInv, NEW n \in DOMAIN runs
             PROVE  /\ runs[n].said = "timeout" =>
                           \/ runs[n].task = "done" \/ runs[n].told \/ runs[n].deaf
                           \/ Queued("cancel", n)
                           \/ runs[n].future = "cancelled" /\ Queued("submit", n)
                    /\ runs[n].said # "" /\ runs[n].work > 0 /\ runs[n].task # "done" =>
                           runs[n].graced \/ runs[n].raced
                    /\ runs[n].untasked => runs[n].work = 0
  BY DEF BridgeIsSafe, LeftoversAreCancelled, GivenUp, OneAtATime, UnstartedNeverRuns
<1>1. Outcome(n)
  BY DEF BridgeInv, RunInv
<1>2. runs[n].said = "timeout" => \/ runs[n].task = "done" \/ runs[n].told \/ runs[n].deaf
                                  \/ Queued("cancel", n) \/ ToBeCancelled(n)
  BY <1>1 DEF Outcome, GaveUpOn
<1>3. runs[n].untasked => runs[n].work = 0
  BY <1>1 DEF Outcome
<1>4. runs[n].work = 0 => ~(runs[n].work > 0)
  BY ZeroIsNotMore
<1>5. runs[n].said # "" => runs[n].task = "done" \/ runs[n].graced \/ runs[n].raced \/ runs[n].untasked
  BY <1>1 DEF Outcome
<1> QED BY <1>2, <1>3, <1>4, <1>5 DEF ToBeCancelled

(* A coroutine that run gave up on is cancelled, or will be before it goes   *)
(* on, whichever of run, its future, the loop and the coroutine is first;    *)
(* one that had no task never runs (core/bridge.py, run).                    *)
THEOREM LeftoversAreStopped == BridgeInit /\ [][BridgeNext]_bridgeVars => []BridgeIsSafe
  BY BridgeStarts, BridgeKeeps, BridgeServes, PTL

-----------------------------------------------------------------------------
(* The dispatcher.  What a worker is about to do, in the order it will.      *)
Worker == [partition : Partition, queue : {<<>>} \cup {<<x>> : x \in Int},
           at : {"getting", "acquiring", "processing", "done", "failed", "cancelled"},
           item : Int, sentinel : BOOLEAN, gathered : BOOLEAN]

DispatchType ==
    /\ owned \subseteq Partition /\ revoking \subseteq Partition
    /\ position \in [Partition -> Int] /\ offset \in [Partition -> Int]
    /\ handled \in [Partition -> SUBSET Int]
    /\ tasks \in Seq(Worker)
    /\ workers \in [Partition -> {0} \cup DOMAIN tasks]
    /\ permits \in Int
    /\ putting \subseteq [task : DOMAIN tasks, item : Int]
    /\ \A d, e \in putting : d = e

\* The intent a worker has taken, the one in its queue, the one being put there.
InHand(t) == IF tasks[t].at \in {"acquiring", "processing"} THEN {tasks[t].item} ELSE {}
InQueue(t) == IF tasks[t].queue = <<>> THEN {} ELSE {Head(tasks[t].queue)}
OnItsWay(t) == {d.item : d \in {e \in putting : e.task = t}}

Below(x, done) == 0..x - 1 \subseteq done

\* A living worker comes to an intent with all before it done.
InTurn(t) ==
    LET done == handled[tasks[t].partition] IN
    /\ \A x \in InHand(t) : Below(x, done)
    /\ \A x \in InQueue(t) : Below(x, done \cup InHand(t))
    /\ \A x \in OnItsWay(t) : Below(x, done \cup InHand(t) \cup InQueue(t))

\* What was fetched of an owned partition is done or with its living worker.
FetchedIsHeld(p) ==
    /\ workers[p] = 0 => Below(position[p], handled[p])
    /\ workers[p] # 0 /\ tasks[workers[p]].at \in Live =>
           Below(position[p], handled[p] \cup InHand(workers[p]) \cup InQueue(workers[p])
                                          \cup OnItsWay(workers[p]))

IsLive(t) == tasks[t].at \in Live

DispatchInv ==
    /\ DispatchType
    /\ revoking \cap owned = {}
    /\ \A p \in Partition : workers[p] # 0 => tasks[workers[p]].partition = p
    /\ phase = "iterating" =>
           \A t \in DOMAIN tasks : IsLive(t) => workers[tasks[t].partition] = t
    /\ \A t, u \in DOMAIN tasks :
           IsLive(t) /\ IsLive(u) /\ tasks[t].partition = tasks[u].partition => t = u
    /\ \A t \in DOMAIN tasks : IsLive(t) => InTurn(t)
    /\ phase = "iterating" => \A p \in owned : FetchedIsHeld(p)
    /\ NothingSkipped /\ PermitsBalance

Processing == {t \in DOMAIN tasks : tasks[t].at = "processing"}

-----------------------------------------------------------------------------
(* The list of tasks, the permits and what is below an offset.               *)

\* A task's record is replaced in place; those of the other tasks stay.
LEMMA TaskReplaced ==
    ASSUME NEW s \in Seq(Worker), NEW t \in DOMAIN s, NEW w \in Worker
    PROVE  /\ [s EXCEPT ![t] = w] \in Seq(Worker)
           /\ DOMAIN [s EXCEPT ![t] = w] = DOMAIN s
           /\ [s EXCEPT ![t] = w][t] = w
           /\ \A u \in DOMAIN s : u # t => [s EXCEPT ![t] = w][u] = s[u]
OBVIOUS

\* The tasks that are processing are finitely many, so the permits can be counted.
LEMMA ProcessingIsFinite ==
    ASSUME tasks \in Seq(Worker)
    PROVE  IsFiniteSet(DOMAIN tasks) /\ IsFiniteSet(Processing) /\ Cardinality(Processing) \in Nat
<1>1. DOMAIN tasks = 1..Len(tasks) /\ Len(tasks) \in Nat
  OBVIOUS
<1>2. IsFiniteSet(DOMAIN tasks)
  BY <1>1, FS_Interval
<1>3. QED
  BY <1>2, FS_Subset, FS_CardinalityType DEF Processing

\* The sentinel of a queue is told from every offset by its type alone.
LEMMA StopIsInt == Stop \in Int /\ <<Stop>> \in {<<x>> : x \in Int}
<1>1. Stop \in Int
  BY DEF Stop
<1>2. QED
  BY <1>1

\* What is below an offset stays done when more is done.
LEMMA BelowGrows ==
    ASSUME NEW x, NEW S, NEW T, S \subseteq T, Below(x, S) PROVE Below(x, T)
BY DEF Below

\* With the offset itself, everything up to it is done.
LEMMA BelowNext ==
    ASSUME NEW x \in Int, NEW S, Below(x, S), x \in S PROVE Below(x + 1, S)
<1> SUFFICES ASSUME NEW y \in 0..x PROVE y \in S
  BY DEF Below
<1>1. y = x \/ y \in 0..x - 1
  OBVIOUS
<1>2. QED
  BY <1>1 DEF Below

-----------------------------------------------------------------------------
(* One worker moves and nothing else of the dispatcher changes.              *)
LEMMA OneWorkerMoves ==
    ASSUME DispatchInv, NEW t \in DOMAIN tasks, NEW w \in Worker,
           tasks' = [tasks EXCEPT ![t] = w],
           w.partition = tasks[t].partition, w.at \in Live => IsLive(t),
           UNCHANGED <<owned, revoking, position, workers>>,
           phase' = "iterating" => phase = "iterating",
           offset' \in [Partition -> Int], handled' \in [Partition -> SUBSET Int],
           \A p \in Partition : handled[p] \subseteq handled'[p],
           putting' \subseteq putting, \A d \in putting : d \in putting' \/ d.task = t,
           w.at \in Live => InTurn(t)',
           w.at \in Live =>
               handled[w.partition] \cup InHand(t) \cup InQueue(t) \cup OnItsWay(t)
                   \subseteq handled'[w.partition] \cup InHand(t)' \cup InQueue(t)' \cup OnItsWay(t)',
           NothingSkipped', PermitsBalance', permits' \in Int
    PROVE  DispatchInv'
<1>1. /\ tasks' \in Seq(Worker) /\ DOMAIN tasks' = DOMAIN tasks /\ tasks'[t] = w
      /\ \A u \in DOMAIN tasks : u # t => tasks'[u] = tasks[u]
  BY TaskReplaced DEF DispatchInv, DispatchType
<1>2. DispatchType'
  BY <1>1 DEF DispatchInv, DispatchType
<1>3. \A u \in DOMAIN tasks : tasks'[u].partition = tasks[u].partition /\ (IsLive(u)' => IsLive(u))
  BY <1>1 DEF IsLive
<1>4. /\ (revoking \cap owned = {})'
      /\ (\A p \in Partition : workers[p] # 0 => tasks[workers[p]].partition = p)'
      /\ (phase = "iterating" =>
             \A u \in DOMAIN tasks : IsLive(u) => workers[tasks[u].partition] = u)'
      /\ (\A u, v \in DOMAIN tasks :
             IsLive(u) /\ IsLive(v) /\ tasks[u].partition = tasks[v].partition => u = v)'
  BY <1>1, <1>3 DEF DispatchInv, DispatchType
<1>5. ASSUME NEW u \in DOMAIN tasks, u # t
      PROVE  /\ InHand(u)' = InHand(u) /\ InQueue(u)' = InQueue(u)
             /\ OnItsWay(u)' = OnItsWay(u) /\ tasks'[u] = tasks[u]
  <2>1. tasks'[u] = tasks[u]
    BY <1>1, <1>5
  <2>2. {e \in putting' : e.task = u} = {e \in putting : e.task = u}
    BY <1>5
  <2>3. QED
    BY <2>1, <2>2 DEF InHand, InQueue, OnItsWay
<1>6. ASSUME NEW u \in DOMAIN tasks, IsLive(u)' PROVE InTurn(u)'
  <2>1. CASE u = t
    BY <2>1, <1>1, <1>6 DEF IsLive
  <2>2. CASE u # t
    <3>1. InTurn(u) /\ tasks[u].partition \in Partition
      <4>1. InTurn(u)
        BY <1>3, <1>6 DEF DispatchInv
      <4>2. tasks[u] \in Worker
        BY DEF DispatchInv, DispatchType
      <4>3. QED
        BY <4>1, <4>2 DEF Worker
    <3>2. handled[tasks[u].partition] \subseteq handled'[tasks[u].partition]
      BY <3>1
    <3>3. QED
      BY <2>2, <3>1, <3>2, <1>5, BelowGrows DEF InTurn
  <2>3. QED
    BY <2>1, <2>2
<1>7. ASSUME phase' = "iterating", NEW p \in owned' PROVE FetchedIsHeld(p)'
  <2>1. p \in Partition /\ FetchedIsHeld(p) /\ workers'[p] = workers[p] /\ position'[p] = position[p]
    BY <1>7 DEF DispatchInv, DispatchType
  <2>2. handled[p] \subseteq handled'[p]
    BY <2>1
  <2>3. CASE workers[p] = 0
    BY <2>1, <2>2, <2>3, BelowGrows DEF FetchedIsHeld
  <2>4. CASE workers[p] # 0 /\ workers[p] # t
    <3>1. workers[p] \in DOMAIN tasks
      BY <2>1, <2>4 DEF DispatchInv, DispatchType
    <3>2. QED
      BY <2>1, <2>2, <2>4, <3>1, <1>5, BelowGrows DEF FetchedIsHeld
  <2>5. CASE workers[p] # 0 /\ workers[p] = t
    <3>1. w.partition = p
      BY <2>1, <2>5 DEF DispatchInv
    <3>2. SUFFICES ASSUME w.at \in Live
                   PROVE  Below(position[p], handled'[p] \cup InHand(t)' \cup InQueue(t)'
                                                 \cup OnItsWay(t)')
      BY <2>1, <2>5, <1>1 DEF FetchedIsHeld
    <3>3. Below(position[p], handled[p] \cup InHand(t) \cup InQueue(t) \cup OnItsWay(t))
      BY <2>1, <2>5, <3>2 DEF FetchedIsHeld, IsLive
    <3>4. QED
      BY <3>1, <3>2, <3>3, BelowGrows
  <2>6. QED
    BY <2>3, <2>4, <2>5
<1>8. QED
  BY <1>1, <1>2, <1>4, <1>6, <1>7 DEF DispatchInv

\* A worker that neither takes nor gives back a permit leaves them balanced.
LEMMA PermitsUntouched ==
    ASSUME DispatchInv, NEW t \in DOMAIN tasks, NEW w \in Worker,
           tasks' = [tasks EXCEPT ![t] = w], permits' = permits,
           w.at = "processing" <=> tasks[t].at = "processing"
    PROVE  PermitsBalance' /\ permits' \in Int
<1>1. /\ DOMAIN tasks' = DOMAIN tasks /\ tasks'[t] = w
      /\ \A u \in DOMAIN tasks : u # t => tasks'[u] = tasks[u]
  BY TaskReplaced DEF DispatchInv, DispatchType
<1>2. {u \in DOMAIN tasks' : tasks'[u].at = "processing"}
          = {u \in DOMAIN tasks : tasks[u].at = "processing"}
  BY <1>1
<1>3. QED
  BY <1>2 DEF DispatchInv, DispatchType, PermitsBalance

\* A worker that leaves its intent gives its permit back.
LEMMA PermitReturned ==
    ASSUME DispatchInv, NEW t \in DOMAIN tasks, NEW w \in Worker,
           tasks' = [tasks EXCEPT ![t] = w], permits' = permits + 1,
           w.at # "processing", tasks[t].at = "processing"
    PROVE  PermitsBalance' /\ permits' \in Int
<1>1. /\ tasks' \in Seq(Worker) /\ DOMAIN tasks' = DOMAIN tasks /\ tasks'[t] = w
      /\ \A u \in DOMAIN tasks : u # t => tasks'[u] = tasks[u]
  BY TaskReplaced DEF DispatchInv, DispatchType
<1>2. {u \in DOMAIN tasks' : tasks'[u].at = "processing"} = Processing \ {t}
  BY <1>1 DEF Processing
<1>3. t \in Processing /\ IsFiniteSet(Processing) /\ Cardinality(Processing) \in Nat
  BY ProcessingIsFinite DEF Processing, DispatchInv, DispatchType
<1>4. Cardinality(Processing \ {t}) = Cardinality(Processing) - 1
  BY <1>3, FS_RemoveElement
<1>5. permits + Cardinality(Processing) = MaxPartitions /\ permits \in Int
  BY DEF DispatchInv, DispatchType, PermitsBalance, Processing
<1>6. permits' + Cardinality(Processing \ {t}) = MaxPartitions /\ permits' \in Int
  BY <1>3, <1>4, <1>5
<1>7. QED
  BY <1>2, <1>6 DEF PermitsBalance

-----------------------------------------------------------------------------
(* The steps of a worker.                                                    *)

\* A worker takes the next intent of its queue (_worker, queue.get).
LEMMA GetKeeps == ASSUME NEW t \in DOMAIN tasks PROVE DispatchInv /\ Get(t) => DispatchInv'
<1> SUFFICES ASSUME DispatchInv, Get(t) PROVE DispatchInv'
  OBVIOUS
<1>1. tasks[t] \in Worker /\ tasks \in Seq(Worker)
  BY DEF DispatchInv, DispatchType
<1>2. PICK x \in Int : tasks[t].queue = <<x>>
  BY <1>1 DEF Get, Worker
<1>3. Head(tasks[t].queue) = x
  BY <1>2
<1>4. PICK w : w = [tasks[t] EXCEPT !.queue = <<>>, !.item = x,
                                    !.at = IF x = Stop THEN "done" ELSE "acquiring"]
  OBVIOUS
<1>5. /\ w \in Worker /\ w.partition = tasks[t].partition /\ w.queue = <<>> /\ w.item = x
      /\ w.at = IF x = Stop THEN "done" ELSE "acquiring"
  BY <1>1, <1>4 DEF Worker
<1>6. tasks' = [tasks EXCEPT ![t] = w]
  BY <1>1, <1>3, <1>4 DEF Get
<1>7. tasks'[t] = w
  BY <1>1, <1>5, <1>6, TaskReplaced
<1>8. InHand(t) = {} /\ InQueue(t) = {x} /\ OnItsWay(t)' = OnItsWay(t) /\ IsLive(t)
  BY <1>2, <1>3 DEF Get, InHand, InQueue, OnItsWay, IsLive, Live
<1>9. w.at \in Live => InHand(t)' = {x} /\ InQueue(t)' = {}
  BY <1>5, <1>7 DEF InHand, InQueue, Live
<1>10. InTurn(t) /\ UNCHANGED <<handled, permits>> /\ tasks[t].at = "getting"
  BY <1>8 DEF DispatchInv, Get
<1>11. w.at \in Live => InTurn(t)'
  <2> SUFFICES ASSUME w.at \in Live PROVE InTurn(t)'
    OBVIOUS
  <2>1. Below(x, handled[tasks[t].partition])
    BY <1>8, <1>10, BelowGrows DEF InTurn
  <2>2. ASSUME NEW y \in OnItsWay(t) PROVE Below(y, handled[tasks[t].partition] \cup {x})
    BY <1>8, <1>10, BelowGrows DEF InTurn
  <2>3. ASSUME NEW y \in OnItsWay(t)
        PROVE  Below(y, handled[tasks[t].partition] \cup InHand(t)' \cup InQueue(t)')
    BY <1>9, <2>2, BelowGrows
  <2>4. QED
    BY <1>5, <1>7, <1>8, <1>9, <1>10, <2>1, <2>3 DEF InTurn
<1>12. PermitsBalance' /\ permits' \in Int
  BY <1>5, <1>6, <1>10, PermitsUntouched
<1>13. NothingSkipped'
  BY DEF Get, DispatchInv, NothingSkipped
<1>14. /\ UNCHANGED <<owned, revoking, position, workers, phase, offset, handled, putting>>
       /\ offset' \in [Partition -> Int] /\ handled' \in [Partition -> SUBSET Int]
  BY DEF Get, DispatchInv, DispatchType
<1>15. w.at \in Live =>
         handled[w.partition] \cup InHand(t) \cup InQueue(t) \cup OnItsWay(t)
             \subseteq handled'[w.partition] \cup InHand(t)' \cup InQueue(t)' \cup OnItsWay(t)'
  BY <1>8, <1>9, <1>14
<1>16. QED
  BY <1>5, <1>6, <1>8, <1>11, <1>12, <1>13, <1>14, <1>15, OneWorkerMoves

\* It waits for a permit and starts to process (`async with _concurrency`).
LEMMA AcquireKeeps == ASSUME NEW t \in DOMAIN tasks PROVE DispatchInv /\ Acquire(t) => DispatchInv'
<1> SUFFICES ASSUME DispatchInv, Acquire(t) PROVE DispatchInv'
  OBVIOUS
<1>1. tasks[t] \in Worker /\ tasks \in Seq(Worker)
  BY DEF DispatchInv, DispatchType
<1>2. PICK w : w = [tasks[t] EXCEPT !.at = "processing"]
  OBVIOUS
<1>3. /\ w \in Worker /\ w.partition = tasks[t].partition /\ w.queue = tasks[t].queue
      /\ w.item = tasks[t].item /\ w.at = "processing"
  BY <1>1, <1>2, StopIsInt DEF Worker
<1>4. tasks' = [tasks EXCEPT ![t] = w] /\ tasks[t].at = "acquiring"
  BY <1>1, <1>2 DEF Acquire
<1>5. /\ tasks'[t] = w /\ DOMAIN tasks' = DOMAIN tasks
      /\ \A u \in DOMAIN tasks : u # t => tasks'[u] = tasks[u]
  BY <1>1, <1>3, <1>4, TaskReplaced
<1>6. /\ InHand(t)' = InHand(t) /\ InQueue(t)' = InQueue(t) /\ OnItsWay(t)' = OnItsWay(t)
      /\ IsLive(t)
  BY <1>3, <1>4, <1>5 DEF Acquire, InHand, InQueue, OnItsWay, IsLive, Live
<1>7. InTurn(t)'
  BY <1>3, <1>5, <1>6 DEF DispatchInv, InTurn, Acquire
<1>8. {u \in DOMAIN tasks' : tasks'[u].at = "processing"} = Processing \cup {t}
  BY <1>3, <1>5 DEF Processing
<1>9. t \notin Processing /\ IsFiniteSet(Processing) /\ Cardinality(Processing) \in Nat
  BY <1>1, <1>4, ProcessingIsFinite DEF Processing
<1>10. Cardinality(Processing \cup {t}) = Cardinality(Processing) + 1
  BY <1>9, FS_AddElement
<1>11. permits + Cardinality(Processing) = MaxPartitions /\ permits \in Int
  BY DEF DispatchInv, DispatchType, PermitsBalance, Processing
<1>12. permits' + Cardinality(Processing \cup {t}) = MaxPartitions /\ permits' \in Int
  BY <1>9, <1>10, <1>11 DEF Acquire
<1>13. PermitsBalance' /\ NothingSkipped'
  BY <1>8, <1>12 DEF PermitsBalance, Acquire, DispatchInv, NothingSkipped
<1>14. QED
  BY <1>3, <1>4, <1>6, <1>7, <1>12, <1>13, OneWorkerMoves, ZenonT(60) DEF Acquire, DispatchInv, DispatchType

\* An intent is brought to its end and committed: everything before it was, so
\* nothing is skipped (process, commit).
LEMMA ProcessedKeeps ==
    ASSUME NEW t \in DOMAIN tasks PROVE DispatchInv /\ Processed(t) => DispatchInv'
<1> SUFFICES ASSUME DispatchInv, Processed(t) PROVE DispatchInv'
  OBVIOUS
<1> DEFINE p == tasks[t].partition
           i == tasks[t].item
<1>1. tasks[t] \in Worker /\ tasks \in Seq(Worker) /\ p \in Partition /\ i \in Int
  <2>1. tasks[t] \in Worker /\ tasks \in Seq(Worker)
    BY DEF DispatchInv, DispatchType
  <2>2. QED
    BY <2>1 DEF Worker
<1>2. PICK w : w = [tasks[t] EXCEPT !.at = "getting", !.item = Stop]
  OBVIOUS
<1>3. w \in Worker /\ w.partition = p /\ w.queue = tasks[t].queue /\ w.at = "getting"
  BY <1>1, <1>2, StopIsInt DEF Worker
<1>4. tasks' = [tasks EXCEPT ![t] = w] /\ tasks[t].at = "processing"
  BY <1>1, <1>2 DEF Processed
<1>5. tasks'[t] = w
  BY <1>1, <1>3, <1>4, TaskReplaced
<1>6. /\ InHand(t) = {i} /\ InHand(t)' = {} /\ InQueue(t)' = InQueue(t)
      /\ OnItsWay(t)' = OnItsWay(t) /\ IsLive(t)
  BY <1>3, <1>4, <1>5 DEF Processed, InHand, InQueue, OnItsWay, IsLive, Live
<1>7. /\ handled' = [handled EXCEPT ![p] = handled[p] \cup {i}]
      /\ offset' = [offset EXCEPT ![p] = i + 1]
      /\ handled \in [Partition -> SUBSET Int] /\ offset \in [Partition -> Int]
  BY DEF Processed, DispatchInv, DispatchType
<1>8. /\ handled' \in [Partition -> SUBSET Int] /\ offset' \in [Partition -> Int]
      /\ handled'[p] = handled[p] \cup {i} /\ offset'[p] = i + 1
      /\ \A q \in Partition : q # p => handled'[q] = handled[q] /\ offset'[q] = offset[q]
  BY <1>1, <1>7
<1>9. InTurn(t)
  BY <1>6 DEF DispatchInv
<1> HIDE DEF p, i
<1>10. InTurn(t)'
  <2>1. \A x \in InQueue(t) : Below(x, handled[p] \cup {i})
    BY <1>6, <1>9 DEF InTurn, p
  <2>2. \A x \in OnItsWay(t) : Below(x, handled[p] \cup {i} \cup InQueue(t))
    BY <1>6, <1>9 DEF InTurn, p
  <2>3. /\ \A x \in InQueue(t)' : Below(x, handled'[p] \cup InHand(t)')
        /\ \A x \in OnItsWay(t)' : Below(x, handled'[p] \cup InHand(t)' \cup InQueue(t)')
        /\ \A x \in InHand(t)' : Below(x, handled'[p])
    BY <1>6, <1>8, <2>1, <2>2, BelowGrows
  <2>4. QED
    BY <1>3, <1>5, <2>3 DEF InTurn
<1>11. NothingSkipped'
  <2>1. Below(i, handled[p])
    BY <1>6, <1>9 DEF InTurn, p
  <2>2. Below(i + 1, handled'[p])
    BY <1>1, <1>8, <2>1, BelowNext, BelowGrows
  <2>3. Below(offset'[p], handled'[p])
    BY <1>8, <2>2
  <2>4. \A q \in Partition : Below(offset'[q], handled'[q])
    BY <1>8, <2>3 DEF DispatchInv, NothingSkipped, Below
  <2>5. QED
    BY <2>4 DEF NothingSkipped, Below
<1>12. PermitsBalance' /\ permits' \in Int
  BY <1>3, <1>4, PermitReturned DEF Processed
<1>13. /\ \A q \in Partition : handled[q] \subseteq handled'[q]
       /\ handled[w.partition] \cup InHand(t) \cup InQueue(t) \cup OnItsWay(t)
             \subseteq handled'[w.partition] \cup InHand(t)' \cup InQueue(t)' \cup OnItsWay(t)'
  BY <1>3, <1>6, <1>8
<1>14. QED
  BY <1>3, <1>4, <1>6, <1>8, <1>10, <1>11, <1>12, <1>13, OneWorkerMoves DEF Processed, p

\* An intent whose claim has lapsed is let go of without a commit, and the
\* worker goes on (_phase2_evaluate, process).
LEMMA ClaimLostKeeps ==
    ASSUME NEW t \in DOMAIN tasks PROVE DispatchInv /\ ClaimLost(t) => DispatchInv'
<1> SUFFICES ASSUME DispatchInv, ClaimLost(t) PROVE DispatchInv'
  OBVIOUS
<1> DEFINE p == tasks[t].partition
           i == tasks[t].item
<1>1. tasks[t] \in Worker /\ tasks \in Seq(Worker) /\ p \in Partition /\ i \in Int
  <2>1. tasks[t] \in Worker /\ tasks \in Seq(Worker)
    BY DEF DispatchInv, DispatchType
  <2>2. QED
    BY <2>1 DEF Worker
<1>2. PICK w : w = [tasks[t] EXCEPT !.at = "getting", !.item = Stop]
  OBVIOUS
<1>3. w \in Worker /\ w.partition = p /\ w.queue = tasks[t].queue /\ w.at = "getting"
  BY <1>1, <1>2, StopIsInt DEF Worker
<1>4. tasks' = [tasks EXCEPT ![t] = w] /\ tasks[t].at = "processing"
  BY <1>1, <1>2 DEF ClaimLost
<1>5. tasks'[t] = w
  BY <1>1, <1>3, <1>4, TaskReplaced
<1>6. /\ InHand(t) = {i} /\ InHand(t)' = {} /\ InQueue(t)' = InQueue(t)
      /\ OnItsWay(t)' = OnItsWay(t) /\ IsLive(t)
  BY <1>3, <1>4, <1>5 DEF ClaimLost, InHand, InQueue, OnItsWay, IsLive, Live
<1>7. /\ handled' = [handled EXCEPT ![p] = handled[p] \cup {i}] /\ offset' = offset
      /\ handled \in [Partition -> SUBSET Int] /\ offset \in [Partition -> Int]
  BY DEF ClaimLost, DispatchInv, DispatchType
<1>8. /\ handled' \in [Partition -> SUBSET Int] /\ offset' \in [Partition -> Int]
      /\ handled'[p] = handled[p] \cup {i}
      /\ \A q \in Partition : handled[q] \subseteq handled'[q]
  BY <1>1, <1>7
<1>9. InTurn(t)
  BY <1>6 DEF DispatchInv
<1> HIDE DEF p, i
<1>10. InTurn(t)'
  <2>1. \A x \in InQueue(t) : Below(x, handled[p] \cup {i})
    BY <1>6, <1>9 DEF InTurn, p
  <2>2. \A x \in OnItsWay(t) : Below(x, handled[p] \cup {i} \cup InQueue(t))
    BY <1>6, <1>9 DEF InTurn, p
  <2>3. /\ \A x \in InQueue(t)' : Below(x, handled'[p] \cup InHand(t)')
        /\ \A x \in OnItsWay(t)' : Below(x, handled'[p] \cup InHand(t)' \cup InQueue(t)')
        /\ \A x \in InHand(t)' : Below(x, handled'[p])
    BY <1>6, <1>8, <2>1, <2>2, BelowGrows
  <2>4. QED
    BY <1>3, <1>5, <2>3 DEF InTurn
<1>11. NothingSkipped'
  BY <1>7, <1>8 DEF DispatchInv, NothingSkipped
<1>12. PermitsBalance' /\ permits' \in Int
  BY <1>3, <1>4, PermitReturned DEF ClaimLost
<1>13. handled[w.partition] \cup InHand(t) \cup InQueue(t) \cup OnItsWay(t)
           \subseteq handled'[w.partition] \cup InHand(t)' \cup InQueue(t)' \cup OnItsWay(t)'
  BY <1>3, <1>6, <1>8
<1>14. QED
  BY <1>3, <1>4, <1>6, <1>8, <1>10, <1>11, <1>12, <1>13, OneWorkerMoves DEF ClaimLost, p

\* An exception of process ends the worker, and its permit comes back (_worker).
LEMMA RaisedKeeps == ASSUME NEW t \in DOMAIN tasks PROVE DispatchInv /\ Raised(t) => DispatchInv'
<1> SUFFICES ASSUME DispatchInv, Raised(t) PROVE DispatchInv'
  OBVIOUS
<1>1. tasks[t] \in Worker /\ tasks \in Seq(Worker)
  BY DEF DispatchInv, DispatchType
<1>2. PICK w : w = [tasks[t] EXCEPT !.at = "failed", !.item = Stop]
  OBVIOUS
<1>3. w \in Worker /\ w.partition = tasks[t].partition /\ w.at = "failed"
  BY <1>1, <1>2, StopIsInt DEF Worker
<1>4. tasks' = [tasks EXCEPT ![t] = w] /\ tasks[t].at = "processing"
  BY <1>1, <1>2 DEF Raised, after_raise
<1>5. w.at \notin Live /\ IsLive(t)
  BY <1>3, <1>4 DEF Live, IsLive
<1>6. PermitsBalance' /\ permits' \in Int
  BY <1>3, <1>4, PermitReturned DEF Raised
<1>7. NothingSkipped'
  BY DEF Raised, DispatchInv, NothingSkipped
<1>8. QED
  BY <1>3, <1>4, <1>5, <1>6, <1>7, OneWorkerMoves, ZenonT(60) DEF Raised, DispatchInv, DispatchType

\* A drain posts the sentinel into an empty queue (_drain).
LEMMA PutSentinelKeeps ==
    ASSUME NEW t \in DOMAIN tasks PROVE DispatchInv /\ PutSentinel(t) => DispatchInv'
<1> SUFFICES ASSUME DispatchInv, PutSentinel(t) PROVE DispatchInv'
  OBVIOUS
<1>1. tasks[t] \in Worker /\ tasks \in Seq(Worker)
  BY DEF DispatchInv, DispatchType
<1>2. PICK w : w = [tasks[t] EXCEPT !.queue = <<Stop>>, !.sentinel = FALSE]
  OBVIOUS
<1>3. /\ w \in Worker /\ w.partition = tasks[t].partition /\ w.queue = <<Stop>>
      /\ w.item = tasks[t].item /\ w.at = tasks[t].at
  BY <1>1, <1>2, StopIsInt DEF Worker
<1>4. tasks' = [tasks EXCEPT ![t] = w] /\ tasks[t].queue = <<>>
  BY <1>1, <1>2 DEF PutSentinel
<1>5. tasks'[t] = w
  BY <1>1, <1>3, <1>4, TaskReplaced
<1>6. /\ InHand(t)' = InHand(t) /\ InQueue(t) = {} /\ InQueue(t)' = {Stop}
      /\ OnItsWay(t)' = OnItsWay(t)
  <2>1. InHand(t)' = InHand(t)
    BY <1>3, <1>5, Zenon DEF InHand
  <2>2. InQueue(t) = {}
    BY <1>4, Zenon DEF InQueue
  <2>3. InQueue(t)' = {Stop}
    <3>1. <<Stop>> # <<>> /\ Head(<<Stop>>) = Stop
      OBVIOUS
    <3>2. tasks'[t].queue = <<Stop>>
      BY <1>3, <1>5, Zenon
    <3>3. QED
      BY <3>1, <3>2, Zenon DEF InQueue
  <2>4. UNCHANGED putting
    BY DEF PutSentinel
  <2>5. OnItsWay(t)' = OnItsWay(t)
    BY <2>4, Zenon DEF OnItsWay
  <2>6. QED
    BY <2>1, <2>2, <2>3, <2>5
<1>7. w.at \in Live => InTurn(t)'
  <2> SUFFICES ASSUME IsLive(t) PROVE InTurn(t)'
    BY <1>3 DEF IsLive
  <2>1. InTurn(t) /\ UNCHANGED handled
    BY DEF DispatchInv, PutSentinel
  <2>2. \A S : Below(Stop, S)
    BY DEF Below, Stop
  <2>3. QED
    BY <1>3, <1>5, <1>6, <2>1, <2>2, BelowGrows DEF InTurn
<1>8. /\ UNCHANGED <<owned, revoking, position, workers, phase, offset, handled, putting, permits>>
      /\ offset' \in [Partition -> Int] /\ handled' \in [Partition -> SUBSET Int]
  BY DEF PutSentinel, DispatchInv, DispatchType
<1>9. PermitsBalance' /\ permits' \in Int
  BY <1>3, <1>4, <1>8, PermitsUntouched
<1>10. NothingSkipped'
  BY <1>8 DEF DispatchInv, NothingSkipped
<1>11. handled[w.partition] \cup InHand(t) \cup InQueue(t) \cup OnItsWay(t)
           \subseteq handled'[w.partition] \cup InHand(t)' \cup InQueue(t)' \cup OnItsWay(t)'
  BY <1>6, <1>8
<1>12. w.at \in Live => IsLive(t)
  BY <1>3 DEF IsLive
<1>13. QED
  BY <1>3, <1>4, <1>7, <1>8, <1>9, <1>10, <1>11, <1>12, OneWorkerMoves

\* The dispatcher's put returns: what was on its way is in the queue (run).
LEMMA PutKeeps == DispatchInv /\ Put => DispatchInv'
<1> SUFFICES ASSUME DispatchInv, Put PROVE DispatchInv'
  OBVIOUS
<1>1. PICK d \in putting : tasks[d.task].queue = <<>> /\ tasks' = [tasks EXCEPT ![d.task].queue = <<d.item>>]
  BY DEF Put
<1>2. PICK t \in DOMAIN tasks : t = d.task
  BY DEF DispatchInv, DispatchType
<1>3. tasks[t] \in Worker /\ tasks \in Seq(Worker) /\ d.item \in Int
  BY DEF DispatchInv, DispatchType
<1>4. PICK w : w = [tasks[t] EXCEPT !.queue = <<d.item>>]
  OBVIOUS
<1>5. /\ w \in Worker /\ w.partition = tasks[t].partition /\ w.queue = <<d.item>>
      /\ w.item = tasks[t].item /\ w.at = tasks[t].at
  BY <1>3, <1>4 DEF Worker
<1>6. tasks' = [tasks EXCEPT ![t] = w] /\ putting' = {} /\ putting = {d}
  <2>1. tasks' = [tasks EXCEPT ![t] = w]
    BY <1>1, <1>2, <1>3, <1>4
  <2>2. putting = {d}
    BY DEF DispatchInv, DispatchType
  <2>3. QED
    BY <2>1, <2>2 DEF Put
<1>7. tasks'[t] = w
  BY <1>3, <1>5, <1>6, TaskReplaced
<1>8. /\ InHand(t)' = InHand(t) /\ InQueue(t) = {} /\ InQueue(t)' = {d.item}
      /\ OnItsWay(t) = {d.item} /\ OnItsWay(t)' = {}
  <2>1. InHand(t)' = InHand(t)
    BY <1>5, <1>7 DEF InHand
  <2>2. InQueue(t) = {} /\ InQueue(t)' = {d.item}
    BY <1>1, <1>2, <1>5, <1>7 DEF InQueue
  <2>3. OnItsWay(t) = {d.item} /\ OnItsWay(t)' = {}
    BY <1>2, <1>6 DEF OnItsWay
  <2>4. QED
    BY <2>1, <2>2, <2>3
<1>9. w.at \in Live => InTurn(t)'
  <2> SUFFICES ASSUME IsLive(t) PROVE InTurn(t)'
    BY <1>5 DEF IsLive
  <2>1. InTurn(t) /\ UNCHANGED handled
    BY DEF DispatchInv, Put
  <2>2. Below(d.item, handled[tasks[t].partition] \cup InHand(t))
    BY <1>8, <2>1, BelowGrows DEF InTurn
  <2>3. QED
    BY <1>5, <1>7, <1>8, <2>1, <2>2 DEF InTurn
<1>10. PermitsBalance' /\ permits' \in Int
  BY <1>5, <1>6, PermitsUntouched DEF Put
<1>11. NothingSkipped'
  BY DEF Put, DispatchInv, NothingSkipped
<1>12. QED
  BY <1>2, <1>5, <1>6, <1>8, <1>9, <1>10, <1>11, OneWorkerMoves
     DEF Put, DispatchInv, DispatchType, IsLive

-----------------------------------------------------------------------------
(* Cancelling workers.                                                       *)

\* The workers that are cancelled live no longer, the others are as they were,
\* and each permit a cancelled one held is back (worker.cancel, `async with`).
LEMMA CancelKeeps ==
    ASSUME DispatchInv, NEW chosen, chosen \subseteq DOMAIN tasks, Cancel(chosen)
    PROVE  /\ tasks' \in Seq(Worker) /\ DOMAIN tasks' = DOMAIN tasks
           /\ \A t \in DOMAIN tasks : tasks'[t].partition = tasks[t].partition
           /\ \A t \in DOMAIN tasks :
                  IsLive(t)' => IsLive(t) /\ t \notin chosen /\ tasks'[t] = tasks[t]
           /\ PermitsBalance' /\ permits' \in Int
<1>1. tasks \in Seq(Worker) /\ tasks' = ended(tasks, chosen)
  BY DEF DispatchInv, DispatchType, Cancel
<1>2. ASSUME NEW t \in DOMAIN tasks
      PROVE  /\ tasks'[t] = IF t \in chosen /\ IsLive(t)
                            THEN [tasks[t] EXCEPT !.at = "cancelled", !.item = Stop] ELSE tasks[t]
             /\ tasks'[t] \in Worker /\ tasks'[t].partition = tasks[t].partition
             /\ tasks'[t].at = IF t \in chosen /\ IsLive(t) THEN "cancelled" ELSE tasks[t].at
  <2>1. tasks'[t] = IF t \in chosen /\ IsLive(t)
                    THEN [tasks[t] EXCEPT !.at = "cancelled", !.item = Stop] ELSE tasks[t]
    BY <1>1 DEF ended, IsLive
  <2>2. tasks[t] \in Worker
    BY <1>1
  <2>3. PICK w : w = [tasks[t] EXCEPT !.at = "cancelled", !.item = Stop]
    OBVIOUS
  <2>4. w \in Worker /\ w.partition = tasks[t].partition /\ w.at = "cancelled"
    BY <2>2, <2>3, StopIsInt DEF Worker
  <2>5. QED
    BY <2>1, <2>2, <2>3, <2>4
<1>3. DOMAIN tasks' = DOMAIN tasks /\ tasks' \in [DOMAIN tasks -> Worker]
  BY <1>1, <1>2 DEF ended
<1>4. tasks' \in Seq(Worker)
  BY <1>1, <1>3
<1>5. "processing" \in Live /\ "cancelled" \notin Live
  BY DEF Live
<1>6. \A t \in DOMAIN tasks : IsLive(t)' => IsLive(t) /\ t \notin chosen /\ tasks'[t] = tasks[t]
  BY <1>2, <1>5 DEF IsLive
<1>7. {t \in chosen : tasks[t].at = "processing"} = Processing \cap chosen
  BY DEF Processing
<1>8. {t \in DOMAIN tasks' : tasks'[t].at = "processing"} = Processing \ (Processing \cap chosen)
  BY <1>2, <1>3, <1>5 DEF Processing, IsLive
<1>9. IsFiniteSet(Processing) /\ Cardinality(Processing) \in Nat
  BY <1>1, ProcessingIsFinite
<1>10. IsFiniteSet(Processing \cap chosen) /\ Cardinality(Processing \cap chosen) \in Nat
  BY <1>9, FS_Subset, FS_CardinalityType
<1>11. Processing \cap (Processing \cap chosen) = Processing \cap chosen
  OBVIOUS
<1>12. Cardinality(Processing \ (Processing \cap chosen))
           = Cardinality(Processing) - Cardinality(Processing \cap chosen)
  BY <1>9, <1>11, FS_Difference
<1>13. permits + Cardinality(Processing) = MaxPartitions /\ permits \in Int
  BY DEF DispatchInv, DispatchType, PermitsBalance, Processing
<1>14. permits' = permits + Cardinality(Processing \cap chosen)
  BY <1>7 DEF Cancel, freed
<1>15. /\ permits' + Cardinality(Processing \ (Processing \cap chosen)) = MaxPartitions
       /\ permits' \in Int
  BY <1>9, <1>10, <1>12, <1>13, <1>14
<1>16. PermitsBalance'
  BY <1>8, <1>15 DEF PermitsBalance
<1>17. QED
  BY <1>2, <1>3, <1>4, <1>6, <1>15, <1>16

\* Workers end, none starts, and what the living ones have is as it was.
LEMMA WorkersEnd ==
    ASSUME DispatchInv, tasks' \in Seq(Worker), DOMAIN tasks' = DOMAIN tasks,
           \A t \in DOMAIN tasks : tasks'[t].partition = tasks[t].partition,
           \A t \in DOMAIN tasks : IsLive(t)' => IsLive(t) /\ tasks'[t].queue = tasks[t].queue
                                     /\ tasks'[t].item = tasks[t].item /\ tasks'[t].at = tasks[t].at,
           workers' \in [Partition -> {0} \cup DOMAIN tasks],
           \A p \in Partition : workers'[p] \in {0, workers[p]},
           phase' = "iterating" => /\ phase = "iterating" /\ putting' = putting
                                   /\ \A t \in DOMAIN tasks : IsLive(t)' =>
                                          workers'[tasks[t].partition] = workers[tasks[t].partition]
                                   /\ \A p \in owned' : workers'[p] = workers[p],
           putting' \subseteq putting, UNCHANGED <<offset, handled, position>>,
           owned' \subseteq owned, revoking' \subseteq Partition, revoking' \cap owned' = {},
           PermitsBalance', permits' \in Int
    PROVE  DispatchInv'
<1>1. DispatchType'
  BY DEF DispatchInv, DispatchType
<1>2. ASSUME NEW p \in Partition, workers'[p] # 0 PROVE tasks'[workers'[p]].partition = p
  <2>1. workers'[p] = workers[p] /\ workers[p] \in DOMAIN tasks
    BY <1>2 DEF DispatchInv, DispatchType
  <2>2. tasks[workers[p]].partition = p
    BY <1>2, <2>1 DEF DispatchInv
  <2>3. QED
    BY <2>1, <2>2
<1>3. (phase = "iterating" =>
          \A t \in DOMAIN tasks : IsLive(t) => workers[tasks[t].partition] = t)'
  BY DEF DispatchInv
<1>4. (\A t, u \in DOMAIN tasks :
          IsLive(t) /\ IsLive(u) /\ tasks[t].partition = tasks[u].partition => t = u)'
  BY DEF DispatchInv
<1>5. ASSUME NEW t \in DOMAIN tasks, IsLive(t)'
      PROVE  /\ InHand(t)' = InHand(t) /\ InQueue(t)' = InQueue(t)
             /\ OnItsWay(t)' \subseteq OnItsWay(t)
             /\ putting' = putting => OnItsWay(t)' = OnItsWay(t)
  BY <1>5 DEF InHand, InQueue, OnItsWay
<1>6. ASSUME NEW t \in DOMAIN tasks, IsLive(t)' PROVE InTurn(t)'
  <2>1. InTurn(t)
    BY <1>6 DEF DispatchInv
  <2>2. QED
    BY <1>5, <1>6, <2>1 DEF InTurn
<1>7. ASSUME phase' = "iterating", NEW p \in owned' PROVE FetchedIsHeld(p)'
  <2>1. p \in Partition /\ FetchedIsHeld(p) /\ workers'[p] = workers[p] /\ putting' = putting
    BY <1>7 DEF DispatchInv, DispatchType
  <2>2. CASE workers[p] = 0
    BY <2>1, <2>2 DEF FetchedIsHeld
  <2>3. CASE workers[p] # 0
    <3>1. workers[p] \in DOMAIN tasks
      BY <2>1, <2>3 DEF DispatchInv, DispatchType
    <3>2. QED
      BY <2>1, <2>3, <3>1, <1>5 DEF FetchedIsHeld, IsLive
  <2>4. QED
    BY <2>2, <2>3
<1>8. NothingSkipped'
  BY DEF DispatchInv, NothingSkipped
<1>9. QED
  BY <1>1, <1>2, <1>3, <1>4, <1>6, <1>7, <1>8 DEF DispatchInv

\* The workers run() stops are tasks it started (_drain, _abort).
LEMMA StoppingAreTasks == ASSUME DispatchInv PROVE Stopping \subseteq DOMAIN tasks
BY DEF DispatchInv, DispatchType, Stopping

-----------------------------------------------------------------------------
(* The steps of the dispatcher and of the group's coordinator.               *)

\* The next delivery goes to the one worker of its partition, or to a new one
\* when it has none (run, _ensure_worker).
LEMMA DeliverKeeps ==
    ASSUME NEW p \in Partition PROVE DispatchInv /\ Deliver(p) => DispatchInv'
<1> SUFFICES ASSUME DispatchInv, Deliver(p) PROVE DispatchInv'
  OBVIOUS
<1> DEFINE k == position[p]
           new == [partition |-> p, queue |-> <<>>, at |-> "getting", item |-> Stop,
                   sentinel |-> FALSE, gathered |-> FALSE]
<1>1. /\ DispatchType /\ phase = "iterating" /\ putting = {} /\ p \in owned /\ phase' = phase
      /\ UNCHANGED <<owned, revoking, offset, handled, permits>> /\ k \in Int
      /\ FetchedIsHeld(p)
  BY DEF Deliver, DispatchInv, DispatchType
<1>2. new \in Worker
  BY StopIsInt DEF Worker
<1>3. PICK t : t = _ensure_worker(p).task
  OBVIOUS
<1>4. /\ workers' = [workers EXCEPT ![p] = t] /\ putting' = {[task |-> t, item |-> k]}
      /\ position' = [position EXCEPT ![p] = k + 1]
      /\ tasks' = _ensure_worker(p).tasks
  BY <1>3 DEF Deliver
<1> HIDE DEF k, new
<1>5. /\ t \in DOMAIN tasks' /\ tasks' \in Seq(Worker) /\ tasks'[t].partition = p
      /\ \A u \in DOMAIN tasks : u \in DOMAIN tasks' /\ tasks'[u] = tasks[u]
      /\ \A u \in DOMAIN tasks' : u # t => u \in DOMAIN tasks
      /\ \/ workers[p] # 0 /\ t = workers[p] /\ t \in DOMAIN tasks /\ tasks' = tasks
         \/ workers[p] = 0 /\ t \notin DOMAIN tasks /\ tasks'[t] = new
  <2>1. CASE workers[p] # 0
    BY <1>1, <1>3, <1>4, <2>1 DEF _ensure_worker, DispatchInv, DispatchType
  <2>2. CASE workers[p] = 0
    <3>1. t = Len(tasks) + 1 /\ tasks' = Append(tasks, new) /\ tasks \in Seq(Worker)
      BY <1>1, <1>3, <1>4, <2>2 DEF _ensure_worker, DispatchType, new
    <3>2. /\ tasks' \in Seq(Worker) /\ Len(tasks') = Len(tasks) + 1
          /\ \A u \in 1..Len(tasks) : tasks'[u] = tasks[u]
          /\ tasks'[t] = new
      BY <1>2, <3>1, AppendProperties
    <3>3. DOMAIN tasks' = 1..Len(tasks) + 1 /\ DOMAIN tasks = 1..Len(tasks) /\ Len(tasks) \in Nat
      BY <3>1, <3>2
    <3>4. new.partition = p
      BY DEF new
    <3>5. QED
      BY <2>2, <3>1, <3>2, <3>3, <3>4
  <2>3. QED
    BY <2>1, <2>2
<1>6. DispatchType'
  BY <1>1, <1>4, <1>5 DEF DispatchType
<1>7. workers'[p] = t /\ \A q \in Partition : q # p => workers'[q] = workers[q]
  BY <1>1, <1>4 DEF DispatchType
<1>8. (\A q \in Partition : workers[q] # 0 => tasks[workers[q]].partition = q)'
  BY <1>1, <1>5, <1>7 DEF DispatchInv, DispatchType
<1>9. ASSUME NEW u \in DOMAIN tasks', IsLive(u)' PROVE workers'[tasks'[u].partition] = u
  <2>1. CASE u = t
    BY <2>1, <1>5, <1>7
  <2>2. CASE u # t
    <3>1. u \in DOMAIN tasks /\ tasks'[u] = tasks[u] /\ IsLive(u)
      BY <1>5, <1>9, <2>2 DEF IsLive
    <3>2. workers[tasks[u].partition] = u /\ tasks[u] \in Worker
      BY <1>1, <3>1 DEF DispatchInv, DispatchType
    <3>3. u # 0
      BY <3>1, <1>1 DEF DispatchType
    <3>4. tasks[u].partition # p
      BY <3>2, <3>3, <1>5, <2>2
    <3>5. QED
      BY <1>7, <3>1, <3>2, <3>4 DEF Worker
  <2>3. QED
    BY <2>1, <2>2
<1>10. (\A u, v \in DOMAIN tasks :
          IsLive(u) /\ IsLive(v) /\ tasks[u].partition = tasks[v].partition => u = v)'
  BY <1>9
<1>11. ASSUME NEW u \in DOMAIN tasks, u # t
       PROVE  InHand(u)' = InHand(u) /\ InQueue(u)' = InQueue(u) /\ OnItsWay(u)' = {} /\ OnItsWay(u) = {}
  <2>1. tasks'[u] = tasks[u]
    BY <1>5
  <2>2. {e \in putting : e.task = u} = {} /\ {e \in putting' : e.task = u} = {}
    BY <1>1, <1>4, <1>11
  <2>3. QED
    BY <2>1, <2>2 DEF InHand, InQueue, OnItsWay
<1>12. OnItsWay(t)' = {k} /\ (t \in DOMAIN tasks => InHand(t)' = InHand(t) /\ InQueue(t)' = InQueue(t)
                                                     /\ OnItsWay(t) = {})
  <2>1. PICK d : d = [task |-> t, item |-> k]
    OBVIOUS
  <2>2. {e \in putting' : e.task = t} = {d} /\ d.item = k
    BY <2>1, <1>4
  <2>3. {e \in putting : e.task = t} = {}
    BY <1>1
  <2>4. OnItsWay(t)' = {k} /\ OnItsWay(t) = {}
    BY <2>2, <2>3 DEF OnItsWay
  <2>5. ASSUME t \in DOMAIN tasks PROVE InHand(t)' = InHand(t) /\ InQueue(t)' = InQueue(t)
    BY <2>5, <1>5 DEF InHand, InQueue
  <2>6. QED
    BY <2>4, <2>5
<1>13. t \notin DOMAIN tasks => InHand(t)' = {} /\ InQueue(t)' = {} /\ IsLive(t)'
  BY <1>5 DEF InHand, InQueue, new, IsLive, Live
<1>14. IsLive(t)' => Below(k, handled[p] \cup InHand(t)' \cup InQueue(t)')
  <2>1. CASE t \in DOMAIN tasks
    BY <2>1, <1>1, <1>5, <1>12, BelowGrows DEF FetchedIsHeld, IsLive, k
  <2>2. CASE t \notin DOMAIN tasks
    BY <2>2, <1>1, <1>5, BelowGrows DEF FetchedIsHeld, k
  <2>3. QED
    BY <2>1, <2>2
<1>15. ASSUME NEW u \in DOMAIN tasks', IsLive(u)' PROVE InTurn(u)'
  <2>1. CASE u # t
    <3>1. u \in DOMAIN tasks /\ tasks'[u] = tasks[u] /\ InTurn(u)
      BY <1>5, <1>15, <2>1 DEF IsLive, DispatchInv
    <3>2. QED
      BY <2>1, <3>1, <1>1, <1>11 DEF InTurn
  <2>2. CASE u = t /\ t \in DOMAIN tasks
    <3>1. InTurn(t)
      BY <1>5, <1>15, <2>2 DEF IsLive, DispatchInv
    <3>2. QED
      BY <2>2, <3>1, <1>1, <1>5, <1>12, <1>14, <1>15 DEF InTurn
  <2>3. CASE u = t /\ t \notin DOMAIN tasks
    BY <2>3, <1>1, <1>5, <1>12, <1>13, <1>14, <1>15 DEF InTurn
  <2>4. QED
    BY <2>1, <2>2, <2>3
<1>16. ASSUME NEW q \in owned' PROVE FetchedIsHeld(q)'
  <2>1. q \in owned /\ q \in Partition /\ FetchedIsHeld(q)
    BY <1>1, <1>16 DEF DispatchInv, DispatchType
  <2>2. CASE q # p
    <3>1. workers'[q] = workers[q] /\ position'[q] = position[q]
      BY <1>1, <1>4, <1>7, <2>1, <2>2 DEF DispatchType
    <3>2. CASE workers[q] = 0
      BY <2>1, <3>1, <3>2, <1>1 DEF FetchedIsHeld
    <3>3. CASE workers[q] # 0
      <4>1. workers[q] \in DOMAIN tasks /\ tasks[workers[q]].partition = q
        BY <2>1, <3>3, <1>1 DEF DispatchInv, DispatchType
      <4>2. workers[q] # t /\ tasks'[workers[q]] = tasks[workers[q]]
        BY <4>1, <2>2, <1>5
      <4>3. QED
        BY <2>1, <3>1, <3>3, <4>1, <4>2, <1>1, <1>11 DEF FetchedIsHeld
    <3>4. QED
      BY <3>2, <3>3
  <2>3. CASE q = p
    <3>1. position'[p] = k + 1 /\ t # 0
      BY <1>1, <1>4, <1>5 DEF DispatchType
    <3>2. SUFFICES ASSUME IsLive(t)'
                   PROVE  Below(k + 1, handled[p] \cup InHand(t)' \cup InQueue(t)' \cup OnItsWay(t)')
      BY <2>3, <3>1, <1>1, <1>7 DEF FetchedIsHeld, IsLive
    <3>3. Below(k, handled[p] \cup InHand(t)' \cup InQueue(t)' \cup OnItsWay(t)')
      BY <3>2, <1>14, BelowGrows
    <3>4. QED
      BY <3>3, <1>1, <1>12, BelowNext DEF k
  <2>4. QED
    BY <2>2, <2>3
<1>17. PermitsBalance'
  <2>1. {u \in DOMAIN tasks' : tasks'[u].at = "processing"}
            = {u \in DOMAIN tasks : tasks[u].at = "processing"}
    BY <1>5 DEF new
  <2>2. QED
    BY <2>1, <1>1 DEF DispatchInv, PermitsBalance
<1>18. NothingSkipped' /\ (revoking \cap owned = {})'
  BY <1>1 DEF DispatchInv, NothingSkipped
<1>19. QED
  BY <1>6, <1>8, <1>9, <1>10, <1>15, <1>16, <1>17, <1>18 DEF DispatchInv

\* A rebalance takes partitions away before their workers know (Kafka's
\* coordinator and the listener).
LEMMA RebalanceKeeps == DispatchInv /\ Rebalance => DispatchInv'
<1> SUFFICES ASSUME DispatchInv, Rebalance PROVE DispatchInv'
  OBVIOUS
<1>1. PICK lost \in SUBSET owned : owned' = owned \ lost /\ revoking' = lost
  BY DEF Rebalance
<1>2. UNCHANGED <<position, offset, handled, tasks, workers, permits, putting, phase>>
  BY DEF Rebalance
<1>3. /\ owned' \subseteq owned /\ revoking' \subseteq Partition /\ revoking' \cap owned' = {}
      /\ workers' \in [Partition -> {0} \cup DOMAIN tasks] /\ tasks' \in Seq(Worker)
      /\ permits' \in Int
  BY <1>1, <1>2 DEF DispatchInv, DispatchType
<1>4. \A p \in Partition : workers'[p] \in {0, workers[p]}
  BY <1>2
<1>5. PermitsBalance'
  BY <1>2 DEF DispatchInv, PermitsBalance
<1>6. QED
  BY <1>2, <1>3, <1>4, <1>5, WorkersEnd DEF IsLive

\* The listener hands a lost partition over: its worker is cancelled before
\* anybody else is told (_on_revoked).
LEMMA RevokedKeeps == DispatchInv /\ Revoked => DispatchInv'
<1> SUFFICES ASSUME DispatchInv, Revoked PROVE DispatchInv'
  OBVIOUS
<1>1. PICK p \in revoking : _on_revoked(p) /\ revoking' = left_to_revoke(p)
  BY DEF Revoked
<1>2. /\ UNCHANGED <<owned, position, offset, handled, putting, phase>>
      /\ p \in Partition /\ p \notin owned
      /\ workers \in [Partition -> {0} \cup DOMAIN tasks]
  BY DEF Revoked, DispatchInv, DispatchType
<1>3. PICK chosen : chosen = {workers[p]} \ {0}
  OBVIOUS
<1>4. chosen \subseteq DOMAIN tasks /\ Cancel(chosen) /\ workers' = [workers EXCEPT ![p] = 0]
  BY <1>1, <1>2, <1>3 DEF _on_revoked
<1>5. /\ tasks' \in Seq(Worker) /\ DOMAIN tasks' = DOMAIN tasks
      /\ \A t \in DOMAIN tasks : tasks'[t].partition = tasks[t].partition
      /\ \A t \in DOMAIN tasks :
             IsLive(t)' => IsLive(t) /\ t \notin chosen /\ tasks'[t] = tasks[t]
      /\ PermitsBalance' /\ permits' \in Int
  BY <1>4, CancelKeeps
<1>6. /\ workers' \in [Partition -> {0} \cup DOMAIN tasks] /\ workers'[p] = 0
      /\ \A q \in Partition : q # p => workers'[q] = workers[q]
  BY <1>2, <1>4
<1>7. \A q \in Partition : workers'[q] \in {0, workers[q]}
  BY <1>6
<1>8. ASSUME phase = "iterating", NEW t \in DOMAIN tasks, IsLive(t)'
      PROVE  workers'[tasks[t].partition] = workers[tasks[t].partition]
  <2>1. workers[tasks[t].partition] = t /\ tasks[t] \in Worker /\ t \notin chosen
    BY <1>5, <1>8 DEF DispatchInv, DispatchType
  <2>2. t # 0
    BY <1>8 DEF DispatchInv, DispatchType
  <2>3. tasks[t].partition # p
    BY <1>3, <2>1, <2>2
  <2>4. QED
    BY <1>6, <2>1, <2>3 DEF Worker
<1>9. revoking' \subseteq Partition /\ revoking' \cap owned' = {}
  BY <1>1, <1>2 DEF left_to_revoke, DispatchInv, DispatchType
<1>10. \A q \in owned' : workers'[q] = workers[q]
  BY <1>2, <1>6 DEF DispatchInv, DispatchType
<1>11. QED
  BY <1>2, <1>5, <1>6, <1>7, <1>8, <1>9, <1>10, WorkersEnd

\* Another member works on from the committed offset (the group's protocol).
LEMMA OtherMemberKeeps ==
    ASSUME NEW p \in Partition PROVE DispatchInv /\ OtherMember(p) => DispatchInv'
<1> SUFFICES ASSUME DispatchInv, OtherMember(p) PROVE DispatchInv'
  OBVIOUS
<1>1. /\ DispatchType /\ p \notin owned
      /\ handled' = [handled EXCEPT ![p] = handled[p] \cup {offset[p]}]
      /\ offset' = [offset EXCEPT ![p] = offset[p] + 1]
      /\ UNCHANGED <<owned, revoking, position, tasks, workers, permits, putting, phase>>
  BY DEF OtherMember, DispatchInv
<1>2. /\ offset' \in [Partition -> Int] /\ handled' \in [Partition -> SUBSET Int]
      /\ handled'[p] = handled[p] \cup {offset[p]} /\ offset'[p] = offset[p] + 1
      /\ \A q \in Partition : q # p => handled'[q] = handled[q] /\ offset'[q] = offset[q]
      /\ \A q \in Partition : handled[q] \subseteq handled'[q]
      /\ offset[p] \in Int
  BY <1>1 DEF DispatchType
<1>3. DispatchType'
  BY <1>1, <1>2 DEF DispatchType
<1>4. NothingSkipped'
  <2>1. Below(offset[p], handled'[p]) /\ offset[p] \in handled'[p]
    BY <1>2, BelowGrows DEF DispatchInv, NothingSkipped, Below
  <2>2. Below(offset'[p], handled'[p])
    BY <1>2, <2>1, BelowNext
  <2>3. \A q \in Partition : Below(offset'[q], handled'[q])
    BY <1>2, <2>2 DEF DispatchInv, NothingSkipped, Below
  <2>4. QED
    BY <2>3 DEF NothingSkipped, Below
<1>5. \A t \in DOMAIN tasks : /\ InHand(t)' = InHand(t) /\ InQueue(t)' = InQueue(t)
                              /\ OnItsWay(t)' = OnItsWay(t) /\ IsLive(t)' = IsLive(t)
  BY <1>1 DEF InHand, InQueue, OnItsWay, IsLive
<1>6. ASSUME NEW t \in DOMAIN tasks, IsLive(t) PROVE InTurn(t)'
  <2>1. InTurn(t)
    BY <1>6 DEF DispatchInv
  <2>2. tasks[t] \in Worker
    BY <1>1 DEF DispatchType
  <2>3. handled[tasks[t].partition] \subseteq handled'[tasks[t].partition]
    BY <1>2, <2>2 DEF Worker
  <2>4. QED
    BY <2>1, <2>3, <1>1, <1>5, BelowGrows DEF InTurn
<1>7. ASSUME phase = "iterating", NEW q \in owned PROVE FetchedIsHeld(q)'
  <2>1. q # p /\ q \in Partition /\ FetchedIsHeld(q)
    BY <1>1, <1>7 DEF DispatchInv, DispatchType
  <2>2. handled'[q] = handled[q]
    BY <1>2, <2>1
  <2>3. workers[q] # 0 => workers[q] \in DOMAIN tasks
    BY <1>1, <2>1 DEF DispatchType
  <2>4. QED
    BY <2>1, <2>2, <2>3, <1>1, <1>5 DEF FetchedIsHeld
<1>8. PermitsBalance'
  BY <1>1 DEF DispatchInv, PermitsBalance
<1>9. /\ (revoking \cap owned = {})'
      /\ (\A q \in Partition : workers[q] # 0 => tasks[workers[q]].partition = q)'
      /\ (phase = "iterating" =>
             \A t \in DOMAIN tasks : IsLive(t) => workers[tasks[t].partition] = t)'
      /\ (\A t, u \in DOMAIN tasks :
             IsLive(t) /\ IsLive(u) /\ tasks[t].partition = tasks[u].partition => t = u)'
  BY <1>1 DEF DispatchInv, IsLive
<1>10. QED
  BY <1>1, <1>3, <1>4, <1>5, <1>6, <1>7, <1>8, <1>9 DEF DispatchInv

\* A partition comes back and is fetched from the committed offset, below which
\* nothing is left undone (Kafka's position on assignment).
LEMMA AssignedKeeps ==
    ASSUME NEW p \in Partition PROVE DispatchInv /\ Assigned(p) => DispatchInv'
<1> SUFFICES ASSUME DispatchInv, Assigned(p) PROVE DispatchInv'
  OBVIOUS
<1>1. /\ DispatchType /\ owned' = owned \cup {p} /\ revoking = {}
      /\ position' = [position EXCEPT ![p] = offset[p]]
      /\ UNCHANGED <<offset, handled, tasks, workers, permits, putting, revoking, phase>>
  BY DEF Assigned, DispatchInv
<1>2. DispatchType'
  BY <1>1 DEF DispatchType
<1>3. \A t \in DOMAIN tasks : /\ InHand(t)' = InHand(t) /\ InQueue(t)' = InQueue(t)
                              /\ OnItsWay(t)' = OnItsWay(t) /\ IsLive(t)' = IsLive(t)
  BY <1>1 DEF InHand, InQueue, OnItsWay, IsLive
<1>4. \A t \in DOMAIN tasks : InTurn(t) => InTurn(t)'
  BY <1>1, <1>3 DEF InTurn
<1>5. ASSUME phase = "iterating", NEW q \in owned' PROVE FetchedIsHeld(q)'
  <2>1. CASE q = p
    <3>1. Below(offset[p], handled[p]) /\ position'[p] = offset[p]
      BY <1>1 DEF DispatchInv, NothingSkipped, Below, DispatchType
    <3>2. QED
      BY <2>1, <3>1, <1>1, BelowGrows DEF FetchedIsHeld
  <2>2. CASE q # p
    <3>1. q \in owned /\ q \in Partition /\ FetchedIsHeld(q)
      BY <1>1, <1>5, <2>2 DEF DispatchInv, DispatchType
    <3>2. position'[q] = position[q]
      BY <1>1, <2>2, <3>1 DEF DispatchType
    <3>3. workers[q] # 0 => workers[q] \in DOMAIN tasks
      BY <1>1, <3>1 DEF DispatchType
    <3>4. QED
      BY <3>1, <3>2, <3>3, <1>1, <1>3 DEF FetchedIsHeld
  <2>3. QED
    BY <2>1, <2>2
<1>6. NothingSkipped' /\ PermitsBalance' /\ (revoking \cap owned = {})'
  BY <1>1 DEF DispatchInv, NothingSkipped, PermitsBalance
<1>7. /\ (\A q \in Partition : workers[q] # 0 => tasks[workers[q]].partition = q)'
      /\ (phase = "iterating" =>
             \A t \in DOMAIN tasks : IsLive(t) => workers[tasks[t].partition] = t)'
      /\ (\A t, u \in DOMAIN tasks :
             IsLive(t) /\ IsLive(u) /\ tasks[t].partition = tasks[u].partition => t = u)'
  BY <1>1 DEF DispatchInv, IsLive
<1>8. QED
  BY <1>1, <1>2, <1>3, <1>4, <1>5, <1>6, <1>7 DEF DispatchInv

\* The source is exhausted: the drain takes every worker over (_drain).
LEMMA ExhaustedKeeps == DispatchInv /\ Exhausted => DispatchInv'
<1> SUFFICES ASSUME DispatchInv, Exhausted PROVE DispatchInv'
  OBVIOUS
<1>1. /\ phase' = "draining" /\ workers' = [p \in Partition |-> 0] /\ tasks \in Seq(Worker)
      /\ UNCHANGED <<owned, position, offset, handled, permits, putting, revoking>>
      /\ tasks' = [t \in DOMAIN tasks |->
                     IF t \in Stopping THEN [tasks[t] EXCEPT !.sentinel = TRUE, !.gathered = TRUE]
                     ELSE tasks[t]]
  BY DEF Exhausted, DispatchInv, DispatchType
<1>a. tasks \in Seq(Worker)
  BY <1>1
<1>2. ASSUME NEW t \in DOMAIN tasks
      PROVE  /\ tasks'[t] \in Worker /\ tasks'[t].partition = tasks[t].partition
             /\ tasks'[t].queue = tasks[t].queue /\ tasks'[t].item = tasks[t].item
             /\ tasks'[t].at = tasks[t].at
  <2>1. tasks[t] \in Worker
    BY <1>a
  <2>2. PICK w : w = [tasks[t] EXCEPT !.sentinel = TRUE, !.gathered = TRUE]
    OBVIOUS
  <2>3. /\ w \in Worker /\ w.partition = tasks[t].partition /\ w.queue = tasks[t].queue
        /\ w.item = tasks[t].item /\ w.at = tasks[t].at
    BY <2>1, <2>2 DEF Worker
  <2>4. tasks'[t] = IF t \in Stopping THEN w ELSE tasks[t]
    BY <1>1, <2>2
  <2>5. QED
    BY <2>1, <2>3, <2>4
<1>3. DOMAIN tasks' = DOMAIN tasks /\ tasks' \in [DOMAIN tasks -> Worker]
  BY <1>1, <1>2
<1>4. tasks' \in Seq(Worker)
  BY <1>a, <1>3
<1>5. {t \in DOMAIN tasks' : tasks'[t].at = "processing"}
          = {t \in DOMAIN tasks : tasks[t].at = "processing"}
  BY <1>2, <1>3
<1>6. PermitsBalance' /\ permits' \in Int
  BY <1>1, <1>5 DEF DispatchInv, DispatchType, PermitsBalance
<1>7. /\ revoking' \subseteq Partition /\ revoking' \cap owned' = {}
      /\ workers' \in [Partition -> {0} \cup DOMAIN tasks]
      /\ \A p \in Partition : workers'[p] \in {0, workers[p]}
  BY <1>1 DEF DispatchInv, DispatchType
<1>8. \A t \in DOMAIN tasks : IsLive(t)' => IsLive(t)
  BY <1>2 DEF IsLive
<1>9. QED
  BY <1>1, <1>2, <1>3, <1>4, <1>6, <1>7, <1>8, WorkersEnd

\* run() ends with its workers done, or raises and cancels them (gather, _abort).
LEMMA EndsKeep == DispatchInv /\ (Drained \/ DrainFails \/ Signal) => DispatchInv'
<1> SUFFICES ASSUME DispatchInv, Drained \/ DrainFails \/ Signal PROVE DispatchInv'
  OBVIOUS
<1>1. /\ phase' \in {"ended", "raised"} /\ putting' \subseteq putting
      /\ UNCHANGED <<owned, position, offset, handled, workers, revoking>>
      /\ Cancel(Stopping) \/ UNCHANGED <<tasks, permits>>
  BY DEF Drained, DrainFails, Signal
<1>2. /\ tasks' \in Seq(Worker) /\ DOMAIN tasks' = DOMAIN tasks
      /\ \A t \in DOMAIN tasks : tasks'[t].partition = tasks[t].partition
      /\ \A t \in DOMAIN tasks : IsLive(t)' => IsLive(t) /\ tasks'[t] = tasks[t]
      /\ PermitsBalance' /\ permits' \in Int
  <2>1. CASE Cancel(Stopping)
    BY <2>1, StoppingAreTasks, CancelKeeps
  <2>2. CASE UNCHANGED <<tasks, permits>>
    BY <2>2 DEF DispatchInv, DispatchType, PermitsBalance, IsLive
  <2>3. QED
    BY <1>1, <2>1, <2>2
<1>3. /\ revoking' \subseteq Partition /\ revoking' \cap owned' = {}
      /\ workers' \in [Partition -> {0} \cup DOMAIN tasks]
      /\ \A p \in Partition : workers'[p] \in {0, workers[p]}
  BY <1>1 DEF DispatchInv, DispatchType
<1>4. QED
  BY <1>1, <1>2, <1>3, WorkersEnd

-----------------------------------------------------------------------------
\* The process starts with nothing fetched and every permit free (run).
LEMMA DispatcherStarts == DispatchInit => DispatchInv
<1> SUFFICES ASSUME DispatchInit PROVE DispatchInv
  OBVIOUS
<1>1. tasks = <<>> /\ DOMAIN tasks = {} /\ tasks \in Seq(Worker)
  BY DEF DispatchInit
<1>2. DispatchType
  BY <1>1, DispatchAssumption DEF DispatchInit, DispatchType
<1>3. \A p \in Partition : Below(position[p], handled[p])
  BY DEF DispatchInit, Below
<1>4. NothingSkipped
  BY DEF DispatchInit, NothingSkipped
<1>5. PermitsBalance
  <2>1. {t \in DOMAIN tasks : tasks[t].at = "processing"} = {}
    BY <1>1
  <2>2. MaxPartitions \in Int /\ Cardinality({}) = 0
    BY DispatchAssumption, FS_EmptySet
  <2>3. QED
    BY <2>1, <2>2 DEF DispatchInit, PermitsBalance
<1>6. \A p \in Partition : FetchedIsHeld(p)
  BY <1>3 DEF DispatchInit, FetchedIsHeld
<1>7. QED
  BY <1>1, <1>2, <1>4, <1>5, <1>6 DEF DispatchInv, DispatchInit

\* Every step of the dispatcher, its workers and the group keeps what it needs.
LEMMA DispatchKeeps == DispatchInv /\ [DispatchNext]_dispatchVars => DispatchInv'
<1> SUFFICES ASSUME DispatchInv, [DispatchNext]_dispatchVars PROVE DispatchInv'
  OBVIOUS
<1>1. CASE UNCHANGED dispatchVars
  <2>1. UNCHANGED <<owned, position, offset, handled, tasks, workers, permits, putting,
                    revoking, phase>>
    BY <1>1 DEF dispatchVars
  <2>2. /\ revoking' \subseteq Partition /\ revoking' \cap owned' = {}
        /\ workers' \in [Partition -> {0} \cup DOMAIN tasks] /\ tasks' \in Seq(Worker)
        /\ permits' \in Int
    BY <2>1 DEF DispatchInv, DispatchType
  <2>3. PermitsBalance'
    BY <2>1 DEF DispatchInv, PermitsBalance
  <2>4. QED
    BY <2>1, <2>2, <2>3, WorkersEnd DEF IsLive
<1>2. QED
  BY <1>1, DeliverKeeps, OtherMemberKeeps, AssignedKeeps, GetKeeps, AcquireKeeps,
     ProcessedKeeps, ClaimLostKeeps, RaisedKeeps, PutSentinelKeeps, PutKeeps, RebalanceKeeps,
     RevokedKeeps, ExhaustedKeeps, EndsKeep DEF DispatchNext, WorkerStep

\* At most one task of a partition lives, so at most one is counted.
LEMMA OneWorker == DispatchInv => OneWorkerPerPartition
<1> SUFFICES ASSUME DispatchInv, NEW p \in Partition
             PROVE  Cardinality({t \in DOMAIN tasks : tasks[t].partition = p
                                                      /\ tasks[t].at \in Live}) <= 1
  BY DEF OneWorkerPerPartition
<1>1. PICK S : S = {t \in DOMAIN tasks : tasks[t].partition = p /\ tasks[t].at \in Live}
  OBVIOUS
<1>2. \A t, u \in S : t = u
  BY <1>1 DEF DispatchInv, IsLive
<1>3. S = {} \/ \E t : S = {t}
  BY <1>2
<1>4. Cardinality(S) \in {0, 1}
  <2>1. CASE S = {}
    BY <2>1, FS_EmptySet
  <2>2. CASE \E t : S = {t}
    BY <2>2, FS_Singleton
  <2>3. QED
    BY <1>3, <2>1, <2>2
<1>5. QED
  BY <1>1, <1>4

-----------------------------------------------------------------------------
(* The Pub/Sub source.  Every delivery, wherever it waits, is of a message   *)
(* no further than the one after the last acked of its key.                  *)
Delivery == [partition : OrderingKeys, intent : Nat \ {0}, handle : Int]

KeyWorker == [at : {NoneYet, "getting", "processing", "failed"},
              queue : {<<>>} \cup {<<d>> : d \in Delivery}, on : SUBSET Delivery]

SourceType ==
    /\ acked \in [OrderingKeys -> Nat] /\ copies \in [OrderingKeys -> Int]
    /\ callbacks \subseteq Delivery /\ queue \in Seq(Delivery) /\ feeding \subseteq Delivery
    /\ worker \in [OrderingKeys -> KeyWorker]

Due(d) == d.intent <= acked[d.partition] + 1

DeliveriesInv ==
    /\ \A d \in callbacks \cup feeding : Due(d)
    /\ \A i \in DOMAIN queue : Due(queue[i])
    /\ \A k \in OrderingKeys :
           /\ worker[k].queue # <<>> =>
                  Head(worker[k].queue).partition = k /\ Due(Head(worker[k].queue))
           /\ \A d \in worker[k].on : d.partition = k /\ Due(d)

\* What was acked is finished, and so is what comes before anything started.
OrderInv ==
    /\ \A k \in OrderingKeys : \A n \in 1..acked[k] : <<k, n>> \in finished
    /\ \A s \in started : s[2] > 1 => <<s[1], s[2] - 1>> \in finished

SourceInv == SourceType /\ DeliveriesInv /\ OrderInv

\* The subscription starts with nothing acked (SourceInit).
LEMMA SourceStarts == SourceInit => SourceInv
<1> SUFFICES ASSUME SourceInit PROVE SourceInv
  OBVIOUS
<1>1. queue \in Seq(Delivery) /\ DOMAIN queue = {}
  BY DEF SourceInit
<1>2. SourceType
  BY <1>1 DEF SourceInit, SourceType, KeyWorker
<1>3. DeliveriesInv
  BY <1>1 DEF SourceInit, DeliveriesInv
<1>4. OrderInv
  BY DEF SourceInit, OrderInv
<1>5. QED
  BY <1>2, <1>3, <1>4 DEF SourceInv

\* Acking moves a key on by one message at most, and only past a delivery of
\* the message it is at (handle.ack, the service's ordered redelivery).
LEMMA AckMovesByOne ==
    ASSUME SourceType, NEW d \in Delivery, NEW counted \in BOOLEAN, ack(d, counted)
    PROVE  /\ acked' \in [OrderingKeys -> Nat] /\ copies' \in [OrderingKeys -> Int]
           /\ \A k \in OrderingKeys :
                  \/ acked'[k] = acked[k]
                  \/ k = d.partition /\ d.intent = acked[k] + 1 /\ acked'[k] = acked[k] + 1
<1> DEFINE p == d.partition
<1>1. p \in OrderingKeys /\ d.intent \in Nat /\ acked \in [OrderingKeys -> Nat]
      /\ copies \in [OrderingKeys -> Int]
  BY DEF SourceType, Delivery
<1>2. PICK a : a = IF counted /\ d.intent = acked[p] + 1 THEN d.intent ELSE acked[p]
  OBVIOUS
<1>3. PICK c : c = IF counted /\ d.intent = acked[p] + 1 THEN 0 ELSE copies[p]
  OBVIOUS
<1>4. acked' = [acked EXCEPT ![p] = a] /\ copies' = [copies EXCEPT ![p] = c]
  BY <1>2, <1>3 DEF ack
<1>5. a \in Nat /\ c \in Int /\ (a = acked[p] \/ (d.intent = acked[p] + 1 /\ a = acked[p] + 1))
  BY <1>1, <1>2, <1>3
<1> HIDE DEF p
<1>6. /\ acked' \in [OrderingKeys -> Nat] /\ copies' \in [OrderingKeys -> Int]
      /\ acked'[p] = a /\ \A k \in OrderingKeys : k # p => acked'[k] = acked[k]
  BY <1>1, <1>4, <1>5
<1>7. QED
  BY <1>5, <1>6 DEF p

\* Deliveries are passed on, and neither acked nor started: what is due stays
\* due wherever it goes (the client's callbacks, run, the queues).
LEMMA DeliveriesPassOn ==
    ASSUME SourceInv, SourceType', DeliveriesInv', UNCHANGED <<acked, started, finished>>
    PROVE  SourceInv'
BY DEF SourceInv, OrderInv

\* The service delivers the message after the last acked one (Offer).
LEMMA OfferKeeps == ASSUME NEW k \in OrderingKeys PROVE SourceInv /\ Offer(k) => SourceInv'
<1> SUFFICES ASSUME SourceInv, Offer(k) PROVE SourceInv'
  OBVIOUS
<1>1. PICK d : d = DeliveredIntent(k, acked[k] + 1, copies[k] + 1)
  OBVIOUS
<1>2. acked[k] \in Nat /\ copies[k] \in Int /\ acked \in [OrderingKeys -> Nat]
      /\ copies \in [OrderingKeys -> Int]
  BY DEF SourceInv, SourceType
<1>3. d \in Delivery /\ Due(d)
  BY <1>1, <1>2 DEF DeliveredIntent, Delivery, Due
<1>4. /\ UNCHANGED <<acked, queue, feeding, worker, started, finished>>
      /\ callbacks' = callbacks \cup {d} /\ copies' = [copies EXCEPT ![k] = @ + 1]
  BY <1>1 DEF Offer
<1>5. SourceType'
  BY <1>2, <1>3, <1>4 DEF SourceInv, SourceType
<1>6. DeliveriesInv'
  BY <1>3, <1>4 DEF SourceInv, DeliveriesInv, Due
<1>7. QED
  BY <1>4, <1>5, <1>6, DeliveriesPassOn

\* A lease that runs out changes what the service delivers next, and nothing a
\* worker has (LeaseRunsOut).
LEMMA LeaseRunsOutKeeps ==
    ASSUME NEW k \in OrderingKeys PROVE SourceInv /\ LeaseRunsOut(k) => SourceInv'
<1> SUFFICES ASSUME SourceInv, LeaseRunsOut(k) PROVE SourceInv'
  OBVIOUS
<1>1. UNCHANGED <<acked, copies, callbacks, queue, feeding, worker, started, finished>>
  BY DEF LeaseRunsOut
<1>2. SourceType' /\ DeliveriesInv'
  BY <1>1 DEF SourceInv, SourceType, DeliveriesInv, Due
<1>3. QED
  BY <1>1, <1>2, DeliveriesPassOn

\* A callback's delivery enters the bounded queue and is not acked (_on_message).
LEMMA OnMessageKeeps == ASSUME NEW d PROVE SourceInv /\ _on_message(d) => SourceInv'
<1> SUFFICES ASSUME SourceInv, _on_message(d) PROVE SourceInv'
  OBVIOUS
<1>1. /\ UNCHANGED <<acked, copies, feeding, worker, started, finished>>
      /\ d \in callbacks /\ callbacks' = callbacks \ {d} /\ queue' = Append(queue, d)
  BY DEF _on_message, acks_at_callback
<1>2. d \in Delivery /\ Due(d) /\ queue \in Seq(Delivery)
  BY <1>1 DEF SourceInv, SourceType, DeliveriesInv
<1>3. /\ queue' \in Seq(Delivery)
      /\ \A i \in DOMAIN queue' : queue'[i] = d \/ (i \in DOMAIN queue /\ queue'[i] = queue[i])
  BY <1>1, <1>2
<1>4. SourceType'
  BY <1>1, <1>3 DEF SourceInv, SourceType
<1>5. DeliveriesInv'
  BY <1>1, <1>2, <1>3 DEF SourceInv, DeliveriesInv, Due
<1>6. QED
  BY <1>1, <1>4, <1>5, DeliveriesPassOn

\* The dispatcher takes the head of the queue for the worker of its key (run).
LEMMA IterKeeps == SourceInv /\ __aiter__ => SourceInv'
<1> SUFFICES ASSUME SourceInv, __aiter__ PROVE SourceInv'
  OBVIOUS
<1>1. PICK d : d = Head(queue)
  OBVIOUS
<1>2. /\ UNCHANGED <<acked, copies, callbacks, started, finished>> /\ queue # <<>>
      /\ feeding' = {d} /\ queue' = Tail(queue) /\ queue \in Seq(Delivery)
  BY <1>1 DEF __aiter__, SourceInv, SourceType
<1>3. /\ d \in Delivery /\ Due(d) /\ queue' \in Seq(Delivery)
      /\ \A i \in DOMAIN queue' : i + 1 \in DOMAIN queue /\ queue'[i] = queue[i + 1]
  BY <1>1, <1>2 DEF SourceInv, DeliveriesInv
<1>4. PICK k \in OrderingKeys : k = d.partition
  BY <1>3 DEF Delivery
<1>5. worker \in [OrderingKeys -> KeyWorker] /\ worker[k] \in KeyWorker
  BY DEF SourceInv, SourceType
<1>6. PICK w : w = [worker[k] EXCEPT !.at = IF @ = NoneYet THEN "getting" ELSE @]
  OBVIOUS
<1>7. w \in KeyWorker /\ w.queue = worker[k].queue /\ w.on = worker[k].on
  BY <1>5, <1>6 DEF KeyWorker
<1>8. worker' = [worker EXCEPT ![k] = w]
  BY <1>1, <1>4, <1>5, <1>6 DEF __aiter__
<1>9. /\ worker' \in [OrderingKeys -> KeyWorker]
      /\ \A j \in OrderingKeys : worker'[j].queue = worker[j].queue /\ worker'[j].on = worker[j].on
  BY <1>5, <1>7, <1>8
<1>10. SourceType'
  BY <1>2, <1>3, <1>9 DEF SourceInv, SourceType
<1>11. DeliveriesInv'
  BY <1>2, <1>3, <1>9 DEF SourceInv, DeliveriesInv, Due
<1>12. QED
  BY <1>2, <1>10, <1>11, DeliveriesPassOn

\* What is fed lands in the queue of its own key's worker (run, queue.put).
LEMMA FeedKeeps == SourceInv /\ Feed => SourceInv'
<1> SUFFICES ASSUME SourceInv, Feed PROVE SourceInv'
  OBVIOUS
<1>1. PICK d \in feeding : worker' = [worker EXCEPT ![d.partition].queue = <<d>>]
  BY DEF Feed
<1>2. UNCHANGED <<acked, copies, callbacks, queue, started, finished>> /\ feeding' = {}
  BY DEF Feed
<1>3. d \in Delivery /\ Due(d)
  BY DEF SourceInv, SourceType, DeliveriesInv
<1>4. PICK k \in OrderingKeys : k = d.partition
  BY <1>3 DEF Delivery
<1>5. worker \in [OrderingKeys -> KeyWorker] /\ worker[k] \in KeyWorker
  BY DEF SourceInv, SourceType
<1>6. PICK w : w = [worker[k] EXCEPT !.queue = <<d>>]
  OBVIOUS
<1>7. w \in KeyWorker /\ w.queue = <<d>> /\ w.on = worker[k].on
  BY <1>3, <1>5, <1>6 DEF KeyWorker
<1>8. worker' = [worker EXCEPT ![k] = w]
  BY <1>1, <1>4, <1>5, <1>6
<1>9. /\ worker' \in [OrderingKeys -> KeyWorker] /\ worker'[k] = w
      /\ \A j \in OrderingKeys : j # k => worker'[j] = worker[j]
  BY <1>5, <1>7, <1>8
<1>10. SourceType'
  BY <1>2, <1>9 DEF SourceInv, SourceType
<1>11. Head(w.queue) = d
  BY <1>7
<1>12. DeliveriesInv'
  <2>1. ASSUME NEW j \in OrderingKeys
        PROVE  /\ worker'[j].queue # <<>> =>
                      Head(worker'[j].queue).partition = j /\ Due(Head(worker'[j].queue))
               /\ \A e \in worker'[j].on : e.partition = j /\ Due(e)
    BY <1>3, <1>4, <1>7, <1>9, <1>11 DEF SourceInv, DeliveriesInv
  <2>2. QED
    BY <2>1, <1>2 DEF SourceInv, DeliveriesInv, Due
<1>13. QED
  BY <1>2, <1>10, <1>12, DeliveriesPassOn

\* A worker starts on what is due, so everything before it is finished (_worker).
LEMMA TakeKeeps == ASSUME NEW k \in OrderingKeys PROVE SourceInv /\ Take(k) => SourceInv'
<1> SUFFICES ASSUME SourceInv, Take(k) PROVE SourceInv'
  OBVIOUS
<1>1. PICK d : d = Head(worker[k].queue)
  OBVIOUS
<1>2. /\ UNCHANGED <<acked, copies, callbacks, queue, feeding, finished>>
      /\ worker[k].queue # <<>> /\ started' = started \cup {<<k, d.intent>>}
      /\ worker' = [worker EXCEPT ![k] = [at |-> "processing", queue |-> <<>>, on |-> {d}]]
  BY <1>1 DEF Take
<1>3. worker \in [OrderingKeys -> KeyWorker] /\ worker[k] \in KeyWorker
      /\ acked \in [OrderingKeys -> Nat]
  BY DEF SourceInv, SourceType
<1>4. d \in Delivery
  BY <1>1, <1>2, <1>3 DEF KeyWorker
<1>5. d.partition = k /\ Due(d)
  BY <1>1, <1>2 DEF SourceInv, DeliveriesInv
<1>6. PICK w : w = [at |-> "processing", queue |-> <<>>, on |-> {d}]
  OBVIOUS
<1>7. w \in KeyWorker /\ w.queue = <<>> /\ w.on = {d}
  BY <1>4, <1>6 DEF KeyWorker
<1>8. /\ worker' \in [OrderingKeys -> KeyWorker] /\ worker'[k] = w
      /\ \A j \in OrderingKeys : j # k => worker'[j] = worker[j]
  BY <1>2, <1>3, <1>6, <1>7
<1>9. SourceType'
  BY <1>2, <1>8 DEF SourceInv, SourceType
<1>10. DeliveriesInv'
  BY <1>2, <1>5, <1>7, <1>8 DEF SourceInv, DeliveriesInv, Due
<1>11. d.intent > 1 => <<k, d.intent - 1>> \in finished
  <2>1. d.intent \in Nat /\ d.intent <= acked[k] + 1 /\ acked[k] \in Nat
    BY <1>3, <1>4, <1>5 DEF Delivery, Due
  <2>2. d.intent > 1 => d.intent - 1 \in 1..acked[k]
    BY <2>1
  <2>3. QED
    BY <2>2 DEF SourceInv, OrderInv
<1>12. OrderInv'
  <2>1. ASSUME NEW s \in started', s[2] > 1 PROVE <<s[1], s[2] - 1>> \in finished
    <3>1. CASE s \in started
      BY <2>1, <3>1 DEF SourceInv, OrderInv
    <3>2. CASE s = <<k, d.intent>>
      BY <2>1, <3>2, <1>11
    <3>3. QED
      BY <1>2, <3>1, <3>2
  <2>2. QED
    BY <2>1, <1>2 DEF SourceInv, OrderInv
<1>13. QED
  BY <1>9, <1>10, <1>12 DEF SourceInv

\* A worker acks what it has just finished (process, then handle.ack).
LEMMA CommitMessageKeeps == ASSUME NEW k \in OrderingKeys PROVE SourceInv /\ commit(k) => SourceInv'
<1> SUFFICES ASSUME SourceInv, commit(k) PROVE SourceInv'
  OBVIOUS
<1>1. PICK d \in worker[k].on, counted \in BOOLEAN :
         finished' = finished \cup {<<k, d.intent>>} /\ ack(d, counted)
  BY DEF commit
<1>2. worker \in [OrderingKeys -> KeyWorker] /\ worker[k] \in KeyWorker
      /\ acked \in [OrderingKeys -> Nat] /\ SourceType
  BY DEF SourceInv, SourceType
<1>3. d \in Delivery /\ d.partition = k
  BY <1>2 DEF KeyWorker, SourceInv, DeliveriesInv
<1>4. /\ acked' \in [OrderingKeys -> Nat] /\ copies' \in [OrderingKeys -> Int]
      /\ \A j \in OrderingKeys :
             \/ acked'[j] = acked[j]
             \/ j = k /\ d.intent = acked[j] + 1 /\ acked'[j] = acked[j] + 1
  BY <1>1, <1>2, <1>3, AckMovesByOne
<1>5. PICK w : w = [worker[k] EXCEPT !.at = "getting", !.on = {}]
  OBVIOUS
<1>6. w \in KeyWorker /\ w.queue = worker[k].queue /\ w.on = {}
  BY <1>2, <1>5 DEF KeyWorker
<1>7. worker' = [worker EXCEPT ![k] = w] /\ UNCHANGED <<callbacks, queue, feeding, started>>
  BY <1>2, <1>5 DEF commit
<1>8. /\ worker' \in [OrderingKeys -> KeyWorker]
      /\ \A j \in OrderingKeys :
             worker'[j].queue = worker[j].queue /\ worker'[j].on \subseteq worker[j].on
  BY <1>2, <1>6, <1>7
<1>9. SourceType'
  BY <1>4, <1>7, <1>8 DEF SourceInv, SourceType
<1>10. ASSUME NEW e \in Delivery, Due(e) PROVE Due(e)'
  BY <1>2, <1>4, <1>10 DEF Due, Delivery
<1>11. DeliveriesInv'
  <2>1. \A e \in (callbacks \cup feeding)' : Due(e)'
    BY <1>7, <1>10 DEF SourceInv, SourceType, DeliveriesInv
  <2>2. \A i \in DOMAIN queue' : Due(queue[i])'
    BY <1>7, <1>10 DEF SourceInv, SourceType, DeliveriesInv
  <2>3. ASSUME NEW j \in OrderingKeys
        PROVE  /\ worker'[j].queue # <<>> =>
                      Head(worker'[j].queue).partition = j /\ Due(Head(worker[j].queue))'
               /\ \A e \in worker'[j].on : e.partition = j /\ Due(e)'
    <3>1. worker[j] \in KeyWorker
      BY <1>2
    <3>2. /\ worker[j].queue # <<>> => Head(worker[j].queue) \in Delivery
          /\ worker[j].on \subseteq Delivery
      BY <3>1 DEF KeyWorker
    <3>3. worker'[j].queue = worker[j].queue /\ worker'[j].on \subseteq worker[j].on
      BY <1>8
    <3>4. QED
      BY <3>2, <3>3, <1>10 DEF SourceInv, DeliveriesInv, Due
  <2>4. QED
    BY <2>1, <2>2, <2>3 DEF DeliveriesInv, Due
<1>12. OrderInv'
  <2>1. ASSUME NEW j \in OrderingKeys, NEW n \in 1..acked'[j] PROVE <<j, n>> \in finished'
    <3>1. CASE acked'[j] = acked[j]
      BY <3>1, <1>1 DEF SourceInv, OrderInv
    <3>2. CASE j = k /\ d.intent = acked[j] + 1 /\ acked'[j] = acked[j] + 1
      <4>1. n \in 1..acked[j] \/ n = d.intent
        BY <3>2, <1>2
      <4>2. QED
        BY <4>1, <3>2, <1>1 DEF SourceInv, OrderInv
    <3>3. QED
      BY <3>1, <3>2, <1>4
  <2>2. QED
    BY <2>1, <1>1, <1>7 DEF SourceInv, OrderInv
<1>13. QED
  BY <1>9, <1>11, <1>12 DEF SourceInv

\* A worker that dies leaves its queue behind (_worker).
LEMMA SourceWorkerDiesKeeps ==
    ASSUME NEW k \in OrderingKeys PROVE SourceInv /\ SourceWorkerDies(k) => SourceInv'
<1> SUFFICES ASSUME SourceInv, SourceWorkerDies(k) PROVE SourceInv'
  OBVIOUS
<1>1. worker \in [OrderingKeys -> KeyWorker] /\ worker[k] \in KeyWorker
  BY DEF SourceInv, SourceType
<1>2. PICK w : w = [worker[k] EXCEPT !.at = "failed", !.on = {}]
  OBVIOUS
<1>3. w \in KeyWorker /\ w.queue = worker[k].queue /\ w.on = {}
  BY <1>1, <1>2 DEF KeyWorker
<1>4. /\ UNCHANGED <<acked, copies, callbacks, queue, feeding, started, finished>>
      /\ worker' = [worker EXCEPT ![k] = w]
  BY <1>1, <1>2 DEF SourceWorkerDies
<1>5. /\ worker' \in [OrderingKeys -> KeyWorker]
      /\ \A j \in OrderingKeys :
             worker'[j].queue = worker[j].queue /\ worker'[j].on \subseteq worker[j].on
  BY <1>1, <1>3, <1>4
<1>6. SourceType'
  BY <1>4, <1>5 DEF SourceInv, SourceType
<1>7. DeliveriesInv'
  BY <1>4, <1>5 DEF SourceInv, DeliveriesInv, Due
<1>8. QED
  BY <1>4, <1>6, <1>7, DeliveriesPassOn

\* A worker whose claim has lapsed goes on without an ack (process).
LEMMA ClaimGoneKeeps ==
    ASSUME NEW k \in OrderingKeys PROVE SourceInv /\ ClaimGone(k) => SourceInv'
<1> SUFFICES ASSUME SourceInv, ClaimGone(k) PROVE SourceInv'
  OBVIOUS
<1>1. worker \in [OrderingKeys -> KeyWorker] /\ worker[k] \in KeyWorker
  BY DEF SourceInv, SourceType
<1>2. PICK w : w = [worker[k] EXCEPT !.at = "getting", !.on = {}]
  OBVIOUS
<1>3. w \in KeyWorker /\ w.queue = worker[k].queue /\ w.on = {}
  BY <1>1, <1>2 DEF KeyWorker
<1>4. /\ UNCHANGED <<acked, copies, callbacks, queue, feeding, started, finished>>
      /\ worker' = [worker EXCEPT ![k] = w]
  BY <1>1, <1>2 DEF ClaimGone
<1>5. /\ worker' \in [OrderingKeys -> KeyWorker]
      /\ \A j \in OrderingKeys :
             worker'[j].queue = worker[j].queue /\ worker'[j].on \subseteq worker[j].on
  BY <1>1, <1>3, <1>4
<1>6. SourceType'
  BY <1>4, <1>5 DEF SourceInv, SourceType
<1>7. DeliveriesInv'
  BY <1>4, <1>5 DEF SourceInv, DeliveriesInv, Due
<1>8. QED
  BY <1>4, <1>6, <1>7, DeliveriesPassOn

\* Every step of the subscription, the source and the workers keeps the order.
LEMMA SourceKeeps == SourceInv /\ [SourceNext]_sourceVars => SourceInv'
<1>1. SourceInv /\ UNCHANGED sourceVars => SourceInv'
  <2> SUFFICES ASSUME SourceInv, UNCHANGED sourceVars PROVE SourceInv'
    OBVIOUS
  <2>1. UNCHANGED <<acked, copies, callbacks, queue, feeding, worker, started, finished>>
    BY DEF sourceVars
  <2>2. SourceType' /\ DeliveriesInv'
    BY <2>1 DEF SourceInv, SourceType, DeliveriesInv, Due
  <2>3. QED
    BY <2>1, <2>2, DeliveriesPassOn
<1>2. QED
  BY <1>1, OfferKeeps, LeaseRunsOutKeeps, TakeKeeps, CommitMessageKeeps, ClaimGoneKeeps,
     SourceWorkerDiesKeeps, OnMessageKeeps, IterKeeps, FeedKeeps DEF SourceNext

\* The invariant says more than the property: what is acked is finished, however
\* many messages a key has.
LEMMA SourceOrder == SourceInv => KeyOrderKept
<1> SUFFICES ASSUME SourceInv PROVE KeyOrderKept
  OBVIOUS
<1>1. ASSUME NEW k \in OrderingKeys, NEW n \in 1..Messages[k], n <= acked[k]
      PROVE  <<k, n>> \in finished
  <2>1. n \in 1..acked[k]
    BY <1>1, SourceAssumption DEF SourceInv, SourceType
  <2>2. QED
    BY <2>1 DEF SourceInv, OrderInv
<1>2. QED
  BY <1>1 DEF KeyOrderKept, SourceInv, OrderInv

-----------------------------------------------------------------------------
(* The result sinks.  Over Kafka no key is ever paused, so every failed      *)
(* attempt of a result is one the broker refused or a start that failed.     *)
Publisher == [at : {"idle", "starting", "sending", "raised"}, result : Int, attempt : Int,
              refused : Int, unstarted : Int]

SinkType ==
    /\ publisher \in [Publishers -> Publisher]
    /\ producer \in [flag : BOOLEAN, starts : Int, up : BOOLEAN]

RefusalsCounted(p) ==
    /\ p.at # "raised" => p.refused + p.unstarted = p.attempt - 1 /\ p.attempt <= MaxAttempts
    /\ p.at = "raised" => p.refused + p.unstarted = MaxAttempts

SinkInv ==
    /\ SinkType
    /\ transport = "kafka" =>
           /\ paused_keys = {}
           /\ producer.flag => producer.up
           /\ \A w \in Publishers : /\ publisher[w].at = "sending" => producer.up
                                    /\ RefusalsCounted(publisher[w])

(* A result sink starts with no worker in an attempt: ResultInit.            *)
LEMMA SinkStarts == ResultInit => SinkInv
  BY ResultSinkAssumption DEF ResultInit, SinkInv, SinkType, Publisher, RefusalsCounted

(* The record a failed attempt leaves: the worker dies, or comes back with   *)
(* another attempt.                                                          *)
LEMMA AttemptRecord ==
  ASSUME SinkInv, NEW w \in Publishers, NEW k \in Int, NEW l \in Int,
         AttemptFails(w, k, l)
  PROVE  \E q \in Publisher :
            /\ publisher' = [publisher EXCEPT ![w] = q]
            /\ q.refused = publisher[w].refused + k
            /\ q.unstarted = publisher[w].unstarted + l
            /\ IF gives_up(publisher[w]) THEN q.at = "raised"
               ELSE q.at = "idle" /\ q.attempt = publisher[w].attempt + 1
<1>1. publisher[w] \in Publisher
  BY DEF SinkInv, SinkType
<1>2. PICK o : o = publisher[w]
  OBVIOUS
<1>3. PICK p : p = [o EXCEPT !.refused = @ + k, !.unstarted = @ + l]
  OBVIOUS
<1>4. /\ p \in Publisher /\ p.attempt = o.attempt
      /\ p.refused = o.refused + k /\ p.unstarted = o.unstarted + l
  <2>1. PICK m : m = [o EXCEPT !.refused = @ + k]
    OBVIOUS
  <2>2. /\ m \in Publisher /\ m.refused = o.refused + k /\ m.attempt = o.attempt
        /\ m.unstarted = o.unstarted
    BY <1>1, <1>2, <2>1 DEF Publisher
  <2>3. PICK n : n = [m EXCEPT !.unstarted = @ + l]
    OBVIOUS
  <2>4. /\ n \in Publisher /\ n.unstarted = m.unstarted + l /\ n.attempt = m.attempt
        /\ n.refused = m.refused
    BY <2>2, <2>3 DEF Publisher
  <2>5. p = n
    BY <1>1, <1>2, <1>3, <2>1, <2>3 DEF Publisher
  <2> QED BY <2>2, <2>4, <2>5
<1>5. publisher' = [publisher EXCEPT ![w] = IF gives_up(p) THEN [p EXCEPT !.at = "raised"]
                                           ELSE [p EXCEPT !.at = "idle", !.attempt = @ + 1]]
  BY <1>2, <1>3 DEF AttemptFails
<1>6. gives_up(p) <=> gives_up(publisher[w])
  BY <1>2, <1>4 DEF gives_up
<1>7. CASE gives_up(p)
  <2>1. PICK q : q = [p EXCEPT !.at = "raised"]
    OBVIOUS
  <2>2. q \in Publisher /\ q.at = "raised" /\ q.refused = p.refused
        /\ q.unstarted = p.unstarted
    BY <2>1, <1>4 DEF Publisher
  <2> QED BY <2>1, <2>2, <1>2, <1>4, <1>5, <1>6, <1>7
<1>8. CASE ~gives_up(p)
  <2>1. PICK m : m = [p EXCEPT !.at = "idle"]
    OBVIOUS
  <2>2. m \in Publisher /\ m.at = "idle" /\ m.refused = p.refused /\ m.attempt = p.attempt
        /\ m.unstarted = p.unstarted
    BY <2>1, <1>4 DEF Publisher
  <2>3. PICK q : q = [m EXCEPT !.attempt = @ + 1]
    OBVIOUS
  <2>4. q \in Publisher /\ q.at = "idle" /\ q.refused = p.refused /\ q.attempt = p.attempt + 1
        /\ q.unstarted = p.unstarted
    BY <2>2, <2>3 DEF Publisher
  <2>5. [p EXCEPT !.at = "idle", !.attempt = @ + 1] = q
    BY <2>1, <2>3, <1>4 DEF Publisher
  <2> QED BY <2>4, <2>5, <1>2, <1>4, <1>5, <1>6, <1>8
<1> QED BY <1>7, <1>8

(* A failed attempt over Kafka is one refusal or failed start more, and the  *)
(* last one of the budget is the one the worker dies of: _with_retry.                        *)
LEMMA AttemptCounted ==
  ASSUME SinkInv, transport = "kafka", NEW w \in Publishers, NEW k \in Int, NEW l \in Int,
         k + l = 1, publisher[w].at \in {"starting", "sending"}, AttemptFails(w, k, l)
  PROVE  /\ \A u \in Publishers : RefusalsCounted(publisher'[u])
         /\ \A u \in Publishers : publisher'[u].at = "sending" => publisher[u].at = "sending"
<1>1. publisher \in [Publishers -> Publisher] /\ publisher[w] \in Publisher
  BY DEF SinkInv, SinkType
<1>2. PICK q \in Publisher :
            /\ publisher' = [publisher EXCEPT ![w] = q]
            /\ q.refused = publisher[w].refused + k
            /\ q.unstarted = publisher[w].unstarted + l
            /\ IF gives_up(publisher[w]) THEN q.at = "raised"
               ELSE q.at = "idle" /\ q.attempt = publisher[w].attempt + 1
  BY AttemptRecord
<1>3. /\ publisher[w].refused + publisher[w].unstarted = publisher[w].attempt - 1
      /\ publisher[w].attempt <= MaxAttempts
  BY DEF SinkInv, RefusalsCounted
<1>4. /\ publisher[w].attempt \in Int /\ publisher[w].refused \in Int
      /\ publisher[w].unstarted \in Int /\ q.attempt \in Int
  BY <1>1, <1>2 DEF Publisher
<1>5. q.refused + q.unstarted = publisher[w].attempt
  BY <1>2, <1>3, <1>4
<1>6. q.at # "sending" /\ RefusalsCounted(q)
  <2>1. CASE gives_up(publisher[w])
    <3>1. q.at = "raised" /\ publisher[w].attempt = MaxAttempts
      BY <2>1, <1>2, <1>3, <1>4, ResultSinkAssumption DEF gives_up
    <3> QED BY <3>1, <1>5 DEF RefusalsCounted
  <2>2. CASE ~gives_up(publisher[w])
    <3>1. /\ q.at = "idle" /\ q.attempt = publisher[w].attempt + 1
          /\ q.attempt <= MaxAttempts
      BY <2>2, <1>2, <1>4, ResultSinkAssumption DEF gives_up
    <3> QED BY <3>1, <1>4, <1>5 DEF RefusalsCounted
  <2> QED BY <2>1, <2>2
<1> QED BY <1>1, <1>2, <1>6 DEF SinkInv

(* Every step of a worker at the sink keeps the count of its refusals and    *)
(* finds the producer up when it sends: _ensure_started, publish.            *)
LEMMA SinkKeeps == SinkInv /\ [ResultNext]_resultVars => SinkInv'
<1> SUFFICES ASSUME SinkInv, [ResultNext]_resultVars PROVE SinkInv'
  OBVIOUS
<1> USE DEF SinkInv, SinkType
<1>1. ASSUME NEW w \in Publishers, BeginPublish(w) PROVE SinkInv'
  <2>1. /\ transport' = transport /\ paused_keys' = paused_keys
        /\ \E s \in {"starting", "sending"} :
             /\ publisher' = [publisher EXCEPT ![w].at = s]
             /\ transport = "kafka" /\ s = "sending" => producer' = producer /\ producer.flag
        /\ producer' = producer \/ producer' = starting
        /\ publisher[w].at = "idle"
    BY <1>1 DEF BeginPublish, At
  <2>2. PICK s \in {"starting", "sending"} :
             /\ publisher' = [publisher EXCEPT ![w].at = s]
             /\ transport = "kafka" /\ s = "sending" => producer' = producer /\ producer.flag
    BY <2>1
  <2>3. producer' \in [flag : BOOLEAN, starts : Int, up : BOOLEAN]
        /\ producer'.flag = producer.flag /\ producer'.up = producer.up
    BY <2>1 DEF starting
  <2>4. publisher' \in [Publishers -> Publisher]
    BY <2>2 DEF Publisher
  <2>5. ASSUME transport = "kafka", NEW u \in Publishers
        PROVE  /\ publisher'[u].at = "sending" => producer.up
               /\ RefusalsCounted(publisher'[u])
    <3>1. CASE u = w
      BY <3>1, <2>1, <2>2, <2>5 DEF Publisher, RefusalsCounted
    <3>2. CASE u # w
      BY <3>2, <2>2, <2>5
    <3> QED BY <3>1, <3>2
  <2> QED BY <2>1, <2>3, <2>4, <2>5
<1>2. ASSUME NEW w \in Publishers, Started(w) PROVE SinkInv'
  <2>1. producer' \in [flag : BOOLEAN, starts : Int, up : BOOLEAN] /\ producer'.up
    BY <1>2 DEF Started
  <2>2. publisher' \in [Publishers -> Publisher]
    BY <1>2 DEF Started, At, Publisher
  <2>3. ASSUME transport = "kafka", NEW u \in Publishers PROVE RefusalsCounted(publisher'[u])
    BY <1>2, <2>3 DEF Started, At, Publisher, RefusalsCounted
  <2> QED BY <2>1, <2>2, <2>3, <1>2 DEF Started
<1>3. ASSUME NEW w \in Publishers, Accept(w) PROVE SinkInv'
  <2>1. PICK r : r = [at |-> "idle", result |-> publisher[w].result + 1, attempt |-> 1,
                        refused |-> 0, unstarted |-> 0]
    OBVIOUS
  <2>2. publisher' = [publisher EXCEPT ![w] = r]
    BY <1>3, <2>1 DEF Accept
  <2>3. r \in Publisher /\ r.at = "idle" /\ RefusalsCounted(r)
    BY <2>1, ResultSinkAssumption DEF Publisher, RefusalsCounted
  <2> QED BY <2>2, <2>3, <1>3 DEF Accept
<1>4. ASSUME NEW w \in Publishers, Refuse(w) PROVE SinkInv'
  <2>1. publisher' \in [Publishers -> Publisher]
    <3>1. AttemptFails(w, 1, 0)
      BY <1>4 DEF Refuse
    <3>2. PICK q \in Publisher : publisher' = [publisher EXCEPT ![w] = q]
      BY <3>1, AttemptRecord
    <3> QED BY <3>2
  <2>2. transport' = transport /\ producer' = producer
        /\ (transport = "kafka" => paused_keys' = paused_keys) /\ AttemptFails(w, 1, 0)
        /\ publisher[w].at = "sending"
    BY <1>4 DEF Refuse
  <2>3. CASE transport = "kafka"
    BY <2>1, <2>2, <2>3, AttemptCounted
  <2> QED BY <2>1, <2>2, <2>3
<1>5. ASSUME NEW w \in Publishers, RefusedByClient(w) PROVE SinkInv'
  <2>1. publisher' \in [Publishers -> Publisher]
    <3>1. AttemptFails(w, 0, 0)
      BY <1>5 DEF RefusedByClient
    <3>2. PICK q \in Publisher : publisher' = [publisher EXCEPT ![w] = q]
      BY <3>1, AttemptRecord
    <3> QED BY <3>2
  <2> QED BY <2>1, <1>5 DEF RefusedByClient
<1>6. ASSUME NEW w \in Publishers, StartFails(w) PROVE SinkInv'
  <2>1. publisher' \in [Publishers -> Publisher]
    <3>1. AttemptFails(w, 0, 1)
      BY <1>6 DEF StartFails
    <3>2. PICK q \in Publisher : publisher' = [publisher EXCEPT ![w] = q]
      BY <3>1, AttemptRecord
    <3> QED BY <3>2
  <2>2. transport' = transport /\ producer' = producer /\ paused_keys' = paused_keys
        /\ AttemptFails(w, 0, 1) /\ publisher[w].at = "starting"
    BY <1>6 DEF StartFails
  <2>3. CASE transport = "kafka"
    BY <2>1, <2>2, <2>3, AttemptCounted
  <2> QED BY <2>1, <2>2, <2>3
<1>7. CASE UNCHANGED resultVars
  BY <1>7 DEF resultVars
<1> QED BY <1>1, <1>2, <1>3, <1>4, <1>5, <1>6, <1>7 DEF ResultNext

(* What the sink's invariant says of its two promises.                       *)
LEMMA SinkKeepsBudget == SinkInv => SendsFollowStart /\ BudgetIsSpent
  BY DEF SinkInv, SendsFollowStart, BudgetIsSpent, RefusalsCounted

-----------------------------------------------------------------------------
(* The outbox.  What is on its way is signed, and what an attempt published  *)
(* before it is in the topic or ahead of it.                                 *)
Payload == [id : Int, after : SUBSET Int,
            body : {sign_intent(Unsigned(id, k), s) : id \in Int, k \in EntityKeys, s \in KeyIds}]
Message == [payload : Payload, future : Nat]
Future == [key : EntityKeys, id : Int, outcome : {"pending", "ok", "failed"}]

OutboxType ==
    /\ outbox \in Outboxes /\ committed \subseteq outbox /\ bundle \in Seq(outbox)
    /\ next \in Nat \ {0} /\ next <= Len(bundle) + 1
    /\ futures \in Seq(Future) /\ signer \in KeyIds
    /\ sending \in [EntityKeys -> Seq(Message)]
    /\ orphaned \in [EntityKeys -> Seq(Seq(Payload))] /\ topic \in [EntityKeys -> Seq(Payload)]
    /\ letters \in [committed : SUBSET Int, staged : SUBSET Int]

Ids(q) == {q[n].id : n \in DOMAIN q}
Payloads(q) == [n \in DOMAIN q |-> q[n].payload]

\* What its attempt published before payload p is in A.
Preceded(p, A) == p.after \subseteq A

\* Payloads that arrive one by one where A has arrived find their turn come.
InOrder(q, A) == \A y \in DOMAIN q : Preceded(q[y], A \cup {q[x].id : x \in 1..(y - 1)})

\* What arrived for a key is in order, and what is on its way will be.
KeyInOrder(k) ==
    /\ InOrder(topic[k], {})
    /\ \A c \in DOMAIN orphaned[k] : InOrder(orphaned[k][c], Arrived(k))
    /\ InOrder(Payloads(sending[k]), Arrived(k))

\* An acknowledged publish is in the topic.
AcknowledgedIsOut ==
    \A f \in DOMAIN futures : futures[f].outcome = "ok" => futures[f].id \in Arrived(futures[f].key)

\* Message n of key k answers a pending future of its own, or none.
Answers(k, n) ==
    LET m == sending[k][n] IN
    m.future # 0 =>
        /\ m.future \in DOMAIN futures
        /\ futures[m.future].key = k /\ futures[m.future].id = m.payload.id
        /\ futures[m.future].outcome = "pending"
        /\ \A l \in DOMAIN sending[k] : sending[k][l].future = m.future => l = n

\* What was published is in the topic or with the client, unless the key is
\* paused.
Gathered(f) ==
    futures[f].key \notin paused =>
        futures[f].id \in Arrived(futures[f].key) \cup Ids(Payloads(sending[futures[f].key]))

\* What the bundle in work has gone through was published, or staged as a dead
\* letter.
GoneThrough(i) ==
    IF i.serializes THEN \E f \in DOMAIN futures : futures[f].key = i.key /\ futures[f].id = i.id
    ELSE i.id \in letters.staged

OutboxInv ==
    /\ OutboxType
    /\ \A k \in EntityKeys : KeyInOrder(k)
    /\ AcknowledgedIsOut
    /\ \A k \in EntityKeys : \A n \in DOMAIN sending[k] : Answers(k, n)
    /\ \A f \in DOMAIN futures : Gathered(f)
    /\ \A n \in 1..(next - 1) : GoneThrough(bundle[n])
    /\ CommittedAreOut

-----------------------------------------------------------------------------
(* An intent as far as its signature goes, and what setting a field makes it.*)
Stamp(id, k, scheme, key_id, signature) ==
    [id |-> id, key |-> k, scheme |-> scheme, key_id |-> key_id, signature |-> signature]

LEMMA StampCleared ==
    ASSUME NEW id, NEW k, NEW s, NEW z
    PROVE  signing_input(Stamp(id, k, "HMAC_SHA256", s, z)) = Stamp(id, k, "none", "", <<>>)
<1>1. PICK i : i = Stamp(id, k, "HMAC_SHA256", s, z)
  OBVIOUS
<1>2. PICK a : a = [i EXCEPT !.scheme = "none"]
  OBVIOUS
<1>3. PICK b : b = [a EXCEPT !.key_id = ""]
  OBVIOUS
<1>4. PICK c : c = [b EXCEPT !.signature = <<>>]
  OBVIOUS
<1>5. a = Stamp(id, k, "none", s, z)
  BY <1>1, <1>2 DEF Stamp
<1>6. b = Stamp(id, k, "none", "", z)
  BY <1>3, <1>5 DEF Stamp
<1>7. c = Stamp(id, k, "none", "", <<>>)
  BY <1>4, <1>6 DEF Stamp
<1>8. signing_input(i) = c
  BY <1>2, <1>3, <1>4, Zenon DEF signing_input
<1> QED BY <1>1, <1>7, <1>8

LEMMA StampSigned ==
    ASSUME NEW id, NEW k, NEW s
    PROVE  sign_intent(Unsigned(id, k), s)
             = Stamp(id, k, "HMAC_SHA256", s, digest(s, Stamp(id, k, "none", "", <<>>)))
<1>1. PICK u : u = Unsigned(id, k)
  OBVIOUS
<1>2. PICK a : a = [u EXCEPT !.scheme = "HMAC_SHA256"]
  OBVIOUS
<1>3. PICK b : b = [a EXCEPT !.key_id = s]
  OBVIOUS
<1>4. PICK d : d = digest(s, signing_input(b))
  OBVIOUS
<1>5. PICK c : c = [b EXCEPT !.signature = d]
  OBVIOUS
<1>6. u = Stamp(id, k, "none", "", <<>>)
  BY <1>1 DEF Unsigned, Stamp
<1>7. a = Stamp(id, k, "HMAC_SHA256", "", <<>>)
  BY <1>2, <1>6 DEF Stamp
<1>8. b = Stamp(id, k, "HMAC_SHA256", s, <<>>)
  BY <1>3, <1>7 DEF Stamp
<1>9. c = Stamp(id, k, "HMAC_SHA256", s, d)
  BY <1>5, <1>8 DEF Stamp
<1>10. sign_intent(u, s) = c
  BY <1>2, <1>3, <1>4, <1>5, Zenon DEF sign_intent
<1>11. signing_input(b) = Stamp(id, k, "none", "", <<>>)
  BY <1>8, StampCleared
<1> QED BY <1>1, <1>4, <1>9, <1>10, <1>11

(* What is signed keeps its id and verifies under any keyring that has the   *)
(* key it was signed with.                                                   *)
LEMMA SignedVerifies ==
    ASSUME NEW id \in Int, NEW k, NEW s \in KeyIds
    PROVE  /\ sign_intent(Unsigned(id, k), s).id = id
           /\ verify_intent(sign_intent(Unsigned(id, k), s), KeyIds) = "ok"
<1>1. PICK u : u = Stamp(id, k, "none", "", <<>>)
  OBVIOUS
<1>2. PICK p : p = Stamp(id, k, "HMAC_SHA256", s, digest(s, u))
  OBVIOUS
<1>3. p = sign_intent(Unsigned(id, k), s)
  BY <1>1, <1>2, StampSigned
<1>4. signing_input(p) = u
  BY <1>1, <1>2, StampCleared
<1>5. /\ p.id = id /\ p.signature = digest(s, u) /\ p.scheme = "HMAC_SHA256" /\ p.key_id = s
      /\ digest(s, u) # <<>>
  BY <1>2 DEF Stamp, digest
<1>6. verify_intent(p, KeyIds) = "ok"
  BY <1>4, <1>5 DEF verify_intent
<1> QED BY <1>3, <1>5, <1>6

LEMMA PayloadFacts ==
    ASSUME NEW p \in Payload
    PROVE  p.id \in Int /\ verify_intent(p.body, KeyIds) = "ok"
<1>1. PICK id \in Int, k \in EntityKeys, s \in KeyIds : p.body = sign_intent(Unsigned(id, k), s)
  BY DEF Payload
<1> QED BY <1>1, SignedVerifies DEF Payload

(* Every intent of a stream has an entity key of the model's.                *)
LEMMA StreamKeys ==
    ASSUME NEW o \in Outboxes, NEW i \in o
    PROVE  i.id \in Int /\ i.key \in EntityKeys
  BY OutboxAssumption DEF EntityKeys, Intent

-----------------------------------------------------------------------------
(* Order, as a list of payloads grows and is used up.                        *)
LEMMA PrecededGrows ==
    ASSUME NEW x, NEW A, NEW B, Preceded(x, A), A \subseteq B
    PROVE  Preceded(x, B)
  BY DEF Preceded

LEMMA OrderGrows ==
    ASSUME NEW q, NEW A, NEW B, InOrder(q, A), A \subseteq B
    PROVE  InOrder(q, B)
<1> SUFFICES ASSUME NEW y \in DOMAIN q
             PROVE  Preceded(q[y], B \cup {q[x].id : x \in 1..(y - 1)})
  BY DEF InOrder
<1>. DEFINE E == {q[x].id : x \in 1..(y - 1)}
<1>1. Preceded(q[y], A \cup E) /\ A \cup E \subseteq B \cup E
  BY DEF InOrder
<1>. HIDE DEF E
<1>2. Preceded(q[y], B \cup E)
  BY <1>1, PrecededGrows
<1> QED BY <1>2 DEF E

LEMMA NothingIsInOrder == ASSUME NEW A PROVE InOrder(<<>>, A)
  BY DEF InOrder

LEMMA OrderAppended ==
    ASSUME NEW S, NEW q \in Seq(S), NEW p \in S, NEW A,
           InOrder(q, A), Preceded(p, A \cup Ids(q))
    PROVE  InOrder(Append(q, p), A)
<1>. DEFINE r == Append(q, p)
<1>1. /\ DOMAIN r = 1..(Len(q) + 1) /\ DOMAIN q = 1..Len(q) /\ Len(q) \in Nat
      /\ \A y \in 1..Len(q) : r[y] = q[y]
      /\ r[Len(q) + 1] = p
  OBVIOUS
<1>. HIDE DEF r
<1> SUFFICES ASSUME NEW y \in DOMAIN r
             PROVE  Preceded(r[y], A \cup {r[x].id : x \in 1..(y - 1)})
  BY DEF InOrder, r
<1>2. CASE y \in 1..Len(q)
  <2>1. {r[x].id : x \in 1..(y - 1)} = {q[x].id : x \in 1..(y - 1)}
    <3>1. \A x \in 1..(y - 1) : r[x] = q[x]
      BY <1>1, <1>2
    <3> QED BY <3>1
  <2> QED BY <1>1, <1>2, <2>1 DEF InOrder
<1>3. CASE y = Len(q) + 1
  <2>1. {r[x].id : x \in 1..(y - 1)} = Ids(q)
    <3>1. 1..(y - 1) = DOMAIN q /\ \A x \in DOMAIN q : r[x] = q[x]
      BY <1>1, <1>3
    <3> QED BY <3>1 DEF Ids
  <2> QED BY <1>1, <1>3, <2>1
<1> QED BY <1>1, <1>2, <1>3

LEMMA OrderPassedOn ==
    ASSUME NEW S, NEW q \in Seq(S), q # <<>>, NEW A, InOrder(q, A)
    PROVE  Preceded(Head(q), A) /\ InOrder(Tail(q), A \cup {Head(q).id})
<1>. DEFINE t == Tail(q)
<1>1. /\ Len(q) \in Nat \ {0} /\ DOMAIN q = 1..Len(q) /\ Head(q) = q[1] /\ 1 \in DOMAIN q
      /\ DOMAIN t = 1..(Len(q) - 1) /\ \A y \in 1..(Len(q) - 1) : t[y] = q[y + 1]
  OBVIOUS
<1>2. Preceded(q[1], A)
  <2>1. A \cup {q[x].id : x \in 1..(1 - 1)} = A
    OBVIOUS
  <2> QED BY <1>1, <2>1 DEF InOrder
<1>. HIDE DEF t
<1>3. ASSUME NEW y \in DOMAIN t
      PROVE  Preceded(t[y], A \cup {Head(q).id} \cup {t[x].id : x \in 1..(y - 1)})
  <2>1. PICK z : z = y + 1 /\ z \in DOMAIN q /\ t[y] = q[z] /\ y \in Nat
    BY <1>1, <1>3
  <2>2. Preceded(q[z], A \cup {q[x].id : x \in 1..(z - 1)})
    BY <2>1 DEF InOrder
  <2>3. A \cup {q[x].id : x \in 1..(z - 1)} \subseteq A \cup {Head(q).id} \cup {t[x].id : x \in 1..(y - 1)}
    <3>. DEFINE T == {t[v].id : v \in 1..(y - 1)}
    <3>1. ASSUME NEW x \in 1..(z - 1), x # 1 PROVE q[x].id \in T
      <4>1. x - 1 \in 1..(y - 1) /\ x - 1 \in 1..(Len(q) - 1) /\ x - 1 + 1 = x
        BY <1>1, <2>1, <3>1
      <4>2. q[x] = t[x - 1]
        BY <1>1, <4>1
      <4> QED BY <4>1, <4>2
    <3>2. q[1].id = Head(q).id
      BY <1>1
    <3>. HIDE DEF T
    <3>3. {q[x].id : x \in 1..(z - 1)} \subseteq {Head(q).id} \cup T
      BY <3>1, <3>2
    <3>4. A \cup {q[x].id : x \in 1..(z - 1)} \subseteq A \cup {Head(q).id} \cup T
      BY <3>3
    <3> QED BY <3>4 DEF T
  <2> QED BY <2>1, <2>2, <2>3, PrecededGrows
<1> QED BY <1>1, <1>2, <1>3 DEF InOrder, t

-----------------------------------------------------------------------------
(* What a client has still to send, as payloads.                             *)
LEMMA PayloadsShape ==
    ASSUME NEW q \in Seq(Message)
    PROVE  /\ Payloads(q) \in Seq(Payload) /\ DOMAIN Payloads(q) = DOMAIN q
           /\ \A n \in DOMAIN q : Payloads(q)[n] = q[n].payload
<1>1. DOMAIN q = 1..Len(q) /\ Len(q) \in Nat /\ \A n \in DOMAIN q : q[n] \in Message
  OBVIOUS
<1>0. \A m \in Message : m.payload \in Payload
  BY DEF Message
<1>2. Payloads(q) \in [1..Len(q) -> Payload]
  BY <1>0, <1>1 DEF Payloads
<1>3. Payloads(q) \in Seq(Payload)
  BY <1>1, <1>2
<1> QED BY <1>3 DEF Payloads

LEMMA PayloadsAppended ==
    ASSUME NEW q \in Seq(Message), NEW m \in Message
    PROVE  Payloads(Append(q, m)) = Append(Payloads(q), m.payload)
<1>. DEFINE r == Append(q, m)
            t == Append(Payloads(q), m.payload)
<1>1. /\ r \in Seq(Message) /\ Len(r) = Len(q) + 1 /\ DOMAIN q = 1..Len(q) /\ Len(q) \in Nat
      /\ \A n \in 1..Len(q) : r[n] = q[n]
      /\ r[Len(q) + 1] = m
  OBVIOUS
<1>2. /\ Payloads(q) \in Seq(Payload) /\ Len(Payloads(q)) = Len(q)
      /\ \A n \in 1..Len(q) : Payloads(q)[n] = q[n].payload
  BY <1>1, PayloadsShape
<1>3. m.payload \in Payload
  BY DEF Message
<1>4. /\ t \in Seq(Payload) /\ Len(t) = Len(q) + 1
      /\ \A n \in 1..Len(q) : t[n] = Payloads(q)[n]
      /\ t[Len(q) + 1] = m.payload
  BY <1>1, <1>2, <1>3
<1>. HIDE DEF r, t
<1>5. Payloads(r) \in Seq(Payload) /\ Len(Payloads(r)) = Len(q) + 1
      /\ \A n \in 1..(Len(q) + 1) : Payloads(r)[n] = r[n].payload
  BY <1>1, PayloadsShape
<1>6. \A n \in 1..(Len(q) + 1) : Payloads(r)[n] = t[n]
  <2>1. \A n \in 1..(Len(q) + 1) : n \in 1..Len(q) \/ n = Len(q) + 1
    BY <1>1
  <2> QED BY <1>1, <1>2, <1>4, <1>5, <2>1
<1> QED BY <1>4, <1>5, <1>6 DEF r, t

LEMMA PayloadsTaken ==
    ASSUME NEW q \in Seq(Message), q # <<>>
    PROVE  /\ Payloads(q) # <<>> /\ Head(Payloads(q)) = Head(q).payload
           /\ Payloads(Tail(q)) = Tail(Payloads(q))
<1>. DEFINE r == Tail(q)
            t == Tail(Payloads(q))
<1>1. /\ Len(q) \in Nat \ {0} /\ DOMAIN q = 1..Len(q) /\ Head(q) = q[1]
      /\ r \in Seq(Message) /\ Len(r) = Len(q) - 1
      /\ \A n \in 1..(Len(q) - 1) : r[n] = q[n + 1]
  OBVIOUS
<1>2. /\ Payloads(q) \in Seq(Payload) /\ Len(Payloads(q)) = Len(q)
      /\ \A n \in 1..Len(q) : Payloads(q)[n] = q[n].payload
  BY <1>1, PayloadsShape
<1>3. Payloads(q) # <<>> /\ Head(Payloads(q)) = Head(q).payload
  BY <1>1, <1>2
<1>4. /\ t \in Seq(Payload) /\ Len(t) = Len(q) - 1
      /\ \A n \in 1..(Len(q) - 1) : t[n] = Payloads(q)[n + 1]
  BY <1>1, <1>2
<1>. HIDE DEF r, t
<1>5. /\ Payloads(r) \in Seq(Payload) /\ Len(Payloads(r)) = Len(q) - 1
      /\ \A n \in 1..(Len(q) - 1) : Payloads(r)[n] = r[n].payload
  <2>1. DOMAIN r = 1..(Len(q) - 1) /\ Len(q) - 1 \in Nat
    BY <1>1
  <2>2. /\ Payloads(r) \in Seq(Payload) /\ DOMAIN Payloads(r) = DOMAIN r
        /\ \A n \in DOMAIN r : Payloads(r)[n] = r[n].payload
    BY <1>1, PayloadsShape
  <2> QED BY <2>1, <2>2
<1>6. \A n \in 1..(Len(q) - 1) : Payloads(r)[n] = t[n]
  <2>1. SUFFICES ASSUME NEW n \in 1..(Len(q) - 1) PROVE Payloads(r)[n] = t[n]
    OBVIOUS
  <2>2. n + 1 \in 1..Len(q)
    BY <1>1
  <2>3. Payloads(r)[n] = q[n + 1].payload
    BY <1>1, <1>5
  <2>4. t[n] = q[n + 1].payload
    BY <1>2, <1>4, <2>2
  <2> QED BY <2>3, <2>4
<1> QED BY <1>3, <1>4, <1>5, <1>6 DEF r, t

LEMMA NoPayloads == Payloads(<<>>) = <<>> /\ Ids(<<>>) = {}
<1>1. DOMAIN <<>> = {} /\ \A n \in {} : FALSE
  OBVIOUS
<1>2. Payloads(<<>>) = <<>>
  <2>0. <<>> \in Seq(Message)
    OBVIOUS
  <2>1. PICK e \in Seq(Message) : e = <<>>
    BY <2>0
  <2>2. Payloads(e) \in Seq(Payload) /\ DOMAIN Payloads(e) = DOMAIN e
    BY PayloadsShape
  <2>3. DOMAIN e = 1..0
    BY <2>1
  <2> QED BY <2>1, <2>2, <2>3
<1> QED BY <1>1, <1>2 DEF Ids

LEMMA IdsAppended ==
    ASSUME NEW S, NEW q \in Seq(S), NEW p
    PROVE  Ids(Append(q, p)) = Ids(q) \cup {p.id}
<1>. DEFINE r == Append(q, p)
<1>1. /\ DOMAIN q = 1..Len(q) /\ Len(q) \in Nat /\ DOMAIN r = 1..(Len(q) + 1)
      /\ \A n \in 1..Len(q) : r[n] = q[n]
      /\ r[Len(q) + 1] = p
  OBVIOUS
<1>. HIDE DEF r
<1>2. \A n \in DOMAIN r : (n \in DOMAIN q /\ r[n] = q[n]) \/ r[n] = p
  BY <1>1
<1>3. Len(q) + 1 \in DOMAIN r /\ \A n \in DOMAIN q : n \in DOMAIN r /\ r[n] = q[n]
  BY <1>1
<1>4. Ids(r) \subseteq Ids(q) \cup {p.id}
  BY <1>2 DEF Ids
<1>5. Ids(q) \subseteq Ids(r)
  BY <1>3 DEF Ids
<1>6. p.id \in Ids(r)
  BY <1>1, <1>3 DEF Ids
<1> QED BY <1>4, <1>5, <1>6 DEF r

LEMMA IdsTaken ==
    ASSUME NEW S, NEW q \in Seq(S), q # <<>>
    PROVE  Ids(q) = {Head(q).id} \cup Ids(Tail(q))
<1>. DEFINE t == Tail(q)
<1>1. /\ Len(q) \in Nat \ {0} /\ DOMAIN q = 1..Len(q) /\ Head(q) = q[1]
      /\ DOMAIN t = 1..(Len(q) - 1) /\ \A y \in 1..(Len(q) - 1) : t[y] = q[y + 1]
  OBVIOUS
<1>. HIDE DEF t
<1>2. \A n \in DOMAIN q : n = 1 \/ (n - 1 \in DOMAIN t /\ t[n - 1] = q[n])
  BY <1>1
<1>3. 1 \in DOMAIN q /\ \A n \in DOMAIN t : n + 1 \in DOMAIN q /\ t[n] = q[n + 1]
  BY <1>1
<1>4. Ids(q) \subseteq {Head(q).id} \cup Ids(t)
  BY <1>1, <1>2 DEF Ids
<1>5. Ids(t) \subseteq Ids(q)
  BY <1>3 DEF Ids
<1>6. Head(q).id \in Ids(q)
  BY <1>1, <1>3 DEF Ids
<1> QED BY <1>4, <1>5, <1>6 DEF t

(* The topic's ids.                                                          *)
LEMMA ArrivedIds == ASSUME NEW k PROVE Arrived(k) = Ids(topic[k])
  BY DEF Arrived, Ids, Range

-----------------------------------------------------------------------------
(* The state a step starts from.                                             *)
LEMMA OutboxShape ==
    ASSUME OutboxInv, NEW k \in EntityKeys
    PROVE  /\ sending[k] \in Seq(Message) /\ orphaned[k] \in Seq(Seq(Payload))
           /\ topic[k] \in Seq(Payload)
           /\ Payloads(sending[k]) \in Seq(Payload)
           /\ futures \in Seq(Future) /\ DOMAIN futures = 1..Len(futures) /\ Len(futures) \in Nat
           /\ KeyInOrder(k) /\ outbox \in Outboxes
  BY PayloadsShape DEF OutboxInv, OutboxType

LEMMA OutboxStarts == OutboxInit => OutboxInv
<1> SUFFICES ASSUME OutboxInit PROVE OutboxInv
  OBVIOUS
<1>1. PICK e : /\ e = <<>> /\ e \in Seq(Message) /\ e \in Seq(Payload) /\ e \in Seq(Seq(Payload))
              /\ e \in Seq(Future) /\ e \in Seq(outbox) /\ DOMAIN e = {} /\ Len(e) = 0
  <2>1. /\ <<>> \in Seq(Message) /\ <<>> \in Seq(Payload) /\ <<>> \in Seq(Seq(Payload))
        /\ <<>> \in Seq(Future) /\ <<>> \in Seq(outbox) /\ DOMAIN <<>> = {} /\ Len(<<>>) = 0
    OBVIOUS
  <2> QED BY <2>1, Zenon
<1>2. /\ sending = [k \in EntityKeys |-> e] /\ orphaned = [k \in EntityKeys |-> e]
      /\ topic = [k \in EntityKeys |-> e] /\ futures = e /\ bundle = e
  BY <1>1, Zenon DEF OutboxInit, Nothing
<1>4. OutboxType
  <2>1. (CHOOSE k \in KeyIds : TRUE) \in KeyIds
    BY OutboxAssumption
  <2>2. outbox \in Outboxes /\ committed \subseteq outbox /\ bundle \in Seq(outbox)
    BY <1>1, <1>2 DEF OutboxInit
  <2>3. next \in Nat \ {0} /\ next <= Len(bundle) + 1
    BY <1>1, <1>2 DEF OutboxInit
  <2>4. signer \in KeyIds
    BY <2>1 DEF OutboxInit
  <2>5. letters \in [committed : SUBSET Int, staged : SUBSET Int]
    BY DEF OutboxInit
  <2> QED BY <1>1, <1>2, <2>2, <2>3, <2>4, <2>5 DEF OutboxType
<1>5. ASSUME NEW k \in EntityKeys PROVE KeyInOrder(k)
  <2>1. topic[k] = <<>> /\ DOMAIN orphaned[k] = {} /\ Payloads(sending[k]) = <<>>
    BY <1>1, <1>2, NoPayloads
  <2> QED BY <2>1, NothingIsInOrder DEF KeyInOrder
<1>6. AcknowledgedIsOut /\ \A k \in EntityKeys : \A n \in DOMAIN sending[k] : Answers(k, n)
  BY <1>1, <1>2 DEF AcknowledgedIsOut
<1>7. /\ CommittedAreOut /\ \A n \in 1..(next - 1) : GoneThrough(bundle[n])
      /\ \A f \in DOMAIN futures : Gathered(f)
  <2>1. next - 1 = 0 /\ committed = {} /\ DOMAIN futures = {}
    BY <1>1, <1>2 DEF OutboxInit
  <2> QED BY <2>1 DEF CommittedAreOut
<1> QED BY <1>4, <1>5, <1>6, <1>7 DEF OutboxInv

(* The element the bundle is at is an intent of the stream.                  *)
LEMMA ElementShape ==
    ASSUME OutboxInv, InBundle
    PROVE  /\ Len(bundle) \in Nat /\ next \in 1..Len(bundle) /\ Element.id \in Int
           /\ Element.key \in EntityKeys
<1>1. outbox \in Outboxes /\ bundle \in Seq(outbox) /\ next \in Nat \ {0} /\ next <= Len(bundle)
  BY DEF OutboxInv, OutboxType, InBundle
<1>2. Len(bundle) \in Nat /\ next \in 1..Len(bundle) /\ bundle[next] \in outbox
  BY <1>1
<1> QED BY <1>1, <1>2, StreamKeys DEF Element

(* What the attempt has published on a key that is not paused is in the      *)
(* topic or ahead in the client.                                             *)
LEMMA TurnComes ==
    ASSUME OutboxInv, NEW k \in EntityKeys, k \notin paused
    PROVE  Published(k) \subseteq Arrived(k) \cup Ids(Payloads(sending[k])) /\ Published(k) \subseteq Int
<1>1. futures \in Seq(Future)
  BY DEF OutboxInv, OutboxType
<1> SUFFICES ASSUME NEW g \in Range(futures), g.key = k
             PROVE  g.id \in Arrived(k) \cup Ids(Payloads(sending[k])) /\ g.id \in Int
  BY DEF Published
<1>2. PICK f \in DOMAIN futures : g = futures[f]
  BY DEF Range
<1>3. g \in Future /\ Gathered(f)
  BY <1>1, <1>2 DEF OutboxInv
<1> QED BY <1>2, <1>3 DEF Gathered, Future

(* What the bundle has gone through stays so while the dead letters and the  *)
(* futures only grow.                                                        *)
LEMMA GoneThroughStays ==
    ASSUME NEW i, GoneThrough(i),
           \A f \in DOMAIN futures : /\ f \in DOMAIN futures'
                                     /\ futures'[f].key = futures[f].key /\ futures'[f].id = futures[f].id,
           letters.staged \subseteq letters'.staged
    PROVE  GoneThrough(i)'
<1>1. CASE i.serializes
  <2>1. PICK f \in DOMAIN futures : futures[f].key = i.key /\ futures[f].id = i.id
    BY <1>1 DEF GoneThrough
  <2>2. f \in DOMAIN futures' /\ futures'[f].key = i.key /\ futures'[f].id = i.id
    BY <2>1
  <2> QED BY <1>1, <2>2 DEF GoneThrough
<1>2. CASE ~i.serializes
  BY <1>2 DEF GoneThrough
<1> QED BY <1>1, <1>2

(* What was published stays held while nothing is dropped but of a key that  *)
(* is paused.                                                                *)
LEMMA HeldStays ==
    ASSUME OutboxInv, NEW f \in DOMAIN futures, futures'[f].key = futures[f].key,
           futures'[f].id = futures[f].id,
           \A k \in EntityKeys : k \notin paused' =>
               /\ k \notin paused
               /\ Arrived(k) \cup Ids(Payloads(sending[k]))
                    \subseteq Arrived(k)' \cup Ids(Payloads(sending[k]))'
    PROVE  Gathered(f)'
<1>1. futures[f] \in Future /\ Gathered(f)
  BY DEF OutboxInv, OutboxType
<1>2. PICK k \in EntityKeys : k = futures[f].key /\ k = futures'[f].key
  BY <1>1 DEF Future
<1>3. k \notin paused' => futures[f].id \in Arrived(k) \cup Ids(Payloads(sending[k]))
  BY <1>1, <1>2 DEF Gathered
<1>4. k \notin paused' => futures'[f].id \in Arrived(k)' \cup Ids(Payloads(sending[k]))'
  BY <1>3
<1> QED BY <1>2, <1>4 DEF Gathered

(* So does what is committed.                                                *)
LEMMA CommittedStays ==
    ASSUME OutboxInv, committed' = committed, letters.committed \subseteq letters'.committed,
           \A k \in EntityKeys : Arrived(k) \subseteq Arrived(k)'
    PROVE  CommittedAreOut'
<1> SUFFICES ASSUME NEW i \in committed
             PROVE  IF i.serializes THEN i.id \in Arrived(i.key)' ELSE i.id \in letters'.committed
  BY DEF CommittedAreOut
<1>1. i.key \in EntityKeys
  BY StreamKeys DEF OutboxInv, OutboxType
<1>2. IF i.serializes THEN i.id \in Arrived(i.key) ELSE i.id \in letters.committed
  BY DEF OutboxInv, CommittedAreOut
<1> QED BY <1>1, <1>2

-----------------------------------------------------------------------------
(* The steps.  A step that leaves the topic and what is on its way alone     *)
(* leaves their order.                                                       *)
LEMMA OrderUntouched ==
    ASSUME OutboxInv, NEW k \in EntityKeys,
           topic'[k] = topic[k], orphaned'[k] = orphaned[k], sending'[k] = sending[k]
    PROVE  KeyInOrder(k)'
<1>1. Arrived(k)' = Arrived(k)
  BY DEF Arrived
<1> QED BY <1>1 DEF OutboxInv, KeyInOrder

(* The runner hands a bundle of the stream's intents over.                   *)
LEMMA TakeBundleKeeps == OutboxInv /\ TakeBundle => OutboxInv'
<1> SUFFICES ASSUME OutboxInv, TakeBundle PROVE OutboxInv'
  OBVIOUS
<1>1. /\ UNCHANGED <<outbox, committed, next, futures, sending, paused, orphaned, topic, letters, signer>>
      /\ bundle = <<>>
  BY DEF TakeBundle, Working
<1>2. PICK n \in 1..MaxBundle : \E b \in [1..n -> outbox \ committed] : bundle' = b
  BY DEF TakeBundle
<1>3. bundle' \in [1..n -> outbox \ committed] /\ n \in Nat
  BY <1>2, OutboxAssumption
<1>4. bundle' \in Seq(outbox) /\ Len(bundle') \in Nat
  BY <1>3
<1>5. next = 1
  <2>1. Len(bundle) = 0
    BY <1>1
  <2> QED BY <2>1 DEF OutboxInv, OutboxType
<1>6. OutboxType'
  BY <1>1, <1>4, <1>5 DEF OutboxInv, OutboxType
<1>7. \A k \in EntityKeys : KeyInOrder(k)'
  BY <1>1, OrderUntouched
<1>8. /\ AcknowledgedIsOut' /\ CommittedAreOut' /\ \A f \in DOMAIN futures' : Gathered(f)'
      /\ \A k \in EntityKeys : \A n1 \in DOMAIN sending'[k] : Answers(k, n1)'
  BY <1>1 DEF OutboxInv, AcknowledgedIsOut, CommittedAreOut, Arrived, Answers, Gathered
<1>9. \A x \in 1..(next' - 1) : GoneThrough(bundle[x])'
  <2>1. 1..(next' - 1) = {}
    BY <1>1, <1>5
  <2> QED BY <2>1
<1> QED BY <1>6, <1>7, <1>8, <1>9 DEF OutboxInv

LEMMA SerializeFailsKeeps == OutboxInv /\ SerializeFails => OutboxInv'
<1> SUFFICES ASSUME OutboxInv, SerializeFails PROVE OutboxInv'
  OBVIOUS
<1>1. /\ UNCHANGED <<outbox, committed, bundle, futures, sending, paused, orphaned, topic, signer>>
      /\ InBundle /\ next' = next + 1 /\ ~Element.serializes
      /\ letters' = [letters EXCEPT !.staged = @ \cup {Element.id}]
  BY DEF SerializeFails
<1>2. OutboxType'
  <2>1. Element.id \in Int /\ next' \in Nat \ {0} /\ next' <= Len(bundle) + 1
    BY <1>1, ElementShape
  <2>2. letters' \in [committed : SUBSET Int, staged : SUBSET Int]
    BY <1>1, <2>1 DEF OutboxInv, OutboxType
  <2> QED BY <1>1, <2>1, <2>2 DEF OutboxInv, OutboxType
<1>3. \A k \in EntityKeys : KeyInOrder(k)'
  BY <1>1, OrderUntouched
<1>4. /\ AcknowledgedIsOut' /\ \A f \in DOMAIN futures' : Gathered(f)'
      /\ \A k \in EntityKeys : \A n \in DOMAIN sending'[k] : Answers(k, n)'
  BY <1>1 DEF OutboxInv, AcknowledgedIsOut, Arrived, Answers, Gathered
<1>5. letters'.staged = letters.staged \cup {Element.id} /\ letters'.committed = letters.committed
  BY <1>1 DEF OutboxInv, OutboxType
<1>6. ASSUME NEW n \in 1..(next' - 1) PROVE GoneThrough(bundle[n])'
  <2>1. CASE n = next
    BY <1>1, <1>5, <2>1 DEF GoneThrough, Element
  <2>2. CASE n # next
    <3>1. n \in 1..(next - 1)
      BY <1>1, <2>2 DEF OutboxInv, OutboxType
    <3>2. PICK i : i = bundle[n] /\ GoneThrough(i)
      BY <3>1 DEF OutboxInv
    <3>3. GoneThrough(i)'
      BY <1>1, <1>5, <3>2, GoneThroughStays
    <3> QED BY <1>1, <3>2, <3>3 DEF GoneThrough
  <2> QED BY <2>1, <2>2
<1>7. CommittedAreOut'
  <2>1. \A k \in EntityKeys : Arrived(k)' = Arrived(k)
    BY <1>1 DEF Arrived
  <2> QED BY <1>1, <1>5, <2>1, CommittedStays
<1> QED BY <1>2, <1>3, <1>4, <1>6, <1>7 DEF OutboxInv

(* Straggle: the head of what a lost client left arrives, in its turn.       *)
LEMMA StraggleKeeps == ASSUME NEW j \in EntityKeys PROVE OutboxInv /\ Straggle(j) => OutboxInv'
<1> SUFFICES ASSUME OutboxInv, Straggle(j) PROVE OutboxInv'
  OBVIOUS
<1>1. /\ UNCHANGED <<outbox, committed, bundle, next, futures, sending, paused, letters, signer>>
  BY DEF Straggle
<1>0. PICK c \in DOMAIN orphaned[j] :
         /\ orphaned[j][c] # <<>>
         /\ orphaned' = [orphaned EXCEPT ![j][c] = Tail(@)]
         /\ topic' = [topic EXCEPT ![j] = Append(@, Head(orphaned[j][c]))]
  BY DEF Straggle
<1>20. PICK Q \in Seq(Seq(Payload)) : Q = orphaned[j] /\ c \in DOMAIN Q
  BY OutboxShape
<1>21. PICK q \in Seq(Payload) : q = Q[c] /\ q # <<>>
  BY <1>0, <1>20
<1>2. /\ topic[j] \in Seq(Payload) /\ KeyInOrder(j) /\ InOrder(q, Arrived(j))
      /\ Head(q) \in Payload /\ Tail(q) \in Seq(Payload)
  BY <1>20, <1>21, OutboxShape DEF KeyInOrder
<1>22. PICK R : R = [Q EXCEPT ![c] = Tail(q)]
  OBVIOUS
<1>23. /\ R \in Seq(Seq(Payload)) /\ DOMAIN R = DOMAIN Q /\ R[c] = Tail(q)
       /\ \A d \in DOMAIN Q : d # c => R[d] = Q[d]
  BY <1>2, <1>20, <1>22
<1>3. PICK p \in Payload : p = Head(q)
  BY <1>2
<1>4. /\ topic'[j] = Append(topic[j], p) /\ orphaned'[j] = R
      /\ \A k \in EntityKeys \ {j} : topic'[k] = topic[k] /\ orphaned'[k] = orphaned[k]
      /\ orphaned' = [orphaned EXCEPT ![j] = R]
  BY <1>0, <1>3, <1>20, <1>21, <1>22 DEF OutboxInv, OutboxType
<1>5. Arrived(j)' = Arrived(j) \cup {p.id} /\ \A k \in EntityKeys \ {j} : Arrived(k)' = Arrived(k)
  <2>1. Arrived(j) = Ids(topic[j]) /\ Arrived(j)' = Ids(topic'[j])
    BY DEF Arrived, Ids, Range
  <2>2. Ids(topic'[j]) = Ids(topic[j]) \cup {p.id}
    BY <1>2, <1>4, IdsAppended
  <2> QED BY <2>1, <2>2, <1>4 DEF Arrived
<1>6. KeyInOrder(j)'
  <2>1. InOrder(topic[j], {}) /\ Preceded(p, Ids(topic[j]))
        /\ InOrder(Tail(q), Arrived(j) \cup {p.id})
    BY <1>2, <1>3, <1>21, OrderPassedOn, ArrivedIds DEF KeyInOrder
  <2>2. {} \cup Ids(topic[j]) = Ids(topic[j])
    OBVIOUS
  <2>3. InOrder(Append(topic[j], p), {})
    BY <1>2, <2>1, <2>2, OrderAppended
  <2>4. InOrder(Payloads(sending[j]), Arrived(j) \cup {p.id})
    BY <1>2, OrderGrows DEF KeyInOrder
  <2>5. ASSUME NEW d \in DOMAIN R PROVE InOrder(R[d], Arrived(j) \cup {p.id})
    <3>1. CASE d = c
      BY <1>23, <2>1, <3>1
    <3>2. CASE d # c
      <4>1. R[d] = Q[d] /\ InOrder(Q[d], Arrived(j))
        BY <1>2, <1>20, <1>23, <3>2 DEF KeyInOrder
      <4> QED BY <4>1, OrderGrows
    <3> QED BY <3>1, <3>2
  <2> QED BY <1>1, <1>4, <1>5, <2>3, <2>4, <2>5 DEF KeyInOrder
<1>7. \A k \in EntityKeys : KeyInOrder(k)'
  BY <1>1, <1>4, <1>6, OrderUntouched
<1>8. OutboxType'
  <2>1. topic' \in [EntityKeys -> Seq(Payload)]
    <3>1. Append(topic[j], p) \in Seq(Payload)
      BY <1>2
    <3> QED BY <1>0, <1>3, <1>20, <1>21, <3>1 DEF OutboxInv, OutboxType
  <2>2. orphaned' \in [EntityKeys -> Seq(Seq(Payload))]
    BY <1>4, <1>23 DEF OutboxInv, OutboxType
  <2> QED BY <1>1, <2>1, <2>2 DEF OutboxInv, OutboxType
<1>9. \A k \in EntityKeys : Arrived(k) \subseteq Arrived(k)'
  BY <1>5
<1>10. AcknowledgedIsOut'
  <2>1. \A f \in DOMAIN futures : futures[f] \in Future
    BY DEF OutboxInv, OutboxType
  <2>2. \A f \in DOMAIN futures : futures[f].key \in EntityKeys
    BY <2>1 DEF Future
  <2> QED BY <1>1, <1>9, <2>2 DEF OutboxInv, AcknowledgedIsOut
<1>11. \A k \in EntityKeys : \A n \in DOMAIN sending'[k] : Answers(k, n)'
  BY <1>1 DEF OutboxInv, Answers
<1>12. (\A n \in 1..(next - 1) : GoneThrough(bundle[n]))' /\ (\A f \in DOMAIN futures : Gathered(f))'
  <2>1. (\A n \in 1..(next - 1) : GoneThrough(bundle[n]))'
    BY <1>1 DEF OutboxInv, GoneThrough
  <2>2. ASSUME NEW f \in DOMAIN futures PROVE Gathered(f)'
    BY <1>1, <1>9, HeldStays
  <2> QED BY <1>1, <2>1, <2>2
<1>13. CommittedAreOut'
  BY <1>1, <1>9, CommittedStays
<1> QED BY <1>7, <1>8, <1>10, <1>11, <1>12, <1>13 DEF OutboxInv

(* Publish: the future is new, and so is the message unless the key is       *)
(* paused.                                                                   *)
LEMMA PublishKeeps == OutboxInv /\ Publish => OutboxInv'
<1> SUFFICES ASSUME OutboxInv, Publish PROVE OutboxInv'
  OBVIOUS
<1>1. /\ InBundle /\ Element.serializes /\ next' = next + 1
      /\ UNCHANGED <<outbox, committed, bundle, paused, orphaned, topic, letters, signer>>
  BY DEF Publish
<1>2. PICK x : x = Element /\ x.key \in EntityKeys /\ x.id \in Int
  BY <1>1, ElementShape
<1>20. PICK k \in EntityKeys : k = x.key
  BY <1>2
<1>3. PICK p : p = [id |-> x.id, after |-> Published(k), body |-> sign_intent(Unsigned(x.id, k), signer)]
  OBVIOUS
<1>24. p.id = x.id /\ p.after = Published(k) /\ (k \notin paused => p \in Payload)
  <2>1. signer \in KeyIds
    BY DEF OutboxInv, OutboxType
  <2>2. k \notin paused => Published(k) \subseteq Int
    BY TurnComes
  <2> QED BY <1>2, <1>3, <2>1, <2>2 DEF Payload
<1>4. PICK N \in Nat : N = Len(futures) /\ DOMAIN futures = 1..N /\ futures \in Seq(Future)
  BY <1>20, OutboxShape
<1>5. PICK r \in Future : r = [key |-> k, id |-> x.id, outcome |-> IF k \in paused THEN "failed" ELSE "pending"]
  <2>1. [key |-> k, id |-> x.id, outcome |-> IF k \in paused THEN "failed" ELSE "pending"] \in Future
    BY <1>2 DEF Future
  <2> QED BY <2>1
<1>21. r.key = k /\ r.id = x.id /\ r.outcome # "ok" /\ (k \notin paused => r.outcome = "pending")
  BY <1>5
<1>6. futures' = Append(futures, r)
  BY <1>2, <1>20, <1>5 DEF Publish
<1>7. /\ futures' \in Seq(Future) /\ DOMAIN futures' = 1..(N + 1) /\ futures'[N + 1] = r
      /\ \A f \in 1..N : futures'[f] = futures[f]
  BY <1>4, <1>6
<1>8. PICK m : m = [payload |-> p, future |-> N + 1]
  OBVIOUS
<1>22. m.payload = p /\ m.future = N + 1 /\ (k \notin paused => m \in Message)
  BY <1>4, <1>8, <1>24 DEF Message
<1>9. sending' = IF k \in paused THEN sending ELSE [sending EXCEPT ![k] = Append(@, m)]
  BY <1>2, <1>20, <1>3, <1>4, <1>8 DEF Publish
<1>10. sending[k] \in Seq(Message) /\ sending \in [EntityKeys -> Seq(Message)]
  BY DEF OutboxInv, OutboxType
<1>11. /\ k \notin paused => sending'[k] = Append(sending[k], m)
       /\ \A j \in EntityKeys : j # k \/ k \in paused => sending'[j] = sending[j]
       /\ sending' \in [EntityKeys -> Seq(Message)]
  <2>1. k \notin paused => Append(sending[k], m) \in Seq(Message)
    BY <1>10, <1>22
  <2> QED BY <1>9, <1>10, <2>1
<1>12. \A j : Arrived(j)' = Arrived(j)
  BY <1>1 DEF Arrived
<1>13. k \notin paused => /\ Payloads(sending'[k]) = Append(Payloads(sending[k]), p)
                         /\ Ids(Payloads(sending'[k])) = Ids(Payloads(sending[k])) \cup {x.id}
                         /\ Payloads(sending[k]) \in Seq(Payload)
  <2>1. Payloads(sending[k]) \in Seq(Payload)
    BY <1>10, PayloadsShape
  <2>2. k \notin paused => Payloads(sending'[k]) = Append(Payloads(sending[k]), p)
    BY <1>22, <1>10, <1>11, PayloadsAppended
  <2>3. Ids(Append(Payloads(sending[k]), p)) = Ids(Payloads(sending[k])) \cup {p.id}
    BY <2>1, IdsAppended
  <2> QED BY <1>24, <2>1, <2>2, <2>3
<1>14. OutboxType'
  <2>1. next' \in Nat \ {0} /\ next' <= Len(bundle) + 1
    BY <1>1, ElementShape
  <2> QED BY <1>1, <1>7, <1>11, <2>1 DEF OutboxInv, OutboxType
<1>15. ASSUME NEW j \in EntityKeys PROVE KeyInOrder(j)'
  <2>1. CASE j # k \/ k \in paused
    BY <1>1, <1>11, <2>1, OrderUntouched
  <2>2. CASE j = k /\ k \notin paused
    <3>1. Preceded(p, Arrived(k) \cup Ids(Payloads(sending[k])))
      BY <1>24, <2>2, TurnComes DEF Preceded
    <3>2. InOrder(Payloads(sending[k]), Arrived(k))
      BY DEF OutboxInv, KeyInOrder
    <3>3. InOrder(Append(Payloads(sending[k]), p), Arrived(k))
      BY <1>13, <1>24, <2>2, <3>1, <3>2, OrderAppended
    <3> QED BY <1>1, <1>12, <1>13, <2>2, <3>3 DEF OutboxInv, KeyInOrder
  <2> QED BY <2>1, <2>2
<1>16. AcknowledgedIsOut'
  <2>1. \A f \in 1..(N + 1) : f \in 1..N \/ f = N + 1
    BY <1>4
  <2>2. ASSUME NEW f \in DOMAIN futures', futures'[f].outcome = "ok"
        PROVE  (futures[f].id \in Arrived(futures[f].key))'
    <3>1. f \in DOMAIN futures /\ futures'[f] = futures[f]
      BY <1>4, <1>7, <1>21, <2>1, <2>2
    <3>2. futures[f].id \in Arrived(futures[f].key)
      BY <2>2, <3>1 DEF OutboxInv, AcknowledgedIsOut
    <3> QED BY <1>1, <3>1, <3>2 DEF Arrived
  <2> QED BY <2>2 DEF AcknowledgedIsOut
<1>17. ASSUME NEW j \in EntityKeys, NEW n \in DOMAIN sending'[j] PROVE Answers(j, n)'
  <2>1. /\ sending[j] \in Seq(Message)
        /\ \A l \in DOMAIN sending[j] :
              /\ sending[j][l].future \in Nat /\ sending[j][l].future # N + 1
              /\ Answers(j, l)
    <3>1. \A l \in DOMAIN sending[j] : Answers(j, l) /\ sending[j][l] \in Message /\ sending[j] \in Seq(Message)
      BY <1>10 DEF OutboxInv
    <3>2. sending[j] \in Seq(Message)
      BY <1>10
    <3>3. \A l \in DOMAIN sending[j] : sending[j][l].future \in Nat
      BY <3>1 DEF Message
    <3>4. \A l \in DOMAIN sending[j] : sending[j][l].future # 0 => sending[j][l].future \in 1..N
      BY <1>4, <3>1 DEF Answers
    <3>5. \A l \in DOMAIN sending[j] : sending[j][l].future # N + 1
      BY <1>4, <3>3, <3>4
    <3> QED BY <3>1, <3>2, <3>3, <3>5
  <2>2. CASE j # k \/ k \in paused
    <3>1. sending'[j] = sending[j] /\ n \in DOMAIN sending[j]
      BY <1>11, <1>17, <2>2
    <3>2. Answers(j, n)
      BY <2>1, <3>1
    <3> QED BY <1>4, <1>7, <3>1, <3>2 DEF Answers
  <2>3. CASE j = k /\ k \notin paused
    <3>0. PICK q, s : q = sending[k] /\ s = sending'[k] /\ q \in Seq(Message) /\ s = Append(q, m)
      BY <1>10, <1>11, <2>3
    <3>1. /\ DOMAIN s = 1..(Len(q) + 1) /\ DOMAIN q = 1..Len(q) /\ Len(q) \in Nat
          /\ s[Len(q) + 1] = m /\ \A l \in DOMAIN q : s[l] = q[l]
      BY <3>0
    <3>2. \A l \in DOMAIN s : l \in DOMAIN q \/ l = Len(q) + 1
      BY <3>1
    <3>3. CASE n \in DOMAIN q
      <4>1. Answers(k, n) /\ s[n] = q[n] /\ s[n].future # N + 1
        BY <2>1, <2>3, <3>0, <3>1, <3>3
      <4>2. \A l \in DOMAIN s : s[l].future = s[n].future /\ s[n].future # 0 => l = n
        BY <1>22, <3>0, <3>1, <3>2, <4>1 DEF Answers
      <4>3. s[n].future # 0 => s[n].future \in 1..N /\ futures'[s[n].future] = futures[s[n].future]
        BY <1>4, <1>7, <3>0, <4>1 DEF Answers
      <4>4. PICK y : y = s[n] /\ y = sending[k][n] /\ sending'[j][n] = y
        BY <2>3, <3>0, <4>1
      <4>5. ASSUME y.future # 0
            PROVE  /\ futures'[y.future].key = k /\ futures'[y.future].id = y.payload.id
                   /\ futures'[y.future].outcome = "pending"
        BY <4>1, <4>3, <4>4, <4>5 DEF Answers
      <4>6. y.future # 0 => y.future \in DOMAIN futures'
        BY <1>4, <1>7, <4>3, <4>4
      <4>7. \A l \in DOMAIN sending'[j] : sending'[j][l].future = y.future /\ y.future # 0 => l = n
        BY <2>3, <3>0, <4>2, <4>4
      <4> QED BY <2>3, <4>4, <4>5, <4>6, <4>7 DEF Answers
    <3>4. CASE n = Len(q) + 1
      <4>1. s[n] = m /\ N + 1 \in DOMAIN futures' /\ futures'[N + 1] = r
        BY <1>4, <1>7, <3>1, <3>4
      <4>2. \A l \in DOMAIN s : s[l].future = N + 1 => l = n
        BY <2>1, <2>3, <3>0, <3>1, <3>2, <3>4
      <4>3. r.key = k /\ r.id = m.payload.id /\ r.outcome = "pending" /\ m.future = N + 1
        BY <1>21, <1>22, <1>24, <2>3, Zenon
      <4> QED BY <2>3, <3>0, <4>1, <4>2, <4>3 DEF Answers
    <3> QED BY <1>17, <2>3, <3>0, <3>2, <3>3, <3>4
  <2> QED BY <2>2, <2>3
<1>18. ASSUME NEW n \in 1..(next' - 1) PROVE GoneThrough(bundle[n])'
  <2>1. CASE n = next
    <3>1. N + 1 \in DOMAIN futures' /\ futures'[N + 1].key = k /\ futures'[N + 1].id = x.id
      <4>1. N + 1 \in 1..(N + 1)
        BY <1>4
      <4> QED BY <1>7, <1>21, <4>1
    <3>2. x = bundle'[n] /\ x.serializes
      BY <1>1, <1>2, <2>1 DEF Element
    <3> QED BY <1>20, <3>1, <3>2 DEF GoneThrough
  <2>2. CASE n # next
    <3>1. n \in 1..(next - 1)
      BY <1>1, <2>2 DEF OutboxInv, OutboxType
    <3>2. PICK i : i = bundle[n] /\ GoneThrough(i)
      BY <1>1, <3>1 DEF OutboxInv
    <3>3. \A f \in DOMAIN futures : f \in DOMAIN futures' /\ futures'[f] = futures[f]
      BY <1>4, <1>7
    <3>4. GoneThrough(i)'
      BY <1>1, <3>2, <3>3, GoneThroughStays
    <3> QED BY <1>1, <3>2, <3>4 DEF GoneThrough
  <2> QED BY <2>1, <2>2
<1>25. ASSUME NEW f \in DOMAIN futures' PROVE Gathered(f)'
  <2>1. CASE f = N + 1
    BY <1>1, <1>7, <1>13, <1>21, <2>1 DEF Gathered
  <2>2. CASE f # N + 1
    <3>1. f \in DOMAIN futures /\ futures'[f] = futures[f]
      BY <1>4, <1>7, <2>2
    <3>2. \A j \in EntityKeys : j \notin paused =>
              Ids(Payloads(sending[j])) \subseteq Ids(Payloads(sending'[j]))
      BY <1>11, <1>13
    <3> QED BY <1>1, <1>12, <3>1, <3>2, HeldStays
  <2> QED BY <2>1, <2>2
<1>19. CommittedAreOut'
  BY <1>1, <1>12, CommittedStays
<1> QED BY <1>14, <1>15, <1>16, <1>17, <1>18, <1>19, <1>25 DEF OutboxInv

(* Settling some futures changes nothing of them but their outcome.          *)
Settled(fs, settled, o) ==
    [f \in DOMAIN fs |-> IF f \in settled THEN [fs[f] EXCEPT !.outcome = o] ELSE fs[f]]

LEMMA FuturesSettled ==
    ASSUME NEW fs \in Seq(Future), NEW settled, NEW o \in {"ok", "failed"}, NEW gs,
           gs = Settled(fs, settled, o)
    PROVE  /\ gs \in Seq(Future) /\ DOMAIN gs = DOMAIN fs
           /\ \A f \in DOMAIN fs : /\ gs[f].key = fs[f].key /\ gs[f].id = fs[f].id
                                   /\ f \in settled => gs[f].outcome = o
                                   /\ f \notin settled => gs[f].outcome = fs[f].outcome
<1>1. DOMAIN fs = 1..Len(fs) /\ Len(fs) \in Nat /\ \A f \in DOMAIN fs : fs[f] \in Future
  OBVIOUS
<1>. USE DEF Settled
<1>2. ASSUME NEW f \in DOMAIN fs
      PROVE  /\ gs[f] \in Future /\ gs[f].key = fs[f].key /\ gs[f].id = fs[f].id
             /\ f \in settled => gs[f].outcome = o
             /\ f \notin settled => gs[f].outcome = fs[f].outcome
  <2>1. PICK r \in Future : r = fs[f]
    BY <1>1
  <2>2. CASE f \in settled
    <3>1. gs[f] = [r EXCEPT !.outcome = o]
      BY <2>1, <2>2
    <3>2. /\ [r EXCEPT !.outcome = o] \in Future /\ [r EXCEPT !.outcome = o].key = r.key
          /\ [r EXCEPT !.outcome = o].id = r.id /\ [r EXCEPT !.outcome = o].outcome = o
      BY DEF Future
    <3> QED BY <2>1, <2>2, <3>1, <3>2
  <2>3. CASE f \notin settled
    <3>1. gs[f] = r
      BY <2>1, <2>3
    <3> QED BY <2>1, <2>3, <3>1
  <2> QED BY <2>2, <2>3
<1>3. gs \in [1..Len(fs) -> Future]
  BY <1>1, <1>2
<1>4. gs \in Seq(Future)
  BY <1>1, <1>3
<1> QED BY <1>2, <1>4

(* Acknowledge: the head of a key's messages arrives, and its future, if it  *)
(* is still awaited, says so.                                                *)
LEMMA AcknowledgeKeeps == ASSUME NEW j \in EntityKeys PROVE OutboxInv /\ Acknowledge(j) => OutboxInv'
<1> SUFFICES ASSUME OutboxInv, Acknowledge(j) PROVE OutboxInv'
  OBVIOUS
<1>1. /\ UNCHANGED <<outbox, committed, bundle, next, paused, orphaned, letters, signer>>
      /\ sending[j] # <<>> /\ sending' = [sending EXCEPT ![j] = Tail(@)]
      /\ topic' = [topic EXCEPT ![j] = Append(@, Head(sending[j]).payload)]
      /\ futures' = [f \in DOMAIN futures |->
                       IF f = Head(sending[j]).future THEN [futures[f] EXCEPT !.outcome = "ok"] ELSE futures[f]]
  BY DEF Acknowledge
<1>2. PICK q \in Seq(Message) : q = sending[j] /\ q # <<>>
  BY <1>1, OutboxShape
<1>3. PICK m \in Message : m = Head(q)
  BY <1>2
<1>4. PICK p \in Payload : p = m.payload
  BY DEF Message
<1>5. PICK P \in Seq(Payload) : /\ P = Payloads(q) /\ P # <<>> /\ Head(P) = p
                               /\ Payloads(Tail(q)) = Tail(P)
  BY <1>2, <1>3, <1>4, PayloadsShape, PayloadsTaken
<1>6. topic[j] \in Seq(Payload) /\ KeyInOrder(j) /\ futures \in Seq(Future)
  BY OutboxShape
<1>7. /\ topic'[j] = Append(topic[j], p) /\ sending'[j] = Tail(q)
      /\ \A k \in EntityKeys \ {j} : topic'[k] = topic[k] /\ sending'[k] = sending[k]
  BY <1>1, <1>2, <1>3, <1>4 DEF OutboxInv, OutboxType
<1>8. Arrived(j)' = Arrived(j) \cup {p.id} /\ \A k \in EntityKeys \ {j} : Arrived(k)' = Arrived(k)
  <2>1. Arrived(j) = Ids(topic[j]) /\ Arrived(j)' = Ids(topic'[j])
    BY DEF Arrived, Ids, Range
  <2>2. Ids(topic'[j]) = Ids(topic[j]) \cup {p.id}
    BY <1>6, <1>7, IdsAppended
  <2> QED BY <2>1, <2>2, <1>7 DEF Arrived
<1>9. /\ futures' \in Seq(Future) /\ DOMAIN futures' = DOMAIN futures
      /\ \A f \in DOMAIN futures : /\ futures'[f].key = futures[f].key /\ futures'[f].id = futures[f].id
                                   /\ f # m.future => futures'[f].outcome = futures[f].outcome
  <2>1. futures' = [f \in DOMAIN futures |->
                      IF f \in {m.future} THEN [futures[f] EXCEPT !.outcome = "ok"] ELSE futures[f]]
    BY <1>1, <1>2, <1>3
  <2>2. PICK settled : settled = {m.future}
    OBVIOUS
  <2>3. PICK fs, gs : fs \in Seq(Future) /\ fs = futures /\ gs = futures'
    BY <1>6
  <2>4. gs = Settled(fs, settled, "ok")
    BY <2>1, <2>2, <2>3 DEF Settled
  <2>5. /\ gs \in Seq(Future) /\ DOMAIN gs = DOMAIN fs
        /\ \A f \in DOMAIN fs : /\ gs[f].key = fs[f].key /\ gs[f].id = fs[f].id
                                /\ f \in settled => gs[f].outcome = "ok"
                                /\ f \notin settled => gs[f].outcome = fs[f].outcome
    BY <2>3, <2>4, FuturesSettled
  <2> QED BY <2>2, <2>3, <2>5
<1>10. KeyInOrder(j)'
  <2>1. /\ InOrder(P, Arrived(j)) /\ InOrder(topic[j], {})
        /\ \A c \in DOMAIN orphaned[j] : InOrder(orphaned[j][c], Arrived(j))
    BY <1>2, <1>5, <1>6 DEF KeyInOrder
  <2>2. Preceded(p, Ids(topic[j])) /\ InOrder(Tail(P), Arrived(j) \cup {p.id})
    BY <1>5, <2>1, OrderPassedOn, ArrivedIds
  <2>3. {} \cup Ids(topic[j]) = Ids(topic[j])
    OBVIOUS
  <2>4. InOrder(Append(topic[j], p), {})
    BY <1>6, <2>1, <2>2, <2>3, OrderAppended
  <2>5. \A c \in DOMAIN orphaned[j] : InOrder(orphaned[j][c], Arrived(j) \cup {p.id})
    BY <2>1, OrderGrows
  <2> QED BY <1>1, <1>5, <1>7, <1>8, <2>2, <2>4, <2>5 DEF KeyInOrder
<1>11. \A k \in EntityKeys : KeyInOrder(k)'
  BY <1>1, <1>7, <1>10, OrderUntouched
<1>12. OutboxType'
  <2>1. topic' \in [EntityKeys -> Seq(Payload)]
    <3>1. Append(topic[j], p) \in Seq(Payload)
      BY <1>6
    <3> QED BY <1>1, <1>2, <1>3, <1>4, <3>1 DEF OutboxInv, OutboxType
  <2>2. sending' \in [EntityKeys -> Seq(Message)]
    <3>1. Tail(sending[j]) \in Seq(Message)
      BY <1>2
    <3> QED BY <1>1, <3>1 DEF OutboxInv, OutboxType
  <2> QED BY <1>1, <1>9, <2>1, <2>2 DEF OutboxInv, OutboxType
<1>13. \A k \in EntityKeys : Arrived(k) \subseteq Arrived(k)'
  BY <1>8
<1>14. \A f \in DOMAIN futures : futures[f].key \in EntityKeys
  <2>1. \A f \in DOMAIN futures : futures[f] \in Future
    BY <1>6
  <2> QED BY <2>1 DEF Future
<1>15. AcknowledgedIsOut'
  <2>1. ASSUME NEW f \in DOMAIN futures', futures'[f].outcome = "ok"
        PROVE  (futures[f].id \in Arrived(futures[f].key))'
    <3>1. PICK k \in EntityKeys : k = futures[f].key /\ futures'[f].key = k /\ futures'[f].id = futures[f].id
      BY <1>9, <1>14, <2>1
    <3>2. CASE f = m.future
      <4>1. 1 \in DOMAIN q /\ q[1] = m
        BY <1>2, <1>3
      <4>2. Answers(j, 1) /\ f # 0
        BY <1>2, <1>6, <1>9, <2>1, <4>1 DEF OutboxInv
      <4>3. futures[f].key = j /\ futures[f].id = p.id
        BY <1>2, <1>4, <3>2, <4>1, <4>2 DEF Answers
      <4>4. futures'[f].id \in Arrived(k)'
        BY <1>8, <3>1, <4>3
      <4> QED BY <3>1, <4>4 DEF Arrived
    <3>3. CASE f # m.future
      <4>1. futures[f].id \in Arrived(k)
        BY <1>9, <2>1, <3>1, <3>3 DEF OutboxInv, AcknowledgedIsOut
      <4>2. futures'[f].id \in Arrived(k)'
        BY <1>13, <3>1, <4>1
      <4> QED BY <3>1, <4>2 DEF Arrived
    <3> QED BY <3>2, <3>3
  <2> QED BY <2>1 DEF AcknowledgedIsOut
<1>16. ASSUME NEW k \in EntityKeys, NEW n \in DOMAIN sending'[k] PROVE Answers(k, n)'
  <2>1. PICK e : e = (IF k = j THEN 1 ELSE 0) /\ e \in Nat
    OBVIOUS
  <2>2. PICK s, t : /\ s = sending[k] /\ t = sending'[k] /\ s \in Seq(Message)
                    /\ \A l \in DOMAIN t : l + e \in DOMAIN s /\ t[l] = s[l + e] /\ l \in Nat \ {0}
    <3>1. CASE k = j
      <4>1. \A l \in DOMAIN Tail(q) : l + 1 \in DOMAIN q /\ Tail(q)[l] = q[l + 1] /\ l \in Nat \ {0}
        BY <1>2
      <4> QED BY <1>2, <1>7, <2>1, <3>1, <4>1
    <3>2. CASE k # j
      <4>1. PICK s \in Seq(Message) : s = sending[k] /\ sending'[k] = s
        BY <1>7, <3>2, OutboxShape
      <4>2. \A l \in DOMAIN s : l \in Nat \ {0} /\ l + 0 = l
        OBVIOUS
      <4> QED BY <2>1, <3>2, <4>1, <4>2
    <3> QED BY <3>1, <3>2
  <2>3. PICK i \in DOMAIN s : i = n + e /\ t[n] = s[i] /\ Answers(k, i)
    BY <1>16, <2>2 DEF OutboxInv
  <2>4. s[i].future # 0 => s[i].future # m.future
    <3>1. 1 \in DOMAIN q /\ q[1] = m /\ Answers(j, 1)
      BY <1>2, <1>3 DEF OutboxInv
    <3>2. CASE k = j
      <4>1. i # 1
        BY <1>16, <2>1, <2>2, <2>3, <3>2
      <4> QED BY <1>2, <2>2, <2>3, <3>1, <3>2, <4>1 DEF Answers
    <3>3. CASE k # j
      BY <1>2, <2>2, <2>3, <3>1, <3>3 DEF Answers
    <3> QED BY <3>2, <3>3
  <2>5. \A l \in DOMAIN t : t[l].future = t[n].future /\ t[n].future # 0 => l = n
    BY <1>16, <2>1, <2>2, <2>3 DEF Answers
  <2> QED BY <1>9, <2>2, <2>3, <2>4, <2>5 DEF Answers
<1>17. ASSUME NEW n \in 1..(next' - 1) PROVE GoneThrough(bundle[n])'
  <2>1. PICK i : i = bundle[n] /\ GoneThrough(i)
    BY <1>1, <1>17 DEF OutboxInv
  <2>2. GoneThrough(i)'
    BY <1>1, <1>9, <2>1, GoneThroughStays
  <2> QED BY <1>1, <2>1, <2>2 DEF GoneThrough
<1>19. ASSUME NEW f \in DOMAIN futures' PROVE Gathered(f)'
  <2>1. Ids(P) = {p.id} \cup Ids(Tail(P))
    BY <1>5, IdsTaken
  <2>2. Ids(Payloads(sending[j])) = {p.id} \cup Ids(Payloads(sending'[j]))
    BY <1>2, <1>5, <1>7, <2>1
  <2>3. \A k \in EntityKeys : Arrived(k) \cup Ids(Payloads(sending[k]))
                                \subseteq Arrived(k)' \cup Ids(Payloads(sending[k]))'
    BY <1>7, <1>8, <2>2
  <2> QED BY <1>1, <1>9, <2>3, HeldStays
<1>18. CommittedAreOut'
  BY <1>1, <1>13, CommittedStays
<1> QED BY <1>11, <1>12, <1>15, <1>16, <1>17, <1>18, <1>19 DEF OutboxInv

(* Reject: what is queued on the key is dropped, and the key paused.         *)
LEMMA RejectKeeps == ASSUME NEW j \in EntityKeys PROVE OutboxInv /\ Reject(j) => OutboxInv'
<1> SUFFICES ASSUME OutboxInv, Reject(j) PROVE OutboxInv'
  OBVIOUS
<1>1. /\ UNCHANGED <<outbox, committed, bundle, next, orphaned, topic, letters, signer>>
      /\ sending' = [sending EXCEPT ![j] = <<>>] /\ paused' = paused \cup {j}
  BY DEF Reject, kept_after_reject
<1>2. PICK lost : /\ lost = {m.future : m \in Range(sending[j])}
                  /\ futures' = [f \in DOMAIN futures |->
                                   IF f \in lost THEN [futures[f] EXCEPT !.outcome = "failed"] ELSE futures[f]]
  BY DEF Reject
<1>3. /\ futures' \in Seq(Future) /\ DOMAIN futures' = DOMAIN futures
      /\ \A f \in DOMAIN futures : /\ futures'[f].key = futures[f].key /\ futures'[f].id = futures[f].id
                                   /\ f \in lost => futures'[f].outcome = "failed"
                                   /\ f \notin lost => futures'[f].outcome = futures[f].outcome
  <2>1. PICK fs, gs : fs \in Seq(Future) /\ fs = futures /\ gs = futures'
    BY OutboxShape
  <2>2. gs = Settled(fs, lost, "failed")
    BY <1>2, <2>1 DEF Settled
  <2>3. /\ gs \in Seq(Future) /\ DOMAIN gs = DOMAIN fs
        /\ \A f \in DOMAIN fs : /\ gs[f].key = fs[f].key /\ gs[f].id = fs[f].id
                                /\ f \in lost => gs[f].outcome = "failed"
                                /\ f \notin lost => gs[f].outcome = fs[f].outcome
    BY <2>1, <2>2, FuturesSettled
  <2> QED BY <2>1, <2>3
<1>4. \A k : Arrived(k)' = Arrived(k)
  BY <1>1 DEF Arrived
<1>5. sending'[j] = <<>> /\ \A k \in EntityKeys \ {j} : sending'[k] = sending[k]
  BY <1>1 DEF OutboxInv, OutboxType
<1>6. OutboxType'
  <2>1. <<>> \in Seq(Message)
    OBVIOUS
  <2>2. sending' \in [EntityKeys -> Seq(Message)]
    BY <1>1, <2>1 DEF OutboxInv, OutboxType
  <2> QED BY <1>1, <1>3, <2>2 DEF OutboxInv, OutboxType
<1>7. KeyInOrder(j)'
  <2>1. Payloads(sending'[j]) = <<>>
    BY <1>5, NoPayloads
  <2>2. InOrder(Payloads(sending'[j]), Arrived(j))
    BY <2>1, NothingIsInOrder
  <2> QED BY <1>1, <1>4, <2>2 DEF OutboxInv, KeyInOrder
<1>8. \A k \in EntityKeys : KeyInOrder(k)'
  BY <1>1, <1>5, <1>7, OrderUntouched
<1>9. AcknowledgedIsOut'
  <2>1. ASSUME NEW f \in DOMAIN futures', futures'[f].outcome = "ok"
        PROVE  (futures[f].id \in Arrived(futures[f].key))'
    <3>1. f \in DOMAIN futures /\ futures[f].outcome = "ok"
      BY <1>3, <2>1
    <3>2. futures[f].id \in Arrived(futures[f].key)
      BY <3>1 DEF OutboxInv, AcknowledgedIsOut
    <3> QED BY <1>1, <1>3, <3>1, <3>2 DEF Arrived
  <2> QED BY <2>1 DEF AcknowledgedIsOut
<1>10. ASSUME NEW k \in EntityKeys, NEW n \in DOMAIN sending'[k] PROVE Answers(k, n)'
  <2>1. k # j /\ sending'[k] = sending[k] /\ n \in DOMAIN sending[k]
    <3>1. DOMAIN <<>> = {}
      OBVIOUS
    <3> QED BY <1>5, <1>10, <3>1
  <2>2. Answers(k, n)
    BY <2>1 DEF OutboxInv
  <2>3. sending[k][n].future # 0 => sending[k][n].future \notin lost
    <3>1. SUFFICES ASSUME sending[k][n].future # 0, NEW m \in Range(sending[j]), m.future = sending[k][n].future
                   PROVE  FALSE
      BY <1>2
    <3>2. PICK l \in DOMAIN sending[j] : m = sending[j][l]
      BY DEF Range
    <3>3. Answers(j, l)
      BY DEF OutboxInv
    <3> QED BY <2>1, <2>2, <3>1, <3>2, <3>3 DEF Answers
  <2> QED BY <1>3, <2>1, <2>2, <2>3 DEF Answers
<1>11. ASSUME NEW n \in 1..(next' - 1) PROVE GoneThrough(bundle[n])'
  <2>1. PICK i : i = bundle[n] /\ GoneThrough(i)
    BY <1>1, <1>11 DEF OutboxInv
  <2>2. GoneThrough(i)'
    BY <1>1, <1>3, <2>1, GoneThroughStays
  <2> QED BY <1>1, <2>1, <2>2 DEF GoneThrough
<1>13. ASSUME NEW f \in DOMAIN futures' PROVE Gathered(f)'
  BY <1>1, <1>3, <1>4, <1>5, HeldStays
<1>12. CommittedAreOut'
  BY <1>1, <1>4, CommittedStays
<1> QED BY <1>6, <1>8, <1>9, <1>10, <1>11, <1>12, <1>13 DEF OutboxInv

-----------------------------------------------------------------------------
(* A bundle that starts over owes nothing yet; what is on its way answers no *)
(* future any more.                                                          *)
LEMMA StartOverKeeps ==
    ASSUME OutboxInv, StartOver, signer' \in KeyIds,
           sending' \in [EntityKeys -> Seq(Message)], orphaned' \in [EntityKeys -> Seq(Seq(Payload))],
           \A k \in EntityKeys : \A n \in DOMAIN sending'[k] : sending'[k][n].future = 0,
           \A k \in EntityKeys : KeyInOrder(k)'
    PROVE  OutboxInv'
<1>1. /\ next' = 1 /\ futures' = <<>> /\ letters' = [letters EXCEPT !.staged = {}] /\ bundle' = <<>>
      /\ outbox' = outbox /\ committed' = committed /\ topic' = topic
  BY DEF StartOver
<1>2. letters' \in [committed : SUBSET Int, staged : SUBSET Int] /\ letters'.committed = letters.committed
  BY <1>1 DEF OutboxInv, OutboxType
<1>3. OutboxType'
  <2>1. <<>> \in Seq(Future) /\ <<>> \in Seq(outbox) /\ Len(<<>>) = 0
    OBVIOUS
  <2>2. next' \in Nat \ {0} /\ next' <= Len(bundle') + 1
    BY <1>1, <2>1
  <2>3. futures' \in Seq(Future) /\ bundle' \in Seq(outbox)
    BY <1>1, <2>1, Zenon
  <2> QED BY <1>1, <1>2, <2>2, <2>3 DEF OutboxInv, OutboxType
<1>4. AcknowledgedIsOut'
  <2>1. DOMAIN <<>> = {}
    OBVIOUS
  <2> QED BY <1>1, <2>1 DEF AcknowledgedIsOut
<1>5. \A k \in EntityKeys : \A n \in DOMAIN sending'[k] : Answers(k, n)'
  BY DEF Answers
<1>6. (\A n \in 1..(next - 1) : GoneThrough(bundle[n]))' /\ (\A f \in DOMAIN futures : Gathered(f))'
  <2>1. 1..(next' - 1) = {} /\ DOMAIN <<>> = {}
    BY <1>1
  <2> QED BY <1>1, <2>1
<1>7. CommittedAreOut'
  <2>1. \A k \in EntityKeys : Arrived(k)' = Arrived(k)
    BY <1>1 DEF Arrived
  <2> QED BY <1>1, <1>2, <2>1, CommittedStays
<1> QED BY <1>3, <1>4, <1>5, <1>6, <1>7 DEF OutboxInv

LEMMA ForgottenShape ==
    ASSUME OutboxInv, NEW k \in EntityKeys
    PROVE  /\ Forgotten(k) \in Seq(Message) /\ Payloads(Forgotten(k)) = Payloads(sending[k])
           /\ \A n \in DOMAIN Forgotten(k) : Forgotten(k)[n].future = 0
<1>1. PICK q \in Seq(Message) : q = sending[k] /\ DOMAIN q = 1..Len(q) /\ Len(q) \in Nat
  BY OutboxShape
<1>2. PICK g : g = Forgotten(k) /\ g = [n \in DOMAIN q |-> [q[n] EXCEPT !.future = 0]]
  BY <1>1 DEF Forgotten
<1>3. ASSUME NEW n \in DOMAIN q
      PROVE  g[n] \in Message /\ g[n].future = 0 /\ g[n].payload = q[n].payload
  <2>1. PICK m \in Message : m = q[n]
    BY <1>1
  <2>2. g[n] = [m EXCEPT !.future = 0]
    BY <1>2, <2>1
  <2>3. /\ [m EXCEPT !.future = 0] \in Message /\ [m EXCEPT !.future = 0].future = 0
        /\ [m EXCEPT !.future = 0].payload = m.payload
    BY DEF Message
  <2> QED BY <2>1, <2>2, <2>3
<1>4. g \in [1..Len(q) -> Message] /\ DOMAIN g = DOMAIN q
  BY <1>1, <1>2, <1>3
<1>5. g \in Seq(Message)
  BY <1>1, <1>4
<1>6. Payloads(g) = Payloads(q)
  <2>1. \A n \in DOMAIN q : g[n].payload = q[n].payload
    BY <1>3
  <2> QED BY <1>4, <2>1 DEF Payloads
<1> QED BY <1>1, <1>2, <1>3, <1>4, <1>5, <1>6

LEMMA SameClientKeeps ==
    ASSUME NEW stillPaused, OutboxInv, RetryOnSameClient(stillPaused)
    PROVE  OutboxInv'
<1>1. /\ StartOver /\ sending' = [k \in EntityKeys |-> Forgotten(k)]
      /\ orphaned' = orphaned /\ signer' = signer /\ outbox' = outbox /\ topic' = topic
  BY DEF RetryOnSameClient, StartOver
<1>2. ASSUME NEW k \in EntityKeys
      PROVE  /\ sending'[k] \in Seq(Message) /\ Payloads(sending'[k]) = Payloads(sending[k])
             /\ \A n \in DOMAIN sending'[k] : sending'[k][n].future = 0
  <2>1. sending'[k] = Forgotten(k)
    BY <1>1
  <2> QED BY <2>1, ForgottenShape
<1>3. sending' \in [EntityKeys -> Seq(Message)]
  BY <1>1, <1>2
<1>4. ASSUME NEW k \in EntityKeys PROVE KeyInOrder(k)'
  <2>1. Arrived(k)' = Arrived(k)
    BY <1>1 DEF Arrived
  <2> QED BY <1>1, <1>2, <2>1 DEF OutboxInv, KeyInOrder
<1>5. signer' \in KeyIds /\ orphaned' \in [EntityKeys -> Seq(Seq(Payload))]
  BY <1>1 DEF OutboxInv, OutboxType
<1> QED BY <1>1, <1>2, <1>3, <1>4, <1>5, StartOverKeeps

LEMMA NewClientKeeps ==
    ASSUME OutboxInv, RetryOnNewClient
    PROVE  OutboxInv'
<1>1. /\ StartOver /\ sending' = Nothing /\ signer' \in KeyIds /\ outbox' = outbox /\ topic' = topic
      /\ orphaned' = [k \in EntityKeys |-> IF sending[k] = <<>> THEN orphaned[k]
                                           ELSE Append(orphaned[k], Payloads(sending[k]))]
  BY DEF RetryOnNewClient, StartOver, Payloads
<1>2. PICK e \in Seq(Message) : e = <<>> /\ DOMAIN e = {}
  <2>1. <<>> \in Seq(Message) /\ DOMAIN <<>> = {}
    OBVIOUS
  <2> QED BY <2>1, Zenon
<1>3. sending' = [k \in EntityKeys |-> e]
  BY <1>1, <1>2, Zenon DEF Nothing
<1>4. ASSUME NEW k \in EntityKeys
      PROVE  orphaned'[k] \in Seq(Seq(Payload)) /\ KeyInOrder(k)'
  <2>1. PICK Q \in Seq(Seq(Payload)), r \in Seq(Payload) :
           Q = orphaned[k] /\ r = Payloads(sending[k]) /\ KeyInOrder(k)
    BY OutboxShape
  <2>2. orphaned'[k] = Q \/ orphaned'[k] = Append(Q, r)
    BY <1>1, <2>1, Zenon
  <2>20. PICK T : T = Append(Q, r)
    OBVIOUS
  <2>21. /\ T \in Seq(Seq(Payload))
         /\ \A c \in DOMAIN T : (c \in DOMAIN Q /\ T[c] = Q[c]) \/ T[c] = r
    BY <2>20
  <2>3. \A c \in DOMAIN orphaned'[k] : InOrder(orphaned'[k][c], Arrived(k))
    BY <2>1, <2>2, <2>20, <2>21 DEF KeyInOrder
  <2>4. Payloads(sending'[k]) = <<>>
    BY <1>2, <1>3, NoPayloads
  <2>5. InOrder(Payloads(sending'[k]), Arrived(k))
    BY <2>4, NothingIsInOrder
  <2>6. Arrived(k)' = Arrived(k)
    BY <1>1 DEF Arrived
  <2>7. KeyInOrder(k)'
    BY <1>1, <2>1, <2>3, <2>5, <2>6 DEF KeyInOrder
  <2> QED BY <2>2, <2>7, <2>20, <2>21
<1>5. sending' \in [EntityKeys -> Seq(Message)]
      /\ \A k \in EntityKeys : \A n \in DOMAIN sending'[k] : sending'[k][n].future = 0
  BY <1>2, <1>3
<1>6. orphaned' \in [EntityKeys -> Seq(Seq(Payload))]
  BY <1>1, <1>4
<1> QED BY <1>1, <1>4, <1>5, <1>6, StartOverKeeps

(* FinishBundle: every publish was acknowledged, so every intent is out, and *)
(* no message answers a future any more.                                     *)
LEMMA FinishBundleKeeps == OutboxInv /\ FinishBundle => OutboxInv'
<1> SUFFICES ASSUME OutboxInv, FinishBundle PROVE OutboxInv'
  OBVIOUS
<1>1. /\ next > Len(bundle) /\ \A f \in DOMAIN futures : futures[f].outcome = "ok"
      /\ committed' = committed \cup Range(bundle) /\ bundle' = <<>> /\ next' = 1 /\ futures' = <<>>
      /\ letters' = [committed |-> letters.committed \cup letters.staged, staged |-> {}]
      /\ UNCHANGED <<outbox, sending, paused, orphaned, topic, signer>>
  BY DEF FinishBundle, awaited
<1>2. /\ bundle \in Seq(outbox) /\ next \in Nat \ {0} /\ Len(bundle) \in Nat /\ DOMAIN bundle = 1..Len(bundle)
      /\ Range(bundle) \subseteq outbox
  BY DEF OutboxInv, OutboxType, Range
<1>3. letters'.committed = letters.committed \cup letters.staged
      /\ letters' \in [committed : SUBSET Int, staged : SUBSET Int]
  BY <1>1 DEF OutboxInv, OutboxType
<1>4. OutboxType'
  <2>1. <<>> \in Seq(Future) /\ <<>> \in Seq(outbox) /\ Len(<<>>) = 0
    OBVIOUS
  <2>2. next' \in Nat \ {0} /\ next' <= Len(bundle') + 1
    BY <1>1, <2>1
  <2>3. futures' \in Seq(Future) /\ bundle' \in Seq(outbox)
    BY <1>1, <2>1, Zenon
  <2>4. committed' \subseteq outbox
    BY <1>1, <1>2 DEF OutboxInv, OutboxType
  <2> QED BY <1>1, <1>3, <2>2, <2>3, <2>4 DEF OutboxInv, OutboxType
<1>5. \A k : Arrived(k)' = Arrived(k)
  BY <1>1 DEF Arrived
<1>6. \A k \in EntityKeys : KeyInOrder(k)'
  BY <1>1, OrderUntouched
<1>7. AcknowledgedIsOut'
  <2>1. DOMAIN <<>> = {}
    OBVIOUS
  <2> QED BY <1>1, <2>1 DEF AcknowledgedIsOut
<1>8. ASSUME NEW k \in EntityKeys, NEW n \in DOMAIN sending'[k] PROVE Answers(k, n)'
  <2>1. Answers(k, n) /\ n \in DOMAIN sending[k]
    BY <1>1, <1>8 DEF OutboxInv
  <2>2. sending[k][n].future = 0
    BY <1>1, <2>1 DEF Answers
  <2> QED BY <1>1, <2>2 DEF Answers
<1>9. (\A n \in 1..(next - 1) : GoneThrough(bundle[n]))' /\ (\A f \in DOMAIN futures : Gathered(f))'
  <2>1. 1..(next' - 1) = {} /\ DOMAIN <<>> = {}
    BY <1>1
  <2> QED BY <1>1, <2>1
<1>10. CommittedAreOut'
  <2>1. SUFFICES ASSUME NEW i \in committed \cup Range(bundle)
                 PROVE  IF i.serializes THEN i.id \in Arrived(i.key) ELSE i.id \in letters'.committed
    BY <1>1, <1>5 DEF CommittedAreOut
  <2>2. CASE i \in Range(bundle)
    <3>1. PICK n \in DOMAIN bundle : i = bundle[n]
      BY <2>2 DEF Range
    <3>2. n \in 1..(next - 1)
      BY <1>1, <1>2
    <3>3. GoneThrough(i)
      BY <3>1, <3>2 DEF OutboxInv
    <3>4. CASE i.serializes
      <4>1. PICK f \in DOMAIN futures : futures[f].key = i.key /\ futures[f].id = i.id
        BY <3>3, <3>4 DEF GoneThrough
      <4>2. futures[f].id \in Arrived(futures[f].key)
        BY <1>1 DEF OutboxInv, AcknowledgedIsOut
      <4> QED BY <3>4, <4>1, <4>2
    <3>5. CASE ~i.serializes
      BY <1>3, <3>3, <3>5 DEF GoneThrough
    <3> QED BY <3>4, <3>5
  <2>3. CASE i \in committed
    <3>1. IF i.serializes THEN i.id \in Arrived(i.key) ELSE i.id \in letters.committed
      BY <2>3 DEF OutboxInv, CommittedAreOut
    <3> QED BY <1>3, <3>1
  <2> QED BY <2>1, <2>2, <2>3
<1> QED BY <1>4, <1>6, <1>7, <1>8, <1>9, <1>10 DEF OutboxInv

(* Every step of the outbox keeps its invariant.                             *)
LEMMA OutboxKeeps == OutboxInv /\ [OutboxNext]_outboxVars => OutboxInv'
<1> SUFFICES ASSUME OutboxInv, [OutboxNext]_outboxVars PROVE OutboxInv'
  OBVIOUS
<1>0. CASE TakeBundle
  BY <1>0, TakeBundleKeeps
<1>1. CASE SerializeFails
  BY <1>1, SerializeFailsKeeps
<1>2. CASE Publish
  BY <1>2, PublishKeeps
<1>3. CASE KeyTooLong
  <2>1. RetryOnSameClient(paused) \/ RetryOnNewClient
    BY <1>3 DEF KeyTooLong
  <2>2. PICK still : still = paused
    OBVIOUS
  <2>3. RetryOnSameClient(still) \/ RetryOnNewClient
    BY <2>1, <2>2
  <2> QED BY <2>3, SameClientKeeps, NewClientKeeps
<1>4. CASE WorkerDies
  BY <1>4, NewClientKeeps DEF WorkerDies
<1>5. CASE FinishFails
  <2>1. PICK still : still = resumed(futures[FirstFailed].key)
    OBVIOUS
  <2>2. RetryOnSameClient(still) \/ RetryOnNewClient
    BY <1>5, <2>1 DEF FinishFails
  <2> QED BY <2>2, SameClientKeeps, NewClientKeeps
<1>6. CASE FinishBundle
  BY <1>6, FinishBundleKeeps
<1>7. CASE \E k \in EntityKeys : Acknowledge(k) \/ Reject(k) \/ Straggle(k)
  BY <1>7, AcknowledgeKeeps, RejectKeeps, StraggleKeeps
<1>8. CASE UNCHANGED outboxVars
  <2>1. UNCHANGED <<outbox, committed, bundle, next, futures, sending, paused, orphaned, topic, letters, signer>>
    BY <1>8 DEF outboxVars
  <2>2. OutboxType' /\ AcknowledgedIsOut' /\ CommittedAreOut'
    BY <2>1 DEF OutboxInv, OutboxType, AcknowledgedIsOut, CommittedAreOut, Arrived
  <2>3. \A k \in EntityKeys : KeyInOrder(k)'
    BY <2>1, OrderUntouched
  <2>4. \A k \in EntityKeys : \A n \in DOMAIN sending'[k] : Answers(k, n)'
    BY <2>1 DEF OutboxInv, Answers
  <2>5. (\A n \in 1..(next - 1) : GoneThrough(bundle[n]))' /\ (\A f \in DOMAIN futures : Gathered(f))'
    BY <2>1 DEF OutboxInv, GoneThrough, Gathered, Arrived
  <2> QED BY <2>2, <2>3, <2>4, <2>5 DEF OutboxInv
<1> QED BY <1>0, <1>1, <1>2, <1>3, <1>4, <1>5, <1>6, <1>7, <1>8 DEF OutboxNext

(* What the invariant says of the topic and of what is committed.            *)
LEMMA OutboxServes == OutboxInv => OutboxSafe
<1> SUFFICES ASSUME OutboxInv PROVE OutboxSafe
  OBVIOUS
<1>1. AttemptsKeepOrder
  <2> SUFFICES ASSUME NEW k \in EntityKeys, NEW y \in DOMAIN topic[k]
               PROVE  topic[k][y].after \subseteq {topic[k][x].id : x \in 1..(y - 1)}
    BY DEF AttemptsKeepOrder
  <2>1. Preceded(topic[k][y], {} \cup {topic[k][x].id : x \in 1..(y - 1)})
    BY DEF OutboxInv, KeyInOrder, InOrder
  <2> QED BY <2>1 DEF Preceded
<1>2. SignedIntentsVerify
  <2> SUFFICES ASSUME NEW k \in EntityKeys, NEW p \in Range(topic[k])
               PROVE  verify_intent(p.body, KeyIds) = "ok"
    BY DEF SignedIntentsVerify
  <2>1. PICK n \in DOMAIN topic[k] : p = topic[k][n]
    BY DEF Range
  <2>2. topic[k][n] \in Payload
    BY OutboxShape
  <2> QED BY <2>1, <2>2, PayloadFacts
<1> QED BY <1>1, <1>2 DEF OutboxSafe, OutboxInv

-----------------------------------------------------------------------------
(* The processes side by side.  A step is of one of them and leaves the      *)
(* others' states alone.                                                     *)
RuntimeInv == DispatchInv /\ OutboxInv /\ SourceInv /\ SinkInv /\ SidecarInv /\ BridgeInv

runtimeVars == <<part, dispatchVars, outboxVars, sidecarVars, bridgeVars, resultVars, sourceVars>>

(* Each process starts in its own initial state.                             *)
LEMMA RuntimeStarts == Init => RuntimeInv
  BY DispatcherStarts, OutboxStarts, SourceStarts, SinkStarts, SidecarStarts, BridgeStarts DEF Init, RuntimeInv

(* A step of the composition is a step or a stutter of every process.        *)
LEMMA RuntimeSteps ==
  ASSUME [Next]_runtimeVars
  PROVE  /\ [DispatchNext]_dispatchVars /\ [SourceNext]_sourceVars /\ [ResultNext]_resultVars
         /\ [SidecarNext]_sidecarVars /\ [BridgeNext]_bridgeVars /\ [OutboxNext]_outboxVars
<1>1. CASE UNCHANGED runtimeVars
  BY <1>1 DEF runtimeVars
<1>2. CASE DispatchNext /\ UNCHANGED <<outboxVars, sidecarVars, bridgeVars, resultVars, sourceVars>>
  BY <1>2
<1>3. CASE OutboxNext /\ UNCHANGED <<dispatchVars, sidecarVars, bridgeVars, resultVars, sourceVars>>
  BY <1>3
<1>4. CASE SidecarNext /\ UNCHANGED <<dispatchVars, outboxVars, bridgeVars, resultVars, sourceVars>>
  BY <1>4
<1>5. CASE BridgeNext /\ UNCHANGED <<dispatchVars, outboxVars, sidecarVars, resultVars, sourceVars>>
  BY <1>5
<1>6. CASE ResultNext /\ UNCHANGED <<dispatchVars, outboxVars, sidecarVars, bridgeVars, sourceVars>>
  BY <1>6
<1>7. CASE SourceNext /\ UNCHANGED <<dispatchVars, outboxVars, sidecarVars, bridgeVars, resultVars>>
  BY <1>7
<1> QED BY <1>1, <1>2, <1>3, <1>4, <1>5, <1>6, <1>7 DEF Next

(* So every process keeps its own invariant.                                 *)
LEMMA RuntimeKeeps == RuntimeInv /\ [Next]_runtimeVars => RuntimeInv'
  BY RuntimeSteps, DispatchKeeps, OutboxKeeps, SourceKeeps, SinkKeeps, SidecarKeeps, BridgeKeeps DEF RuntimeInv

(* Below a partition's committed offset lies only what a member brought to   *)
(* the end or what lost its claim while it was processed: that the latter    *)
(* were acted on is not promised, since process() returns without a commit   *)
(* and the next commit passes them.  The semaphore's permits are all         *)
(* accounted for and a partition has one live worker, through rebalances and *)
(* workers that die; the Pub/Sub source's workers start a key's intents in   *)
(* order whatever is redelivered; no record is sent by a producer that is    *)
(* not up, and a sink worker dies of a result only when the broker's         *)
(* refusals and the producer's failed starts have used up the budget         *)
(* (effector/service.py, sources.py, sinks.py).                              *)
THEOREM EffectorProcessKeepsOrder == Spec => []EffectorKeepsOrder
<1>1. RuntimeInv => EffectorKeepsOrder
  BY OneWorker, SourceOrder, SinkKeepsBudget DEF RuntimeInv, DispatchInv, EffectorKeepsOrder
<1> QED BY <1>1, RuntimeStarts, RuntimeKeeps, PTL DEF Spec, runtimeVars

(* Whoever holds the shared sidecar is served by one engine that is up, and  *)
(* a bridge runs one activation at a time as far as its waits allow, telling *)
(* every coroutine it gave up on to stop (model/vllm.py, core/bridge.py).    *)
THEOREM EventLoopsServe == Spec => []LoopThreadsServe
<1>1. RuntimeInv => LoopThreadsServe
  BY SidecarServes, BridgeServes DEF RuntimeInv, LoopThreadsServe
<1> QED BY <1>1, RuntimeStarts, RuntimeKeeps, PTL DEF Spec, runtimeVars

(* What one attempt at a bundle publishes under a key reaches the topic in   *)
(* the attempt's order and without a gap; a committed bundle has left each   *)
(* of its intents in the topic or the dead letters; and what is signed       *)
(* verifies.  So it is however the runner splits and orders a stream and     *)
(* gives it again, through any rejected publishes, paused keys, torn down    *)
(* clients and changes of the signing key, for one worker at a time.         *)
(* Between bundles and attempts no order is promised, nor is there one       *)
(* (actions/write_intents.py, intent_signing.py).                            *)
THEOREM OutboxKeepsOrder == Spec => []OutboxSafe
<1>1. RuntimeInv => OutboxSafe
  BY OutboxServes DEF RuntimeInv
<1> QED BY <1>1, RuntimeStarts, RuntimeKeeps, PTL DEF Spec, runtimeVars
=============================================================================
