------------------------------ MODULE Effector ------------------------------
(***************************************************************************)
(* The effector of effector/service.py over one partition of the intents   *)
(* topic, with the source of effector/sources.py, the execution mapping of *)
(* effector/runner.py, hitl.refuse_expired and the shared DedupStore.      *)
(*                                                                         *)
(* The members of one consumer group take turns at the partition; each     *)
(* runs one worker task.  A step goes from one await to the next, so what  *)
(* interleaves is what asyncio, several processes and the broker let       *)
(* interleave: a member that lost the partition without knowing goes on, a *)
(* worker is cancelled at an await, a process dies between two phases, an  *)
(* operation takes effect whose reply never comes.                         *)
(***************************************************************************)
EXTENDS DedupStore, Sequences, FiniteSets

CONSTANTS
    Members,     \* the processes of the consumer group
    Log,         \* the partition: a sequence of intent_ids, repeats included
    Verdict,     \* per offset: what verify_intent says of the delivery
    Mode,        \* EffectorConfig.verify_intents
    DeadLetters, \* whether dead_letters_to is configured
    Approvals,   \* the intents of kind APPROVAL
    Expires,     \* per intent: expires_at_ms
    MaxAttempts, \* EffectorConfig.publish_max_attempts
    Timely,      \* TRUE: a running worker completes within its lease
    MaxFaults,   \* bound: faults of every kind
    MaxTime      \* bound: no fault after this time, and no time without a lease

ASSUME EffectorAssumption ==
    /\ IsFiniteSet(Members)
    /\ Log \in Seq(IntentIds)
    /\ Verdict \in [1..Len(Log) -> {"ok", "unsigned", "bad"}]
    /\ Mode \in {"off", "permissive", "require"}
    /\ DeadLetters \in BOOLEAN
    /\ Approvals \subseteq IntentIds
    /\ Expires \in [IntentIds -> Int]
    /\ MaxAttempts \in Nat \ {0}
    /\ Timely \in BOOLEAN
    /\ MaxFaults \in Nat
    /\ MaxTime \in Nat

VARIABLES
    owner,      \* the member the broker has assigned the partition to: {} or {m}
    committed,  \* the next offset the group would read
    pc,         \* per member: the await its worker is at; "out" when it has none
    next,       \* per member: the next offset its consumer yields
    at,         \* per member: the offset of the delivery in hand
    claims,     \* per member: _claims[partition], {} or {[id, token, executing]}
    token,      \* per member: the token of a claim reply not yet read
    outcome,    \* per member: {} or {result} that complete or publish carries
    tries,      \* per member: failed publish attempts of _with_retry
    results,    \* ToolResults on the results topic
    notified,   \* per intent: approval requests on the approval channel
    buried,     \* offsets on the dead-letter channel
    invoked,    \* per intent: invocations of its tool
    ran,        \* offsets whose delivery invoked a tool
    faults      \* faults so far

worker == <<pc, next, at, claims, token, outcome, tries>>
topics == <<results, notified, buried>>
effects == <<invoked, ran>>
broker == <<owner, committed>>
vars == <<store, clock, worker, topics, effects, broker, faults>>

Offsets == 1..Len(Log)

(* A ToolResult: its status and the claim under which it was produced.       *)
Result(i, status, t) == [id |-> i, status |-> status, token |-> t]

-----------------------------------------------------------------------------
Init ==
    /\ StoreInit
    /\ owner = {} /\ committed = 1
    /\ pc = [m \in Members |-> "out"]
    /\ next = [m \in Members |-> 1]
    /\ at = [m \in Members |-> 1]
    /\ claims = [m \in Members |-> {}]
    /\ token = [m \in Members |-> 0]
    /\ outcome = [m \in Members |-> {}]
    /\ tries = [m \in Members |-> 0]
    /\ results = {} /\ buried = {}
    /\ notified = [i \in IntentIds |-> 0]
    /\ invoked = [i \in IntentIds |-> 0]
    /\ ran = {} /\ faults = 0

Fault ==
    /\ faults < MaxFaults
    /\ clock <= MaxTime
    /\ faults' = faults + 1

verified_lenient(p) == Mode # "require" \/ Verdict[p] = "ok"

(* _verified, as a predicate of the delivery at offset p.                    *)
verified(p) ==
    \/ Mode = "off"
    \/ Verdict[p] = "ok"
    \/ Verdict[p] = "unsigned" /\ Mode = "permissive"

(* hitl.intent_expired at the current clock.                                 *)
expired(i) == Expires[i] <= 0 \/ Expires[i] <= clock

(* The broker assigns the partition to a member, which reads on from the     *)
(* committed offset.                                                         *)
Assign(m) ==
    /\ owner = {}
    /\ pc[m] = "out"
    /\ owner' = {m}
    /\ pc' = [pc EXCEPT ![m] = "idle"]
    /\ next' = [next EXCEPT ![m] = committed]
    /\ UNCHANGED <<store, clock, at, claims, token, outcome, tries, topics, effects,
                   committed, faults>>

(***************************************************************************)
(* The worker takes the next delivery into process: phase 0 and phase 1 up *)
(* to the first await.                                                     *)
(***************************************************************************)
Fetch(m) ==
    LET p == next[m]
        i == Log[p]
    IN  /\ pc[m] = "idle"
        /\ p \in Offsets
        /\ at' = [at EXCEPT ![m] = p]
        /\ next' = [next EXCEPT ![m] = p + 1]
        /\ token' = [token EXCEPT ![m] = 0]
        /\ \/ /\ ~verified(p)
              /\ pc' = [pc EXCEPT ![m] = IF DeadLetters THEN "dead_letter" ELSE "commit"]
              /\ UNCHANGED outcome
           \/ /\ verified(p) /\ expired(i)
              /\ pc' = [pc EXCEPT ![m] = "publish"]
              /\ outcome' = [outcome EXCEPT ![m] = {Result(i, "EXPIRED", 0)}]
           \/ /\ verified(p) /\ ~expired(i)
              /\ pc' = [pc EXCEPT ![m] = "claim"]
              /\ UNCHANGED outcome
        /\ UNCHANGED <<store, clock, claims, tries, topics, effects, broker, faults>>

(* _claim granted by the store; the reply is on its way to the worker.       *)
ClaimGranted(m) ==
    /\ pc[m] = "claim"
    /\ claim(Log[at[m]])
    /\ token' = [token EXCEPT ![m] = tokens + 1]
    /\ pc' = [pc EXCEPT ![m] = "granted"]
    /\ UNCHANGED <<clock, next, at, claims, outcome, tries, topics, effects, broker, faults>>

ClaimDone_silent(m) ==
    /\ pc[m] = "claim"
    /\ done(Log[at[m]]) # {}
    /\ pc' = [pc EXCEPT ![m] = "commit"]
    /\ UNCHANGED <<store, clock, next, at, claims, token, outcome, tries, topics, effects,
                   broker, faults>>

ClaimDone_with_result(m) ==
    /\ pc[m] = "claim"
    /\ \E r \in done(Log[at[m]]) : r.result # {} /\ outcome' = [outcome EXCEPT ![m] = r.result]
    /\ pc' = [pc EXCEPT ![m] = "publish"]
    /\ UNCHANGED <<store, clock, next, at, claims, token, tries, topics, effects, broker, faults>>

ClaimDone_skipping(m) ==
    /\ pc[m] = "claim"
    /\ live(Log[at[m]]) # {}
    /\ \E r \in live(Log[at[m]]) :
         /\ outcome' = [outcome EXCEPT ![m] = r.result]
         /\ pc' = [pc EXCEPT ![m] = IF r.tag = "claim" THEN "idle"
                                   ELSE IF r.result = {} THEN "commit" ELSE "publish"]
    /\ UNCHANGED <<store, clock, next, at, claims, token, tries, topics, effects, broker, faults>>

(* _claim answering Done: republish the stored result, if it has one.  While *)
(* a live lease is held elsewhere (InFlight) neither action is enabled: the  *)
(* worker backs off and asks again.                                          *)
ClaimDone(m) ==
    /\ pc[m] = "claim"
    /\ \E r \in done(Log[at[m]]) :
         /\ outcome' = [outcome EXCEPT ![m] = r.result]
         /\ pc' = [pc EXCEPT ![m] = IF r.result = {} THEN "commit" ELSE "publish"]
    /\ UNCHANGED <<store, clock, next, at, claims, token, tries, topics, effects, broker, faults>>

(***************************************************************************)
(* The reply arrives: the claim is registered and, without a further       *)
(* await, the approval is handed to its channel, the intent is rejected    *)
(* (unknown or read-only tool, bad arguments), or the tool is invoked.     *)
(***************************************************************************)
Begin(m) ==
    LET i == Log[at[m]]
        register(executing) ==
            claims' = [claims EXCEPT ![m] =
                         {[id |-> i, token |-> token[m], executing |-> executing]}]
    IN  /\ pc[m] = "granted"
        /\ \/ /\ i \in Approvals
              /\ register(TRUE)
              /\ outcome' = [outcome EXCEPT ![m] = {}]
              /\ pc' = [pc EXCEPT ![m] = "notify"]
              /\ UNCHANGED effects
           \/ /\ i \notin Approvals
              /\ register(FALSE)
              /\ outcome' = [outcome EXCEPT ![m] = {Result(i, "REJECTED", token[m])}]
              /\ pc' = [pc EXCEPT ![m] = "complete"]
              /\ UNCHANGED effects
           \/ /\ i \notin Approvals
              /\ register(TRUE)
              /\ invoked' = [invoked EXCEPT ![i] = @ + 1]
              /\ ran' = ran \cup {at[m]}
              /\ pc' = [pc EXCEPT ![m] = "running"]
              /\ UNCHANGED outcome
        /\ UNCHANGED <<store, clock, next, at, token, tries, topics, broker, faults>>

Finish_publishing(m) ==
    /\ pc[m] = "running"
    /\ outcome' = [outcome EXCEPT ![m] = {Result(Log[at[m]], "OK", token[m])}]
    /\ pc' = [pc EXCEPT ![m] = "publish"]
    /\ UNCHANGED <<store, clock, next, at, claims, token, tries, topics, effects, broker, faults>>

(* _execute_intent: the tool returns, raises, or is given up at its timeout. *)
Finish(m) ==
    /\ pc[m] = "running"
    /\ \E status \in {"OK", "ERROR"} :
         outcome' = [outcome EXCEPT ![m] = {Result(Log[at[m]], status, token[m])}]
    /\ pc' = [pc EXCEPT ![m] = "complete"]
    /\ UNCHANGED <<store, clock, next, at, claims, token, tries, topics, effects, broker, faults>>

(* Phase 3: the terminal record, while the claim is still owned.             *)
Complete(m) ==
    LET i == Log[at[m]]
    IN  /\ pc[m] = "complete"
        /\ complete(i, token[m], outcome[m])
        /\ pc' = [pc EXCEPT ![m] = IF i \in Approvals THEN "commit" ELSE "publish"]
        /\ UNCHANGED <<clock, next, at, claims, token, outcome, tries, topics, effects,
                       broker, faults>>

(* complete refused: the claim is lost, and process returns to the worker    *)
(* loop without publishing or committing.                                    *)
LoseClaim(m) ==
    /\ pc[m] = "complete"
    /\ ~owns(Log[at[m]], token[m])
    /\ pc' = [pc EXCEPT ![m] = "idle"]
    /\ claims' = [claims EXCEPT ![m] = {c \in @ : c.token # token[m]}]
    /\ UNCHANGED <<store, clock, next, at, token, outcome, tries, topics, effects,
                   broker, faults>>

(* What a publish that reached the broker adds to its topic.                 *)
Land(m) ==
    LET i == Log[at[m]]
    IN  \/ /\ pc[m] = "publish"
           /\ results' = results \cup outcome[m]
           /\ UNCHANGED <<notified, buried>>
        \/ /\ pc[m] = "notify"
           /\ notified' = [notified EXCEPT ![i] = @ + 1]
           /\ UNCHANGED <<results, buried>>
        \/ /\ pc[m] = "dead_letter"
           /\ buried' = buried \cup {at[m]}
           /\ UNCHANGED <<results, notified>>

(* _with_retry around a publish that succeeds.                               *)
Publish(m) ==
    /\ pc[m] \in {"publish", "notify", "dead_letter"}
    /\ Land(m)
    /\ tries' = [tries EXCEPT ![m] = 0]
    /\ pc' = [pc EXCEPT ![m] = IF pc[m] = "notify" THEN "complete" ELSE "commit"]
    /\ UNCHANGED <<store, clock, next, at, claims, token, outcome, effects, broker, faults>>

(* _with_retry around an attempt that fails, landed or not; the last one     *)
(* raises PublishFailedError, which ends the worker task.                    *)
PublishFails(m) ==
    /\ pc[m] \in {"publish", "notify", "dead_letter"}
    /\ Fault
    /\ Land(m) \/ UNCHANGED topics
    /\ tries' = [tries EXCEPT ![m] = (@ + 1) % MaxAttempts]
    /\ pc' = [pc EXCEPT ![m] = IF tries[m] + 1 = MaxAttempts THEN "dead" ELSE @]
    /\ UNCHANGED <<store, clock, next, at, claims, token, outcome, effects, broker>>

(* source.commit: offset + 1, and the claim of the delivery is deregistered. *)
Commit(m) ==
    /\ pc[m] = "commit"
    /\ owner = {m}
    /\ committed' = at[m] + 1
    /\ pc' = [pc EXCEPT ![m] = "idle"]
    /\ claims' = [claims EXCEPT ![m] = {c \in @ : c.token # token[m]}]
    /\ UNCHANGED <<store, clock, next, at, token, outcome, tries, topics, effects, owner, faults>>

(* The broker refuses the commit of a member that lost the partition; the    *)
(* error ends the worker task.                                               *)
CommitFenced(m) ==
    /\ pc[m] = "commit"
    /\ owner # {m}
    /\ pc' = [pc EXCEPT ![m] = "dead"]
    /\ UNCHANGED <<store, clock, next, at, claims, token, outcome, tries, topics, effects,
                   broker, faults>>

(* A claim or complete call that raises: it is not retried and ends the      *)
(* worker task.  The claim may have been granted all the same.               *)
StoreFails(m) ==
    /\ pc[m] \in {"claim", "complete"}
    /\ Fault
    /\ \/ UNCHANGED store
       \/ pc[m] = "claim" /\ claim(Log[at[m]])
       \/ pc[m] = "complete" /\ complete(Log[at[m]], token[m], outcome[m])
    /\ pc' = [pc EXCEPT ![m] = "dead"]
    /\ UNCHANGED <<clock, next, at, claims, token, outcome, tries, topics, effects, broker>>

-----------------------------------------------------------------------------
ReleaseClaim_executing(m) ==
    \/ \E c \in claims[m] : release(c.id, c.token)
    \/ claims[m] = {} /\ UNCHANGED store

(* _release_claim: hand back a claim whose tool has not been invoked.        *)
ReleaseClaim(m) ==
    \/ \E c \in claims[m] : ~c.executing /\ release(c.id, c.token)
    \/ /\ \A c \in claims[m] : c.executing
       /\ UNCHANGED store

(* The worker of m is gone.                                                  *)
Stopped(m) ==
    /\ pc' = [pc EXCEPT ![m] = "out"]
    /\ tries' = [tries EXCEPT ![m] = 0]
    /\ owner' = owner \ {m}
    /\ UNCHANGED <<clock, next, at, token, outcome, topics, effects, committed>>

(* _on_revoked: the worker is cancelled at its await and its claim handed    *)
(* back.  A task that had already failed re-raises here, before the claim is *)
(* looked at.                                                                *)
OnRevoked(m) ==
    /\ \/ /\ pc[m] # "dead"
          /\ ReleaseClaim(m)
          /\ claims' = [claims EXCEPT ![m] = {}]
       \/ /\ pc[m] = "dead"
          /\ UNCHANGED <<store, claims>>
    /\ Stopped(m)

(* A rebalance takes the partition from its owner.                           *)
Revoke(m) ==
    /\ owner = {m}
    /\ Fault
    /\ OnRevoked(m)

(* A member that lost the partition without knowing rejoins the group.       *)
Rejoin(m) ==
    /\ pc[m] # "out"
    /\ owner # {m}
    /\ OnRevoked(m)
    /\ UNCHANGED faults

(* A signalled shutdown: _abort cancels the workers, aclose releases.        *)
Shutdown(m) ==
    /\ pc[m] # "out" \/ claims[m] # {}
    /\ Fault
    /\ ReleaseClaim(m)
    /\ claims' = [claims EXCEPT ![m] = {}]
    /\ Stopped(m)

(* The process dies: its memory is gone, nothing is released.                *)
Crash(m) ==
    /\ pc[m] # "out"
    /\ Fault
    /\ claims' = [claims EXCEPT ![m] = {}]
    /\ UNCHANGED store
    /\ Stopped(m)

(* The broker gives up on a member that is still running.                    *)
Evict(m) ==
    /\ owner = {m}
    /\ Fault
    /\ owner' = {}
    /\ UNCHANGED <<store, clock, worker, topics, effects, committed>>

(* Past MaxTime the clock only moves to run a lease out.  Timely: no worker  *)
(* is still before its complete when that happens.                           *)
Tick ==
    /\ clock < MaxTime \/ \E i \in IntentIds : in_flight(i)
    /\ Timely => \A m \in Members :
                    pc[m] \in {"granted", "running", "notify", "complete"} =>
                       \A r \in records[Log[at[m]]] :
                          r.token = token[m] => clock + 1 < r.expires
    /\ clock' = clock + 1
    /\ UNCHANGED <<store, worker, topics, effects, broker, faults>>

Step(m) ==
    \/ Fetch(m) \/ ClaimGranted(m) \/ ClaimDone(m) \/ Begin(m) \/ Finish(m)
    \/ Complete(m) \/ LoseClaim(m) \/ Publish(m) \/ Commit(m) \/ CommitFenced(m)

Disturb(m) ==
    \/ PublishFails(m) \/ StoreFails(m)
    \/ Revoke(m) \/ Shutdown(m) \/ Crash(m) \/ Evict(m) \/ Rejoin(m)

Next ==
    \/ \E m \in Members : Assign(m) \/ Step(m) \/ Disturb(m)
    \/ Tick

Spec == Init /\ [][Next]_vars

(* Tasks and processes are scheduled, the broker assigns a free partition,   *)
(* an evicted member rejoins at its next heartbeat, time goes on.            *)
Fairness ==
    /\ \A m \in Members : WF_vars(Step(m)) /\ WF_vars(Rejoin(m))
    /\ WF_vars(\E m \in Members : Assign(m))
    /\ WF_vars(Tick)

FairSpec == Spec /\ Fairness

-----------------------------------------------------------------------------
Pcs == {"out", "idle", "dead_letter", "claim", "granted", "running", "notify",
        "complete", "publish", "commit", "dead"}

Results == [id : IntentIds, status : {"OK", "ERROR", "REJECTED", "EXPIRED"}, token : Nat]

Records == [tag : {"claim", "done"}, token : Nat, result : SUBSET Results, expires : Int]

Claims == [id : IntentIds, token : Nat, executing : BOOLEAN]

(* Type correctness of the store, the workers, the topics and the broker.    *)
TypeOK ==
    /\ records \in [IntentIds -> SUBSET Records]
    /\ clock \in Nat /\ tokens \in Nat /\ lapses \in [IntentIds -> Nat]
    /\ pc \in [Members -> Pcs]
    /\ next \in [Members -> Nat] /\ at \in [Members -> Nat]
    /\ claims \in [Members -> SUBSET Claims]
    /\ token \in [Members -> Nat] /\ outcome \in [Members -> SUBSET Results]
    /\ tries \in [Members -> Nat]
    /\ results \subseteq Results /\ buried \subseteq Offsets
    /\ notified \in [IntentIds -> Nat] /\ invoked \in [IntentIds -> Nat]
    /\ ran \subseteq Offsets
    /\ owner \subseteq Members /\ committed \in Nat /\ faults \in Nat

(* What the outside has seen of the delivery at offset p: a result, a routed *)
(* approval, or the dead letter of a delivery that failed verification.      *)
settled(p) ==
    \/ ~verified(p) /\ (DeadLetters => p \in buried)
    \/ \E r \in results : r.id = Log[p]
    \/ Log[p] \in Approvals /\ notified[Log[p]] > 0

(* Effectively once: as long as no record of the intent has run out (a lease *)
(* left by a dead owner, or the retention of its result) its tool is invoked *)
(* at most once, and once more for each record that has.  Redelivery, a      *)
(* replayed publish, a rebalance and a release never add an invocation.      *)
InvokedOncePerLease == \A i \in IntentIds : invoked[i] <= 1 + lapses[i]

(* Complete before publish: a result the pipeline can see is the durable     *)
(* terminal record of its intent, so that every later delivery republishes   *)
(* the same one, until that record has run out.                              *)
PublishedIsStored ==
    \A r \in results :
        \/ r.status = "EXPIRED"
        \/ \E rec \in records[r.id] : rec.tag = "done" /\ r \in rec.result
        \/ lapses[r.id] > 0

(* One agreed terminal result: the invoked outcomes published for an intent  *)
(* are one and the same unless a record of it has run out.                   *)
AgreedResult ==
    \A r, s \in results :
        r.id = s.id /\ r.status # "EXPIRED" /\ s.status # "EXPIRED" =>
            r = s \/ lapses[r.id] > 0

(* No intent is lost: the committed offset passes a delivery only once its   *)
(* result, its approval request or its dead letter is out.                   *)
NoIntentLost == \A p \in Offsets : p < committed => settled(p)

(* Per-key order: a tool is invoked for a delivery only when every earlier   *)
(* delivery of the partition has been settled.                               *)
InvokedInOrder == \A q \in ran, p \in Offsets : p < q => settled(p)

(* A partition's deliveries are settled one after the other, whatever the    *)
(* state of the store, the members and the broker they meet on the way.      *)
SettledInOrder == TypeOK /\ InvokedInOrder

(* The world hears one result of an intent: it is stored before it is        *)
(* published, and no later lease, redelivery or retry publishes another.     *)
OneResultIsHeard == PublishedIsStored /\ AgreedResult

(* An intent that no delivery authenticates leaves no trace: no claim, no    *)
(* invocation, no approval request and no result of any status.              *)
UnverifiedLeavesNoTrace ==
    \A i \in IntentIds :
        Mode # "off" /\ (\A p \in Offsets : Log[p] = i => Verdict[p] = "bad") =>
            /\ records[i] = {} /\ invoked[i] = 0 /\ notified[i] = 0
            /\ \A r \in results : r.id # i

(* A claim waits out a dead owner and never skips it: unless the worker of   *)
(* the partition's owner has died, the group gets through the whole log.     *)
EveryIntentProcessed ==
    <>[](\A m \in Members : pc[m] = "dead" => owner # {m}) => <>(committed = Len(Log) + 1)
=============================================================================
