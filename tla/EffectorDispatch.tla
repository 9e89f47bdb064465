-------------------------- MODULE EffectorDispatch --------------------------
(***************************************************************************)
(* The life of the effector process around its per-intent phases           *)
(* (effector/service.py: run, _drain, _abort, _ensure_worker, _worker,     *)
(* _on_revoked; effector/sources.py: the Kafka source and its rebalance    *)
(* listener; effector/__main__.py: _serve).  One dispatcher feeds a worker *)
(* task per partition through a queue of one; a semaphore bounds how many  *)
(* process at once.  What a worker does with an intent is module Effector; *)
(* here it succeeds and commits the offset, finds its claim lapsed and     *)
(* goes on without a commit, or raises.                                    *)
(***************************************************************************)
EXTENDS Integers, Sequences, FiniteSets

CONSTANTS
    Partition,      \* the topic's partitions
    LogLength,      \* per partition: the intents in it
    MaxPartitions,  \* EffectorConfig.max_concurrent_partitions
    MaxRebalances,  \* bound: rebalances
    MaxMishaps      \* bound: intents whose processing raises or loses its claim

ASSUME DispatchAssumption ==
    /\ IsFiniteSet(Partition) /\ LogLength \in [Partition -> Nat] /\ MaxPartitions \in Nat \ {0}
    /\ MaxRebalances \in Nat /\ MaxMishaps \in Nat

VARIABLES
    owned,      \* the group's assignment to this consumer
    position,   \* per partition: the next offset the consumer fetches
    offset,     \* per partition: the group's committed offset
    handled,    \* per partition: offsets some member brought to the end, and
                \* those whose claim its worker found lapsed
    tasks,      \* every worker task ever started, with its queue
    workers,    \* _workers and _queues: partition to task, 0 for none
    permits,    \* free permits of _concurrency
    putting,    \* the dispatcher's unfinished queue.put: {} or {[task, item]}
    revoking,   \* partitions the listener has still to hand to _on_revoked
    phase,      \* run(): "iterating", "draining", "ended" or "raised"
    rebalances, mishaps

dispatchVars == <<owned, position, offset, handled, tasks, workers, permits, putting,
                  revoking, phase, rebalances, mishaps>>

Stop == -1      \* the None a drained queue receives

Live == {"getting", "acquiring", "processing"}

DispatchInit ==
    /\ owned = Partition /\ revoking = {}
    /\ position = [p \in Partition |-> 0] /\ offset = [p \in Partition |-> 0]
    /\ handled = [p \in Partition |-> {}]
    /\ tasks = <<>> /\ workers = [p \in Partition |-> 0] /\ permits = MaxPartitions
    /\ putting = {} /\ phase = "iterating" /\ rebalances = 0 /\ mishaps = 0

-----------------------------------------------------------------------------
(* _ensure_worker: a queue of one and its worker on a partition's first      *)
(* delivery; a dead worker's queue is still the partition's queue.           *)
_ensure_worker(p) ==
    IF workers[p] # 0 THEN [task |-> workers[p], tasks |-> tasks]
    ELSE [task |-> Len(tasks) + 1,
          tasks |-> Append(tasks, [partition |-> p, queue |-> <<>>, at |-> "getting",
                                   item |-> Stop, sentinel |-> FALSE, gathered |-> FALSE])]

(* The source yields the next delivery and run() starts to put it.           *)
Deliver(p) ==
    /\ phase = "iterating" /\ putting = {}
    /\ p \in owned /\ position[p] < LogLength[p]
    /\ LET w == _ensure_worker(p) IN
         /\ tasks' = w.tasks
         /\ workers' = [workers EXCEPT ![p] = w.task]
         /\ putting' = {[task |-> w.task, item |-> position[p]]}
    /\ position' = [position EXCEPT ![p] = @ + 1]
    /\ UNCHANGED <<owned, offset, handled, permits, revoking, phase, rebalances, mishaps>>

(* queue.put returns once the queue of one has room; nothing else is         *)
(* dispatched meanwhile.                                                     *)
Put ==
    /\ phase = "iterating"
    /\ \E d \in putting :
         /\ tasks[d.task].queue = <<>>
         /\ tasks' = [tasks EXCEPT ![d.task].queue = <<d.item>>]
    /\ putting' = {}
    /\ UNCHANGED <<owned, position, offset, handled, workers, permits, revoking, phase,
                   rebalances, mishaps>>

Get(t) ==
    /\ tasks[t].at = "getting" /\ tasks[t].queue # <<>>
    /\ tasks' = [tasks EXCEPT ![t].queue = <<>>, ![t].item = Head(tasks[t].queue),
                              ![t].at = IF Head(tasks[t].queue) = Stop THEN "done" ELSE "acquiring"]
    /\ UNCHANGED <<owned, position, offset, handled, workers, permits, putting, revoking,
                   phase, rebalances, mishaps>>

Acquire(t) ==
    /\ tasks[t].at = "acquiring" /\ permits > 0
    /\ tasks' = [tasks EXCEPT ![t].at = "processing"]
    /\ permits' = permits - 1
    /\ UNCHANGED <<owned, position, offset, handled, workers, putting, revoking, phase,
                   rebalances, mishaps>>

(* process() succeeds: the offset after the delivery's is committed, which   *)
(* the client refuses for a partition it does not hold.                      *)
Processed(t) ==
    LET p == tasks[t].partition IN
    /\ tasks[t].at = "processing" /\ p \in owned
    /\ offset' = [offset EXCEPT ![p] = tasks[t].item + 1]
    /\ handled' = [handled EXCEPT ![p] = @ \cup {tasks[t].item}]
    /\ tasks' = [tasks EXCEPT ![t].at = "getting", ![t].item = Stop]
    /\ permits' = permits + 1
    /\ UNCHANGED <<owned, position, workers, putting, revoking, phase, rebalances, mishaps>>

(* complete() no longer finds the claim, whose lease ran out: process()      *)
(* returns without a commit, and the worker goes on to the next delivery.    *)
ClaimLost(t) ==
    LET p == tasks[t].partition IN
    /\ tasks[t].at = "processing" /\ mishaps < MaxMishaps /\ mishaps' = mishaps + 1
    /\ handled' = [handled EXCEPT ![p] = @ \cup {tasks[t].item}]
    /\ tasks' = [tasks EXCEPT ![t].at = "getting", ![t].item = Stop]
    /\ permits' = permits + 1
    /\ UNCHANGED <<owned, position, offset, workers, putting, revoking, phase,
                   rebalances>>

after_raise_continuing == "getting"

(* An exception of process() ends the worker.                                *)
after_raise == "failed"

Raised(t) ==
    /\ tasks[t].at = "processing"
    /\ \/ tasks[t].partition \notin owned /\ UNCHANGED mishaps
       \/ mishaps < MaxMishaps /\ mishaps' = mishaps + 1
    /\ tasks' = [tasks EXCEPT ![t].at = after_raise, ![t].item = Stop]
    /\ permits' = permits + 1
    /\ UNCHANGED <<owned, position, offset, handled, workers, putting, revoking, phase,
                   rebalances>>

-----------------------------------------------------------------------------
ended(ts, chosen) ==
    [t \in DOMAIN ts |-> IF t \in chosen /\ ts[t].at \in Live
                         THEN [ts[t] EXCEPT !.at = "cancelled", !.item = Stop] ELSE ts[t]]

freed_unless_processing(chosen) == 0

(* `async with` gives the permit back when its body is cancelled.            *)
freed(chosen) == Cardinality({t \in chosen : tasks[t].at = "processing"})

(* worker.cancel() and the await of it.                                      *)
Cancel(chosen) ==
    /\ tasks' = ended(tasks, chosen)
    /\ permits' = permits + freed(chosen)

-----------------------------------------------------------------------------
(* A rebalance takes partitions away and calls the listener.                 *)
Rebalance ==
    /\ phase \in {"iterating", "draining"} /\ revoking = {} /\ rebalances < MaxRebalances
    /\ \E lost \in SUBSET owned :
         /\ lost # {}
         /\ owned' = owned \ lost
         /\ revoking' = lost
    /\ rebalances' = rebalances + 1
    /\ UNCHANGED <<position, offset, handled, tasks, workers, permits, putting, phase, mishaps>>

(* on_partitions_revoked calls the handler partition by partition; the       *)
(* exception of a worker that had failed ends the loop.                      *)
left_to_revoke(p) ==
    IF workers[p] # 0 /\ tasks[workers[p]].at = "failed" THEN {} ELSE revoking \ {p}

on_revoked_uncancelled(p) ==
    /\ workers' = [workers EXCEPT ![p] = 0]
    /\ UNCHANGED <<tasks, permits>>

_on_revoked(p) ==
    /\ workers' = [workers EXCEPT ![p] = 0]
    /\ Cancel({workers[p]} \ {0})

Revoked ==
    /\ phase \in {"iterating", "draining"}
    /\ \E p \in revoking :
         /\ _on_revoked(p)
         /\ revoking' = left_to_revoke(p)
    /\ UNCHANGED <<owned, position, offset, handled, putting, phase, rebalances, mishaps>>

(* The new owner works on from the committed offset.                         *)
OtherMember(p) ==
    /\ phase \in {"iterating", "draining"}
    /\ p \notin owned /\ p \notin revoking /\ offset[p] < LogLength[p]
    /\ handled' = [handled EXCEPT ![p] = @ \cup {offset[p]}]
    /\ offset' = [offset EXCEPT ![p] = @ + 1]
    /\ UNCHANGED <<owned, position, tasks, workers, permits, putting, revoking, phase,
                   rebalances, mishaps>>

(* The partition comes back: fetching resumes at the committed offset.       *)
Assigned(p) ==
    /\ phase = "iterating" /\ p \notin owned /\ revoking = {}
    /\ owned' = owned \cup {p}
    /\ position' = [position EXCEPT ![p] = offset[p]]
    /\ UNCHANGED <<offset, handled, tasks, workers, permits, putting, revoking, phase,
                   rebalances, mishaps>>

-----------------------------------------------------------------------------
(* The workers run() stops: the registered ones, which _drain has taken over *)
(* and unregistered once it runs.                                            *)
Stopping ==
    IF phase = "draining" THEN {t \in DOMAIN tasks : tasks[t].gathered}
    ELSE {workers[p] : p \in Partition} \ {0}

(* The source is exhausted or stopped: _drain unregisters every worker and   *)
(* posts each queue's sentinel as a task of its own.                         *)
Exhausted ==
    /\ phase = "iterating" /\ putting = {}
    /\ phase' = "draining"
    /\ tasks' = [t \in DOMAIN tasks |->
                   IF t \in Stopping THEN [tasks[t] EXCEPT !.sentinel = TRUE, !.gathered = TRUE]
                   ELSE tasks[t]]
    /\ workers' = [p \in Partition |-> 0]
    /\ UNCHANGED <<owned, position, offset, handled, permits, putting, revoking, rebalances, mishaps>>

PutSentinel(t) ==
    /\ phase = "draining" /\ tasks[t].sentinel /\ tasks[t].queue = <<>>
    /\ tasks' = [tasks EXCEPT ![t].queue = <<Stop>>, ![t].sentinel = FALSE]
    /\ UNCHANGED <<owned, position, offset, handled, workers, permits, putting, revoking,
                   phase, rebalances, mishaps>>

gathering_after_puts == phase = "draining" /\ \A t \in DOMAIN tasks : ~tasks[t].sentinel

(* gather waits for the workers while the sentinels may still be on the way. *)
gathering == phase = "draining"

Drained ==
    /\ gathering /\ \A t \in Stopping : tasks[t].at = "done"
    /\ phase' = "ended"
    /\ UNCHANGED <<owned, position, offset, handled, tasks, workers, permits, putting,
                   revoking, rebalances, mishaps>>

(* gather raises the first failure; the other workers are cancelled.         *)
DrainFails ==
    /\ gathering /\ \E t \in Stopping : tasks[t].at = "failed"
    /\ Cancel(Stopping)
    /\ phase' = "raised"
    /\ UNCHANGED <<owned, position, offset, handled, workers, putting, revoking, rebalances, mishaps>>

(* A signal cancels run(): while dispatching, _abort cancels every worker;   *)
(* while draining, the cancelled gather does.                                *)
Signal ==
    /\ phase \in {"iterating", "draining"}
    /\ Cancel(Stopping)
    /\ phase' = "raised" /\ putting' = {}
    /\ UNCHANGED <<owned, position, offset, handled, workers, revoking, rebalances, mishaps>>

WorkerStep(t) ==
    Get(t) \/ Acquire(t) \/ Processed(t) \/ ClaimLost(t) \/ Raised(t) \/ PutSentinel(t)

DispatchNext ==
    \/ \E p \in Partition : Deliver(p) \/ OtherMember(p) \/ Assigned(p)
    \/ \E t \in DOMAIN tasks : WorkerStep(t)
    \/ Put \/ Rebalance \/ Revoked \/ Exhausted \/ Drained \/ DrainFails \/ Signal

-----------------------------------------------------------------------------
(* The committed offset passes only what a member brought to the end and     *)
(* what lost its claim: an intent whose processing raised, was cancelled by  *)
(* a rebalance or sat in a dead queue is delivered again to whoever owns the *)
(* partition next.  What lost its claim is passed by the next delivery's     *)
(* commit, whether or not anybody claimed it since.                          *)
NothingSkipped == \A p \in Partition : 0..(offset[p] - 1) \subseteq handled[p]

(* The semaphore's permits are all accounted for, whichever way a worker     *)
(* leaves its intent: a permit lost with a cancelled worker would shrink the *)
(* effector for good.                                                        *)
PermitsBalance ==
    permits + Cardinality({t \in DOMAIN tasks : tasks[t].at = "processing"}) = MaxPartitions

(* A partition's intents are processed one at a time, across the rebalances  *)
(* that take it away and bring it back.                                      *)
OneWorkerPerPartition ==
    \A p \in Partition : Cardinality({t \in DOMAIN tasks : tasks[t].partition = p
                                                           /\ tasks[t].at \in Live}) <= 1

(* What run() waits for comes: a put gets through, unless the full queue is  *)
(* that of a worker that has died or was revoked, and a drain ends, with a   *)
(* dead worker's queue full or not.                                          *)
Wedged == \E d \in putting : tasks[d.task].at \notin Live /\ tasks[d.task].queue # <<>>
Awaiting == putting # {} \/ phase = "draining"

RunGetsOn == Awaiting ~> ~Awaiting \/ Wedged
=============================================================================
