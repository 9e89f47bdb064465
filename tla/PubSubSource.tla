---------------------------- MODULE PubSubSource ----------------------------
(* The effector on a Pub/Sub subscription with message ordering              *)
(* (effector/sources.py, PubSubIntentSource; effector/service.py, run and    *)
(* _worker).  The client's threads hand deliveries to the event loop through *)
(* a bounded queue; the dispatcher feeds one worker per ordering key; a      *)
(* message is acked once its intent was processed to its end.  The service    *)
(* withholds the next message of a key until then, and delivers again what   *)
(* was not acked before its lease ran out.                                   *)
EXTENDS Naturals, Sequences, FiniteSets

CONSTANTS OrderingKeys, Messages,  \* per key: its messages are 1..Messages[k]
          MaxQueued,               \* PubSubIntentSource's max_queued
          MaxCopies                \* bound: deliveries of one message

ASSUME SourceAssumption ==
    Messages \in [OrderingKeys -> Nat] /\ MaxQueued \in Nat \ {0} /\ MaxCopies \in Nat \ {0}

VARIABLES acked,      \* per key: how many messages, in order, were acked
          lease,      \* per key: the delivery the service waits for, or none
          copies,     \* per key: deliveries of the message it is at
          callbacks,  \* deliveries whose thread waits for room in the queue
          queue,      \* deliveries the dispatcher has still to take
          feeding,    \* the delivery the dispatcher is putting, or none
          worker,     \* per key: its task, its queue of one, its delivery
          started, finished  \* the messages whose processing began, and ended

sourceVars == <<acked, lease, copies, callbacks, queue, feeding, worker, started, finished>>

NoneYet == "none"

DeliveredIntent(k, n, c) == [partition |-> k, intent |-> n, handle |-> c]

SourceInit ==
    /\ acked = [k \in OrderingKeys |-> 0]
    /\ lease = [k \in OrderingKeys |-> {}]
    /\ copies = [k \in OrderingKeys |-> 0]
    /\ callbacks = {} /\ queue = <<>> /\ feeding = {}
    /\ worker = [k \in OrderingKeys |-> [at |-> NoneYet, queue |-> <<>>, on |-> {}]]
    /\ started = {} /\ finished = {}
-----------------------------------------------------------------------------
(* The subscription.                                                         *)

\* A mistake: acking what the callback has handed on.
acks_at_callback_early == TRUE

\* The callback leaves the ack to commit.
acks_at_callback == FALSE

\* An ack of a delivery whose lease ran out may or may not count.
ack(d, counted) ==
    /\ acked' = [acked EXCEPT ![d.partition] =
                     IF counted /\ d.intent = @ + 1 THEN d.intent ELSE @]
    /\ lease' = [lease EXCEPT ![d.partition] =
                     IF counted /\ d.intent = acked[d.partition] + 1 THEN {} ELSE @]
    /\ copies' = [copies EXCEPT ![d.partition] =
                     IF counted /\ d.intent = acked[d.partition] + 1 THEN 0 ELSE @]

Offer(k) ==
    /\ lease[k] = {} /\ acked[k] < Messages[k] /\ copies[k] < MaxCopies
    /\ LET d == DeliveredIntent(k, acked[k] + 1, copies[k] + 1)
       IN /\ lease' = [lease EXCEPT ![k] = {d}]
          /\ callbacks' = callbacks \cup {d}
    /\ copies' = [copies EXCEPT ![k] = @ + 1]
    /\ UNCHANGED <<acked, queue, feeding, worker, started, finished>>

LeaseRunsOut(k) ==
    /\ lease[k] # {} /\ copies[k] < MaxCopies
    /\ lease' = [lease EXCEPT ![k] = {}]
    /\ UNCHANGED <<acked, copies, callbacks, queue, feeding, worker, started, finished>>
-----------------------------------------------------------------------------
(* The client's thread blocks until the loop has put its delivery.           *)
_on_message(d) ==
    /\ d \in callbacks /\ Len(queue) < MaxQueued
    /\ callbacks' = callbacks \ {d}
    /\ queue' = Append(queue, d)
    /\ IF acks_at_callback THEN ack(d, TRUE) ELSE UNCHANGED <<acked, lease, copies>>
    /\ UNCHANGED <<feeding, worker, started, finished>>

\* run: the next delivery, for the worker of its key, started if there is none.
__aiter__ ==
    /\ feeding = {} /\ queue # <<>>
    /\ feeding' = {Head(queue)} /\ queue' = Tail(queue)
    /\ worker' = [worker EXCEPT ![Head(queue).partition].at = IF @ = NoneYet THEN "getting" ELSE @]
    /\ UNCHANGED <<acked, lease, copies, callbacks, started, finished>>

Feed ==
    /\ \E d \in feeding :
           /\ worker[d.partition].queue = <<>>
           /\ worker' = [worker EXCEPT ![d.partition].queue = <<d>>]
    /\ feeding' = {}
    /\ UNCHANGED <<acked, lease, copies, callbacks, queue, started, finished>>

Take(k) ==
    /\ worker[k].at = "getting" /\ worker[k].queue # <<>>
    /\ LET d == Head(worker[k].queue)
       IN /\ worker' = [worker EXCEPT ![k] = [at |-> "processing", queue |-> <<>>, on |-> {d}]]
          /\ started' = started \cup {<<k, d.intent>>}
    /\ UNCHANGED <<acked, lease, copies, callbacks, queue, feeding, finished>>

\* process returns, having committed last: handle.ack().
commit(k) ==
    /\ worker[k].at = "processing"
    /\ \E d \in worker[k].on :
           /\ finished' = finished \cup {<<k, d.intent>>}
           /\ \E counted \in BOOLEAN : (d \in lease[k] => counted) /\ ack(d, counted)
    /\ worker' = [worker EXCEPT ![k].at = "getting", ![k].on = {}]
    /\ UNCHANGED <<callbacks, queue, feeding, started>>

\* complete() no longer finds the claim: process returns and acks nothing.
ClaimGone(k) ==
    /\ worker[k].at = "processing"
    /\ worker' = [worker EXCEPT ![k].at = "getting", ![k].on = {}]
    /\ UNCHANGED <<acked, lease, copies, callbacks, queue, feeding, started, finished>>

\* process raises: the worker is gone, its queue is not.
SourceWorkerDies(k) ==
    /\ worker[k].at = "processing"
    /\ worker' = [worker EXCEPT ![k].at = "failed", ![k].on = {}]
    /\ UNCHANGED <<acked, lease, copies, callbacks, queue, feeding, started, finished>>

SourceNext ==
    \/ \E k \in OrderingKeys : \/ Offer(k) \/ LeaseRunsOut(k) \/ Take(k) \/ commit(k)
                               \/ ClaimGone(k) \/ SourceWorkerDies(k)
    \/ \E d \in callbacks : _on_message(d)
    \/ __aiter__ \/ Feed
-----------------------------------------------------------------------------
\* A key's intents are first processed in their order, each after the one
\* before it was brought to its end, whatever was delivered twice, overtaken on
\* the client's threads or left behind by a dead worker (acking only after
\* publishing, PubSubIntentSource).
KeyOrderKept ==
    /\ \A s \in started : s[2] > 1 => <<s[1], s[2] - 1>> \in finished
    /\ \A k \in OrderingKeys : \A n \in 1..Messages[k] : n <= acked[k] => <<k, n>> \in finished
=============================================================================
