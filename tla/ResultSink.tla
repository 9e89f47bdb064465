----------------------------- MODULE ResultSink -----------------------------
(***************************************************************************)
(* The effector's way out (effector/sinks.py and _with_retry of            *)
(* effector/service.py): the workers of several partitions publish through *)
(* one sink, over a Kafka producer started on first use or over a Pub/Sub  *)
(* client that pauses an ordering key when a publish on it fails.  The     *)
(* broker and the client libraries are external.                           *)
(***************************************************************************)
EXTENDS Integers, Sequences, FiniteSets

CONSTANTS
    Publishers,     \* the partitions' workers; each publishes under its own key
    Results,        \* results each of them has to publish
    MaxAttempts,    \* EffectorConfig.publish_max_attempts
    MaxRejections   \* bound: publishes the broker rejects, starts that fail

ASSUME ResultSinkAssumption ==
    Results \in Nat /\ MaxAttempts \in Nat \ {0} /\ MaxRejections \in Nat

VARIABLES
    transport,      \* "kafka" or "pubsub"
    publisher,      \* per worker: [at, result, attempt, refused, unstarted]
    producer,       \* [flag, starts, up]: _started, start() calls, ready
    paused_keys,    \* Pub/Sub: workers whose ordering key is paused
    log,            \* per worker: the results in the topic
    rejections

resultVars == <<transport, publisher, producer, paused_keys, log, rejections>>

ResultInit ==
    /\ transport \in {"kafka", "pubsub"}
    /\ publisher = [w \in Publishers |-> [at |-> "idle", result |-> 1, attempt |-> 1, refused |-> 0,
                                        unstarted |-> 0]]
    /\ producer = [flag |-> FALSE, starts |-> 0, up |-> FALSE]
    /\ paused_keys = {} /\ log = [w \in Publishers |-> <<>>] /\ rejections = 0

-----------------------------------------------------------------------------
At(w, step) == [publisher EXCEPT ![w].at = step]

flag_before_start == [producer EXCEPT !.flag = TRUE, !.starts = @ + 1]

(* _ensure_started calls start() and sets the flag only when it returns: a   *)
(* second worker may call it meanwhile.                                      *)
starting == [producer EXCEPT !.starts = @ + 1]

(* publish(): straight to the broker once started.                           *)
BeginPublish(w) ==
    /\ publisher[w].at = "idle" /\ publisher[w].result <= Results
    /\ IF transport = "kafka" /\ ~producer.flag
       THEN producer' = starting /\ publisher' = At(w, "starting")
       ELSE UNCHANGED producer /\ publisher' = At(w, "sending")
    /\ UNCHANGED <<transport, paused_keys, log, rejections>>

Started(w) ==
    /\ publisher[w].at = "starting"
    /\ producer' = [producer EXCEPT !.flag = TRUE, !.up = TRUE]
    /\ publisher' = At(w, "sending")
    /\ UNCHANGED <<transport, paused_keys, log, rejections>>

(* The broker acknowledges: the result is durable, the offset may follow.    *)
Accept(w) ==
    /\ publisher[w].at = "sending" /\ w \notin paused_keys
    /\ log' = [log EXCEPT ![w] = Append(@, publisher[w].result)]
    /\ publisher' = [publisher EXCEPT ![w] = [at |-> "idle", result |-> @.result + 1,
                                              attempt |-> 1, refused |-> 0, unstarted |-> 0]]
    /\ UNCHANGED <<transport, producer, paused_keys, rejections>>

gives_up_early(p) == p.attempt + 1 >= MaxAttempts

(* _with_retry: the budget is spent with the last attempt.                   *)
gives_up(p) == p.attempt >= MaxAttempts

(* An attempt fails: another one after the backoff, or PublishFailedError.   *)
AttemptFails(w, refused, unstarted) ==
    LET p == [publisher[w] EXCEPT !.refused = @ + refused, !.unstarted = @ + unstarted] IN
    publisher' = [publisher EXCEPT ![w] = IF gives_up(p) THEN [p EXCEPT !.at = "raised"]
                                          ELSE [p EXCEPT !.at = "idle", !.attempt = @ + 1]]

(* start() raises: the attempt is spent before anything was sent.            *)
StartFails(w) ==
    /\ publisher[w].at = "starting" /\ rejections < MaxRejections
    /\ AttemptFails(w, 0, 1)
    /\ rejections' = rejections + 1
    /\ UNCHANGED <<transport, producer, paused_keys, log>>

(* The broker rejects the publish; the Pub/Sub client pauses the key, and    *)
(* nothing in the sink resumes it.                                           *)
Refuse(w) ==
    /\ publisher[w].at = "sending" /\ w \notin paused_keys /\ rejections < MaxRejections
    /\ AttemptFails(w, 1, 0)
    /\ paused_keys' = IF transport = "pubsub" THEN paused_keys \cup {w} ELSE paused_keys
    /\ rejections' = rejections + 1
    /\ UNCHANGED <<transport, producer, log>>

RefusedByClient(w) ==
    /\ publisher[w].at = "sending" /\ w \in paused_keys
    /\ AttemptFails(w, 0, 0)
    /\ UNCHANGED <<transport, producer, paused_keys, log, rejections>>

ResultNext ==
    \E w \in Publishers :
        \/ BeginPublish(w) \/ Started(w) \/ StartFails(w)
        \/ Accept(w) \/ Refuse(w) \/ RefusedByClient(w)

-----------------------------------------------------------------------------
(* No worker hands a record to a producer that is not up, though several may *)
(* find it not started at once.                                              *)
SendsFollowStart ==
    transport = "kafka" /\ (\E w \in Publishers : publisher[w].at = "sending") => producer.up

(* Over Kafka a worker gives a result up, and dies of it, only when the      *)
(* broker refused it, or the producer failed to start for it, as often as    *)
(* the budget allows.                                                        *)
BudgetIsSpent ==
    \A w \in Publishers : transport = "kafka" /\ publisher[w].at = "raised"
                              => publisher[w].refused + publisher[w].unstarted = MaxAttempts
=============================================================================
