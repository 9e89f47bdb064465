----------------------------- MODULE MCRuntime -----------------------------
(* The processes around the agent, side by side: a behaviour is one of the   *)
(* effector's dispatcher, of the pipeline's intent outbox, of the vLLM       *)
(* sidecar, of the async bridge, of the effector's result sinks, or of its   *)
(* Pub/Sub source.                                                           *)
EXTENDS EffectorDispatch, IntentOutbox, VllmSidecar, AsyncBridge, ResultSink, PubSubSource

VARIABLE part

MCLog == [p \in {0, 1} |-> IF p = 0 THEN 3 ELSE 1]
MCMessages == [k \in {1, 2} |-> IF k = 1 THEN 2 ELSE 1]

Staged(i, k) == [id |-> i, key |-> k, fits |-> TRUE, serializes |-> TRUE]
MCOutboxes ==
    {{},
     {Staged(1, 1), Staged(2, 1)}, {Staged(1, 1), Staged(2, 2)},
     {[Staged(1, 1) EXCEPT !.serializes = FALSE], [Staged(2, 2) EXCEPT !.fits = FALSE]}}

Init ==
    /\ part \in {"dispatch", "outbox", "sidecar", "bridge", "sink", "source"}
    /\ DispatchInit /\ OutboxInit /\ SidecarInit /\ BridgeInit /\ ResultInit /\ SourceInit
    /\ (part = "outbox") = (outbox # {})
    /\ part = "sink" \/ transport = "kafka"
    /\ part = "bridge" \/ ~configured

Next ==
    /\ UNCHANGED part
    /\ \/ /\ part = "dispatch" /\ DispatchNext
          /\ UNCHANGED <<outboxVars, sidecarVars, bridgeVars, resultVars, sourceVars>>
       \/ /\ part = "outbox" /\ OutboxNext
          /\ UNCHANGED <<dispatchVars, sidecarVars, bridgeVars, resultVars, sourceVars>>
       \/ /\ part = "sidecar" /\ SidecarNext
          /\ UNCHANGED <<dispatchVars, outboxVars, bridgeVars, resultVars, sourceVars>>
       \/ /\ part = "bridge" /\ BridgeNext
          /\ UNCHANGED <<dispatchVars, outboxVars, sidecarVars, resultVars, sourceVars>>
       \/ /\ part = "sink" /\ ResultNext
          /\ UNCHANGED <<dispatchVars, outboxVars, sidecarVars, bridgeVars, sourceVars>>
       \/ /\ part = "source" /\ SourceNext
          /\ UNCHANGED <<dispatchVars, outboxVars, sidecarVars, bridgeVars, resultVars>>

(* The event loop runs a coroutine whose await is over; the broker's         *)
(* coordinator finishes a rebalance; Pub/Sub answers an ordered publish.     *)
Dispatching(A) ==
    part = "dispatch" /\ A /\ UNCHANGED <<part, outboxVars, sidecarVars, bridgeVars, resultVars, sourceVars>>
Publishing(A) ==
    part = "outbox" /\ A /\ UNCHANGED <<part, dispatchVars, sidecarVars, bridgeVars, resultVars, sourceVars>>

\* The worker tasks a run of these bounds starts are at most four: one per
\* partition, and one more for each after a rebalance.
Running == Put \/ Drained \/ DrainFails \/ \E p \in Partition : Deliver(p)

Fairness ==
    /\ WF_dispatchVars(Dispatching(Running))
    /\ WF_dispatchVars(Dispatching(Revoked))
    /\ \A t \in 1..4 :
           WF_dispatchVars(Dispatching(t \in DOMAIN tasks /\ WorkerStep(t)))
    /\ WF_outboxVars(Publishing(TakeBundle \/ SerializeFails \/ Publish \/ KeyTooLong \/ FinishFails \/ FinishBundle))
    /\ \A k \in {1, 2} : WF_outboxVars(Publishing(Acknowledge(k)))

Spec ==
    /\ Init
    /\ [][Next]_<<part, dispatchVars, outboxVars, sidecarVars, bridgeVars, resultVars, sourceVars>>
    /\ Fairness

(* The effector process commits past an intent only when a member brought it *)
(* to the end or found its claim lapsed, and keeps each partition's and each *)
(* key's order, through rebalances, dying workers, redeliveries, a broker    *)
(* that refuses and a producer that does not start (effector/service.py,     *)
(* sources.py, sinks.py).                                                    *)
EffectorKeepsOrder ==
    /\ NothingSkipped /\ PermitsBalance /\ OneWorkerPerPartition
    /\ KeyOrderKept /\ SendsFollowStart /\ BudgetIsSpent

(* The two event loops a worker runs in threads of their own serve whoever   *)
(* submits to them: one vLLM engine, up while it is held, and one activation *)
(* at a time (model/vllm.py, _EngineHandle; core/bridge.py, AsyncBridge).    *)
LoopThreadsServe == OneEngineServes /\ BridgeIsSafe

(* Under a fair event loop, coordinator and broker the processes get on: a   *)
(* drain ends and what is put gets through, unless it waits on the full      *)
(* queue of a worker that died or was revoked, and an outbox whose keys all  *)
(* fit empties.                                                              *)
ProcessesProgress == RunGetsOn /\ OutboxDrains
=============================================================================
