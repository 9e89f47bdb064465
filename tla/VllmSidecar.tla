---------------------------- MODULE VllmSidecar ----------------------------
(***************************************************************************)
(* The in-process vLLM engine (model/vllm.py): DoFn instances of a worker  *)
(* share one weakly held handle, whose engine is built lazily on the       *)
(* handle's own loop thread, probed under a deadline in setup() and shut   *)
(* down by a finalizer when the last reference goes.  A coroutine on the   *)
(* engine loop holds the handle as much as a provider does.                *)
(***************************************************************************)
EXTENDS Integers, Sequences, FiniteSets

CONSTANTS
    Instances,      \* DoFn instances of the worker process
    MaxSetups,      \* bound: setup() calls
    MaxGenerations  \* bound: requests

ASSUME SidecarAssumption == MaxSetups \in Nat /\ MaxGenerations \in Nat

VARIABLES
    holder,     \* per instance: [at, handle, on]: the handle it holds and the
                \*   coroutine it waits for, 0 for none
    handles,    \* every _EngineHandle constructed: [engine, builds, dead, by], by
                \*   the instance whose thread made it, or shuts it down
    current,    \* the handle Shared remembers weakly, 0 for none
    coroutines, \* on an engine loop: [id, by, handle, kind, at]
    setups, generations

sidecarVars == <<holder, handles, current, coroutines, setups, generations>>

SidecarInit ==
    /\ holder = [d \in Instances |-> [at |-> "off", handle |-> 0, on |-> 0]]
    /\ handles = <<>> /\ current = 0 /\ coroutines = {} /\ setups = 0 /\ generations = 0

Held(h, holders, running) ==
    (\E d \in Instances : holders[d].handle = h) \/ \E c \in running : c.handle = h

-----------------------------------------------------------------------------
acquire_own(h) == Len(handles) + 1

(* Shared.acquire: the handle every instance resolves to while it is alive.  *)
acquire(h) == IF h # 0 /\ ~handles[h].dead THEN h ELSE Len(handles) + 1

(* VllmSidecarProvider.__init__: acquire the handle, submit the probe.       *)
Setup(d) ==
    /\ holder[d].at = "off" /\ setups < MaxSetups
    /\ \A h \in DOMAIN handles : handles[h].engine = "closing" => handles[h].by # d
    /\ LET h == acquire(current) IN
         /\ handles' = IF h \in DOMAIN handles THEN handles
                       ELSE Append(handles, [engine |-> "none", builds |-> 0, dead |-> FALSE, by |-> d])
         /\ current' = h
         /\ holder' = [holder EXCEPT ![d] = [at |-> "probing", handle |-> h, on |-> setups + 1]]
         /\ coroutines' = coroutines \cup {[id |-> setups + 1, by |-> d, handle |-> h,
                                            kind |-> "probe", at |-> "queued"]}
    /\ setups' = setups + 1
    /\ UNCHANGED generations

(* complete(): a generation is submitted to the engine loop.                 *)
Complete(d) ==
    /\ holder[d].at = "ready" /\ generations < MaxGenerations
    /\ generations' = generations + 1
    /\ coroutines' = coroutines \cup {[id |-> MaxSetups + generations + 1, by |-> d,
                                       handle |-> holder[d].handle, kind |-> "generate",
                                       at |-> "queued"]}
    /\ holder' = [holder EXCEPT ![d].at = "waiting", ![d].on = MaxSetups + generations + 1]
    /\ UNCHANGED <<handles, current, setups>>

-----------------------------------------------------------------------------
Moved(c, step) == (coroutines \ {c}) \cup {[c EXCEPT !.at = step]}

loop_is_free_at_awaits(h) == TRUE

(* The engine loop runs one coroutine at a time, and _ensure_engine has no   *)
(* await between its check and its store.                                    *)
loop_is_free(h) == ~\E c \in coroutines : c.handle = h /\ c.at = "building"

(* _ensure_engine: build the engine unless the cell holds one.               *)
Ensure(c) ==
    /\ c.at = "queued" /\ loop_is_free(c.handle)
    /\ coroutines' = Moved(c, IF handles[c.handle].engine = "none" THEN "building" ELSE "running")
    /\ UNCHANGED <<holder, handles, current, setups, generations>>

Built(c) ==
    /\ c.at = "building"
    /\ handles' = [handles EXCEPT ![c.handle].engine = "up", ![c.handle].builds = @ + 1]
    /\ coroutines' = Moved(c, "running")
    /\ UNCHANGED <<holder, current, setups, generations>>

(* _shutdown_engine: a thread of an instance waits for the engine to close,  *)
(* and other instances go on in the meantime; the engine thread waits for a  *)
(* loop it is itself blocking, gives up and stops the loop with the engine   *)
(* never closed.                                                             *)
finalized(h, hs, where, d) ==
    [hs EXCEPT ![h].dead = TRUE,
               ![h].by = d,
               ![h].engine = CASE @ = "none" -> "none"
                               [] @ # "none" /\ where = "engine thread" -> "abandoned"
                               [] OTHER -> "closing"]

released_with_holder(h, holders, running, where, d) == finalized(h, handles, where, d)

(* The finalizer runs with the last reference, on the thread that drops it.  *)
released(h, holders, running, where, d) ==
    IF Held(h, holders, running) THEN handles ELSE finalized(h, handles, where, d)

(* The engine has closed, or the grace is over: the loop stops.              *)
ShutDown(h) ==
    /\ handles[h].engine = "closing"
    /\ handles' = [handles EXCEPT ![h].engine = "closed"]
    /\ UNCHANGED <<holder, current, coroutines, setups, generations>>

(* A coroutine ends: its caller, when it still waits, has its outcome.  The  *)
(* factory or the probe may have raised.                                     *)
Ends(c, ok) ==
    LET running == coroutines \ {c}
        waits == holder[c.by].on = c.id
        holders == IF ~waits THEN holder
                   ELSE IF ok \/ c.kind = "generate" THEN [holder EXCEPT ![c.by].at = "ready", ![c.by].on = 0]
                   ELSE [holder EXCEPT ![c.by] = [at |-> "failed", handle |-> 0, on |-> 0]]
    IN  /\ holder' = holders /\ coroutines' = running
        /\ handles' = IF c.kind = "probe" /\ waits /\ ~ok
                      THEN released(c.handle, holders, running, "setup thread", c.by)
                      ELSE released(c.handle, holders, running, "engine thread", c.by)
        /\ UNCHANGED <<current, setups, generations>>

Answered(c) == c.at = "running" /\ Ends(c, TRUE)
BuildRaises(c) == c.at = "building" /\ Ends(c, FALSE)
EngineRaises(c) == c.at = "running" /\ Ends(c, FALSE)

(* probe.result(timeout): setup fails and drops its reference; the cancelled *)
(* coroutine ends at its next await, not before a build is over.             *)
ProbeTimesOut(d) ==
    /\ holder[d].at = "probing"
    /\ holder' = [holder EXCEPT ![d] = [at |-> "failed", handle |-> 0, on |-> 0]]
    /\ handles' = released(holder[d].handle, holder', coroutines, "setup thread", d)
    /\ UNCHANGED <<current, coroutines, setups, generations>>

(* wait_for: the request fails, its coroutine is cancelled the same way.     *)
RequestTimesOut(d) ==
    /\ holder[d].at = "waiting"
    /\ holder' = [holder EXCEPT ![d].at = "ready", ![d].on = 0]
    /\ UNCHANGED <<handles, current, coroutines, setups, generations>>

(* teardown() drops the provider; the runner sets a failed instance up again *)
(* as a new one.                                                             *)
Teardown(d) ==
    /\ holder[d].at \in {"ready", "failed"}
    /\ holder' = [holder EXCEPT ![d] = [at |-> "off", handle |-> 0, on |-> 0]]
    /\ handles' = IF holder[d].handle = 0 THEN handles
                  ELSE released(holder[d].handle, holder', coroutines, "bundle thread", d)
    /\ UNCHANGED <<current, coroutines, setups, generations>>

SidecarNext ==
    \/ \E d \in Instances : \/ Setup(d) \/ Complete(d) \/ ProbeTimesOut(d)
                            \/ RequestTimesOut(d) \/ Teardown(d)
    \/ \E c \in coroutines : \/ Ensure(c) \/ Built(c) \/ Answered(c)
                             \/ BuildRaises(c) \/ EngineRaises(c)
    \/ \E h \in DOMAIN handles : ShutDown(h)

-----------------------------------------------------------------------------
(* Concurrent probes and requests never build a handle's engine twice.       *)
BuiltOnce == \A h \in DOMAIN handles : handles[h].builds <= 1

(* The instances of a process share one live handle, through failed setups,  *)
(* teardowns and new setups.  An engine being closed, or abandoned, may      *)
(* still be in memory beside it.                                             *)
OneLiveHandle == Cardinality({h \in DOMAIN handles : ~handles[h].dead}) <= 1

(* An instance that is ready has an engine that is up, whoever was torn down *)
(* or timed out in the meantime.                                             *)
HeldEngineIsUp ==
    \A d \in Instances : holder[d].at \in {"ready", "waiting"} => handles[holder[d].handle].engine = "up"

(* One engine serves a process, is built once and is up for whoever holds    *)
(* it, through failed setups, teardowns and new setups.                      *)
OneEngineServes == BuiltOnce /\ OneLiveHandle /\ HeldEngineIsUp
=============================================================================
