---------------------------- MODULE AsyncBridge ----------------------------
(***************************************************************************)
(* The async bridge of one DoFn instance (core/bridge.py, AsyncBridge)     *)
(* with its callers in core/dofn.py: the Beam thread submits a coroutine   *)
(* to the loop thread, waits for at most the activation timeout, cancels   *)
(* it and waits for at most the grace.  asyncio and concurrent.futures are *)
(* external: handles run in the order they were queued, a cancellation is  *)
(* thrown into a coroutine at its next step, and a future that was         *)
(* cancelled cancels the task it is chained to.  Clocks are left out: a    *)
(* wait with a timeout may run out whenever it waits.                      *)
(***************************************************************************)
EXTENDS Naturals, Sequences

CONSTANTS MaxSubmitted,   \* coroutines an instance runs before its teardown
          MaxWork         \* awaits of one coroutine, until it swallows a cancellation

ASSUME BridgeAssumption == MaxSubmitted \in Nat /\ MaxWork \in Nat

VARIABLES configured,  \* whether a long-term store is built at setup
          beam,        \* the Beam thread: [at, run]
          runs,        \* one record per AsyncBridge.run
          ready,       \* the loop's queue of handles: [do, run]
          loop         \* "off", "running", "stopping", "stopped", "closed"

bridgeVars == <<configured, beam, runs, ready, loop>>

Handle(do, n) == [do |-> do, run |-> n]
Queued(do, n) == \E i \in DOMAIN ready : ready[i] = Handle(do, n)

BridgeInit ==
    /\ configured \in BOOLEAN
    /\ beam = [at |-> "off", run |-> 0]
    /\ runs = <<>> /\ ready = <<>> /\ loop = "off"

-----------------------------------------------------------------------------
(* The Beam thread.                                                          *)

(* run_coroutine_threadsafe.  chained, graced and raced are history but for  *)
(* chained: whether the future has a task behind it, whether the coroutine   *)
(* outlived the grace, and whether it was started while it was given up.     *)
submitted(for) ==
    /\ runs' = Append(runs, [for |-> for, future |-> "pending", chained |-> FALSE,
                             holder |-> FALSE, task |-> "none", told |-> FALSE, deaf |-> FALSE,
                             work |-> 0, ends |-> "", said |-> "", graced |-> FALSE,
                             untasked |-> FALSE, raced |-> FALSE])
    /\ ready' = Append(ready, Handle("submit", Len(runs) + 1))
    /\ beam' = [at |-> "waiting", run |-> Len(runs) + 1]

(* setup: start, then build the store on the loop.                           *)
BridgeSetup ==
    /\ beam.at = "off"
    /\ loop' = "running"
    /\ IF configured THEN submitted("build")
       ELSE beam' = [beam EXCEPT !.at = "idle"] /\ UNCHANGED <<runs, ready>>
    /\ UNCHANGED configured

(* _run_activation, and the on_expire hook when there is a store.            *)
SubmitCoroutine(for) ==
    /\ beam.at = "idle"
    /\ for = "hook" => configured
    /\ Len(runs) < MaxSubmitted
    /\ submitted(for)
    /\ UNCHANGED <<configured, loop>>

(* teardown: close the store on the loop, then stop.                         *)
BridgeTeardown ==
    /\ beam.at = "idle"
    /\ IF configured THEN submitted("close")
       ELSE beam' = [beam EXCEPT !.at = "stopping"] /\ UNCHANGED <<runs, ready>>
    /\ UNCHANGED <<configured, loop>>

(* Where the caller of run goes on: a setup or teardown whose run raised     *)
(* raises in turn, and the loop is left running.                             *)
after_run(for, said) ==
    CASE for \in {"activation", "hook"} -> "idle"
      [] said # "returned" -> "failed"
      [] for = "build" -> "idle"
      [] for = "close" -> "stopping"

Leaves(r, said) ==
    /\ runs' = [runs EXCEPT ![beam.run] = [r EXCEPT !.said = said]]
    /\ beam' = [beam EXCEPT !.at = after_run(r.for, said)]

current_run == runs[beam.run]

(* future.result(timeout) has something to return or to raise.               *)
FutureAnswers ==
    /\ beam.at = "waiting" /\ current_run.future \notin {"pending", "timeout_error"}
    /\ Leaves(current_run, IF current_run.future = "returned" THEN "returned" ELSE "raised")
    /\ UNCHANGED <<configured, ready, loop>>

(* It raises TimeoutError: its own, or the coroutine's.                      *)
FutureTimesOut ==
    /\ beam.at = "waiting" /\ current_run.future \in {"pending", "timeout_error"}
    /\ beam' = [beam EXCEPT !.at = "expired"]
    /\ UNCHANGED <<configured, runs, ready, loop>>

CancelTask_undrained ==
    /\ beam.at = "expired" /\ current_run.holder
    /\ ready' = Append(ready, Handle("cancel", beam.run))
    /\ Leaves(current_run, "timeout")
    /\ UNCHANGED <<configured, loop>>

(* holder has the task: ask the loop to cancel it, and drain.                *)
CancelTask ==
    /\ beam.at = "expired" /\ current_run.holder
    /\ ready' = Append(ready, Handle("cancel", beam.run))
    /\ beam' = [beam EXCEPT !.at = "draining"]
    /\ UNCHANGED <<configured, runs, loop>>

(* holder.get finds no task.                                                 *)
FindNoTask ==
    /\ beam.at = "expired" /\ ~current_run.holder
    /\ beam' = [beam EXCEPT !.at = "untasked"]
    /\ UNCHANGED <<configured, runs, ready, loop>>

CancelFuture_forgotten ==
    /\ beam.at = "untasked"
    /\ Leaves([current_run EXCEPT !.untasked = ~current_run.holder, !.raced = current_run.holder], "timeout")
    /\ UNCHANGED <<configured, ready, loop>>

(* future.cancel() passes the cancellation on to the task behind the future, *)
(* if there is one.  The drain is over at once: the future is cancelled, or  *)
(* was done already.                                                         *)
CancelFuture ==
    /\ beam.at = "untasked"
    /\ LET r == current_run
           pending == r.future = "pending"
       IN  /\ Leaves([r EXCEPT !.future = IF pending THEN "cancelled" ELSE @,
                               !.untasked = ~r.holder, !.raced = r.holder], "timeout")
           /\ ready' = IF pending /\ r.chained
                       THEN Append(ready, Handle("cancel", beam.run)) ELSE ready
    /\ UNCHANGED <<configured, loop>>

(* The drain ends with the coroutine, or with the grace.                     *)
DrainOver ==
    /\ beam.at = "draining"
    /\ Leaves([current_run EXCEPT !.graced = current_run.future = "pending"], "timeout")
    /\ UNCHANGED <<configured, ready, loop>>

StopLoop ==
    /\ beam.at = "stopping"
    /\ ready' = Append(ready, Handle("stop", 0))
    /\ beam' = [beam EXCEPT !.at = "joining"]
    /\ UNCHANGED <<configured, runs, loop>>

(* join returns with the thread's end or without it; close raises when the   *)
(* loop still runs.                                                          *)
CloseLoop ==
    /\ beam.at = "joining"
    /\ IF loop = "stopped"
       THEN loop' = "closed" /\ beam' = [beam EXCEPT !.at = "closed"]
       ELSE beam' = [beam EXCEPT !.at = "failed"] /\ UNCHANGED loop
    /\ UNCHANGED <<configured, runs, ready>>

-----------------------------------------------------------------------------
(* The loop thread: one handle at a time.                                    *)
Turning == loop \in {"running", "stopping"}

Takes(do) == Turning /\ ready # <<>> /\ Head(ready).do = do
next_run == Head(ready).run
Requeue(handles) == ready' = Tail(ready) \o handles
Updates(r) == runs' = [runs EXCEPT ![next_run] = r]

(* The wrapper's task is created and the future chained to it.               *)
LoopSubmits ==
    /\ Takes("submit")
    /\ Updates([runs[next_run] EXCEPT !.chained = TRUE])
    /\ Requeue(<<Handle("wrapper", next_run)>> \o
               (IF runs[next_run].future = "cancelled" THEN <<Handle("cancel", next_run)>> ELSE <<>>))
    /\ UNCHANGED <<configured, beam, loop>>

(* _await_task: create the coroutine's task, put it in holder, await it.     *)
_await_task ==
    /\ Takes("wrapper")
    /\ Updates([runs[next_run] EXCEPT !.holder = TRUE, !.task = "ready"])
    /\ Requeue(<<Handle("step", next_run)>>)
    /\ UNCHANGED <<configured, beam, loop>>

(* task.cancel, directly or through the wrapper that awaits it.              *)
LoopCancels ==
    /\ Takes("cancel")
    /\ LET r == runs[next_run]
       IN  /\ Updates(IF r.task = "done" THEN r ELSE [r EXCEPT !.told = TRUE, !.task = "ready"])
           /\ Requeue(IF r.task = "parked" THEN <<Handle("step", next_run)>> ELSE <<>>)
    /\ UNCHANGED <<configured, beam, loop>>

Finished(r, ends) ==
    /\ Updates([r EXCEPT !.task = "done", !.ends = ends])
    /\ Requeue(<<Handle("settle", next_run)>>)

(* A coroutine that never ran is cancelled without running.                  *)
StepUnstarted ==
    /\ Takes("step") /\ runs[next_run].told /\ runs[next_run].work = 0
    /\ Finished(runs[next_run], "cancelled")
    /\ UNCHANGED <<configured, beam, loop>>

(* What a coroutine may raise.  run_activation wraps every Exception.        *)
raisable(for) == IF for = "activation" THEN {"raised"} ELSE {"raised", "timeout_error"}

(* A step of the coroutine: it awaits again, or ends; one that is being      *)
(* cancelled may let the cancellation through, or go on.                     *)
StepCoroutine ==
    /\ Takes("step") /\ (runs[next_run].told => runs[next_run].work > 0)
    /\ LET r == runs[next_run]
           worked == [r EXCEPT !.work = @ + 1, !.told = FALSE, !.deaf = @ \/ r.told]
       IN  \/ /\ r.work < MaxWork \/ r.told
              /\ Updates([worked EXCEPT !.task = "parked"]) /\ Requeue(<<>>)
           \/ \E ends \in {"returned"} \cup raisable(r.for) : Finished(worked, ends)
           \/ r.told /\ Finished([r EXCEPT !.told = FALSE], "cancelled")
    /\ UNCHANGED <<configured, beam, loop>>

(* What a coroutine awaits is there.                                         *)
WakeCoroutine(n) ==
    /\ Turning /\ runs[n].task = "parked"
    /\ runs' = [runs EXCEPT ![n].task = "ready"]
    /\ ready' = Append(ready, Handle("step", n))
    /\ UNCHANGED <<configured, beam, loop>>

(* The outcome reaches a future that was not cancelled.                      *)
LoopSettles ==
    /\ Takes("settle")
    /\ Updates([runs[next_run] EXCEPT !.future = IF @ = "pending" THEN runs[next_run].ends ELSE @])
    /\ Requeue(<<>>)
    /\ UNCHANGED <<configured, beam, loop>>

(* loop.stop lets the handles of the current turn run and ends the loop.     *)
LoopStops ==
    /\ \/ Takes("stop") /\ loop' = "stopping" /\ Requeue(<<>>)
       \/ loop = "stopping" /\ loop' = "stopped" /\ UNCHANGED ready
    /\ UNCHANGED <<configured, beam, runs>>

BridgeNext ==
    \/ BridgeSetup \/ BridgeTeardown \/ StopLoop \/ CloseLoop
    \/ \E for \in {"activation", "hook"} : SubmitCoroutine(for)
    \/ FutureAnswers \/ FutureTimesOut \/ CancelTask \/ FindNoTask \/ CancelFuture \/ DrainOver
    \/ LoopSubmits \/ _await_task \/ LoopCancels \/ StepUnstarted \/ StepCoroutine
    \/ LoopSettles \/ LoopStops
    \/ \E n \in DOMAIN runs : WakeCoroutine(n)

-----------------------------------------------------------------------------
GivenUp == {n \in DOMAIN runs : runs[n].said = "timeout"}

(* A coroutine that run gave up on does not go on undisturbed: it was        *)
(* cancelled, is about to be, or will be as soon as its task exists, unless  *)
(* it has ended (core/bridge.py, run, on both branches of the timeout).      *)
LeftoversAreCancelled ==
    \A n \in GivenUp :
        \/ runs[n].task = "done" \/ runs[n].told \/ runs[n].deaf
        \/ Queued("cancel", n)
        \/ runs[n].future = "cancelled" /\ Queued("submit", n)

(* A coroutine still at work after its run has ended outlived the grace, or  *)
(* was started by the loop between run's look into holder and its cancelling *)
(* of the future, which does not wait for it.  Nothing else runs beside the  *)
(* next activation (core/bridge.py, run).                                    *)
OneAtATime ==
    \A n \in DOMAIN runs :
        runs[n].said # "" /\ runs[n].work > 0 /\ runs[n].task # "done" =>
            runs[n].graced \/ runs[n].raced

(* What timed out before its task existed never runs at all: "cancelling the *)
(* concurrent future stops it before it starts" (core/bridge.py:93-94).      *)
UnstartedNeverRuns == \A n \in DOMAIN runs : runs[n].untasked => runs[n].work = 0

(* The bridge runs one coroutine at a time, as far as its waits allow, and   *)
(* leaves none behind that was not told to stop (core/bridge.py, run).       *)
BridgeIsSafe == LeftoversAreCancelled /\ OneAtATime /\ UnstartedNeverRuns
=============================================================================
