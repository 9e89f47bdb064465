---------------------------- MODULE AdapterAgent ----------------------------
(***************************************************************************)
(* The suspension protocol the framework adapters share (adapters/adk,     *)
(* adapters/langgraph, adapters/pydantic_ai: agent.py) on top of the       *)
(* runtime's own record of the suspension.  Two pieces of state describe   *)
(* one wait: Continuation.pending_intent_ids, which core/dofn.py admits    *)
(* answers against, and the adapter's snapshot, {pending, results}, which  *)
(* decides when the framework run goes on.                                 *)
(***************************************************************************)
EXTENDS Integers, FiniteSets

CONSTANTS
    Ids,            \* intent_ids, in no particular order; each is minted once
    MaxCalls,       \* bound: tool calls one framework run leaves pending
    MaxEscalations  \* HitlPolicy.max_escalations

ASSUME AdapterAssumption == MaxCalls \in Nat /\ MaxEscalations \in Nat

VARIABLES
    suspension,     \* {} or {[ids, pending, results, escalations]}
    minted,         \* intent_ids emitted so far
    fed,            \* per id: framework runs its result was handed to
    outcome         \* what the last answer came to

adapterVars == <<suspension, minted, fed, outcome>>

AdapterInit ==
    /\ suspension = {}
    /\ minted = {}
    /\ fed = [i \in Ids |-> 0]
    /\ outcome = "none"

(* ActivationContext.build_continuation: the ids staged in this activation.  *)
build_continuation(staged, snapshot) ==
    {[ids |-> staged, pending |-> snapshot.pending, results |-> snapshot.results,
      escalations |-> 0]}

stage_and_suspend_merging(calls) ==
    build_continuation(calls, [pending |-> calls \cup minted, results |-> minted])

(* _stage_and_suspend: one intent for each call the run left pending.        *)
stage_and_suspend(calls) ==
    build_continuation(calls, [pending |-> calls, results |-> {}])

(* The framework runs on: it completes, or leaves some calls pending.        *)
Run ==
    \/ /\ suspension' = {}
       /\ UNCHANGED minted
    \/ \E calls \in SUBSET (Ids \ minted) :
         /\ calls # {} /\ Cardinality(calls) <= MaxCalls
         /\ suspension' = stage_and_suspend(calls)
         /\ minted' = minted \cup calls

(* An event starts a run of its own; under BatchPolicy.NONE it does so over  *)
(* a live suspension too, which it replaces.                                 *)
StartRun ==
    /\ Run
    /\ outcome' = "none"
    /\ UNCHANGED fed

(* _admission_failure: no continuation, or an id it does not wait for.       *)
Orphan(i) ==
    /\ \A c \in suspension : i \notin c.ids
    /\ outcome' = "orphaned_result"
    /\ UNCHANGED <<suspension, minted, fed>>

(* _record_incoming raises for an id the snapshot does not list; the failed  *)
(* activation leaves the suspension as it was.                               *)
RecordFails(i) ==
    /\ \E c \in suspension : i \in c.ids /\ i \notin c.pending
    /\ outcome' = "activation_error"
    /\ UNCHANGED <<suspension, minted, fed>>

(* _record_incoming with calls still unanswered: suspend again with the      *)
(* grown snapshot, staging nothing.                                          *)
Accumulate(i) ==
    /\ \E c \in suspension :
         /\ i \in c.ids \cap c.pending
         /\ c.pending \ (c.results \cup {i}) # {}
         /\ suspension' = build_continuation({}, [pending |-> c.pending,
                                                    results |-> c.results \cup {i}])
    /\ outcome' = "accumulated"
    /\ UNCHANGED <<minted, fed>>

(* Every pending call is answered: the run goes on with all the results.     *)
ResumeRun(i) ==
    /\ \E c \in suspension :
         /\ i \in c.ids \cap c.pending
         /\ c.pending \subseteq c.results \cup {i}
         /\ fed' = [j \in Ids |-> IF j \in c.pending THEN fed[j] + 1 ELSE fed[j]]
    /\ Run
    /\ outcome' = "resumed"

(* The resumed run raises, or runs out of time: nothing is committed.        *)
ResumeFails(i) ==
    /\ \E c \in suspension : i \in c.ids \cap c.pending /\ c.pending \subseteq c.results \cup {i}
    /\ outcome' = "activation_error"
    /\ UNCHANGED <<suspension, minted, fed>>

(* HITL_TIMER: _escalate adds an approval intent of the runtime's own, which *)
(* leaves the adapter's snapshot alone; Deny and Drop end the wait.          *)
EscalateRun(i) ==
    /\ i \notin minted
    /\ \E c \in suspension :
         /\ c.escalations < MaxEscalations
         /\ suspension' = {[c EXCEPT !.ids = @ \cup {i}, !.escalations = @ + 1]}
    /\ minted' = minted \cup {i}
    /\ outcome' = "none"
    /\ UNCHANGED fed

TimeoutRun ==
    /\ suspension # {}
    /\ suspension' = {}
    /\ outcome' = "none"
    /\ UNCHANGED <<minted, fed>>

Answer(i) == Orphan(i) \/ RecordFails(i) \/ Accumulate(i) \/ ResumeRun(i) \/ ResumeFails(i)

AdapterNext ==
    \/ StartRun
    \/ \E i \in minted : Answer(i)
    \/ \E i \in Ids : EscalateRun(i)
    \/ TimeoutRun

-----------------------------------------------------------------------------
(* A call's result reaches the framework at most once, however often its     *)
(* answer is delivered and whatever else is answered, escalated, failed or   *)
(* suspended again in between.                                               *)
ResultsFedOnce == \A i \in Ids : fed[i] <= 1

(* docs/hitl.md: an activation waiting on several intents re-suspends until  *)
(* every pending id is answered, so a call the snapshot still waits for is   *)
(* one the runtime admits an answer to.  The re-suspension stages nothing,   *)
(* its continuation admits nothing, and the remaining answers are orphaned.  *)
UnansweredCallsAreAwaited ==
    \A c \in suspension : c.pending \ c.results \subseteq c.ids
=============================================================================
