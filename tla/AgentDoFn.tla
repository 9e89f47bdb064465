------------------------------ MODULE AgentDoFn ------------------------------
(***************************************************************************)
(* One key of the stateful activation engine core/dofn.py (_AgentDoFn),    *)
(* with the result driver core/loop.py (run_activation), the batching      *)
(* decisions core/batching.py and the timeout routes hitl.py it calls.     *)
(*                                                                         *)
(* Beam serialises the elements and timer callbacks of a key and commits a *)
(* callback's state writes, timer writes and outputs together, so one      *)
(* process()/on_*() call is one step.  What interleaves is everything      *)
(* around the key: events, results that come late, twice or for a          *)
(* suspension that is gone, three timers on two clocks, and timer          *)
(* deliveries that the callback they race with has already cleared.        *)
(*                                                                         *)
(* State cells and timer marks that may be absent are sets of at most one  *)
(* value: {} is a cleared cell, {v} a written one.                         *)
(***************************************************************************)
EXTENDS Integers, FiniteSets

CONSTANTS
    Events,              \* external events; each is delivered once
    Adaptive,            \* BatchPolicy.ADAPTIVE (TRUE) or NONE (FALSE)
    MaxBatchSize,        \* BatchSettings.max_batch_size
    MaxWait,             \* BatchSettings.max_wait_ms
    MaxBuffered,         \* BatchSettings.max_buffered_events
    Ttl,                 \* ttl_ms of working memory
    Timeouts,            \* what Suspend.timeout_ms may be, the default included
    IntentTtls,          \* what act(ttl_ms=...) may be, the default included
    Routes,              \* what on_timeout may do: "deny" "drop" "escalate" "raise"
    EscalateTimeouts,    \* what Escalate.timeout_ms may be
    MaxEscalations,      \* HitlPolicy.max_escalations
    OnExpire,            \* whether AgentConfig.on_expire is configured
    WatermarkFollowsWall,\* TRUE: the watermark never passes the wall clock
    MaxSteps,            \* bound: steps of one activation
    MaxResults,          \* bound: results and approvals delivered
    Horizon,             \* bound: no element is delivered after this wall time
    MaxTime              \* bound: both clocks stop here

ASSUME PolicyAssumption ==
    /\ Adaptive \in BOOLEAN
    /\ OnExpire \in BOOLEAN
    /\ WatermarkFollowsWall \in BOOLEAN
    /\ Routes \subseteq {"deny", "drop", "escalate", "raise"}
    /\ MaxEscalations \in Nat

ASSUME TimeAssumption ==
    /\ Ttl \in Nat
    /\ MaxWait \in Nat \ {0}
    /\ Timeouts \subseteq Int
    /\ IntentTtls \subseteq Int
    /\ EscalateTimeouts \subseteq Int

ASSUME BatchAssumption ==
    /\ MaxBatchSize \in Nat \ {0}
    /\ MaxBuffered \in Nat
    /\ MaxBatchSize <= MaxBuffered

ASSUME BoundAssumption ==
    /\ MaxSteps \in Nat
    /\ MaxResults \in Nat
    /\ Horizon \in Nat
    /\ MaxTime \in Nat

VARIABLES
    memory,        \* MEMORY: number of the commit that wrote it, 0 when absent
    llm_cache,     \* LLM_CACHE: likewise
    continuation,  \* CONTINUATION: {} or {record}
    pending,       \* PENDING: the staged intents of the last commit
    seq,           \* SEQ
    batch,         \* BATCH: buffered events with their event time
    ttl_timer,     \* TTL_TIMER (watermark): {} or {mark}
    hitl_timer,    \* HITL_TIMER (real time): {} or {mark}
    flush_timer,   \* FLUSH_TIMER (real time): {} or {mark}
    hitl_fired,    \* HITL_TIMER deliveries the runner has under way
    flush_fired,   \* FLUSH_TIMER deliveries the runner has under way
    wall,          \* processing time
    watermark,     \* event-time watermark
    arrived,       \* events delivered so far
    answers,       \* results and approvals delivered so far
    longterm,      \* the on_expire row of the key: {} or {[seq, value]}
    reports,       \* what the last step said on .errors and about a suspension
    handled,       \* per event: activations that consumed it plus dead letters
    emissions,     \* committed activations and escalations, never reset
    outbox,        \* every intent ever emitted on .intents
    epoch          \* number of TTL wipes

keyed   == <<memory, llm_cache, continuation, pending, seq>>
clocks  == <<wall, watermark>>
inputs  == <<arrived, answers>>
history == <<handled, emissions, outbox, epoch>>
vars    == <<keyed, batch, ttl_timer, hitl_timer, flush_timer, hitl_fired,
             flush_fired, clocks, inputs, longterm, reports, history>>

-----------------------------------------------------------------------------
(* Faulty variants of the definitions they precede carry the suffix of what  *)
(* is wrong with them; only the mutation checks use them.                    *)
intent_id_for_unscoped(s, step) == <<0, step>>
intent_id_for_stepless(s, step) == <<s, 0>>

(* intent_id_for: a pure function of (entity_key, seq, step_index).          *)
intent_id_for(s, step) == <<s, step>>

(* hitl.intent_expired                                                       *)
intent_expired(i, t) == i.expires <= 0 \/ i.expires <= t

Max2_ignoring_deadline(a, b) == a

Max2(a, b) == IF a >= b THEN a ELSE b

Report(kind, cause) == [kind |-> kind, cause |-> cause]

should_flush_on_size_late(b) == Cardinality(b) > MaxBatchSize /\ continuation = {}
should_flush_on_timer_suspended(b) == b # {}
buffer_is_full_late(b) == Cardinality(b) > MaxBuffered

(* batching.should_flush_on_size, should_flush_on_timer and buffer_is_full   *)
should_flush_on_size(b)  == Cardinality(b) >= MaxBatchSize /\ continuation = {}
should_flush_on_timer(b) == b # {} /\ continuation = {}
buffer_is_full(b)        == Cardinality(b) >= MaxBuffered

rearm_flush_never == flush_timer

(* _rearm_flush: the mark FLUSH_TIMER has after it.                          *)
rearm_flush == IF Adaptive /\ batch # {} THEN {wall} ELSE flush_timer

admission_failure_unmatched(i, t) ==
    IF continuation = {} THEN {"no_continuation"}
    ELSE UNION {IF t >= c.deadline THEN {"deadline_passed"} ELSE {} : c \in continuation}

(* _admission_failure: the details that refuse an answer to intent i at t.   *)
admission_failure(i, t) ==
    IF continuation = {} THEN {"no_continuation"}
    ELSE UNION {IF i.id \notin c.ids THEN {"unknown_intent"}
                ELSE IF c.deadline <= 0 \/ t >= c.deadline THEN {"deadline_passed"}
                ELSE IF \E p \in pending : p.id = i.id /\ intent_expired(p, t)
                     THEN {"intent_expired"}
                ELSE {} : c \in continuation}

-----------------------------------------------------------------------------
Init ==
    /\ memory = 0 /\ llm_cache = 0 /\ seq = 0
    /\ continuation = {} /\ pending = {} /\ batch = {}
    /\ ttl_timer = {} /\ hitl_timer = {} /\ flush_timer = {}
    /\ hitl_fired = {} /\ flush_fired = {}
    /\ wall = 1 /\ watermark = 0
    /\ arrived = {} /\ answers = 0
    /\ longterm = {} /\ reports = {}
    /\ handled = [e \in Events |-> 0]
    /\ emissions = 0 /\ outbox = {} /\ epoch = 0

(***************************************************************************)
(* _commit, for an activation at seq s with clock t that entered at step   *)
(* first, took `steps' steps and staged an intent at each step of the      *)
(* domain of ttl.  deadline is {} for Complete and {d} for Suspend.        *)
(***************************************************************************)
Commit(s, t, first, steps, ttl, deadline, flush) ==
    LET n == emissions + 1
        staged == {[id |-> intent_id_for(s, i), expires |-> t + ttl[i],
                    n |-> n, epoch |-> epoch] : i \in DOMAIN ttl}
    IN  /\ memory' = n
        /\ llm_cache' = n
        /\ continuation' = {[seq |-> s, step |-> first + steps,
                             ids |-> {i.id : i \in staged},
                             deadline |-> d, escalations |-> 0,
                             origins |-> {n}] : d \in deadline}
        /\ pending' = staged
        /\ batch' = IF flush THEN {} ELSE batch
        /\ seq' = seq + 1
        /\ hitl_timer' = deadline
        /\ ttl_timer' = IF deadline = {} THEN {t + Ttl}
                        ELSE {Max2(t, d) + Ttl : d \in deadline}
        /\ flush_timer' = IF flush THEN {}
                          ELSE IF deadline = {} THEN rearm_flush
                          ELSE flush_timer
        /\ emissions' = n
        /\ outbox' = outbox \cup staged
        /\ UNCHANGED <<epoch, longterm, clocks>>

(***************************************************************************)
(* run_activation succeeding: the agent takes some steps, stages intents   *)
(* at some of them and returns Complete, or Suspend with a timeout, whose  *)
(* deadline is the earliest of the timeout and the staged expiries.        *)
(***************************************************************************)
Succeeds(s, t, first, flush) ==
    \E steps \in 0..MaxSteps :
    \E acting \in SUBSET (first..(first + steps - 1)) :
    \E ttl \in [acting -> IntentTtls] :
        \/ Commit(s, t, first, steps, ttl, {}, flush)
        \/ \E timeout \in Timeouts :
           LET candidates == {t + timeout} \cup {t + ttl[i] : i \in acting}
           IN  \E d \in candidates :
                 /\ \A x \in candidates : d <= x
                 /\ Commit(s, t, first, steps, ttl, {d}, flush)

(* How an activation fails: past activation_timeout_s, by BudgetExceeded, or *)
(* by any other raise of the agent, the provider or the long-term flush.     *)
Causes == {"timeout", "budget", "raise"}

(* The reason _start and _resume record (_failed_activation).                *)
failed_activation(cause) ==
    CASE cause = "timeout" -> "activation_timeout"
      [] cause = "budget"  -> "budget_exceeded"
      [] cause = "raise"   -> "activation_error"

(* The reason _flush records.                                                *)
failed_flush(cause) ==
    IF cause = "timeout" THEN "activation_timeout" ELSE "activation_error"

(* A failed _start or _resume commits nothing.                               *)
Fails(cause) ==
    /\ reports' = {Report(failed_activation(cause), cause)}
    /\ UNCHANGED <<keyed, batch, ttl_timer, hitl_timer, flush_timer, longterm,
                   clocks, emissions, outbox, epoch>>

-----------------------------------------------------------------------------
(* process with an external_event: what every delivery does to the inputs.   *)
Deliver(e) ==
    /\ wall <= Horizon
    /\ e \notin arrived
    /\ arrived' = arrived \cup {e}
    /\ UNCHANGED <<answers, hitl_fired, flush_fired>>

(* _start: under NONE an event is one activation at the current SEQ.         *)
Start(e, t) ==
    /\ ~Adaptive
    /\ Deliver(e)
    /\ handled' = [handled EXCEPT ![e] = @ + 1]
    /\ \/ Succeeds(seq, t, 0, FALSE) /\ reports' = {}
       \/ \E cause \in Causes : Fails(cause)

FailedFlush_retrying(b, ttl, cause) ==
    /\ reports' = {Report(failed_flush(cause), cause)}
    /\ batch' = b
    /\ flush_timer' = {wall}
    /\ ttl_timer' = ttl
    /\ UNCHANGED <<keyed, hitl_timer, longterm, clocks, emissions, outbox, epoch>>

(* _failed_flush: every envelope of the buffer b is dead-lettered and the    *)
(* buffer consumed.                                                          *)
FailedFlush(b, ttl, cause) ==
    /\ reports' = {Report(failed_flush(cause), cause)}
    /\ batch' = {}
    /\ flush_timer' = {}
    /\ ttl_timer' = ttl
    /\ UNCHANGED <<keyed, hitl_timer, longterm, clocks, emissions, outbox, epoch>>

(***************************************************************************)
(* _flush of the buffer b as one activation, stamped with its latest event *)
(* time.  ttl is the mark TTL_TIMER holds when the flush starts.           *)
(***************************************************************************)
Flush(b, ttl) ==
    LET evs == {x.ev : x \in b}
    IN  /\ handled' = [e \in Events |-> IF e \in evs THEN handled[e] + 1 ELSE handled[e]]
        /\ \/ /\ \E last \in b : /\ \A x \in b : x.t <= last.t
                                 /\ Succeeds(seq, last.t, 0, TRUE)
              /\ reports' = {}
           \/ \E cause \in Causes : FailedFlush(b, ttl, cause)

(* _buffer on a full buffer: shed the event, touch nothing else.             *)
BufferOverflow(e) ==
    /\ Adaptive
    /\ buffer_is_full(batch)
    /\ Deliver(e)
    /\ reports' = {Report("batch_buffer_overflow",
                          IF continuation = {} THEN "no_suspension" ELSE "suspended")}
    /\ handled' = [handled EXCEPT ![e] = @ + 1]
    /\ UNCHANGED <<keyed, batch, ttl_timer, hitl_timer, flush_timer, longterm,
                   clocks, emissions, outbox, epoch>>

(* _buffer: append, re-arm TTL_TIMER, arm FLUSH_TIMER from the first event   *)
(* and flush inline when the size threshold is met and nothing is suspended. *)
Buffer(e, t) ==
    LET b == batch \cup {[ev |-> e, t |-> t]}
    IN  /\ Adaptive
        /\ ~buffer_is_full(batch)
        /\ Deliver(e)
        /\ \/ should_flush_on_size(b) /\ Flush(b, {t + Ttl})
           \/ /\ ~should_flush_on_size(b)
              /\ batch' = b
              /\ ttl_timer' = {t + Ttl}
              /\ flush_timer' = IF batch = {} THEN {wall + MaxWait} ELSE flush_timer
              /\ reports' = {}
              /\ UNCHANGED <<keyed, hitl_timer, longterm, clocks, history>>

(* process with a tool_result or approval answering the emitted intent i,    *)
(* stamped t: the part common to both outcomes of admission.                 *)
Answer ==
    /\ wall <= Horizon
    /\ answers < MaxResults
    /\ answers' = answers + 1
    /\ UNCHANGED <<arrived, handled, hitl_fired, flush_fired>>

(* _resume refused: orphaned_result, nothing mutated.                        *)
Orphan(i, t) ==
    /\ Answer
    /\ \E detail \in admission_failure(i, t) : reports' = {Report("orphaned_result", detail)}
    /\ UNCHANGED <<keyed, batch, ttl_timer, hitl_timer, flush_timer, longterm,
                   clocks, emissions, outbox, epoch>>

(* Whether the answered intent was staged by the suspension it resumes, by   *)
(* another activation of the same epoch, or before a wipe.                   *)
Provenance(i, c) ==
    IF i.n \in c.origins THEN "own"
    ELSE IF i.epoch = epoch THEN "stale"
    ELSE "before_wipe"

(* _resume admitted: one activation at the continuation's seq and step.      *)
Resume(i, t) ==
    /\ Answer
    /\ admission_failure(i, t) = {}
    /\ \E c \in continuation :
         \/ /\ Succeeds(c.seq, t, c.step, FALSE)
            /\ reports' = {Report("resumed", Provenance(i, c))}
         \/ \E cause \in Causes : Fails(cause)

-----------------------------------------------------------------------------
(* The runner hands a due real-time mark to a worker; from then on clear()   *)
(* and set() no longer stop that delivery.                                   *)
DispatchHitl ==
    \E m \in hitl_timer :
        /\ m <= wall
        /\ hitl_timer' = {}
        /\ hitl_fired' = hitl_fired \cup {m}
        /\ reports' = {}
        /\ UNCHANGED <<keyed, batch, ttl_timer, flush_timer, flush_fired, clocks,
                       inputs, longterm, history>>

DispatchFlush ==
    \E m \in flush_timer :
        /\ m <= wall
        /\ flush_timer' = {}
        /\ flush_fired' = flush_fired \cup {m}
        /\ reports' = {}
        /\ UNCHANGED <<keyed, batch, ttl_timer, hitl_timer, hitl_fired, clocks,
                       inputs, longterm, history>>

stale_hitl_off_by_one(m) == \A c \in continuation : m <= c.deadline
stale_hitl_any_mark(m) == continuation = {}

(* on_hitl's stale-handle guard: a delivery for nothing, or for a mark       *)
(* before the deadline of the suspension that is live now.                   *)
stale_hitl(m) == \A c \in continuation : m < c.deadline

route_timeout_late(route, c) ==
    IF route = "raise" THEN "drop"
    ELSE IF route = "escalate" /\ c.escalations > MaxEscalations THEN "deny"
    ELSE route

(* _route_timeout: the policy's route, fail-closed.                          *)
route_timeout(route, c) ==
    IF route = "raise" THEN "drop"
    ELSE IF route = "escalate" /\ c.escalations >= MaxEscalations THEN "deny"
    ELSE route

escalated_unlisted(c, intent) ==
    [c EXCEPT !.step = @ + 1, !.deadline = intent.expires, !.escalations = @ + 1,
              !.origins = @ \cup {intent.n}]

(* The continuation _escalate writes back over c: the step of the new intent *)
(* is consumed, and the suspension now waits for that intent too.            *)
escalated(c, intent) ==
    [c EXCEPT !.step = @ + 1, !.deadline = intent.expires, !.escalations = @ + 1,
              !.ids = @ \cup {intent.id}, !.origins = @ \cup {intent.n}]

(* _escalate: one more approval intent, a later deadline, both timers moved. *)
Escalate(c, m, timeout) ==
    LET n == emissions + 1
        d == m + timeout
        intent == [id |-> intent_id_for(c.seq, c.step), expires |-> d,
                   n |-> n, epoch |-> epoch]
    IN  /\ continuation' = {escalated(c, intent)}
        /\ pending' = pending \cup {intent}
        /\ hitl_timer' = {d}
        /\ ttl_timer' = {d + Ttl}
        /\ emissions' = n
        /\ outbox' = outbox \cup {intent}
        /\ reports' = {}
        /\ UNCHANGED <<memory, llm_cache, seq, flush_timer>>

(* on_hitl's Deny and Drop: the suspension is over.                          *)
EndSuspension(report) ==
    /\ continuation' = {}
    /\ pending' = {}
    /\ hitl_timer' = {}
    /\ flush_timer' = rearm_flush
    /\ reports' = {report}
    /\ UNCHANGED <<memory, llm_cache, seq, ttl_timer, emissions, outbox>>

OnHitl(m) ==
    /\ m \in hitl_fired
    /\ hitl_fired' = hitl_fired \ {m}
    /\ \/ /\ stale_hitl(m)
          /\ reports' = {}
          /\ UNCHANGED <<keyed, ttl_timer, hitl_timer, flush_timer, emissions, outbox>>
       \/ /\ ~stale_hitl(m)
          /\ \E c \in continuation, route \in Routes :
               \/ /\ route_timeout(route, c) = "escalate"
                  /\ \E timeout \in EscalateTimeouts : Escalate(c, m, timeout)
               \/ /\ route_timeout(route, c) = "deny"
                  /\ EndSuspension(Report("deny", route))
               \/ /\ route_timeout(route, c) = "drop"
                  /\ EndSuspension(Report("hitl_timeout", route))
    /\ UNCHANGED <<batch, flush_fired, clocks, inputs, longterm, handled, epoch>>

(* on_flush: decline over an empty buffer or a live suspension, else flush.  *)
OnFlush(m) ==
    /\ m \in flush_fired
    /\ flush_fired' = flush_fired \ {m}
    /\ \/ /\ ~should_flush_on_timer(batch)
          /\ reports' = {}
          /\ UNCHANGED <<keyed, batch, ttl_timer, hitl_timer, flush_timer, longterm,
                         clocks, history>>
       \/ /\ should_flush_on_timer(batch)
          /\ Flush(batch, ttl_timer)
    /\ UNCHANGED <<inputs, hitl_fired>>

seq_guard_applies_always(incoming) == TRUE

(* MemoryStore.save under its (entity_key, seq) guard.                       *)
seq_guard_applies(incoming) == \A row \in longterm : incoming >= row.seq

flush_expiring_appending ==
    IF OnExpire /\ memory # 0 THEN longterm \cup {[seq |-> seq, value |-> memory]}
    ELSE longterm

(* _flush_expiring: upsert the final blob, when there is one.                *)
flush_expiring ==
    IF OnExpire /\ memory # 0 /\ seq_guard_applies(seq)
    THEN {[seq |-> seq, value |-> memory]} ELSE longterm

Wipe_keeping_pending ==
    /\ memory' = 0 /\ llm_cache' = 0 /\ seq' = 0
    /\ continuation' = {} /\ batch' = {}
    /\ flush_timer' = IF Adaptive THEN {} ELSE flush_timer
    /\ UNCHANGED pending

(* The cells on_ttl clears; HITL_TIMER is left to its stale-handle guard.    *)
Wipe ==
    /\ memory' = 0 /\ llm_cache' = 0 /\ seq' = 0
    /\ continuation' = {} /\ pending' = {} /\ batch' = {}
    /\ flush_timer' = IF Adaptive THEN {} ELSE flush_timer

(* on_ttl: report what is lost, demote, then wipe every cell of the key.     *)
OnTtl ==
    /\ \E m \in ttl_timer : m <= watermark
    /\ ttl_timer' = {}
    /\ longterm' = flush_expiring
    /\ reports' = {Report("ttl_wiped_suspension",
                          IF wall < c.deadline THEN "before_deadline" ELSE "after_deadline")
                     : c \in continuation}
                  \cup (IF batch = {} THEN {} ELSE {Report("ttl_wiped_batch", "buffered")})
    /\ LET evs == {x.ev : x \in batch}
       IN  handled' = [e \in Events |-> IF e \in evs THEN handled[e] + 1 ELSE handled[e]]
    /\ Wipe
    /\ epoch' = epoch + 1
    /\ UNCHANGED <<hitl_timer, hitl_fired, flush_fired, clocks, inputs, emissions, outbox>>

(* on_ttl whose hook raises, before or after its upsert landed: the bundle   *)
(* fails, nothing is wiped or emitted and the runner retries the timer.      *)
OnTtlRetry ==
    /\ OnExpire
    /\ memory # 0
    /\ \E m \in ttl_timer : m <= watermark
    /\ longterm' \in {longterm, flush_expiring}
    /\ reports' = {}
    /\ UNCHANGED <<keyed, batch, ttl_timer, hitl_timer, flush_timer, hitl_fired,
                   flush_fired, clocks, inputs, history>>

-----------------------------------------------------------------------------
Tick ==
    /\ wall < MaxTime
    /\ wall' = wall + 1
    /\ reports' = {}
    /\ UNCHANGED <<keyed, batch, ttl_timer, hitl_timer, flush_timer, hitl_fired,
                   flush_fired, watermark, inputs, longterm, history>>

AdvanceWatermark ==
    /\ watermark < MaxTime
    /\ WatermarkFollowsWall => watermark < wall
    /\ watermark' = watermark + 1
    /\ reports' = {}
    /\ UNCHANGED <<keyed, batch, ttl_timer, hitl_timer, flush_timer, hitl_fired,
                   flush_fired, wall, inputs, longterm, history>>

Next ==
    \/ \E e \in Events, t \in 1..wall : Start(e, t)
    \/ \E e \in Events : BufferOverflow(e)
    \/ \E e \in Events, t \in 1..wall : Buffer(e, t)
    \/ \E i \in outbox, t \in 1..wall : Orphan(i, t)
    \/ \E i \in outbox, t \in 1..wall : Resume(i, t)
    \/ DispatchHitl
    \/ DispatchFlush
    \/ \E m \in hitl_fired : OnHitl(m)
    \/ \E m \in flush_fired : OnFlush(m)
    \/ OnTtl
    \/ OnTtlRetry
    \/ Tick
    \/ AdvanceWatermark

Spec == Init /\ [][Next]_vars

(***************************************************************************)
(* The runner eventually dispatches a due timer and runs its callback, and *)
(* real time does not stop.  Nothing is assumed of events, results or the  *)
(* watermark.                                                              *)
(***************************************************************************)
Fairness ==
    /\ WF_vars(Tick)
    /\ WF_vars(DispatchHitl)
    /\ WF_vars(DispatchFlush)
    /\ WF_vars(\E m \in hitl_fired : OnHitl(m))
    /\ WF_vars(\E m \in flush_fired : OnFlush(m))

FairSpec == Spec /\ Fairness

-----------------------------------------------------------------------------
Ids == Nat \X Nat

Intents == [id : Ids, expires : Int, n : Nat, epoch : Nat]

Continuations == [seq : Nat, step : Nat, ids : SUBSET Ids, deadline : Int,
                  escalations : Nat, origins : SUBSET Nat]

Reports == [kind : {"activation_timeout", "activation_error", "budget_exceeded",
                    "orphaned_result", "hitl_timeout", "deny", "resumed",
                    "ttl_wiped_suspension", "ttl_wiped_batch", "batch_buffer_overflow"},
            cause : {"timeout", "budget", "raise", "no_continuation", "unknown_intent",
                     "deadline_passed", "intent_expired", "deny", "drop", "escalate",
                     "own", "stale", "before_wipe", "before_deadline", "after_deadline",
                     "buffered", "suspended", "no_suspension"}]

(* A cell or timer that holds at most one value of S.                        *)
Cell(x, S) == x \subseteq S /\ \A v, w \in x : v = w

(* Type correctness: the value ranges of the six state specs, the three      *)
(* timers with their deliveries under way, and the history of the key.       *)
TypeOK ==
    /\ memory \in Nat /\ llm_cache \in Nat /\ seq \in Nat
    /\ Cell(continuation, Continuations)
    /\ pending \subseteq Intents
    /\ batch \subseteq [ev : Events, t : Int]
    /\ Cell(ttl_timer, Int) /\ Cell(hitl_timer, Int) /\ Cell(flush_timer, Int)
    /\ hitl_fired \subseteq Int /\ flush_fired \subseteq Int
    /\ wall \in Nat /\ watermark \in Nat
    /\ arrived \subseteq Events /\ answers \in Nat
    /\ Cell(longterm, [seq : Nat, value : Nat])
    /\ reports \subseteq Reports
    /\ handled \in [Events -> Nat]
    /\ emissions \in Nat /\ outbox \subseteq Intents /\ epoch \in Nat

(* Correctness invariant 2, the reason _resume enters at the continuation's  *)
(* step and _escalate consumes one: between two wipes of the key no two      *)
(* commits or escalations, across suspensions, resumes and failed attempts,  *)
(* mint the same intent_id.  A repeat would be deduped away by the effector. *)
IntentIdsUnique ==
    \A i, j \in outbox : i.epoch = j.epoch /\ i.id = j.id => i.n = j.n

(* PENDING and CONTINUATION are separate cells that _commit, _escalate,      *)
(* on_hitl and on_ttl must keep in step: the intents a live suspension waits *)
(* for are the pended ones, whose expiry the resume admission reads.         *)
PendingMatchesContinuation ==
    \A c \in continuation : c.ids = {p.id : p \in pending}

(* Fail-closed (correctness invariant 6): as long as a suspension is live    *)
(* HITL_TIMER is armed at its deadline, or a delivery of that mark is under  *)
(* way, whatever resumes failed, escalated or re-suspended since.            *)
SuspensionHasTimer ==
    \A c \in continuation : c.deadline \in hitl_timer \cup hitl_fired

(* Deferral (on_flush declining under a live suspension): a buffer that no   *)
(* suspension holds back always has a FLUSH_TIMER mark or delivery coming.   *)
DeferredBufferHasTimer ==
    batch # {} /\ continuation = {} => flush_timer \cup flush_fired # {}

(* The buffer stays within max_buffered_events, and below max_batch_size     *)
(* until a suspension has deferred a flush: a buffer at the threshold with   *)
(* nothing suspended is one _rearm_flush has made due at once.               *)
BufferBounded ==
    /\ Cardinality(batch) <= MaxBuffered
    /\ Cardinality(batch) >= MaxBatchSize /\ continuation = {} =>
          \E m \in flush_timer \cup flush_fired : m <= wall

(* Every delivered event is in the buffer or was consumed exactly once, by   *)
(* one activation or one dead letter: _flush, _failed_flush, the overflow    *)
(* path and on_ttl neither lose an envelope nor process it again.            *)
EventsHandledOnce ==
    \A e \in arrived :
        handled[e] + Cardinality({x \in batch : x.ev = e}) = 1

(* on_ttl leaves no residue, and only a commit writes: a key at SEQ 0 has no *)
(* memory, cache, suspension or pended intent of an earlier life, and a key  *)
(* past it has the memory and the cache of one and the same commit.          *)
FreshKeyIsEmpty ==
    /\ seq = 0 => memory = 0 /\ continuation = {} /\ pending = {}
    /\ seq # 0 => memory # 0
    /\ llm_cache = memory

(* The escalation chain of one suspension is bounded by max_escalations, and *)
(* each link of it is one approval intent on .intents.                       *)
EscalationsBounded ==
    \A c \in continuation :
        /\ c.escalations <= MaxEscalations
        /\ Cardinality(c.origins) = c.escalations + 1

(* Working-memory GC stays behind a live suspension's deadline when every    *)
(* event activates at once (BatchPolicy.NONE): _commit and _escalate arm     *)
(* TTL_TIMER at least ttl_ms past it, and nothing in between moves it back.  *)
GcBehindDeadline ==
    ~Adaptive => \A c \in continuation : \E m \in ttl_timer : m >= c.deadline + Ttl

(* An answer resumes the suspension that asked for it: the intent admitted   *)
(* by _admission_failure was staged by that suspension, never by another     *)
(* activation of the same life of the key, however late or often it comes.   *)
AnswersResumeTheirSuspension ==
    \A r \in reports : r.kind = "resumed" => r.cause # "stale"

(* What makes the identity properties inductive: intents of this life of the *)
(* key lie below SEQ, those of the suspended activation below its step       *)
(* cursor, and an id that a suspension waits for was minted by it.           *)
IdsInv ==
    /\ \A i \in outbox : i.epoch <= epoch /\ (i.epoch = epoch => i.id[1] < seq)
    /\ \A c \in continuation :
          /\ c.seq < seq
          /\ \A n \in c.origins : n <= emissions
          /\ \A i \in outbox : i.epoch = epoch =>
                /\ i.id[1] = c.seq => i.id[2] < c.step
                /\ i.id \in c.ids => i.n \in c.origins
    /\ IntentIdsUnique

(* What makes the timer properties inductive: only a due mark is under way,  *)
(* and nothing is buffered under BatchPolicy.NONE.                           *)
TimerInv ==
    /\ \A m \in hitl_fired : m <= wall
    /\ batch # {} => Adaptive
    /\ SuspensionHasTimer
    /\ PendingMatchesContinuation
    /\ DeferredBufferHasTimer
    /\ GcBehindDeadline

(* The stale-handle guard of on_hitl: a timeout never ends, nor an           *)
(* escalation extends, a suspension whose deadline is still ahead on the     *)
(* wall clock, even when the delivery belongs to a superseded mark.          *)
TimeoutNotEarly ==
    [][\A c \in continuation :
          wall < c.deadline =>
             /\ \A r \in reports' : r.kind \notin {"deny", "hitl_timeout"}
             /\ \A d \in continuation' : d.origins \cap c.origins = {} \/ d = c]_vars

(* Under ADAPTIVE a suspension never disappears in silence: it ends in a     *)
(* resume, in the policy's answer or in a dead letter (the overwrite hazard  *)
(* should_flush_on_size and should_flush_on_timer close).                    *)
SuspensionEndsVisibly ==
    [][Adaptive => \A c \in continuation :
          (\A d \in continuation' : d.origins \cap c.origins = {}) =>
             \E r \in reports' :
                r.kind \in {"resumed", "deny", "hitl_timeout", "ttl_wiped_suspension"}]_vars

(* The long-term row only moves forward within the order of its guard: a     *)
(* retried expiry bundle rewrites the row it wrote and never an older one.   *)
LongtermNeverRegresses ==
    [][\A row \in longterm : \A new \in longterm' : new.seq >= row.seq]_vars

(* Fail-closed means the wait ends: a suspended key is eventually free       *)
(* again, by an answer, the timeout route or a wipe.  Escalations only delay *)
(* it max_escalations times, and each answer re-suspends at most once more.  *)
EverySuspensionEnds == continuation # {} ~> continuation = {}

(* No buffered event starves: max_wait_ms, the deferral behind a suspension  *)
(* and the re-arm at its end together get every event out of the buffer.     *)
EveryEventLeavesBuffer ==
    \A e \in Events : (\E x \in batch : x.ev = e) ~> (\A x \in batch : x.ev # e)

(* What a key owes to the life it is in: its identities lie where the next   *)
(* start, resume and escalation will not mint them again, nothing of an      *)
(* earlier life is left, and an escalation chain ends.                       *)
KeyLifeInv == IdsInv /\ FreshKeyIsEmpty /\ EscalationsBounded

(* What the buffer and the timers owe each other: a flush or a timeout is    *)
(* always on its way, the buffer stays within its cap, and every event in it *)
(* is handled exactly once.                                                  *)
BufferInv == TimerInv /\ BufferBounded /\ EventsHandledOnce

(* Nothing on a key waits for ever, neither a suspension nor an event that   *)
(* is buffered behind one.                                                   *)
NothingStarves == EverySuspensionEnds /\ EveryEventLeavesBuffer
=============================================================================
