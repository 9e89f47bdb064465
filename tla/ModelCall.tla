------------------------------ MODULE ModelCall ------------------------------
(***************************************************************************)
(* The model calls of an activation: the cache-first paths of model/       *)
(* facade.py (LlmFacade.complete, with retry and circuit breaker) and of   *)
(* core/context.py (ActivationContext.call_model, without), the replay     *)
(* cache of model/replay_cache.py they share, and the token budget.        *)
(*                                                                         *)
(* Several keys are activated on one worker.  An activation has its own    *)
(* frozen clock, cache and budget; the breaker belongs to the worker.  A   *)
(* call is two steps, up to the provider and from its answer on: other     *)
(* calls of the agent, other keys, a timeout and a discarded bundle come   *)
(* in between.                                                             *)
(***************************************************************************)
EXTENDS Integers, Sequences, FiniteSets, SequencesExt, Collections

CONSTANTS
    Keys,         \* entity keys active on the worker
    Requests,     \* requests an agent may make
    Sizes,        \* what a response may weigh, in the blob and in tokens
    DigestSize,   \* weight of an entry that keeps only the digest
    MAX_ENTRIES, BLOB_CAP_BYTES, TTL_MS,
    Limit,        \* max_tokens_per_activation
    Threshold,    \* CircuitBreaker.threshold
    Cooldown,     \* CircuitBreaker.cooldown_ms
    MaxAttempts,  \* RetryPolicy.max_attempts
    MaxCalls,     \* bound: provider calls under way
    MaxResponses, \* bound: provider responses, awaited ones included
    MaxFailures,  \* bound: failures the breaker is told of in a row
    MaxSeq,       \* bound: completed activations of a key
    MaxTime       \* bound: the clock stops here

ASSUME ModelCallAssumption ==
    /\ Sizes \subseteq Nat \ {0} /\ Sizes # {}
    /\ DigestSize \in 1..BLOB_CAP_BYTES
    /\ MAX_ENTRIES \in Nat \ {0} /\ BLOB_CAP_BYTES \in Nat /\ TTL_MS \in Nat
    /\ Limit \in Nat \ {0} /\ Threshold \in Nat \ {0} /\ Cooldown \in Nat
    /\ MaxAttempts \in Nat \ {0}
    /\ MaxCalls \in Nat /\ MaxResponses \in Nat /\ MaxFailures \in Nat
    /\ MaxSeq \in Nat /\ MaxTime \in Nat

VARIABLES
    blob,      \* per key: the committed LLM_CACHE, least recently used entry first
    seq,       \* per key: the seq its next activation runs at
    act,       \* per key: {} or {the activation attempt under way}
    calls,     \* provider calls under way: [k, id, n, attempt], n telling them apart
    breaker,   \* [state, failures, opened_at]
    clock,     \* latest event time
    responses, \* responses the provider has given, which number them
    streak     \* failures the breaker was told of since its last success

vars == <<blob, seq, act, calls, breaker, clock, responses, streak>>

-----------------------------------------------------------------------------
(* The replay cache of an activation a.  Definitions with a suffix are       *)
(* faulty variants of the one they precede, for the mutation checks.         *)

(* compute_cache_key: the request within its (entity_key, seq) scope.        *)
compute_cache_key(r, s) == <<r, s>>

(* _is_expired: anchored on creation, inclusive.                             *)
is_expired(e, now) == now - e.created > TTL_MS

(* What the entries at positions P weigh, and all of them.                   *)
size_at(entries, P) == SumFunctionOnSet([i \in DOMAIN entries |-> entries[i].size], P)
size_of(entries) == size_at(entries, DOMAIN entries)

positions(entries, ids) == {i \in DOMAIN entries : entries[i].id \in ids}

others(entries, ids) == Picked(entries, DOMAIN entries \ positions(entries, ids))

remove_uncounted(a, ids) == [a EXCEPT !.entries = others(@, ids)]

(* _remove, for a set of cache keys.                                         *)
remove(a, ids) ==
    [a EXCEPT !.entries = others(@, ids),
              !.total = @ - size_at(a.entries, positions(a.entries, ids))]

live_hit_strict(a, id) ==
    {e \in ToSet(a.entries) : e.id = id /\ a.now - e.created < TTL_MS /\ ~e.digest_only}

(* get finding bytes to replay: an entry neither expired nor digest-only.    *)
live_hit(a, id) ==
    {e \in ToSet(a.entries) : e.id = id /\ ~is_expired(e, a.now) /\ ~e.digest_only}

(* What get leaves behind: an expired entry purged, any other touched.       *)
get(a, id) ==
    LET found == {e \in ToSet(a.entries) : e.id = id}
    IN  IF \A e \in found : is_expired(e, a.now) THEN remove(a, {id})
        ELSE [a EXCEPT !.entries = Append(others(@, {id}), CHOOSE e \in found : TRUE)]

evict_newest(a) ==
    LET n == Len(a.entries)
    IN  IF n <= MAX_ENTRIES /\ (n <= 1 \/ a.total <= BLOB_CAP_BYTES) THEN a
        ELSE remove(a, {a.entries[n].id})

(* _evict_over_count and _evict_over_bytes: drop as few entries as needed    *)
(* from the least recently used end, never the last one for its bytes.       *)
evict(a) ==
    LET n == Len(a.entries)
        fits(d) == /\ n - d <= MAX_ENTRIES
                   /\ \/ n - d <= 1
                      \/ a.total - size_at(a.entries, 1..d) <= BLOB_CAP_BYTES
        dropped == CHOOSE d \in 0..n : fits(d) /\ \A m \in 0..(d - 1) : ~fits(m)
        ids == {a.entries[i].id : i \in 1..dropped}
    IN  [remove(a, ids) EXCEPT !.evicted = @ \cup ids]

(* put: purge, replace, insert as most recently used, evict.  A response     *)
(* that would not fit an empty blob is kept as its digest.                   *)
put(a, id, response, size) ==
    LET oversized == size > BLOB_CAP_BYTES
        entry == [id |-> id, response |-> response, created |-> a.now,
                  size |-> IF oversized THEN DigestSize ELSE size,
                  digest_only |-> oversized]
        stale == {e.id : e \in {x \in ToSet(a.entries) : is_expired(x, a.now)}}
        kept == remove(a, stale \cup {id})
    IN  evict([kept EXCEPT !.entries = Append(@, entry), !.total = @ + entry.size])

-----------------------------------------------------------------------------
charge_capped_late(a, id, response, tokens) ==
    IF a.consumed > Limit
    THEN [a EXCEPT !.exhausted = TRUE]
    ELSE [a EXCEPT !.consumed = @ + tokens, !.delivered = @ + tokens,
                   !.heard = @ \cup {[id |-> id, response |-> response]}]

(* TokenBudget.charge for a response, cached or not: the agent gets it       *)
(* unless the budget has tripped or this one trips it.                       *)
charge(a, id, response, tokens) ==
    IF a.exhausted THEN a
    ELSE IF a.consumed + tokens > Limit
         THEN [a EXCEPT !.consumed = @ + tokens, !.exhausted = TRUE]
         ELSE [a EXCEPT !.consumed = @ + tokens, !.delivered = @ + tokens,
                        !.heard = @ \cup {[id |-> id, response |-> response]}]

(* CircuitBreaker.before_call fails the call closed.                         *)
circuit_open(now) == breaker.state = "open" /\ now - breaker.opened_at < Cooldown

before_call_closing == [breaker EXCEPT !.state = IF @ = "open" THEN "closed" ELSE @]

(* before_call otherwise: an open breaker admits a trial.                    *)
before_call == [breaker EXCEPT !.state = IF @ = "open" THEN "half_open" ELSE @]

record_success == [state |-> "closed", failures |-> 0, opened_at |-> 0]

record_failure(now) ==
    IF breaker.state = "half_open"
    THEN [breaker EXCEPT !.state = "open", !.opened_at = now]
    ELSE IF breaker.failures + 1 >= Threshold
         THEN [state |-> "open", failures |-> breaker.failures + 1, opened_at |-> now]
         ELSE [breaker EXCEPT !.failures = @ + 1]

-----------------------------------------------------------------------------
Init ==
    /\ blob = [k \in Keys |-> <<>>]
    /\ seq = [k \in Keys |-> 0]
    /\ act = [k \in Keys |-> {}]
    /\ calls = {}
    /\ breaker = [state |-> "closed", failures |-> 0, opened_at |-> 0]
    /\ clock = 1 /\ responses = 0 /\ streak = 0

(* An attempt starts over the committed blob, with a budget of its own, on   *)
(* one of the two call surfaces.  Its clock is an event time.                *)
Begin(k) ==
    /\ act[k] = {}
    /\ seq[k] <= MaxSeq
    /\ \E now \in 1..clock, facade \in BOOLEAN :
         act' = [act EXCEPT ![k] =
                   {[now |-> now, facade |-> facade, entries |-> blob[k],
                     total |-> size_of(blob[k]), consumed |-> 0, exhausted |-> FALSE,
                     delivered |-> 0, heard |-> {}, evicted |-> {}]}]
    /\ UNCHANGED <<blob, seq, calls, breaker, clock, responses, streak>>

(* A call the cache answers: no provider, no breaker, but charged.           *)
Hit(k, r) ==
    LET id == compute_cache_key(r, seq[k])
    IN  /\ \E a \in act[k] :
             /\ ~a.exhausted
             /\ \E e \in live_hit(a, id) :
                  act' = [act EXCEPT ![k] = {charge(get(a, id), id, e.response, e.size)}]
        /\ UNCHANGED <<blob, seq, calls, breaker, clock, responses, streak>>

(* A call the cache cannot answer: refused by an open breaker, or sent.      *)
Miss(k, r) ==
    LET id == compute_cache_key(r, seq[k])
        free == 1..MaxCalls \ {c.n : c \in calls}
    IN  \E a \in act[k] :
          /\ ~a.exhausted
          /\ live_hit(a, id) = {}
          /\ act' = [act EXCEPT ![k] = {get(a, id)}]
          /\ \/ /\ a.facade /\ circuit_open(a.now)
                /\ UNCHANGED <<calls, breaker>>
             \/ /\ ~(a.facade /\ circuit_open(a.now))
                /\ free # {} /\ responses + Cardinality(calls) < MaxResponses
                /\ calls' = calls \cup {[k |-> k, id |-> id, n |-> Min(free), attempt |-> 1]}
                /\ breaker' = IF a.facade THEN before_call ELSE breaker
          /\ UNCHANGED <<blob, seq, clock, responses, streak>>

(* The provider answers: success is recorded, the response staged, charged.  *)
Respond(c) ==
    \E a \in act[c.k], size \in Sizes :
        /\ responses' = responses + 1
        /\ calls' = calls \ {c}
        /\ breaker' = IF a.facade THEN record_success ELSE breaker
        /\ streak' = IF a.facade THEN 0 ELSE streak
        /\ act' = [act EXCEPT ![c.k] =
                     {charge(put(a, c.id, responses', size), c.id, responses', size)}]
        /\ UNCHANGED <<blob, seq, clock>>

(* The provider fails: _call_with_retry tries again, or gives up and tells   *)
(* the breaker; call_model lets the error through at once.                   *)
AttemptFails(c) ==
    \E a \in act[c.k] :
        /\ \/ /\ a.facade /\ c.attempt < MaxAttempts
              /\ calls' = (calls \ {c}) \cup {[c EXCEPT !.attempt = @ + 1]}
              /\ UNCHANGED <<breaker, streak>>
           \/ /\ a.facade /\ c.attempt = MaxAttempts
              /\ calls' = calls \ {c}
              /\ streak < MaxFailures
              /\ breaker' = record_failure(a.now)
              /\ streak' = streak + 1
           \/ /\ ~a.facade
              /\ calls' = calls \ {c}
              /\ UNCHANGED <<breaker, streak>>
        /\ UNCHANGED <<blob, seq, act, clock, responses>>

(* The activation commits its blob.  Completed, the key moves on to the next *)
(* seq; suspended, the resume walks the same seq again.                      *)
Commit(k) ==
    /\ \A c \in calls : c.k # k
    /\ \E a \in act[k] : blob' = [blob EXCEPT ![k] = a.entries]
    /\ act' = [act EXCEPT ![k] = {}]
    /\ \E completed \in {0, 1} : seq' = [seq EXCEPT ![k] = @ + completed]
    /\ UNCHANGED <<calls, breaker, clock, responses, streak>>

Abandon_leaving_calls(k) ==
    /\ act[k] # {}
    /\ act' = [act EXCEPT ![k] = {}]
    /\ UNCHANGED <<blob, seq, calls, breaker, clock, responses, streak>>

(* The attempt raises, runs out of time or loses its bundle: its calls are   *)
(* cancelled and what it staged is gone.                                     *)
Abandon(k) ==
    /\ act[k] # {}
    /\ act' = [act EXCEPT ![k] = {}]
    /\ calls' = {c \in calls : c.k # k}
    /\ UNCHANGED <<blob, seq, breaker, clock, responses, streak>>

Tick ==
    /\ clock < MaxTime
    /\ clock' = clock + 1
    /\ UNCHANGED <<blob, seq, act, calls, breaker, responses, streak>>

Next ==
    \/ \E k \in Keys : Begin(k) \/ Commit(k) \/ Abandon(k)
    \/ \E k \in Keys, r \in Requests : Hit(k, r) \/ Miss(k, r)
    \/ \E c \in calls : Respond(c) \/ AttemptFails(c)
    \/ Tick

Spec == Init /\ [][Next]_vars

-----------------------------------------------------------------------------
Ids == Requests \X Nat

Entries == [id : Ids, response : Nat, created : Nat, size : Nat, digest_only : BOOLEAN]

Attempts == [now : Nat, facade : BOOLEAN, entries : Seq(Entries), total : Nat,
             consumed : Nat, exhausted : BOOLEAN, delivered : Nat,
             heard : SUBSET [id : Ids, response : Nat], evicted : SUBSET Ids]

(* Type correctness of the caches, the attempts, the calls and the breaker.  *)
TypeOK ==
    /\ blob \in [Keys -> Seq(Entries)] /\ seq \in [Keys -> Nat]
    /\ act \in [Keys -> SUBSET Attempts]
    /\ calls \subseteq [k : Keys, id : Ids, n : Nat, attempt : 1..MaxAttempts]
    /\ \A c \in calls : act[c.k] # {}
    /\ breaker \in [state : {"closed", "open", "half_open"}, failures : Nat, opened_at : Nat]
    /\ clock \in Nat /\ responses \in Nat /\ streak \in Nat

(* The caches a key has at a time: the committed one and the staged one.     *)
Caches(k) == {blob[k]} \cup {a.entries : a \in act[k]}

(* ReplayCache keeps its size by increments, over replaced, expired, touched *)
(* and evicted entries: the running total is the size of what is there, one  *)
(* entry per key, and what is committed respects both limits.                *)
CacheAccountsExactly ==
    \A k \in Keys :
        /\ \A a \in act[k] : a.total = size_of(a.entries)
        /\ \A es \in Caches(k) :
              /\ Cardinality({e.id : e \in ToSet(es)}) = Len(es)
              /\ Len(es) <= MAX_ENTRIES /\ size_of(es) <= BLOB_CAP_BYTES

(* Replay (correctness invariant 3): what an attempt hears for a request the *)
(* committed cache has bytes of is those bytes, so a resume or a retry walks *)
(* as before, whatever the provider would say now.  An entry this attempt's  *)
(* own calls pushed out is the one exception.                                *)
ReplayAgrees ==
    \A k \in Keys : \A a \in act[k] : \A h \in a.heard, e \in ToSet(blob[k]) :
        h.id = e.id /\ ~e.digest_only /\ ~is_expired(e, a.now) =>
            h.response = e.response \/ e.id \in a.evicted

(* The budget bounds what the agent is given, cache hits and calls that were *)
(* under way when it tripped included, and overshoots by one response only.  *)
BudgetHolds ==
    \A k \in Keys : \A a \in act[k] :
        /\ a.delivered <= Limit
        /\ \E s \in Sizes : a.consumed <= Limit + s
        /\ a.exhausted <=> a.consumed > Limit

(* The breaker leaves the closed state exactly when threshold failures have  *)
(* come since the last success, with calls of several keys answered and      *)
(* failing in any order and trials that are cancelled.                       *)
BreakerCounts == breaker.state = "closed" <=> streak < Threshold

(* put never evicts what it has just inserted: the answered request is in    *)
(* the cache, by its bytes or its digest, when the call returns.             *)
PutKeepsNewest ==
    [][\A c \in calls \ calls' : responses' # responses =>
          \A a \in act'[c.k] : \E e \in ToSet(a.entries) : e.id = c.id]_vars

(* A retried or resumed activation is told what it was told before, within   *)
(* its limits: the cache's totals are exact through expiry and eviction, two *)
(* answers to one request agree, and no tokens are spent past the budget.    *)
CallsReplay == TypeOK /\ CacheAccountsExactly /\ ReplayAgrees /\ BudgetHolds
=============================================================================
