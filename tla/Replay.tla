------------------------------- MODULE Replay -------------------------------
(***************************************************************************)
(* The replay of an attempt (replay/bundle.py, replay/diff.py,             *)
(* replay/provider.py, replay/__main__.py) from a snapshot of the key's    *)
(* state, the key's traces and the envelope of the attempt.  A replay      *)
(* reads only, so it is a function of the state it is made in: what it     *)
(* says is asked in every reachable state, of every attempt made so far.   *)
(***************************************************************************)
EXTENDS Activation, Collections

(* The events of a seq.                                                      *)
scoped(q) == Picked(traces, {i \in DOMAIN traces : traces[i].seq = q})

(* _select_attempt: a group opens at an ACTIVATION_START, and at the first   *)
(* event; the last group of the wanted kind, else the last group.            *)
group_starts(events) ==
    {i \in DOMAIN events : i = 1 \/ events[i].type = "ACTIVATION_START"}
group_at(events, i) ==
    SubSeq(events, i, Min({j - 1 : j \in {k \in group_starts(events) : k > i}} \cup {Len(events)}))

_select_attempt(events, resume) ==
    LET matching == {i \in group_starts(events) :
                       /\ events[i].type = "ACTIVATION_START"
                       /\ events[i].attributes.kind = IF resume THEN "resume" ELSE "start"}
    IN group_at(events, Max(IF matching # {} THEN matching ELSE group_starts(events)))

(* _recover_now_ms: every event of an attempt carries its clock.             *)
_recover_now_ms(attempt) == attempt[1].now

(* CacheOnlyLLMClient: reaching it is a miss.                                *)
CacheOnlyLLMClient == [r \in Requests |-> Misses]

(* build_bundle refuses a resume the snapshot does not wait for.             *)
usable(resume) == resume => \E k \in continuation : k.pending # {}

(* run_replay: run_activation on the snapshot's state, without a batch and   *)
(* without a summarizer.                                                     *)
run_replay(q, resume) ==
    LET now == _recover_now_ms(_select_attempt(scoped(q), resume))
        k == CHOOSE k \in continuation : TRUE
        entry == IF resume THEN k.step ELSE 0
        script == Scripted(IF resume THEN k.attempt ELSE 1)
    IN run_activation(new_context(q, now, notes, llm_cache, entry, resume), 0, script, FALSE,
                      CacheOnlyLLMClient)

(* What a re-run would have emitted.                                         *)
replayed_events(q, now, d) ==
    IF d.status = "raised" THEN <<error_trace(q, now, "activation_error", failure_context(d))>>
    ELSE d.traces

normalize_event_never(e) == e

(* normalize_event: a replayed call is always served from the cache.         *)
normalize_event(e) ==
    IF e.type = "LLM_CALL" THEN [e EXCEPT !.attributes.cache_hit = TRUE, !.attributes.billed = FALSE]
    ELSE e

(* _traced_status: a failure, else the status the closing event carries.     *)
_traced_status(events) ==
    LET closing == {events[i].attributes.status : i \in {j \in DOMAIN events :
                                                          events[j].type = "ACTIVATION_END"}}
    IN IF \E i \in DOMAIN events : events[i].type = "ERROR" THEN {"raised"} ELSE closing

(* _event_differences: the same events, once normalized.                     *)
same_events(traced, replayed) ==
    /\ Len(traced) = Len(replayed)
    /\ \A i \in DOMAIN traced : normalize_event(traced[i]) = normalize_event(replayed[i])

(* _intent_differences: by id, name, kind and expiry; not by arguments.      *)
same_intents(traced, d) ==
    LET emitted == Picked(traced, {i \in DOMAIN traced : traced[i].type = "INTENT_EMITTED"})
        staged == IF d.status = "raised" THEN <<>> ELSE d.intents
    IN /\ Len(emitted) = Len(staged)
       /\ \A i \in DOMAIN emitted :
            emitted[i].attributes = [id |-> staged[i].id, name |-> staged[i].name,
                                     kind |-> staged[i].kind, created |-> staged[i].created]

(* main: the exit code of a replay.                                          *)
verdict(q, resume) ==
    IF ~usable(resume) THEN "usage"
    ELSE LET traced == _select_attempt(scoped(q), resume)
             d == run_replay(q, resume)
         IN IF d.status = "missed" THEN "irreproducible"
            ELSE IF /\ _traced_status(traced) \subseteq {d.status}
                    /\ same_events(traced, replayed_events(q, _recover_now_ms(traced), d))
                    /\ same_intents(traced, d)
                 THEN "reproduced" ELSE "diverged"

-----------------------------------------------------------------------------
(* What docs/replay.md promises about: the responses are still cached, the   *)
(* walk read no memory or finds it as it was; one event, no summary.         *)
reads_memory(script) == \E op \in Range(script.ops) : op.on_memory # -1
Captured(h) ==
    /\ h.asked \subseteq llm_cache
    /\ notes = h.memory \/ ~reads_memory(Scripted(h.attempt))
    /\ h.size = 0 /\ ~h.summarized

(* The trace of the attempt's seq goes on with nothing but other attempts'.  *)
Undisturbed(h) ==
    \A i \in (h.at + 1)..Len(traces) :
        traces[i].seq = h.seq => /\ traces[i].type # "ERROR"
                                 /\ traces[i].type = "INTENT_EMITTED"
                                      => traces[i].attributes.name # "escalation"

(* A start that committed, or failed in the agent's own logic, replays to    *)
(* the same verdict, events and intents, at any later time the snapshot is   *)
(* taken, whatever else the key went through in between.                     *)
ReplayReproduces ==
    \A i \in DOMAIN attempts :
        LET h == attempts[i] IN
        ~h.resume /\ h.status # "timed out" /\ Captured(h) /\ Undisturbed(h)
            /\ (h.status = "failed" => Len(scoped(h.seq)) = 1)
            => verdict(h.seq, FALSE) = "reproduced"

(* openspec/specs/replay-cli/spec.md, "A failed activation replays to its    *)
(* traced failure position": one that failed before any provider-reached     *)
(* call, replayed from a snapshot taken after the failure.                   *)
FailedReplays ==
    attempts # <<>> =>
        LET h == attempts[Len(attempts)] IN
        h.status = "failed" /\ Captured(h) => verdict(h.seq, h.resume) = "reproduced"

(* What an activation stages identifies it: its intents, spans and trace     *)
(* tree are its own over every interleaving of attempts, and the record is   *)
(* enough to reproduce a start.                                              *)
EffectsAreIdentified == StagedIdsUnique /\ SpansDistinct /\ TraceIsRooted /\ ReplayReproduces
=============================================================================
