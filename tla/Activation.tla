----------------------------- MODULE Activation -----------------------------
(***************************************************************************)
(* What one activation stages (core/context.py: ActivationContext; the     *)
(* driver core/loop.py: run_activation; observability/traces.py), over the *)
(* life of one key.  The agent is a deterministic program: a script of     *)
(* operations for its start and one for each resume, where an operation    *)
(* may depend on the model's last response or on working memory.  A step   *)
(* of this module is one whole attempt, committed by core/dofn.py or       *)
(* failed; admission, batching and timers are module AgentDoFn, the        *)
(* internals of a model call are module ModelCall.                         *)
(***************************************************************************)
EXTENDS Integers, FiniteSets, SequencesExt

CONSTANTS
    Programs,       \* sequences of scripts [ops, ends]; the first one starts
    Responses,      \* model responses, told apart by the tokens they count
    SummaryTrigger, \* SummarizeCompactor.trigger_bytes, in notes
    MaxAttempts,    \* bound: attempts of the key
    MaxEscalated    \* bound: escalations

(* What an agent's code does with its context, and when.                     *)
Operations == [do : {"llm", "tool", "act", "approve", "note", "raise"}, name : STRING,
               on_response : Nat, on_memory : Nat \cup {-1}]

ASSUME ActivationAssumption ==
    /\ Programs \subseteq Seq([ops : Seq(Operations), ends : {"completed", "suspended"}]) \ {<<>>}
    /\ Responses \subseteq Nat \ {0} /\ SummaryTrigger \in Nat \ {0}
    /\ MaxAttempts \in Nat /\ MaxEscalated \in Nat

VARIABLES
    program,        \* the deployed agent
    seq,            \* SEQ
    notes,          \* MEMORY: the number of notes in it
    llm_cache,      \* LLM_CACHE: [seq, request, response]
    continuation,   \* CONTINUATION: {} or {[seq, step, pending, attempt]}
    traces,         \* what .traces received, in order
    intents,        \* what .intents received, in order
    attempts        \* history: every attempt made and what came of it

keyVars == <<seq, notes, llm_cache, continuation>>
activationVars == <<program, keyVars, traces, intents, attempts>>

ActivationInit ==
    /\ program \in Programs
    /\ seq = 0 /\ notes = 0 /\ llm_cache = {} /\ continuation = {}
    /\ traces = <<>> /\ intents = <<>> /\ attempts = <<>>

-----------------------------------------------------------------------------
(* Trace identity: derived from the scope, never drawn.                      *)
span_id_for(q, role, index) == <<q, role, index>>

role_for_event_type(type) ==
    IF type \in {"ACTIVATION_START", "ACTIVATION_END"} THEN "activation" ELSE type

resume_parent_own(c) == span_id_for(c.seq, "activation", c.entry)

(* A resume hangs under the attempt that entered at step 0.                  *)
resume_parent(c) == span_id_for(c.seq, "activation", 0)

(* ActivationTrace._event and stamp: the attempt's own span for its bracket, *)
(* a child of it for the rest.                                               *)
trace_event(c, type, step, index, attributes) ==
    LET own == span_id_for(c.seq, "activation", c.entry)
        bracket == role_for_event_type(type) = "activation"
    IN [type |-> type, seq |-> c.seq, step |-> step, now |-> c.now,
        span |-> IF bracket THEN own ELSE span_id_for(c.seq, role_for_event_type(type), index),
        parent |-> IF ~bracket THEN own
                   ELSE IF c.resume THEN resume_parent(c) ELSE <<>>,
        attributes |-> attributes]

staged_trace(c, type, attributes) ==
    Append(c.traces, trace_event(c, type, c.step, c.step, attributes))

-----------------------------------------------------------------------------
(* ActivationContext.__init__: what an attempt starts from.                  *)
new_context(q, now, mem, cache, entry, resume) ==
    [seq |-> q, now |-> now, memory |-> mem, cache |-> cache, entry |-> entry,
     resume |-> resume, step |-> entry, tool |-> 0, served |-> 0, calls |-> 0,
     traces |-> <<>>, intents |-> <<>>, asked |-> {}, summarized |-> FALSE, status |-> "running",
     cursor |-> entry, pending |-> {}]

(* What a provider may do with a request besides answering it.               *)
Raises == 0     \* an exception reaches the agent and ends it
Misses == -1    \* the replay client has nothing to serve

cached(c, request) == {e \in c.cache : e.seq = c.seq /\ e.request = request}

(* call_model: cache first; a miss goes to the provider and is stored.       *)
call_model(c, request, provide) ==
    LET hit == cached(c, request) # {}
        answer == IF hit THEN (CHOOSE e \in cached(c, request) : TRUE).response ELSE provide[request]
        entry == [seq |-> c.seq, request |-> request, response |-> answer]
        stepped == [c EXCEPT !.step = @ + 1, !.asked = @ \cup {entry}]
    IN IF answer \in {Raises, Misses}
       THEN [stepped EXCEPT !.status = IF answer = Misses THEN "missed" ELSE "raised"]
       ELSE [stepped EXCEPT
               !.served = answer,
               !.calls = IF hit THEN @ ELSE @ + 1,
               !.cache = @ \cup {entry},
               !.traces = staged_trace(c, "LLM_CALL", [tokens |-> answer, cache_hit |-> hit,
                                                       billed |-> ~hit])]

(* run_tool: a counter of its own, the step cursor stays.                    *)
run_tool(c, name) ==
    [c EXCEPT !.tool = @ + 1,
              !.traces = Append(@, trace_event(c, "TOOL_CALL", c.step, c.tool, [tool |-> name]))]

intent_id_for(q, step) == <<q, step>>

(* act and request_approval, through _stage_intent.  The arguments hold what *)
(* the agent knew: its memory.                                               *)
_stage_intent(c, name, kind) ==
    LET intent == [id |-> intent_id_for(c.seq, c.step), name |-> name, kind |-> kind,
                   created |-> c.now, args |-> c.memory]
    IN [c EXCEPT !.step = @ + 1, !.intents = Append(@, intent),
                 !.traces = staged_trace(c, "INTENT_EMITTED", [id |-> intent.id, name |-> name,
                                                               kind |-> kind, created |-> c.now])]

(* One operation of the agent's script, when its condition holds.            *)
Applies(c, op) == op.on_response \in {0, c.served} /\ op.on_memory \in {-1, c.memory}

Operation(c, op, provide) ==
    IF c.status # "running" \/ ~Applies(c, op) THEN c
    ELSE CASE op.do = "llm"     -> call_model(c, op.name, provide)
           [] op.do = "tool"    -> run_tool(c, op.name)
           [] op.do = "act"     -> _stage_intent(c, op.name, "TOOL")
           [] op.do = "approve" -> _stage_intent(c, op.name, "APPROVAL")
           [] op.do = "note"    -> [c EXCEPT !.memory = @ + 1]
           [] op.do = "raise"   -> [c EXCEPT !.status = "raised"]

-----------------------------------------------------------------------------
(* The agent's turn: the opening event, then the script.                     *)
Agent(c, size, script, provide) ==
    LET kind == [kind |-> IF c.resume THEN "resume" ELSE "start", batch |-> size]
        opened == [c EXCEPT !.traces = <<trace_event(c, "ACTIVATION_START", 0, 0, kind)>>]
    IN FoldLeft(LAMBDA d, op : Operation(d, op, provide), opened, script.ops)

(* Tier-2 compaction: over the trigger, the summarizer calls the model and   *)
(* rewrites memory.                                                          *)
Summarized(c, enabled, provide) ==
    IF enabled /\ c.status = "running" /\ c.memory >= SummaryTrigger
    THEN LET d == call_model(c, "summary", provide)
         IN IF d.status = "running" THEN [d EXCEPT !.memory = 1, !.summarized = TRUE] ELSE d
    ELSE c

cursor_before_summary(before, after) == before.step

(* build_continuation runs after the summarizer: the cursor it persists      *)
(* counts the summarizer's calls.                                            *)
continuation_cursor(before, after) == after.step

(* run_activation: the staged result of an attempt.                          *)
run_activation(c, size, script, summarizer, provide) ==
    LET ran == Agent(c, size, script, provide)
        d == Summarized(ran, summarizer, provide)
        pending == {d.intents[i].id : i \in DOMAIN d.intents}
        waits == [d EXCEPT !.traces = staged_trace(d, "SUSPENDED", [pending |-> pending])]
        final == IF script.ends = "suspended" THEN waits ELSE d
        closing == [status |-> script.ends, kind |-> IF c.resume THEN "resume" ELSE "start"]
    IN IF d.status # "running" THEN d
       ELSE [final EXCEPT !.status = script.ends, !.pending = pending,
                          !.cursor = continuation_cursor(ran, d),
                          !.traces = staged_trace(final, "ACTIVATION_END", closing)]

(* FailureContext: where a failed attempt was.                               *)
failure_context(d) ==
    [step |-> d.step, last |-> d.traces[Len(d.traces)].type, staged |-> Len(d.intents),
     calls |-> d.calls]

(* _error_trace: built from the scope alone, as a step of the first attempt. *)
error_trace(q, now, reason, failure) ==
    trace_event(new_context(q, now, 0, {}, 0, FALSE), "ERROR", 0, 0,
                [reason |-> reason, failure |-> failure])

-----------------------------------------------------------------------------
Requests == (UNION {{op.name : op \in {o \in Range(program[i].ops) : o.do = "llm"}}
                   : i \in DOMAIN program}) \cup {"summary"}
Scripted(attempt) == program[IF attempt <= Len(program) THEN attempt ELSE Len(program)]

(* The history an attempt leaves; `at` is where its trace begins.            *)
Attempted(c, size, attempt, status, d) ==
    attempts' = Append(attempts,
        [seq |-> c.seq, resume |-> c.resume, attempt |-> attempt, size |-> size,
         memory |-> c.memory, asked |-> d.asked, summarized |-> d.summarized,
         status |-> status, at |-> Len(traces) + 1])

(* _commit: everything the attempt staged, and SEQ counts it.                *)
CommitAttempt(c, size, attempt, d) ==
    /\ d.status \in {"completed", "suspended"}
    /\ notes' = d.memory /\ llm_cache' = d.cache /\ seq' = seq + 1
    /\ continuation' = IF d.status = "suspended"
                       THEN {[seq |-> c.seq, step |-> d.cursor, pending |-> d.pending,
                              attempt |-> attempt + 1]}
                       ELSE {}
    /\ traces' = traces \o d.traces
    /\ intents' = intents \o [i \in DOMAIN d.intents |-> d.intents[i].id]
    /\ Attempted(c, size, attempt, d.status, d)
    /\ UNCHANGED program

(* An exception of the agent or its provider: one ERROR event with the       *)
(* position, and nothing else changes.                                       *)
FailAttempt(c, size, attempt, d) ==
    /\ d.status = "raised"
    /\ traces' = Append(traces, error_trace(c.seq, c.now, "activation_error", failure_context(d)))
    /\ Attempted(c, size, attempt, "failed", d)
    /\ UNCHANGED <<program, keyVars, intents>>

(* The bridge's timeout: no position to report.                              *)
TimeoutAttempt(c, size, attempt) ==
    /\ traces' = Append(traces, error_trace(c.seq, c.now, "activation_timeout", <<>>))
    /\ Attempted(c, size, attempt, "timed out", c)
    /\ UNCHANGED <<program, keyVars, intents>>

RunAttempt(c, size, attempt) ==
    \/ TimeoutAttempt(c, size, attempt)
    \/ \E provide \in [Requests -> Responses \cup {Raises}] :
        LET d == run_activation(c, size, Scripted(attempt), TRUE, provide)
        IN CommitAttempt(c, size, attempt, d) \/ FailAttempt(c, size, attempt, d)

Clock == Len(attempts) + 1

(* An event, or a flush of a buffer of two.                                  *)
StartAttempt(size) ==
    /\ Len(attempts) < MaxAttempts
    /\ RunAttempt(new_context(seq, Clock, notes, llm_cache, 0, FALSE), size, 1)

resume_entry_zero(k) == 0

(* A resume goes on from the continuation's cursor.                          *)
resume_entry(k) == k.step

ResumeAttempt ==
    /\ Len(attempts) < MaxAttempts
    /\ \E k \in continuation :
         /\ k.pending # {}
         /\ RunAttempt(new_context(k.seq, Clock, notes, llm_cache, resume_entry(k), TRUE), 0, k.attempt)

(* on_hitl escalates: an approval intent at the continuation's cursor.       *)
EscalateSuspension ==
    /\ Cardinality({i \in DOMAIN traces : traces[i].type = "INTENT_EMITTED"
                                          /\ traces[i].attributes.name = "escalation"}) < MaxEscalated
    /\ \E k \in continuation :
         LET c == new_context(k.seq, Clock, notes, {}, k.step, FALSE)
             d == _stage_intent(c, "escalation", "APPROVAL")
         IN /\ continuation' = {[k EXCEPT !.step = @ + 1, !.pending = @ \cup {d.intents[1].id}]}
            /\ traces' = traces \o d.traces
            /\ intents' = Append(intents, d.intents[1].id)
    /\ UNCHANGED <<program, seq, notes, llm_cache, attempts>>

(* Eviction from the replay cache, by whichever of its policies.             *)
EvictResponse(e) ==
    /\ e \in llm_cache
    /\ llm_cache' = llm_cache \ {e}
    /\ UNCHANGED <<program, seq, notes, continuation, traces, intents, attempts>>

ActivationNext ==
    \/ \E size \in {0, 2} : StartAttempt(size)
    \/ ResumeAttempt \/ EscalateSuspension
    \/ \E e \in llm_cache : EvictResponse(e)

ActivationSpec == ActivationInit /\ [][ActivationNext]_activationVars

-----------------------------------------------------------------------------
(* The effector takes two intents of the key for one when their ids agree:   *)
(* however starts, resumes, summaries and escalations interleave, an id is   *)
(* minted once.                                                              *)
StagedIdsUnique == IsInjective(intents)

(* Spans of the key's model calls, intents and attempts are all different,   *)
(* a resume's from its suspended attempt's as well, whose trace it shares.   *)
SpansDistinct ==
    LET once == {i \in DOMAIN traces :
                   traces[i].type \in {"ACTIVATION_START", "LLM_CALL", "INTENT_EMITTED"}}
    IN \A i, j \in once : traces[i].span = traces[j].span => i = j

(* Every event of a committed attempt hangs under an attempt traced before   *)
(* it, or opens its trace: a resumed attempt is found from the one it        *)
(* resumes.                                                                  *)
TraceIsRooted ==
    \A i \in DOMAIN traces :
        \/ traces[i].type = "ERROR" \/ traces[i].parent = <<>>
        \/ traces[i].type = "INTENT_EMITTED" /\ traces[i].attributes.name = "escalation"
        \/ \E j \in 1..(i - 1) : /\ traces[j].type = "ACTIVATION_START"
                                 /\ traces[j].span = traces[i].parent
                                 /\ traces[j].span # traces[i].span
=============================================================================
