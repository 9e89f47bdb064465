--------------------------- MODULE ProviderCalls ---------------------------
(***************************************************************************)
(* What lies behind a model call and what it leaves on the books: the      *)
(* providers of model/anthropic.py, model/openai_compat.py and             *)
(* model/vllm.py and the failures they classify (model/client.py,          *)
(* model/_http.py), the retries of LlmFacade, and the accounts an          *)
(* activation keeps of its calls: replay cache, token budget, tally        *)
(* (observability/metrics.py) and LLM_CALL events.  The agent calls the    *)
(* model through LlmFacade.complete or ActivationContext.call_model, and   *)
(* may go on after a call that raised.  Eviction, expiry and the circuit   *)
(* breaker are module ModelCall.                                           *)
(***************************************************************************)
EXTENDS Integers, FiniteSets

CONSTANTS
    ProviderKinds,  \* "anthropic", "openai", "endpoint", "sidecar"
    Questions,      \* requests an agent may make
    Bodies,         \* [prompt, completion, total, valid]: total 0 is absent
    BudgetLimit,    \* max_tokens_per_activation
    BaseMs, MaxMs,  \* RetryPolicy.base_ms, max_ms
    MaxSends,       \* RetryPolicy.max_attempts
    MaxQuestions,   \* bound: model calls of an attempt
    MaxTries        \* bound: attempts of the key

ASSUME ProviderAssumption ==
    /\ ProviderKinds \subseteq {"anthropic", "openai", "endpoint", "sidecar"}
    /\ Bodies \subseteq [prompt : Nat, completion : Nat, total : Nat, valid : BOOLEAN]
    /\ BudgetLimit \in Nat \ {0} /\ BaseMs \in Nat /\ MaxMs \in Nat
    /\ MaxSends \in Nat \ {0} /\ MaxQuestions \in Nat /\ MaxTries \in Nat

VARIABLES
    kind,       \* the deployed provider
    kept,       \* LLM_CACHE: [question, body]
    attempt,    \* {} or {the activation attempt under way}
    flight,     \* {} or {the call awaiting the provider, [question, facade, schema, send]}
    wait,       \* the last wait between two sends: [error, asked, slept]
    counters,   \* Beam counters and distribution sums, as recorded
    emitted,    \* what .traces, .intents and .errors received, counted
    spent,      \* history: tokens of the responses paid for in committed attempts
    tries       \* attempts begun

providerVars == <<kind, kept, attempt, flight, wait, counters, emitted, spent, tries>>

Zeros == [activations |-> 0, suspensions |-> 0, llm_calls |-> 0, tool_calls |-> 0,
          intents_emitted |-> 0, agent_errors |-> 0, tokens |-> 0, iterations |-> 0]
Nothing == [ends |-> 0, suspended |-> 0, billed_tokens |-> 0, direct_calls |-> 0,
            tool_calls |-> 0, intents |-> 0, errors |-> 0, metered_tokens |-> 0, steps |-> 0]
NoWait == [error |-> "none", asked |-> 0, slept |-> 0]

ProviderInit ==
    /\ kind \in ProviderKinds
    /\ kept = {} /\ attempt = {} /\ flight = {} /\ wait = NoWait
    /\ counters = Zeros /\ emitted = Nothing /\ spent = 0 /\ tries = 0

-----------------------------------------------------------------------------
(* What comes back: a status with its Retry-After and body, or none.         *)
TimedOut == 0
Unreachable == -1
Reply(status, retry_after, body) == [status |-> status, retry_after |-> retry_after, body |-> body]
NoRetryAfter == -1
Unreadable == -2
Malformed == [prompt |-> 0, completion |-> 0, total |-> 0, valid |-> FALSE]

Replies ==
    {Reply(200, NoRetryAfter, b) : b \in Bodies \cup {Malformed}}
    \cup {Reply(s, NoRetryAfter, Malformed) : s \in {TimedOut, Unreachable, 400, 429, 500}}
    \cup {Reply(429, asked, Malformed) : asked \in {2, Unreadable}}

(* _decode of each dialect: the usage a body states, or a ValueError.  Chat  *)
(* completions may state a total of their own.                               *)
_decodes(body) == body.valid
decode_messages(body) == body.prompt + body.completion
decode_chat(body) == IF body.total > 0 THEN body.total ELSE body.prompt + body.completion

(* The engine's body is written by _serialize_chat_completion: it adds up.   *)
_decode(body) ==
    CASE kind = "anthropic" -> decode_messages(body)
      [] kind \in {"openai", "endpoint"} -> decode_chat(body)
      [] kind = "sidecar" -> decode_chat([body EXCEPT !.total = body.prompt + body.completion])

(* raise_for_status_taxonomy.                                                *)
taxonomy(reply) ==
    IF reply.status < 400 THEN "none"
    ELSE IF reply.status = 429 THEN "RateLimitError"
    ELSE IF reply.status >= 500 THEN "ServerError"
    ELSE "ProviderRequestError"

(* wrap_timeout: an httpx failure that is no timeout passes as it is.        *)
posted(reply) ==
    IF reply.status = TimedOut THEN "ProviderTimeout"
    ELSE IF reply.status = Unreachable THEN "ConnectError"
    ELSE taxonomy(reply)

provider_undecoded(reply) == posted(reply)

(* A provider over HTTP posts, classifies, and tries to decode the body.     *)
AnthropicProvider(reply) ==
    IF posted(reply) = "none" /\ ~_decodes(reply.body) THEN "ProviderRequestError" ELSE posted(reply)
OpenAICompatProvider(reply) ==
    IF posted(reply) = "none" /\ ~_decodes(reply.body) THEN "ProviderRequestError" ELSE posted(reply)
VllmEndpointProvider(reply) == OpenAICompatProvider(reply)

(* The engine in the process: every failure of its own is mapped.            *)
VllmSidecarProvider(reply) ==
    CASE reply.status = TimedOut -> "ProviderTimeout"
      [] reply.status = 429 -> "RateLimitError"
      [] reply.status = 400 -> "ProviderRequestError"
      [] reply.status = 200 /\ _decodes(reply.body) -> "none"
      [] OTHER -> "ServerError"

complete(reply) ==
    CASE kind = "anthropic" -> AnthropicProvider(reply)
      [] kind = "openai" -> OpenAICompatProvider(reply)
      [] kind = "endpoint" -> VllmEndpointProvider(reply)
      [] kind = "sidecar" -> VllmSidecarProvider(reply)

(* Seconds only: a missing or unreadable header asks for nothing, and the    *)
(* engine has none.                                                          *)
_parse_retry_after_ms(reply) ==
    IF kind = "sidecar" \/ reply.retry_after = Unreadable THEN NoRetryAfter ELSE reply.retry_after

(* The subclasses of ProviderError; what else is raised is not retried.      *)
ProviderError == {"RateLimitError", "ServerError", "ProviderTimeout"}

delay_capped(n, error, reply, slept) ==
    LET pre_jitter == IF BaseMs * 2^(n - 1) < MaxMs THEN BaseMs * 2^(n - 1) ELSE MaxMs
    IN slept \in 0..pre_jitter

(* _compute_delay_ms: full jitter, and never less than the provider asks.    *)
_compute_delay_ms(n, error, reply, slept) ==
    LET pre_jitter == IF BaseMs * 2^(n - 1) < MaxMs THEN BaseMs * 2^(n - 1) ELSE MaxMs
    IN \E jittered \in 0..pre_jitter :
         slept = IF error = "RateLimitError" /\ _parse_retry_after_ms(reply) > jittered
                 THEN _parse_retry_after_ms(reply) ELSE jittered

-----------------------------------------------------------------------------
(* An attempt: the staged cache, the budget, the tally and what it stages.   *)
NewAttempt(cache) ==
    [cache |-> cache, consumed |-> 0, exhausted |-> FALSE, raised |-> FALSE, questions |-> 0,
     paid |-> 0, steps |-> 0, intents |-> 0,
     tally |-> [llm_calls |-> 0, tool_calls |-> 0, tokens |-> 0],
     staged |-> [billed_tokens |-> 0, direct_calls |-> 0, metered_tokens |-> 0, tool_calls |-> 0]]

BeginTry ==
    /\ attempt = {} /\ tries < MaxTries
    /\ tries' = tries + 1
    /\ attempt' = {NewAttempt(kept)}
    /\ UNCHANGED <<kind, kept, flight, wait, counters, emitted, spent>>

(* TokenBudget.charge.                                                       *)
charged(a, tokens) ==
    [a EXCEPT !.consumed = @ + tokens, !.exhausted = a.consumed + tokens > BudgetLimit,
              !.raised = a.consumed + tokens > BudgetLimit]

(* _stage_trace and _stage_llm_trace: a response's tokens are billed unless  *)
(* they come from the cache.                                                 *)
traced(a, tokens, hit, facade) ==
    [a EXCEPT !.staged.billed_tokens = IF hit THEN @ ELSE @ + tokens,
              !.staged.metered_tokens = IF hit \/ ~facade THEN @ ELSE @ + tokens,
              !.staged.direct_calls = IF hit \/ facade THEN @ ELSE @ + 1]

finish_untraced(a, body, hit, schema) ==
    LET tokens == _decode(body)
        counted == IF hit THEN a ELSE [a EXCEPT !.tally.tokens = @ + tokens]
        d == charged(counted, tokens)
    IN IF d.exhausted THEN d ELSE [traced(d, tokens, hit, TRUE) EXCEPT !.raised = schema = "fails"]

(* LlmFacade._finish: usage, budget, output schema; the event is staged      *)
(* whichever of them raises.                                                 *)
_finish(a, body, hit, schema) ==
    LET tokens == _decode(body)
        counted == IF hit THEN a ELSE [a EXCEPT !.tally.tokens = @ + tokens]
        d == charged(counted, tokens)
    IN [traced(d, tokens, hit, TRUE) EXCEPT !.raised = @ \/ schema = "fails"]

(* The two ends of call_model: the event, then the budget.                   *)
_finish_direct(a, body, hit) ==
    LET b == IF hit THEN a ELSE [a EXCEPT !.tally.llm_calls = @ + 1]
    IN charged(traced(b, _decode(body), hit, FALSE), _decode(body))

finished(a, q, body, hit) ==
    IF q.facade THEN _finish(a, body, hit, q.schema) ELSE _finish_direct(a, body, hit)

served(a, question) == {e.body : e \in {x \in a.cache : x.question = question}}

(* complete and call_model up to the provider: the budget's check, the cache *)
(* and, for call_model, the step cursor.                                     *)
Ask(question, facade, schema) ==
    LET q == [question |-> question, facade |-> facade, schema |-> schema, send |-> 1]
    IN /\ flight = {}
       /\ \E a \in attempt :
            LET stepped == [a EXCEPT !.questions = @ + 1, !.steps = IF facade THEN @ ELSE @ + 1]
            IN /\ ~a.raised /\ a.questions < MaxQuestions
               /\ IF a.exhausted
                  THEN attempt' = {[a EXCEPT !.raised = TRUE, !.questions = @ + 1]} /\ UNCHANGED flight
                  ELSE IF served(a, question) # {}
                  THEN /\ \E body \in served(a, question) : attempt' = {finished(stepped, q, body, TRUE)}
                       /\ UNCHANGED flight
                  ELSE attempt' = {stepped} /\ flight' = {q}
       /\ wait' = NoWait
       /\ UNCHANGED <<kind, kept, counters, emitted, spent, tries>>

(* The provider returns a response: it is put in the cache, then accounted.  *)
Responds(reply) ==
    /\ complete(reply) = "none"
    /\ \E q \in flight, a \in attempt :
         LET put == [a EXCEPT !.cache = @ \cup {[question |-> q.question, body |-> reply.body]},
                              !.paid = @ + _decode(reply.body)]
         IN attempt' = {IF _decodes(reply.body) THEN finished(put, q, reply.body, FALSE)
                        ELSE [put EXCEPT !.raised = TRUE]}
    /\ flight' = {} /\ wait' = NoWait
    /\ UNCHANGED <<kind, kept, counters, emitted, spent, tries>>

(* _call_with_retry sleeps and sends again.                                  *)
Resends(reply, slept) ==
    /\ complete(reply) \in ProviderError
    /\ \E q \in flight :
         /\ q.facade /\ q.send < MaxSends
         /\ _compute_delay_ms(q.send, complete(reply), reply, slept)
         /\ flight' = {[q EXCEPT !.send = @ + 1]}
    /\ wait' = [error |-> IF reply.status >= 400 /\ reply.status < 500 /\ reply.status # 429
                          THEN "client" ELSE "transient",
                asked |-> _parse_retry_after_ms(reply), slept |-> slept]
    /\ UNCHANGED <<kind, kept, attempt, counters, emitted, spent, tries>>

(* The failure reaches the agent: attempts are used up, it is none of the    *)
(* retryable ones, or the surface does not retry.                            *)
Raises(reply) ==
    /\ complete(reply) # "none"
    /\ \E q \in flight : ~q.facade \/ q.send = MaxSends \/ complete(reply) \notin ProviderError
    /\ attempt' = {[a EXCEPT !.raised = TRUE] : a \in attempt}
    /\ flight' = {} /\ wait' = NoWait
    /\ UNCHANGED <<kind, kept, counters, emitted, spent, tries>>

(* An agent that catches the exception and goes on.                          *)
Swallows ==
    /\ \E a \in attempt : a.raised /\ attempt' = {[a EXCEPT !.raised = FALSE]}
    /\ UNCHANGED <<kind, kept, flight, wait, counters, emitted, spent, tries>>

(* run_tool and act: a read-only tool is no step, an intent is one.          *)
Stages(tool) ==
    /\ flight = {}
    /\ \E a \in attempt :
         /\ ~a.raised /\ a.questions < MaxQuestions
         /\ attempt' = {IF tool
                        THEN [a EXCEPT !.tally.tool_calls = @ + 1, !.staged.tool_calls = @ + 1,
                                       !.questions = @ + 1]
                        ELSE [a EXCEPT !.intents = @ + 1, !.steps = @ + 1, !.questions = @ + 1]}
    /\ UNCHANGED <<kind, kept, flight, wait, counters, emitted, spent, tries>>

(* _record_commit, from the staged result alone.                             *)
_record_commit(a, suspended) ==
    [counters EXCEPT
       !.activations = @ + 1, !.suspensions = @ + suspended,
       !.intents_emitted = @ + a.intents, !.llm_calls = @ + a.tally.llm_calls,
       !.tool_calls = @ + a.tally.tool_calls, !.tokens = @ + a.tally.tokens,
       !.iterations = @ + a.steps]

record_error_with_tally(a) ==
    [counters EXCEPT !.agent_errors = @ + 1, !.llm_calls = @ + a.tally.llm_calls,
                     !.tool_calls = @ + a.tally.tool_calls]

(* A failed attempt moves one counter; its tally does not escape.            *)
record_error(a) == [counters EXCEPT !.agent_errors = @ + 1]

CommitTry(suspended) ==
    /\ flight = {}
    /\ \E a \in attempt :
         /\ ~a.raised
         /\ kept' = a.cache
         /\ counters' = _record_commit(a, suspended)
         /\ emitted' = [emitted EXCEPT
                          !.ends = @ + 1, !.suspended = @ + suspended,
                          !.billed_tokens = @ + a.staged.billed_tokens,
                          !.metered_tokens = @ + a.staged.metered_tokens,
                          !.direct_calls = @ + a.staged.direct_calls,
                          !.tool_calls = @ + a.staged.tool_calls,
                          !.intents = @ + a.intents, !.steps = @ + a.steps]
         /\ spent' = spent + a.paid
    /\ attempt' = {}
    /\ UNCHANGED <<kind, flight, wait, tries>>

(* The agent lets it through, or runs out of time: one dead letter.          *)
FailTry ==
    /\ \E a \in attempt : counters' = record_error(a)
    /\ attempt' = {} /\ flight' = {} /\ wait' = NoWait
    /\ emitted' = [emitted EXCEPT !.errors = @ + 1]
    /\ UNCHANGED <<kind, kept, spent, tries>>

ProviderNext ==
    \/ BeginTry \/ Swallows \/ FailTry
    \/ \E question \in Questions, facade \in BOOLEAN, schema \in {"fits", "fails"} :
         (facade \/ schema = "fits") /\ Ask(question, facade, schema)
    \/ \E reply \in Replies : Responds(reply) \/ Raises(reply)
    \/ \E reply \in Replies, slept \in 0..3 : Resends(reply, slept)
    \/ \E tool \in BOOLEAN : Stages(tool)
    \/ \E suspended \in {0, 1} : CommitTry(suspended)

-----------------------------------------------------------------------------
(* Two sends of one call are at least as far apart as the provider's         *)
(* Retry-After asks, and a request the provider refused as wrong is never    *)
(* sent twice (facade._call_with_retry, _http.raise_for_status_taxonomy).    *)
RetriesAreCivil == wait.error # "client" /\ wait.slept >= wait.asked

(* A response enters the replay cache only if it can be decoded again: a     *)
(* poisoned entry would fail every retry of the activation it is kept for,   *)
(* also when the agent had swallowed the first failure.                      *)
CachedAreDecodable == \A e \in kept \cup UNION {a.cache : a \in attempt} : _decodes(e.body)

(* The billed tokens on .traces are what the provider was paid for in the    *)
(* committed attempts, each response once: also when the budget tripped on   *)
(* it, its schema did not fit, or a later call was served from the cache.    *)
SpendIsTraced == emitted.billed_tokens = spent

(* The counters agree with the streams (metrics.py): activations with the    *)
(* closed attempts, intents_emitted with .intents, llm_calls and tool_calls  *)
(* with the events of committed attempts, agent_errors with .errors.         *)
CountersMatchStreams ==
    /\ counters.activations = emitted.ends /\ counters.suspensions = emitted.suspended
    /\ counters.intents_emitted = emitted.intents /\ counters.agent_errors = emitted.errors
    /\ counters.llm_calls = emitted.direct_calls /\ counters.tool_calls = emitted.tool_calls
    /\ counters.tokens = emitted.metered_tokens /\ counters.iterations = emitted.steps

(* What a call leaves on the books is what happened: the provider is asked   *)
(* again only when it may be, what is kept can be read again, and spend,     *)
(* counters and streams agree on every path out of a call.                   *)
AccountsAgree == RetriesAreCivil /\ CachedAreDecodable /\ SpendIsTraced /\ CountersMatchStreams
=============================================================================
