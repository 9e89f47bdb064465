--------------------------- MODULE AdapterHistory ---------------------------
(***************************************************************************)
(* What a framework run reads, executes and leaves behind under the ADK    *)
(* and Pydantic AI adapters (adapters/adk: agent.py, session.py, tools.py, *)
(* events.py; adapters/pydantic_ai: agent.py, history.py, toolset.py).     *)
(* The conversation is one working-memory scalar: staged during an         *)
(* activation, committed with it.  The model's calls run concurrently;     *)
(* those with an effect become intents, whose ids count the steps.  How    *)
(* answers accumulate until a run may resume is module AdapterAgent; here  *)
(* a resume brings them all.                                               *)
(***************************************************************************)
EXTENDS Integers, FiniteSetsExt, SequencesExt

CONSTANTS
    HistoryFrameworks, \* subset of {"adk", "pydantic_ai"}
    MaxEventsOptions,  \* values of AdkAgent(max_events=...); 0 for None
    MaxBatch,       \* bound: calls the model makes in one run
    MaxRuns,        \* bound: committed activations
    MaxFailures     \* bound: attempts that fail

ASSUME HistoryAssumption ==
    /\ HistoryFrameworks \subseteq {"adk", "pydantic_ai"}
    /\ MaxEventsOptions \subseteq Nat \ {1}
    /\ MaxBatch \in Nat /\ MaxRuns \in Nat /\ MaxFailures \in Nat

VARIABLES
    framework,      \* the adapter deployed
    recognized,     \* the adapter finds the httpx client of the chat model
    max_events,     \* the session's trimming knob, 0 when it is off
    history,        \* committed: the conversation's events, in order
    suspended_on,   \* committed: the pending calls of the suspension, by intent
    attempt,        \* {} or {the attempt in flight}
    commits,        \* activations committed so far; stands for the position
    failures,       \* attempts failed so far
    plans           \* history: [plan, intent, call] staged by the attempts at the
                    \* activation last committed or tried

historyVars ==
    <<framework, recognized, max_events, history, suspended_on, attempt, commits, failures, plans>>

(* _find_async_client: the shapes of a model object in which the adapter     *)
(* finds an httpx client; a Gemini wrapper without credentials raises.       *)
Layouts == {"httpx client", "sdk over httpx", "genai client", "gemini", "gemini without key",
            "other"}
_find_async_client(layout) ==
    layout \in IF framework = "adk" THEN {"httpx client", "genai client", "gemini"}
               ELSE {"httpx client", "sdk over httpx"}

HistoryInit ==
    /\ framework \in HistoryFrameworks
    /\ recognized \in {_find_async_client(layout) : layout \in Layouts}
    /\ max_events \in IF framework = "adk" THEN MaxEventsOptions ELSE {0}
    /\ history = <<>> /\ suspended_on = {} /\ attempt = {}
    /\ commits = 0 /\ failures = 0 /\ plans = {}

-----------------------------------------------------------------------------
(* How a tool call is treated follows from the tool: a read-only one runs    *)
(* inline, a side effect is collected or deferred, and so is an approval.    *)
(* The calls of a sub-agent run as a tool do not show in the event stream.   *)
CallKinds == {"function", "external", "unapproved"}
CallShapes ==
    {s \in [kind : CallKinds, shown : BOOLEAN] :
        s.shown \/ (framework = "adk" /\ s.kind = "external")}

CallsOf(shapes, run, turn) ==
    [i \in DOMAIN shapes |-> [run |-> run, turn |-> turn, pos |-> i,
                              kind |-> shapes[i].kind, shown |-> shapes[i].shown]]
Deferred(calls) == SelectSeq(calls, LAMBDA c : c.kind # "function")

Event(what, calls) == [what |-> what, calls |-> calls, partial |-> FALSE]
Partial(event) == [event EXCEPT !.partial = TRUE]

append_event_streaming(events, event) == Append(events, event)

(* BeamSessionService.append_event: partials are not kept, and the oldest    *)
(* events make room.                                                         *)
append_event(events, event) ==
    IF event.partial THEN events
    ELSE LET all == Append(events, event)
         IN IF max_events > 0 /\ Len(all) > max_events
            THEN SubSeq(all, Len(all) - max_events + 1, Len(all)) ELSE all

(* A streamed response comes in parts before it comes whole.                 *)
append_streamed(events, event) == append_event(append_event(events, Partial(event)), event)

(* get_session and create_session, _load_history: the committed conversation *)
(* of the key, or an empty one.                                              *)
loaded_history == history

(* _function_response_message, _deferred_results: one reply for each pending *)
(* call, under the call's own id.                                            *)
responses == {p.call : p \in suspended_on}

-----------------------------------------------------------------------------
Staged(a, pairs) == {[plan |-> a.plan, intent |-> p.intent, call |-> p.call] : p \in pairs}
PlansInPlay == {p \in plans : p.intent[1] = commits}

(* An event or the last missing answer begins an attempt.                    *)
NewTry(input, events, running) ==
    {[events |-> events, plan |-> <<input>>, calls |-> <<>>, turn |-> 0,
      asked |-> 0, running |-> running, collected |-> <<>>, tool_index |-> 0]}

(* A decision approves its call or denies it; ADK and the model get it as a  *)
(* reply, Pydantic AI executes the call.                                     *)
executes(approved) == IF framework = "pydantic_ai" THEN approved ELSE {}

StartTry ==
    /\ attempt = {} /\ commits < MaxRuns
    /\ attempt' = NewTry(<<"event", {}>>, append_event(loaded_history, Event("user", {})), {})
    /\ plans' = PlansInPlay
    /\ UNCHANGED <<framework, recognized, max_events, history, suspended_on, commits, failures>>

ResumeTry ==
    /\ attempt = {} /\ suspended_on # {} /\ commits < MaxRuns
    /\ \E approved \in SUBSET {c \in responses : c.kind = "unapproved"} :
         attempt' = NewTry(<<"answers", approved>>,
                           append_event(loaded_history, Event("replies", responses)),
                           executes(approved))
    /\ plans' = PlansInPlay
    /\ UNCHANGED <<framework, recognized, max_events, history, suspended_on, commits, failures>>

(* The model answers: with text, which ends the run, or with calls, which    *)
(* the framework starts together.  Pydantic AI does not start deferred ones. *)
starts(calls) ==
    {c \in ToSet(calls) : framework = "adk" \/ c.kind = "function"}

Respond(a) ==
    /\ a.running = {} /\ a.calls = <<>>
    /\ \E n \in 1..(MaxBatch - a.asked) : \E shapes \in [1..n -> CallShapes] :
         LET calls == CallsOf(shapes, commits, a.turn)
             shown == {c \in ToSet(calls) : c.shown}
         IN attempt' = {[a EXCEPT !.plan = Append(@, shapes), !.calls = calls, !.turn = @ + 1,
                                  !.asked = @ + n, !.running = starts(calls),
                                  !.events = append_streamed(@, Event("calls", shown))]}
    /\ UNCHANGED <<framework, recognized, max_events, history, suspended_on, commits, failures, plans>>

(* run_async of the three tool shims, in whatever order the calls finish: a  *)
(* read-only one stages a TOOL_CALL under the tee's next index, the others   *)
(* record themselves under their function-call id and return nothing.        *)
tool_call(index) == index + 1
record(collected, call) == Append(collected, call)

ToolReturns(a, c) ==
    /\ c \in a.running
    /\ attempt' = {[a EXCEPT !.running = @ \ {c},
                             !.tool_index = IF c.kind = "external" THEN @ ELSE tool_call(@),
                             !.collected = IF c.kind = "function" \/ framework = "pydantic_ai"
                                           THEN @ ELSE record(@, c)]}
    /\ UNCHANGED <<framework, recognized, max_events, history, suspended_on, commits, failures, plans>>

(* Every call was read-only: its results go back to the model.               *)
replied(a) ==
    LET reads == {c \in ToSet(a.calls) : c.kind = "function" /\ c.shown}
    IN IF reads = {} THEN a.events ELSE append_event(a.events, Event("replies", reads))

FeedBack(a) ==
    /\ a.running = {} /\ a.calls # <<>> /\ Deferred(a.calls) = <<>>
    /\ attempt' = {[a EXCEPT !.calls = <<>>, !.events = replied(a)]}
    /\ UNCHANGED <<framework, recognized, max_events, history, suspended_on, commits, failures, plans>>

-----------------------------------------------------------------------------
by_id(calls) == SortSeq(calls, LAMBDA c, d : c.pos < d.pos)

calls_then_approvals(calls) ==
    SelectSeq(calls, LAMBDA c : c.kind = "external")
      \o SelectSeq(calls, LAMBDA c : c.kind = "unapproved")

ordered_as_collected(a) ==
    IF framework = "adk" THEN a.collected ELSE calls_then_approvals(a.calls)

(* _stage_and_suspend: the ADK order is that of the event stream, then of    *)
(* the ids it did not surface; Pydantic AI lists calls, then approvals.      *)
ordered(a) ==
    IF framework = "adk"
    THEN SelectSeq(a.calls, LAMBDA c : c.shown /\ c \in ToSet(a.collected))
           \o by_id(SelectSeq(a.collected, LAMBDA c : ~c.shown))
    ELSE calls_then_approvals(a.calls)

(* _ReplayTransport: within an activation the request of a recognized model  *)
(* goes to ctx.call_model, which takes a step; any other model talks to its  *)
(* provider beside the activation.                                           *)
handle_async_request(turns) == IF recognized THEN turns ELSE 0

(* ctx.act and ctx.request_approval: an intent takes a step too, and its id  *)
(* is derived from it.                                                       *)
intent_ids(a) ==
    LET step == handle_async_request(a.turn)
    IN {[intent |-> <<commits, step + i>>, call |-> ordered(a)[i]] : i \in DOMAIN ordered(a)}

SuspendTry(a) ==
    /\ a.running = {} /\ Deferred(a.calls) # <<>>
    /\ history' = replied(a)
    /\ suspended_on' = intent_ids(a)
    /\ plans' = plans \cup Staged(a, intent_ids(a))
    /\ attempt' = {} /\ commits' = commits + 1
    /\ UNCHANGED <<framework, recognized, max_events, failures>>

CompleteTry(a) ==
    /\ a.running = {} /\ a.calls = <<>>
    /\ history' = append_streamed(a.events, Event("answer", {}))
    /\ suspended_on' = {} /\ attempt' = {} /\ commits' = commits + 1
    /\ UNCHANGED <<framework, recognized, max_events, failures, plans>>

(* A tool raises, the deadline passes or the bundle is lost, at the latest   *)
(* after the intents were staged: nothing staged is committed.               *)
AbortTry(a) ==
    /\ failures < MaxFailures
    /\ plans' = IF a.running = {} /\ Deferred(a.calls) # <<>>
                THEN plans \cup Staged(a, intent_ids(a))
                ELSE plans
    /\ attempt' = {} /\ failures' = failures + 1
    /\ UNCHANGED <<framework, recognized, max_events, history, suspended_on, commits>>

HistoryNext ==
    \/ StartTry \/ ResumeTry
    \/ \E a \in attempt :
         \/ Respond(a) \/ FeedBack(a) \/ SuspendTry(a) \/ CompleteTry(a) \/ AbortTry(a)
         \/ \E c \in a.running : ToolReturns(a, c)

-----------------------------------------------------------------------------
(* Attempts at one activation that were given the same input and the same    *)
(* model responses stage the same intents, in whatever order their tools     *)
(* finished: an intent_id never names two calls, so the effector's record of *)
(* the first attempt's effect is the answer to the second one's.             *)
IntentsFollowTheModel ==
    \A p, q \in plans : p.plan = q.plan /\ p.intent = q.intent => p.call = q.call

EventsOf(what) == {i \in DOMAIN history : history[i].what = what}
LastUser == Max(EventsOf("user") \cup {0})
Asked == UNION {history[i].calls : i \in {j \in EventsOf("calls") : j > LastUser}}
Answered == UNION {history[i].calls : i \in EventsOf("replies")}

(* The kept conversation and the suspension agree: since the last user       *)
(* message, the calls without a reply are exactly the calls awaited (those   *)
(* the stream showed), and no call is asked or answered twice; so a resume   *)
(* finds each call it replies to, however often attempts failed in between   *)
(* and wherever max_events cut the history.                                  *)
ConversationMatchesWait ==
    /\ Asked \ Answered = {c \in responses : c.shown}
    /\ \A what \in {"calls", "replies"} : \A i, j \in EventsOf(what) :
         i # j => history[i].calls \cap history[j].calls = {}
=============================================================================
