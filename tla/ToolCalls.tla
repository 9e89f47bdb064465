------------------------------ MODULE ToolCalls ------------------------------
(* Where a tool's body runs.  A tool is declared read-only or side-effecting *)
(* (tools/registry.py).  The authoring surface of an activation              *)
(* (core/context.py, AgentContext) runs the read-only ones inline            *)
(* (tools/runner.py) and stages the others as intents; the effector runs     *)
(* those and only those (effector/runner.py).  The two deployments each hold *)
(* a registry of their own, and the two need not agree.                      *)
EXTENDS Naturals, Sequences, FiniteSets

CONSTANTS Names,          \* names of tools
          Callables,      \* functions authors decorate: [params, sync]
          ArgumentSets,   \* arguments of a call: [keys, typed, json]
          MaxIntents, MaxReads, MaxExecutions, MaxActivations

ASSUME ToolAssumption ==
    /\ \A f \in Callables : f.sync \in BOOLEAN
    /\ \A a \in ArgumentSets : {a.typed, a.json} \subseteq BOOLEAN

VARIABLES registry,   \* the pipeline's tools by name
          deployed,   \* the effector's tools by name
          up,         \* whether the effector has started
          ctx,        \* the AgentContext of the current attempt
          abandoned,  \* the intents staged by an attempt that failed
          bodies,     \* runs of a tool's body, of this attempt or by the effector
          execution,  \* the effector's work on each intent that left
          results     \* the ToolResults it published

toolVars == <<registry, deployed, up, ctx, abandoned, bodies, execution, results>>
-----------------------------------------------------------------------------
(* Declaring tools: a callable is a set of parameters and says whether it is *)
(* a plain function (which the effector runs in a thread) or a coroutine.    *)

_annotation_is_intent_info(p) == p.annotation = "IntentInfo"

_detect_intent_param(f) == \E p \in f.params : _annotation_is_intent_info(p)

modelled_params(f) ==
    {p \in f.params : ~(_detect_intent_param(f) /\ p.name = "intent")}

\* Otherwise the decorator raises ToolDefinitionError.
well_defined(f, side_effect) ==
    /\ \A p \in f.params : _annotation_is_intent_info(p) =>
           p.name = "intent" /\ p.kind = "keyword_only" /\ side_effect
    /\ \A p \in modelled_params(f) : p.kind # "variadic" /\ p.annotation # "none"

Tool(f, side_effect) ==
    [side_effect    |-> side_effect,
     accepts_intent |-> _detect_intent_param(f),
     required       |-> {p.name : p \in {q \in modelled_params(f) : q.required}},
     sync           |-> f.sync]

\* A key the model does not know is ignored, except the one the runtime injects.
_reject_injected_intent(t, args) == t.accepts_intent /\ "intent" \in args.keys

model_validate(t, args) ==
    /\ t.required \subseteq args.keys
    /\ args.typed
    /\ ~_reject_injected_intent(t, args)

register(tools, n, f, side_effect) ==
    [m \in DOMAIN tools \cup {n} |-> IF m = n THEN Tool(f, side_effect) ELSE tools[m]]

registrable(tools, n, f, side_effect) ==
    n \notin DOMAIN tools /\ well_defined(f, side_effect)

known(tools, n) == n \in DOMAIN tools        \* else get raises ToolNotFoundError
-----------------------------------------------------------------------------
(* The activation's staging surface.                                         *)

NoTools == [n \in {} |-> n]

AgentContext(n) ==
    [status |-> "running", attempt |-> n, step |-> 0, tool_index |-> 0,
     intents |-> <<>>, traces |-> <<>>,
     tally |-> [tool_calls |-> 0, iterations |-> 0]]

_stage_intent(c, name, args, k) ==
    [c EXCEPT !.step = @ + 1,
              !.intents = Append(@, [step_index |-> c.step, tool |-> name,
                                     args |-> args, kind |-> k]),
              !.traces = Append(@, [kind |-> "INTENT_EMITTED", step |-> c.step,
                                    tool_index |-> 0])]

tool_call(c) == [kind |-> "TOOL_CALL", step |-> c.step, tool_index |-> c.tool_index]

\* A mistake: a read that advances the cursor the intents' ids are minted from.
run_tool_stepping(c) ==
    [c EXCEPT !.tally.tool_calls = @ + 1, !.tool_index = @ + 1, !.step = @ + 1,
              !.traces = Append(@, tool_call(c))]

run_tool_returned(c) ==
    [c EXCEPT !.tally.tool_calls = @ + 1, !.tool_index = @ + 1,
              !.traces = Append(@, tool_call(c))]

\* A mistake: accounting for the call before it is made.
accounted_at_once(c, how) == run_tool_returned(c)

accounted(c, how) == IF how = "returned" THEN run_tool_returned(c) ELSE c

\* drain: at most once, by the owner, after activate returned normally.  The
\* traces and the counters leave with the result; only the intents go on.
drain(c) == [AgentContext(c.attempt) EXCEPT !.status = "drained", !.intents = c.intents,
                                            !.step = c.step, !.tally.iterations = c.step]
-----------------------------------------------------------------------------
(* Runs of a body.                                                           *)

InlineEnds == {"returned", "raised"}
Ends == InlineEnds \cup {"raised_argument_error"}

body(where, owner, try, t, via, state) ==
    [id |-> Cardinality(bodies) + 1, where |-> where, owner |-> owner, try |-> try,
     side_effect |-> t.side_effect, sync |-> t.sync, via |-> via, state |-> state,
     intent |-> IF t.accepts_intent THEN owner ELSE 0]

ended(b, how) == (bodies \ {b}) \cup {[b EXCEPT !.state = how]}

\* A cancelled coroutine stops at its await; a thread does not.
cancelled(bs) ==
    {IF b \in bs /\ b.state = "running" /\ ~b.sync
     THEN [b EXCEPT !.state = "cancelled"] ELSE b : b \in bodies}

Inline == {b \in bodies : b.where = "pipeline" /\ b.owner = ctx.attempt}

\* A mistake: the guard left to the runner alone.
callable_unguarded(t) == TRUE

\* Tool.__call__ and ToolRunner.run each refuse a side-effecting tool.
callable(t) == ~t.side_effect

runnable(t, args) == ~t.side_effect /\ model_validate(t, args) /\ callable(t)

ToolInit ==
    /\ registry = NoTools /\ deployed = NoTools /\ up = FALSE
    /\ ctx = [AgentContext(0) EXCEPT !.status = "none"]
    /\ abandoned = <<>> /\ bodies = {} /\ execution = <<>> /\ results = {}

Register(n, f, side_effect) ==
    /\ ctx.status = "none"
    /\ registrable(registry, n, f, side_effect)
    /\ registry' = register(registry, n, f, side_effect)
    /\ UNCHANGED <<deployed, up, ctx, abandoned, bodies, execution, results>>

\* The runtime hands a fresh context to each attempt at the element.
Activate ==
    /\ ctx.status \in {"none", "failed"} /\ ctx.attempt < MaxActivations
    /\ ctx' = AgentContext(ctx.attempt + 1)
    /\ UNCHANGED <<registry, deployed, up, abandoned, bodies, execution, results>>

\* act looks the tool up, refuses a read-only one and encodes the arguments;
\* each of the three may raise, and then nothing was staged.
Act(n, args) ==
    /\ ctx.status = "running" /\ Len(ctx.intents) < MaxIntents
    /\ known(registry, n) /\ registry[n].side_effect /\ args.json
    /\ ctx' = _stage_intent(ctx, n, args, "TOOL")
    /\ UNCHANGED <<registry, deployed, up, abandoned, bodies, execution, results>>

\* An approval names a channel, which no registry knows; a tool never sees its
\* arguments.
request_approval ==
    /\ ctx.status = "running" /\ Len(ctx.intents) < MaxIntents
    /\ ctx' = _stage_intent(ctx, "channel", {}, "APPROVAL")
    /\ UNCHANGED <<registry, deployed, up, abandoned, bodies, execution, results>>

run_tool(n, args) ==
    /\ ctx.status = "running" /\ Cardinality(Inline) < MaxReads
    /\ known(registry, n) /\ runnable(registry[n], args)
    /\ bodies' = bodies \cup {body("pipeline", ctx.attempt, 0, registry[n], "run_tool", "running")}
    /\ UNCHANGED <<registry, deployed, up, ctx, abandoned, execution, results>>

\* Several coroutines may be awaited together and end in any order; a plain
\* function's call is one whose end comes next.
RunToolEnds(b, how) ==
    /\ ctx.status = "running"
    /\ b \in Inline /\ b.state = "running"
    /\ bodies' = ended(b, how)
    /\ ctx' = accounted(ctx, how)
    /\ UNCHANGED <<registry, deployed, up, abandoned, execution, results>>

\* Calling the Tool itself bypasses validation and accounting, not the guard.
__call__(n) ==
    /\ ctx.status = "running" /\ Cardinality(Inline) < MaxReads
    /\ known(registry, n) /\ callable(registry[n])
    /\ \E how \in InlineEnds :
           bodies' = bodies \cup {body("pipeline", ctx.attempt, 0, registry[n], "call", how)}
    /\ UNCHANGED <<registry, deployed, up, ctx, abandoned, execution, results>>

\* activate returns normally: its effects are drained and its intents leave.
Return ==
    /\ ctx.status = "running" /\ \A b \in Inline : b.state # "running"
    /\ ctx' = drain(ctx)
    /\ execution' = [i \in DOMAIN ctx.intents |-> [try |-> 0, phase |-> "queued"]]
    /\ bodies' = bodies \ Inline /\ abandoned' = <<>>
    /\ UNCHANGED <<registry, deployed, up, results>>

\* activate raises, times out or is cancelled: nothing leaves.
Fail ==
    /\ ctx.status = "running"
    /\ ctx' = [AgentContext(ctx.attempt) EXCEPT !.status = "failed"]
    /\ abandoned' = ctx.intents
    /\ bodies' = bodies \ Inline
    /\ UNCHANGED <<registry, deployed, up, execution, results>>
-----------------------------------------------------------------------------
(* The effector.  Nothing it does before an intent arrives matters here, nor *)
(* a tool no intent names, so it is first started when the intents have left *)
(* and holds none but theirs.                                                *)

Named == {ctx.intents[i].tool : i \in DOMAIN execution}

Deploy(n, f, side_effect) ==
    /\ ~up /\ n \in Named /\ registrable(deployed, n, f, side_effect)
    /\ deployed' = register(deployed, n, f, side_effect)
    /\ UNCHANGED <<registry, up, ctx, abandoned, bodies, execution, results>>

StartEffector ==
    /\ ~up /\ Named # {} /\ up' = TRUE
    /\ UNCHANGED <<registry, deployed, ctx, abandoned, bodies, execution, results>>

Mine(i) == {b \in bodies : /\ b.where = "effector" /\ b.owner = i
                           /\ b.try = execution[i].try}

publish(i, try, status) == results' = results \cup {[intent |-> i, try |-> try, status |-> status]}

\* The checks before on_invoke; when one fails the callable is never invoked.
\* The arguments decode to an object, since act encoded one.
invocable(i) ==
    LET intent == ctx.intents[i]
    IN /\ known(deployed, intent.tool)
       /\ deployed[intent.tool].side_effect
       /\ model_validate(deployed[intent.tool], intent.args)

\* _encode_result: a value JSON cannot hold is an ERROR, the effect happened.
_execute_intent_status(how) ==
    CASE how = "returned" -> {"OK", "ERROR"}
      [] how = "raised" -> {"ERROR"}
      [] how = "raised_argument_error" -> {"REJECTED"}

\* The intents of one key are worked on in the order they were staged.
Claimable(i) ==
    /\ up /\ i \in DOMAIN execution /\ ctx.intents[i].kind = "TOOL"
    /\ \A j \in 1..i - 1 : ctx.intents[j].kind = "TOOL" => execution[j].phase = "done"
    /\ execution[i].phase \in {"queued", "released"} /\ execution[i].try < MaxExecutions

_execute_intent(i) ==
    /\ Claimable(i)
    /\ LET try == execution[i].try + 1
           settle(phase) == execution' = [execution EXCEPT ![i] = [try |-> try, phase |-> phase]]
       IN \/ /\ ~invocable(i)
             /\ publish(i, try, "REJECTED") /\ settle("done")
             /\ UNCHANGED bodies
          \/ /\ invocable(i)
             /\ bodies' = bodies \cup {body("effector", i, try, deployed[ctx.intents[i].tool],
                                            "run", "running")}
             /\ settle("running")
             /\ UNCHANGED results
    /\ UNCHANGED <<registry, deployed, up, ctx, abandoned>>

\* A thread whose call nobody awaits any longer ends all the same.
BodyEnds(b, how) ==
    /\ b \in bodies /\ b.where = "effector" /\ b.state = "running"
    /\ bodies' = ended(b, how)
    /\ LET i == b.owner
           awaited == execution[i].phase = "running" /\ b.try = execution[i].try
       IN \/ /\ awaited
             /\ \E s \in _execute_intent_status(how) : publish(i, b.try, s)
             /\ execution' = [execution EXCEPT ![i].phase = "done"]
          \/ ~awaited /\ UNCHANGED <<execution, results>>
    /\ UNCHANGED <<registry, deployed, up, ctx, abandoned>>

\* A mistake: taking a call nobody waits for any longer for one never made.
timeout_status_rejecting == "REJECTED"
timeout_status == "ERROR"

\* wait_for stops waiting on the call, which is not to stop a thread.
ToolTimesOut(i) ==
    /\ i \in DOMAIN execution /\ execution[i].phase = "running"
    /\ bodies' = cancelled(Mine(i))
    /\ publish(i, execution[i].try, timeout_status)
    /\ execution' = [execution EXCEPT ![i].phase = "done"]
    /\ UNCHANGED <<registry, deployed, up, ctx, abandoned>>

\* Revocation or shutdown: no outcome is published, and the intent is executed
\* again once the lease has run out.
CancelExecution(i) ==
    /\ i \in DOMAIN execution /\ execution[i].phase = "running"
    /\ bodies' = cancelled(Mine(i))
    /\ execution' = [execution EXCEPT ![i].phase = "released"]
    /\ UNCHANGED <<registry, deployed, up, ctx, abandoned, results>>

\* The process is replaced: its threads die with it, and the new one may hold
\* other tools.
Redeploy ==
    /\ up /\ up' = FALSE /\ deployed' = NoTools
    /\ \E i \in DOMAIN execution : execution[i].phase = "running"
    /\ bodies' = {IF b.where = "effector" /\ b.state = "running"
                  THEN [b EXCEPT !.state = "cancelled"] ELSE b : b \in bodies}
    /\ execution' = [i \in DOMAIN execution |->
                         IF execution[i].phase = "running"
                         THEN [execution[i] EXCEPT !.phase = "released"] ELSE execution[i]]
    /\ UNCHANGED <<registry, ctx, abandoned, results>>

ToolNext ==
    \/ \E n \in Names, f \in Callables, s \in BOOLEAN : Register(n, f, s) \/ Deploy(n, f, s)
    \/ \E n \in Names, a \in ArgumentSets : Act(n, a) \/ run_tool(n, a)
    \/ \E n \in Names : __call__(n)
    \/ \E b \in bodies, how \in InlineEnds : RunToolEnds(b, how)
    \/ \E b \in bodies, how \in Ends : BodyEnds(b, how)
    \/ Activate \/ request_approval \/ Return \/ Fail \/ StartEffector \/ Redeploy
    \/ \E i \in 1..MaxIntents : \/ _execute_intent(i) \/ ToolTimesOut(i)
                                \/ CancelExecution(i)
-----------------------------------------------------------------------------
\* Side effects leave the pipeline only as intents and read-only bodies never
\* reach the effector, whatever the two registries say of a name and whichever
\* way the agent calls the tool; a body that declares an identity is given that
\* of an intent its activation drained (Tool.__call__, both runners' guards).
EffectsOnlyByIntent ==
    \A b \in bodies :
        /\ b.side_effect = (b.where = "effector")
        /\ b.intent # 0 => /\ ctx.status = "drained"
                           /\ b.intent = b.owner
                           /\ ctx.intents[b.intent].kind = "TOOL"

\* The status of a result tells the agent whether retrying is safe: REJECTED
\* only when this execution never called the tool (or the tool itself refused
\* its arguments), ERROR only when it did, OK only when the body ran to its end;
\* one execution calls the tool at most once (effector/runner.py, the mapping).
StatusTellsTheEffect ==
    \A r \in results :
        LET called == {b \in bodies : /\ b.where = "effector" /\ b.owner = r.intent
                                      /\ b.try = r.try}
        IN /\ Cardinality(called) <= 1
           /\ r.status = "REJECTED" => \A b \in called : b.state = "raised_argument_error"
           /\ r.status = "OK" => \E b \in called : b.state = "returned"
           /\ r.status = "ERROR" => called # {}

\* A retried activation mints for its k-th intent the id the failed attempt
\* minted, whichever reads ran, raised or were refused in between: the effector
\* deduplicates on those ids (_stage_intent against run_tool's own counter).
RetriesMintTheSameIds ==
    \A k \in DOMAIN ctx.intents \cap DOMAIN abandoned :
        ctx.intents[k].step_index = abandoned[k].step_index

\* The tally and the traces to be drained account for exactly the reads that ran to their
\* end: a refused, failing or cancelled call is neither counted nor traced, and
\* calls that end out of order still get distinct indices (run_tool).
TallyCountsReturns ==
    LET calls == {i \in DOMAIN ctx.traces : ctx.traces[i].kind = "TOOL_CALL"}
        returned == {b \in Inline : b.via = "run_tool" /\ b.state = "returned"}
    IN /\ ctx.tally.tool_calls = Cardinality(returned)
       /\ Cardinality({ctx.traces[i].tool_index : i \in calls}) = Cardinality(returned)
       /\ ctx.status = "drained" => ctx.tally.iterations = Len(ctx.intents)

\* A tool has its effect where its declaration says, and what the agent, the
\* tally and the effector's dedup are told of it is what happened.
EffectsAreToldTruly ==
    EffectsOnlyByIntent /\ StatusTellsTheEffect /\ RetriesMintTheSameIds /\ TallyCountsReturns
=============================================================================
