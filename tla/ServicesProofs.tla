--------------------------- MODULE ServicesProofs ---------------------------
(***************************************************************************)
(* What the services of an effector promise, proved for every value of     *)
(* their constants.  The tools: where one has its effect, and that the     *)
(* agent, the tally and the effector's dedup are told of it what happened  *)
(* (EffectsAreToldTruly).  The stores of effector/dedup.py: each, at the   *)
(* grain of its calls, implements the abstract ClaimProtocol.  The models: *)
(* the breaker in front of them and the replay cache (ModelCall), and the  *)
(* providers, retries and books behind them (ProviderCalls).               *)
(*                                                                         *)
(* The tools' invariant relates each run of a body to who called it.  The  *)
(* inline ones belong to the attempt that is running and are read-only;    *)
(* each of the effector's belongs to one try of one intent that left, a    *)
(* try calls the tool at most once, and a result speaks of the try whose   *)
(* call it is.                                                             *)
(***************************************************************************)
EXTENDS ToolCalls, DedupBackends, ModelCall, ProviderCalls, Foundations, SequenceTheorems

-----------------------------------------------------------------------------
(* The records of the model, and what an attempt and the effector know.      *)
Intent == [step_index : Nat, tool : Names \cup {"channel"}, args : ArgumentSets \cup {{}},
           kind : {"TOOL", "APPROVAL"}]
Trace == [kind : {"INTENT_EMITTED", "TOOL_CALL"}, step : Nat, tool_index : Nat]
Context == [status : {"none", "running", "failed", "drained"}, attempt : Nat, step : Nat,
            tool_index : Nat, intents : Seq(Intent), traces : Seq(Trace),
            tally : [tool_calls : Nat, iterations : Nat]]
Body == [id : Nat, where : {"pipeline", "effector"}, owner : Nat, try : Nat,
         side_effect : BOOLEAN, sync : BOOLEAN, via : {"run_tool", "call", "run"},
         state : {"running", "cancelled", "returned", "raised", "raised_argument_error"},
         intent : Nat]
Work == [try : Nat, phase : {"queued", "running", "released", "done"}]
Result == [intent : Nat, try : Nat, status : {"OK", "ERROR", "REJECTED"}]

\* No registry holds a read-only tool that asks for an intent's identity.
WellDeclared(tools) ==
    \A n \in DOMAIN tools :
        /\ tools[n].side_effect \in BOOLEAN /\ tools[n].sync \in BOOLEAN
        /\ tools[n].accepts_intent \in BOOLEAN
        /\ tools[n].accepts_intent => tools[n].side_effect

ToolType ==
    /\ WellDeclared(registry) /\ WellDeclared(deployed)
    /\ ctx \in Context /\ abandoned \in Seq(Intent)
    /\ bodies \subseteq Body
    /\ execution \in [DOMAIN execution -> Work] /\ DOMAIN execution \subseteq Nat
    /\ results \subseteq Result

\* The step an intent's id is minted from is its place among the staged ones.
Numbered(intents) == \A k \in DOMAIN intents : intents[k].step_index = k - 1

StagedInv ==
    /\ Numbered(ctx.intents) /\ Numbered(abandoned) /\ ctx.step = Len(ctx.intents)
    /\ IF ctx.status = "drained"
       THEN DOMAIN execution = DOMAIN ctx.intents /\ ctx.tally.iterations = Len(ctx.intents)
       ELSE DOMAIN execution = {} /\ results = {} /\ \A b \in bodies : b.where = "pipeline"

InlineBody(b) ==
    b.where = "pipeline" =>
        /\ ctx.status = "running" /\ b.owner = ctx.attempt
        /\ ~b.side_effect /\ b.intent = 0
        /\ b.state = "running" => b.via = "run_tool"

EffectorBody(b) ==
    b.where = "effector" =>
        /\ b.owner \in DOMAIN execution /\ ctx.intents[b.owner].kind = "TOOL"
        /\ b.try <= execution[b.owner].try
        /\ b.side_effect /\ b.intent \in {0, b.owner}

CalledIn(b, i, try) == b.where = "effector" /\ b.owner = i /\ b.try = try

ToldTruly(r) ==
    /\ r.intent \in DOMAIN execution /\ r.try <= execution[r.intent].try
    /\ r.status = "REJECTED" =>
           \A b \in bodies : CalledIn(b, r.intent, r.try) => b.state = "raised_argument_error"
    /\ r.status = "OK" => \E b \in bodies : CalledIn(b, r.intent, r.try) /\ b.state = "returned"
    /\ r.status = "ERROR" => \E b \in bodies : CalledIn(b, r.intent, r.try)

CalledOnce ==
    \A b, c \in bodies :
        b.where = "effector" /\ c.where = "effector" /\ b.owner = c.owner /\ b.try = c.try => b = c

RunningIsCalled ==
    \A i \in DOMAIN execution :
        execution[i].phase = "running" => \E b \in bodies : CalledIn(b, i, execution[i].try)

EffectInv ==
    /\ \A b \in bodies : InlineBody(b) /\ EffectorBody(b)
    /\ CalledOnce /\ RunningIsCalled
    /\ \A r \in results : ToldTruly(r)

Returned == {b \in bodies : b.where = "pipeline" /\ b.via = "run_tool" /\ b.state = "returned"}

\* Bodies are told apart while they are counted, and the calls that returned
\* are traced by the numbers below tool_index.
TallyInv ==
    /\ IsFiniteSet(bodies)
    /\ ctx.status = "running" =>
           /\ \A b \in bodies : b.id <= Cardinality(bodies)
           /\ \A b, c \in bodies : b.id = c.id => b = c
    /\ IsFiniteSet(Returned) /\ ctx.tally.tool_calls = Cardinality(Returned)
    /\ ctx.tool_index = ctx.tally.tool_calls
    /\ \A i \in DOMAIN ctx.traces : ctx.traces[i].kind = "TOOL_CALL" => ctx.traces[i].tool_index < ctx.tool_index
    /\ \A x \in 0..ctx.tool_index - 1 :
           \E i \in DOMAIN ctx.traces : ctx.traces[i].kind = "TOOL_CALL" /\ ctx.traces[i].tool_index = x

ToolInv == ToolType /\ StagedInv /\ EffectInv /\ TallyInv

-----------------------------------------------------------------------------
(* The runtime hands an attempt an empty context.                            *)
LEMMA FreshContext ==
  ASSUME NEW n \in Nat
  PROVE  /\ AgentContext(n) \in Context
         /\ AgentContext(n).status = "running" /\ AgentContext(n).attempt = n
         /\ AgentContext(n).step = 0 /\ AgentContext(n).tool_index = 0
         /\ AgentContext(n).intents = <<>> /\ AgentContext(n).traces = <<>>
         /\ AgentContext(n).tally = [tool_calls |-> 0, iterations |-> 0]
<1>1. PICK s \in Seq(Intent) : s = <<>>
  <2>1. <<>> \in Seq(Intent)
    OBVIOUS
  <2> QED BY <2>1
<1>2. PICK t \in Seq(Trace) : t = <<>>
  <2>1. <<>> \in Seq(Trace)
    OBVIOUS
  <2> QED BY <2>1
<1>3. PICK y \in [tool_calls : Nat, iterations : Nat] : y = [tool_calls |-> 0, iterations |-> 0]
  OBVIOUS
<1>4. AgentContext(n) = [status |-> "running", attempt |-> n, step |-> 0, tool_index |-> 0,
                         intents |-> s, traces |-> t, tally |-> y]
  BY <1>1, <1>2, <1>3 DEF AgentContext
<1> HIDE <1>1, <1>2, <1>3
<1>5. AgentContext(n) \in Context
  BY <1>4 DEF Context
<1> QED BY <1>5 DEF AgentContext

(* Nothing is declared, staged or called at first: ToolInit.                 *)
LEMMA ToolsStart == ToolInit => ToolInv
<1> SUFFICES ASSUME ToolInit PROVE ToolInv
  OBVIOUS
<1>1. /\ registry = NoTools /\ deployed = NoTools /\ bodies = {} /\ results = {} /\ abandoned = <<>>
      /\ execution = <<>> /\ ctx = [AgentContext(0) EXCEPT !.status = "none"]
  BY DEF ToolInit
<1>2. WellDeclared(registry) /\ WellDeclared(deployed)
  BY <1>1 DEF WellDeclared, NoTools
<1>3. /\ ctx.status = "none" /\ ctx.attempt = 0 /\ ctx.step = 0 /\ ctx.tool_index = 0
      /\ ctx.intents = <<>> /\ ctx.traces = <<>> /\ ctx.tally = [tool_calls |-> 0, iterations |-> 0]
  BY <1>1 DEF AgentContext
<1>4. <<>> \in Seq(Intent) /\ DOMAIN execution = {} /\ execution \in [DOMAIN execution -> Work]
  BY <1>1
<1>9. ctx \in Context
  <2>1. AgentContext(0) \in Context
    BY FreshContext
  <2>2. PICK c \in Context : c = AgentContext(0)
    BY <2>1
  <2>3. [c EXCEPT !.status = "none"] \in Context
    BY DEF Context
  <2> QED BY <2>2, <2>3, <1>1
<1>5. ToolType
  BY <1>1, <1>2, <1>3, <1>4, <1>9 DEF ToolType
<1>6. StagedInv
  BY <1>1, <1>3, <1>4 DEF StagedInv, Numbered
<1>7. EffectInv
  BY <1>1, <1>4 DEF EffectInv, CalledOnce, RunningIsCalled
<1>8. TallyInv
  <2>1. Returned = {}
    BY <1>1 DEF Returned
  <2> QED BY <2>1, <1>1, <1>3, FS_EmptySet DEF TallyInv
<1> QED BY <1>5, <1>6, <1>7, <1>8 DEF ToolInv

(* A set of at most one call has at most one element.                        *)
LEMMA AtMostOne == ASSUME NEW S, \A b, c \in S : b = c PROVE Cardinality(S) <= 1
<1>1. CASE S = {}
  BY <1>1, FS_EmptySet
<1>2. CASE S # {}
  <2>1. PICK b \in S : TRUE
    BY <1>2
  <2>2. S = {b}
    BY <2>1
  <2> QED BY <2>2, FS_Singleton
<1> QED BY <1>1, <1>2

(* What the invariant says of calls and counts is what is promised of them.  *)
LEMMA ToolsTellTruly == ToolInv => EffectsAreToldTruly
<1> SUFFICES ASSUME ToolInv PROVE EffectsAreToldTruly
  OBVIOUS
<1>0. ToolType /\ StagedInv /\ EffectInv /\ TallyInv
  BY DEF ToolInv
<1>1. EffectsOnlyByIntent
  <2> SUFFICES ASSUME NEW b \in bodies
               PROVE  /\ b.side_effect = (b.where = "effector")
                      /\ b.intent # 0 => /\ ctx.status = "drained"
                                         /\ b.intent = b.owner
                                         /\ ctx.intents[b.intent].kind = "TOOL"
    BY DEF EffectsOnlyByIntent
  <2>1. b \in Body /\ InlineBody(b) /\ EffectorBody(b)
    BY <1>0 DEF ToolType, EffectInv
  <2>2. b.side_effect \in BOOLEAN /\ b.where \in {"pipeline", "effector"}
    BY <2>1 DEF Body
  <2>3. b.where = "effector" => ctx.status = "drained"
    BY <1>0 DEF StagedInv
  <2>4. CASE b.where = "pipeline"
    BY <2>1, <2>2, <2>4 DEF InlineBody
  <2>5. CASE b.where = "effector"
    BY <2>1, <2>2, <2>3, <2>5 DEF EffectorBody
  <2> QED BY <2>2, <2>4, <2>5
<1>2. StatusTellsTheEffect
  <2> SUFFICES ASSUME NEW r \in results
               PROVE  LET called == {b \in bodies : /\ b.where = "effector" /\ b.owner = r.intent
                                                    /\ b.try = r.try}
                      IN /\ Cardinality(called) <= 1
                         /\ r.status = "REJECTED" => \A b \in called : b.state = "raised_argument_error"
                         /\ r.status = "OK" => \E b \in called : b.state = "returned"
                         /\ r.status = "ERROR" => called # {}
    BY DEF StatusTellsTheEffect
  <2> DEFINE called == {b \in bodies : /\ b.where = "effector" /\ b.owner = r.intent
                                       /\ b.try = r.try}
  <2>1. \A b : b \in called <=> b \in bodies /\ CalledIn(b, r.intent, r.try)
    BY DEF CalledIn
  <2>2. ToldTruly(r) /\ CalledOnce
    BY <1>0 DEF EffectInv
  <2>3. Cardinality(called) <= 1
    <3>1. \A b, c \in called : b = c
      BY <2>1, <2>2 DEF CalledOnce, CalledIn
    <3> QED BY <3>1, AtMostOne
  <2> QED BY <2>1, <2>2, <2>3 DEF ToldTruly
<1>3. RetriesMintTheSameIds
  BY <1>0 DEF StagedInv, Numbered, RetriesMintTheSameIds
<1>4. TallyCountsReturns
  <2> DEFINE called == {i \in DOMAIN ctx.traces : ctx.traces[i].kind = "TOOL_CALL"}
             returned == {b \in Inline : b.via = "run_tool" /\ b.state = "returned"}
             numbers == {ctx.traces[i].tool_index : i \in called}
  <2>1. returned = Returned
    BY <1>0 DEF EffectInv, InlineBody, Inline, Returned
  <2>2. ctx.tool_index \in Nat /\ ctx.traces \in Seq(Trace)
    BY <1>0 DEF ToolType, Context
  <2>3. numbers = 0..ctx.tool_index - 1
    <3>1. \A i \in DOMAIN ctx.traces : ctx.traces[i].tool_index \in Nat
      <4>1. \A i \in DOMAIN ctx.traces : ctx.traces[i] \in Trace
        BY <2>2
      <4> QED BY <4>1 DEF Trace
    <3>2. numbers \subseteq 0..ctx.tool_index - 1
      BY <3>1, <2>2, <1>0 DEF TallyInv
    <3>3. 0..ctx.tool_index - 1 \subseteq numbers
      BY <1>0 DEF TallyInv
    <3> QED BY <3>2, <3>3
  <2>4. Cardinality(numbers) = ctx.tool_index
    <3>1. PICK n \in Nat : n = ctx.tool_index
      BY <2>2
    <3>2. Cardinality(0..n - 1) = n
      BY FS_Interval
    <3> QED BY <3>1, <3>2, <2>3
  <2>5. ctx.tally.tool_calls = Cardinality(returned) /\ Cardinality(numbers) = Cardinality(returned)
    BY <2>1, <2>4, <1>0 DEF TallyInv
  <2>6. ctx.status = "drained" => ctx.tally.iterations = Len(ctx.intents)
    BY <1>0 DEF StagedInv
  <2> QED BY <2>5, <2>6 DEF TallyCountsReturns
<1> QED BY <1>1, <1>2, <1>3, <1>4 DEF EffectsAreToldTruly

-----------------------------------------------------------------------------
(* The pipeline's side: declarations, staging and the read-only calls.       *)

(* A tool a decorator accepts asks for an intent only when it has effects.   *)
LEMMA RegisterKeepsDeclared ==
  ASSUME NEW tools, WellDeclared(tools), NEW n, NEW f \in Callables, NEW s \in BOOLEAN,
         registrable(tools, n, f, s)
  PROVE  WellDeclared(register(tools, n, f, s))
<1>1. /\ Tool(f, s).side_effect \in BOOLEAN /\ Tool(f, s).sync \in BOOLEAN
      /\ Tool(f, s).accepts_intent \in BOOLEAN
      /\ Tool(f, s).accepts_intent => Tool(f, s).side_effect
  <2>1. Tool(f, s).side_effect = s /\ Tool(f, s).sync = f.sync
        /\ Tool(f, s).accepts_intent = _detect_intent_param(f)
    BY DEF Tool
  <2>2. _detect_intent_param(f) \in BOOLEAN
    BY DEF _detect_intent_param
  <2>3. _detect_intent_param(f) => s
    BY DEF _detect_intent_param, registrable, well_defined
  <2> QED BY <2>1, <2>2, <2>3, ToolAssumption
<1>2. \A m \in DOMAIN register(tools, n, f, s) :
          register(tools, n, f, s)[m] = IF m = n THEN Tool(f, s) ELSE tools[m]
  BY DEF register
<1>3. \A m \in DOMAIN register(tools, n, f, s) : m = n \/ m \in DOMAIN tools
  BY DEF register
<1> QED BY <1>1, <1>2, <1>3 DEF WellDeclared

\* Nothing but the registries changes.
CallsUnchanged == UNCHANGED <<ctx, abandoned, bodies, execution, results>>

(* A declaration or the effector's start changes no call and no context.     *)
LEMMA DeclaringKeeps ==
  ASSUME ToolInv, CallsUnchanged, WellDeclared(registry)', WellDeclared(deployed)'
  PROVE  ToolInv'
<1>1. ctx' = ctx /\ abandoned' = abandoned /\ bodies' = bodies /\ execution' = execution /\ results' = results
  BY DEF CallsUnchanged
<1>2. ToolType'
  BY <1>1 DEF ToolInv, ToolType
<1>3. StagedInv'
  BY <1>1 DEF ToolInv, StagedInv, Numbered
<1>4. EffectInv'
  BY <1>1 DEF ToolInv, EffectInv, InlineBody, EffectorBody, CalledOnce, RunningIsCalled, ToldTruly, CalledIn
<1>5. TallyInv'
  BY <1>1 DEF ToolInv, TallyInv, Returned
<1> QED BY <1>2, <1>3, <1>4, <1>5 DEF ToolInv

\* Context d is context c with one more intent, of c's step, and its trace.
OneStaged(c, d) ==
    /\ d \in Context /\ d.step = c.step + 1
    /\ d.status = c.status /\ d.attempt = c.attempt /\ d.tool_index = c.tool_index /\ d.tally = c.tally
    /\ \E i \in Intent : i.step_index = c.step /\ d.intents = Append(c.intents, i)
    /\ \E t \in Trace : t.kind = "INTENT_EMITTED" /\ d.traces = Append(c.traces, t)

(* What an intent staged adds to a context (_stage_intent).                  *)
LEMMA StagedContext ==
  ASSUME NEW c \in Context, NEW name \in Names \cup {"channel"}, NEW args \in ArgumentSets \cup {{}},
         NEW k \in {"TOOL", "APPROVAL"}, NEW d, d = _stage_intent(c, name, args, k)
  PROVE  OneStaged(c, d)
<1>1. PICK i : i = [step_index |-> c.step, tool |-> name, args |-> args, kind |-> k]
  OBVIOUS
<1>2. PICK t : t = [kind |-> "INTENT_EMITTED", step |-> c.step, tool_index |-> 0]
  OBVIOUS
<1>3. /\ c.step \in Nat /\ c.intents \in Seq(Intent) /\ c.traces \in Seq(Trace)
      /\ c.step + 1 \in Nat
  BY DEF Context
<1>4. i \in Intent /\ i.step_index = c.step /\ t \in Trace /\ t.kind = "INTENT_EMITTED"
  BY <1>1, <1>2, <1>3 DEF Intent, Trace
<1>5. PICK intents \in Seq(Intent) : intents = Append(c.intents, i)
  <2>1. Append(c.intents, i) \in Seq(Intent)
    BY <1>3, <1>4
  <2> QED BY <2>1
<1>6. PICK traces \in Seq(Trace) : traces = Append(c.traces, t)
  <2>1. Append(c.traces, t) \in Seq(Trace)
    BY <1>3, <1>4
  <2> QED BY <2>1
<1>7. PICK step \in Nat : step = c.step + 1
  BY <1>3
<1>8. d = [c EXCEPT !.step = step, !.intents = intents, !.traces = traces]
  BY <1>1, <1>2, <1>5, <1>6, <1>7 DEF _stage_intent
<1>9. d = [status |-> c.status, attempt |-> c.attempt, step |-> step, tool_index |-> c.tool_index,
           intents |-> intents, traces |-> traces, tally |-> c.tally]
  BY <1>8 DEF Context
<1> HIDE <1>8, <1>1, <1>2
<1>10. d \in Context
  BY <1>9 DEF Context
<1> QED BY <1>4, <1>5, <1>6, <1>7, <1>9, <1>10 DEF OneStaged

(* A longer list: what it held stays where it was.                           *)
LEMMA OneMore ==
  ASSUME NEW S, NEW s \in Seq(S), NEW e \in S, NEW t, t = Append(s, e)
  PROVE  /\ t \in Seq(S) /\ Len(s) \in Nat /\ Len(t) = Len(s) + 1
         /\ DOMAIN s = 1..Len(s) /\ DOMAIN t = 1..Len(s) + 1
         /\ \A i \in DOMAIN s : i \in DOMAIN t /\ t[i] = s[i]
         /\ Len(s) + 1 \in DOMAIN t /\ t[Len(s) + 1] = e
         /\ \A i \in DOMAIN t : i \in DOMAIN s \/ i = Len(s) + 1
OBVIOUS

(* act and request_approval number their intents by the steps before them.   *)
LEMMA StagingKeeps ==
  ASSUME ToolInv, ctx.status = "running", NEW name \in Names \cup {"channel"},
         NEW args \in ArgumentSets \cup {{}}, NEW k \in {"TOOL", "APPROVAL"},
         ctx' = _stage_intent(ctx, name, args, k),
         UNCHANGED <<registry, deployed, up, abandoned, bodies, execution, results>>
  PROVE  ToolInv'
<1>0. ToolType /\ StagedInv /\ EffectInv /\ TallyInv
  BY DEF ToolInv
<1>1. ctx \in Context
  BY <1>0 DEF ToolType
<1>14. PICK d : d = ctx'
  OBVIOUS
<1>15. d = _stage_intent(ctx, name, args, k)
  BY <1>14
<1>2. /\ d \in Context
      /\ d = ctx' /\ d.step = ctx.step + 1
      /\ d.status = ctx.status /\ d.attempt = ctx.attempt /\ d.tool_index = ctx.tool_index
      /\ d.tally = ctx.tally
      /\ \E i \in Intent : i.step_index = ctx.step /\ d.intents = Append(ctx.intents, i)
      /\ \E t \in Trace : t.kind = "INTENT_EMITTED" /\ d.traces = Append(ctx.traces, t)
  <2>1. OneStaged(ctx, d)
    BY <1>1, <1>15, StagedContext
  <2> QED BY <2>1, <1>14 DEF OneStaged
<1>3. PICK i \in Intent : i.step_index = ctx.step /\ d.intents = Append(ctx.intents, i)
  BY <1>2
<1>4. PICK t \in Trace : t.kind = "INTENT_EMITTED" /\ d.traces = Append(ctx.traces, t)
  BY <1>2
<1>5. ctx.intents \in Seq(Intent) /\ ctx.traces \in Seq(Trace) /\ ctx.tool_index \in Nat
  BY <1>1 DEF Context
<1>6. /\ Len(ctx.intents) \in Nat /\ Len(d.intents) = Len(ctx.intents) + 1
      /\ \A m \in DOMAIN ctx.intents : m \in DOMAIN d.intents /\ d.intents[m] = ctx.intents[m]
      /\ d.intents[Len(ctx.intents) + 1] = i
      /\ \A m \in DOMAIN d.intents : m \in DOMAIN ctx.intents \/ m = Len(ctx.intents) + 1
  BY <1>3, <1>5, OneMore
<1>7. /\ \A m \in DOMAIN ctx.traces : m \in DOMAIN d.traces /\ d.traces[m] = ctx.traces[m]
      /\ d.traces[Len(ctx.traces) + 1] = t
      /\ \A m \in DOMAIN d.traces : m \in DOMAIN ctx.traces \/ m = Len(ctx.traces) + 1
  BY <1>4, <1>5, OneMore
<1>8. /\ ctx' = d /\ abandoned' = abandoned /\ bodies' = bodies /\ execution' = execution /\ results' = results
      /\ registry' = registry /\ deployed' = deployed
  BY <1>2
<1>9. DOMAIN execution = {} /\ results = {} /\ \A b \in bodies : b.where = "pipeline"
  BY <1>0 DEF StagedInv
<1>10. ToolType'
  BY <1>0, <1>2, <1>8 DEF ToolType
<1>11. StagedInv'
  <2>1. ctx.step = Len(ctx.intents) /\ Numbered(ctx.intents) /\ Numbered(abandoned)
    BY <1>0 DEF StagedInv
  <2>2. Numbered(d.intents)
    <3> SUFFICES ASSUME NEW m \in DOMAIN d.intents PROVE d.intents[m].step_index = m - 1
      BY DEF Numbered
    <3>1. CASE m \in DOMAIN ctx.intents
      BY <3>1, <2>1, <1>6 DEF Numbered
    <3>2. CASE m = Len(ctx.intents) + 1
      BY <3>2, <2>1, <1>3, <1>6
    <3> QED BY <3>1, <3>2, <1>6
  <2>3. d.step = Len(d.intents)
    BY <2>1, <1>2, <1>6
  <2>4. d.status # "drained"
    BY <1>2
  <2> QED BY <2>1, <2>2, <2>3, <2>4, <1>8, <1>9 DEF StagedInv
<1>12. EffectInv'
  <2>1. \A b \in bodies : InlineBody(b)'
    BY <1>0, <1>2, <1>8 DEF EffectInv, InlineBody
  <2>2. \A b \in bodies : EffectorBody(b)'
    BY <1>9 DEF EffectorBody
  <2> QED BY <2>1, <2>2, <1>8, <1>9 DEF EffectInv, CalledOnce, RunningIsCalled
<1>13. TallyInv'
  <2>1. Returned' = Returned
    BY <1>8 DEF Returned
  <2>2. \A m \in DOMAIN d.traces : d.traces[m].kind = "TOOL_CALL" => d.traces[m].tool_index < d.tool_index
    BY <1>0, <1>2, <1>4, <1>7 DEF TallyInv
  <2>3. \A x \in 0..d.tool_index - 1 :
           \E m \in DOMAIN d.traces : d.traces[m].kind = "TOOL_CALL" /\ d.traces[m].tool_index = x
    BY <1>0, <1>2, <1>7 DEF TallyInv
  <2>4. /\ IsFiniteSet(bodies)
        /\ \A b \in bodies : b.id <= Cardinality(bodies)
        /\ \A b, c \in bodies : b.id = c.id => b = c
    BY <1>0 DEF TallyInv
  <2>5. /\ IsFiniteSet(Returned) /\ d.tally.tool_calls = Cardinality(Returned)
        /\ d.tool_index = d.tally.tool_calls
    BY <1>0, <1>2 DEF TallyInv
  <2> QED BY <2>1, <2>2, <2>3, <2>4, <2>5, <1>8 DEF TallyInv
<1> QED BY <1>10, <1>11, <1>12, <1>13 DEF ToolInv

(* While nothing has left the pipeline only its own calls are to be told of. *)
LEMMA NothingLeft ==
  ASSUME DOMAIN execution' = {}, results' = {},
         \A b \in bodies' : b.where = "pipeline" /\ InlineBody(b)'
  PROVE  EffectInv'
<1>1. \A b \in bodies' : EffectorBody(b)'
  BY DEF EffectorBody
<1>2. CalledOnce'
  BY DEF CalledOnce
<1>3. RunningIsCalled'
  BY DEF RunningIsCalled
<1> QED BY <1>1, <1>2, <1>3 DEF EffectInv

(* A call begun, of a tool that is not side-effecting (body).                *)
LEMMA ReadOnlyBody ==
  ASSUME WellDeclared(registry), NEW n \in DOMAIN registry, ~registry[n].side_effect,
         NEW a \in Nat, Cardinality(bodies) \in Nat, NEW via \in {"run_tool", "call"},
         NEW state \in {"running", "returned", "raised"},
         NEW x, x = body("pipeline", a, 0, registry[n], via, state)
  PROVE  /\ x \in Body /\ x.id = Cardinality(bodies) + 1 /\ x.where = "pipeline" /\ x.owner = a
         /\ ~x.side_effect /\ x.intent = 0 /\ x.via = via /\ x.state = state
<1>1. PICK t : t = registry[n]
  OBVIOUS
<1>2. t.side_effect = FALSE /\ t.sync \in BOOLEAN /\ t.accepts_intent = FALSE
  BY <1>1 DEF WellDeclared
<1>3. PICK id \in Nat : id = Cardinality(bodies) + 1
  OBVIOUS
<1>4. PICK sync \in BOOLEAN : sync = t.sync
  BY <1>2
<1>5. x = [id |-> id, where |-> "pipeline", owner |-> a, try |-> 0, side_effect |-> FALSE, sync |-> sync,
           via |-> via, state |-> state, intent |-> 0]
  BY <1>1, <1>2, <1>3, <1>4 DEF body
<1>6. x \in Body
  <2>1. /\ id \in Nat /\ "pipeline" \in {"pipeline", "effector"} /\ 0 \in Nat /\ FALSE \in BOOLEAN
        /\ sync \in BOOLEAN /\ via \in {"run_tool", "call", "run"}
        /\ state \in {"running", "cancelled", "returned", "raised", "raised_argument_error"}
    BY <1>3, <1>4
  <2> QED BY ONLY <2>1, <1>5 DEF Body
<1> QED BY <1>3, <1>5, <1>6

(* A call of run_tool begins, or one of the tool itself begins and ends.     *)
LEMMA ReadingKeeps ==
  ASSUME ToolInv, ctx.status = "running", NEW n \in DOMAIN registry, ~registry[n].side_effect,
         NEW via \in {"run_tool", "call"}, NEW state \in {"running", "returned", "raised"},
         via = "run_tool" <=> state = "running",
         bodies' = bodies \cup {body("pipeline", ctx.attempt, 0, registry[n], via, state)},
         UNCHANGED <<registry, deployed, up, ctx, abandoned, execution, results>>
  PROVE  ToolInv'
<1>0. ToolType /\ StagedInv /\ EffectInv /\ TallyInv
  BY DEF ToolInv
<1>1. PICK x : x = body("pipeline", ctx.attempt, 0, registry[n], via, state)
  OBVIOUS
<1>2. /\ registry' = registry /\ deployed' = deployed /\ ctx' = ctx /\ abandoned' = abandoned
      /\ execution' = execution /\ results' = results /\ bodies' = bodies \cup {x}
  BY <1>1
<1>3. /\ IsFiniteSet(bodies) /\ bodies \subseteq Body
      /\ \A b \in bodies : b.id <= Cardinality(bodies)
      /\ \A b, c \in bodies : b.id = c.id => b = c
  BY <1>0 DEF TallyInv, ToolType
<1>4. PICK size \in Nat : size = Cardinality(bodies)
  BY <1>3, FS_CardinalityType
<1>5. /\ x \in Body /\ x.id = size + 1 /\ x.where = "pipeline" /\ x.owner = ctx.attempt
      /\ ~x.side_effect /\ x.intent = 0 /\ x.via = via /\ x.state = state
  <2>1. ctx.attempt \in Nat /\ WellDeclared(registry) /\ Cardinality(bodies) \in Nat
    BY <1>0, <1>4 DEF ToolType, Context
  <2> QED BY <2>1, <1>1, <1>4, ReadOnlyBody
<1>6. DOMAIN execution = {} /\ results = {} /\ \A b \in bodies : b.where = "pipeline"
  BY <1>0 DEF StagedInv
<1>7. ToolType'
  BY <1>0, <1>2, <1>5 DEF ToolType
<1>8. StagedInv'
  BY <1>0, <1>2, <1>5 DEF StagedInv, Numbered
<1>9. EffectInv'
  <2>1. \A b \in bodies : InlineBody(b)'
    BY <1>0, <1>2 DEF EffectInv, InlineBody
  <2>2. InlineBody(x)'
    BY <1>2, <1>5 DEF InlineBody
  <2> QED BY <2>1, <2>2, <1>2, <1>5, <1>6, NothingLeft
<1>10. TallyInv'
  <2>1. \A b \in bodies : b.id \in Nat /\ b.id <= size
    BY <1>3, <1>4 DEF Body
  <2>2. x \notin bodies
    BY <2>1, <1>5
  <2>3. IsFiniteSet(bodies') /\ Cardinality(bodies') = size + 1
    BY <2>2, <1>2, <1>3, <1>4, FS_AddElement
  <2>4. \A b \in bodies' : b.id <= size + 1
    BY <2>1, <1>2, <1>5
  <2>5. \A b, c \in bodies' : b.id = c.id => b = c
    BY <2>1, <1>2, <1>3, <1>5
  <2>6. Returned' = Returned
    BY <1>2, <1>5 DEF Returned
  <2>7. \A b \in bodies' : b.id <= Cardinality(bodies')
    BY <2>3, <2>4
  <2>8. /\ IsFiniteSet(Returned') /\ ctx'.tally.tool_calls = Cardinality(Returned')
        /\ ctx'.tool_index = ctx'.tally.tool_calls
        /\ \A i \in DOMAIN ctx'.traces :
               ctx'.traces[i].kind = "TOOL_CALL" => ctx'.traces[i].tool_index < ctx'.tool_index
        /\ \A j \in 0..ctx'.tool_index - 1 :
               \E i \in DOMAIN ctx'.traces : ctx'.traces[i].kind = "TOOL_CALL" /\ ctx'.traces[i].tool_index = j
    BY <2>6, <1>0, <1>2 DEF TallyInv
  <2> QED BY <2>3, <2>5, <2>7, <2>8 DEF TallyInv
<1> QED BY <1>7, <1>8, <1>9, <1>10 DEF ToolInv

\* Context d is context c with one more read that returned, and its trace.
OneRead(c, d) ==
    /\ d \in Context /\ d.tool_index = c.tool_index + 1
    /\ d.status = c.status /\ d.attempt = c.attempt /\ d.step = c.step /\ d.intents = c.intents
    /\ d.tally.tool_calls = c.tally.tool_calls + 1 /\ d.tally.iterations = c.tally.iterations
    /\ \E t \in Trace : /\ t.kind = "TOOL_CALL" /\ t.tool_index = c.tool_index
                        /\ d.traces = Append(c.traces, t)

(* What a read that returned adds to a context (run_tool).                   *)
LEMMA AccountedContext ==
  ASSUME NEW c \in Context, NEW d, d = run_tool_returned(c) PROVE OneRead(c, d)
<1>1. PICK t : t = [kind |-> "TOOL_CALL", step |-> c.step, tool_index |-> c.tool_index]
  OBVIOUS
<1>2. /\ c.step \in Nat /\ c.tool_index \in Nat /\ c.traces \in Seq(Trace)
      /\ c.tally \in [tool_calls : Nat, iterations : Nat]
  BY DEF Context
<1>3. t \in Trace /\ t.kind = "TOOL_CALL" /\ t.tool_index = c.tool_index
  BY <1>1, <1>2 DEF Trace
<1>4. PICK traces \in Seq(Trace) : traces = Append(c.traces, t)
  <2>1. Append(c.traces, t) \in Seq(Trace)
    BY <1>2, <1>3
  <2> QED BY <2>1
<1>5. PICK tool_index \in Nat : tool_index = c.tool_index + 1
  BY <1>2
<1>6. PICK tally \in [tool_calls : Nat, iterations : Nat] :
          tally = [c.tally EXCEPT !.tool_calls = @ + 1]
  <2>1. PICK y \in [tool_calls : Nat, iterations : Nat] : y = c.tally
    BY <1>2
  <2>2. [y EXCEPT !.tool_calls = @ + 1] \in [tool_calls : Nat, iterations : Nat]
    BY <2>1
  <2> QED BY <2>1, <2>2
<1>7. d = [c EXCEPT !.tally = tally, !.tool_index = tool_index, !.traces = traces]
  BY <1>1, <1>4, <1>5, <1>6 DEF run_tool_returned, tool_call
<1>8. d = [status |-> c.status, attempt |-> c.attempt, step |-> c.step, tool_index |-> tool_index,
           intents |-> c.intents, traces |-> traces, tally |-> tally]
  BY <1>7 DEF Context
<1>9. tally.tool_calls = c.tally.tool_calls + 1 /\ tally.iterations = c.tally.iterations
  BY <1>2, <1>6
<1> HIDE <1>7, <1>1, <1>6
<1>10. d \in Context
  BY <1>8 DEF Context
<1> QED BY <1>3, <1>4, <1>5, <1>8, <1>9, <1>10 DEF OneRead

(* The end of a call changes its state and nothing else (ended).             *)
LEMMA EndedBody ==
  ASSUME NEW b \in Body,
         NEW how \in {"running", "cancelled", "returned", "raised", "raised_argument_error"},
         NEW y, y = [b EXCEPT !.state = how]
  PROVE  /\ y \in Body /\ y.state = how
         /\ y.id = b.id /\ y.where = b.where /\ y.owner = b.owner /\ y.try = b.try /\ y.via = b.via
         /\ y.side_effect = b.side_effect /\ y.intent = b.intent /\ y.sync = b.sync
BY DEF Body

(* run_tool returns or raises; only a read that returned is accounted for.   *)
LEMMA ReadEndsKeeps ==
  ASSUME ToolInv, NEW b \in bodies, NEW how \in InlineEnds, RunToolEnds(b, how)
  PROVE  ToolInv'
<1>0. ToolType /\ StagedInv /\ EffectInv /\ TallyInv
  BY DEF ToolInv
<1>1. /\ ctx.status = "running" /\ b.state = "running" /\ bodies' = ended(b, how)
      /\ ctx' = accounted(ctx, how)
      /\ registry' = registry /\ deployed' = deployed /\ abandoned' = abandoned
      /\ execution' = execution /\ results' = results
  BY DEF RunToolEnds
<1>2. how \in {"returned", "raised"}
  BY DEF InlineEnds
<1>3. PICK y : y = [b EXCEPT !.state = how]
  OBVIOUS
<1>4. b \in Body /\ InlineBody(b) /\ b.where = "pipeline"
  BY <1>0, <1>1 DEF ToolType, EffectInv, StagedInv
<1>5. /\ y \in Body /\ y.state = how
      /\ y.id = b.id /\ y.where = b.where /\ y.owner = b.owner /\ y.via = b.via
      /\ y.side_effect = b.side_effect /\ y.intent = b.intent
  BY <1>2, <1>3, <1>4, EndedBody
<1>6. bodies' = (bodies \ {b}) \cup {y}
  BY <1>1, <1>3 DEF ended
<1> HIDE <1>3
<1>7. DOMAIN execution = {} /\ results = {} /\ \A c \in bodies : c.where = "pipeline"
  BY <1>0, <1>1 DEF StagedInv
<1>8. b.via = "run_tool"
  BY <1>1, <1>4 DEF InlineBody
<1>9. PICK d : d = ctx'
  OBVIOUS
<1>10. ctx \in Context
  BY <1>0 DEF ToolType
<1>11. IF how = "returned" THEN OneRead(ctx, d) ELSE d = ctx
  <2>1. how = "returned" => d = run_tool_returned(ctx)
    BY <1>1, <1>9 DEF accounted
  <2>2. how # "returned" => d = ctx
    BY <1>1, <1>9 DEF accounted
  <2> QED BY <2>1, <2>2, <1>10, AccountedContext
<1>12. /\ d \in Context /\ d.status = ctx.status /\ d.attempt = ctx.attempt /\ d.step = ctx.step
       /\ d.intents = ctx.intents /\ d.tally.iterations = ctx.tally.iterations
  BY <1>10, <1>11 DEF OneRead
<1>13. ToolType'
  BY <1>0, <1>1, <1>5, <1>6, <1>9, <1>12 DEF ToolType
<1>14. StagedInv'
  BY <1>0, <1>1, <1>4, <1>5, <1>6, <1>9, <1>12 DEF StagedInv
<1>15. EffectInv'
  <2>1. \A c \in bodies : InlineBody(c)'
    BY <1>0, <1>9, <1>12 DEF EffectInv, InlineBody
  <2>2. InlineBody(y)'
    BY <1>2, <1>4, <1>5, <1>9, <1>12 DEF InlineBody
  <2> QED BY <2>1, <2>2, <1>1, <1>4, <1>5, <1>6, <1>7, NothingLeft
<1>16. PICK size \in Nat : size = Cardinality(bodies)
  BY <1>0, <1>1, FS_CardinalityType DEF TallyInv
<1>17. /\ IsFiniteSet(bodies)
       /\ \A c \in bodies : c.id <= size
       /\ \A c, e \in bodies : c.id = e.id => c = e
  BY <1>0, <1>1, <1>16 DEF TallyInv
<1>18. y \notin bodies
  BY <1>1, <1>2, <1>5, <1>17
<1>19. /\ IsFiniteSet(bodies') /\ Cardinality(bodies') = size
       /\ \A c \in bodies' : c.id <= Cardinality(bodies')
       /\ \A c, e \in bodies' : c.id = e.id => c = e
  <2>1. IsFiniteSet(bodies \ {b}) /\ Cardinality(bodies \ {b}) = size - 1
    BY <1>16, <1>17, FS_RemoveElement
  <2>2. IsFiniteSet(bodies') /\ Cardinality(bodies') = (size - 1) + 1
    BY <2>1, <1>6, <1>18, FS_AddElement
  <2>3. Cardinality(bodies') = size
    BY <2>2, <1>16
  <2>4. \A c \in bodies' : c.id <= size
    BY <1>5, <1>6, <1>17
  <2>5. \A c, e \in bodies' : c.id = e.id => c = e
    BY <1>5, <1>6, <1>17
  <2> QED BY <2>2, <2>3, <2>4, <2>5
<1>20. Returned' = IF how = "returned" THEN Returned \cup {y} ELSE Returned
  BY <1>1, <1>2, <1>4, <1>5, <1>6, <1>8 DEF Returned
<1>21. y \notin Returned
  BY <1>18 DEF Returned
<1>22. TallyInv'
  <2>1. CASE how # "returned"
    <3>1. Cardinality(Returned') = Cardinality(Returned) /\ IsFiniteSet(Returned') /\ ctx' = ctx
      BY <2>1, <1>0, <1>9, <1>11, <1>20 DEF TallyInv
    <3> QED BY <3>1, <1>0, <1>19 DEF TallyInv
  <2>2. CASE how = "returned"
    <3>1. /\ d.tool_index = ctx.tool_index + 1 /\ d.tally.tool_calls = ctx.tally.tool_calls + 1
          /\ \E t \in Trace : /\ t.kind = "TOOL_CALL" /\ t.tool_index = ctx.tool_index
                              /\ d.traces = Append(ctx.traces, t)
      BY <2>2, <1>11 DEF OneRead
    <3>2. PICK t \in Trace : /\ t.kind = "TOOL_CALL" /\ t.tool_index = ctx.tool_index
                             /\ d.traces = Append(ctx.traces, t)
      BY <3>1
    <3>3. ctx.traces \in Seq(Trace) /\ ctx.tool_index \in Nat
      BY <1>10 DEF Context
    <3>4. /\ \A m \in DOMAIN ctx.traces : m \in DOMAIN d.traces /\ d.traces[m] = ctx.traces[m]
          /\ Len(ctx.traces) + 1 \in DOMAIN d.traces /\ d.traces[Len(ctx.traces) + 1] = t
          /\ \A m \in DOMAIN d.traces : m \in DOMAIN ctx.traces \/ m = Len(ctx.traces) + 1
      BY <3>2, <3>3, OneMore
    <3>5. /\ IsFiniteSet(Returned') /\ d.tally.tool_calls = Cardinality(Returned')
          /\ d.tool_index = d.tally.tool_calls
      <4>1. /\ IsFiniteSet(Returned) /\ ctx.tally.tool_calls = Cardinality(Returned)
            /\ ctx.tool_index = ctx.tally.tool_calls
        BY <1>0 DEF TallyInv
      <4>2. IsFiniteSet(Returned') /\ Cardinality(Returned') = Cardinality(Returned) + 1
        BY <4>1, <2>2, <1>20, <1>21, FS_AddElement
      <4> QED BY <4>1, <4>2, <3>1
    <3>6. \A m \in DOMAIN ctx.traces : ctx.traces[m].tool_index \in Nat
      <4>1. \A m \in DOMAIN ctx.traces : ctx.traces[m] \in Trace
        BY <3>3
      <4> QED BY <4>1 DEF Trace
    <3>7. \A m \in DOMAIN d.traces : d.traces[m].kind = "TOOL_CALL" => d.traces[m].tool_index < d.tool_index
      BY <3>1, <3>2, <3>3, <3>4, <3>6, <1>0 DEF TallyInv
    <3>8. \A x \in 0..d.tool_index - 1 :
             \E m \in DOMAIN d.traces : d.traces[m].kind = "TOOL_CALL" /\ d.traces[m].tool_index = x
      <4> SUFFICES ASSUME NEW x \in 0..d.tool_index - 1
                   PROVE  \E m \in DOMAIN d.traces : d.traces[m].kind = "TOOL_CALL" /\ d.traces[m].tool_index = x
        OBVIOUS
      <4>1. CASE x = ctx.tool_index
        BY <4>1, <3>2, <3>4
      <4>2. CASE x # ctx.tool_index
        <5>1. x \in 0..ctx.tool_index - 1
          BY <4>2, <3>1, <3>3
        <5> QED BY <5>1, <3>4, <1>0 DEF TallyInv
      <4> QED BY <4>1, <4>2
    <3> QED BY <3>5, <3>7, <3>8, <1>9, <1>19 DEF TallyInv
  <2> QED BY <2>1, <2>2
<1> QED BY <1>13, <1>14, <1>15, <1>22 DEF ToolInv

-----------------------------------------------------------------------------
(* An attempt begins, returns or fails, and its calls are forgotten with it. *)

(* The attempt's calls are all there are of the pipeline's.                  *)
LEMMA NoInlineOutsideAnAttempt ==
  ASSUME ToolInv
  PROVE  /\ ctx.status # "running" => \A b \in bodies : b.where # "pipeline"
         /\ ctx.status = "running" => Inline = bodies
<1>1. \A b \in bodies : InlineBody(b)
  BY DEF ToolInv, EffectInv
<1>2. ctx.status # "drained" => \A b \in bodies : b.where = "pipeline"
  BY DEF ToolInv, StagedInv
<1> QED BY <1>1, <1>2 DEF InlineBody, Inline

(* Without calls, intents or results there is nothing to be told of.         *)
LEMMA EmptyHanded ==
  ASSUME ToolType', bodies' = {}, DOMAIN execution' = {}, results' = {}, Numbered(abandoned'),
         ctx'.status # "drained", ctx'.intents = <<>>, ctx'.traces = <<>>, ctx'.step = 0,
         ctx'.tool_index = 0, ctx'.tally.tool_calls = 0
  PROVE  ToolInv'
<1>1. StagedInv'
  BY DEF StagedInv, Numbered
<1>2. EffectInv'
  BY NothingLeft
<1>3. Returned' = {}
  BY DEF Returned
<1>4. TallyInv'
  BY <1>3, FS_EmptySet DEF TallyInv
<1> QED BY <1>1, <1>2, <1>4 DEF ToolInv

(* The runtime hands each attempt a fresh context.                           *)
LEMMA ActivateKeeps == ToolInv /\ Activate => ToolInv'
<1> SUFFICES ASSUME ToolInv, Activate PROVE ToolInv'
  OBVIOUS
<1>0. ToolType /\ StagedInv
  BY DEF ToolInv
<1>1. /\ ctx.status \in {"none", "failed"} /\ ctx' = AgentContext(ctx.attempt + 1)
      /\ registry' = registry /\ deployed' = deployed /\ abandoned' = abandoned
      /\ bodies' = bodies /\ execution' = execution /\ results' = results
  BY DEF Activate
<1>2. PICK n \in Nat : n = ctx.attempt + 1
  BY <1>0 DEF ToolType, Context
<1>3. /\ ctx' \in Context /\ ctx'.status = "running" /\ ctx'.step = 0 /\ ctx'.tool_index = 0
      /\ ctx'.intents = <<>> /\ ctx'.traces = <<>> /\ ctx'.tally.tool_calls = 0
  BY <1>1, <1>2, FreshContext
<1>4. DOMAIN execution = {} /\ results = {} /\ Numbered(abandoned) /\ \A b \in bodies : b.where = "pipeline"
  BY <1>0, <1>1 DEF StagedInv
<1>5. bodies = {}
  BY <1>1, <1>4, NoInlineOutsideAnAttempt
<1>6. ToolType'
  BY <1>0, <1>1, <1>3 DEF ToolType
<1> QED BY <1>1, <1>3, <1>4, <1>5, <1>6, EmptyHanded

(* An attempt that fails takes its calls with it, and nothing leaves.        *)
LEMMA FailKeeps == ToolInv /\ Fail => ToolInv'
<1> SUFFICES ASSUME ToolInv, Fail PROVE ToolInv'
  OBVIOUS
<1>0. ToolType /\ StagedInv
  BY DEF ToolInv
<1>1. /\ ctx.status = "running" /\ ctx' = [AgentContext(ctx.attempt) EXCEPT !.status = "failed"]
      /\ registry' = registry /\ deployed' = deployed /\ abandoned' = ctx.intents
      /\ bodies' = bodies \ Inline /\ execution' = execution /\ results' = results
  BY DEF Fail
<1>2. ctx \in Context
  BY <1>0 DEF ToolType
<1>3. PICK c : c = AgentContext(ctx.attempt)
  OBVIOUS
<1>4. /\ c \in Context /\ c.step = 0 /\ c.tool_index = 0
      /\ c.intents = <<>> /\ c.traces = <<>> /\ c.tally.tool_calls = 0
  <2>1. ctx.attempt \in Nat
    BY <1>2 DEF Context
  <2> QED BY <2>1, <1>3, FreshContext
<1>5. /\ ctx' \in Context /\ ctx'.status = "failed" /\ ctx'.step = 0 /\ ctx'.tool_index = 0
      /\ ctx'.intents = <<>> /\ ctx'.traces = <<>> /\ ctx'.tally.tool_calls = 0
  <2>1. ctx' = [c EXCEPT !.status = "failed"]
    BY <1>1, <1>3
  <2> QED BY <2>1, <1>4 DEF Context
<1>6. DOMAIN execution = {} /\ results = {} /\ Numbered(ctx.intents)
  BY <1>0, <1>1 DEF StagedInv
<1>7. bodies' = {}
  BY <1>1, NoInlineOutsideAnAttempt
<1>8. ctx.intents \in Seq(Intent)
  BY <1>2 DEF Context
<1>9. ToolType'
  BY <1>0, <1>1, <1>5, <1>7, <1>8 DEF ToolType
<1> QED BY <1>1, <1>5, <1>6, <1>7, <1>9, EmptyHanded

(* What an activation that returned lets out: its intents (drain).           *)
LEMMA DrainedContext ==
  ASSUME NEW c \in Context, NEW d, d = drain(c)
  PROVE  /\ d \in Context /\ d.status = "drained" /\ d.intents = c.intents /\ d.step = c.step
         /\ d.tally.iterations = c.step /\ d.tally.tool_calls = 0 /\ d.tool_index = 0 /\ d.traces = <<>>
<1>1. c.attempt \in Nat /\ c.step \in Nat /\ c.intents \in Seq(Intent)
  BY DEF Context
<1>2. PICK a \in Context : a = AgentContext(c.attempt)
  BY <1>1, FreshContext
<1>3. a.tool_index = 0 /\ a.traces = <<>> /\ a.tally = [tool_calls |-> 0, iterations |-> 0]
  BY <1>1, <1>2, FreshContext
<1>4. PICK tally \in [tool_calls : Nat, iterations : Nat] :
          tally = [a.tally EXCEPT !.iterations = c.step]
  <2>1. a.tally \in [tool_calls : Nat, iterations : Nat]
    BY <1>3
  <2>2. PICK y \in [tool_calls : Nat, iterations : Nat] : y = a.tally
    BY <2>1
  <2>3. [y EXCEPT !.iterations = c.step] \in [tool_calls : Nat, iterations : Nat]
    BY <1>1, <2>2
  <2> QED BY <2>2, <2>3
<1>5. tally.iterations = c.step /\ tally.tool_calls = 0
  BY <1>1, <1>3, <1>4
<1>6. d = [a EXCEPT !.status = "drained", !.intents = c.intents, !.step = c.step, !.tally = tally]
  BY <1>2, <1>4 DEF drain
<1>7. d = [status |-> "drained", attempt |-> a.attempt, step |-> c.step, tool_index |-> a.tool_index,
           intents |-> c.intents, traces |-> a.traces, tally |-> tally]
  BY <1>6, <1>2 DEF Context
<1> HIDE <1>6, <1>2
<1>8. a.attempt \in Nat /\ a.tool_index \in Nat /\ a.traces \in Seq(Trace)
  BY <1>2 DEF Context
<1>9. d \in Context
  BY ONLY <1>1, <1>4, <1>7, <1>8 DEF Context
<1> QED BY <1>3, <1>5, <1>7, <1>9

(* activate returns: every intent it staged is to be executed.               *)
LEMMA ReturnKeeps == ToolInv /\ Return => ToolInv'
<1> SUFFICES ASSUME ToolInv, Return PROVE ToolInv'
  OBVIOUS
<1>0. ToolType /\ StagedInv
  BY DEF ToolInv
<1>1. /\ ctx.status = "running" /\ ctx' = drain(ctx)
      /\ execution' = [i \in DOMAIN ctx.intents |-> [try |-> 0, phase |-> "queued"]]
      /\ registry' = registry /\ deployed' = deployed /\ abandoned' = <<>>
      /\ bodies' = bodies \ Inline /\ results' = results
  BY DEF Return
<1>2. ctx \in Context /\ ctx.intents \in Seq(Intent) /\ ctx.step \in Nat
  BY <1>0 DEF ToolType, Context
<1>3. PICK d : d = ctx'
  OBVIOUS
<1>4. /\ d \in Context /\ d.status = "drained" /\ d.intents = ctx.intents /\ d.step = ctx.step
      /\ d.tally.iterations = ctx.step /\ d.tally.tool_calls = 0 /\ d.tool_index = 0 /\ d.traces = <<>>
  BY <1>1, <1>2, <1>3, DrainedContext
<1>5. bodies' = {}
  BY <1>1, NoInlineOutsideAnAttempt
<1>6. /\ DOMAIN execution' = DOMAIN ctx.intents /\ execution' \in [DOMAIN execution' -> Work]
      /\ \A i \in DOMAIN execution' : execution'[i].phase = "queued"
  BY <1>1 DEF Work
<1>7. results' = {} /\ Numbered(ctx.intents) /\ ctx.step = Len(ctx.intents)
  BY <1>0, <1>1 DEF StagedInv
<1>8. DOMAIN ctx.intents \subseteq Nat
  BY <1>2
<1>9. ToolType'
  <2>1. <<>> \in Seq(Intent)
    OBVIOUS
  <2>2. abandoned' \in Seq(Intent)
    BY <2>1, <1>1
  <2> QED BY <2>2, <1>0, <1>1, <1>3, <1>4, <1>5, <1>6, <1>7, <1>8 DEF ToolType
<1>10. StagedInv'
  <2>1. Numbered(abandoned')
    BY <1>1 DEF Numbered
  <2> QED BY <2>1, <1>3, <1>4, <1>6, <1>7 DEF StagedInv
<1>11. EffectInv'
  BY <1>5, <1>6, <1>7 DEF EffectInv, CalledOnce, RunningIsCalled
<1>12. TallyInv'
  <2>1. Returned' = {}
    BY <1>5 DEF Returned
  <2> QED BY <2>1, <1>3, <1>4, <1>5, FS_EmptySet DEF TallyInv
<1> QED BY <1>9, <1>10, <1>11, <1>12 DEF ToolInv

-----------------------------------------------------------------------------
(* The effector's side: the intents have left, and the context is the one    *)
(* they left with.                                                           *)

\* The pipeline's side stays as it was.
PipelineUnchanged == UNCHANGED <<registry, ctx, abandoned>>

(* What the effector changes: its bodies, its work and its results.          *)
LEMMA EffectorMoves ==
  ASSUME ToolInv, ctx.status = "drained", PipelineUnchanged, WellDeclared(deployed'),
         bodies' \subseteq Body, IsFiniteSet(bodies'), \A b \in bodies' : b.where = "effector",
         execution' \in [DOMAIN execution -> Work], results' \subseteq Result, EffectInv'
  PROVE  ToolInv'
<1>0. ToolType /\ StagedInv /\ TallyInv
  BY DEF ToolInv
<1>1. registry' = registry /\ ctx' = ctx /\ abandoned' = abandoned
  BY DEF PipelineUnchanged
<1>2. DOMAIN execution' = DOMAIN execution
  OBVIOUS
<1>3. ToolType'
  BY <1>0, <1>1, <1>2 DEF ToolType
<1>4. StagedInv'
  BY <1>0, <1>1, <1>2 DEF StagedInv
<1>5. TallyInv'
  <2>1. \A b \in bodies : b.where # "pipeline"
    BY NoInlineOutsideAnAttempt
  <2>2. Returned = {}
    BY <2>1 DEF Returned
  <2>3. Returned' = {}
    BY DEF Returned
  <2> QED BY <2>2, <2>3, <1>0, <1>1 DEF TallyInv
<1> QED BY <1>3, <1>4, <1>5 DEF ToolInv

(* Only the intents that left give the effector anything to do.              *)
LEMMA WorkIsDrained ==
  ASSUME ToolInv
  PROVE  /\ DOMAIN execution # {} => ctx.status = "drained"
         /\ (\E b \in bodies : b.where = "effector") => ctx.status = "drained"
         /\ ctx.status = "drained" => \A b \in bodies : b \in Body /\ b.where = "effector"
<1>1. bodies \subseteq Body
  BY DEF ToolInv, ToolType
<1>2. ctx.status # "drained" => DOMAIN execution = {} /\ \A b \in bodies : b.where = "pipeline"
  BY DEF ToolInv, StagedInv
<1>3. ctx.status = "drained" => \A b \in bodies : b.where # "pipeline"
  BY NoInlineOutsideAnAttempt
<1> QED BY <1>1, <1>2, <1>3 DEF Body

\* The call stays the one it was, of the same intent and the same try.
SameCall(b, c) ==
    /\ c.where = b.where /\ c.owner = b.owner /\ c.try = b.try
    /\ c.side_effect = b.side_effect /\ c.intent = b.intent

\* Running calls of the effector end, or are cancelled, and what has ended stays.
CallsEnd(f) ==
    /\ f \in [bodies -> Body] /\ bodies' = {f[b] : b \in bodies}
    /\ \A b \in bodies : SameCall(b, f[b]) /\ (b.state # "running" => f[b] = b)

(* Ending calls are still the same calls.                                    *)
LEMMA EndedCalls ==
  ASSUME NEW f, CallsEnd(f), NEW i, NEW try
  PROVE  /\ \A b \in bodies : CalledIn(b, i, try) <=> CalledIn(f[b], i, try)
         /\ \A c \in bodies' : \E b \in bodies : c = f[b]
         /\ \A b \in bodies : f[b] \in bodies'
<1>1. bodies' = {f[b] : b \in bodies} /\ \A b \in bodies : SameCall(b, f[b])
  BY DEF CallsEnd
<1>2. \A b \in bodies : CalledIn(b, i, try) <=> CalledIn(f[b], i, try)
  BY <1>1 DEF SameCall, CalledIn
<1> QED BY <1>1, <1>2

(* Calls of the effector end and work is done: what was told stays true.     *)
LEMMA EndingKeeps ==
  ASSUME ToolInv, ctx.status = "drained", PipelineUnchanged, WellDeclared(deployed'),
         NEW f, CallsEnd(f), execution' \in [DOMAIN execution -> Work],
         \A i \in DOMAIN execution :
             /\ execution'[i].try = execution[i].try
             /\ execution'[i].phase = "running" => execution[i].phase = "running",
         results' \subseteq Result, \A r \in results' : r \in results \/ ToldTruly(r)'
  PROVE  ToolInv'
<1>0. ToolType /\ EffectInv /\ TallyInv
  BY DEF ToolInv
<1>1. registry' = registry /\ ctx' = ctx /\ abandoned' = abandoned
  BY DEF PipelineUnchanged
<1>2. /\ f \in [bodies -> Body] /\ bodies' = {f[b] : b \in bodies}
      /\ \A b \in bodies : SameCall(b, f[b]) /\ (b.state # "running" => f[b] = b)
  BY DEF CallsEnd
<1>3. \A b \in bodies : b.where = "effector"
  BY WorkIsDrained
<1>4. \A c \in bodies' : c.where = "effector" /\ c \in Body
  BY <1>2, <1>3 DEF SameCall
<1>5. IsFiniteSet(bodies')
  <2>1. f \in Surjection(bodies, bodies')
    BY <1>2 DEF Surjection
  <2> QED BY <2>1, <1>0, FS_Surjection DEF TallyInv
<1>6. DOMAIN execution' = DOMAIN execution
  OBVIOUS
<1>7. \A c \in bodies' : InlineBody(c)' /\ EffectorBody(c)'
  <2> SUFFICES ASSUME NEW b \in bodies PROVE InlineBody(f[b])' /\ EffectorBody(f[b])'
    BY <1>2
  <2>1. EffectorBody(b) /\ SameCall(b, f[b]) /\ b.where = "effector" /\ f[b].where = "effector"
    BY <1>0, <1>2, <1>3 DEF EffectInv, SameCall
  <2>2. /\ b.owner \in DOMAIN execution /\ ctx.intents[b.owner].kind = "TOOL"
        /\ b.try <= execution[b.owner].try /\ b.side_effect /\ b.intent \in {0, b.owner}
    BY <2>1 DEF EffectorBody
  <2>3. EffectorBody(f[b])'
    BY <2>1, <2>2, <1>1, <1>6 DEF EffectorBody, SameCall
  <2>4. InlineBody(f[b])'
    BY <2>1 DEF InlineBody
  <2> QED BY <2>3, <2>4
<1>8. CalledOnce'
  <2> SUFFICES ASSUME NEW b \in bodies, NEW c \in bodies,
                      f[b].owner = f[c].owner, f[b].try = f[c].try
               PROVE  f[b] = f[c]
    BY <1>2 DEF CalledOnce
  <2>1. b.owner = c.owner /\ b.try = c.try /\ b.where = "effector" /\ c.where = "effector"
    BY <1>2, <1>3 DEF SameCall
  <2>2. b = c
    BY <2>1, <1>0 DEF EffectInv, CalledOnce
  <2> QED BY <2>2
<1>9. RunningIsCalled'
  <2> SUFFICES ASSUME NEW i \in DOMAIN execution, execution'[i].phase = "running"
               PROVE  \E c \in bodies' : CalledIn(c, i, execution'[i].try)
    BY <1>6 DEF RunningIsCalled, CalledIn
  <2>1. execution'[i].try = execution[i].try /\ execution[i].phase = "running"
    OBVIOUS
  <2>2. PICK b \in bodies : CalledIn(b, i, execution[i].try)
    BY <2>1, <1>0 DEF EffectInv, RunningIsCalled
  <2>3. f[b] \in bodies' /\ CalledIn(f[b], i, execution[i].try)
    BY <2>2, EndedCalls
  <2> QED BY <2>1, <2>3
<1>10. \A r \in results' : ToldTruly(r)'
  <2> SUFFICES ASSUME NEW r \in results PROVE ToldTruly(r)'
    OBVIOUS
  <2>1. ToldTruly(r)
    BY <1>0 DEF EffectInv
  <2>2. /\ \A b \in bodies : CalledIn(b, r.intent, r.try) <=> CalledIn(f[b], r.intent, r.try)
        /\ \A c \in bodies' : \E b \in bodies : c = f[b]
        /\ \A b \in bodies : f[b] \in bodies'
    BY EndedCalls
  <2>3. r.intent \in DOMAIN execution' /\ r.try <= execution'[r.intent].try
    BY <2>1, <1>6 DEF ToldTruly
  <2>4. r.status = "REJECTED" =>
            \A c \in bodies' : CalledIn(c, r.intent, r.try) => c.state = "raised_argument_error"
    <3> SUFFICES ASSUME r.status = "REJECTED", NEW c \in bodies', CalledIn(c, r.intent, r.try)
                 PROVE  c.state = "raised_argument_error"
      OBVIOUS
    <3>1. PICK b \in bodies : c = f[b]
      BY <2>2
    <3>2. b.state = "raised_argument_error"
      BY <3>1, <2>1, <2>2 DEF ToldTruly
    <3> QED BY <3>1, <3>2, <1>2
  <2>5. r.status = "OK" => \E c \in bodies' : CalledIn(c, r.intent, r.try) /\ c.state = "returned"
    <3> SUFFICES ASSUME r.status = "OK"
                 PROVE  \E c \in bodies' : CalledIn(c, r.intent, r.try) /\ c.state = "returned"
      OBVIOUS
    <3>1. PICK b \in bodies : CalledIn(b, r.intent, r.try) /\ b.state = "returned"
      BY <2>1 DEF ToldTruly
    <3>2. f[b] = b /\ f[b] \in bodies'
      BY <3>1, <2>2, <1>2
    <3> QED BY <3>1, <3>2
  <2>6. r.status = "ERROR" => \E c \in bodies' : CalledIn(c, r.intent, r.try)
    BY <2>1, <2>2 DEF ToldTruly
  <2> QED BY <2>3, <2>4, <2>5, <2>6 DEF ToldTruly, CalledIn
<1>11. EffectInv'
  BY <1>7, <1>8, <1>9, <1>10 DEF EffectInv
<1> QED BY <1>4, <1>5, <1>11, EffectorMoves

(* A call ends: what is published of one that is awaited is what it did.     *)
LEMMA BodyEndsKeeps ==
  ASSUME ToolInv, NEW b \in bodies, NEW how \in Ends, BodyEnds(b, how)
  PROVE  ToolInv'
<1>0. ToolType /\ EffectInv
  BY DEF ToolInv
<1>1. /\ b.where = "effector" /\ b.state = "running" /\ bodies' = ended(b, how)
      /\ registry' = registry /\ deployed' = deployed /\ ctx' = ctx /\ abandoned' = abandoned
  BY DEF BodyEnds
<1>2. ctx.status = "drained"
  BY <1>1, WorkIsDrained
<1>3. how \in {"running", "cancelled", "returned", "raised", "raised_argument_error"} /\ b \in Body
  BY <1>0 DEF Ends, InlineEnds, ToolType
<1>4. PICK y : y = [b EXCEPT !.state = how]
  OBVIOUS
<1>5. y \in Body /\ y.state = how /\ SameCall(b, y)
  BY <1>3, <1>4, EndedBody DEF SameCall
<1>6. bodies' = (bodies \ {b}) \cup {y}
  BY <1>1, <1>4 DEF ended
<1> HIDE <1>4
<1>7. PICK f : f = [x \in bodies |-> IF x = b THEN y ELSE x]
  OBVIOUS
<1>8. CallsEnd(f)
  <2>1. f \in [bodies -> Body]
    BY <1>0, <1>5, <1>7 DEF ToolType
  <2>2. bodies' = {f[x] : x \in bodies}
    BY <1>6, <1>7
  <2>3. \A x \in bodies : SameCall(x, f[x]) /\ (x.state # "running" => f[x] = x)
    BY <1>1, <1>5, <1>7 DEF SameCall
  <2> QED BY <2>1, <2>2, <2>3 DEF CallsEnd
<1>9. PipelineUnchanged /\ WellDeclared(deployed')
  BY <1>0, <1>1 DEF PipelineUnchanged, ToolType
<1>10. /\ b.owner \in DOMAIN execution /\ b.owner \in Nat /\ b.try \in Nat
       /\ execution \in [DOMAIN execution -> Work] /\ results \subseteq Result
  BY <1>0, <1>1, <1>3 DEF EffectInv, EffectorBody, ToolType, Body
<1>11. CASE UNCHANGED <<execution, results>>
  <2>1. /\ execution' \in [DOMAIN execution -> Work] /\ results' \subseteq Result
        /\ \A i \in DOMAIN execution :
               /\ execution'[i].try = execution[i].try
               /\ execution'[i].phase = "running" => execution[i].phase = "running"
        /\ \A r \in results' : r \in results
    BY <1>10, <1>11
  <2> QED BY <2>1, <1>2, <1>8, <1>9, EndingKeeps
<1>12. CASE /\ execution[b.owner].phase = "running" /\ b.try = execution[b.owner].try
            /\ \E s \in _execute_intent_status(how) : publish(b.owner, b.try, s)
            /\ execution' = [execution EXCEPT ![b.owner].phase = "done"]
  <2>1. PICK s \in _execute_intent_status(how) :
            results' = results \cup {[intent |-> b.owner, try |-> b.try, status |-> s]}
    BY <1>12 DEF publish
  <2>2. /\ s \in {"OK", "ERROR", "REJECTED"}
        /\ s = "OK" => how = "returned"
        /\ s = "REJECTED" => how = "raised_argument_error"
    BY <2>1, <1>3 DEF _execute_intent_status, Ends, InlineEnds
  <2>3. PICK r \in Result : r = [intent |-> b.owner, try |-> b.try, status |-> s]
    BY <2>2, <1>10 DEF Result
  <2>4. results' = results \cup {r} /\ r.intent = b.owner /\ r.try = b.try /\ r.status = s
    BY <2>1, <2>3
  <2> HIDE <2>1, <2>3
  <2>5. PICK w \in Work : w = [execution[b.owner] EXCEPT !.phase = "done"]
    <3>1. PICK v \in Work : v = execution[b.owner]
      BY <1>10
    <3>2. [v EXCEPT !.phase = "done"] \in Work
      BY <3>1 DEF Work
    <3> QED BY <3>1, <3>2
  <2>6. w.try = execution[b.owner].try /\ w.phase = "done"
    <3>1. execution[b.owner] \in Work
      BY <1>10
    <3> QED BY <3>1, <2>5 DEF Work
  <2>7. execution' = [execution EXCEPT ![b.owner] = w]
    BY <1>12, <2>5
  <2> HIDE <2>5
  <2>8. /\ execution' \in [DOMAIN execution -> Work]
        /\ \A i \in DOMAIN execution :
               /\ execution'[i].try = execution[i].try
               /\ execution'[i].phase = "running" => execution[i].phase = "running"
    BY <2>5, <2>6, <2>7, <1>10
  <2>9. f[b] = y /\ y \in bodies' /\ CalledIn(y, b.owner, b.try)
    BY <1>1, <1>5, <1>6, <1>7 DEF SameCall, CalledIn
  <2>10. \A c \in bodies' : CalledIn(c, b.owner, b.try) => c = y
    <3> SUFFICES ASSUME NEW c \in bodies', CalledIn(c, b.owner, b.try) PROVE c = y
      OBVIOUS
    <3>1. CASE c # y
      <4>1. c \in bodies /\ c # b
        BY <3>1, <1>6
      <4> QED BY <4>1, <1>0, <1>1 DEF EffectInv, CalledOnce, CalledIn
    <3> QED BY <3>1
  <2>11. ToldTruly(r)'
    <3>1. DOMAIN execution' = DOMAIN execution /\ execution'[b.owner].try = b.try
      BY <2>8, <1>10, <1>12
    <3>2. r.intent \in DOMAIN execution' /\ r.try <= execution'[r.intent].try
      BY <3>1, <2>4, <1>10
    <3>3. r.status = "REJECTED" =>
              \A c \in bodies' : CalledIn(c, r.intent, r.try) => c.state = "raised_argument_error"
      BY <2>2, <2>4, <2>10, <1>5
    <3>4. r.status = "OK" => \E c \in bodies' : CalledIn(c, r.intent, r.try) /\ c.state = "returned"
      BY <2>2, <2>4, <2>9, <1>5
    <3>5. r.status = "ERROR" => \E c \in bodies' : CalledIn(c, r.intent, r.try)
      BY <2>4, <2>9
    <3> QED BY <3>2, <3>3, <3>4, <3>5 DEF ToldTruly
  <2>12. results' \subseteq Result /\ \A q \in results' : q \in results \/ ToldTruly(q)'
    BY <2>3, <2>4, <2>11, <1>10
  <2> QED BY <2>8, <2>12, <1>2, <1>8, <1>9, EndingKeeps
<1> QED BY <1>11, <1>12 DEF BodyEnds

(* A cancelled call stays the one it was (cancelled).                        *)
LEMMA CancelledCalls ==
  ASSUME bodies \subseteq Body, NEW S, bodies' = cancelled(S)
  PROVE  \E f : CallsEnd(f)
<1>1. PICK f : f = [b \in bodies |-> IF b \in S /\ b.state = "running" /\ ~b.sync
                                     THEN [b EXCEPT !.state = "cancelled"] ELSE b]
  OBVIOUS
<1>2. \A b \in bodies : /\ f[b] \in Body /\ SameCall(b, f[b])
                        /\ b.state # "running" => f[b] = b
  <2> SUFFICES ASSUME NEW b \in bodies
               PROVE  f[b] \in Body /\ SameCall(b, f[b]) /\ (b.state # "running" => f[b] = b)
    OBVIOUS
  <2>1. PICK y : y = [b EXCEPT !.state = "cancelled"]
    OBVIOUS
  <2>2. y \in Body /\ SameCall(b, y)
    BY <2>1, EndedBody DEF SameCall
  <2>3. (b.state = "running" /\ f[b] = y) \/ f[b] = b
    BY <2>1, <1>1
  <2> HIDE <2>1
  <2> QED BY <2>2, <2>3 DEF SameCall
<1>3. bodies' = {f[b] : b \in bodies}
  BY <1>1 DEF cancelled
<1>4. f \in [bodies -> Body]
  BY <1>1, <1>2
<1> QED BY <1>2, <1>3, <1>4 DEF CallsEnd

(* The work on one intent moves on, and its try stays the one it is.         *)
LEMMA WorkMovesOn ==
  ASSUME execution \in [DOMAIN execution -> Work], NEW i \in DOMAIN execution,
         NEW phase \in {"released", "done"}, execution' = [execution EXCEPT ![i].phase = phase]
  PROVE  /\ execution' \in [DOMAIN execution -> Work]
         /\ \A j \in DOMAIN execution :
                /\ execution'[j].try = execution[j].try
                /\ execution'[j].phase = "running" => execution[j].phase = "running"
<1>1. PICK v \in Work : v = execution[i]
  OBVIOUS
<1>2. PICK w : w = [v EXCEPT !.phase = phase]
  OBVIOUS
<1>3. w \in Work /\ w.try = v.try /\ w.phase = phase
  BY <1>1, <1>2 DEF Work
<1>4. execution' = [execution EXCEPT ![i] = w]
  BY <1>1, <1>2
<1> HIDE <1>2
<1> QED BY <1>1, <1>3, <1>4

(* wait_for gives up on a call that was made, and says ERROR.                *)
LEMMA TimesOutKeeps ==
  ASSUME ToolInv, NEW i, ToolTimesOut(i) PROVE ToolInv'
<1>0. ToolType /\ EffectInv
  BY DEF ToolInv
<1>1. /\ i \in DOMAIN execution /\ execution[i].phase = "running" /\ bodies' = cancelled(Mine(i))
      /\ results' = results \cup {[intent |-> i, try |-> execution[i].try, status |-> "ERROR"]}
      /\ execution' = [execution EXCEPT ![i].phase = "done"]
      /\ registry' = registry /\ deployed' = deployed /\ ctx' = ctx /\ abandoned' = abandoned
  BY DEF ToolTimesOut, publish, timeout_status
<1>2. /\ execution \in [DOMAIN execution -> Work] /\ bodies \subseteq Body /\ results \subseteq Result
      /\ i \in Nat
  BY <1>0, <1>1 DEF ToolType
<1>3. ctx.status = "drained" /\ PipelineUnchanged /\ WellDeclared(deployed')
  BY <1>0, <1>1, WorkIsDrained DEF PipelineUnchanged, ToolType
<1>4. PICK f : CallsEnd(f)
  BY <1>1, <1>2, CancelledCalls
<1>5. /\ execution' \in [DOMAIN execution -> Work]
      /\ \A j \in DOMAIN execution :
             /\ execution'[j].try = execution[j].try
             /\ execution'[j].phase = "running" => execution[j].phase = "running"
  BY <1>1, <1>2, WorkMovesOn
<1>6. execution[i].try \in Nat
  BY <1>1, <1>2 DEF Work
<1>7. PICK r \in Result : r = [intent |-> i, try |-> execution[i].try, status |-> "ERROR"]
  BY <1>2, <1>6 DEF Result
<1>8. results' = results \cup {r} /\ r.intent = i /\ r.try = execution[i].try /\ r.status = "ERROR"
  BY <1>1, <1>7
<1> HIDE <1>1, <1>7
<1>9. PICK b \in bodies : CalledIn(b, i, execution[i].try)
  BY <1>0, <1>1 DEF EffectInv, RunningIsCalled
<1>10. f[b] \in bodies' /\ CalledIn(f[b], i, execution[i].try)
  BY <1>4, <1>9, EndedCalls
<1>11. ToldTruly(r)'
  <2>1. r.intent \in DOMAIN execution' /\ r.try <= execution'[r.intent].try
    <3>1. i \in DOMAIN execution
      BY <1>1
    <3>2. i \in DOMAIN execution' /\ execution'[i].try = execution[i].try
      BY <3>1, <1>5
    <3> QED BY <3>2, <1>6, <1>8
  <2>2. \E c \in bodies' : CalledIn(c, r.intent, r.try)
    BY <1>8, <1>10
  <2> QED BY <2>1, <2>2, <1>8 DEF ToldTruly, CalledIn
<1>12. results' \subseteq Result /\ \A q \in results' : q \in results \/ ToldTruly(q)'
  BY <1>2, <1>7, <1>8, <1>11
<1> QED BY <1>3, <1>4, <1>5, <1>12, EndingKeeps

(* Revocation or shutdown gives a call up and says nothing.                  *)
LEMMA CancelKeeps ==
  ASSUME ToolInv, NEW i, CancelExecution(i) PROVE ToolInv'
<1>0. ToolType
  BY DEF ToolInv
<1>1. /\ i \in DOMAIN execution /\ bodies' = cancelled(Mine(i)) /\ results' = results
      /\ execution' = [execution EXCEPT ![i].phase = "released"]
      /\ registry' = registry /\ deployed' = deployed /\ ctx' = ctx /\ abandoned' = abandoned
  BY DEF CancelExecution
<1>2. execution \in [DOMAIN execution -> Work] /\ bodies \subseteq Body /\ results \subseteq Result
  BY <1>0 DEF ToolType
<1>3. ctx.status = "drained" /\ PipelineUnchanged /\ WellDeclared(deployed')
  BY <1>0, <1>1, WorkIsDrained DEF PipelineUnchanged, ToolType
<1>4. PICK f : CallsEnd(f)
  BY <1>1, <1>2, CancelledCalls
<1>5. /\ execution' \in [DOMAIN execution -> Work]
      /\ \A j \in DOMAIN execution :
             /\ execution'[j].try = execution[j].try
             /\ execution'[j].phase = "running" => execution[j].phase = "running"
  BY <1>1, <1>2, WorkMovesOn
<1>6. results' \subseteq Result /\ \A r \in results' : r \in results
  BY <1>1, <1>2
<1> QED BY <1>3, <1>4, <1>5, <1>6, EndingKeeps

(* The process is replaced, its calls with it; the intents are redelivered.  *)
LEMMA RedeployKeeps ==
  ASSUME ToolInv, Redeploy PROVE ToolInv'
<1>0. ToolType
  BY DEF ToolInv
<1>1. /\ deployed' = NoTools /\ results' = results
      /\ bodies' = {IF b.where = "effector" /\ b.state = "running"
                    THEN [b EXCEPT !.state = "cancelled"] ELSE b : b \in bodies}
      /\ execution' = [i \in DOMAIN execution |->
                           IF execution[i].phase = "running"
                           THEN [execution[i] EXCEPT !.phase = "released"] ELSE execution[i]]
      /\ registry' = registry /\ ctx' = ctx /\ abandoned' = abandoned
      /\ DOMAIN execution # {}
  BY DEF Redeploy
<1>2. execution \in [DOMAIN execution -> Work] /\ bodies \subseteq Body /\ results \subseteq Result
  BY <1>0 DEF ToolType
<1>3. ctx.status = "drained" /\ PipelineUnchanged /\ WellDeclared(deployed')
  BY <1>1, WorkIsDrained DEF PipelineUnchanged, WellDeclared, NoTools
<1>4. PICK f : f = [b \in bodies |-> IF b.where = "effector" /\ b.state = "running"
                                     THEN [b EXCEPT !.state = "cancelled"] ELSE b]
  OBVIOUS
<1>5. CallsEnd(f)
  <2>1. \A b \in bodies : /\ f[b] \in Body /\ SameCall(b, f[b])
                          /\ b.state # "running" => f[b] = b
    <3> SUFFICES ASSUME NEW b \in bodies
                 PROVE  f[b] \in Body /\ SameCall(b, f[b]) /\ (b.state # "running" => f[b] = b)
      OBVIOUS
    <3>1. PICK y : y = [b EXCEPT !.state = "cancelled"]
      OBVIOUS
    <3>2. y \in Body /\ SameCall(b, y)
      BY <3>1, <1>2, EndedBody DEF SameCall
    <3>3. (b.state = "running" /\ f[b] = y) \/ f[b] = b
      BY <3>1, <1>4
    <3>4. b \in Body
      BY <1>2
    <3> HIDE <3>1
    <3> QED BY <3>2, <3>3, <3>4 DEF SameCall
  <2>2. f \in [bodies -> Body]
    BY <2>1, <1>4
  <2>3. bodies' = {f[b] : b \in bodies}
    BY <1>1, <1>4
  <2> QED BY <2>1, <2>2, <2>3 DEF CallsEnd
<1>6. \A j \in DOMAIN execution :
          execution'[j] \in Work /\ execution'[j].try = execution[j].try /\ execution'[j].phase # "running"
  <2> SUFFICES ASSUME NEW j \in DOMAIN execution
               PROVE  /\ execution'[j] \in Work /\ execution'[j].try = execution[j].try
                      /\ execution'[j].phase # "running"
    OBVIOUS
  <2>1. PICK v \in Work : v = execution[j]
    BY <1>2
  <2>2. execution'[j] = IF v.phase = "running" THEN [v EXCEPT !.phase = "released"] ELSE v
    BY <1>1, <2>1
  <2> QED BY <2>1, <2>2 DEF Work
<1>7. execution' \in [DOMAIN execution -> Work]
  BY <1>1, <1>6
<1>8. results' \subseteq Result /\ \A r \in results' : r \in results
  BY <1>1, <1>2
<1> QED BY <1>3, <1>5, <1>6, <1>7, <1>8, EndingKeeps

\* A call of the effector that has just begun.
BegunCall(x, i, try) ==
    /\ x \in Body /\ x.where = "effector" /\ x.owner = i /\ x.try = try
    /\ x.side_effect /\ x.intent \in {0, i} /\ x.state = "running"

(* A call of the effector begins, of a tool that is side-effecting (body).   *)
LEMMA InvokedBody ==
  ASSUME NEW t, t.side_effect = TRUE, t.sync \in BOOLEAN, t.accepts_intent \in BOOLEAN,
         NEW i \in Nat, NEW try \in Nat, Cardinality(bodies) \in Nat,
         NEW x, x = body("effector", i, try, t, "run", "running")
  PROVE  BegunCall(x, i, try)
<1>1. PICK id \in Nat : id = Cardinality(bodies) + 1
  OBVIOUS
<1>2. PICK sync \in BOOLEAN : sync = t.sync
  OBVIOUS
<1>3. PICK intent \in {0, i} : intent = IF t.accepts_intent THEN i ELSE 0
  OBVIOUS
<1>4. x = [id |-> id, where |-> "effector", owner |-> i, try |-> try, side_effect |-> TRUE, sync |-> sync,
           via |-> "run", state |-> "running", intent |-> intent]
  BY <1>1, <1>2, <1>3 DEF body
<1>5. x \in Body
  <2>1. /\ id \in Nat /\ "effector" \in {"pipeline", "effector"} /\ 0 \in Nat /\ TRUE \in BOOLEAN
        /\ i \in Nat /\ try \in Nat /\ intent \in Nat
        /\ sync \in BOOLEAN /\ "run" \in {"run_tool", "call", "run"}
        /\ "running" \in {"running", "cancelled", "returned", "raised", "raised_argument_error"}
    BY <1>1, <1>2, <1>3
  <2> QED BY ONLY <2>1, <1>4 DEF Body
<1> QED BY <1>3, <1>4, <1>5 DEF BegunCall

(* An intent is executed once more: refused before the tool is called, or    *)
(* called and its end awaited.                                               *)
LEMMA ExecuteKeeps ==
  ASSUME ToolInv, NEW i, _execute_intent(i) PROVE ToolInv'
<1>0. ToolType /\ EffectInv /\ TallyInv
  BY DEF ToolInv
<1>1. /\ i \in DOMAIN execution /\ ctx.intents[i].kind = "TOOL"
      /\ registry' = registry /\ deployed' = deployed /\ ctx' = ctx /\ abandoned' = abandoned
  BY DEF _execute_intent, Claimable
<1>2. /\ execution \in [DOMAIN execution -> Work] /\ bodies \subseteq Body /\ results \subseteq Result
      /\ i \in Nat /\ WellDeclared(deployed)
  BY <1>0, <1>1 DEF ToolType
<1>3. ctx.status = "drained" /\ PipelineUnchanged /\ WellDeclared(deployed')
  BY <1>1, <1>2, WorkIsDrained DEF PipelineUnchanged
<1>4. execution[i] \in Work /\ execution[i].try \in Nat
  BY <1>1, <1>2 DEF Work
<1>5. PICK try \in Nat : try = execution[i].try + 1
  BY <1>4
<1>6. \A b \in bodies : b.where = "effector" /\ ~CalledIn(b, i, try)
  <2> SUFFICES ASSUME NEW b \in bodies PROVE b.where = "effector" /\ ~CalledIn(b, i, try)
    OBVIOUS
  <2>1. b.where = "effector" /\ b.try \in Nat /\ EffectorBody(b)
    BY <1>0, <1>2, <1>3, WorkIsDrained DEF EffectInv, Body
  <2> QED BY <2>1, <1>4, <1>5 DEF EffectorBody, CalledIn
<1>7. ASSUME NEW phase \in {"running", "done"},
             execution' = [execution EXCEPT ![i] = [try |-> try, phase |-> phase]]
      PROVE  /\ execution' \in [DOMAIN execution -> Work] /\ DOMAIN execution' = DOMAIN execution
             /\ execution'[i].try = try /\ execution'[i].phase = phase
             /\ \A j \in DOMAIN execution : j # i => execution'[j] = execution[j]
             /\ \A j \in DOMAIN execution : execution[j].try <= execution'[j].try
  <2>1. PICK w \in Work : w = [try |-> try, phase |-> phase]
    BY DEF Work
  <2>2. w.try = try /\ w.phase = phase /\ execution' = [execution EXCEPT ![i] = w]
    BY <2>1, <1>7
  <2> HIDE <2>1
  <2>3. /\ execution' \in [DOMAIN execution -> Work] /\ DOMAIN execution' = DOMAIN execution
        /\ execution'[i] = w /\ \A j \in DOMAIN execution : j # i => execution'[j] = execution[j]
    BY <2>1, <2>2, <1>1, <1>2
  <2>4. \A j \in DOMAIN execution : execution[j].try \in Nat
    BY <1>2 DEF Work
  <2>5. \A j \in DOMAIN execution : execution[j].try <= execution'[j].try
    BY <2>2, <2>3, <2>4, <1>4, <1>5
  <2> QED BY <2>2, <2>3, <2>5
<1>8. CASE /\ publish(i, try, "REJECTED") /\ bodies' = bodies
           /\ execution' = [execution EXCEPT ![i] = [try |-> try, phase |-> "done"]]
  <2>1. /\ execution' \in [DOMAIN execution -> Work] /\ DOMAIN execution' = DOMAIN execution
        /\ execution'[i].try = try /\ execution'[i].phase = "done"
        /\ \A j \in DOMAIN execution : j # i => execution'[j] = execution[j]
        /\ \A j \in DOMAIN execution : execution[j].try <= execution'[j].try
    BY <1>7, <1>8
  <2>2. PICK r \in Result : r = [intent |-> i, try |-> try, status |-> "REJECTED"]
    BY <1>2 DEF Result
  <2>3. results' = results \cup {r} /\ r.intent = i /\ r.try = try /\ r.status = "REJECTED"
    BY <2>2, <1>8 DEF publish
  <2> HIDE <2>2
  <2>4. \A b \in bodies : InlineBody(b)' /\ EffectorBody(b)'
    <3> SUFFICES ASSUME NEW b \in bodies PROVE InlineBody(b)' /\ EffectorBody(b)'
      OBVIOUS
    <3>1. EffectorBody(b) /\ b.where = "effector" /\ b.try \in Nat
      BY <1>0, <1>2, <1>6 DEF EffectInv, Body
    <3>2. /\ b.owner \in DOMAIN execution /\ b.try <= execution[b.owner].try
          /\ execution[b.owner].try <= execution'[b.owner].try
      BY <3>1, <2>1 DEF EffectorBody
    <3>3. execution[b.owner].try \in Nat /\ execution'[b.owner].try \in Nat
      BY <3>2, <2>1, <1>2 DEF Work
    <3>4. b.try <= execution'[b.owner].try
      BY <3>1, <3>2, <3>3
    <3> QED BY <3>1, <3>4, <2>1, <1>1 DEF EffectorBody, InlineBody
  <2>5. CalledOnce' /\ RunningIsCalled'
    <3>1. CalledOnce'
      BY <1>0, <1>8 DEF EffectInv, CalledOnce
    <3>2. \A j \in DOMAIN execution : execution'[j].phase = "running" =>
              \E b \in bodies : CalledIn(b, j, execution'[j].try)
      BY <2>1, <1>0 DEF EffectInv, RunningIsCalled
    <3> QED BY <3>1, <3>2, <2>1, <1>8 DEF RunningIsCalled, CalledIn
  <2>6. \A q \in results : ToldTruly(q)'
    <3> SUFFICES ASSUME NEW q \in results PROVE ToldTruly(q)'
      OBVIOUS
    <3>1. ToldTruly(q) /\ q.try \in Nat
      BY <1>0, <1>2 DEF EffectInv, Result
    <3>2. /\ q.intent \in DOMAIN execution /\ q.try <= execution[q.intent].try
          /\ execution[q.intent].try <= execution'[q.intent].try
      BY <3>1, <2>1 DEF ToldTruly
    <3>3. execution[q.intent].try \in Nat /\ execution'[q.intent].try \in Nat
      BY <3>2, <2>1, <1>2 DEF Work
    <3>4. q.try <= execution'[q.intent].try
      BY <3>1, <3>2, <3>3
    <3> QED BY <3>1, <3>4, <2>1, <1>8 DEF ToldTruly, CalledIn
  <2>7. ToldTruly(r)'
    BY <2>1, <2>3, <1>1, <1>6, <1>8 DEF ToldTruly, CalledIn
  <2>8. EffectInv'
    BY <2>3, <2>4, <2>5, <2>6, <2>7, <1>8 DEF EffectInv
  <2>9. IsFiniteSet(bodies') /\ bodies' \subseteq Body /\ results' \subseteq Result
    BY <2>2, <2>3, <1>0, <1>2, <1>8 DEF TallyInv
  <2> QED BY <2>1, <2>8, <2>9, <1>3, <1>6, <1>8, EffectorMoves
<1>9. CASE /\ invocable(i) /\ results' = results
           /\ bodies' = bodies \cup {body("effector", i, try, deployed[ctx.intents[i].tool],
                                          "run", "running")}
           /\ execution' = [execution EXCEPT ![i] = [try |-> try, phase |-> "running"]]
  <2>1. /\ execution' \in [DOMAIN execution -> Work] /\ DOMAIN execution' = DOMAIN execution
        /\ execution'[i].try = try /\ execution'[i].phase = "running"
        /\ \A j \in DOMAIN execution : j # i => execution'[j] = execution[j]
        /\ \A j \in DOMAIN execution : execution[j].try <= execution'[j].try
    BY <1>7, <1>9
  <2>2. PICK t : t = deployed[ctx.intents[i].tool]
    OBVIOUS
  <2>3. t.side_effect = TRUE /\ t.sync \in BOOLEAN /\ t.accepts_intent \in BOOLEAN
    BY <2>2, <1>2, <1>9 DEF invocable, known, WellDeclared
  <2>4. PICK x : x = body("effector", i, try, t, "run", "running")
    OBVIOUS
  <2>5. /\ x \in Body /\ x.where = "effector" /\ x.owner = i /\ x.try = try
        /\ x.side_effect /\ x.intent \in {0, i} /\ x.state = "running"
    <3>1. Cardinality(bodies) \in Nat
      BY <1>0, FS_CardinalityType DEF TallyInv
    <3>2. i \in Nat /\ try \in Nat
      BY <1>2, <1>5
    <3>3. BegunCall(x, i, try)
      BY ONLY <3>1, <3>2, <2>3, <2>4, InvokedBody
    <3> QED BY <3>3 DEF BegunCall
  <2>6. bodies' = bodies \cup {x}
    BY <2>2, <2>4, <1>9
  <2> HIDE <2>2, <2>4
  <2>7. \A b \in bodies : InlineBody(b)' /\ EffectorBody(b)'
    <3> SUFFICES ASSUME NEW b \in bodies PROVE InlineBody(b)' /\ EffectorBody(b)'
      OBVIOUS
    <3>1. EffectorBody(b) /\ b.where = "effector" /\ b.try \in Nat
      BY <1>0, <1>2, <1>6 DEF EffectInv, Body
    <3>2. /\ b.owner \in DOMAIN execution /\ b.try <= execution[b.owner].try
          /\ execution[b.owner].try <= execution'[b.owner].try
      BY <3>1, <2>1 DEF EffectorBody
    <3>3. execution[b.owner].try \in Nat /\ execution'[b.owner].try \in Nat
      BY <3>2, <2>1, <1>2 DEF Work
    <3>4. b.try <= execution'[b.owner].try
      BY <3>1, <3>2, <3>3
    <3> QED BY <3>1, <3>4, <2>1, <1>1 DEF EffectorBody, InlineBody
  <2>8. InlineBody(x)' /\ EffectorBody(x)'
    BY <2>1, <2>5, <1>1 DEF EffectorBody, InlineBody
  <2>9. CalledOnce'
    <3>1. \A b \in bodies : ~(b.owner = x.owner /\ b.try = x.try)
      BY <2>5, <1>6 DEF CalledIn
    <3>2. CalledOnce
      BY <1>0 DEF EffectInv
    <3> QED BY <3>1, <3>2, <2>6 DEF CalledOnce
  <2>10. RunningIsCalled'
    <3> SUFFICES ASSUME NEW j \in DOMAIN execution, execution'[j].phase = "running"
                 PROVE  \E b \in bodies' : CalledIn(b, j, execution'[j].try)
      BY <2>1 DEF RunningIsCalled, CalledIn
    <3>1. CASE j = i
      BY <3>1, <2>1, <2>5, <2>6 DEF CalledIn
    <3>2. CASE j # i
      BY <3>2, <2>1, <2>6, <1>0 DEF EffectInv, RunningIsCalled
    <3> QED BY <3>1, <3>2
  <2>11. \A q \in results : ToldTruly(q)'
    <3> SUFFICES ASSUME NEW q \in results PROVE ToldTruly(q)'
      OBVIOUS
    <3>1. ToldTruly(q) /\ q.try \in Nat
      BY <1>0, <1>2 DEF EffectInv, Result
    <3>2. /\ q.intent \in DOMAIN execution /\ q.try <= execution[q.intent].try
          /\ execution[q.intent].try <= execution'[q.intent].try
      BY <3>1, <2>1 DEF ToldTruly
    <3>3. execution[q.intent].try \in Nat /\ execution'[q.intent].try \in Nat
      BY <3>2, <2>1, <1>2 DEF Work
    <3>4. q.try <= execution'[q.intent].try
      BY <3>1, <3>2, <3>3
    <3>5. ~CalledIn(x, q.intent, q.try)
      <4>1. CASE q.intent # i
        BY <4>1, <2>5 DEF CalledIn
      <4>2. CASE q.intent = i
        BY <4>2, <3>1, <3>2, <2>5, <1>4, <1>5 DEF CalledIn
      <4> QED BY <4>1, <4>2
    <3> QED BY <3>1, <3>4, <3>5, <2>1, <2>6 DEF ToldTruly, CalledIn
  <2>12. EffectInv'
    BY <2>6, <2>7, <2>8, <2>9, <2>10, <2>11, <1>9 DEF EffectInv
  <2>13. /\ IsFiniteSet(bodies') /\ bodies' \subseteq Body /\ results' \subseteq Result
         /\ \A b \in bodies' : b.where = "effector"
    <3>1. IsFiniteSet(bodies')
      BY <2>6, <1>0, FS_AddElement DEF TallyInv
    <3> QED BY <3>1, <2>5, <2>6, <1>2, <1>6, <1>9
  <2> QED BY <2>1, <2>12, <2>13, <1>3, EffectorMoves
<1> QED
  <2>1. \/ /\ publish(i, execution[i].try + 1, "REJECTED") /\ bodies' = bodies
           /\ execution' = [execution EXCEPT ![i] = [try |-> execution[i].try + 1, phase |-> "done"]]
        \/ /\ invocable(i) /\ results' = results
           /\ bodies' = bodies \cup {body("effector", i, execution[i].try + 1,
                                          deployed[ctx.intents[i].tool], "run", "running")}
           /\ execution' = [execution EXCEPT ![i] = [try |-> execution[i].try + 1, phase |-> "running"]]
    BY DEF _execute_intent
  <2> QED BY <2>1, <1>5, <1>8, <1>9

-----------------------------------------------------------------------------
(* Every step of ToolNext keeps the invariant.                               *)
LEMMA ToolsKeep == ToolInv /\ [ToolNext]_toolVars => ToolInv'
<1> SUFFICES ASSUME ToolInv, [ToolNext]_toolVars PROVE ToolInv'
  OBVIOUS
<1>0. ToolType
  BY DEF ToolInv
<1>1. ASSUME NEW n \in Names, NEW f \in Callables, NEW s \in BOOLEAN, Register(n, f, s) PROVE ToolInv'
  <2>1. /\ registrable(registry, n, f, s) /\ registry' = register(registry, n, f, s)
        /\ deployed' = deployed /\ CallsUnchanged
    BY <1>1 DEF Register, CallsUnchanged
  <2>2. WellDeclared(registry') /\ WellDeclared(deployed')
    BY <2>1, <1>0, RegisterKeepsDeclared DEF ToolType
  <2> QED BY <2>1, <2>2, DeclaringKeeps
<1>2. ASSUME NEW n \in Names, NEW f \in Callables, NEW s \in BOOLEAN, Deploy(n, f, s) PROVE ToolInv'
  <2>1. /\ registrable(deployed, n, f, s) /\ deployed' = register(deployed, n, f, s)
        /\ registry' = registry /\ CallsUnchanged
    BY <1>2 DEF Deploy, CallsUnchanged
  <2>2. WellDeclared(registry') /\ WellDeclared(deployed')
    BY <2>1, <1>0, RegisterKeepsDeclared DEF ToolType
  <2> QED BY <2>1, <2>2, DeclaringKeeps
<1>3. ASSUME StartEffector \/ UNCHANGED toolVars PROVE ToolInv'
  <2>1. registry' = registry /\ deployed' = deployed /\ CallsUnchanged
    BY <1>3 DEF StartEffector, CallsUnchanged, toolVars
  <2>2. WellDeclared(registry') /\ WellDeclared(deployed')
    BY <2>1, <1>0 DEF ToolType
  <2> QED BY <2>1, <2>2, DeclaringKeeps
<1>4. ASSUME NEW n \in Names, NEW a \in ArgumentSets, Act(n, a) PROVE ToolInv'
  <2>1. /\ ctx.status = "running" /\ ctx' = _stage_intent(ctx, n, a, "TOOL")
        /\ UNCHANGED <<registry, deployed, up, abandoned, bodies, execution, results>>
    BY <1>4 DEF Act
  <2> QED BY <2>1, StagingKeeps
<1>5. ASSUME request_approval PROVE ToolInv'
  <2>1. /\ ctx.status = "running" /\ ctx' = _stage_intent(ctx, "channel", {}, "APPROVAL")
        /\ UNCHANGED <<registry, deployed, up, abandoned, bodies, execution, results>>
    BY <1>5 DEF request_approval
  <2> QED BY <2>1, StagingKeeps
<1>6. ASSUME NEW n \in Names, NEW a \in ArgumentSets, run_tool(n, a) PROVE ToolInv'
  <2>1. /\ ctx.status = "running" /\ n \in DOMAIN registry /\ ~registry[n].side_effect
        /\ bodies' = bodies \cup {body("pipeline", ctx.attempt, 0, registry[n], "run_tool", "running")}
        /\ UNCHANGED <<registry, deployed, up, ctx, abandoned, execution, results>>
    BY <1>6 DEF run_tool, known, runnable
  <2> QED BY <2>1, ReadingKeeps
<1>7. ASSUME NEW n \in Names, __call__(n) PROVE ToolInv'
  <2>1. /\ ctx.status = "running" /\ n \in DOMAIN registry /\ ~registry[n].side_effect
        /\ UNCHANGED <<registry, deployed, up, ctx, abandoned, execution, results>>
    BY <1>7 DEF __call__, known, callable
  <2>2. PICK how \in InlineEnds :
            bodies' = bodies \cup {body("pipeline", ctx.attempt, 0, registry[n], "call", how)}
    BY <1>7 DEF __call__
  <2>3. how \in {"returned", "raised"}
    BY <2>2 DEF InlineEnds
  <2> QED BY <2>1, <2>2, <2>3, ReadingKeeps
<1>8. ASSUME NEW i, _execute_intent(i) \/ ToolTimesOut(i) \/ CancelExecution(i) PROVE ToolInv'
  BY <1>8, ExecuteKeeps, TimesOutKeeps, CancelKeeps
<1> QED
  BY <1>1, <1>2, <1>3, <1>4, <1>5, <1>6, <1>7, <1>8, ReadEndsKeeps, BodyEndsKeeps, ActivateKeeps,
     ReturnKeeps, FailKeeps, RedeployKeeps DEF ToolNext

(* A tool has its effect only where its declaration says, and what the       *)
(* agent, the tally and the effector's dedup are told of it is what          *)
(* happened, whatever the two registries hold and whichever calls run.       *)
THEOREM ToolsAreToldTruly == ToolInit /\ [][ToolNext]_toolVars => []EffectsAreToldTruly
<1>1. ToolInit => ToolInv
  BY ToolsStart
<1>2. ToolInv /\ [ToolNext]_toolVars => ToolInv'
  BY ToolsKeep
<1>3. ToolInv => EffectsAreToldTruly
  BY ToolsTellTruly
<1> QED BY <1>1, <1>2, <1>3, PTL

-----------------------------------------------------------------------------
(* The stores of the effector's claims.                                      *)

BackendSpec == BackendInit /\ [][BackendNext]_backendVars

Records == [tag : {"C", "D"}, payload : Nat, expires : Int]

Ops == {"idle", "claim", "read", "complete", "release"}

(* Types: one record under the key, and a version of each of two columns for *)
(* every version of the other.                                               *)
StoreType ==
    /\ db \in {"memory", "redis", "bigtable"}
    /\ now \in Nat /\ granted \in Nat
    /\ kv \subseteq Records /\ \A v, w \in kv : v = w
    /\ row \in [Columns -> Seq(Int)]
    /\ row["owner"] \in Seq(Nat) /\ row["result"] \in Seq(Nat)
    /\ Len(row["owner"]) = Len(row["claim"])
    /\ Len(row["result"]) = Len(row["rexp"])

CallType ==
    /\ call \in [Callers -> [op : Ops, token : Nat, now : Nat]]
    /\ held \in [Callers -> SUBSET Nat]

(* A call's time is not ahead of the clock; a store uses its own data; and a *)
(* claim in a row was granted over a terminal record that had run out.       *)
BackendInv ==
    /\ StoreType
    /\ CallType
    /\ \A c \in Callers : call[c].now <= now
    /\ db = "bigtable" => kv = {}
    /\ db = "bigtable" /\ row["owner"] # <<>> => \A e \in latest("rexp") : e <= now

(* What a claim stands over: only records that are over by now.              *)
LEMMA GrantedOverNothing ==
    ASSUME BackendInv, NEW c \in Callers, Claimed(c)
    PROVE  /\ db = "bigtable" => \A e \in latest("claim") \cup latest("rexp") : e <= now
           /\ db # "bigtable" => _live = {}
<1>1. call[c].now \in Nat /\ call[c].now <= now /\ now \in Nat
  BY DEF BackendInv, CallType, StoreType
<1>2. \A e \in latest("claim") \cup latest("rexp") : e \in Int
  BY DEF BackendInv, StoreType, latest, Last, Columns
<1> QED
  BY <1>1, <1>2 DEF Claimed, taken, _taken_filter, _live_expiry_filter, stamp

(* A granted claim is one record, or one version of both claim columns.      *)
LEMMA ClaimedType ==
    ASSUME BackendInv, NEW c \in Callers, Claimed(c)
    PROVE  StoreType' /\ (db = "bigtable" => kv' = {})
<1>1. stamp(c) + Lease \in Int /\ granted + 1 \in Nat
  BY BackendAssumption DEF BackendInv, StoreType, CallType, stamp
<1>2. CASE db = "bigtable"
  <2>1. row' = [row EXCEPT !["claim"] = Append(@, stamp(c) + Lease),
                           !["owner"] = Append(@, granted + 1)]
        /\ kv' = kv /\ UNCHANGED <<db, now>> /\ granted' = granted + 1
    BY <1>2 DEF Claimed
  <2>2. /\ row'["claim"] = Append(row["claim"], stamp(c) + Lease)
        /\ row'["owner"] = Append(row["owner"], granted + 1)
        /\ row'["result"] = row["result"] /\ row'["rexp"] = row["rexp"]
        /\ row' = [x \in Columns |-> row'[x]]
    BY <2>1 DEF BackendInv, StoreType, Columns
  <2>3. /\ \A x \in Columns : row[x] \in Seq(Int)
        /\ row["owner"] \in Seq(Nat) /\ row["result"] \in Seq(Nat)
        /\ Len(row["owner"]) = Len(row["claim"]) /\ Len(row["result"]) = Len(row["rexp"])
        /\ db \in {"memory", "redis", "bigtable"} /\ now \in Nat
    BY DEF BackendInv, StoreType
  <2>4. row'["claim"] \in Seq(Int) /\ row'["owner"] \in Seq(Nat) /\ row'["owner"] \in Seq(Int)
    BY <1>1, <2>2, <2>3 DEF Columns
  <2>5. Len(row'["owner"]) = Len(row'["claim"])
    BY <1>1, <2>2, <2>3 DEF Columns
  <2>6. \A x \in Columns : row'[x] \in Seq(Int)
    BY <2>2, <2>3, <2>4 DEF Columns
  <2>7. row' \in [Columns -> Seq(Int)]
    BY <2>2, <2>6
  <2> QED
    BY <1>1, <1>2, <2>1, <2>2, <2>3, <2>4, <2>5, <2>7 DEF BackendInv, StoreType
<1>3. CASE db # "bigtable"
  <2>1. PICK rec : rec = _encode_claim(granted + 1, stamp(c) + Lease)
    OBVIOUS
  <2>2. rec \in Records
    BY <1>1, <2>1 DEF _encode_claim, Records
  <2>3. kv' = {rec} /\ row' = row /\ UNCHANGED <<db, now>> /\ granted' = granted + 1
    BY <1>3, <2>1 DEF Claimed
  <2> QED
    BY <1>1, <1>3, <2>2, <2>3 DEF BackendInv, StoreType
<1> QED
  BY <1>2, <1>3

(* complete writes a result over its own claim only.                         *)
LEMMA CompleteType ==
    ASSUME BackendInv, NEW c \in Callers, Complete(c)
    PROVE  /\ StoreType' /\ (db = "bigtable" => kv' = {} /\ row'["owner"] = <<>>)
<1>0. <<>> \in Seq(Int) /\ <<>> \in Seq(Nat) /\ Len(<<>>) = 0
  OBVIOUS
<1>1. stamp(c) + Ttl \in Int /\ call[c].token \in Nat
  BY BackendAssumption DEF BackendInv, StoreType, CallType, stamp
<1>2. CASE db = "bigtable"
  <2>1. row' = [claim |-> <<>>, owner |-> <<>>,
                result |-> Append(row["result"], call[c].token),
                rexp |-> Append(row["rexp"], stamp(c) + Ttl)]
        /\ kv' = kv /\ UNCHANGED <<db, now, granted>>
    BY <1>2 DEF Complete
  <2>2. /\ row'["claim"] = <<>> /\ row'["owner"] = <<>>
        /\ row'["result"] = Append(row["result"], call[c].token)
        /\ row'["rexp"] = Append(row["rexp"], stamp(c) + Ttl)
        /\ row' = [x \in Columns |-> row'[x]]
    BY <2>1 DEF Columns
  <2>3. /\ \A x \in Columns : row[x] \in Seq(Int)
        /\ row["result"] \in Seq(Nat) /\ Len(row["result"]) = Len(row["rexp"])
        /\ db \in {"memory", "redis", "bigtable"} /\ now \in Nat /\ granted \in Nat
    BY DEF BackendInv, StoreType
  <2>4. row'["rexp"] \in Seq(Int) /\ row'["result"] \in Seq(Nat) /\ row'["result"] \in Seq(Int)
    BY <1>1, <2>2, <2>3 DEF Columns
  <2>5. Len(row'["result"]) = Len(row'["rexp"])
    BY <1>1, <2>2, <2>3 DEF Columns
  <2>6. \A x \in Columns : row'[x] \in Seq(Int)
    BY <1>0, <2>2, <2>3, <2>4 DEF Columns
  <2>7. row' \in [Columns -> Seq(Int)]
    BY <2>2, <2>6
  <2> QED
    BY <1>0, <1>1, <1>2, <2>1, <2>2, <2>3, <2>4, <2>5, <2>7 DEF BackendInv, StoreType
<1>3. CASE db # "bigtable"
  <2>1. PICK rec : rec = _encode_done(call[c].token, stamp(c) + Ttl)
    OBVIOUS
  <2>2. rec \in Records
    BY <1>1, <2>1 DEF _encode_done, Records
  <2>3. kv' = {rec} /\ row' = row /\ UNCHANGED <<db, now, granted>>
    BY <1>3, <2>1 DEF Complete
  <2> QED
    BY <1>1, <1>3, <2>2, <2>3 DEF BackendInv, StoreType
<1> QED
  BY <1>2, <1>3

(* release clears the claim and leaves the older results of a row alone.     *)
LEMMA ReleaseType ==
    ASSUME BackendInv, NEW c \in Callers, Release(c)
    PROVE  /\ StoreType' /\ kv' = {} /\ row'["owner"] = <<>>
           /\ row'["result"] = row["result"] /\ row'["rexp"] = row["rexp"]
<1>0. <<>> \in Seq(Int) /\ <<>> \in Seq(Nat) /\ Len(<<>>) = 0
  OBVIOUS
<1>1. row' = [row EXCEPT !["claim"] = <<>>, !["owner"] = <<>>] /\ kv' = {}
      /\ UNCHANGED <<db, now, granted>>
  BY DEF Release
<1>2. /\ row'["claim"] = <<>> /\ row'["owner"] = <<>>
      /\ row'["result"] = row["result"] /\ row'["rexp"] = row["rexp"]
      /\ row' = [x \in Columns |-> row'[x]]
  BY <1>1 DEF BackendInv, StoreType, Columns
<1>3. /\ \A x \in Columns : row[x] \in Seq(Int)
      /\ row["result"] \in Seq(Nat) /\ Len(row["result"]) = Len(row["rexp"])
  BY DEF BackendInv, StoreType
<1>4. \A x \in Columns : row'[x] \in Seq(Int)
  BY <1>0, <1>2, <1>3 DEF Columns
<1>5. row' \in [Columns -> Seq(Int)]
  BY <1>2, <1>4
<1> QED
  BY <1>0, <1>1, <1>2, <1>3, <1>5 DEF BackendInv, StoreType

(* A step of a caller, or of time, keeps what the calls are.                 *)
LEMMA NextCalls ==
    ASSUME BackendInv, [BackendNext]_backendVars
    PROVE  CallType' /\ \A c \in Callers : call'[c].now <= now'
<1> /\ call \in [Callers -> [op : Ops, token : Nat, now : Nat]]
    /\ held \in [Callers -> SUBSET Nat] /\ now \in Nat /\ granted \in Nat
    /\ \A c \in Callers : call[c].now <= now
  BY DEF BackendInv, CallType, StoreType
<1>1. now' \in Nat /\ now <= now'
  BY DEF BackendNext, backendVars, Call, BeginClaim, BeginComplete, BeginRelease, Claimed, Taken,
         ReadAfterTaken, Complete, Release, NotOwner, CallFails, CallerDies, PassTime
<1>2. Idle \in [op : Ops, token : Nat, now : Nat] /\ Idle.now = 0
  BY DEF Idle, Ops
<1>3. ASSUME NEW c \in Callers, NEW op \in Ops, NEW token \in Nat, Call(c, op, token)
      PROVE  CallType' /\ \A d \in Callers : call'[d].now <= now'
  <2>1. PICK new : new = [op |-> op, token |-> token, now |-> now]
    OBVIOUS
  <2>2. new \in [op : Ops, token : Nat, now : Nat] /\ new.now = now
    BY <2>1
  <2>3. call' = [call EXCEPT ![c] = new] /\ held' = held /\ now' = now
    BY <1>3, <2>1 DEF Call
  <2> QED
    BY <2>2, <2>3 DEF CallType
<1>4. ASSUME NEW c \in Callers, Returns(c), \/ held' = held
                                            \/ held' = [held EXCEPT ![c] = {}]
                                            \/ held' = [held EXCEPT ![c] = {granted + 1}]
      PROVE  CallType' /\ \A d \in Callers : call'[d].now <= now'
  <2>1. call' = [call EXCEPT ![c] = Idle]
    BY <1>4 DEF Returns
  <2>2. \A d \in Callers : call'[d] = call[d] \/ call'[d] = Idle
    BY <2>1
  <2>3. call' \in [Callers -> [op : Ops, token : Nat, now : Nat]]
    BY <1>2, <2>1
  <2>4. \A d \in Callers : call'[d].now <= now'
    BY <1>1, <1>2, <2>2
  <2>5. held' \in [Callers -> SUBSET Nat]
    BY <1>4
  <2> QED
    BY <2>3, <2>4, <2>5 DEF CallType
<1>5. ASSUME NEW c \in Callers, call' = [call EXCEPT ![c].op = "read"], held' = held
      PROVE  CallType' /\ \A d \in Callers : call'[d].now <= now'
  <2>1. \A d \in Callers : call'[d].now = call[d].now
    BY <1>5
  <2>2. call' \in [Callers -> [op : Ops, token : Nat, now : Nat]]
    BY <1>5 DEF Ops
  <2> QED
    BY <1>1, <1>5, <2>1, <2>2 DEF CallType
<1>6. CASE UNCHANGED <<call, held>>
  BY <1>1, <1>6 DEF CallType
<1>7. ASSUME NEW c \in Callers, BeginClaim(c) \/ BeginComplete(c) \/ BeginRelease(c)
      PROVE  CallType' /\ \A d \in Callers : call'[d].now <= now'
  <2>1. \A token \in held[c] : token \in Nat
    OBVIOUS
  <2>2. {"claim", "complete", "release"} \subseteq Ops
    BY DEF Ops
  <2> QED
    BY <1>3, <1>7, <2>1, <2>2 DEF BeginClaim, BeginComplete, BeginRelease
<1>8. ASSUME NEW c \in Callers, Claimed(c) \/ Complete(c) \/ Release(c) \/ NotOwner(c)
                                \/ CallFails(c) \/ CallerDies(c) \/ ReadAfterTaken(c)
      PROVE  CallType' /\ \A d \in Callers : call'[d].now <= now'
  BY <1>4, <1>8 DEF Claimed, Complete, Release, NotOwner, CallFails, CallerDies,
                    ReadAfterTaken, Answers
<1>9. ASSUME NEW c \in Callers, Taken(c)
      PROVE  CallType' /\ \A d \in Callers : call'[d].now <= now'
  BY <1>4, <1>5, <1>9 DEF Taken, Answers
<1> QED
  BY <1>6, <1>7, <1>8, <1>9 DEF BackendNext, PassTime, backendVars

(* The steps that leave the store and its clock alone.                       *)
StoreKept == UNCHANGED <<db, now, kv, row, granted, closed>>

(* Every step writes a record, ends one, waits, or leaves the store alone.   *)
LEMMA StepKinds ==
    ASSUME [BackendNext]_backendVars
    PROVE  \/ StoreKept
           \/ \E c \in Callers : Claimed(c) \/ Complete(c) \/ Release(c)
           \/ PassTime
BY DEF BackendNext, backendVars, StoreKept, Call, BeginClaim, BeginComplete, BeginRelease,
       Taken, ReadAfterTaken, NotOwner, CallFails, CallerDies

(* The inductive step of the store's invariant.                              *)
LEMMA NextBackend ==
    ASSUME BackendInv, [BackendNext]_backendVars
    PROVE  BackendInv'
<1>1. CallType' /\ \A c \in Callers : call'[c].now <= now'
  BY NextCalls
<1>2. CASE StoreKept
  BY <1>1, <1>2 DEF StoreKept, BackendInv, StoreType, latest
<1>3. ASSUME NEW c \in Callers, Claimed(c)
      PROVE  BackendInv'
  <2>1. StoreType' /\ (db = "bigtable" => kv' = {}) /\ db' = db /\ now' = now
    BY <1>3, ClaimedType DEF Claimed
  <2>2. ASSUME db = "bigtable"
        PROVE  \A e \in latest("rexp")' : e <= now'
    <3>1. row'["rexp"] = row["rexp"]
      BY <1>3, <2>2 DEF Claimed, BackendInv, StoreType, Columns
    <3>2. latest("rexp")' = latest("rexp")
      BY <3>1 DEF latest
    <3> QED
      BY <1>3, <2>1, <2>2, <3>2, GrantedOverNothing
  <2> QED
    BY <1>1, <2>1, <2>2 DEF BackendInv
<1>4. ASSUME NEW c \in Callers, Complete(c)
      PROVE  BackendInv'
  <2>1. db' = db
    BY <1>4 DEF Complete
  <2> QED
    BY <1>1, <1>4, <2>1, CompleteType DEF BackendInv
<1>5. ASSUME NEW c \in Callers, Release(c)
      PROVE  BackendInv'
  BY <1>1, <1>5, ReleaseType DEF BackendInv
<1>6. CASE PassTime
  <2>1. now' = now + 1 /\ UNCHANGED <<db, kv, row, granted>> /\ now \in Nat
    BY <1>6 DEF PassTime, BackendInv, StoreType
  <2>2. \A e \in latest("rexp") : e \in Int
    BY DEF BackendInv, StoreType, latest, Last, Columns
  <2>3. latest("rexp")' = latest("rexp")
    BY <2>1 DEF latest
  <2> QED
    BY <1>1, <2>1, <2>2, <2>3 DEF BackendInv, StoreType
<1> QED
  BY <1>2, <1>3, <1>4, <1>5, <1>6, StepKinds

(* A new store is empty and has no caller.                                   *)
LEMMA InitBackend == BackendInit => BackendInv
<1> SUFFICES ASSUME BackendInit PROVE BackendInv
  OBVIOUS
<1>1. row \in [Columns -> Seq(Int)] /\ \A x \in Columns : row[x] = <<>>
  BY DEF BackendInit
<1>2. StoreType
  BY <1>1, BackendAssumption DEF BackendInit, StoreType, Columns
<1>3. CallType /\ \A c \in Callers : call[c].now <= now
  <2>1. PICK idle : idle = Idle
    OBVIOUS
  <2>2. idle \in [op : Ops, token : Nat, now : Nat] /\ idle.now = 0
    BY <2>1 DEF Idle, Ops
  <2> QED
    BY <2>1, <2>2 DEF BackendInit, CallType
<1> QED
  BY <1>1, <1>2, <1>3 DEF BackendInit, BackendInv, Columns

(* The invariant of the stores.                                              *)
LEMMA BackendHolds == BackendSpec => []BackendInv
  BY InitBackend, NextBackend, PTL DEF BackendSpec

(* A Done answer repeats a result that was current when the claim was made.  *)
LEMMA NextServed ==
    ASSUME BackendInv, ServedResultIsCurrent, [BackendNext]_backendVars
    PROVE  ServedResultIsCurrent'
<1>1. ASSUME NEW c \in Callers, Answers(c)
      PROVE  ServedResultIsCurrent'
  <2>1. call[c].now \in Nat /\ now \in Nat /\ call[c].now <= now
    BY DEF BackendInv, CallType, StoreType
  <2>2. \A r \in kv : r.expires \in Int
    BY DEF BackendInv, StoreType, Records
  <2>3. ASSUME NEW r \in read_result(stamp(c)) PROVE call[c].now < r.expires
    <3>1. CASE db = "bigtable"
      BY <2>3, <3>1 DEF read_result, _read_state, stamp
    <3>2. CASE db # "bigtable"
      <4>1. PICK v \in kv : now < v.expires /\ r = [result |-> v.payload, expires |-> v.expires]
        BY <2>3, <3>2 DEF read_result, terminal_value, _live
      <4>2. r.expires = v.expires
        BY <4>1
      <4> QED
        BY <2>1, <2>2, <4>1, <4>2
    <3> QED
      BY <3>1, <3>2
  <2>4. CASE answer' = answer
    BY <2>4 DEF ServedResultIsCurrent
  <2>5. CASE answer' = {[result |-> r.result, expires |-> r.expires, asked |-> call[c].now]
                        : r \in read_result(stamp(c))}
    <3> SUFFICES ASSUME NEW r \in read_result(stamp(c)), NEW a,
                        a = [result |-> r.result, expires |-> r.expires, asked |-> call[c].now]
                 PROVE  a.asked < a.expires
      BY <2>5 DEF ServedResultIsCurrent
    <3> QED
      BY <2>3
  <2> QED
    BY <1>1, <2>4, <2>5 DEF Answers
<1>2. CASE answer' = answer
  BY <1>2 DEF ServedResultIsCurrent
<1> QED
  BY <1>1, <1>2 DEF BackendNext, backendVars, Call, BeginClaim, BeginComplete, BeginRelease, Claimed,
       Taken, ReadAfterTaken, Complete, Release, NotOwner, CallFails, CallerDies, PassTime

(* An expired terminal record is never served, however late the read that    *)
(* follows a lost claim: _decode_done in claim, for all three backends.      *)
THEOREM NothingStaleServed == BackendSpec => []ServedResultIsCurrent
<1>1. BackendInit => ServedResultIsCurrent
  BY DEF BackendInit, ServedResultIsCurrent
<1> QED
  BY <1>1, NextServed, BackendHolds, PTL DEF BackendSpec

-----------------------------------------------------------------------------
(* What a caller of the protocol sees of each kind of state: nothing, a      *)
(* claim, or a result.                                                       *)
EntryForms ==
    /\ db = "bigtable" /\ row["owner"] = <<>> => Entry = done_as(_read_state(now))
    /\ db = "bigtable" /\ row["owner"] # <<>> =>
          Entry = claimed_as(Last(row["owner"]), Last(row["claim"]))
    /\ \A r : db # "bigtable" /\ kv = {r} /\ r.tag = "C" =>
          Entry = claimed_as(r.payload, r.expires)
    /\ db # "bigtable" /\ (\A r \in kv : r.tag = "D") => Entry = done_as(terminal_value)

(* The entry has the form its record gives it, now ...                       *)
LEMMA EntryHasForm == EntryForms
<1>1. \A r : kv = {r} => (CHOOSE v \in kv : TRUE) = r
  OBVIOUS
<1>2. db # "bigtable" => read_result(now) = terminal_value
  BY DEF read_result
<1>3. db = "bigtable" => read_result(now) = _read_state(now)
  BY DEF read_result
<1>4. db = "bigtable" /\ row["owner"] = <<>> => Entry = done_as(_read_state(now))
  BY <1>3 DEF Entry
<1>5. db = "bigtable" /\ row["owner"] # <<>> =>
          Entry = claimed_as(Last(row["owner"]), Last(row["claim"]))
  BY DEF Entry
<1>6. db # "bigtable" /\ (\A r \in kv : r.tag = "D") => Entry = done_as(terminal_value)
  BY <1>2 DEF Entry
<1>7. \A r : db # "bigtable" /\ kv = {r} /\ r.tag = "C" =>
          Entry = claimed_as(r.payload, r.expires)
  BY <1>1 DEF Entry
<1> QED
  BY <1>4, <1>5, <1>6, <1>7 DEF EntryForms

(* ... and after a step.                                                     *)
LEMMA EntryHasFormPrime == EntryForms'
BY EntryHasForm, PTL

(* A claim is granted over an entry that is free or has run out ...          *)
LEMMA BeforeGrant ==
    ASSUME BackendInv, NEW c \in Callers, Claimed(c)
    PROVE  Entry.state \in {"free", "lapsed"}
<1>1. /\ now \in Nat /\ kv \subseteq Records /\ \A v, w \in kv : v = w
      /\ Len(row["owner"]) = Len(row["claim"])
      /\ row["owner"] \in Seq(Nat) /\ row["claim"] \in Seq(Int) /\ row["rexp"] \in Seq(Int)
  BY DEF BackendInv, StoreType, Columns
<1>2. done_as({}).state = "free"
  BY DEF done_as
<1>3. CASE db = "bigtable" /\ row["owner"] = <<>>
  <2>1. \A e \in latest("rexp") : e <= now /\ e \in Int
    BY <1>1, <1>3, GrantedOverNothing DEF latest, Last
  <2>2. {x \in latest("rexp") : now < x} = {}
    BY <1>1, <2>1
  <2>3. _read_state(now) = {}
    BY <2>2 DEF _read_state
  <2> QED
    BY <1>2, <1>3, <2>3, EntryHasForm DEF EntryForms
<1>4. CASE db = "bigtable" /\ row["owner"] # <<>>
  <2>1. row["claim"] # <<>> /\ Last(row["claim"]) \in Int
    BY <1>1, <1>4 DEF Last
  <2>2. Last(row["claim"]) <= now
    BY <1>4, <2>1, GrantedOverNothing DEF latest
  <2>3. Entry = claimed_as(Last(row["owner"]), Last(row["claim"]))
    BY <1>4, EntryHasForm DEF EntryForms
  <2> HIDE DEF Entry
  <2> QED
    BY <1>1, <2>1, <2>2, <2>3 DEF claimed_as
<1>5. ASSUME db # "bigtable", NEW r, kv = {r}, r.tag = "C"
      PROVE  Entry.state \in {"free", "lapsed"}
  <2>1. ~(now < r.expires)
    BY <1>5, GrantedOverNothing DEF _live
  <2>2. Entry = claimed_as(r.payload, r.expires)
    BY <1>5, EntryHasForm DEF EntryForms
  <2> QED
    BY <2>1, <2>2 DEF claimed_as
<1>6. CASE db # "bigtable" /\ \A r \in kv : r.tag = "D"
  <2>1. terminal_value = {}
    BY <1>6, GrantedOverNothing DEF terminal_value
  <2> QED
    BY <1>2, <1>6, <2>1, EntryHasForm DEF EntryForms
<1>7. \/ \A r \in kv : r.tag = "D"
      \/ \E r : kv = {r} /\ r.tag = "C"
  BY <1>1 DEF Records
<1> QED
  BY <1>3, <1>4, <1>5, <1>6, <1>7

(* ... and makes it the caller's, with a token nobody had.                   *)
LEMMA AfterGrant ==
    ASSUME BackendInv, NEW c \in Callers, Claimed(c)
    PROVE  \E state \in {"claimed", "lapsed"} :
              Entry' = [state |-> state, token |-> granted + 1]
<1>1. row["owner"] \in Seq(Nat) /\ granted + 1 \in Nat /\ db' = db
  BY DEF BackendInv, StoreType, Claimed
<1>2. CASE db = "bigtable"
  <2>1. row'["owner"] = Append(row["owner"], granted + 1)
    BY <1>2 DEF Claimed, BackendInv, StoreType, Columns
  <2>2. row'["owner"] # <<>> /\ Last(row'["owner"]) = granted + 1
    BY <1>1, <2>1 DEF Last
  <2>3. Entry' = claimed_as(Last(row["owner"]), Last(row["claim"]))'
    BY <1>1, <1>2, <2>2, EntryHasFormPrime DEF EntryForms
  <2>4. Entry' = [state |-> IF now' < Last(row'["claim"]) THEN "claimed" ELSE "lapsed",
                  token |-> granted + 1]
    BY <2>2, <2>3 DEF claimed_as
  <2> QED
    BY <2>4
<1>3. CASE db # "bigtable"
  <2>1. PICK rec : rec = _encode_claim(granted + 1, stamp(c) + Lease)
    OBVIOUS
  <2>2. rec.tag = "C" /\ rec.payload = granted + 1
    BY <2>1 DEF _encode_claim
  <2>3. kv' = {rec}
    BY <1>3, <2>1 DEF Claimed
  <2>4. Entry' = (claimed_as(rec.payload, rec.expires))'
    BY <1>1, <1>3, <2>2, <2>3, EntryHasFormPrime DEF EntryForms
  <2>5. Entry' = [state |-> IF now' < rec.expires THEN "claimed" ELSE "lapsed",
                  token |-> granted + 1]
    BY <2>2, <2>4 DEF claimed_as
  <2> QED
    BY <2>5
<1> QED
  BY <1>2, <1>3

(* A token that a store accepts is the one the entry is claimed under.       *)
LEMMA OwnerIsEntry ==
    ASSUME BackendInv, NEW token, owns(token)
    PROVE  \E state \in {"claimed", "lapsed"} : Entry = [state |-> state, token |-> token]
<1>1. CASE db = "bigtable"
  <2>1. row["owner"] # <<>> /\ Last(row["owner"]) = token
    BY <1>1 DEF owns, _owner_filter, latest
  <2>2. Entry = claimed_as(Last(row["owner"]), Last(row["claim"]))
    BY <1>1, <2>1, EntryHasForm DEF EntryForms
  <2> QED
    BY <2>1, <2>2 DEF claimed_as
<1>2. CASE db # "bigtable"
  <2>1. PICK r \in _live : r = _encode_claim(token, r.expires)
    BY <1>2 DEF owns, script_owns
  <2>2. r.tag = "C" /\ r.payload = token
    BY <2>1 DEF _encode_claim
  <2>3. kv = {r}
    BY DEF BackendInv, StoreType, _live
  <2>4. Entry = claimed_as(r.payload, r.expires)
    BY <1>2, <2>2, <2>3, EntryHasForm DEF EntryForms
  <2> QED
    BY <2>2, <2>4 DEF claimed_as
<1> QED
  BY <1>1, <1>2

Nobody == [state |-> "free", token |-> 0]

(* What done_as makes of no result, and of one.                              *)
LEMMA DoneForms ==
    /\ done_as({}) = Nobody
    /\ \A r : done_as({r}) = [state |-> "done", token |-> r.result]
<1>1. \A r : (CHOOSE x \in {r} : TRUE) = r
  OBVIOUS
<1>2. \A r : {r} # {}
  OBVIOUS
<1> QED
  BY <1>1, <1>2 DEF done_as, Nobody

(* complete leaves the caller's result, unless its retention is over before  *)
(* the call arrives.                                                         *)
LEMMA AfterComplete ==
    ASSUME BackendInv, NEW c \in Callers, Complete(c)
    PROVE  Entry' \in {[state |-> "done", token |-> call[c].token], Nobody}
<1> DEFINE token == call[c].token
           expires == stamp(c) + Ttl
<1>1. /\ token \in Nat /\ expires \in Int /\ db' = db /\ now' = now
      /\ row["result"] \in Seq(Nat) /\ row["rexp"] \in Seq(Int)
  BY BackendAssumption DEF BackendInv, StoreType, CallType, stamp, Complete, Columns
<1>2. PICK res : res = [result |-> token, expires |-> expires]
  OBVIOUS
<1>3. res.result = token
  BY <1>2
<1>4. (CHOOSE r \in {res} : TRUE) = res
  OBVIOUS
<1>5. CASE db = "bigtable"
  <2>1. /\ row'["owner"] = <<>> /\ row'["result"] = Append(row["result"], token)
        /\ row'["rexp"] = Append(row["rexp"], expires)
    BY <1>5 DEF Complete
  <2>2. latest("result")' = {token} /\ latest("rexp")' = {expires}
    <3>1. row'["result"] # <<>> /\ Last(row'["result"]) = token
      <4>1. PICK s, t, x : s = row["result"] /\ t = row'["result"] /\ x = token
        OBVIOUS
      <4>2. s \in Seq(Nat) /\ x \in Nat
        BY <1>1, <4>1
      <4>3. t = Append(s, x)
        BY <2>1, <4>1
      <4>4. t # <<>> /\ t[Len(t)] = x
        BY <4>2, <4>3
      <4> QED BY <4>1, <4>4 DEF Last
    <3>2. row'["rexp"] # <<>> /\ Last(row'["rexp"]) = expires
      <4>1. PICK s, t, x : s = row["rexp"] /\ t = row'["rexp"] /\ x = expires
        OBVIOUS
      <4>2. s \in Seq(Int) /\ x \in Int
        BY <1>1, <4>1
      <4>3. t = Append(s, x)
        BY <2>1, <4>1
      <4>4. t # <<>> /\ t[Len(t)] = x
        BY <4>2, <4>3
      <4> QED BY <4>1, <4>4 DEF Last
    <3> QED
      BY <3>1, <3>2 DEF latest
  <2>3. _read_state(now)' = {[result |-> r, expires |-> e] :
                               r \in {token}, e \in {x \in {expires} : now' < x}}
    BY <2>2 DEF _read_state
  <2>4. _read_state(now)' = {} \/ _read_state(now)' = {res}
    BY <1>2, <2>3
  <2>5. Entry' = done_as(_read_state(now))'
    BY <1>1, <1>5, <2>1, EntryHasFormPrime DEF EntryForms
  <2>6. done_as(_read_state(now))' \in {Nobody, [state |-> "done", token |-> token]}
    BY <1>3, <1>4, <2>4 DEF done_as, Nobody
  <2> QED
    BY <2>5, <2>6
<1>6. CASE db # "bigtable"
  <2>1. PICK rec : rec = _encode_done(token, expires)
    OBVIOUS
  <2>2. rec.tag = "D" /\ rec.payload = token /\ rec.expires = expires
    BY <2>1 DEF _encode_done
  <2>3. kv' = {rec}
    BY <1>6, <2>1 DEF Complete
  <2>4. Entry' = done_as(terminal_value)'
    BY <1>1, <1>6, <2>2, <2>3, EntryHasFormPrime DEF EntryForms
  <2>5. _live' = {} \/ _live' = {rec}
    BY <2>3 DEF _live
  <2>6. terminal_value' = {} \/ terminal_value' = {res}
    BY <1>2, <2>2, <2>5 DEF terminal_value
  <2>7. done_as(terminal_value)' \in {Nobody, [state |-> "done", token |-> token]}
    BY <1>3, <1>4, <2>6 DEF done_as, Nobody
  <2> QED
    BY <2>4, <2>7
<1> QED
  BY <1>5, <1>6

(* release leaves nothing: the record a claim in a row was granted over has  *)
(* run out by now.                                                           *)
LEMMA AfterRelease ==
    ASSUME BackendInv, NEW c \in Callers, Release(c)
    PROVE  Entry' = Nobody
<1>1. /\ kv' = {} /\ row'["owner"] = <<>> /\ row'["result"] = row["result"]
      /\ row'["rexp"] = row["rexp"] /\ db' = db /\ now' = now
  BY ReleaseType DEF Release
<1>2. CASE db = "bigtable"
  <2>1. row["owner"] # <<>>
    BY <1>2 DEF Release, owns, _owner_filter, latest
  <2>2. \A e \in latest("rexp") : e <= now /\ e \in Int /\ now \in Nat
    BY <1>2, <2>1 DEF BackendInv, StoreType, latest, Last, Columns
  <2>3. latest("rexp")' = latest("rexp")
    BY <1>1 DEF latest
  <2>4. {x \in latest("rexp")' : now' < x} = {}
    BY <1>1, <2>2, <2>3
  <2>5. _read_state(now)' = {}
    BY <2>4 DEF _read_state
  <2>6. done_as(_read_state(now))' = done_as({})
    BY <2>5 DEF done_as
  <2> QED
    BY <1>1, <1>2, <2>6, EntryHasFormPrime, DoneForms DEF EntryForms
<1>3. CASE db # "bigtable"
  <2>1. terminal_value' = {}
    BY <1>1 DEF terminal_value, _live
  <2>2. done_as(terminal_value)' = done_as({})
    BY <2>1 DEF done_as
  <2> QED
    BY <1>1, <1>3, <2>2, EntryHasFormPrime, DoneForms DEF EntryForms
<1> QED
  BY <1>2, <1>3

(* Time turns a claim into a lapsed one and a result into nothing.           *)
LEMMA AfterTime ==
    ASSUME BackendInv, PassTime
    PROVE  \/ Entry' = Entry
           \/ Entry.state = "claimed" /\ Entry' = [Entry EXCEPT !.state = "lapsed"]
           \/ Entry.state = "done" /\ Entry' = Nobody
<1>1. /\ now' = now + 1 /\ now \in Nat /\ UNCHANGED <<db, kv, row>>
      /\ kv \subseteq Records /\ \A v, w \in kv : v = w
      /\ row["rexp"] \in Seq(Int) /\ row["claim"] \in Seq(Int)
      /\ Len(row["owner"]) = Len(row["claim"]) /\ row["owner"] \in Seq(Nat)
  BY DEF PassTime, BackendInv, StoreType, Columns
<1>2. ASSUME NEW token, NEW expires \in Int,
             Entry = claimed_as(token, expires), Entry' = (claimed_as(token, expires))'
      PROVE  \/ Entry' = Entry
             \/ Entry.state = "claimed" /\ Entry' = [Entry EXCEPT !.state = "lapsed"]
  <2>1. PICK e : e = Entry
    OBVIOUS
  <2>2. e = [state |-> IF now < expires THEN "claimed" ELSE "lapsed", token |-> token]
    BY <1>2, <2>1 DEF claimed_as
  <2>3. Entry' = [state |-> IF now + 1 < expires THEN "claimed" ELSE "lapsed", token |-> token]
    BY <1>1, <1>2 DEF claimed_as
  <2>4. CASE now < expires /\ ~(now + 1 < expires)
    <3>1. e = [state |-> "claimed", token |-> token]
      BY <2>2, <2>4
    <3>2. [e EXCEPT !.state = "lapsed"] = [state |-> "lapsed", token |-> token]
      BY <3>1
    <3> QED
      BY <2>1, <2>3, <2>4, <3>1, <3>2
  <2>5. CASE (now < expires) = (now + 1 < expires)
    BY <2>1, <2>2, <2>3, <2>5
  <2> QED
    BY <1>1, <1>2, <2>4, <2>5
<1>3. ASSUME NEW S, NEW T, T = S \/ T = {}, S = {} \/ \E r : S = {r},
             Entry = done_as(S), Entry' = done_as(T)
      PROVE  Entry' = Entry \/ (Entry.state = "done" /\ Entry' = Nobody)
  <2>1. CASE T = S
    BY <1>3, <2>1
  <2>2. ASSUME NEW r, S = {r}, T = {}
        PROVE  Entry.state = "done" /\ Entry' = Nobody
    <3>1. Entry = done_as({r}) /\ Entry' = done_as({})
      BY <1>3, <2>2
    <3>2. Entry = [state |-> "done", token |-> r.result] /\ Entry' = Nobody
      BY <3>1, DoneForms
    <3> QED
      BY <3>2
  <2> QED
    BY <1>3, <2>1, <2>2
<1>4. CASE db = "bigtable" /\ row["owner"] # <<>>
  <2>1. Last(row["claim"]) \in Int
    BY <1>1, <1>4 DEF Last
  <2>2. Entry = claimed_as(Last(row["owner"]), Last(row["claim"]))
    BY <1>4, EntryHasForm DEF EntryForms
  <2>3. Entry' = (claimed_as(Last(row["owner"]), Last(row["claim"])))'
    BY <1>1, <1>4, EntryHasFormPrime DEF EntryForms
  <2>4. Entry' = [state |-> IF now' < Last(row["claim"]) THEN "claimed" ELSE "lapsed",
                  token |-> Last(row["owner"])]
    BY <1>1, <2>3 DEF claimed_as
  <2>5. PICK expires \in Int : expires = Last(row["claim"])
    BY <2>1
  <2>6. PICK token : token = Last(row["owner"])
    OBVIOUS
  <2>7. Entry = claimed_as(token, expires)
    BY <2>2, <2>5, <2>6
  <2>8. Entry' = (claimed_as(token, expires))'
    BY <2>4, <2>5, <2>6 DEF claimed_as
  <2> QED
    BY <1>2, <2>7, <2>8
<1>5. CASE db = "bigtable" /\ row["owner"] = <<>>
  <2> DEFINE S == _read_state(now)
             T == {[result |-> r, expires |-> e] : r \in latest("result"),
                                                   e \in {x \in latest("rexp") : now + 1 < x}}
  <2>1. \A e \in latest("rexp") : e \in Int /\ latest("rexp") = {e}
    BY <1>1 DEF latest, Last
  <2>2. {x \in latest("rexp") : now + 1 < x} \in {{x \in latest("rexp") : now < x}, {}}
    BY <1>1, <2>1
  <2>3. T = S \/ T = {}
    BY <2>2 DEF _read_state
  <2>4. S = {} \/ \E r : S = {r}
    <3>1. latest("result") = {} \/ \E r : latest("result") = {r}
      BY DEF latest
    <3>2. {x \in latest("rexp") : now < x} = {} \/ \E e : {x \in latest("rexp") : now < x} = {e}
      BY <2>1
    <3> QED
      BY <3>1, <3>2 DEF _read_state
  <2>5. Entry = done_as(S)
    BY <1>5, EntryHasForm DEF EntryForms
  <2>6. _read_state(now)' = T
    BY <1>1 DEF _read_state, latest
  <2>7. Entry' = done_as(T)
    <3>1. Entry' = done_as(_read_state(now))'
      BY <1>1, <1>5, EntryHasFormPrime DEF EntryForms
    <3> QED
      BY <2>6, <3>1 DEF done_as
  <2> HIDE DEF S, T
  <2> QED
    BY <1>3, <2>3, <2>4, <2>5, <2>7
<1>6. ASSUME db # "bigtable", NEW r, kv = {r}, r.tag = "C"
      PROVE  \/ Entry' = Entry
             \/ Entry.state = "claimed" /\ Entry' = [Entry EXCEPT !.state = "lapsed"]
  <2>1. r.expires \in Int
    BY <1>1, <1>6 DEF Records
  <2>2. Entry = claimed_as(r.payload, r.expires)
    BY <1>6, EntryHasForm DEF EntryForms
  <2>3. Entry' = (claimed_as(r.payload, r.expires))'
    BY <1>1, <1>6, EntryHasFormPrime DEF EntryForms
  <2> QED
    BY <1>2, <2>1, <2>2, <2>3
<1>7. CASE db # "bigtable" /\ \A r \in kv : r.tag = "D"
  <2> DEFINE S == terminal_value
             L == {r \in kv : now + 1 < r.expires}
             T == {[result |-> r.payload, expires |-> r.expires] : r \in {x \in L : x.tag = "D"}}
  <2>1. \A r \in kv : r.expires \in Int
    BY <1>1 DEF Records
  <2>2. L = _live \/ L = {}
    BY <1>1, <2>1 DEF _live
  <2>3. T = S \/ T = {}
    BY <2>2 DEF terminal_value
  <2>4. S = {} \/ \E r : S = {r}
    <3>1. \A r \in _live : _live = {r}
      BY <1>1 DEF _live
    <3>2. {x \in _live : x.tag = "D"} = {} \/ \E r : {x \in _live : x.tag = "D"} = {r}
      BY <3>1
    <3> QED
      BY <3>2 DEF terminal_value
  <2>5. Entry = done_as(S)
    BY <1>7, EntryHasForm DEF EntryForms
  <2>6. terminal_value' = T
    BY <1>1 DEF terminal_value, _live
  <2>7. Entry' = done_as(T)
    <3>1. Entry' = done_as(terminal_value)'
      BY <1>1, <1>7, EntryHasFormPrime DEF EntryForms
    <3> QED
      BY <2>6, <3>1 DEF done_as
  <2> HIDE DEF S, T
  <2> QED
    BY <1>3, <2>3, <2>4, <2>5, <2>7
<1>8. \/ \A r \in kv : r.tag = "D"
      \/ \E r : kv = {r} /\ r.tag = "C"
  BY <1>1 DEF Records
<1> QED
  BY <1>4, <1>5, <1>6, <1>7, <1>8

(* Every step of a store is a step of the protocol or invisible in it.       *)
LEMMA StepsKeepTheProtocol ==
    ASSUME BackendInv, [BackendNext]_backendVars
    PROVE  [Protocol!ProtocolNext]_(Protocol!protocolVars)
<1>0. Protocol!Free = Nobody
  BY DEF Protocol!Free, Nobody
<1>1. CASE StoreKept
  <2>1. Entry' = Entry
    BY <1>1 DEF StoreKept, Entry, done_as, claimed_as, read_result, _read_state,
                terminal_value, _live, latest
  <2> QED
    BY <1>1, <2>1 DEF StoreKept, Protocol!protocolVars
<1>2. ASSUME NEW c \in Callers, Claimed(c)
      PROVE  Protocol!Grant
  <2>1. granted' = granted + 1 /\ closed' = closed
    BY <1>2 DEF Claimed
  <2> QED
    BY <1>2, <2>1, BeforeGrant, AfterGrant DEF Protocol!Grant
<1>3. ASSUME NEW c \in Callers, Complete(c)
      PROVE  Protocol!Settle
  <2> DEFINE token == call[c].token
  <2>1. granted' = granted /\ closed' = closed \cup {[token |-> token, how |-> "completed"]}
    BY <1>3 DEF Complete
  <2>2. PICK state \in {"claimed", "lapsed"} : Entry = [state |-> state, token |-> token]
    BY <1>3, OwnerIsEntry DEF Complete
  <2>3. [Entry EXCEPT !.state = "done"] = [state |-> "done", token |-> token]
    <3>1. PICK e : e = Entry
      OBVIOUS
    <3>2. [e EXCEPT !.state = "done"] = [state |-> "done", token |-> token]
      BY <2>2, <3>1
    <3> QED
      BY <3>1, <3>2
  <2>4. Entry.state \in {"claimed", "lapsed"} /\ Entry.token = token
    BY <2>2
  <2>5. Entry' \in {[state |-> "done", token |-> token], Nobody}
    BY <1>3, AfterComplete
  <2> HIDE DEF token
  <2> QED
    BY <1>0, <2>1, <2>3, <2>4, <2>5 DEF Protocol!Settle
<1>4. ASSUME NEW c \in Callers, Release(c)
      PROVE  Protocol!GiveBack
  <2> DEFINE token == call[c].token
  <2>1. granted' = granted /\ closed' = closed \cup {[token |-> token, how |-> "released"]}
    BY <1>4 DEF Release
  <2>2. PICK state \in {"claimed", "lapsed"} : Entry = [state |-> state, token |-> token]
    BY <1>4, OwnerIsEntry DEF Release
  <2>3. Entry.state \in {"claimed", "lapsed"} /\ Entry.token = token
    BY <2>2
  <2> HIDE DEF token
  <2> QED
    BY <1>0, <1>4, <2>1, <2>3, AfterRelease DEF Protocol!GiveBack
<1>5. CASE PassTime
  <2>1. granted' = granted /\ closed' = closed
    BY <1>5 DEF PassTime
  <2> QED
    BY <1>0, <1>5, <2>1, AfterTime DEF Protocol!Lapse, Protocol!ProtocolNext, Protocol!protocolVars
<1> QED
  BY <1>1, <1>2, <1>3, <1>4, <1>5, StepKinds DEF Protocol!ProtocolNext

(* Each backend of DedupStore implements the claim protocol: atomic claims,  *)
(* conditional completes and releases, whatever overlaps, fails or is late.  *)
THEOREM BackendsKeepTheProtocol == BackendSpec => KeepsTheProtocol
<1>1. BackendInit => Protocol!ProtocolInit
  <2> SUFFICES ASSUME BackendInit PROVE Protocol!ProtocolInit
    OBVIOUS
  <2>1. kv = {} /\ granted = 0 /\ closed = {} /\ \A x \in Columns : row[x] = <<>>
    BY DEF BackendInit
  <2>2. latest("result") = {} /\ row["owner"] = <<>>
    BY <2>1 DEF latest, Columns
  <2>3. _read_state(now) = {} /\ terminal_value = {}
    BY <2>1, <2>2 DEF _read_state, terminal_value, _live
  <2>4. Entry = Nobody
    BY <2>1, <2>2, <2>3, EntryHasForm, DoneForms DEF EntryForms
  <2> QED
    BY <2>1, <2>4 DEF Protocol!ProtocolInit, Protocol!Free, Nobody
<1>2. BackendInv /\ [BackendNext]_backendVars => [Protocol!ProtocolNext]_(Protocol!protocolVars)
  BY StepsKeepTheProtocol
<1> QED
  BY <1>1, <1>2, BackendHolds, PTL DEF BackendSpec, KeepsTheProtocol, Protocol!ProtocolSpec

-----------------------------------------------------------------------------
(* What callers were told about one token.                                   *)
EndedOnce == \A x, y \in closed : x.token = y.token => x = y

(* The invariant of the protocol behind it: tokens are numbered as they are  *)
(* granted, and the one a claim stands under has not been ended.             *)
TokenInv ==
    /\ granted \in Nat
    /\ Entry \in [state : {"free", "claimed", "lapsed", "done"}, token : Nat]
    /\ \A x \in closed : x.token \in 1..granted
    /\ Entry.state \in {"claimed", "lapsed"} =>
          Entry.token \in 1..granted /\ \A x \in closed : x.token # Entry.token
    /\ EndedOnce

(* It needs nothing of the stores but that they keep the protocol.           *)
LEMMA ProtocolTokens ==
    ASSUME TokenInv, [Protocol!ProtocolNext]_(Protocol!protocolVars)
    PROVE  TokenInv'
<1> PICK e : e = Entry
  OBVIOUS
<1> PICK f : f = Entry'
  OBVIOUS
<1>1. CASE Protocol!Grant
  <2>1. PICK state \in {"claimed", "lapsed"} : Entry' = [state |-> state, token |-> granted + 1]
    BY <1>1 DEF Protocol!Grant
  <2>2. Entry'.token = granted + 1 /\ granted' = granted + 1 /\ closed' = closed
    BY <1>1, <2>1 DEF Protocol!Grant
  <2>3. Entry' \in [state : {"free", "claimed", "lapsed", "done"}, token : Nat]
    BY <2>1 DEF TokenInv
  <2> QED
    BY <2>2, <2>3 DEF TokenInv, EndedOnce
<1>2. ASSUME NEW how, Entry.state \in {"claimed", "lapsed"}, granted' = granted,
             closed' = closed \cup {[token |-> Entry.token, how |-> how]},
             Entry'.state \in {"done", "free"},
             Entry' \in [state : {"free", "claimed", "lapsed", "done"}, token : Nat]
      PROVE  TokenInv'
  <2>1. PICK x : x = [token |-> Entry.token, how |-> how]
    OBVIOUS
  <2>2. x.token = Entry.token /\ closed' = closed \cup {x}
    BY <1>2, <2>1
  <2> QED
    BY <1>2, <2>2 DEF TokenInv, EndedOnce
<1>3. CASE Protocol!Settle
  <2>1. /\ Entry'.state \in {"done", "free"}
        /\ Entry' \in [state : {"free", "claimed", "lapsed", "done"}, token : Nat]
    <3>1. CASE Entry' = [Entry EXCEPT !.state = "done"]
      <4>1. e \in [state : {"free", "claimed", "lapsed", "done"}, token : Nat]
        BY DEF TokenInv
      <4>2. f = [e EXCEPT !.state = "done"]
        BY <3>1
      <4> QED
        BY <4>1, <4>2
    <3>2. CASE Entry' = Protocol!Free
      BY <3>2 DEF Protocol!Free
    <3> QED
      BY <1>3, <3>1, <3>2 DEF Protocol!Settle
  <2> QED
    BY <1>2, <1>3, <2>1 DEF Protocol!Settle
<1>4. CASE Protocol!GiveBack
  <2>1. /\ Entry'.state \in {"done", "free"}
        /\ Entry' \in [state : {"free", "claimed", "lapsed", "done"}, token : Nat]
    BY <1>4 DEF Protocol!GiveBack, Protocol!Free
  <2> QED
    BY <1>2, <1>4, <2>1 DEF Protocol!GiveBack
<1>5. CASE Protocol!Lapse
  <2>1. granted' = granted /\ closed' = closed
    BY <1>5 DEF Protocol!Lapse
  <2>2. CASE Entry' = Protocol!Free
    <3>1. /\ Entry'.state = "free"
          /\ Entry' \in [state : {"free", "claimed", "lapsed", "done"}, token : Nat]
      BY <2>2 DEF Protocol!Free
    <3> QED
      BY <2>1, <3>1 DEF TokenInv, EndedOnce
  <2>3. CASE Entry.state = "claimed" /\ Entry' = [Entry EXCEPT !.state = "lapsed"]
    <3>1. f.token = e.token /\ f \in [state : {"free", "claimed", "lapsed", "done"}, token : Nat]
      BY <2>3 DEF TokenInv
    <3> QED
      BY <2>1, <2>3, <3>1 DEF TokenInv, EndedOnce
  <2> QED
    BY <1>5, <2>2, <2>3 DEF Protocol!Lapse
<1>6. CASE UNCHANGED Protocol!protocolVars
  BY <1>6 DEF Protocol!protocolVars, TokenInv, EndedOnce
<1> QED
  BY <1>1, <1>3, <1>4, <1>5, <1>6 DEF Protocol!ProtocolNext

(* Whoever is told that his complete or release counted is the only one to   *)
(* be told so of that claim, and only once: a token ends in one way.         *)
THEOREM OwnershipEndsOnce == BackendSpec => []EndedOnce
<1>1. Protocol!ProtocolInit => TokenInv
  BY DEF Protocol!ProtocolInit, Protocol!Free, TokenInv, EndedOnce
<1>2. TokenInv => EndedOnce
  BY DEF TokenInv
<1> QED
  BY <1>1, <1>2, ProtocolTokens, BackendsKeepTheProtocol, PTL
     DEF KeepsTheProtocol, Protocol!ProtocolSpec

-----------------------------------------------------------------------------
(* The breaker.                                                              *)

(* The strengthening of BreakerCounts: while the breaker is closed its own   *)
(* count is the length of the run of failures.  Once it has opened the count *)
(* says nothing (a failed trial is not counted), only that the run is long.  *)
BreakerInv ==
    /\ streak \in Nat
    /\ breaker = [state |-> breaker.state, failures |-> breaker.failures,
                  opened_at |-> breaker.opened_at]
    /\ breaker.state \in {"closed", "open", "half_open"}
    /\ breaker.failures \in Nat
    /\ breaker.state = "closed" => breaker.failures = streak /\ streak < Threshold
    /\ breaker.state # "closed" => streak >= Threshold

(* before_call, which only turns an open breaker into a half-open one.       *)
LEMMA BeforeCallInv ==
    ASSUME BreakerInv, breaker' = before_call, streak' = streak
    PROVE  BreakerInv'
<1>1. breaker' = [state |-> IF breaker.state = "open" THEN "half_open" ELSE breaker.state,
                  failures |-> breaker.failures, opened_at |-> breaker.opened_at]
  BY DEF before_call, BreakerInv
<1>2. QED
  BY <1>1 DEF BreakerInv

(* record_failure, reported by a call admitted in whatever state.            *)
LEMMA RecordFailureInv ==
    ASSUME NEW time, BreakerInv, breaker' = record_failure(time), streak' = streak + 1
    PROVE  BreakerInv'
<1>. Threshold \in Nat \ {0}
  BY ModelCallAssumption
<1>1. CASE breaker.state = "half_open"
  <2>1. breaker' = [state |-> "open", failures |-> breaker.failures, opened_at |-> time]
    BY <1>1 DEF record_failure, BreakerInv
  <2>2. QED
    BY <1>1, <2>1 DEF BreakerInv
<1>2. CASE breaker.state # "half_open" /\ breaker.failures + 1 >= Threshold
  <2>1. breaker' = [state |-> "open", failures |-> breaker.failures + 1, opened_at |-> time]
    BY <1>2 DEF record_failure
  <2>2. QED
    BY <1>2, <2>1 DEF BreakerInv
<1>3. CASE breaker.state # "half_open" /\ ~(breaker.failures + 1 >= Threshold)
  <2>1. breaker' = [state |-> breaker.state, failures |-> breaker.failures + 1,
                    opened_at |-> breaker.opened_at]
    BY <1>3 DEF record_failure, BreakerInv
  <2>2. QED
    BY <1>3, <2>1 DEF BreakerInv
<1>4. QED
  BY <1>1, <1>2, <1>3

(* One step per action of ModelCall that reports to the breaker.             *)
LEMMA BreakerStep ==
    ASSUME BreakerInv, [Next]_vars
    PROVE  BreakerInv'
<1>. Threshold \in Nat \ {0}
  BY ModelCallAssumption
<1>1. CASE UNCHANGED <<breaker, streak>>
  BY <1>1 DEF BreakerInv
<1>2. ASSUME NEW k \in Keys, NEW r \in Requests, Miss(k, r)
      PROVE  BreakerInv'
  BY <1>1, <1>2, BeforeCallInv DEF Miss
<1>3. ASSUME NEW c \in calls, Respond(c)
      PROVE  BreakerInv'
  <2>1. CASE breaker' = record_success /\ streak' = 0
    BY <2>1 DEF BreakerInv, record_success
  <2>2. QED
    BY <1>1, <1>3, <2>1 DEF Respond
<1>4. ASSUME NEW c \in calls, AttemptFails(c)
      PROVE  BreakerInv'
  BY <1>1, <1>4, RecordFailureInv DEF AttemptFails
<1>5. ASSUME NEW k \in Keys, Begin(k) \/ Commit(k) \/ Abandon(k)
      PROVE  BreakerInv'
  BY <1>1, <1>5 DEF Begin, Commit, Abandon
<1>6. ASSUME NEW k \in Keys, NEW r \in Requests, Hit(k, r)
      PROVE  BreakerInv'
  BY <1>1, <1>6 DEF Hit
<1>7. CASE Tick
  BY <1>1, <1>7 DEF Tick
<1>8. CASE UNCHANGED vars
  BY <1>1, <1>8 DEF vars
<1>9. QED
  BY <1>2, <1>3, <1>4, <1>5, <1>6, <1>7, <1>8 DEF Next

(* CircuitBreaker leaves the closed state exactly on a run of threshold      *)
(* failures, for any number of keys, calls, attempts and cancelled trials,   *)
(* and whatever the clocks of the activations say.                           *)
THEOREM BreakerCountsExactly == Spec => []BreakerCounts
<1>1. Init => BreakerInv
  BY ModelCallAssumption DEF Init, BreakerInv
<1>2. BreakerInv /\ [Next]_vars => BreakerInv'
  BY BreakerStep
<1>3. BreakerInv => BreakerCounts
  BY ModelCallAssumption DEF BreakerInv, BreakerCounts
<1>4. QED
  BY <1>1, <1>2, <1>3, PTL DEF Spec

-----------------------------------------------------------------------------
(* The replay cache and the budget.                                          *)

LEMMA EntrySizes ==
    ASSUME NEW s \in Seq(Entries)
    PROVE  /\ DOMAIN s = 1..Len(s) /\ Len(s) \in Nat /\ IsFiniteSet(DOMAIN s)
           /\ \A i \in DOMAIN s : s[i] \in Entries /\ s[i].size \in Nat
<1>1. DOMAIN s = 1..Len(s) /\ Len(s) \in Nat /\ \A i \in DOMAIN s : s[i] \in Entries
  OBVIOUS
<1>2. \A e \in Entries : e.size \in Nat
  BY DEF Entries
<1>3. IsFiniteSet(DOMAIN s)
  <2>1. PICK n \in Nat : n = Len(s)
    BY <1>1
  <2> QED BY <1>1, <2>1, Interval
<1> QED BY <1>1, <1>2, <1>3

(* Sizes of parts add up; what Picked keeps weighs what its positions do.    *)
LEMMA SizesAdd ==
    ASSUME NEW s \in Seq(Entries), NEW P \in SUBSET (DOMAIN s)
    PROVE  /\ size_of(s) = size_at(s, P) + size_at(s, DOMAIN s \ P)
           /\ size_at(s, P) \in Nat /\ size_at(s, DOMAIN s \ P) \in Nat /\ size_of(s) \in Nat
<1>1. PICK D, w : D = DOMAIN s /\ w = [i \in DOMAIN s |-> s[i].size]
  OBVIOUS
<1>2. IsFiniteSet(D) /\ P \in SUBSET D /\ \A i \in D : w[i] \in Nat
  BY <1>1, EntrySizes
<1>3. /\ SumFunctionOnSet(w, D) = SumFunctionOnSet(w, P) + SumFunctionOnSet(w, D \ P)
      /\ SumFunctionOnSet(w, P) \in Nat /\ SumFunctionOnSet(w, D \ P) \in Nat
  BY <1>2, SumSplits
<1> QED BY <1>1, <1>3 DEF size_of, size_at

LEMMA SizePicked ==
    ASSUME NEW s \in Seq(Entries), NEW P \in SUBSET (DOMAIN s)
    PROVE  /\ Picked(s, P) \in Seq(Entries)
           /\ size_of(Picked(s, P)) = size_at(s, P)
<1>. DEFINE w == [i \in DOMAIN s |-> s[i].size]
            t == Picked(s, P)
            v == [i \in DOMAIN t |-> t[i].size]
<1>1. DOMAIN s = 1..Len(s) /\ Len(s) \in Nat /\ \A i \in DOMAIN s : w[i] \in Nat
  BY EntrySizes
<1>0. P \in SUBSET (1..Len(s))
  BY <1>1
<1>2. t \in Seq(Entries) /\ IsPicked(t, s, P)
  BY <1>0, PickedKeeps
<1>3. WeighsPicked(v, w, P)
  <2>. HIDE DEF t
  <2> QED BY <1>0, <1>1, <1>2 DEF WeighsPicked, IsPicked
<1>4. size_of(t) = SumFunctionOnSet(v, DOMAIN v) /\ size_at(s, P) = SumFunctionOnSet(w, P)
  BY DEF size_of, size_at
<1>. HIDE DEF w, v, t
<1>5. SumFunctionOnSet(v, DOMAIN v) = SumFunctionOnSet(w, P)
  <2>1. PICK n \in Nat : n = Len(s)
    BY <1>1
  <2>2. P \in SUBSET (1..n) /\ \A i \in 1..n : w[i] \in Nat
    BY <1>1, <2>1
  <2> QED BY <1>3, <2>2, PickedSum
<1> QED BY <1>2, <1>4, <1>5 DEF t

LEMMA SizeAppended ==
    ASSUME NEW s \in Seq(Entries), NEW e \in Entries
    PROVE  size_of(Append(s, e)) = size_of(s) + e.size /\ e.size \in Nat
<1>. DEFINE t == Append(s, e)
            v == [i \in DOMAIN s |-> s[i].size]
            w == [i \in DOMAIN t |-> t[i].size]
<1>1. PICK n \in Nat : n = Len(s)
  OBVIOUS
<1>2. /\ t \in Seq(Entries) /\ DOMAIN t = 1..(n + 1) /\ DOMAIN s = 1..n
      /\ \A i \in 1..n : t[i] = s[i]
      /\ t[n + 1] = e
  BY <1>1
<1>3. /\ \A i \in 1..(n + 1) : w[i] \in Nat
      /\ \A i \in 1..n : v[i] = w[i]
      /\ w[n + 1] = e.size /\ e.size \in Nat
  <2>1. \A x \in Entries : x.size \in Nat
    BY DEF Entries
  <2>2. \A i \in 1..(n + 1) : t[i] \in Entries
    BY <1>2
  <2>. HIDE DEF t
  <2> QED BY <1>1, <1>2, <2>1, <2>2
<1>4. size_of(t) = SumFunctionOnSet(w, 1..(n + 1)) /\ size_of(s) = SumFunctionOnSet(v, 1..n)
  BY <1>2 DEF size_of, size_at
<1>5. size_of(s) \in Nat
  <2>1. {} \in SUBSET DOMAIN s
    OBVIOUS
  <2> QED BY <2>1, SizesAdd
<1>. HIDE DEF w, v, t
<1>6. SumFunctionOnSet(w, 1..(n + 1)) = w[n + 1] + SumFunctionOnSet(v, 1..n)
  BY <1>3, SumGrows
<1> QED BY <1>3, <1>4, <1>5, <1>6 DEF t

LEMMA SizeOfOne ==
    ASSUME NEW s \in Seq(Entries), NEW i \in DOMAIN s
    PROVE  size_at(s, {i}) = s[i].size
<1>1. PICK S, w : S = {i} /\ w = [j \in DOMAIN s |-> s[j].size]
  OBVIOUS
<1>2. w[i] = s[i].size /\ s[i].size \in Nat /\ size_at(s, {i}) = SumFunctionOnSet(w, S)
  BY <1>1, EntrySizes DEF size_at
<1>3. IsFiniteSet(S) /\ i \in S /\ \A x \in S : w[x] \in Nat
  BY <1>1, <1>2, FS_Singleton
<1>4. SumFunctionOnSet(w, S) = w[i] + SumFunctionOnSet(w, S \ {i})
  BY <1>3, SumWithout
<1>5. S \ {i} = {}
  BY <1>1
<1>6. SumFunctionOnSet(w, S \ {i}) = 0
  BY <1>5, SumOfNone
<1> QED BY <1>2, <1>4, <1>6

-----------------------------------------------------------------------------
Distinct(es) == \A i, j \in DOMAIN es : es[i].id = es[j].id => i = j

Fits(e) == e.size \in 1..BLOB_CAP_BYTES /\ (e.digest_only \/ e.size \in Sizes)

(* t has the entries of s but for those with the ids.                        *)
LeftOf(t, s, ids) ==
    /\ \A i \in DOMAIN t : t[i].id \notin ids /\ \E j \in DOMAIN s : t[i] = s[j]
    /\ \A j \in DOMAIN s : s[j].id \notin ids => \E i \in DOMAIN t : t[i] = s[j]

(* What others keeps: everything but the entries with the ids.               *)
LEMMA OthersAreLeft ==
    ASSUME NEW s \in Seq(Entries), NEW ids
    PROVE  /\ others(s, ids) \in Seq(Entries)
           /\ Len(others(s, ids)) <= Len(s) /\ Len(others(s, ids)) \in Nat
           /\ size_of(others(s, ids)) = size_of(s) - size_at(s, positions(s, ids))
           /\ size_of(s) \in Nat /\ size_of(others(s, ids)) \in Nat
           /\ size_at(s, positions(s, ids)) \in Nat
           /\ LeftOf(others(s, ids), s, ids)
           /\ Distinct(s) => Distinct(others(s, ids))
<1>. DEFINE G == positions(s, ids)
            P == DOMAIN s \ G
            t == Picked(s, P)
<1>1. G \in SUBSET (DOMAIN s) /\ P \in SUBSET (DOMAIN s) /\ \A i \in DOMAIN s : i \in G <=> s[i].id \in ids
  BY DEF positions
<1>2. t = others(s, ids)
  BY DEF others
<1>3. /\ size_of(s) = size_at(s, G) + size_at(s, P)
      /\ size_at(s, G) \in Nat /\ size_at(s, P) \in Nat /\ size_of(s) \in Nat
  <2>. HIDE DEF G
  <2> QED BY <1>1, SizesAdd
<1>4. DOMAIN s = 1..Len(s) /\ Len(s) \in Nat
  OBVIOUS
<1>5. /\ Cardinality(P) \in Nat /\ Cardinality(P) <= Len(s)
      /\ t \in Seq(Entries) /\ Len(t) = Cardinality(P) /\ DOMAIN t = 1..Cardinality(P)
      /\ \A n \in 1..Cardinality(P) : nth(P, n) \in P /\ t[n] = s[nth(P, n)]
      /\ \A n, m \in 1..Cardinality(P) : nth(P, n) = nth(P, m) => n = m
      /\ \A i \in P : \E n \in 1..Cardinality(P) : nth(P, n) = i
  <2>1. P \in SUBSET (1..Len(s))
    BY <1>1, <1>4
  <2>. HIDE DEF P
  <2>2. t \in Seq(Entries) /\ IsPicked(t, s, P)
    BY <2>1, PickedKeeps
  <2>. HIDE DEF t
  <2> QED BY <2>2 DEF IsPicked
<1>6. size_of(t) = size_at(s, P)
  <2>. HIDE DEF P
  <2> QED BY <1>1, SizePicked
<1>. HIDE DEF t, G
<1>7. LeftOf(t, s, ids)
  <2>1. \A i \in DOMAIN t : t[i].id \notin ids /\ \E j \in DOMAIN s : t[i] = s[j]
    BY <1>1, <1>5
  <2>2. \A j \in DOMAIN s : s[j].id \notin ids => \E i \in DOMAIN t : t[i] = s[j]
    BY <1>1, <1>5
  <2> QED BY <2>1, <2>2 DEF LeftOf
<1>8. Distinct(s) => Distinct(t)
  <2>1. SUFFICES ASSUME Distinct(s), NEW n \in DOMAIN t, NEW m \in DOMAIN t, t[n].id = t[m].id
                 PROVE  n = m
    BY DEF Distinct
  <2>2. nth(P, n) \in DOMAIN s /\ nth(P, m) \in DOMAIN s
    BY <1>1, <1>5
  <2>3. nth(P, n) = nth(P, m)
    <3>1. t[n] = s[nth(P, n)] /\ t[m] = s[nth(P, m)]
      BY <1>5, <2>1
    <3>2. s[nth(P, n)].id = s[nth(P, m)].id
      BY <2>1, <3>1
    <3>. HIDE DEF P
    <3> QED BY <2>1, <2>2, <3>2 DEF Distinct
  <2> QED BY <1>5, <2>3
<1> QED BY <1>2, <1>3, <1>4, <1>5, <1>6, <1>7, <1>8 DEF G

-----------------------------------------------------------------------------
(* Attempts.                                                                 *)

(* All but the cache of an attempt.                                          *)
SameBudget(b, a) ==
    /\ b.now = a.now /\ b.facade = a.facade /\ b.consumed = a.consumed
    /\ b.exhausted = a.exhausted /\ b.delivered = a.delivered /\ b.heard = a.heard

LEMMA Restaged ==
    ASSUME NEW a \in Attempts, NEW es \in Seq(Entries)
    PROVE  LET b == [a EXCEPT !.entries = es]
           IN  /\ b \in Attempts /\ b.entries = es /\ b.total = a.total
               /\ b.evicted = a.evicted /\ SameBudget(b, a)
BY DEF Attempts, SameBudget

LEMMA Evicting ==
    ASSUME NEW a \in Attempts, NEW ids \in SUBSET Ids
    PROVE  LET b == [a EXCEPT !.evicted = @ \cup ids]
           IN  /\ b \in Attempts /\ b.entries = a.entries /\ b.total = a.total
               /\ b.evicted = a.evicted \cup ids /\ SameBudget(b, a)
BY DEF Attempts, SameBudget

(* A cache as it is between two calls, but for its limits.                   *)
Held(a) ==
    /\ a \in Attempts /\ Distinct(a.entries) /\ a.total = size_of(a.entries)
    /\ \A i \in DOMAIN a.entries : Fits(a.entries[i])

Bounded(es) == Len(es) <= MAX_ENTRIES /\ size_of(es) <= BLOB_CAP_BYTES

(* _remove keeps the total exact and the limits.                             *)
LEMMA RemoveKeeps ==
    ASSUME NEW a, Held(a), NEW ids
    PROVE  /\ Held(remove(a, ids)) /\ SameBudget(remove(a, ids), a)
           /\ remove(a, ids).evicted = a.evicted
           /\ remove(a, ids).entries = others(a.entries, ids)
           /\ LeftOf(remove(a, ids).entries, a.entries, ids)
           /\ Bounded(a.entries) => Bounded(remove(a, ids).entries)
<1>1. PICK s : s = a.entries
  OBVIOUS
<1>2. s \in Seq(Entries) /\ a \in Attempts /\ Distinct(s) /\ a.total = size_of(s)
      /\ \A i \in DOMAIN s : Fits(s[i])
  BY <1>1 DEF Held, Attempts
<1>3. /\ others(s, ids) \in Seq(Entries)
      /\ Len(others(s, ids)) <= Len(s) /\ Len(others(s, ids)) \in Nat
      /\ size_of(others(s, ids)) = size_of(s) - size_at(s, positions(s, ids))
      /\ size_of(s) \in Nat /\ size_of(others(s, ids)) \in Nat
      /\ size_at(s, positions(s, ids)) \in Nat
      /\ LeftOf(others(s, ids), s, ids)
      /\ Distinct(others(s, ids))
  BY <1>2, OthersAreLeft
<1>4. PICK t, n : t = others(s, ids) /\ n = a.total - size_at(s, positions(s, ids))
  OBVIOUS
<1>5. t \in Seq(Entries) /\ n \in Nat /\ n = size_of(t)
  BY <1>2, <1>3, <1>4
<1>6. remove(a, ids) = [a EXCEPT !.entries = t, !.total = n]
  BY <1>1, <1>4 DEF remove
<1>7. PICK b : b = remove(a, ids)
  OBVIOUS
<1>8. /\ b \in Attempts /\ b.entries = t /\ b.total = n
      /\ b.evicted = a.evicted /\ SameBudget(b, a)
  <2>1. a \in Attempts /\ t \in Seq(Entries) /\ n \in Nat
    BY <1>2, <1>5
  <2>2. b = [a EXCEPT !.entries = t, !.total = n]
    BY <1>6, <1>7
  <2> QED BY <2>1, <2>2 DEF Attempts, SameBudget
<1>9. \A i \in DOMAIN t : Fits(t[i])
  BY <1>2, <1>3, <1>4 DEF LeftOf
<1>10. Held(b)
  BY <1>3, <1>4, <1>5, <1>8, <1>9 DEF Held
<1>11. Bounded(s) => Bounded(t)
  <2>1. Len(s) \in Nat /\ size_at(s, positions(s, ids)) >= 0
    BY <1>2, <1>3
  <2> QED BY <1>3, <1>4, <2>1, ModelCallAssumption DEF Bounded
<1> QED BY <1>1, <1>3, <1>4, <1>7, <1>8, <1>10, <1>11

live(e, time) == ~e.digest_only /\ ~is_expired(e, time)

(* No live entry that is in s is missing from t.                             *)
KeepsLive(t, s, time) ==
    \A i \in DOMAIN s : live(s[i], time) => \E j \in DOMAIN t : t[j] = s[i]

(* get loses only what has expired: a touch takes an entry out and puts the  *)
(* same one back, so that size and count are as before.                      *)
LEMMA GetKeeps ==
    ASSUME NEW a, Held(a), Bounded(a.entries), NEW id
    PROVE  /\ Held(get(a, id)) /\ Bounded(get(a, id).entries) /\ SameBudget(get(a, id), a)
           /\ get(a, id).evicted = a.evicted
           /\ KeepsLive(get(a, id).entries, a.entries, a.now)
<1>1. PICK s : s = a.entries
  OBVIOUS
<1>2. s \in Seq(Entries) /\ a \in Attempts /\ Distinct(s) /\ a.total = size_of(s)
      /\ \A i \in DOMAIN s : Fits(s[i])
  BY <1>1 DEF Held, Attempts
<1>3. PICK found : found = {e \in ToSet(s) : e.id = id}
  OBVIOUS
<1>4. \A e : e \in found <=> \E i \in DOMAIN s : e = s[i] /\ s[i].id = id
  BY <1>3 DEF ToSet
<1>5. CASE \A e \in found : is_expired(e, a.now)
  <2>1. get(a, id) = remove(a, {id})
    BY <1>1, <1>3, <1>5 DEF get
  <2>2. PICK t : t = remove(a, {id}).entries
    OBVIOUS
  <2>3. LeftOf(t, s, {id})
    BY <1>1, <2>2, RemoveKeeps
  <2>4. KeepsLive(t, s, a.now)
    <3>1. ASSUME NEW i \in DOMAIN s, live(s[i], a.now) PROVE \E j \in DOMAIN t : t[j] = s[i]
      <4>1. s[i].id # id
        BY <1>4, <1>5, <3>1 DEF live
      <4> QED BY <2>3, <4>1 DEF LeftOf
    <3> QED BY <3>1 DEF KeepsLive
  <2> QED BY <1>1, <2>1, <2>2, <2>4, RemoveKeeps
<1>6. CASE ~\A e \in found : is_expired(e, a.now)
  <2>1. PICK e : e = CHOOSE x \in found : TRUE
    OBVIOUS
  <2>2. e \in found
    BY <1>6, <2>1
  <2>3. PICK i \in DOMAIN s : e = s[i] /\ s[i].id = id
    BY <1>4, <2>2
  <2>4. positions(s, {id}) = {i}
    BY <1>2, <2>3 DEF positions, Distinct
  <2>5. PICK r : r = others(s, {id})
    OBVIOUS
  <2>6. /\ r \in Seq(Entries) /\ Len(r) \in Nat /\ size_of(r) \in Nat /\ size_of(s) \in Nat
        /\ size_of(r) = size_of(s) - s[i].size /\ s[i].size \in Nat
        /\ LeftOf(r, s, {id}) /\ Distinct(r)
    <3>1. size_at(s, {i}) = s[i].size
      BY <1>2, SizeOfOne
    <3>2. s[i].size \in Nat
      BY <1>2, EntrySizes
    <3> QED BY <1>2, <2>4, <2>5, <3>1, <3>2, OthersAreLeft
  <2>7. Len(r) = Len(s) - 1 /\ Len(s) \in Nat
    <3>1. PICK D : D = DOMAIN s
      OBVIOUS
    <3>2. PICK n \in Nat : n = Len(s) /\ D = 1..n
      BY <1>2, <3>1
    <3>3. IsFiniteSet(D) /\ Cardinality(D) = n
      BY <3>2, Interval
    <3>4. Cardinality(D \ {i}) = n - 1
      BY <3>1, <3>3, FS_RemoveElement
    <3>5. r = Picked(s, D \ {i}) /\ D \ {i} \in SUBSET (1..Len(s))
      BY <2>4, <2>5, <3>1, <3>2 DEF others
    <3>6. Len(r) = Cardinality(D \ {i})
      <4>1. IsPicked(r, s, D \ {i})
        BY <1>2, <3>5, PickedKeeps
      <4> QED BY <4>1 DEF IsPicked
    <3> QED BY <3>2, <3>4, <3>6
  <2>8. PICK t : t = Append(r, e)
    OBVIOUS
  <2>9. e \in Entries
    BY <1>2, <2>3
  <2>10. /\ t \in Seq(Entries) /\ Len(t) = Len(r) + 1 /\ DOMAIN t = 1..(Len(r) + 1)
         /\ DOMAIN r = 1..Len(r)
         /\ \A j \in DOMAIN r : t[j] = r[j]
         /\ t[Len(r) + 1] = e
    BY <2>6, <2>8, <2>9
  <2>11. size_of(t) = size_of(s)
    <3>1. size_of(t) = size_of(r) + e.size /\ e.size \in Nat
      BY <2>6, <2>8, <2>9, SizeAppended
    <3> QED BY <2>3, <2>6, <3>1
  <2>12. \A j \in DOMAIN t : j \in DOMAIN r \/ (j = Len(r) + 1 /\ t[j] = e)
    BY <2>6, <2>10
  <2>13. Distinct(t)
    <3>1. \A j \in DOMAIN r : r[j].id # id
      BY <2>6 DEF LeftOf
    <3> QED BY <2>3, <2>6, <2>10, <2>12, <3>1 DEF Distinct
  <2>14. \A j \in DOMAIN t : Fits(t[j])
    BY <1>2, <2>3, <2>6, <2>10, <2>12 DEF LeftOf
  <2>15. KeepsLive(t, s, a.now)
    <3>1. ASSUME NEW j \in DOMAIN s PROVE \E k \in DOMAIN t : t[k] = s[j]
      <4>1. CASE s[j].id = id
        <5>1. s[j] = e
          BY <1>2, <2>3, <4>1 DEF Distinct
        <5>2. Len(r) + 1 \in DOMAIN t
          BY <2>6, <2>10
        <5> QED BY <2>10, <5>1, <5>2
      <4>2. CASE s[j].id # id
        <5>1. PICK k \in DOMAIN r : r[k] = s[j]
          BY <2>6, <4>2 DEF LeftOf
        <5>2. k \in DOMAIN t
          BY <2>6, <2>10
        <5> QED BY <2>10, <5>1, <5>2
      <4> QED BY <4>1, <4>2
    <3> QED BY <3>1 DEF KeepsLive
  <2>16. get(a, id) = [a EXCEPT !.entries = t]
    BY <1>1, <1>3, <1>6, <2>1, <2>5, <2>8 DEF get
  <2>17. PICK b : b = get(a, id)
    OBVIOUS
  <2>18. /\ b \in Attempts /\ b.entries = t /\ b.total = a.total
         /\ b.evicted = a.evicted /\ SameBudget(b, a)
    BY <1>2, <2>10, <2>16, <2>17, Restaged
  <2>19. Held(b)
    BY <1>2, <2>11, <2>13, <2>14, <2>18 DEF Held
  <2>20. Bounded(t)
    BY <1>1, <2>6, <2>7, <2>10, <2>11 DEF Bounded
  <2> QED BY <1>1, <2>15, <2>17, <2>18, <2>19, <2>20
<1> QED BY <1>5, <1>6

(* Evicting: the fewest entries from the oldest on that leave the rest       *)
(* within the limits, never all of them.  What goes is remembered.           *)
LEMMA EvictKeeps ==
    ASSUME NEW a, Held(a), Len(a.entries) > 0
    PROVE  /\ Held(evict(a)) /\ Bounded(evict(a).entries) /\ SameBudget(evict(a), a)
           /\ a.evicted \subseteq evict(a).evicted
           /\ \A i \in DOMAIN a.entries :
                 \/ a.entries[i].id \in evict(a).evicted
                 \/ \E j \in DOMAIN evict(a).entries : evict(a).entries[j] = a.entries[i]
           /\ \A j \in DOMAIN evict(a).entries :
                 \E i \in DOMAIN a.entries : evict(a).entries[j] = a.entries[i]
           /\ \E j \in DOMAIN evict(a).entries :
                 evict(a).entries[j] = a.entries[Len(a.entries)]
<1>1. PICK s, n : s = a.entries /\ n = Len(a.entries)
  OBVIOUS
<1>2. /\ s \in Seq(Entries) /\ a \in Attempts /\ Distinct(s) /\ a.total = size_of(s)
      /\ \A i \in DOMAIN s : Fits(s[i])
  BY <1>1 DEF Held, Attempts
<1>3. n \in Nat /\ n > 0 /\ DOMAIN s = 1..n /\ n = Len(s) /\ \A i \in 1..n : s[i] \in Entries
  BY <1>1, <1>2
<1>. DEFINE fits(d) == /\ n - d <= MAX_ENTRIES
                       /\ \/ n - d <= 1
                          \/ a.total - size_at(s, 1..d) <= BLOB_CAP_BYTES
            T == {d \in 0..n : fits(d)}
<1>4. n - 1 \in T
  <2>1. n - 1 \in 0..n /\ n - (n - 1) = 1 /\ 1 <= MAX_ENTRIES
    BY <1>3, ModelCallAssumption
  <2> QED BY <2>1
<1>5. PICK d \in T : \A m \in T : d <= m
  <2>1. T \in SUBSET Nat /\ T # {}
    BY <1>3, <1>4
  <2>. HIDE DEF T
  <2> QED BY <2>1, LeastNumber
<1>6. d \in 0..n /\ fits(d) /\ (\A m \in 0..(d - 1) : ~fits(m)) /\ d <= n - 1
  BY <1>3, <1>4, <1>5
<1>7. PICK ids : ids = {s[i].id : i \in 1..d}
  OBVIOUS
<1>8. evict(a) = [remove(a, ids) EXCEPT !.evicted = @ \cup ids]
  <2>1. d = CHOOSE x \in 0..n : fits(x) /\ \A m \in 0..(x - 1) : ~fits(m)
    <3>1. \A x \in 0..n : fits(x) /\ (\A m \in 0..(x - 1) : ~fits(m)) => x = d
      <4>1. SUFFICES ASSUME NEW x \in 0..n, fits(x), \A m \in 0..(x - 1) : ~fits(m)
                     PROVE  x = d
        OBVIOUS
      <4>2. ~(x < d) /\ ~(d < x)
        BY <1>3, <1>6, <4>1
      <4> QED BY <1>3, <1>6, <4>2
    <3>. HIDE DEF fits
    <3> QED BY <1>6, <3>1
  <2> QED BY <1>1, <1>7, <2>1 DEF evict
<1>. HIDE DEF fits, T
<1>9. /\ positions(s, ids) = 1..d /\ ids \in SUBSET Ids
      /\ \A i \in DOMAIN s : s[i].id \in ids <=> i <= d
  <2>1. \A i \in DOMAIN s : s[i].id \in ids <=> i <= d
    BY <1>2, <1>3, <1>6, <1>7 DEF Distinct
  <2>2. positions(s, ids) = 1..d
    BY <1>3, <1>6, <2>1 DEF positions
  <2>3. \A i \in 1..d : s[i].id \in Ids
    BY <1>3, <1>6 DEF Entries
  <2> QED BY <1>7, <2>1, <2>2, <2>3
<1>10. PICK b, t : b = remove(a, ids) /\ t = b.entries
  OBVIOUS
<1>11. /\ Held(b) /\ SameBudget(b, a) /\ b.evicted = a.evicted /\ t = others(s, ids)
       /\ LeftOf(t, s, ids)
  BY <1>1, <1>10, RemoveKeeps
<1>12. b \in Attempts /\ t \in Seq(Entries)
  BY <1>10, <1>11 DEF Held, Attempts
<1>13. PICK c : c = evict(a)
  OBVIOUS
<1>14. /\ c \in Attempts /\ c.entries = t /\ c.total = b.total
       /\ c.evicted = a.evicted \cup ids /\ SameBudget(c, a)
  <2>1. c = [b EXCEPT !.evicted = @ \cup ids]
    BY <1>8, <1>10, <1>13
  <2>2. /\ c \in Attempts /\ c.entries = b.entries /\ c.total = b.total
        /\ c.evicted = b.evicted \cup ids /\ SameBudget(c, b)
    BY <1>9, <1>12, <2>1, Evicting
  <2> QED BY <1>10, <1>11, <2>2 DEF SameBudget
<1>15. Held(c)
  BY <1>10, <1>11, <1>14 DEF Held
<1>16. Bounded(t)
  <2>1. Len(t) = n - d
    <3>1. PICK D : D = DOMAIN s \ (1..d)
      OBVIOUS
    <3>2. t = Picked(s, D) /\ D \in SUBSET (1..Len(s))
      BY <1>3, <1>9, <1>11, <3>1 DEF others
    <3>3. Len(t) = Cardinality(D)
      <4>1. IsPicked(t, s, D)
        BY <1>2, <3>2, PickedKeeps
      <4> QED BY <4>1 DEF IsPicked
    <3>4. D = (d + 1)..n
      BY <1>3, <1>6, <3>1
    <3>5. Cardinality((d + 1)..n) = n - d
      BY <1>3, <1>6, FS_Interval
    <3> QED BY <3>3, <3>4, <3>5
  <2>2. /\ size_of(t) = a.total - size_at(s, 1..d)
        /\ size_of(t) \in Nat
    BY <1>2, <1>9, <1>11, OthersAreLeft
  <2>3. CASE n - d <= 1
    <3>1. n - d = 1 /\ DOMAIN t = {1}
      <4>1. n - d = 1
        <5>1. d \in Nat /\ d <= n - 1
          BY <1>3, <1>6
        <5>2. n \in Nat
          BY <1>3
        <5> QED BY <2>3, <5>1, <5>2
      <4>2. DOMAIN t = 1..1
        BY <1>12, <2>1, <4>1
      <4> QED BY <4>1, <4>2
    <3>2. size_of(t) = t[1].size
      <4>1. size_at(t, {1}) = t[1].size
        BY <1>12, <3>1, SizeOfOne
      <4> QED BY <3>1, <4>1 DEF size_of
    <3>3. Fits(t[1])
      BY <1>10, <1>11, <3>1 DEF Held
    <3> QED BY <1>6, <2>1, <3>1, <3>2, <3>3, ModelCallAssumption DEF Bounded, Fits
  <2>4. CASE a.total - size_at(s, 1..d) <= BLOB_CAP_BYTES
    BY <1>6, <2>1, <2>2, <2>4 DEF Bounded, fits
  <2> QED BY <1>6, <2>3, <2>4 DEF fits
<1>17. \A i \in DOMAIN s : s[i].id \in c.evicted \/ \E j \in DOMAIN t : t[j] = s[i]
  BY <1>11, <1>14 DEF LeftOf
<1>18. \A j \in DOMAIN t : \E i \in DOMAIN s : t[j] = s[i]
  BY <1>11 DEF LeftOf
<1>19. \E j \in DOMAIN t : t[j] = s[n]
  <2>1. n \in DOMAIN s /\ s[n].id \notin ids
    BY <1>3, <1>6, <1>9
  <2> QED BY <1>11, <2>1 DEF LeftOf
<1> QED BY <1>1, <1>13, <1>14, <1>15, <1>16, <1>17, <1>18, <1>19

(* put: what was live stays or is evicted, but for the request answered.     *)
LEMMA PutKeeps ==
    ASSUME NEW a, Held(a), Bounded(a.entries), NEW id \in Ids, NEW response \in Nat,
           NEW size \in Sizes
    PROVE  LET b == put(a, id, response, size)
           IN  /\ Held(b) /\ Bounded(b.entries) /\ SameBudget(b, a)
               /\ a.evicted \subseteq b.evicted
               /\ \A i \in DOMAIN a.entries :
                     live(a.entries[i], a.now) /\ a.entries[i].id # id =>
                         \/ a.entries[i].id \in b.evicted
                         \/ \E j \in DOMAIN b.entries : b.entries[j] = a.entries[i]
               /\ \E j \in DOMAIN b.entries : b.entries[j].id = id
<1>. DEFINE oversized == size > BLOB_CAP_BYTES
<1>1. PICK s : s = a.entries
  OBVIOUS
<1>2. /\ s \in Seq(Entries) /\ a \in Attempts /\ a.now \in Nat
  BY <1>1 DEF Held, Attempts
<1>3. PICK e : e = [id |-> id, response |-> response, created |-> a.now,
                    size |-> IF oversized THEN DigestSize ELSE size,
                    digest_only |-> oversized]
  OBVIOUS
<1>4. size \in Nat /\ size # 0 /\ DigestSize \in 1..BLOB_CAP_BYTES /\ BLOB_CAP_BYTES \in Nat
  BY ModelCallAssumption
<1>5. e \in Entries /\ Fits(e) /\ e.id = id
  <2>1. e.size \in 1..BLOB_CAP_BYTES /\ (e.digest_only \/ e.size \in Sizes)
    <3>1. CASE size > BLOB_CAP_BYTES
      BY <1>3, <1>4, <3>1
    <3>2. CASE ~(size > BLOB_CAP_BYTES)
      <4>1. e.size = size
        BY <1>3, <3>2
      <4>2. size \in 1..BLOB_CAP_BYTES
        BY <1>4, <3>2
      <4> QED BY <4>1, <4>2
    <3> QED BY <3>1, <3>2
  <2>2. e \in Entries
    BY <1>2, <1>3, <1>4 DEF Entries
  <2> QED BY <1>3, <2>1, <2>2 DEF Fits
<1>6. PICK stale : stale = {x.id : x \in {y \in ToSet(s) : is_expired(y, a.now)}}
  OBVIOUS
<1>7. \A i \in DOMAIN s : live(s[i], a.now) /\ Distinct(s) => s[i].id \notin stale
  <2>1. ASSUME NEW i \in DOMAIN s, live(s[i], a.now), Distinct(s), s[i].id \in stale PROVE FALSE
    <3>1. PICK j \in DOMAIN s : s[j].id = s[i].id /\ is_expired(s[j], a.now)
      BY <1>6, <2>1 DEF ToSet
    <3> QED BY <2>1, <3>1 DEF Distinct, live
  <2> QED BY <2>1
<1>8. PICK k, t : k = remove(a, stale \cup {id}) /\ t = k.entries
  OBVIOUS
<1>9. /\ Held(k) /\ SameBudget(k, a) /\ k.evicted = a.evicted /\ LeftOf(t, s, stale \cup {id})
  BY <1>1, <1>8, RemoveKeeps
<1>10. k \in Attempts /\ t \in Seq(Entries) /\ k.total = size_of(t) /\ k.total \in Nat /\ Distinct(t)
       /\ \A i \in DOMAIN t : Fits(t[i])
  BY <1>8, <1>9 DEF Held, Attempts
<1>11. PICK u, n : u = Append(t, e) /\ n = k.total + e.size
  OBVIOUS
<1>12. size_of(u) = n /\ n \in Nat
  <2>1. size_of(u) = size_of(t) + e.size /\ e.size \in Nat
    BY <1>5, <1>10, <1>11, SizeAppended
  <2> QED BY <1>10, <1>11, <2>1
<1>13. /\ u \in Seq(Entries) /\ Len(t) \in Nat /\ Len(u) = Len(t) + 1 /\ DOMAIN u = 1..(Len(t) + 1)
       /\ DOMAIN t = 1..Len(t)
       /\ \A j \in DOMAIN t : u[j] = t[j]
       /\ u[Len(t) + 1] = e
  BY <1>5, <1>10, <1>11
<1>14. \A j \in DOMAIN u : j \in DOMAIN t \/ (j = Len(t) + 1 /\ u[j] = e)
  BY <1>13
<1>15. Distinct(u) /\ \A j \in DOMAIN u : Fits(u[j])
  <2>1. \A j \in DOMAIN t : t[j].id # id
    BY <1>9 DEF LeftOf
  <2>2. Distinct(u)
    BY <1>5, <1>10, <1>13, <1>14, <2>1 DEF Distinct
  <2> QED BY <1>5, <1>10, <1>13, <1>14, <2>2
<1>16. PICK c : c = [k EXCEPT !.entries = Append(@, e), !.total = @ + e.size]
  OBVIOUS
<1>17. /\ c \in Attempts /\ c.entries = u /\ c.total = n
       /\ c.evicted = k.evicted /\ SameBudget(c, k)
  <2>1. c = [k EXCEPT !.entries = u, !.total = n]
    BY <1>8, <1>10, <1>11, <1>16 DEF Attempts
  <2> QED BY <1>10, <1>12, <1>13, <2>1 DEF Attempts, SameBudget
<1>18. Held(c) /\ Len(c.entries) > 0
  BY <1>12, <1>13, <1>15, <1>17 DEF Held
<1>19. put(a, id, response, size) = evict(c)
  BY <1>1, <1>3, <1>6, <1>8, <1>16 DEF put
<1>20. PICK b : b = evict(c)
  OBVIOUS
<1>21. /\ Held(b) /\ Bounded(b.entries) /\ SameBudget(b, c) /\ c.evicted \subseteq b.evicted
       /\ \A i \in DOMAIN u : u[i].id \in b.evicted \/ \E j \in DOMAIN b.entries : b.entries[j] = u[i]
       /\ \E j \in DOMAIN b.entries : b.entries[j] = u[Len(u)]
  BY <1>17, <1>18, <1>20, EvictKeeps
<1>22. SameBudget(b, a) /\ a.evicted \subseteq b.evicted
  BY <1>9, <1>17, <1>21 DEF SameBudget
<1>23. ASSUME NEW i \in DOMAIN s, live(s[i], a.now), s[i].id # id
       PROVE  s[i].id \in b.evicted \/ \E j \in DOMAIN b.entries : b.entries[j] = s[i]
  <2>1. s[i].id \notin stale \cup {id}
    BY <1>1, <1>7, <1>23 DEF Held
  <2>2. PICK j \in DOMAIN t : t[j] = s[i]
    BY <1>9, <2>1 DEF LeftOf
  <2>3. j \in DOMAIN u /\ u[j] = s[i]
    BY <1>13, <2>2
  <2> QED BY <1>21, <2>3
<1>24. \E j \in DOMAIN b.entries : b.entries[j].id = id
  BY <1>5, <1>13, <1>21
<1> QED BY <1>1, <1>19, <1>20, <1>21, <1>22, <1>23, <1>24

-----------------------------------------------------------------------------
(* The budget.                                                               *)

BudgetInv(a) ==
    /\ a.delivered <= Limit
    /\ a.exhausted <=> a.consumed > Limit
    /\ ~a.exhausted => a.delivered = a.consumed
    /\ \E s \in Sizes : a.consumed <= Limit + s

(* charge: within the limit all that was consumed is delivered; the response *)
(* that trips it is not.                                                     *)
LEMMA ChargeKeeps ==
    ASSUME NEW a, a \in Attempts, BudgetInv(a), NEW id \in Ids, NEW response \in Nat,
           NEW tokens \in Sizes
    PROVE  LET b == charge(a, id, response, tokens)
           IN  /\ b \in Attempts /\ BudgetInv(b)
               /\ b.entries = a.entries /\ b.total = a.total /\ b.evicted = a.evicted
               /\ b.now = a.now /\ b.facade = a.facade
               /\ \A h \in b.heard : h \in a.heard \/ (h.id = id /\ h.response = response)
<1>1. /\ a.consumed \in Nat /\ a.delivered \in Nat /\ a.exhausted \in BOOLEAN
      /\ a.heard \in SUBSET [id : Ids, response : Nat]
  BY DEF Attempts
<1>2. tokens \in Nat /\ tokens # 0 /\ Limit \in Nat
  BY ModelCallAssumption
<1>3. CASE a.exhausted
  BY <1>3 DEF charge
<1>4. CASE ~a.exhausted /\ a.consumed + tokens > Limit
  <2>1. PICK b, n : b = charge(a, id, response, tokens) /\ n = a.consumed + tokens
    OBVIOUS
  <2>2. b = [a EXCEPT !.consumed = n, !.exhausted = TRUE]
    BY <1>4, <2>1 DEF charge, Attempts
  <2>3. n \in Nat /\ n > Limit /\ n <= Limit + tokens
    BY <1>1, <1>2, <1>4, <2>1 DEF BudgetInv
  <2>4. /\ b \in Attempts /\ b.consumed = n /\ b.exhausted /\ b.delivered = a.delivered
        /\ b.entries = a.entries /\ b.total = a.total /\ b.evicted = a.evicted
        /\ b.now = a.now /\ b.facade = a.facade /\ b.heard = a.heard
    BY <2>2, <2>3 DEF Attempts
  <2>5. BudgetInv(b)
    BY <2>3, <2>4 DEF BudgetInv
  <2> QED BY <2>1, <2>4, <2>5
<1>5. CASE ~a.exhausted /\ ~(a.consumed + tokens > Limit)
  <2>1. PICK b, n, m, H : /\ b = charge(a, id, response, tokens) /\ n = a.consumed + tokens
                          /\ m = a.delivered + tokens
                          /\ H = a.heard \cup {[id |-> id, response |-> response]}
    OBVIOUS
  <2>2. b = [a EXCEPT !.consumed = n, !.delivered = m, !.heard = H]
    BY <1>5, <2>1 DEF charge, Attempts
  <2>3. n \in Nat /\ m \in Nat /\ n <= Limit /\ m = n /\ H \in SUBSET [id : Ids, response : Nat]
    BY <1>1, <1>2, <1>5, <2>1 DEF BudgetInv
  <2>4. /\ b \in Attempts /\ b.consumed = n /\ b.delivered = m /\ b.exhausted = a.exhausted
        /\ b.entries = a.entries /\ b.total = a.total /\ b.evicted = a.evicted
        /\ b.now = a.now /\ b.facade = a.facade /\ b.heard = H
    BY <2>2, <2>3 DEF Attempts
  <2>5. BudgetInv(b)
    BY <1>2, <1>5, <2>3, <2>4 DEF BudgetInv
  <2>6. \A h \in b.heard : h \in a.heard \/ (h.id = id /\ h.response = response)
    BY <2>1, <2>4
  <2> QED BY <2>1, <2>4, <2>5, <2>6
<1> QED BY <1>3, <1>4, <1>5

-----------------------------------------------------------------------------
(* The invariant.                                                            *)

SoundBlob(es) ==
    Distinct(es) /\ Bounded(es) /\ \A i \in DOMAIN es : Fits(es[i])

(* An attempt beside what its key has committed.                             *)
Told(a, es) ==
    /\ \A i \in DOMAIN es : live(es[i], a.now) =>
          es[i].id \in a.evicted \/ \E j \in DOMAIN a.entries : a.entries[j] = es[i]
    /\ \A h \in a.heard, i \in DOMAIN es : live(es[i], a.now) /\ h.id = es[i].id =>
          h.response = es[i].response \/ es[i].id \in a.evicted

AttemptAgrees(a, es) == Held(a) /\ Bounded(a.entries) /\ Told(a, es) /\ BudgetInv(a)

(* A call is under way only for what the committed blob cannot answer.       *)
Unanswered(a, es, id) ==
    \A i \in DOMAIN es : live(es[i], a.now) /\ es[i].id = id => id \in a.evicted

CallsInv ==
    /\ TypeOK
    /\ \A k \in Keys : SoundBlob(blob[k])
    /\ \A k \in Keys : \A a \in act[k] : AttemptAgrees(a, blob[k])
    /\ \A c \in calls : \A a \in act[c.k] : Unanswered(a, blob[c.k], c.id)

(* Looking a request up leaves an attempt in agreement with its blob.        *)
LEMMA GetToldKeeps ==
    ASSUME NEW a, NEW es, AttemptAgrees(a, es), NEW id
    PROVE  /\ AttemptAgrees(get(a, id), es)
           /\ \A other : Unanswered(a, es, other) => Unanswered(get(a, id), es, other)
<1>1. PICK b : b = get(a, id)
  OBVIOUS
<1>2. /\ Held(b) /\ Bounded(b.entries) /\ SameBudget(b, a) /\ b.evicted = a.evicted
      /\ KeepsLive(b.entries, a.entries, a.now)
  BY <1>1, GetKeeps DEF AttemptAgrees
<1>3. BudgetInv(b)
  BY <1>2 DEF AttemptAgrees, BudgetInv, SameBudget
<1>4. Told(b, es)
  BY <1>2 DEF AttemptAgrees, Told, SameBudget, KeepsLive
<1>5. \A other : Unanswered(a, es, other) => Unanswered(b, es, other)
  BY <1>2 DEF Unanswered, SameBudget
<1> QED BY <1>1, <1>2, <1>3, <1>4, <1>5 DEF AttemptAgrees

(* What the replay cache answers is what the committed blob has.             *)
LEMMA HitKeeps ==
    ASSUME NEW a, NEW es, AttemptAgrees(a, es), NEW id \in Ids, NEW e \in live_hit(a, id)
    PROVE  /\ AttemptAgrees(charge(get(a, id), id, e.response, e.size), es)
           /\ \A other : Unanswered(a, es, other) =>
                 Unanswered(charge(get(a, id), id, e.response, e.size), es, other)
<1>1. PICK b, c : b = get(a, id) /\ c = charge(b, id, e.response, e.size)
  OBVIOUS
<1>2. /\ AttemptAgrees(b, es) /\ SameBudget(b, a) /\ b.evicted = a.evicted
      /\ \A other : Unanswered(a, es, other) => Unanswered(b, es, other)
  BY <1>1, GetToldKeeps, GetKeeps DEF AttemptAgrees
<1>3. PICK i \in DOMAIN a.entries : e = a.entries[i] /\ e.id = id /\ ~e.digest_only
  BY DEF live_hit, ToSet
<1>4. e \in Entries /\ e.size \in Sizes /\ e.response \in Nat
  <2>1. a.entries \in Seq(Entries) /\ Fits(a.entries[i])
    BY DEF AttemptAgrees, Held, Attempts
  <2>2. e \in Entries
    BY <1>3, <2>1
  <2> QED BY <1>3, <2>1, <2>2 DEF Fits, Entries
<1>5. /\ c \in Attempts /\ BudgetInv(c)
      /\ c.entries = b.entries /\ c.total = b.total /\ c.evicted = b.evicted /\ c.now = b.now
      /\ \A h \in c.heard : h \in b.heard \/ (h.id = id /\ h.response = e.response)
  BY <1>1, <1>2, <1>4, ChargeKeeps DEF AttemptAgrees, Held
<1>6. \A n \in DOMAIN es : live(es[n], a.now) /\ es[n].id = id =>
          es[n].response = e.response \/ es[n].id \in a.evicted
  <2>1. \A n \in DOMAIN es : live(es[n], a.now) =>
          es[n].id \in a.evicted \/ \E j \in DOMAIN a.entries : a.entries[j] = es[n]
    BY DEF AttemptAgrees, Told
  <2>2. Distinct(a.entries)
    BY DEF AttemptAgrees, Held
  <2> QED BY <1>3, <2>1, <2>2 DEF Distinct
<1>7. Held(c) /\ Bounded(c.entries)
  BY <1>2, <1>5 DEF AttemptAgrees, Held
<1>8. Told(c, es)
  <2>1. a.now = c.now /\ a.evicted = c.evicted
    BY <1>2, <1>5 DEF SameBudget
  <2> QED BY <1>2, <1>5, <1>6, <2>1 DEF AttemptAgrees, Told
<1>9. \A other : Unanswered(a, es, other) => Unanswered(c, es, other)
  BY <1>2, <1>5 DEF Unanswered
<1> QED BY <1>1, <1>5, <1>7, <1>8, <1>9 DEF AttemptAgrees

(* An answer of the provider, staged and charged.                            *)
LEMMA AnswerKeeps ==
    ASSUME NEW a, NEW es, AttemptAgrees(a, es), NEW id \in Ids, NEW response \in Nat,
           NEW size \in Sizes, Unanswered(a, es, id)
    PROVE  LET b == charge(put(a, id, response, size), id, response, size)
           IN  /\ AttemptAgrees(b, es)
               /\ \A other : Unanswered(a, es, other) => Unanswered(b, es, other)
               /\ \E j \in DOMAIN b.entries : b.entries[j].id = id
<1>1. PICK p, b : p = put(a, id, response, size) /\ b = charge(p, id, response, size)
  OBVIOUS
<1>2. /\ Held(p) /\ Bounded(p.entries) /\ SameBudget(p, a)
      /\ a.evicted \subseteq p.evicted
      /\ \A i \in DOMAIN a.entries :
            live(a.entries[i], a.now) /\ a.entries[i].id # id =>
                \/ a.entries[i].id \in p.evicted
                \/ \E j \in DOMAIN p.entries : p.entries[j] = a.entries[i]
      /\ \E j \in DOMAIN p.entries : p.entries[j].id = id
  BY <1>1, PutKeeps DEF AttemptAgrees
<1>3. p \in Attempts /\ BudgetInv(p)
  BY <1>2 DEF AttemptAgrees, BudgetInv, SameBudget, Held
<1>4. /\ b \in Attempts /\ BudgetInv(b)
      /\ b.entries = p.entries /\ b.total = p.total /\ b.evicted = p.evicted /\ b.now = p.now
      /\ \A h \in b.heard : h \in p.heard \/ (h.id = id /\ h.response = response)
  BY <1>1, <1>3, ChargeKeeps
<1>5. Held(b) /\ Bounded(b.entries)
  BY <1>2, <1>4 DEF Held
<1>6. b.now = a.now /\ p.heard = a.heard /\ a.evicted \subseteq b.evicted
  BY <1>2, <1>4 DEF SameBudget
<1>7. ASSUME NEW i \in DOMAIN es, live(es[i], a.now)
      PROVE  es[i].id \in b.evicted \/ \E j \in DOMAIN b.entries : b.entries[j] = es[i]
  <2>1. CASE es[i].id = id
    BY <1>6, <1>7, <2>1 DEF Unanswered
  <2>2. CASE es[i].id # id
    <3>1. es[i].id \in a.evicted \/ \E j \in DOMAIN a.entries : a.entries[j] = es[i]
      BY <1>7 DEF AttemptAgrees, Told
    <3> QED BY <1>2, <1>4, <1>6, <1>7, <2>2, <3>1
  <2> QED BY <2>1, <2>2
<1>8. ASSUME NEW h \in b.heard, NEW i \in DOMAIN es, live(es[i], a.now), h.id = es[i].id
      PROVE  h.response = es[i].response \/ es[i].id \in b.evicted
  <2>1. CASE h \in a.heard
    BY <1>6, <1>8, <2>1 DEF AttemptAgrees, Told
  <2>2. CASE h.id = id
    BY <1>6, <1>8, <2>2 DEF Unanswered
  <2> QED BY <1>4, <1>6, <2>1, <2>2
<1>9. Told(b, es)
  BY <1>6, <1>7, <1>8 DEF Told
<1>10. \A other : Unanswered(a, es, other) => Unanswered(b, es, other)
  BY <1>6 DEF Unanswered
<1> QED BY <1>1, <1>2, <1>4, <1>5, <1>9, <1>10 DEF AttemptAgrees

-----------------------------------------------------------------------------
(* The steps.                                                                *)

Breakers == [state : {"closed", "open", "half_open"}, failures : Nat, opened_at : Nat]
CallRecords == [k : Keys, id : Ids, n : Nat, attempt : 1..MaxAttempts]

LEMMA BreakerTypes ==
    ASSUME breaker \in Breakers, NEW time \in Nat
    PROVE  before_call \in Breakers /\ record_success \in Breakers
           /\ record_failure(time) \in Breakers
<1>1. before_call \in Breakers
  <2>1. PICK st : st = IF breaker.state = "open" THEN "half_open" ELSE breaker.state
    OBVIOUS
  <2>2. before_call = [breaker EXCEPT !.state = st] /\ st \in {"closed", "open", "half_open"}
    BY <2>1 DEF before_call, Breakers
  <2> QED BY <2>2 DEF Breakers
<1>2. record_success \in Breakers
  BY DEF record_success, Breakers
<1>3. record_failure(time) \in Breakers
  <2>1. breaker.failures \in Nat /\ breaker.failures + 1 \in Nat
    BY DEF Breakers
  <2>2. CASE breaker.state = "half_open"
    BY <2>2 DEF record_failure, Breakers
  <2>3. CASE breaker.state # "half_open" /\ breaker.failures + 1 >= Threshold
    BY <2>1, <2>3 DEF record_failure, Breakers
  <2>4. CASE breaker.state # "half_open" /\ ~(breaker.failures + 1 >= Threshold)
    <3>1. PICK n \in Nat : n = breaker.failures + 1
      BY <2>1
    <3>2. record_failure(time) = [breaker EXCEPT !.failures = n]
      BY <2>4, <3>1 DEF record_failure
    <3> QED BY <3>2 DEF Breakers
  <2> QED BY <2>2, <2>3, <2>4
<1> QED BY <1>1, <1>2, <1>3

(* A step of one key's attempt, and of the calls under way.                  *)
LEMMA KeyStepKeeps ==
    ASSUME CallsInv, NEW k \in Keys, NEW S \in SUBSET Attempts,
           act' = [act EXCEPT ![k] = S], blob' = blob, seq' = seq,
           \A a \in S : AttemptAgrees(a, blob[k]),
           calls' \in SUBSET CallRecords,
           \A c \in calls' : c.k # k => c \in calls,
           \A c \in calls' : c.k = k => S # {} /\ \A a \in S : Unanswered(a, blob[k], c.id),
           breaker' \in Breakers, clock' \in Nat, responses' \in Nat, streak' \in Nat
    PROVE  CallsInv'
<1>1. act \in [Keys -> SUBSET Attempts] /\ act' \in [Keys -> SUBSET Attempts]
  BY DEF CallsInv, TypeOK
<1>2. act'[k] = S /\ \A o \in Keys : o # k => act'[o] = act[o]
  BY <1>1
<1>3. \A c \in calls' : act'[c.k] # {}
  BY <1>2 DEF CallsInv, TypeOK, CallRecords
<1>4. TypeOK'
  BY <1>1, <1>3 DEF CallsInv, TypeOK, Breakers, CallRecords
<1>5. \A o \in Keys : \A a \in act'[o] : AttemptAgrees(a, blob[o])
  BY <1>2 DEF CallsInv
<1>6. \A c \in calls' : \A a \in act'[c.k] : Unanswered(a, blob[c.k], c.id)
  BY <1>2 DEF CallsInv, CallRecords
<1>7. \A o \in Keys : SoundBlob(blob[o])
  BY DEF CallsInv
<1>8. /\ (\A o \in Keys : SoundBlob(blob[o]))'
      /\ (\A o \in Keys : \A a \in act[o] : AttemptAgrees(a, blob[o]))'
      /\ (\A c \in calls : \A a \in act[c.k] : Unanswered(a, blob[c.k], c.id))'
  BY <1>5, <1>6, <1>7
<1> QED BY <1>4, <1>8 DEF CallsInv

LEMMA CallsStart == Init => CallsInv
<1>. SUFFICES ASSUME Init PROVE CallsInv
  OBVIOUS
<1>1. \A k \in Keys : blob[k] = <<>> /\ act[k] = {}
  BY DEF Init
<1>2. size_of(<<>>) = 0
  <2>1. PICK w : w = [i \in DOMAIN <<>> |-> <<>>[i].size]
    OBVIOUS
  <2>2. DOMAIN <<>> = {}
    OBVIOUS
  <2>3. SumFunctionOnSet(w, {}) = 0
    BY SumOfNone
  <2> QED BY <2>1, <2>2, <2>3 DEF size_of, size_at
<1>3. SoundBlob(<<>>)
  BY <1>2, ModelCallAssumption DEF SoundBlob, Distinct, Bounded
<1>4. TypeOK
  <2>1. <<>> \in Seq(Entries)
    OBVIOUS
  <2>2. breaker \in Breakers
    BY DEF Init, Breakers
  <2> QED BY <2>1, <2>2 DEF Init, TypeOK, Breakers
<1> QED BY <1>1, <1>3, <1>4 DEF CallsInv, Init

LEMMA BeginKeeps == ASSUME NEW k \in Keys PROVE CallsInv /\ Begin(k) => CallsInv'
<1>. SUFFICES ASSUME CallsInv, Begin(k) PROVE CallsInv'
  OBVIOUS
<1>1. PICK es : es = blob[k]
  OBVIOUS
<1>2. es \in Seq(Entries) /\ SoundBlob(es)
  BY <1>1 DEF CallsInv, TypeOK
<1>3. PICK time \in 1..clock, facade \in BOOLEAN :
        act' = [act EXCEPT ![k] =
                   {[now |-> time, facade |-> facade, entries |-> es,
                     total |-> size_of(es), consumed |-> 0, exhausted |-> FALSE,
                     delivered |-> 0, heard |-> {}, evicted |-> {}]}]
  BY <1>1 DEF Begin
<1>4. PICK a : a = [now |-> time, facade |-> facade, entries |-> es,
                    total |-> size_of(es), consumed |-> 0, exhausted |-> FALSE,
                    delivered |-> 0, heard |-> {}, evicted |-> {}]
  OBVIOUS
<1>5. a \in Attempts /\ a.entries = es /\ a.total = size_of(es) /\ a.heard = {}
      /\ a.consumed = 0 /\ a.delivered = 0 /\ ~a.exhausted
  <2>1. size_of(es) \in Nat
    <3>1. {} \in SUBSET (DOMAIN es)
      OBVIOUS
    <3> QED BY <1>2, <3>1, SizesAdd
  <2>2. time \in Nat
    BY DEF CallsInv, TypeOK
  <2> QED BY <1>2, <1>4, <2>1, <2>2 DEF Attempts
<1>6. BudgetInv(a)
  <2>1. PICK s \in Sizes : TRUE
    BY ModelCallAssumption
  <2>2. s \in Nat /\ Limit \in Nat
    BY ModelCallAssumption
  <2> QED BY <1>5, <2>2 DEF BudgetInv
<1>7. AttemptAgrees(a, es)
  BY <1>2, <1>5, <1>6 DEF AttemptAgrees, Held, Told, SoundBlob
<1>8. \A c \in calls' : c.k # k
  BY DEF Begin, CallsInv, TypeOK
<1> QED
  <2>1. act' = [act EXCEPT ![k] = {a}] /\ {a} \in SUBSET Attempts
    BY <1>3, <1>4, <1>5
  <2>2. /\ blob' = blob /\ seq' = seq /\ calls' = calls /\ calls' \in SUBSET CallRecords
        /\ breaker' \in Breakers /\ clock' \in Nat /\ responses' \in Nat /\ streak' \in Nat
    BY DEF Begin, CallsInv, TypeOK, Breakers, CallRecords
  <2> QED BY <1>1, <1>7, <1>8, <2>1, <2>2, KeyStepKeeps

LEMMA CallHitKeeps ==
    ASSUME NEW k \in Keys, NEW r \in Requests PROVE CallsInv /\ Hit(k, r) => CallsInv'
<1>. SUFFICES ASSUME CallsInv, Hit(k, r) PROVE CallsInv'
  OBVIOUS
<1>1. PICK id : id = compute_cache_key(r, seq[k])
  OBVIOUS
<1>2. id \in Ids
  BY <1>1 DEF compute_cache_key, Ids, CallsInv, TypeOK
<1>3. PICK a \in act[k] : \E e \in live_hit(a, id) :
        act' = [act EXCEPT ![k] = {charge(get(a, id), id, e.response, e.size)}]
  BY <1>1 DEF Hit
<1>0. PICK e \in live_hit(a, id) :
        act' = [act EXCEPT ![k] = {charge(get(a, id), id, e.response, e.size)}]
  BY <1>3
<1>4. AttemptAgrees(a, blob[k])
  BY <1>3 DEF CallsInv
<1>5. PICK b : b = charge(get(a, id), id, e.response, e.size)
  OBVIOUS
<1>6. /\ AttemptAgrees(b, blob[k])
      /\ \A other : Unanswered(a, blob[k], other) => Unanswered(b, blob[k], other)
  <2>1. PICK es : es = blob[k]
    OBVIOUS
  <2>2. /\ AttemptAgrees(b, es)
        /\ \A other : Unanswered(a, es, other) => Unanswered(b, es, other)
    BY <1>2, <1>4, <1>5, <2>1, HitKeeps
  <2> QED BY <2>1, <2>2
<1> QED
  <2>1. act' = [act EXCEPT ![k] = {b}] /\ {b} \in SUBSET Attempts
    BY <1>0, <1>5, <1>6 DEF AttemptAgrees, Held
  <2>2. /\ blob' = blob /\ seq' = seq /\ calls' = calls /\ calls' \in SUBSET CallRecords
        /\ breaker' \in Breakers /\ clock' \in Nat /\ responses' \in Nat /\ streak' \in Nat
    BY DEF Hit, CallsInv, TypeOK, Breakers, CallRecords
  <2>3. \A c \in calls' : c.k = k => Unanswered(b, blob[k], c.id)
    BY <1>3, <1>6, <2>2 DEF CallsInv
  <2>4. PICK S \in SUBSET Attempts : S = {b}
    BY <2>1
  <2>5. /\ act' = [act EXCEPT ![k] = S] /\ \A x \in S : AttemptAgrees(x, blob[k])
        /\ \A c \in calls' : c.k = k => S # {} /\ \A x \in S : Unanswered(x, blob[k], c.id)
    BY <1>6, <2>1, <2>3, <2>4
  <2> QED BY <2>2, <2>5, KeyStepKeeps

LEMMA CallMissKeeps ==
    ASSUME NEW k \in Keys, NEW r \in Requests PROVE CallsInv /\ Miss(k, r) => CallsInv'
<1>. SUFFICES ASSUME CallsInv, Miss(k, r) PROVE CallsInv'
  OBVIOUS
<1>1. PICK id : id = compute_cache_key(r, seq[k])
  OBVIOUS
<1>2. id \in Ids
  BY <1>1 DEF compute_cache_key, Ids, CallsInv, TypeOK
<1>3. PICK a \in act[k] :
        /\ live_hit(a, id) = {}
        /\ act' = [act EXCEPT ![k] = {get(a, id)}]
        /\ \/ UNCHANGED <<calls, breaker>>
           \/ \E n \in 1..MaxCalls :
                /\ calls' = calls \cup {[k |-> k, id |-> id, n |-> n, attempt |-> 1]}
                /\ breaker' = IF a.facade THEN before_call ELSE breaker
        /\ UNCHANGED <<blob, seq, clock, responses, streak>>
  <2>1. PICK free : free = 1..MaxCalls \ {c.n : c \in calls}
    OBVIOUS
  <2>2. PICK a \in act[k] :
          /\ live_hit(a, id) = {}
          /\ act' = [act EXCEPT ![k] = {get(a, id)}]
          /\ \/ UNCHANGED <<calls, breaker>>
             \/ /\ free # {}
                /\ calls' = calls \cup {[k |-> k, id |-> id, n |-> Min(free), attempt |-> 1]}
                /\ breaker' = IF a.facade THEN before_call ELSE breaker
          /\ UNCHANGED <<blob, seq, clock, responses, streak>>
    BY <1>1, <2>1 DEF Miss
  <2>3. free # {} => Min(free) \in 1..MaxCalls
    <3>1. free \in SUBSET Nat /\ free \in SUBSET (1..MaxCalls)
      BY <2>1
    <3>2. free # {} => \E m \in free : \A x \in free : m <= x
      BY <3>1, LeastNumber
    <3> QED BY <3>1, <3>2 DEF Min
  <2>4. PICK m : m = Min(free)
    OBVIOUS
  <2> QED BY <2>2, <2>3, <2>4
<1>4. AttemptAgrees(a, blob[k])
  BY <1>3 DEF CallsInv
<1>5. PICK b : b = get(a, id)
  OBVIOUS
<1>6. PICK es : es = blob[k]
  OBVIOUS
<1>7. /\ AttemptAgrees(b, es)
      /\ \A other : Unanswered(a, es, other) => Unanswered(b, es, other)
  BY <1>4, <1>5, <1>6, GetToldKeeps
<1>8. Unanswered(b, es, id)
  <2>1. Unanswered(a, es, id)
    BY <1>3, <1>4, <1>6 DEF AttemptAgrees, Told, Unanswered, live_hit, live, ToSet
  <2> QED BY <1>7, <2>1
<1>9. PICK S \in SUBSET Attempts : S = {b}
  BY <1>7 DEF AttemptAgrees, Held
<1>10. /\ blob' = blob /\ seq' = seq /\ calls \in SUBSET CallRecords
       /\ breaker \in Breakers /\ clock' \in Nat /\ responses' \in Nat /\ streak' \in Nat
  BY <1>3 DEF CallsInv, TypeOK, Breakers, CallRecords
<1>11. breaker' \in Breakers
  <2>1. before_call \in Breakers
    BY <1>10, BreakerTypes
  <2> QED BY <1>3, <1>10, <2>1
<1>12. /\ calls' \in SUBSET CallRecords
       /\ \A c \in calls' : c \in calls \/ (c.k = k /\ c.id = id)
  <2>1. ASSUME NEW n \in 1..MaxCalls
        PROVE  [k |-> k, id |-> id, n |-> n, attempt |-> 1] \in CallRecords
    BY <1>2, ModelCallAssumption DEF CallRecords
  <2> QED BY <1>3, <1>10, <2>1
<1>13. \A c \in calls' : c.k = k => Unanswered(b, blob[k], c.id)
  <2>1. \A c \in calls : c.k = k => Unanswered(a, es, c.id)
    BY <1>3, <1>6 DEF CallsInv
  <2> QED BY <1>6, <1>7, <1>8, <1>12, <2>1
<1> QED
  <2>1. /\ act' = [act EXCEPT ![k] = S] /\ \A x \in S : AttemptAgrees(x, blob[k])
        /\ \A c \in calls' : c.k = k => S # {} /\ \A x \in S : Unanswered(x, blob[k], c.id)
        /\ \A c \in calls' : c.k # k => c \in calls
    BY <1>3, <1>5, <1>6, <1>7, <1>9, <1>12, <1>13
  <2> QED BY <1>10, <1>11, <1>12, <2>1, KeyStepKeeps

(* The answer of call c, by the attempt it finds.                            *)
LEMMA RespondStages ==
    ASSUME CallsInv, NEW c \in calls, Respond(c)
    PROVE  \E a \in act[c.k], b \in Attempts :
              /\ AttemptAgrees(b, blob[c.k])
              /\ \A other : Unanswered(a, blob[c.k], other) => Unanswered(b, blob[c.k], other)
              /\ \E j \in DOMAIN b.entries : b.entries[j].id = c.id
              /\ act' = [act EXCEPT ![c.k] = {b}]
              /\ calls' = calls \ {c} /\ responses' = responses + 1
              /\ breaker' = (IF a.facade THEN record_success ELSE breaker)
              /\ streak' = (IF a.facade THEN 0 ELSE streak)
              /\ UNCHANGED <<blob, seq, clock>>
<1>1. PICK k, id, es : k = c.k /\ id = c.id /\ es = blob[c.k]
  OBVIOUS
<1>2. k \in Keys /\ id \in Ids /\ responses \in Nat
  BY <1>1 DEF CallsInv, TypeOK
<1>3. PICK a \in act[k], size \in Sizes :
        /\ responses' = responses + 1
        /\ calls' = calls \ {c}
        /\ breaker' = (IF a.facade THEN record_success ELSE breaker)
        /\ streak' = (IF a.facade THEN 0 ELSE streak)
        /\ act' = [act EXCEPT ![k] =
                     {charge(put(a, id, responses', size), id, responses', size)}]
        /\ UNCHANGED <<blob, seq, clock>>
  BY <1>1 DEF Respond
<1>4. AttemptAgrees(a, es) /\ Unanswered(a, es, id)
  BY <1>1, <1>2, <1>3 DEF CallsInv
<1>5. PICK n, b : n = responses' /\ b = charge(put(a, id, responses', size), id, responses', size)
  OBVIOUS
<1>6. n \in Nat
  BY <1>2, <1>3, <1>5
<1>7. /\ AttemptAgrees(b, es)
      /\ \A other : Unanswered(a, es, other) => Unanswered(b, es, other)
      /\ \E j \in DOMAIN b.entries : b.entries[j].id = id
  BY <1>2, <1>3, <1>4, <1>5, <1>6, AnswerKeeps
<1>8. b \in Attempts
  BY <1>7 DEF AttemptAgrees, Held
<1> QED BY <1>1, <1>3, <1>5, <1>7, <1>8

LEMMA RespondKeeps == ASSUME NEW c \in calls PROVE CallsInv /\ Respond(c) => CallsInv'
<1>. SUFFICES ASSUME CallsInv, Respond(c) PROVE CallsInv'
  OBVIOUS
<1>1. PICK k : k = c.k
  OBVIOUS
<1>2. PICK a \in act[k], b \in Attempts :
         /\ AttemptAgrees(b, blob[k])
         /\ \A other : Unanswered(a, blob[k], other) => Unanswered(b, blob[k], other)
         /\ act' = [act EXCEPT ![k] = {b}]
         /\ calls' = calls \ {c} /\ responses' = responses + 1
         /\ breaker' = (IF a.facade THEN record_success ELSE breaker)
         /\ streak' = (IF a.facade THEN 0 ELSE streak)
         /\ UNCHANGED <<blob, seq, clock>>
  BY <1>1, RespondStages
<1>3. PICK S \in SUBSET Attempts : S = {b}
  BY <1>2
<1>4. k \in Keys /\ calls' \in SUBSET CallRecords /\ breaker \in Breakers
      /\ clock' \in Nat /\ responses' \in Nat /\ streak' \in Nat
  BY <1>1, <1>2 DEF CallsInv, TypeOK, Breakers, CallRecords
<1>5. breaker' \in Breakers
  <2>1. record_success \in Breakers
    BY DEF record_success, Breakers
  <2> QED BY <1>2, <1>4, <2>1
<1>6. \A o \in calls : o.k = k => Unanswered(a, blob[k], o.id)
  BY <1>2 DEF CallsInv
<1>7. /\ act' = [act EXCEPT ![k] = S] /\ \A x \in S : AttemptAgrees(x, blob[k])
      /\ \A o \in calls' : o.k = k => S # {} /\ \A x \in S : Unanswered(x, blob[k], o.id)
      /\ \A o \in calls' : o.k # k => o \in calls
      /\ blob' = blob /\ seq' = seq
  BY <1>2, <1>3, <1>6
<1> QED BY <1>4, <1>5, <1>7, KeyStepKeeps

LEMMA AttemptFailsKeeps == ASSUME NEW c \in calls PROVE CallsInv /\ AttemptFails(c) => CallsInv'
<1>. SUFFICES ASSUME CallsInv, AttemptFails(c) PROVE CallsInv'
  OBVIOUS
<1>1. c \in CallRecords /\ calls \in SUBSET CallRecords /\ breaker \in Breakers /\ streak \in Nat
      /\ act \in [Keys -> SUBSET Attempts] /\ c.k \in Keys
  BY DEF CallsInv, TypeOK, Breakers, CallRecords
<1>2. PICK a \in act[c.k] :
        /\ \/ /\ a.facade /\ c.attempt < MaxAttempts
              /\ calls' = (calls \ {c}) \cup {[c EXCEPT !.attempt = @ + 1]}
              /\ UNCHANGED <<breaker, streak>>
           \/ /\ calls' = calls \ {c}
              /\ breaker' = record_failure(a.now)
              /\ streak' = streak + 1
           \/ /\ calls' = calls \ {c}
              /\ UNCHANGED <<breaker, streak>>
        /\ UNCHANGED <<blob, seq, act, clock, responses>>
  BY DEF AttemptFails
<1>3. a.now \in Nat
  BY <1>1, <1>2 DEF Attempts
<1>4. breaker' \in Breakers /\ streak' \in Nat
  BY <1>1, <1>2, <1>3, BreakerTypes
<1>5. c.attempt < MaxAttempts =>
        LET d == [c EXCEPT !.attempt = @ + 1] IN d \in CallRecords /\ d.k = c.k /\ d.id = c.id
  <2>1. ASSUME c.attempt < MaxAttempts, NEW n, n = c.attempt + 1,
               NEW d, d = [c EXCEPT !.attempt = n]
        PROVE  d \in CallRecords /\ d.k = c.k /\ d.id = c.id
    <3>1. n \in 1..MaxAttempts
      BY <1>1, <2>1, ModelCallAssumption DEF CallRecords
    <3> QED BY <1>1, <2>1, <3>1 DEF CallRecords
  <2> QED BY <2>1
<1>6. /\ calls' \in SUBSET CallRecords
      /\ \A o \in calls' : \E x \in calls : o.k = x.k /\ o.id = x.id /\ (o.k # c.k => o = x)
  BY <1>1, <1>2, <1>5
<1>7. \A o \in calls' : act[o.k] # {} /\ \A x \in act[o.k] : Unanswered(x, blob[o.k], o.id)
  BY <1>6 DEF CallsInv, TypeOK
<1>8. PICK k, S : k = c.k /\ S = act[c.k]
  OBVIOUS
<1>9. /\ k \in Keys /\ S \in SUBSET Attempts /\ act' = [act EXCEPT ![k] = S]
      /\ blob' = blob /\ seq' = seq /\ clock' \in Nat /\ responses' \in Nat
  BY <1>1, <1>2, <1>8 DEF CallsInv, TypeOK
<1>10. /\ \A x \in S : AttemptAgrees(x, blob[k])
       /\ \A o \in calls' : o.k = k => S # {} /\ \A x \in S : Unanswered(x, blob[k], o.id)
       /\ \A o \in calls' : o.k # k => o \in calls
  BY <1>1, <1>6, <1>7, <1>8 DEF CallsInv
<1> QED BY <1>4, <1>6, <1>9, <1>10, KeyStepKeeps

LEMMA CallCommitKeeps == ASSUME NEW k \in Keys PROVE CallsInv /\ Commit(k) => CallsInv'
<1>. SUFFICES ASSUME CallsInv, Commit(k) PROVE CallsInv'
  OBVIOUS
<1>1. PICK a \in act[k] : blob' = [blob EXCEPT ![k] = a.entries]
  BY DEF Commit
<1>2. PICK completed \in {0, 1} : seq' = [seq EXCEPT ![k] = @ + completed]
  BY DEF Commit
<1>3. /\ act' = [act EXCEPT ![k] = {}] /\ \A c \in calls : c.k # k
      /\ UNCHANGED <<calls, breaker, clock, responses, streak>>
  BY DEF Commit
<1>4. AttemptAgrees(a, blob[k])
  BY <1>1 DEF CallsInv
<1>5. a.entries \in Seq(Entries) /\ SoundBlob(a.entries)
  BY <1>4 DEF AttemptAgrees, Held, Attempts, SoundBlob
<1>6. /\ blob \in [Keys -> Seq(Entries)] /\ act \in [Keys -> SUBSET Attempts]
      /\ seq \in [Keys -> Nat]
  BY DEF CallsInv, TypeOK
<1>7. /\ blob' \in [Keys -> Seq(Entries)] /\ act' \in [Keys -> SUBSET Attempts]
      /\ seq' \in [Keys -> Nat]
      /\ blob'[k] = a.entries /\ act'[k] = {}
      /\ \A o \in Keys : o # k => blob'[o] = blob[o] /\ act'[o] = act[o]
  <2>1. seq[k] + completed \in Nat
    BY <1>6
  <2> QED BY <1>1, <1>2, <1>3, <1>5, <1>6, <2>1
<1>8. TypeOK'
  BY <1>3, <1>7 DEF CallsInv, TypeOK
<1>9. \A o \in Keys : SoundBlob(blob'[o])
  BY <1>5, <1>7 DEF CallsInv
<1>10. \A o \in Keys : \A x \in act'[o] : AttemptAgrees(x, blob'[o])
  BY <1>7 DEF CallsInv
<1>11. \A c \in calls' : \A x \in act'[c.k] : Unanswered(x, blob'[c.k], c.id)
  BY <1>3, <1>7 DEF CallsInv, TypeOK
<1>12. /\ (\A o \in Keys : SoundBlob(blob[o]))'
       /\ (\A o \in Keys : \A x \in act[o] : AttemptAgrees(x, blob[o]))'
       /\ (\A c \in calls : \A x \in act[c.k] : Unanswered(x, blob[c.k], c.id))'
  BY <1>9, <1>10, <1>11
<1> QED BY <1>8, <1>12 DEF CallsInv

LEMMA AbandonKeeps == ASSUME NEW k \in Keys PROVE CallsInv /\ Abandon(k) => CallsInv'
<1>. SUFFICES ASSUME CallsInv, Abandon(k) PROVE CallsInv'
  OBVIOUS
<1>1. /\ act' = [act EXCEPT ![k] = {}] /\ calls' = {c \in calls : c.k # k}
      /\ UNCHANGED <<blob, seq, breaker, clock, responses, streak>>
  BY DEF Abandon
<1>2. PICK S \in SUBSET Attempts : S = {}
  OBVIOUS
<1>3. /\ blob' = blob /\ seq' = seq /\ calls' \in SUBSET CallRecords
      /\ breaker' \in Breakers /\ clock' \in Nat /\ responses' \in Nat /\ streak' \in Nat
  BY <1>1 DEF CallsInv, TypeOK, Breakers, CallRecords
<1>4. /\ act' = [act EXCEPT ![k] = S] /\ \A x \in S : AttemptAgrees(x, blob[k])
      /\ \A o \in calls' : o.k = k => S # {} /\ \A x \in S : Unanswered(x, blob[k], o.id)
      /\ \A o \in calls' : o.k # k => o \in calls
  BY <1>1, <1>2
<1> QED BY <1>3, <1>4, KeyStepKeeps

LEMMA SameCallsKeep ==
    ASSUME CallsInv, UNCHANGED <<blob, seq, act, calls, breaker, responses, streak>>, clock' \in Nat
    PROVE  CallsInv'
<1>1. TypeOK'
  BY DEF CallsInv, TypeOK
<1>2. /\ (\A o \in Keys : SoundBlob(blob[o]))'
      /\ (\A o \in Keys : \A x \in act[o] : AttemptAgrees(x, blob[o]))'
      /\ (\A c \in calls : \A x \in act[c.k] : Unanswered(x, blob[c.k], c.id))'
  BY DEF CallsInv
<1> QED BY <1>1, <1>2 DEF CallsInv

(* Every step keeps the invariant.                                           *)
LEMMA CallsStep == CallsInv /\ [Next]_vars => CallsInv'
<1>. SUFFICES ASSUME CallsInv, [Next]_vars PROVE CallsInv'
  OBVIOUS
<1>1. ASSUME NEW k \in Keys, Begin(k) PROVE CallsInv'
  BY <1>1, BeginKeeps
<1>2. ASSUME NEW k \in Keys, Commit(k) PROVE CallsInv'
  BY <1>2, CallCommitKeeps
<1>3. ASSUME NEW k \in Keys, Abandon(k) PROVE CallsInv'
  BY <1>3, AbandonKeeps
<1>4. ASSUME NEW k \in Keys, NEW r \in Requests, Hit(k, r) PROVE CallsInv'
  BY <1>4, CallHitKeeps
<1>5. ASSUME NEW k \in Keys, NEW r \in Requests, Miss(k, r) PROVE CallsInv'
  BY <1>5, CallMissKeeps
<1>6. ASSUME NEW c \in calls, Respond(c) PROVE CallsInv'
  BY <1>6, RespondKeeps
<1>7. ASSUME NEW c \in calls, AttemptFails(c) PROVE CallsInv'
  BY <1>7, AttemptFailsKeeps
<1>8. CASE Tick
  <2>1. clock' \in Nat
    BY <1>8 DEF Tick, CallsInv, TypeOK
  <2> QED BY <1>8, <2>1, SameCallsKeep DEF Tick
<1>9. CASE UNCHANGED vars
  <2>1. clock' \in Nat
    BY <1>9 DEF vars, CallsInv, TypeOK
  <2> QED BY <1>9, <2>1, SameCallsKeep DEF vars
<1> QED BY <1>1, <1>2, <1>3, <1>4, <1>5, <1>6, <1>7, <1>8, <1>9 DEF Next

-----------------------------------------------------------------------------
(* The theorems.                                                             *)

(* The invariant gives the parts of CallsReplay.                             *)
LEMMA CallsInvSays == CallsInv => CallsReplay
<1>. SUFFICES ASSUME CallsInv PROVE CallsReplay
  OBVIOUS
<1>1. ASSUME NEW k \in Keys, NEW es \in Caches(k)
      PROVE  /\ Cardinality({e.id : e \in ToSet(es)}) = Len(es)
             /\ Len(es) <= MAX_ENTRIES /\ size_of(es) <= BLOB_CAP_BYTES
  <2>1. es \in Seq(Entries) /\ Distinct(es) /\ Bounded(es)
    BY DEF Caches, CallsInv, TypeOK, SoundBlob, AttemptAgrees, Held, Attempts
  <2>2. PICK n \in Nat : n = Len(es)
    BY <2>1
  <2>3. DOMAIN es = 1..n
    BY <2>1, <2>2
  <2>4. PICK f : f = [i \in 1..n |-> es[i].id]
    OBVIOUS
  <2>5. {e.id : e \in ToSet(es)} = {f[i] : i \in 1..n}
    BY <2>3, <2>4 DEF ToSet
  <2>6. DOMAIN f = 1..n /\ \A i, j \in 1..n : f[i] = f[j] => i = j
    BY <2>1, <2>3, <2>4 DEF Distinct
  <2>7. Cardinality({f[i] : i \in 1..n}) = n
    BY <2>6, OneEach
  <2> QED BY <2>1, <2>2, <2>5, <2>7 DEF Bounded
<1>2. CacheAccountsExactly
  BY <1>1 DEF CacheAccountsExactly, CallsInv, AttemptAgrees, Held
<1>3. ReplayAgrees
  <2>1. ASSUME NEW k \in Keys, NEW a \in act[k], NEW h \in a.heard, NEW e \in ToSet(blob[k]),
               h.id = e.id, ~e.digest_only, ~is_expired(e, a.now)
        PROVE  h.response = e.response \/ e.id \in a.evicted
    <3>1. Told(a, blob[k])
      BY DEF CallsInv, AttemptAgrees
    <3>2. PICK i \in DOMAIN blob[k] : e = blob[k][i]
      BY DEF ToSet
    <3> QED BY <2>1, <3>1, <3>2 DEF Told, live
  <2> QED BY <2>1 DEF ReplayAgrees
<1>4. BudgetHolds
  BY DEF BudgetHolds, CallsInv, AttemptAgrees, BudgetInv
<1> QED BY <1>2, <1>3, <1>4 DEF CallsReplay, CallsInv

(* Only an answer of the provider ends a call with a response.               *)
LEMMA AnswersStay ==
    CallsInv /\ [Next]_vars =>
        \A c \in calls \ calls' : responses' # responses =>
            \A a \in act'[c.k] : \E e \in ToSet(a.entries) : e.id = c.id
<1>. SUFFICES ASSUME CallsInv, [Next]_vars, NEW c \in calls \ calls', responses' # responses,
                     NEW b \in act'[c.k]
              PROVE  \E e \in ToSet(b.entries) : e.id = c.id
  OBVIOUS
<1>1. PICK d \in calls : Respond(d)
  BY DEF Next, Begin, Commit, Abandon, Hit, Miss, AttemptFails, Tick, vars
<1>2. PICK k : k = d.k /\ k \in Keys
  BY DEF CallsInv, TypeOK
<1>3. PICK a \in act[k], x \in Attempts :
         /\ \E j \in DOMAIN x.entries : x.entries[j].id = d.id
         /\ act' = [act EXCEPT ![k] = {x}]
         /\ calls' = calls \ {d}
  BY <1>1, <1>2, RespondStages
<1>4. c = d
  BY <1>3
<1>5. act'[k] = {x}
  BY <1>2, <1>3 DEF CallsInv, TypeOK
<1> QED BY <1>2, <1>3, <1>4, <1>5 DEF ToSet

(* A retried or resumed activation is told what it was told before, within   *)
(* its limits: the replay cache's running total is the size of what it       *)
(* holds, one entry per request, within both limits once it is committed;    *)
(* what an attempt hears agrees with every live entry its key has committed, *)
(* unless its own calls pushed that entry out; and the budget bounds what it *)
(* is given (model/replay_cache.py, TokenBudget).                            *)
THEOREM CallsAlwaysReplay == Spec => []CallsReplay
<1>1. CallsInv => CallsReplay
  BY CallsInvSays
<1> QED BY <1>1, CallsStart, CallsStep, PTL DEF Spec

(* put never evicts what it has just inserted, whatever the limits and the   *)
(* sizes: dropping all but the last entry is always enough.                  *)
THEOREM AnswersAreKept == Spec => PutKeepsNewest
<1>1. CallsInv /\ [Next]_vars =>
        [\A c \in calls \ calls' : responses' # responses =>
            \A a \in act'[c.k] : \E e \in ToSet(a.entries) : e.id = c.id]_vars
  BY AnswersStay
<1> QED BY <1>1, CallsStart, CallsStep, PTL DEF Spec, PutKeepsNewest

-----------------------------------------------------------------------------
(* The providers.                                                            *)

ProviderSpec == ProviderInit /\ [][ProviderNext]_providerVars

-----------------------------------------------------------------------------
(* The books of an attempt, and when they balance.                           *)
Parsed == Bodies \cup {Malformed}
Answered == [question : Questions, body : Parsed]
Calling == [question : Questions, facade : BOOLEAN, schema : {"fits", "fails"}, send : Int]

Attempt ==
    [cache : SUBSET Answered, consumed : Int, exhausted : BOOLEAN, raised : BOOLEAN,
     questions : Int, paid : Int, steps : Int, intents : Int,
     tally : [llm_calls : Int, tool_calls : Int, tokens : Int],
     staged : [billed_tokens : Int, direct_calls : Int, metered_tokens : Int, tool_calls : Int]]

\* What of the tokens paid for is not yet on a staged event is owed.
Balanced(a, owed) ==
    /\ a.paid = a.staged.billed_tokens + owed
    /\ a.tally.llm_calls = a.staged.direct_calls
    /\ a.tally.tool_calls = a.staged.tool_calls
    /\ a.tally.tokens = a.staged.metered_tokens

Decodable(cache) == \A e \in cache : _decodes(e.body)

AttemptInv == \A a \in attempt : a \in Attempt /\ Balanced(a, 0) /\ Decodable(a.cache)

Counters == [activations : Int, suspensions : Int, llm_calls : Int, tool_calls : Int,
             intents_emitted : Int, agent_errors : Int, tokens : Int, iterations : Int]
Streams == [ends : Int, suspended : Int, billed_tokens : Int, direct_calls : Int,
            tool_calls : Int, intents : Int, errors : Int, metered_tokens : Int, steps : Int]

TypeInv ==
    /\ kind \in {"anthropic", "openai", "endpoint", "sidecar"}
    /\ kept \subseteq Answered /\ flight \subseteq Calling
    /\ counters \in Counters /\ emitted \in Streams /\ spent \in Int

AccountInv == TypeInv /\ AttemptInv /\ Decodable(kept) /\ RetriesAreCivil /\ SpendIsTraced
              /\ CountersMatchStreams

-----------------------------------------------------------------------------
(* The dialects.                                                             *)

\* Every dialect states a whole number of tokens for a body (_decode).
LEMMA TokensAreCounted ==
    ASSUME NEW payload \in Parsed, TypeInv
    PROVE  _decode(payload) \in Int
<1>1. /\ payload \in [prompt : Nat, completion : Nat, total : Nat, valid : BOOLEAN]
      /\ payload.prompt \in Nat /\ payload.completion \in Nat /\ payload.total \in Nat
  <2>1. Malformed \in [prompt : Nat, completion : Nat, total : Nat, valid : BOOLEAN]
    BY DEF Malformed
  <2>2. payload \in [prompt : Nat, completion : Nat, total : Nat, valid : BOOLEAN]
    BY <2>1, ProviderAssumption DEF Parsed
  <2>3. QED
    BY <2>2
<1>2. decode_messages(payload) \in Int /\ decode_chat(payload) \in Int
  BY <1>1 DEF decode_messages, decode_chat
<1>3. decode_chat([payload EXCEPT !.total = payload.prompt + payload.completion]) \in Int
  BY <1>1 DEF decode_chat
<1>4. QED
  BY <1>2, <1>3 DEF _decode, TypeInv

\* A provider that answers has decoded the body it returns (complete of the
\* four providers): no response a call ends with is unreadable.
LEMMA AnswersAreDecodable ==
    ASSUME NEW reply, TypeInv, complete(reply) = "none"
    PROVE  _decodes(reply.body)
BY DEF TypeInv, complete, AnthropicProvider, OpenAICompatProvider, VllmEndpointProvider,
       VllmSidecarProvider

\* Only a status 429 asks for a wait, and it is a RateLimitError whatever the
\* provider; a refused request is never one of the errors that are retried
\* (raise_for_status_taxonomy, the engine's own mapping).
LEMMA OnlyRateLimitsAsk ==
    ASSUME NEW reply \in Replies, TypeInv, complete(reply) \in ProviderError
    PROVE  /\ reply.status # 400
           /\ reply.status \in Int
           /\ \/ complete(reply) = "RateLimitError" /\ reply.retry_after \in Int
              \/ reply.retry_after = NoRetryAfter
<1>1. CASE \E b \in Parsed : reply = Reply(200, NoRetryAfter, b)
  BY <1>1 DEF Reply, NoRetryAfter
<1>2. CASE reply = Reply(400, NoRetryAfter, Malformed)
  <2>1. reply.status = 400 /\ ~_decodes(reply.body)
    BY <1>2 DEF Reply, Malformed, _decodes
  <2>2. taxonomy(reply) = "ProviderRequestError" /\ posted(reply) = "ProviderRequestError"
    BY <2>1 DEF taxonomy, posted, TimedOut, Unreachable
  <2>3. complete(reply) = "ProviderRequestError"
    BY <2>1, <2>2 DEF TypeInv, complete, AnthropicProvider, OpenAICompatProvider,
                      VllmEndpointProvider, VllmSidecarProvider, TimedOut
  <2>4. QED
    BY <2>3 DEF ProviderError
<1>3. CASE \E s \in {TimedOut, Unreachable, 429, 500} : reply = Reply(s, NoRetryAfter, Malformed)
  BY <1>3 DEF Reply, NoRetryAfter, TimedOut, Unreachable
<1>4. CASE \E asked \in {2, Unreadable} : reply = Reply(429, asked, Malformed)
  <2>1. reply.status = 429 /\ reply.retry_after \in Int
    BY <1>4 DEF Reply, Unreadable
  <2>2. posted(reply) = "RateLimitError"
    BY <2>1 DEF taxonomy, posted, TimedOut, Unreachable
  <2>3. complete(reply) = "RateLimitError"
    BY <2>1, <2>2 DEF TypeInv, complete, AnthropicProvider, OpenAICompatProvider,
                      VllmEndpointProvider, VllmSidecarProvider, TimedOut
  <2>4. QED
    BY <2>1, <2>3
<1>5. QED
  BY <1>1, <1>2, <1>3, <1>4 DEF Replies, Parsed

\* The wait before a send is at least what the provider asked for: the jitter
\* is never less than nothing, and a RateLimitError's wait is raised to what
\* it asks (_compute_delay_ms).
LEMMA WaitsAsLongAsAsked ==
    ASSUME NEW reply \in Replies, NEW slept \in 0..3, NEW n, TypeInv,
           complete(reply) \in ProviderError,
           _compute_delay_ms(n, complete(reply), reply, slept)
    PROVE  slept >= _parse_retry_after_ms(reply)
<1>1. /\ _parse_retry_after_ms(reply) \in Int
      /\ complete(reply) # "RateLimitError" => _parse_retry_after_ms(reply) = NoRetryAfter
  BY OnlyRateLimitsAsk DEF _parse_retry_after_ms, NoRetryAfter
<1>2. PICK jittered :
         slept = IF complete(reply) = "RateLimitError" /\ _parse_retry_after_ms(reply) > jittered
                 THEN _parse_retry_after_ms(reply) ELSE jittered
  BY DEF _compute_delay_ms
<1>3. QED
  BY <1>1, <1>2 DEF NoRetryAfter

-----------------------------------------------------------------------------
(* The end of a call.                                                        *)

\* Charging the budget touches the budget and nothing else (TokenBudget.charge).
LEMMA ChargingIsOnlyBudget ==
    ASSUME NEW a \in Attempt, NEW tokens \in Int
    PROVE  /\ charged(a, tokens) \in Attempt
           /\ charged(a, tokens).cache = a.cache /\ charged(a, tokens).paid = a.paid
           /\ charged(a, tokens).tally = a.tally /\ charged(a, tokens).staged = a.staged
<1>1. BudgetLimit \in Int /\ a.consumed + tokens \in Int
  BY ProviderAssumption DEF Attempt
<1>2. (a.consumed + tokens > BudgetLimit) \in BOOLEAN
  BY <1>1
<1>3. QED
  BY <1>1, <1>2 DEF charged, Attempt

\* An event carries what it says: the tokens it bills, unless they were served
\* from the cache, and one model call if made past the facade (_stage_llm_trace).
TracedAs(a, t, tokens, hit, facade) ==
    /\ t \in Attempt
    /\ t.cache = a.cache /\ t.paid = a.paid /\ t.tally = a.tally /\ t.raised = a.raised
    /\ t.staged.billed_tokens =
           IF hit THEN a.staged.billed_tokens ELSE a.staged.billed_tokens + tokens
    /\ t.staged.metered_tokens =
           IF hit \/ ~facade THEN a.staged.metered_tokens ELSE a.staged.metered_tokens + tokens
    /\ t.staged.direct_calls =
           IF hit \/ facade THEN a.staged.direct_calls ELSE a.staged.direct_calls + 1
    /\ t.staged.tool_calls = a.staged.tool_calls

\* Staging a response's event touches nothing but the staged tokens and calls.
LEMMA TracingIsOnlyStaged ==
    ASSUME NEW a \in Attempt, NEW tokens \in Int, NEW hit \in BOOLEAN, NEW facade \in BOOLEAN
    PROVE  TracedAs(a, traced(a, tokens, hit, facade), tokens, hit, facade)
<1> DEFINE e == traced(a, tokens, hit, facade)
           st == a.staged
           Staged == [billed_tokens : Int, direct_calls : Int, metered_tokens : Int, tool_calls : Int]
<1>1. /\ st \in Staged
      /\ st.billed_tokens \in Int /\ st.metered_tokens \in Int
      /\ st.direct_calls \in Int /\ st.tool_calls \in Int
  BY DEF Attempt
<1> DEFINE b == IF hit THEN st.billed_tokens ELSE st.billed_tokens + tokens
           m == IF hit \/ ~facade THEN st.metered_tokens ELSE st.metered_tokens + tokens
           c == IF hit \/ facade THEN st.direct_calls ELSE st.direct_calls + 1
           new == [st EXCEPT !.billed_tokens = b, !.metered_tokens = m, !.direct_calls = c]
<1>2. b \in Int /\ m \in Int /\ c \in Int
  BY <1>1
<1>3. e = [a EXCEPT !.staged.billed_tokens = b, !.staged.metered_tokens = m,
                    !.staged.direct_calls = c]
  BY DEF traced, Attempt
<1> HIDE DEF b, m, c, e
<1>4. e = [a EXCEPT !.staged = new]
  BY <1>3 DEF Attempt
<1>5. /\ new \in Staged
      /\ new.billed_tokens = b /\ new.metered_tokens = m /\ new.direct_calls = c
      /\ new.tool_calls = st.tool_calls
  BY <1>1, <1>2
<1> HIDE DEF new, st
<1>6. /\ e \in Attempt /\ e.cache = a.cache /\ e.paid = a.paid /\ e.tally = a.tally
      /\ e.raised = a.raised /\ e.staged = new
  BY <1>4, <1>5 DEF Attempt
<1>7. QED
  BY <1>5, <1>6 DEF e, st, b, m, c, TracedAs

\* Through the facade: what was owed for the response is on its event, whether
\* the budget trips on it, its schema does not fit, or neither (_finish).
LEMMA FacadeCallBalances ==
    ASSUME NEW a \in Attempt, NEW payload \in Parsed, NEW hit \in BOOLEAN,
           NEW schema \in {"fits", "fails"}, TypeInv,
           Balanced(a, IF hit THEN 0 ELSE _decode(payload))
    PROVE  /\ _finish(a, payload, hit, schema) \in Attempt
           /\ _finish(a, payload, hit, schema).cache = a.cache
           /\ Balanced(_finish(a, payload, hit, schema), 0)
<1> DEFINE tokens == _decode(payload)
           counted == IF hit THEN a ELSE [a EXCEPT !.tally.tokens = @ + tokens]
           d == charged(counted, tokens)
           e == traced(d, tokens, hit, TRUE)
<1>1. tokens \in Int
  BY TokensAreCounted
<1> HIDE DEF tokens
<1>2. /\ counted \in Attempt /\ counted.cache = a.cache /\ counted.paid = a.paid
      /\ counted.staged = a.staged
      /\ counted.tally.llm_calls = a.tally.llm_calls
      /\ counted.tally.tool_calls = a.tally.tool_calls
      /\ counted.tally.tokens = IF hit THEN a.tally.tokens ELSE a.tally.tokens + tokens
  BY <1>1 DEF Attempt
<1> HIDE DEF counted
<1>3. /\ d \in Attempt /\ d.cache = a.cache /\ d.paid = a.paid
      /\ d.tally = counted.tally /\ d.staged = a.staged
  BY <1>1, <1>2, ChargingIsOnlyBudget
<1>a. d \in Attempt
  BY <1>3
<1> HIDE DEF d
<1>4. /\ e \in Attempt /\ e.cache = a.cache /\ e.paid = a.paid /\ e.tally = counted.tally
      /\ e.staged.billed_tokens = IF hit THEN a.staged.billed_tokens
                                  ELSE a.staged.billed_tokens + tokens
      /\ e.staged.metered_tokens = IF hit THEN a.staged.metered_tokens
                                   ELSE a.staged.metered_tokens + tokens
      /\ e.staged.direct_calls = a.staged.direct_calls
      /\ e.staged.tool_calls = a.staged.tool_calls
  <2>1. TracedAs(d, e, tokens, hit, TRUE)
    BY <1>1, <1>a, TracingIsOnlyStaged DEF e
  <2>2. QED
    BY <2>1, <1>3 DEF TracedAs
<1> HIDE DEF e
<1>5. Balanced(a, IF hit THEN 0 ELSE tokens)
  BY DEF tokens
<1>6. Balanced(e, 0)
  BY <1>1, <1>2, <1>4, <1>5 DEF Balanced, Attempt
<1>7. /\ [e EXCEPT !.raised = @ \/ schema = "fails"] \in Attempt
      /\ [e EXCEPT !.raised = @ \/ schema = "fails"].cache = e.cache
      /\ Balanced([e EXCEPT !.raised = @ \/ schema = "fails"], 0)
  BY <1>4, <1>6 DEF Balanced, Attempt
<1>8. _finish(a, payload, hit, schema) = [e EXCEPT !.raised = @ \/ schema = "fails"]
  BY DEF _finish, e, d, counted, tokens
<1>9. QED
  BY <1>4, <1>7, <1>8

\* Past the facade: the call is counted and its event staged together, and the
\* budget is charged when both are done (call_model's two ends).
LEMMA DirectCallBalances ==
    ASSUME NEW a \in Attempt, NEW payload \in Parsed, NEW hit \in BOOLEAN, TypeInv,
           Balanced(a, IF hit THEN 0 ELSE _decode(payload))
    PROVE  /\ _finish_direct(a, payload, hit) \in Attempt
           /\ _finish_direct(a, payload, hit).cache = a.cache
           /\ Balanced(_finish_direct(a, payload, hit), 0)
<1> DEFINE tokens == _decode(payload)
           b == IF hit THEN a ELSE [a EXCEPT !.tally.llm_calls = @ + 1]
           e == traced(b, tokens, hit, FALSE)
           d == charged(e, tokens)
<1>1. tokens \in Int
  BY TokensAreCounted
<1> HIDE DEF tokens
<1>2. /\ b \in Attempt /\ b.cache = a.cache /\ b.paid = a.paid /\ b.staged = a.staged
      /\ b.tally.llm_calls = IF hit THEN a.tally.llm_calls ELSE a.tally.llm_calls + 1
      /\ b.tally.tool_calls = a.tally.tool_calls
      /\ b.tally.tokens = a.tally.tokens
  BY DEF Attempt
<1> HIDE DEF b
<1>3. /\ e \in Attempt /\ e.cache = a.cache /\ e.paid = a.paid /\ e.tally = b.tally
      /\ e.staged.billed_tokens = IF hit THEN a.staged.billed_tokens
                                  ELSE a.staged.billed_tokens + tokens
      /\ e.staged.metered_tokens = a.staged.metered_tokens
      /\ e.staged.direct_calls = IF hit THEN a.staged.direct_calls ELSE a.staged.direct_calls + 1
      /\ e.staged.tool_calls = a.staged.tool_calls
  <2>1. TracedAs(b, e, tokens, hit, FALSE)
    BY <1>1, <1>2, TracingIsOnlyStaged DEF e
  <2>2. QED
    BY <2>1, <1>2 DEF TracedAs
<1> HIDE DEF e
<1>4. /\ d \in Attempt /\ d.cache = a.cache /\ d.paid = e.paid
      /\ d.tally = e.tally /\ d.staged = e.staged
  BY <1>1, <1>3, ChargingIsOnlyBudget
<1> HIDE DEF d
<1>5. Balanced(a, IF hit THEN 0 ELSE tokens)
  BY DEF tokens
<1>6. Balanced(d, 0)
  BY <1>1, <1>2, <1>3, <1>4, <1>5 DEF Balanced, Attempt
<1>7. _finish_direct(a, payload, hit) = d
  BY DEF _finish_direct, d, e, b, tokens
<1>8. QED
  BY <1>4, <1>6, <1>7

\* Whichever way a call ends, the books of its attempt balance (finished).
LEMMA CallsBalance ==
    ASSUME NEW a \in Attempt, NEW q \in Calling, NEW payload \in Parsed, NEW hit \in BOOLEAN, TypeInv,
           Balanced(a, IF hit THEN 0 ELSE _decode(payload))
    PROVE  /\ finished(a, q, payload, hit) \in Attempt
           /\ finished(a, q, payload, hit).cache = a.cache
           /\ Balanced(finished(a, q, payload, hit), 0)
BY FacadeCallBalances, DirectCallBalances DEF finished, Calling

-----------------------------------------------------------------------------
(* Every step of an attempt keeps the books.                                 *)

\* A deployment starts with empty books (ProviderInit).
LEMMA BooksOpen == ProviderInit => AccountInv
<1> SUFFICES ASSUME ProviderInit PROVE AccountInv
  OBVIOUS
<1>1. TypeInv
  <2>1. kind \in {"anthropic", "openai", "endpoint", "sidecar"}
    BY ProviderAssumption DEF ProviderInit
  <2>2. counters \in Counters /\ emitted \in Streams /\ spent \in Int
    BY DEF ProviderInit, Zeros, Nothing, Counters, Streams
  <2>3. QED
    BY <2>1, <2>2 DEF TypeInv, ProviderInit
<1>2. AttemptInv /\ Decodable(kept)
  BY DEF ProviderInit, AttemptInv, Decodable
<1>3. RetriesAreCivil
  BY DEF ProviderInit, RetriesAreCivil, NoWait
<1>4. SpendIsTraced /\ CountersMatchStreams
  BY DEF ProviderInit, SpendIsTraced, CountersMatchStreams, Zeros, Nothing
<1>5. QED
  BY <1>1, <1>2, <1>3, <1>4 DEF AccountInv

\* What is written at the end of an attempt (kept, the counters, the streams)
\* stands still while one is under way.
Ledgers == <<kind, kept, counters, emitted, spent>>

\* A step inside an attempt keeps the accounts if it keeps the attempt's books
\* and its last wait was civil.
LEMMA InsideAttempt ==
    ASSUME AccountInv, UNCHANGED Ledgers, AttemptInv', flight' \subseteq Calling, RetriesAreCivil'
    PROVE  AccountInv'
<1>1. TypeInv'
  BY DEF AccountInv, TypeInv, Ledgers
<1>2. SpendIsTraced' /\ CountersMatchStreams' /\ Decodable(kept)'
  BY DEF AccountInv, SpendIsTraced, CountersMatchStreams, Decodable, Ledgers
<1>3. QED
  BY <1>1, <1>2 DEF AccountInv

\* What an attempt's books rest on (its cache, its tally and what it stages).
SameBooks(a, b) ==
    /\ b \in Attempt
    /\ b.cache = a.cache /\ b.paid = a.paid /\ b.tally = a.tally /\ b.staged = a.staged

\* Raising, counting a question or moving the step cursor touches no book.
LEMMA BooksUntouched ==
    ASSUME NEW a \in Attempt, NEW x \in Int
    PROVE  /\ SameBooks(a, [a EXCEPT !.questions = x])
           /\ SameBooks(a, [a EXCEPT !.steps = x])
           /\ SameBooks(a, [a EXCEPT !.intents = x])
<1>1. SameBooks(a, [a EXCEPT !.questions = x])
  BY DEF SameBooks, Attempt
<1>2. SameBooks(a, [a EXCEPT !.steps = x])
  BY DEF SameBooks, Attempt
<1>3. SameBooks(a, [a EXCEPT !.intents = x])
  BY DEF SameBooks, Attempt
<1>4. QED
  BY <1>1, <1>2, <1>3

\* The same books balance the same.
LEMMA SameBooksBalance ==
    ASSUME NEW a, NEW b, SameBooks(a, b)
    PROVE  b \in Attempt /\ b.cache = a.cache /\ (Balanced(a, 0) => Balanced(b, 0))
BY DEF SameBooks, Balanced

\* A new attempt reads the cache the last committed one left (BeginTry).
LEMMA BeginTryKeeps == AccountInv /\ BeginTry => AccountInv'
<1> SUFFICES ASSUME AccountInv, BeginTry PROVE AccountInv'
  OBVIOUS
<1>1. PICK a : a = NewAttempt(kept)
  OBVIOUS
<1>2. a \in Attempt /\ Balanced(a, 0) /\ a.cache = kept
  BY <1>1 DEF NewAttempt, Attempt, Balanced, AccountInv, TypeInv
<1>3. AttemptInv'
  BY <1>1, <1>2 DEF BeginTry, AttemptInv, AccountInv, Decodable
<1>4. QED
  BY <1>3, InsideAttempt DEF BeginTry, Ledgers, AccountInv, TypeInv, RetriesAreCivil

\* An agent that swallows a failure, or lets it through to its own handler,
\* changes no account (Swallows).
LEMMA SwallowsKeeps == AccountInv /\ Swallows => AccountInv'
<1> SUFFICES ASSUME AccountInv, Swallows PROVE AccountInv'
  OBVIOUS
<1>1. PICK a \in attempt : attempt' = {[a EXCEPT !.raised = FALSE]}
  BY DEF Swallows
<1>2. a \in Attempt /\ Balanced(a, 0) /\ Decodable(a.cache)
  BY DEF AccountInv, AttemptInv
<1>3. PICK b : b = [a EXCEPT !.raised = FALSE]
  OBVIOUS
<1>4. b \in Attempt /\ Balanced(b, 0) /\ b.cache = a.cache
  BY <1>2, <1>3 DEF Attempt, Balanced
<1>5. AttemptInv'
  BY <1>1, <1>2, <1>3, <1>4 DEF AttemptInv, Decodable
<1>6. QED
  BY <1>5, InsideAttempt DEF Swallows, Ledgers, AccountInv, TypeInv, RetriesAreCivil

\* A failure that reaches the agent marks the attempt and nothing else (Raises).
LEMMA RaisesKeeps == ASSUME NEW reply PROVE AccountInv /\ Raises(reply) => AccountInv'
<1> SUFFICES ASSUME AccountInv, Raises(reply) PROVE AccountInv'
  OBVIOUS
<1>1. ASSUME NEW b \in attempt' PROVE b \in Attempt /\ Balanced(b, 0) /\ Decodable(b.cache)
  <2>1. PICK a \in attempt : b = [a EXCEPT !.raised = TRUE]
    BY <1>1 DEF Raises
  <2>2. a \in Attempt /\ Balanced(a, 0) /\ Decodable(a.cache)
    BY DEF AccountInv, AttemptInv
  <2>3. b \in Attempt /\ Balanced(b, 0) /\ b.cache = a.cache
    BY <2>1, <2>2 DEF Attempt, Balanced
  <2>4. QED
    BY <2>2, <2>3 DEF Decodable
<1>2. AttemptInv'
  BY <1>1 DEF AttemptInv, Decodable
<1>3. RetriesAreCivil' /\ flight' \subseteq Calling /\ UNCHANGED Ledgers
  BY DEF Raises, RetriesAreCivil, NoWait, Ledgers
<1>4. QED
  BY <1>2, <1>3, InsideAttempt

\* A tool's run is counted and its event staged together (Stages).
LEMMA StagesKeeps == ASSUME NEW tool \in BOOLEAN PROVE AccountInv /\ Stages(tool) => AccountInv'
<1> SUFFICES ASSUME AccountInv, Stages(tool) PROVE AccountInv'
  OBVIOUS
<1>1. PICK a \in attempt :
         attempt' = {IF tool
                     THEN [a EXCEPT !.tally.tool_calls = @ + 1, !.staged.tool_calls = @ + 1,
                                    !.questions = @ + 1]
                     ELSE [a EXCEPT !.intents = @ + 1, !.steps = @ + 1, !.questions = @ + 1]}
  BY DEF Stages
<1>2. a \in Attempt /\ Balanced(a, 0) /\ Decodable(a.cache)
  BY DEF AccountInv, AttemptInv
<1>3. PICK t : t = [a EXCEPT !.tally.tool_calls = @ + 1, !.staged.tool_calls = @ + 1,
                             !.questions = @ + 1]
  OBVIOUS
<1>4. t \in Attempt /\ Balanced(t, 0) /\ t.cache = a.cache
  <2>1. PICK c : c = [a EXCEPT !.tally.tool_calls = @ + 1]
    OBVIOUS
  <2>2. /\ c \in Attempt /\ c.cache = a.cache /\ c.paid = a.paid /\ c.staged = a.staged
        /\ c.questions = a.questions
        /\ c.tally.tool_calls = a.tally.tool_calls + 1
        /\ c.tally.llm_calls = a.tally.llm_calls /\ c.tally.tokens = a.tally.tokens
    BY <2>1, <1>2 DEF Attempt
  <2>3. PICK d : d = [c EXCEPT !.staged.tool_calls = @ + 1]
    OBVIOUS
  <2>4. /\ d \in Attempt /\ d.cache = c.cache /\ d.paid = c.paid /\ d.tally = c.tally
        /\ d.questions = c.questions
        /\ d.staged.tool_calls = c.staged.tool_calls + 1
        /\ d.staged.billed_tokens = c.staged.billed_tokens
        /\ d.staged.direct_calls = c.staged.direct_calls
        /\ d.staged.metered_tokens = c.staged.metered_tokens
    BY <2>2, <2>3 DEF Attempt
  <2>5. Balanced(d, 0)
    BY <2>2, <2>4, <1>2 DEF Balanced
  <2>6. t = [d EXCEPT !.questions = a.questions + 1]
    BY <1>3, <2>1, <2>3
  <2>7. a.questions + 1 \in Int
    BY <1>2 DEF Attempt
  <2>8. SameBooks(d, t)
    BY ONLY <2>4, <2>6, <2>7, BooksUntouched
  <2>9. t \in Attempt /\ t.cache = d.cache /\ Balanced(t, 0)
    BY ONLY <2>5, <2>8, SameBooksBalance
  <2>10. QED
    BY <2>2, <2>4, <2>9
<1>5. PICK i : i = [a EXCEPT !.intents = @ + 1, !.steps = @ + 1, !.questions = @ + 1]
  OBVIOUS
<1>6. i \in Attempt /\ Balanced(i, 0) /\ i.cache = a.cache
  <2>1. a.intents + 1 \in Int /\ a.steps + 1 \in Int /\ a.questions + 1 \in Int
    BY <1>2 DEF Attempt
  <2>2. PICK c : c = [a EXCEPT !.intents = a.intents + 1]
    OBVIOUS
  <2>3. c \in Attempt /\ c.cache = a.cache /\ Balanced(c, 0)
    BY <1>2, <2>1, <2>2, BooksUntouched, SameBooksBalance
  <2>4. PICK d : d = [c EXCEPT !.steps = a.steps + 1]
    OBVIOUS
  <2>5. d \in Attempt /\ d.cache = c.cache /\ Balanced(d, 0)
    BY <2>1, <2>3, <2>4, BooksUntouched, SameBooksBalance
  <2>6. i = [d EXCEPT !.questions = a.questions + 1]
    BY <1>5, <2>2, <2>4
  <2>7. QED
    BY <2>1, <2>3, <2>5, <2>6, BooksUntouched, SameBooksBalance
<1>7. attempt' = {IF tool THEN t ELSE i}
  BY <1>1, <1>3, <1>5
<1>8. AttemptInv'
  BY <1>2, <1>4, <1>6, <1>7 DEF AttemptInv, Decodable
<1>9. QED
  BY <1>8, InsideAttempt DEF Stages, Ledgers, AccountInv, TypeInv, RetriesAreCivil

\* A call up to the provider: stopped by the budget, served from the cache and
\* accounted as such, or sent (complete, call_model).
LEMMA AskKeeps ==
    ASSUME NEW question \in Questions, NEW facade \in BOOLEAN, NEW schema \in {"fits", "fails"}
    PROVE  AccountInv /\ Ask(question, facade, schema) => AccountInv'
<1> DEFINE q == [question |-> question, facade |-> facade, schema |-> schema, send |-> 1]
<1> SUFFICES ASSUME AccountInv, Ask(question, facade, schema) PROVE AccountInv'
  OBVIOUS
<1>1. q \in Calling
  BY DEF Calling
<1>2. PICK a \in attempt :
         LET stepped == [a EXCEPT !.questions = @ + 1, !.steps = IF facade THEN @ ELSE @ + 1]
         IN IF a.exhausted
            THEN attempt' = {[a EXCEPT !.raised = TRUE, !.questions = @ + 1]} /\ UNCHANGED flight
            ELSE IF served(a, question) # {}
            THEN /\ \E payload \in served(a, question) : attempt' = {finished(stepped, q, payload, TRUE)}
                 /\ UNCHANGED flight
            ELSE attempt' = {stepped} /\ flight' = {q}
  BY DEF Ask
<1>3. a \in Attempt /\ Balanced(a, 0) /\ Decodable(a.cache) /\ TypeInv
  BY DEF AccountInv, AttemptInv
<1>4. PICK stepped : stepped = [a EXCEPT !.questions = @ + 1,
                                         !.steps = IF facade THEN @ ELSE @ + 1]
  OBVIOUS
<1>a. a.questions + 1 \in Int /\ a.steps \in Int /\ a.steps + 1 \in Int
  BY <1>3 DEF Attempt
<1>5. /\ stepped \in Attempt /\ Balanced(stepped, 0) /\ stepped.cache = a.cache
  <2>1. PICK c : c = [a EXCEPT !.questions = a.questions + 1]
    OBVIOUS
  <2>2. c \in Attempt /\ c.cache = a.cache /\ Balanced(c, 0)
    BY <1>3, <1>a, <2>1, BooksUntouched, SameBooksBalance
  <2>3. PICK x \in Int : x = IF facade THEN a.steps ELSE a.steps + 1
    BY <1>a
  <2>4. stepped = [c EXCEPT !.steps = x]
    BY <1>4, <2>1, <2>3
  <2>5. QED
    BY <2>2, <2>3, <2>4, BooksUntouched, SameBooksBalance
<1>6. CASE a.exhausted
  <2>1. PICK b : b = [a EXCEPT !.raised = TRUE, !.questions = @ + 1]
    OBVIOUS
  <2>a. PICK c : c = [a EXCEPT !.raised = TRUE]
    OBVIOUS
  <2>b. c \in Attempt /\ c.cache = a.cache /\ Balanced(c, 0)
    BY <2>a, <1>3 DEF Attempt, Balanced
  <2>c. b = [c EXCEPT !.questions = a.questions + 1]
    BY <2>1, <2>a
  <2>2. b \in Attempt /\ Balanced(b, 0) /\ b.cache = a.cache
    BY <2>b, <2>c, <1>a, BooksUntouched, SameBooksBalance
  <2>3. attempt' = {b} /\ flight' = flight
    BY <2>1, <1>2, <1>6
  <2>4. AttemptInv' /\ flight' \subseteq Calling
    BY <2>2, <2>3, <1>3 DEF AttemptInv, Decodable, TypeInv
  <2>5. QED
    BY <2>4, InsideAttempt DEF Ask, Ledgers, RetriesAreCivil, NoWait
<1>7. CASE ~a.exhausted /\ served(a, question) # {}
  <2>1. PICK payload \in served(a, question) : attempt' = {finished(stepped, q, payload, TRUE)}
    BY <1>2, <1>4, <1>7
  <2>2. payload \in Parsed
    BY <1>3 DEF served, Attempt, Answered
  <2>3. Balanced(stepped, IF TRUE THEN 0 ELSE _decode(payload))
    BY <1>5
  <2>4. PICK f : f = finished(stepped, q, payload, TRUE)
    OBVIOUS
  <2>5. f \in Attempt /\ f.cache = a.cache /\ Balanced(f, 0)
    BY <2>2, <2>3, <2>4, <1>1, <1>3, <1>5, CallsBalance
  <2>6. AttemptInv' /\ flight' \subseteq Calling
    BY <2>1, <2>4, <2>5, <1>2, <1>3, <1>7 DEF AttemptInv, Decodable, TypeInv
  <2>7. QED
    BY <2>6, InsideAttempt DEF Ask, Ledgers, RetriesAreCivil, NoWait
<1>8. CASE ~a.exhausted /\ served(a, question) = {}
  <2>1. attempt' = {stepped} /\ flight' = {q}
    BY <1>2, <1>4, <1>8
  <2>2. AttemptInv' /\ flight' \subseteq Calling
    BY <2>1, <1>1, <1>3, <1>5 DEF AttemptInv, Decodable
  <2>3. QED
    BY <2>2, InsideAttempt DEF Ask, Ledgers, RetriesAreCivil, NoWait
<1>9. QED
  BY <1>6, <1>7, <1>8

\* A response is decodable, is put in the cache and is paid for; what is owed
\* for it is on its event when the call ends (Responds).
LEMMA RespondsKeeps ==
    ASSUME NEW reply \in Replies PROVE AccountInv /\ Responds(reply) => AccountInv'
<1> DEFINE payload == reply.body
<1> SUFFICES ASSUME AccountInv, Responds(reply) PROVE AccountInv'
  OBVIOUS
<1>1. payload \in Parsed
  BY DEF Replies, Reply, Parsed
<1>2. TypeInv /\ _decodes(payload)
  BY AnswersAreDecodable DEF Responds, AccountInv
<1>3. _decode(payload) \in Int
  BY <1>1, <1>2, TokensAreCounted
<1> HIDE DEF payload
<1>4. PICK q \in flight, a \in attempt :
         LET filled == [a EXCEPT !.cache = @ \cup {[question |-> q.question, body |-> payload]},
                              !.paid = @ + _decode(payload)]
         IN attempt' = {IF _decodes(payload) THEN finished(filled, q, payload, FALSE)
                        ELSE [filled EXCEPT !.raised = TRUE]}
  BY DEF Responds, payload
<1>5. a \in Attempt /\ Balanced(a, 0) /\ Decodable(a.cache) /\ q \in Calling
  BY DEF AccountInv, AttemptInv, TypeInv
<1>6. PICK entry : entry = [question |-> q.question, body |-> payload]
  OBVIOUS
<1>7. entry \in Answered /\ entry.body = payload
  BY <1>1, <1>5, <1>6 DEF Answered, Calling
<1>8. PICK filled : filled = [a EXCEPT !.cache = @ \cup {entry}, !.paid = @ + _decode(payload)]
  OBVIOUS
<1>9. /\ filled \in Attempt /\ filled.cache = a.cache \cup {entry}
      /\ Balanced(filled, _decode(payload))
  <2>1. a.cache \cup {entry} \subseteq Answered /\ a.paid + _decode(payload) \in Int
    BY <1>3, <1>5, <1>7 DEF Attempt
  <2>2. PICK c : c = [a EXCEPT !.cache = a.cache \cup {entry}]
    OBVIOUS
  <2>3. /\ c \in Attempt /\ c.cache = a.cache \cup {entry} /\ c.paid = a.paid
        /\ c.tally = a.tally /\ c.staged = a.staged
    BY <1>5, <2>1, <2>2 DEF Attempt
  <2>4. filled = [c EXCEPT !.paid = a.paid + _decode(payload)]
    BY <1>8, <2>2
  <2>5. /\ filled \in Attempt /\ filled.cache = c.cache /\ filled.paid = a.paid + _decode(payload)
        /\ filled.tally = a.tally /\ filled.staged = a.staged
    BY <2>1, <2>3, <2>4 DEF Attempt
  <2>6. a.staged.billed_tokens \in Int
    BY <1>5 DEF Attempt
  <2>7. QED
    BY <2>3, <2>5, <2>6, <1>3, <1>5 DEF Balanced
<1>10. Balanced(filled, IF FALSE THEN 0 ELSE _decode(payload)) /\ FALSE \in BOOLEAN
  BY <1>9
<1>11. PICK f : f = finished(filled, q, payload, FALSE)
  OBVIOUS
<1>12. f \in Attempt /\ f.cache = filled.cache /\ Balanced(f, 0)
  BY <1>1, <1>2, <1>5, <1>9, <1>10, <1>11, CallsBalance
<1>13. attempt' = {f}
  BY <1>2, <1>4, <1>6, <1>8, <1>11
<1>14. Decodable(f.cache)
  BY <1>2, <1>5, <1>7, <1>9, <1>12 DEF Decodable
<1>15. AttemptInv'
  BY <1>12, <1>13, <1>14 DEF AttemptInv, Decodable
<1>16. QED
  BY <1>15, InsideAttempt DEF Responds, Ledgers, RetriesAreCivil, NoWait

\* A send is made again only after what the provider asked for has passed, and
\* never for a request it refused as wrong (Resends).
LEMMA ResendsKeeps ==
    ASSUME NEW reply \in Replies, NEW slept \in 0..3
    PROVE  AccountInv /\ Resends(reply, slept) => AccountInv'
<1> SUFFICES ASSUME AccountInv, Resends(reply, slept) PROVE AccountInv'
  OBVIOUS
<1>1. PICK q \in flight :
         /\ _compute_delay_ms(q.send, complete(reply), reply, slept)
         /\ flight' = {[q EXCEPT !.send = @ + 1]}
  BY DEF Resends
<1>2. TypeInv /\ complete(reply) \in ProviderError /\ q \in Calling
  BY DEF Resends, AccountInv, TypeInv
<1>3. flight' \subseteq Calling
  BY <1>1, <1>2 DEF Calling
<1>4. slept >= _parse_retry_after_ms(reply)
  BY <1>1, <1>2, WaitsAsLongAsAsked
<1>5. ~(reply.status >= 400 /\ reply.status < 500 /\ reply.status # 429)
  BY <1>2, OnlyRateLimitsAsk DEF Replies, Reply, TimedOut, Unreachable
<1>6. RetriesAreCivil'
  BY <1>4, <1>5 DEF Resends, RetriesAreCivil
<1>7. AttemptInv'
  BY DEF Resends, AccountInv, AttemptInv, Decodable
<1>8. QED
  BY <1>3, <1>6, <1>7, InsideAttempt DEF Resends, Ledgers

-----------------------------------------------------------------------------
(* The ends of an attempt.                                                   *)

\* A commit moves the counters by the tally, the streams by what was staged and
\* the spend by what was paid: the three agree because the attempt's books do
\* (_record_commit, emitted from the same staged result).
LEMMA CommitKeeps ==
    ASSUME NEW suspended \in {0, 1} PROVE AccountInv /\ CommitTry(suspended) => AccountInv'
<1> SUFFICES ASSUME AccountInv, CommitTry(suspended) PROVE AccountInv'
  OBVIOUS
<1>1. PICK a \in attempt :
         /\ kept' = a.cache
         /\ counters' = _record_commit(a, suspended)
         /\ emitted' = [emitted EXCEPT
                          !.ends = @ + 1, !.suspended = @ + suspended,
                          !.billed_tokens = @ + a.staged.billed_tokens,
                          !.metered_tokens = @ + a.staged.metered_tokens,
                          !.direct_calls = @ + a.staged.direct_calls,
                          !.tool_calls = @ + a.staged.tool_calls,
                          !.intents = @ + a.intents, !.steps = @ + a.steps]
         /\ spent' = spent + a.paid
  BY DEF CommitTry
<1>2. a \in Attempt /\ Balanced(a, 0) /\ Decodable(a.cache)
  BY DEF AccountInv, AttemptInv
<1>3. /\ a.paid \in Int /\ a.intents \in Int /\ a.steps \in Int
      /\ a.tally.llm_calls \in Int /\ a.tally.tool_calls \in Int /\ a.tally.tokens \in Int
      /\ a.staged.billed_tokens \in Int /\ a.staged.metered_tokens \in Int
      /\ a.staged.direct_calls \in Int /\ a.staged.tool_calls \in Int
      /\ a.cache \subseteq Answered /\ suspended \in Int
  BY <1>2 DEF Attempt
<1>4. counters \in Counters /\ emitted \in Streams /\ spent \in Int
  BY DEF AccountInv, TypeInv
<1>5. /\ counters'.activations = counters.activations + 1
      /\ counters'.suspensions = counters.suspensions + suspended
      /\ counters'.intents_emitted = counters.intents_emitted + a.intents
      /\ counters'.llm_calls = counters.llm_calls + a.tally.llm_calls
      /\ counters'.tool_calls = counters.tool_calls + a.tally.tool_calls
      /\ counters'.tokens = counters.tokens + a.tally.tokens
      /\ counters'.iterations = counters.iterations + a.steps
      /\ counters'.agent_errors = counters.agent_errors
      /\ counters' \in Counters
  <2>1. /\ counters.activations + 1 \in Int /\ counters.suspensions + suspended \in Int
        /\ counters.intents_emitted + a.intents \in Int
        /\ counters.llm_calls + a.tally.llm_calls \in Int
        /\ counters.tool_calls + a.tally.tool_calls \in Int
        /\ counters.tokens + a.tally.tokens \in Int
        /\ counters.iterations + a.steps \in Int /\ counters.agent_errors \in Int
    BY <1>3, <1>4 DEF Counters
  <2>2. counters' =
          [activations |-> counters.activations + 1,
           suspensions |-> counters.suspensions + suspended,
           llm_calls |-> counters.llm_calls + a.tally.llm_calls,
           tool_calls |-> counters.tool_calls + a.tally.tool_calls,
           intents_emitted |-> counters.intents_emitted + a.intents,
           agent_errors |-> counters.agent_errors,
           tokens |-> counters.tokens + a.tally.tokens,
           iterations |-> counters.iterations + a.steps]
    BY <1>1, <1>4 DEF _record_commit, Counters
  <2>3. QED
    BY <2>1, <2>2 DEF Counters
<1>6. /\ emitted'.ends = emitted.ends + 1
      /\ emitted'.suspended = emitted.suspended + suspended
      /\ emitted'.intents = emitted.intents + a.intents
      /\ emitted'.direct_calls = emitted.direct_calls + a.staged.direct_calls
      /\ emitted'.tool_calls = emitted.tool_calls + a.staged.tool_calls
      /\ emitted'.metered_tokens = emitted.metered_tokens + a.staged.metered_tokens
      /\ emitted'.billed_tokens = emitted.billed_tokens + a.staged.billed_tokens
      /\ emitted'.steps = emitted.steps + a.steps
      /\ emitted'.errors = emitted.errors
      /\ emitted' \in Streams
  <2>1. /\ emitted.ends + 1 \in Int /\ emitted.suspended + suspended \in Int
        /\ emitted.intents + a.intents \in Int
        /\ emitted.direct_calls + a.staged.direct_calls \in Int
        /\ emitted.tool_calls + a.staged.tool_calls \in Int
        /\ emitted.metered_tokens + a.staged.metered_tokens \in Int
        /\ emitted.billed_tokens + a.staged.billed_tokens \in Int
        /\ emitted.steps + a.steps \in Int /\ emitted.errors \in Int
    BY <1>3, <1>4 DEF Streams
  <2>2. emitted' =
          [ends |-> emitted.ends + 1, suspended |-> emitted.suspended + suspended,
           billed_tokens |-> emitted.billed_tokens + a.staged.billed_tokens,
           direct_calls |-> emitted.direct_calls + a.staged.direct_calls,
           tool_calls |-> emitted.tool_calls + a.staged.tool_calls,
           intents |-> emitted.intents + a.intents, errors |-> emitted.errors,
           metered_tokens |-> emitted.metered_tokens + a.staged.metered_tokens,
           steps |-> emitted.steps + a.steps]
    BY <1>1, <1>4 DEF Streams
  <2>3. QED
    BY <2>1, <2>2 DEF Streams
<1>7. CountersMatchStreams'
  BY <1>2, <1>5, <1>6 DEF CountersMatchStreams, AccountInv, Balanced
<1>8. SpendIsTraced'
  BY <1>1, <1>2, <1>3, <1>6 DEF SpendIsTraced, AccountInv, Balanced
<1>9. TypeInv'
  BY <1>1, <1>3, <1>4, <1>5, <1>6 DEF TypeInv, AccountInv, CommitTry
<1>10. AttemptInv' /\ Decodable(kept)' /\ RetriesAreCivil'
  BY <1>1, <1>2 DEF CommitTry, AttemptInv, Decodable, AccountInv, RetriesAreCivil
<1>11. QED
  BY <1>7, <1>8, <1>9, <1>10 DEF AccountInv

\* A failed attempt moves one counter and one stream, and leaves the cache of
\* the last committed one (record_error).
LEMMA FailTryKeeps == AccountInv /\ FailTry => AccountInv'
<1> SUFFICES ASSUME AccountInv, FailTry PROVE AccountInv'
  OBVIOUS
<1>1. counters' = [counters EXCEPT !.agent_errors = @ + 1]
  BY DEF FailTry, record_error
<1>2. emitted' = [emitted EXCEPT !.errors = @ + 1]
  BY DEF FailTry
<1>3. counters \in Counters /\ emitted \in Streams
  BY DEF AccountInv, TypeInv
<1>4. counters' \in Counters /\ emitted' \in Streams
  BY <1>1, <1>2, <1>3 DEF Counters, Streams
<1>5. CountersMatchStreams'
  BY <1>1, <1>2, <1>3 DEF CountersMatchStreams, AccountInv, Counters, Streams
<1>6. SpendIsTraced'
  BY <1>2, <1>3 DEF FailTry, SpendIsTraced, AccountInv, Streams
<1>7. TypeInv' /\ AttemptInv' /\ Decodable(kept)'
  BY <1>4 DEF FailTry, AccountInv, TypeInv, AttemptInv, Decodable
<1>8. RetriesAreCivil'
  BY DEF FailTry, RetriesAreCivil, NoWait
<1>9. QED
  BY <1>5, <1>6, <1>7, <1>8 DEF AccountInv

-----------------------------------------------------------------------------
\* On every path out of a model call (answered, refused, retried, swallowed, cut
\* off by the budget, served from the cache) the provider is asked again only
\* when it may be, what is cached can be read again, and spend, counters and
\* streams agree (facade.py, client.py, metrics.py).
THEOREM AccountsAlwaysAgree == ProviderSpec => []AccountsAgree
<1>1. AccountInv /\ [ProviderNext]_providerVars => AccountInv'
  <2> SUFFICES ASSUME AccountInv, [ProviderNext]_providerVars PROVE AccountInv'
    OBVIOUS
  <2>1. CASE UNCHANGED providerVars
    <3>1. AttemptInv' /\ RetriesAreCivil' /\ flight' \subseteq Calling /\ UNCHANGED Ledgers
      BY <2>1 DEF providerVars, AccountInv, AttemptInv, TypeInv, Decodable, RetriesAreCivil, Ledgers
    <3>2. QED
      BY <3>1, InsideAttempt
  <2>2. QED
    BY <2>1, BeginTryKeeps, SwallowsKeeps, FailTryKeeps, AskKeeps, RespondsKeeps, RaisesKeeps,
       ResendsKeeps, StagesKeeps, CommitKeeps DEF ProviderNext
<1>2. AccountInv => AccountsAgree
  <2> SUFFICES ASSUME AccountInv PROVE CachedAreDecodable
    BY DEF AccountInv, AccountsAgree
  <2>1. QED
    BY DEF AccountInv, AttemptInv, CachedAreDecodable, Decodable
<1>3. QED
  BY <1>1, <1>2, BooksOpen, PTL DEF ProviderSpec
=============================================================================
