----------------------------- MODULE MCServices -----------------------------
(* The services an activation and the effector call, side by side: a         *)
(* behaviour is one of the replay cache, budget and circuit breaker of two   *)
(* keys, of the providers and the accounts of their calls, of the stores     *)
(* behind the effector's claims, or of the tools of a pipeline and an        *)
(* effector.  The calls of two keys come in two bounds: three responses over *)
(* two activations while the clock stands still ("cache"), and two responses *)
(* in one activation of each key while it moves, so that entries expire and  *)
(* an open breaker cools down and lets trials through ("breaker").           *)
EXTENDS ModelCall, ProviderCalls, DedupBackends, ToolCalls, TLC

CONSTANTS k1, k2, r1, r2, n1, n2

VARIABLE part

Symmetry == Permutations(Keys) \cup Permutations(Requests) \cup Permutations(Names)

MCBodies == {[prompt |-> 1, completion |-> 1, total |-> 3, valid |-> TRUE],
             [prompt |-> 1, completion |-> 0, total |-> 0, valid |-> TRUE]}

Parameter(name, kind_, annotation, required) ==
    [name |-> name, kind |-> kind_, annotation |-> annotation, required |-> required]

\* Two callables that can be tools, one of them only a side-effecting one, and
\* three that cannot: an identity taken by position, a bare *args, an identity
\* beside a parameter without annotation.
MCCallables ==
    LET a == Parameter("a", "positional", "plain", TRUE)
        identity == Parameter("intent", "keyword_only", "IntentInfo", TRUE)
    IN {[params |-> {a}, sync |-> FALSE],
        [params |-> {a, identity}, sync |-> TRUE],
        [params |-> {Parameter("intent", "positional", "IntentInfo", TRUE)}, sync |-> TRUE],
        [params |-> {Parameter("rest", "variadic", "plain", FALSE)}, sync |-> TRUE],
        [params |-> {identity, Parameter("b", "positional", "none", FALSE)}, sync |-> TRUE]}

MCArguments == {[keys |-> {"a"}, typed |-> TRUE, json |-> TRUE],
                [keys |-> {"a", "intent"}, typed |-> TRUE, json |-> TRUE],
                [keys |-> {"a"}, typed |-> FALSE, json |-> FALSE]}

\* One activation of each key, two responses, any number of clock steps.
FewerCalls ==
    /\ responses' + Cardinality(calls') <= 2
    /\ \A k \in Keys : seq[k] > 0 => act'[k] = {}

ServicesInit ==
    /\ part \in {"cache", "breaker", "provider", "dedup", "tools"}
    /\ Init /\ ProviderInit /\ BackendInit /\ ToolInit
    /\ part = "provider" \/ kind = "openai"
    /\ part = "dedup" \/ db = "memory"

ServicesNext ==
    /\ UNCHANGED part
    /\ \/ /\ part \in {"cache", "breaker"}
          /\ Next /\ UNCHANGED <<providerVars, backendVars, toolVars>>
          /\ IF part = "cache" THEN UNCHANGED clock ELSE FewerCalls
       \/ part = "provider" /\ ProviderNext /\ UNCHANGED <<vars, backendVars, toolVars>>
       \/ part = "dedup" /\ BackendNext /\ UNCHANGED <<vars, providerVars, toolVars>>
       \/ part = "tools" /\ ToolNext /\ UNCHANGED <<vars, providerVars, backendVars>>

ServicesSpec ==
    ServicesInit /\ [][ServicesNext]_<<part, vars, providerVars, backendVars, toolVars>>
=============================================================================
