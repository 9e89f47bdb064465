---------------------------- MODULE ConsoleStore ----------------------------
(***************************************************************************)
(* The console's record store: console/_ingest.py (decoding and            *)
(* normalisation by route), console/_store.py (idempotent upserts and the  *)
(* rollups derived from them, retention) and console/_records.py.          *)
(*                                                                         *)
(* The records the pipeline produced are given; a route may deliver        *)
(* any of them in any order, again and again.  A NULL column is {}, a      *)
(* known value v is {v}; an entity or a parent span of 0 is the empty      *)
(* string of the column, for "not known".                                  *)
(***************************************************************************)
EXTENDS Integers, Sequences, FiniteSets, SequencesExt, FiniteSetsExt, TLC

CONSTANTS
    Feeds,         \* what a console may be fed: sets of events and of dead
                   \*   letters a pipeline produced, the routes in use, and
                   \*   the lists and pages a reader reads meanwhile
    MaxBatch,      \* bound: records of a batch
    Cutoffs        \* retention cut-offs a sweep may use

ASSUME ConsoleStoreAssumption ==
    /\ \A f \in Feeds :
          /\ IsFiniteSet(f.trace)
          /\ \A e \in f.trace :
                /\ DOMAIN e = {"trace", "span", "parent", "type", "entity", "seq", "step", "t", "attrs"}
                /\ e.seq \in Nat /\ e.step \in Nat /\ e.t \in Nat
          /\ f.routes \subseteq {"native", "kafka", "bigquery", "bundle", "otlp"}
    /\ MaxBatch \in Nat \ {0} /\ Cutoffs \subseteq Nat

VARIABLES
    feed,          \* the records there are and the routes that carry them
    events,        \* table events with its attributes
    dead_letters,  \* table errors
    activations,   \* derived: (entity, seq) -> rollup
    trace_rows,    \* derived: tables traces and spans, by trace
    entity_rows    \* derived: entity -> row

storeVars == <<feed, events, dead_letters, activations, trace_rows, entity_rows>>

SumOver(S, f(_)) == MapThenSumSet(f, S)
attr(e, k) == IF k \in DOMAIN e.attrs THEN {e.attrs[k]} ELSE {}
having(e, k, v) == attr(e, k) = {v}
Types(S, type) == {e \in S : e.type = type}

\* The first where it is defined, else the second.
over(f, g) == [x \in DOMAIN f \cup DOMAIN g |-> IF x \in DOMAIN f THEN f[x] ELSE g[x]]

-----------------------------------------------------------------------------
(* _span_to_event: a span carries neither entity_key, seq nor step_index.    *)
from_otlp(e) == [e EXCEPT !.entity = 0, !.seq = 0, !.step = 0]

(* The decoders and normalize: what reaches the store of event e by a route. *)
decode(e, route) == over(IF route = "otlp" THEN from_otlp(e) ELSE e, [prov |-> route])

(* OTLP has no ACTIVATION_START and no dead letters.                         *)
carried(route) ==
    IF route = "otlp" THEN {e \in feed.trace : e.type # "ACTIVATION_START"} ELSE feed.trace

(* _seq_from_detail: the reasons whose detail names the activation.          *)
_seq_from_detail(r) ==
    IF r.reason \in {"hitl_timeout", "ttl_wiped_suspension", "intent_dead_letter"} THEN {r.at} ELSE {}

(* _error_row: a dead letter as a row of the table errors.                   *)
_error_row(r, route) ==
    [entity |-> r.entity, reason |-> r.reason, detail |-> r.detail, t |-> r.t,
     seq |-> _seq_from_detail(r), prov |-> route]

identity(e) == <<e.trace, e.span, e.type>>

keep_lossless(old, new) == IF new = "otlp" /\ old # "otlp" THEN old ELSE new

replaced(old, new) == new

(* _EVENT_UPSERT and _ATTRIBUTE_UPSERT on a conflict: a known value is not   *)
(* replaced by an unknown one, seq and step always are, attributes merge.    *)
merged(old, new) ==
    [new EXCEPT
        !.parent = IF new.parent # 0 THEN new.parent ELSE old.parent,
        !.entity = IF new.entity # 0 THEN new.entity ELSE old.entity,
        !.t      = IF new.t # 0 THEN new.t ELSE old.t,
        !.prov   = keep_lossless(old.prov, new.prov),
        !.attrs  = over(new.attrs, old.attrs)]

write_events(S, new) ==
    LET old == {e \in S : identity(e) = identity(new)}
    IN  (S \ old) \cup {IF old = {} THEN new ELSE merged(CHOOSE e \in old : TRUE, new)}

(* _error_id folds the whole payload but the provenance.                     *)
error_id(r) == <<r.entity, r.seq, r.reason, r.t, r.detail>>

write_errors(S, new) ==
    LET old == {r \in S : error_id(r) = error_id(new)}
    IN  (S \ old) \cup {[new EXCEPT !.prov = IF old = {} THEN @
                            ELSE keep_lossless((CHOOSE r \in old : TRUE).prov, @)]}

-----------------------------------------------------------------------------
(* _latest: the last event by time, then by span.                            *)
latest(S) == CHOOSE e \in S : \A o \in S : o.t < e.t \/ (o.t = e.t /\ o.span <= e.span)

sum_attribute(S, k) ==
    LET known == {e \in S : k \in DOMAIN e.attrs}
    IN  IF known = {} THEN {} ELSE {SumOver(known, LAMBDA e : e.attrs[k])}

_wall_ms(starts, ended) ==
    LET first == Min({s.t : s \in starts})
    IN  IF starts = {} \/ ended = {} THEN {} ELSE {n - first : n \in {m \in ended : m > first}}

(* traces.trace_id_for: one trace per activation, computed from its identity.*)
trace_id_for(entity, seq) == <<entity, seq>>

summarize_unclosed(es, errs) ==
    LET ends == Types(es, "ACTIVATION_END")
        declared == IF ends = {} THEN {}
                    ELSE attr(latest(ends), "status") \cap {"completed", "suspended"}
    IN  IF Types(es, "ERROR") # {} \/ errs # {} THEN "error"
        ELSE IF declared # {} THEN CHOOSE s \in declared : TRUE
        ELSE "in_flight"

(* The status of _summarize: a failure is terminal; an end counts when no    *)
(* attempt is still open.                                                    *)
status_of(es, errs) ==
    LET ends == Types(es, "ACTIVATION_END")
        open == {e.span : e \in Types(es, "ACTIVATION_START")} \ {e.span : e \in ends}
        declared == IF ends = {} \/ open # {} THEN {}
                    ELSE attr(latest(ends), "status") \cap {"completed", "suspended"}
    IN  IF Types(es, "ERROR") # {} \/ errs # {} THEN "error"
        ELSE IF declared # {} THEN CHOOSE s \in declared : TRUE
        ELSE "in_flight"

(* _summarize: the rollup of one activation from its events and dead letters.*)
_summarize(es, errs, k) ==
    LET starts  == Types(es, "ACTIVATION_START")
        ends    == Types(es, "ACTIVATION_END")
        failed  == Types(es, "ERROR")
        llm     == Types(es, "LLM_CALL")
        tool    == Types(es, "TOOL_CALL")
        intent  == Types(es, "INTENT_EMITTED")
        status  == status_of(es, errs)
        ended   == IF status = "error" THEN {Max({e.t : e \in failed} \cup {r.t : r \in errs})}
                   ELSE IF status = "in_flight" THEN {} ELSE {latest(ends).t}
        kinds   == IF starts # {} THEN starts ELSE ends
        models  == {e \in llm : attr(e, "model") # {}}
        sources == {e.prov : e \in es} \cup {r.prov : r \in errs}
    IN  [trace    |-> IF es = {} THEN trace_id_for(k[1], k[2]) ELSE (CHOOSE e \in es : TRUE).trace,
         status   |-> status,
         kind     |-> IF kinds = {} THEN {} ELSE attr(latest(kinds), "kind"),
         attempts |-> Max({1, Cardinality({e.span : e \in starts \cup ends})}),
         started  |-> Min({e.t : e \in es} \cup {r.t : r \in errs}),
         ended    |-> ended,
         wall     |-> _wall_ms(starts, ended),
         model    |-> IF models = {} THEN {} ELSE attr(latest(models), "model"),
         llm      |-> Cardinality(llm), tool |-> Cardinality(tool),
         intents  |-> Cardinality(intent),
         errors   |-> Max({Cardinality(failed), Cardinality(errs)}),
         tokens   |-> sum_attribute(llm, "tokens"),
         hits     |-> Cardinality({e \in llm : having(e, "hit", "true")}),
         tools    |-> UNION {attr(e, "tool") : e \in tool \cup intent},
         reasons  |-> UNION {attr(e, "reason") : e \in failed} \cup {r.reason : r \in errs},
         sources  |-> sources,
         complete |-> starts # {} \/ "otlp" \notin sources]

scoped(S, k) == {r \in S : r.seq = {k[2]} /\ r.entity = k[1]}
of_activation(S, k) == {e \in S : e.entity = k[1] /\ e.seq = k[2]}

(* _recompute_activation: rebuild the row, or remove it with its last record.*)
recompute_activation(table, E, R, k) ==
    LET es == of_activation(E, k)
        errs == scoped(R, k)
    IN  IF es = {} /\ errs = {} THEN [x \in DOMAIN table \ {k} |-> table[x]]
        ELSE (k :> _summarize(es, errs, k)) @@ table

(* _recompute_trace: the traces row and the spans rows of one trace.         *)
recompute_trace(table, E, t) ==
    LET es == {e \in E : e.trace = t}
        span(s) == {e \in es : e.span = s}
    IN  IF es = {} THEN [x \in DOMAIN table \ {t} |-> table[x]]
        ELSE (t :> [started |-> Min({e.t : e \in es}), last |-> Max({e.t : e \in es}),
                    events  |-> Cardinality(es),
                    spans   |-> {[span |-> s,
                                  role |-> IF \E e \in span(s) : e.type \in {"ACTIVATION_START", "ACTIVATION_END"}
                                           THEN "activation" ELSE (CHOOSE e \in span(s) : TRUE).type,
                                  step |-> Min({e.step : e \in span(s)}),
                                  events |-> Cardinality(span(s))] : s \in {e.span : e \in es}}])
             @@ table

(* _recompute_entity: from the activations table and the errors table.       *)
recompute_entity(table, acts, R, key) ==
    LET mine == {k \in DOMAIN acts : k[1] = key}
        errs == {r \in R : r.entity = key}
        last == CHOOSE k \in mine : \A o \in mine : o[2] <= k[2]
        closing(k) == IF acts[k].ended = {} THEN acts[k].started ELSE Max(acts[k].ended)
    IN  IF mine = {} /\ errs = {} THEN [x \in DOMAIN table \ {key} |-> table[x]]
        ELSE (key :> [first  |-> Min({acts[k].started : k \in mine} \cup {r.t : r \in errs}),
                      last   |-> Max({closing(k) : k \in mine} \cup {r.t : r \in errs}),
                      count  |-> Cardinality(mine),
                      errors |-> SumOver(mine, LAMBDA k : acts[k].errors)
                                 + Cardinality({r \in errs : r.seq = {}}),
                      latest |-> IF mine = {} THEN {} ELSE {<<last[2], acts[last].status>>}])
             @@ table

(* _recompute: traces, then activations, then the entities that read them.   *)
Recompute(E, R, acts, traces, entities) ==
    LET newActs == FoldSet(LAMBDA k, table : recompute_activation(table, E, R, k), activations, acts)
    IN  /\ activations' = newActs
        /\ trace_rows'  = FoldSet(LAMBDA t, table : recompute_trace(table, E, t), trace_rows, traces)
        /\ entity_rows' = FoldSet(LAMBDA e, table : recompute_entity(table, newActs, R, e),
                                  entity_rows, entities)

-----------------------------------------------------------------------------
StoreInit ==
    /\ feed \in Feeds
    /\ events = {} /\ dead_letters = {}
    /\ activations = <<>> /\ trace_rows = <<>> /\ entity_rows = <<>>

(* write: one transaction; the derived rows of what the batch names.         *)
Write(batch, errs) ==
    LET E == FoldSet(LAMBDA e, S : write_events(S, e), events, batch)
        R == FoldSet(LAMBDA r, S : write_errors(S, r), dead_letters, errs)
        named == {<<e.entity, e.seq>> : e \in batch}
                 \cup UNION {{<<r.entity, s>> : s \in r.seq} : r \in errs}
    IN  /\ events' = E /\ dead_letters' = R
        /\ Recompute(E, R, named, {e.trace : e \in batch},
                     {k[1] : k \in named} \cup {r.entity : r \in errs})

(* A batch arrives: an ingest endpoint, a source's read or an import.        *)
Ingest ==
    \E route \in feed.routes : \E n \in 1..MaxBatch :
        /\ \/ \E es \in kSubset(n, carried(route)) : Write({decode(e, route) : e \in es}, {})
           \/ /\ route # "otlp"
              /\ \E rs \in kSubset(n, feed.letters) : Write({}, {_error_row(r, route) : r \in rs})
        /\ UNCHANGED feed

prune_events_only(cutoff) ==
    LET E == {e \in events : e.t >= cutoff}
        R == {r \in dead_letters : r.t >= cutoff}
        acts == {<<e.entity, e.seq>> : e \in events \ E}
    IN  /\ events' = E /\ dead_letters' = R
        /\ Recompute(E, R, acts, {e.trace : e \in events \ E}, {k[1] : k \in acts})

(* _prune: what is older than the cut-off goes and the derived rows follow.  *)
_prune(cutoff) ==
    LET E == {e \in events : e.t >= cutoff}
        R == {r \in dead_letters : r.t >= cutoff}
        acts == {<<e.entity, e.seq>> : e \in events \ E}
                \cup UNION {{<<r.entity, s>> : s \in r.seq} : r \in dead_letters \ R}
    IN  /\ events' = E /\ dead_letters' = R
        /\ Recompute(E, R, acts, {e.trace : e \in events \ E},
                     {k[1] : k \in acts} \cup {r.entity : r \in dead_letters \ R})

Prune ==
    \E cutoff \in Cutoffs :
        /\ \E r \in events \cup dead_letters : r.t < cutoff
        /\ _prune(cutoff) /\ UNCHANGED feed

StoreNext == Ingest \/ Prune

-----------------------------------------------------------------------------
AllActivations == {<<e.entity, e.seq>> : e \in events}
                  \cup UNION {{<<r.entity, s>> : s \in r.seq} : r \in dead_letters}

Derived ==
    /\ DOMAIN activations = AllActivations
    /\ \A k \in AllActivations :
          activations[k] = _summarize(of_activation(events, k), scoped(dead_letters, k), k)
    /\ \A t \in {e.trace : e \in events} \cup DOMAIN trace_rows :
          trace_rows = recompute_trace(trace_rows, events, t)
    /\ \A key \in {k[1] : k \in AllActivations} \cup DOMAIN entity_rows :
          entity_rows = recompute_entity(entity_rows, activations, dead_letters, key)

mixed == "otlp" \in feed.routes /\ feed.routes # {"otlp"}

(* The derived tables say what the records say, whatever subset of them has  *)
(* arrived, in whatever batches and order, and after any sweep: rollups are  *)
(* recomputed for what a write touched, and that is all it needs.  Not where *)
(* OTLP copies mix with lossless ones: a copy then moves its event to        *)
(* another activation, and _recompute visits only the one it names.          *)
RollupsAreDerived == mixed \/ Derived

(* A copy that lacks a field never erases it, and provenance never degrades, *)
(* in whatever order the copies of an event arrive over whatever routes:     *)
(* parents, entity keys and attributes once stored stay until the event is   *)
(* swept (_store.py:24).                                                     *)
KnownStaysKnown ==
    [][ \A o \in events : \A n \in {x \in events' : identity(x) = identity(o)} :
            /\ o.parent # 0 => n.parent # 0
            /\ o.entity # 0 => n.entity # 0
            /\ DOMAIN o.attrs \subseteq DOMAIN n.attrs
            /\ n.prov = "otlp" => o.prov = "otlp" ]_storeVars

delivered(k) ==
    \A e \in of_activation(feed.trace, k) : \E s \in events : identity(s) = identity(e)

(* Once everything an activation recorded has arrived, by lossless routes,   *)
(* its status is that of its last attempt, however the events were ordered.  *)
OutcomeIsReported ==
    "otlp" \notin feed.routes =>
        \A k \in {<<e.entity, e.seq>> : e \in feed.trace} :
            (delivered(k) /\ scoped(dead_letters, k) = {}) =>
                LET all == of_activation(feed.trace, k)
                    last == latest(Types(all, "ACTIVATION_START") \cup Types(all, "ACTIVATION_END"))
                    ends == {e \in Types(all, "ACTIVATION_END") : e.span = last.span}
                IN  activations[k].status =
                      IF Types(all, "ERROR") # {} THEN "error"
                      ELSE IF ends = {} THEN "in_flight"
                      ELSE (CHOOSE e \in ends : TRUE).attrs["status"]
=============================================================================
