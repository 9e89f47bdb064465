--------------------------- MODULE ConsoleQueries ---------------------------
(***************************************************************************)
(* The console's read side, console/_queries.py: the lists with their      *)
(* keyset pages, the unified error rows, the span tree and the attempts of *)
(* an activation, and the aggregates.  A reader walks a list page by page, *)
(* or opens a page made of several statements, while the store is written: *)
(* reader() opens no transaction, so each statement reads the store as it  *)
(* is when it runs, and what _queries.py:1534 says of one connection does  *)
(* not make them add up.                                                   *)
(***************************************************************************)
EXTENDS ConsoleStore

CONSTANTS
    PageSize,      \* limit of a page
    Windows        \* overview windows: records [window, buckets]

ASSUME ConsoleQueriesAssumption ==
    /\ \A f \in Feeds : /\ f.lists \subseteq {"activations", "traces", "entities"}
                        /\ f.pages \subseteq {"overview", "detail"}
    /\ PageSize \in Nat \ {0}
    /\ \A w \in Windows : w.window \in Nat /\ w.buckets \in Nat \ {0}

VARIABLE reader    \* the page walk or the page under way

queryVars == <<storeVars, reader>>

lower(a, b) == \E i \in DOMAIN a : a[i] < b[i] /\ \A j \in 1..(i - 1) : a[j] = b[j]

-----------------------------------------------------------------------------
(* trace_errors of _ERROR_ROWS: the ERROR events, one per activation and     *)
(* reason.                                                                   *)
trace_errors ==
    {[entity |-> e.entity, seq |-> e.seq, reason |-> e.attrs["reason"]] :
        e \in {x \in Types(events, "ERROR") : "reason" \in DOMAIN x.attrs}}

halves(t) == {e \in Types(events, "ERROR") :
                 e.entity = t.entity /\ e.seq = t.seq /\ having(e, "reason", t.reason)}

(* matched: the trace error that is the other half of record r, the earliest *)
(* when r names no activation; -1 for none.                                  *)
trace_seq(r) ==
    LET candidates == {t.seq : t \in {x \in trace_errors :
                          x.entity = r.entity /\ x.reason = r.reason /\ r.seq \subseteq {x.seq}}}
    IN  IF candidates = {} THEN -1 ELSE Min(candidates)

claims(r, t) == r.entity = t.entity /\ r.reason = t.reason /\ trace_seq(r) = t.seq

claims_any(r, t) == r.entity = t.entity /\ r.reason = t.reason

claimed_by_reason(t) == \E r \in dead_letters : claims_any(r, t)

claimed(t) == \E r \in dead_letters : claims(r, t)

(* error_rows: every record, with the attributes of its other half, and the  *)
(* trace errors no record claims.                                            *)
error_rows ==
    {[entity |-> r.entity, seq |-> r.seq, reason |-> r.reason, detail |-> {r.detail}, t |-> r.t,
      type |-> UNION {attr(e, "type") : e \in UNION {halves(t) : t \in {x \in trace_errors : claims(r, x)}}}] :
        r \in dead_letters}
    \cup
    {[entity |-> t.entity, seq |-> {t.seq}, reason |-> t.reason, detail |-> {},
      t |-> Min({e.t : e \in halves(t)}), type |-> UNION {attr(e, "type") : e \in halves(t)}] :
        t \in {x \in trace_errors : ~claimed(x)}}

-----------------------------------------------------------------------------
(* activations, traces and entities: the rows of a list with the tuple each  *)
(* orders on.                                                                *)
listing(list) ==
    IF list = "entities"
    THEN {[id |-> key, key |-> <<Max({activations[k].started : k \in {x \in DOMAIN activations : x[1] = key}}), key>>] :
             key \in {k[1] : k \in DOMAIN activations}}
    ELSE {[id |-> k, key |-> <<activations[k].started>> \o
                     (IF list = "traces" THEN activations[k].trace ELSE k)] :
             k \in DOMAIN activations}

beyond_or_at(cursor, row) == cursor = <<>> \/ lower(row.key, cursor) \/ row.key = cursor

(* The keyset comparison of a list's WHERE clause; cursor is <<>> at first.  *)
beyond(cursor, row) == cursor = <<>> \/ lower(row.key, cursor)

(* _paginate: a page and the cursor that follows it, decided by one row more.*)
_paginate(rows) ==
    IF Len(rows) <= PageSize THEN [items |-> rows, next |-> {}]
    ELSE [items |-> SubSeq(rows, 1, PageSize), next |-> {rows[PageSize].key}]

fetch(list, cursor) ==
    LET found == {row \in listing(list) : beyond(cursor, row)}
        ordered == SetToSortSeq(found, LAMBDA a, b : lower(b.key, a.key))
    IN  SubSeq(ordered, 1, Min({PageSize + 1, Len(ordered)}))

-----------------------------------------------------------------------------
(* _collect_spans: the spans of some events, with the parent and the role of *)
(* the first event of each in _EVENT_ORDER.                                  *)
first_of(S) == CHOOSE e \in S : \A o \in S \ {e} : lower(<<e.t, e.step>>, <<o.t, o.step>>)
                                   \/ (e.t = o.t /\ e.step = o.step /\ e.type = "ACTIVATION_END")

_role(e) == IF e.type \in {"ACTIVATION_START", "ACTIVATION_END"} THEN "activation" ELSE e.type

_collect_spans(S) ==
    [s \in {e.span : e \in S} |->
        LET mine == {e \in S : e.span = s}
        IN  [parent |-> first_of(mine).parent, role |-> _role(first_of(mine)),
             step |-> Min({e.step : e \in mine}), first |-> Min({e.t : e \in mine}), events |-> mine]]

is_parentless(spans, s) == spans[s].parent = 0

is_root(spans, s) == ~(spans[s].parent # 0 /\ spans[s].parent \in DOMAIN spans /\ spans[s].parent # s)

(* _span_tree: depth first over a stack, children by first time then id.     *)
_span_tree(S) ==
    LET spans == _collect_spans(S)
        sorted(ids, d) == SetToSortSeq({<<s, d>> : s \in ids},
            LAMBDA a, b : lower(<<spans[a[1]].first, a[1]>>, <<spans[b[1]].first, b[1]>>))
        children(s) == {c \in DOMAIN spans : ~is_root(spans, c) /\ spans[c].parent = s}
        visit(acc, i) ==
            IF acc.stack = <<>> THEN acc
            ELSE LET top == Head(acc.stack)
                 IN  [nodes |-> Append(acc.nodes, top),
                      stack |-> sorted(children(top[1]), top[2] + 1) \o Tail(acc.stack)]
    IN  FoldLeft(visit, [nodes |-> <<>>, stack |-> sorted({s \in DOMAIN spans : is_root(spans, s)}, 0)],
                 [i \in 1..Cardinality(DOMAIN spans) |-> i]).nodes

_attempt_status(ends, errored) ==
    IF ends # {} THEN (IF attr(first_of(ends), "status") = {} THEN "in_flight" ELSE first_of(ends).attrs["status"])
    ELSE IF errored THEN "error" ELSE "in_flight"

started_only(spans) == {s \in DOMAIN spans : \E e \in spans[s].events : e.type = "ACTIVATION_START"}

activation_spans(spans) == {s \in DOMAIN spans : spans[s].role = "activation"}

(* _attempts: one per activation span, in the order they began.              *)
_attempts(S) ==
    LET spans == _collect_spans(S)
        children(s) == {c \in DOMAIN spans : spans[c].parent = s /\ spans[c].role # "activation"}
        summary(s) == [span |-> s, start |-> spans[s].first,
                       entry  |-> Min({spans[c].step : c \in children(s)} \cup
                                      (IF children(s) = {} THEN {0} ELSE {})),
                       status |-> _attempt_status(Types(spans[s].events, "ACTIVATION_END"),
                                                  \E c \in children(s) : spans[c].role = "ERROR")]
    IN  SetToSortSeq({summary(s) : s \in activation_spans(spans)},
                     LAMBDA a, b : lower(<<a.start, a.span>>, <<b.start, b.span>>))

-----------------------------------------------------------------------------
(* _models and _tools, since a time: calls, tokens and hits per model; calls *)
(* and intents per tool.                                                     *)
_models(since) ==
    LET calls == {e \in Types(events, "LLM_CALL") : attr(e, "model") # {} /\ e.t >= since}
    IN  {LET mine == {e \in calls : having(e, "model", m)}
         IN  [model |-> m, calls |-> Cardinality(mine), tokens |-> sum_attribute(mine, "tokens"),
              hits |-> Cardinality({e \in mine : having(e, "hit", "true")}),
              measured |-> Cardinality({e \in mine : attr(e, "hit") # {}})] :
            m \in UNION {attr(e, "model") : e \in calls}}

_tools(since) ==
    LET named == {e \in events : attr(e, "tool") # {} /\ e.t >= since}
    IN  {LET mine == {e \in named : having(e, "tool", n)}
         IN  [tool |-> n, calls |-> Cardinality(Types(mine, "TOOL_CALL")),
              intents |-> Cardinality(Types(mine, "INTENT_EMITTED")), last |-> Max({e.t : e \in mine})] :
            n \in UNION {attr(e, "tool") : e \in named}}

expiry_recorded(e, i) == e.entity = i.entity /\ e.seq = {i.seq} /\ e.reason = "hitl_timeout" /\ e.detail # {}

expiry_applies(e, i) == e.entity = i.entity /\ (e.seq = {i.seq} \/ e.seq = {}) /\ e.reason = "hitl_timeout"

(* approvals: the approval intents, expired once a timeout of theirs is known.*)
approvals ==
    {[intent |-> identity(i), activation |-> <<i.entity, i.seq>>,
      escalations |-> Cardinality({l \in Types(events, "INTENT_EMITTED") :
          l.entity = i.entity /\ l.seq = i.seq /\ having(l, "kind", "APPROVAL") /\ l.t > i.t}),
      decided |-> LET times == {e.t : e \in {x \in error_rows : expiry_applies(x, i)}}
                  IN  IF times = {} THEN {} ELSE {Min(times)}] :
        i \in {e \in Types(events, "INTENT_EMITTED") : having(e, "kind", "APPROVAL")}}

-----------------------------------------------------------------------------
_bucket_size(span, buckets) == Max({1, (span + buckets - 1) \div buckets})

_series_half_open(counts, first, last, size) ==
    [b \in {i * size : i \in (first \div size)..((last \div size) - 1)} |->
        IF b \in DOMAIN counts THEN counts[b] ELSE 0]

(* _series: contiguous buckets from the first to the last, zeros in between. *)
_series(counts, first, last, size) ==
    [b \in {i * size : i \in (first \div size)..(last \div size)} |->
        IF b \in DOMAIN counts THEN counts[b] ELSE 0]

(* The rows whose times are given, weighed per bucket of the given size.     *)
bucketed(time, weight, size) ==
    LET S == DOMAIN time
        bucket(x) == (time[x] \div size) * size
    IN  [b \in {bucket(x) : x \in S} |-> SumOver({x \in S : bucket(x) = b}, LAMBDA x : weight[x])]

times(rows) == [r \in rows |-> r.t]
each_once(S) == [x \in S |-> 1]

total(f) == SumOver(DOMAIN f, LAMBDA x : f[x])

(* error_groups: the errors by reason and type, each with its series.        *)
error_groups ==
    LET rows == error_rows
        all == {r.t : r \in rows}
        size == _bucket_size(Max(all) - Min(all) + 1, 2)
    IN  {LET mine == {r \in rows : r.reason = g[1] /\ r.type = g[2]}
             seen == {r.t : r \in mine}
         IN  [reason |-> g[1], type |-> g[2], count |-> Cardinality(mine),
              entities |-> Cardinality({r.entity : r \in mine}),
              series |-> _series(bucketed(times(mine), each_once(mine), size), Min(seen), Max(seen), size)] :
            g \in {<<r.reason, r.type>> : r \in rows}}

(* _percentile, nearest rank: the fraction is n hundredths.                  *)
_percentile(values, n) ==
    LET ordered == SetToSortSeq(DOMAIN values, LAMBDA a, b :
                       values[a] < values[b] \/ (values[a] = values[b] /\ lower(a, b)))
        rank == (n * Len(ordered) + 99) \div 100
    IN  IF ordered = <<>> THEN {} ELSE {values[ordered[Max({1, rank})]]}

(* _extent: the time of the newest record.                                   *)
newest == Max({e.t : e \in events} \cup {r.t : r \in dead_letters})

recent(since) == {k \in DOMAIN activations : activations[k].started >= since}

tokens_of(x) == IF x.tokens = {} THEN 0 ELSE Max(x.tokens)

-----------------------------------------------------------------------------
(* overview, after _extent has found the newest record: its statements, in   *)
(* order, and what each returns for the window that ends there.              *)
Statements == <<"headline", "walls", "windowed", "errors", "models", "tools">>

headline(since) ==
    LET in(status) == Cardinality({k \in recent(since) : activations[k].status = status})
    IN  [activations |-> Cardinality(recent(since)),
         completed |-> in("completed"), suspended |-> in("suspended"), in_flight |-> in("in_flight"),
         failed |-> Cardinality({k \in recent(since) : activations[k].errors > 0}),
         tokens |-> total([k \in recent(since) |-> tokens_of(activations[k])])]

walls(since) ==
    [k \in {x \in recent(since) : activations[x].wall # {}} |-> Max(activations[k].wall)]

windowed(since) ==
    [started |-> [k \in recent(since) |-> activations[k].started],
     tokens  |-> [k \in recent(since) |-> tokens_of(activations[k])]]

asked(statement, since) ==
    CASE statement = "headline" -> headline(since)
      [] statement = "walls"    -> walls(since)
      [] statement = "windowed" -> windowed(since)
      [] statement = "errors"   -> {r \in error_rows : r.t >= since}
      [] statement = "models"   -> _models(since)
      [] statement = "tools"    -> _tools(since)

(* What the answers make up: buckets are counted from the rows read, over    *)
(* the window the extent gave.                                               *)
overview(answers, w, last) ==
    LET head == answers[1]  rows == answers[3]  errs == answers[4]
        since == last - w.window
        size  == _bucket_size(w.window, w.buckets)
        series(counts) == _series(counts, since, last, size)
    IN  [headline |-> head, walls |-> answers[2],
         p50 |-> _percentile(answers[2], 50), p95 |-> _percentile(answers[2], 95),
         rows |-> Cardinality(DOMAIN rows.started), errors |-> Cardinality(errs),
         activation_series |-> series(bucketed(rows.started, each_once(DOMAIN rows.started), size)),
         error_series |-> series(bucketed(times(errs), each_once(errs), size)),
         token_series |-> series(bucketed(rows.started, rows.tokens, size)),
         models |-> answers[5], tools |-> answers[6]]

-----------------------------------------------------------------------------
QueryInit == StoreInit /\ reader = [kind |-> "idle"]

Whole == "whole"           \* no write or sweep between a page's statements so far

complete(page) ==
    \/ page.kind = "overview" /\ Len(page.answers) = Len(Statements)
    \/ page.kind = "detail" /\ page.events # {}

(* A write or a sweep.  A row whose place in the list moves is no longer one *)
(* the walk must show; a page half read is torn.  Bounds: the store rests    *)
(* once a walk or a page has ended, and one such step tears a page.          *)
StoreStep ==
    /\ reader.kind = "scan" => reader.cursor # {}
    /\ reader.kind \in {"overview", "detail"} => reader.torn = Whole /\ ~complete(reader)
    /\ StoreNext
    /\ \/ reader.kind = "idle" /\ UNCHANGED reader
       \/ /\ reader.kind = "scan"
          /\ \E list \in {reader.list} : reader' = [reader EXCEPT !.stable = @ \cap listing(list)']
       \/ /\ reader.kind \in {"overview", "detail"}
          /\ \E how \in {"written", "swept"} :
                /\ how = "swept" <=> Cardinality(events' \cup dead_letters')
                                      < Cardinality(events \cup dead_letters)
                /\ reader' = [reader EXCEPT !.torn = how]

ids(page) == [i \in DOMAIN page.items |-> page.items[i].id]

(* The first page of a list, then the page after each cursor.                *)
FirstPage ==
    /\ reader.kind = "idle"
    /\ \E list \in feed.lists :
          LET page == _paginate(fetch(list, <<>>))
          IN  reader' = [kind |-> "scan", list |-> list, cursor |-> page.next,
                         listed |-> ids(page), stable |-> listing(list)]
    /\ UNCHANGED storeVars

NextPage ==
    /\ reader.kind = "scan" /\ reader.cursor # {}
    /\ LET page == _paginate(fetch(reader.list, CHOOSE c \in reader.cursor : TRUE))
       IN  reader' = [reader EXCEPT !.cursor = page.next, !.listed = @ \o ids(page)]
    /\ UNCHANGED storeVars

(* The landing page: the extent, then a statement at a time.                 *)
OpenOverview ==
    /\ reader.kind = "idle" /\ "overview" \in feed.pages
    /\ events \cup dead_letters # {}
    /\ \E w \in Windows :
          reader' = [kind |-> "overview", window |-> w, newest |-> newest, answers |-> <<>>,
                     torn |-> Whole]
    /\ UNCHANGED storeVars

NextStatement ==
    /\ reader.kind = "overview" /\ ~complete(reader)
    /\ LET since == reader.newest - reader.window.window
       IN  reader' = [reader EXCEPT !.answers = Append(@, asked(Statements[Len(@) + 1], since))]
    /\ UNCHANGED storeVars

(* activation_detail: the summary, then the events.                          *)
OpenDetail ==
    /\ reader.kind = "idle" /\ "detail" \in feed.pages
    /\ \E k \in DOMAIN activations :
          reader' = [kind |-> "detail", of |-> k, summary |-> activations[k], events |-> {},
                     torn |-> Whole]
    /\ UNCHANGED storeVars

ReadEvents ==
    /\ reader.kind = "detail" /\ ~complete(reader)
    /\ reader' = [reader EXCEPT !.events = {of_activation(events, reader.of)}]
    /\ UNCHANGED storeVars

QueryNext ==
    \/ StoreStep \/ FirstPage \/ NextPage
    \/ OpenOverview \/ NextStatement \/ OpenDetail \/ ReadEvents

-----------------------------------------------------------------------------
(* A list walked page by page while records arrive and are swept shows every *)
(* row that keeps its place exactly once: nothing is skipped at a page's     *)
(* edge, nothing is repeated, and a page that takes exactly what is left     *)
(* ends the walk with it listed (_queries.py:18).                            *)
StableRowsListedOnce ==
    (reader.kind = "scan" /\ reader.cursor = {}) =>
        \A row \in reader.stable : Cardinality({i \in DOMAIN reader.listed : reader.listed[i] = row.id}) = 1

(* The span tree holds every span of an activation once, below its parent    *)
(* when that has arrived and as a root when it has not, whichever subset of  *)
(* the events is there.                                                      *)
TreeIsComplete ==
    \A k \in DOMAIN activations :
        LET spans == _collect_spans(of_activation(events, k))
            tree == _span_tree(of_activation(events, k))
        IN  /\ Len(tree) = Cardinality(DOMAIN spans)
            /\ {tree[i][1] : i \in DOMAIN tree} = DOMAIN spans
            /\ \A i \in DOMAIN tree : tree[i][2] > 0 =>
                  \E j \in 1..(i - 1) : tree[j] = <<spans[tree[i][1]].parent, tree[i][2] - 1>>

(* A detail page agrees with itself: as many attempts as its summary counts, *)
(* and, when none is open and nothing failed, the last attempt's outcome.    *)
(* When records came in between its statements it may show more attempts     *)
(* than the summary says, never fewer.                                       *)
AttemptsAgree ==
    (reader.kind = "detail" /\ "otlp" \notin feed.routes) => \A read \in reader.events :
        LET attempts == _attempts(read)
            summary  == reader.summary
        IN  /\ (attempts # <<>> /\ reader.torn # "swept") => Len(attempts) >= summary.attempts
            /\ reader.torn = Whole =>
                  /\ attempts # <<>> => Len(attempts) = summary.attempts
                  /\ summary.status \in {"completed", "suspended"} =>
                        attempts # <<>> /\ attempts[Len(attempts)].status = summary.status

(* No failure is lost to the unification: every dead letter has its row, and *)
(* every ERROR event is a row or the other half of one.  None is counted     *)
(* twice (_queries.py:27) whose dead letter fits it alone; one that names no *)
(* activation among several takes the earliest, whichever it belongs to.     *)
NoErrorLost ==
    /\ \A r \in dead_letters : \E row \in error_rows : row.detail = {r.detail} /\ row.reason = r.reason /\ row.t = r.t
    /\ \A t \in trace_errors :
          \/ \E row \in error_rows : row.detail = {} /\ row.entity = t.entity /\ row.seq = {t.seq} /\ row.reason = t.reason
          \/ \E r \in dead_letters : claims(r, t)
    /\ \A r \in dead_letters :
          LET fits == {t \in trace_errors : claims_any(r, t) /\ r.seq \subseteq {t.seq}}
          IN  Cardinality(fits) = 1 =>
                \A row \in error_rows : \A t \in fits :
                    ~(row.detail = {} /\ row.entity = t.entity /\ row.seq = {t.seq} /\ row.reason = t.reason)

(* An approval whose timeout has been recorded, as a dead letter, as an ERROR*)
(* event or as both in either order, is not shown pending.                   *)
TimeoutsExpireApprovals ==
    \A a \in approvals :
        (\/ \E r \in dead_letters : r.entity = a.activation[1] /\ r.reason = "hitl_timeout" /\ r.seq = {a.activation[2]}
         \/ \E t \in trace_errors : <<t.entity, t.seq>> = a.activation /\ t.reason = "hitl_timeout")
        => a.decided # {}

covers(values, n, p) ==
    \A v \in p : /\ \E k \in DOMAIN values : values[k] = v
                 /\ 100 * Cardinality({k \in DOMAIN values : values[k] <= v})
                      >= n * Cardinality(DOMAIN values)

(* Two ways to the same number give it.  On any store, token spend by model  *)
(* is that by activation, and an error group's series counts its errors.  On *)
(* an overview, whatever was written between its statements: every           *)
(* activation of the headline has one outcome, a percentile is a value with  *)
(* its share of the others at or below it, no series counts more than was    *)
(* read.  On one that was read whole, no bucket loses a row at the window's  *)
(* edges: the series add up to the headline.  (On a mix of routes the        *)
(* rollups themselves may be stale: see RollupsAreDerived.)                  *)
ViewsAgree == mixed \/
    /\ SumOver(_models(0), tokens_of) = SumOver(DOMAIN activations, LAMBDA k : tokens_of(activations[k]))
    /\ \A g \in (IF error_rows = {} THEN {} ELSE error_groups) : total(g.series) = g.count
    /\ (reader.kind = "overview" /\ complete(reader)) =>
          LET o    == overview(reader.answers, reader.window, reader.newest)
              head == o.headline
          IN  /\ head.completed + head.suspended + head.in_flight + head.failed = head.activations
              /\ covers(o.walls, 50, o.p50) /\ covers(o.walls, 95, o.p95)
              /\ total(o.activation_series) <= o.rows /\ total(o.error_series) <= o.errors
              /\ reader.torn = Whole =>
                    /\ total(o.activation_series) = head.activations
                    /\ total(o.error_series) = o.errors
                    /\ total(o.token_series) = head.tokens

(* The console says what the records say, whichever of them have arrived, in *)
(* whatever order and however they are swept: rollups, outcomes, lists,      *)
(* trees, attempts, errors, approvals and aggregates agree with the events   *)
(* and with each other.                                                      *)
ConsoleTellsTheRecords ==
    /\ RollupsAreDerived /\ OutcomeIsReported
    /\ StableRowsListedOnce /\ TreeIsComplete /\ AttemptsAgree
    /\ NoErrorLost /\ TimeoutsExpireApprovals /\ ViewsAgree
=============================================================================
