----------------------------- MODULE MCConsole -----------------------------
(* The console's parts side by side: a behaviour is one of the exporters,    *)
(* of the store with its readers, of the live feed, or of the pull sources.  *)
EXTENDS TelemetrySink, ConsoleQueries, ConsoleFeed, ConsoleSources

VARIABLE part

Ev(e, q, s, p, ty, st, t, a) ==
    [trace |-> trace_id_for(e, q), span |-> s, parent |-> p, type |-> ty,
     entity |-> e, seq |-> q, step |-> st, t |-> t, attrs |-> a]
Start(e, q, s, t, k) == Ev(e, q, s, 0, "ACTIVATION_START", 0, t, [kind |-> k])
End(e, q, s, t, k) == Ev(e, q, s, 0, "ACTIVATION_END", 3, t, [status |-> k])

(* An activation that suspends and is resumed.                               *)
Resumed == {Start(1, 0, 1, 1, "start"),
            Ev(1, 0, 2, 1, "LLM_CALL", 1, 1, [model |-> "m", tokens |-> 3, hit |-> "true"]),
            End(1, 0, 1, 3, "suspended"), Start(1, 0, 4, 4, "resume"), End(1, 0, 4, 5, "completed")}
Lost == Resumed \ {End(1, 0, 4, 5, "completed")}

(* An activation that fails, its span's parent unknown; one that asks for an *)
(* approval nobody gives.                                                    *)
Failed(q) == Ev(2, q, 6 + q, 5, "ERROR", 1, 5 + q, [reason |-> "activation_error", type |-> "T"])
Timed == {Ev(2, 0, 8, 0, "INTENT_EMITTED", 1, 2, [tool |-> "x", kind |-> "APPROVAL"]),
          Ev(2, 0, 9, 0, "ERROR", 2, 6, [reason |-> "hitl_timeout"])}

Letter(e, q, r, t) == [entity |-> e, at |-> q, reason |-> r, detail |-> "d", t |-> t]
Feed(trace, letters, routes, lists, pages) ==
    [trace |-> trace, letters |-> letters, routes |-> routes, lists |-> lists, pages |-> pages]

MCFeeds == {
    Feed(Resumed \cup Timed \cup {Failed(1)}, {Letter(2, 0, "hitl_timeout", 6)}, {"native"},
         {"activations", "entities"}, {"overview", "detail"}),
    Feed(Timed \cup {Failed(0), Failed(1)},
         {Letter(2, 0, "activation_error", 5), Letter(2, 0, "hitl_timeout", 6)}, {"native"}, {},
         {"overview"}),
    Feed(Lost, {}, {"native"}, {}, {"detail"}),
    Feed(Resumed \cup {Failed(0)}, {Letter(2, 0, "activation_error", 5)}, {"native", "otlp"}, {},
         {}),
    Feed(Resumed \cup {Failed(0)}, {}, {"otlp"}, {}, {"overview"})}
MCWindows == {[window |-> 3, buckets |-> 2], [window |-> 9, buckets |-> 4]}

MCBatches == {[id |-> 1, kind |-> "trace", from |-> "handler"],
              [id |-> 2, kind |-> "error", from |-> "handler"],
              [id |-> 3, kind |-> "error", from |-> "source"],
              [id |-> 4, kind |-> "trace", from |-> "caller"]}

MCRows == {[t |-> 1, lands |-> 2, ok |-> TRUE], [t |-> 2, lands |-> 4, ok |-> TRUE],
           [t |-> 4, lands |-> 6, ok |-> TRUE], [t |-> 3, lands |-> 3, ok |-> FALSE],
           [t |-> 3, lands |-> 6, ok |-> TRUE]}
MCMessages == <<TRUE, FALSE, TRUE>>
MCCaptures == {[frames |-> f, trailing |-> n] : f \in UNION {[1..k -> 1..2] : k \in 0..3}, n \in 0..2}

Init ==
    /\ part \in {"export", "store", "feed", "sources"}
    /\ SinkInit /\ QueryInit /\ FeedInit /\ SourceInit
    /\ part = "export" \/ exporter = "console"
    /\ part = "store" \/ feed.trace = Lost
    /\ part = "sources" \/ consumer.from = 1

Next ==
    /\ UNCHANGED part
    /\ \/ part = "export" /\ SinkNext /\ UNCHANGED <<queryVars, feedVars, sourceVars>>
       \/ part = "store" /\ QueryNext /\ UNCHANGED <<sinkVars, feedVars, sourceVars>>
       \/ part = "feed" /\ FeedNext /\ UNCHANGED <<sinkVars, queryVars, sourceVars>>
       \/ part = "sources" /\ SourceNext /\ UNCHANGED <<sinkVars, queryVars, feedVars>>

Spec == Init /\ [][Next]_<<part, sinkVars, queryVars, feedVars, sourceVars>>

(* Telemetry is delivered or counted, from the pipeline to the browser: the  *)
(* sink's accounts are exact, a pulling source skips no late row and keeps   *)
(* what precedes a cut, and whoever waits on the feed comes to see what is   *)
(* announced there.                                                          *)
TelemetryArrives ==
    /\ RecordsAccounted /\ InFlightExact /\ ExportedWereStored
    /\ LateRowsAreRead /\ TruncatedImportKeepsPrefix
    /\ NoLostWakeup /\ ListsCatchUp
=============================================================================
