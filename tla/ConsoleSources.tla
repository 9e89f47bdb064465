--------------------------- MODULE ConsoleSources ---------------------------
(***************************************************************************)
(* What fills the console besides its ingest endpoints: the BigQuery       *)
(* reader's moving window (console/_sources/_bigquery.py), the Kafka       *)
(* consumer (_sources/_kafka.py) and the import of a captured stream       *)
(* (_sources/_bundle.py).  The table, the topic and the file are external. *)
(***************************************************************************)
EXTENDS Integers, Sequences, FiniteSets, FiniteSetsExt, Functions

CONSTANTS
    Rows,          \* table rows: [t (event time), lands (queryable from), ok]
    Overlap,       \* _WINDOW_OVERLAP_MS
    Lookback,      \* lookback_ms
    LastPoll,      \* bound: the last time a poll happens
    Messages,      \* the topic: a sequence of booleans, does it decode
    Captures       \* captures: [frames: sizes in bytes, trailing: bytes]

ASSUME ConsoleSourcesAssumption ==
    /\ Rows \subseteq [t : Nat, lands : Nat, ok : BOOLEAN] /\ \A r \in Rows : r.lands >= r.t
    /\ Overlap \in Nat /\ Lookback \in Nat \ {0} /\ LastPoll \in Nat
    /\ Messages \in Seq(BOOLEAN)
    /\ Captures \subseteq [frames : Seq(Nat \ {0}), trailing : Nat]

VARIABLES
    now,           \* the wall clock
    bq,            \* the reader: watermark ({} before the first), stored, since
    consumer,      \* the Kafka source: next offset, stored, failures, status
    imported       \* what the last import recovered: {} or {[capture, found]}

sourceVars == <<now, bq, consumer, imported>>

SourceInit ==
    /\ now = 0
    /\ bq = [watermark |-> {}, stored |-> {}, since |-> {}]
    /\ consumer \in {[from |-> n, next |-> n, stored |-> {}, failures |-> 0, status |-> "running"] :
                        n \in {1, Len(Messages) + 1}}
    /\ imported = {}

-----------------------------------------------------------------------------
window_resuming(at) ==
    [start |-> Max({0, IF bq.watermark = {} THEN at - Lookback ELSE Max(bq.watermark)}), end |-> at]

(* _window: from the watermark less the overlap, or back from now at first.  *)
_window(at) ==
    [start |-> Max({0, IF bq.watermark = {} THEN at - Lookback ELSE Max(bq.watermark) - Overlap}),
     end |-> at]

(* pull_once: read the window, store what decodes, advance the watermark.    *)
PullOnce ==
    LET w == _window(now)
        read == {r \in Rows : r.lands <= now /\ w.start <= r.t /\ r.t < w.end}
    IN  /\ w.start < w.end
        /\ bq' = [watermark |-> {w.end}, stored |-> bq.stored \cup {r \in read : r.ok},
                  since |-> IF bq.watermark = {} THEN {w.start} ELSE bq.since]
        /\ UNCHANGED <<now, consumer, imported>>

(* The clock moves on: between polls, or over one that failed in the query   *)
(* or in the store, which run logs and forgets.                              *)
PollInterval ==
    /\ now < LastPoll /\ now' = now + 1
    /\ UNCHANGED <<bq, consumer, imported>>

-----------------------------------------------------------------------------
(* _consume: store a message, or count one that is not an event.             *)
Consume ==
    /\ consumer.status = "running" /\ consumer.next <= Len(Messages)
    /\ consumer' = IF Messages[consumer.next]
                   THEN [consumer EXCEPT !.next = @ + 1, !.stored = @ \cup {consumer.next}]
                   ELSE [consumer EXCEPT !.next = @ + 1, !.failures = @ + 1]
    /\ UNCHANGED <<now, bq, imported>>

(* The store or the client raises: run ends, and nothing restarts it.        *)
ConsumerFails ==
    /\ consumer.status = "running" /\ consumer.next <= Len(Messages)
    /\ consumer' = [consumer EXCEPT !.status = "ended"]
    /\ UNCHANGED <<now, bq, imported>>

-----------------------------------------------------------------------------
(* _frame_bounds: where each complete frame of a payload ends.               *)
frame_ends(c) == {SumFunctionOnSet(c.frames, 1..n) : n \in DOMAIN c.frames}

length(c) == SumFunction(c.frames) + c.trailing

(* _count_at: the complete records of the first bytes, and whether that is   *)
(* all they are.                                                             *)
_count_at(c, end) == [count |-> Cardinality({e \in frame_ends(c) : e <= end}),
                      whole |-> end = 0 \/ end \in frame_ends(c)]

(* What the search carries: the bytes still in doubt, and its answer so far. *)
Searches(c) == [low : 0..(length(c) + 1), high : -1..length(c), found : 0..Len(c.frames)]

complete_prefix_strict(c) ==
    LET search[s \in Searches(c)] ==
            LET middle == (s.low + s.high) \div 2
                at == _count_at(c, middle)
            IN  IF s.low >= s.high THEN s.found
                ELSE IF at.count < Len(c.frames) THEN search[[s EXCEPT !.low = middle + 1]]
                ELSE search[[s EXCEPT !.high = middle - 1,
                                      !.found = IF at.whole THEN at.count ELSE @]]
    IN  search[[low |-> 0, high |-> length(c), found |-> 0]]

(* _complete_prefix: a binary search for the end of the last complete frame, *)
(* which is where a prefix decodes to as many records as the stream held.    *)
_complete_prefix(c) ==
    LET search[s \in Searches(c)] ==
            LET middle == (s.low + s.high) \div 2
                at == _count_at(c, middle)
            IN  IF s.low > s.high THEN s.found
                ELSE IF at.count < Len(c.frames) THEN search[[s EXCEPT !.low = middle + 1]]
                ELSE search[[s EXCEPT !.high = middle - 1,
                                      !.found = IF at.whole THEN at.count ELSE @]]
    IN  search[[low |-> 0, high |-> length(c), found |-> 0]]

(* import_bytes, before the server starts: the stream whole, or its complete *)
(* prefix marked truncated.                                                  *)
ImportBundle ==
    /\ imported = {} /\ now = 0 /\ consumer.next = consumer.from
    /\ \E c \in Captures :
          imported' = {[capture |-> c, truncated |-> c.trailing > 0,
                        found |-> IF c.trailing = 0 THEN Len(c.frames) ELSE _complete_prefix(c)]}
    /\ UNCHANGED <<now, bq, consumer>>

SourceNext ==
    \/ PollInterval \/ PullOnce
    \/ Consume \/ ConsumerFails \/ ImportBundle

-----------------------------------------------------------------------------
(* No row is skipped by the moving window: one that became queryable within  *)
(* the overlap of its event time is stored by the time the watermark has     *)
(* moved past both, however polls were spaced and whichever of them failed   *)
(* (_bigquery.py:87).                                                        *)
LateRowsAreRead ==
    \A r \in Rows :
        ( /\ r.ok /\ r.lands <= r.t + Overlap
          /\ \E s \in bq.since : s <= r.t
          /\ \E w \in bq.watermark : r.t < w - Overlap ) => r \in bq.stored

(* A capture cut off mid-record yields every record before the cut.          *)
TruncatedImportKeepsPrefix ==
    \A i \in imported : i.found = Len(i.capture.frames)
=============================================================================
