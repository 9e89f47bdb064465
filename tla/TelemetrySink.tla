---------------------------- MODULE TelemetrySink ----------------------------
(***************************************************************************)
(* Best-effort delivery of telemetry: the Beam thread and the sender       *)
(* thread of console/_sink.py (_ConsoleExportDoFn), and the OTLP exporter  *)
(* of observability/otlp.py, which differs in what it encodes and in how   *)
(* it is torn down.                                                        *)
(*                                                                         *)
(* Records are numbers; a record in Starts is an ACTIVATION_START.  The    *)
(* clocks are left out: a wait or a retry may run out of time whenever it  *)
(* waits.                                                                  *)
(***************************************************************************)
EXTENDS Integers, Sequences, FiniteSets, SequencesExt

CONSTANTS
    RecordCount,      \* records the pipeline produces, in order
    Starts,           \* which of them are ACTIVATION_START events
    BatchSize, QueueBatches,
    MaxPosts          \* bound: attempts of one batch

ASSUME SinkAssumption ==
    /\ RecordCount \in Nat /\ Starts \subseteq 1..RecordCount
    /\ BatchSize \in Nat \ {0} /\ QueueBatches \in Nat \ {0} /\ MaxPosts \in Nat \ {0}

VARIABLES
    exporter,     \* "console" or "otlp"
    fed,          \* elements processed
    out_batch,    \* _batch
    out_queue,    \* _queue: batches, <<>> for the _STOP sentinel
    held,         \* the sender: {} idle, {batch being sent}
    posts,        \* attempts of the held batch; -1 once its outcome is counted
    beam,         \* the Beam thread: running, waiting, dropping, stopping, torn
    in_flight,    \* _SenderState.in_flight_records
    tally,        \* _SenderState: exported, dropped, failures, batches_sent
    metrics,      \* what the Beam counters were told
    skipped,      \* history: records the encoder leaves out
    received      \* records the endpoint stored

sinkVars == <<exporter, fed, out_batch, out_queue, held, posts, beam, in_flight,
              tally, metrics, skipped, received>>

Zero == [exported |-> 0, dropped |-> 0, failures |-> 0, batches_sent |-> 0]
Stop == <<>>

records_in(queue) == SumFunction([i \in DOMAIN queue |-> Len(queue[i])])
queued == records_in(out_queue)
sender_holds == SumFunction([b \in held |-> Len(b)])

-----------------------------------------------------------------------------
(* setup                                                                     *)
SinkInit ==
    /\ exporter \in {"console", "otlp"}
    /\ fed = 0 /\ out_batch = <<>> /\ out_queue = <<>> /\ held = {} /\ posts = 0
    /\ beam = "running" /\ in_flight = 0 /\ tally = Zero /\ metrics = Zero
    /\ skipped = 0 /\ received = {}

enqueue_uncounted(batch) ==
    IF Len(out_queue) < QueueBatches
    THEN out_queue' = Append(out_queue, batch) /\ in_flight' = in_flight + Len(batch)
         /\ UNCHANGED tally
    ELSE UNCHANGED <<out_queue, in_flight, tally>>

(* _enqueue: put_nowait, or drop and count when the queue is full.           *)
enqueue(batch) ==
    IF Len(out_queue) < QueueBatches
    THEN out_queue' = Append(out_queue, batch) /\ in_flight' = in_flight + Len(batch)
         /\ UNCHANGED tally
    ELSE tally' = [tally EXCEPT !.dropped = @ + Len(batch)] /\ UNCHANGED <<out_queue, in_flight>>

(* _event_to_span: OTLP has no span for an ACTIVATION_START.                 *)
encodes(r) == exporter = "console" \/ r \notin Starts

(* process: encode, buffer, hand over a full batch.                          *)
Process ==
    /\ beam = "running" /\ fed < RecordCount
    /\ fed' = fed + 1
    /\ LET r == fed + 1
           grown == Append(out_batch, r)
       IN \/ /\ ~encodes(r) /\ skipped' = skipped + 1
             /\ UNCHANGED <<out_batch, out_queue, in_flight, tally>>
          \/ /\ encodes(r) /\ Len(grown) < BatchSize /\ out_batch' = grown
             /\ UNCHANGED <<out_queue, in_flight, tally, skipped>>
          \/ /\ encodes(r) /\ Len(grown) >= BatchSize /\ out_batch' = <<>>
             /\ enqueue(grown)
             /\ UNCHANGED skipped
    /\ UNCHANGED <<exporter, held, posts, beam, metrics, received>>

(* finish_bundle up to the wait for the queue to drain.                      *)
FinishBundle ==
    /\ beam = "running" /\ beam' = "waiting" /\ out_batch' = <<>>
    /\ IF out_batch = <<>> THEN UNCHANGED <<out_queue, in_flight, tally>> ELSE enqueue(out_batch)
    /\ UNCHANGED <<exporter, fed, held, posts, metrics, skipped, received>>

(* The wait ends when nothing is in flight or at the flush deadline.         *)
DrainEnds ==
    /\ beam = "waiting" /\ beam' = "dropping"
    /\ UNCHANGED <<exporter, fed, out_batch, out_queue, held, posts, in_flight, tally,
                   metrics, skipped, received>>

DropUndrained_in_flight ==
    /\ beam = "dropping" /\ out_queue # <<>>
    /\ out_queue' = Tail(out_queue)
    /\ tally' = [tally EXCEPT !.dropped = @ + Len(Head(out_queue))]
    /\ UNCHANGED <<exporter, fed, out_batch, held, posts, beam, in_flight, metrics, skipped, received>>

(* _drop_undrained: one batch at a time, beside the sender.                  *)
DropUndrained ==
    /\ beam = "dropping" /\ out_queue # <<>>
    /\ out_queue' = Tail(out_queue)
    /\ in_flight' = in_flight - Len(Head(out_queue))
    /\ tally' = [tally EXCEPT !.dropped = @ + Len(Head(out_queue))]
    /\ UNCHANGED <<exporter, fed, out_batch, held, posts, beam, metrics, skipped, received>>

(* take_counts and the counter updates, from the Beam thread.                *)
TakeCounts ==
    /\ beam = "dropping" /\ out_queue = <<>> /\ beam' = "running"
    /\ metrics' = [c \in DOMAIN metrics |-> metrics[c] + tally[c]] /\ tally' = Zero
    /\ UNCHANGED <<exporter, fed, out_batch, out_queue, held, posts, in_flight,
                   skipped, received>>

(* teardown puts _STOP, which waits for room, then waits for the sender.     *)
Teardown ==
    /\ beam = "running" /\ Len(out_queue) < QueueBatches
    /\ out_queue' = Append(out_queue, Stop) /\ beam' = "stopping"
    /\ UNCHANGED <<exporter, fed, out_batch, held, posts, in_flight, tally, metrics,
                   skipped, received>>

(* The join returns or times out.  The OTLP exporter then closes the client  *)
(* whatever the sender is doing; the console's leaves a busy sender alone.   *)
JoinReturns ==
    /\ beam = "stopping" /\ beam' = "torn"
    /\ UNCHANGED <<exporter, fed, out_batch, out_queue, held, posts, in_flight, tally,
                   metrics, skipped, received>>

-----------------------------------------------------------------------------
(* _send_loop: take the next batch, or end on _STOP.                         *)
SenderTakes ==
    /\ held = {} /\ posts = 0 /\ out_queue # <<>>
    /\ out_queue' = Tail(out_queue)
    /\ IF Head(out_queue) = Stop THEN posts' = -2 /\ UNCHANGED held
       ELSE held' = {Head(out_queue)} /\ UNCHANGED posts
    /\ UNCHANGED <<exporter, fed, out_batch, beam, in_flight, tally, metrics, skipped, received>>

client_closed == beam = "torn" /\ exporter = "otlp"

post_trusting(b, stored, answer) == answer = "lost" \/ (stored /\ answer = "ok")

(* The response says 2xx: only then are the records exported.                *)
is_success(b, stored, answer) == stored /\ answer = "ok"

(* _send: one POST.  The endpoint may store the batch whose answer is lost;  *)
(* a retryable failure with time left waits and posts again.                 *)
Send ==
    \E b \in held : \E stored \in BOOLEAN : \E answer \in {"ok", "retryable", "fatal", "lost"} :
        /\ posts >= 0 /\ posts < MaxPosts /\ ~client_closed
        /\ stored => answer \in {"ok", "lost"}
        /\ answer = "ok" => stored
        /\ received' = IF stored THEN received \cup ToSet(b) ELSE received
        /\ \/ /\ is_success(b, stored, answer) /\ posts' = -1
              /\ tally' = [tally EXCEPT !.exported = @ + Len(b), !.batches_sent = @ + 1]
           \/ /\ ~is_success(b, stored, answer)
              /\ \/ answer # "fatal" /\ posts + 1 < MaxPosts /\ posts' = posts + 1
                    /\ tally' = [tally EXCEPT !.failures = @ + 1]
                 \/ posts' = -1
                    /\ tally' = [tally EXCEPT !.failures = @ + 1, !.dropped = @ + Len(b)]
        /\ UNCHANGED <<exporter, fed, out_batch, out_queue, held, beam, in_flight, metrics, skipped>>

(* Posting through a closed client raises on the sender thread and ends it.  *)
SenderDies ==
    /\ held # {} /\ posts >= 0 /\ client_closed
    /\ posts' = -2
    /\ UNCHANGED <<exporter, fed, out_batch, out_queue, held, beam, in_flight, tally,
                   metrics, skipped, received>>

(* The rest of _send_loop: the batch is no longer in flight.                 *)
SenderDone ==
    /\ posts = -1 /\ posts' = 0 /\ held' = {}
    /\ in_flight' = in_flight - sender_holds
    /\ UNCHANGED <<exporter, fed, out_batch, out_queue, beam, tally, metrics, skipped, received>>

SinkNext ==
    \/ Process \/ FinishBundle \/ DrainEnds \/ DropUndrained \/ TakeCounts
    \/ Teardown \/ JoinReturns
    \/ SenderTakes \/ Send \/ SenderDies \/ SenderDone

-----------------------------------------------------------------------------
(* Drop-and-count is exact: every element fed to the sink is in one place,   *)
(* buffered, queued, with the sender, or counted once as exported or as      *)
(* dropped, whatever the flush does beside the sender (_sink.py:438).        *)
RecordsAccounted ==
    fed = skipped + Len(out_batch) + queued + (IF posts = -1 THEN 0 ELSE sender_holds)
          + tally.exported + tally.dropped + metrics.exported + metrics.dropped

(* What the flush waits for is what is really on its way: a count that       *)
(* leaked would make every later bundle wait out its deadline.               *)
InFlightExact == in_flight = queued + sender_holds

(* A record counted as exported was stored by the endpoint (the converse     *)
(* fails: a stored batch whose answers are all lost is counted as dropped).  *)
ExportedWereStored == tally.exported + metrics.exported <= Cardinality(received)
=============================================================================
