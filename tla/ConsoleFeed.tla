---------------------------- MODULE ConsoleFeed ----------------------------
(***************************************************************************)
(* The live feed: the ingest handlers of console/_app.py that write a      *)
(* batch in a thread and then announce it, the Broadcaster of              *)
(* console/_sse.py with one subscriber's mailbox, and the browser's hook   *)
(* of frontend/src/lib/live.ts that refetches what an event names.  The    *)
(* Kafka and BigQuery sources the app starts get neither the Broadcaster   *)
(* nor an on_batch (_app.py:412, 424): what they store is not announced.   *)
(* A caller of create_app that shares its Broadcaster, or gives a source   *)
(* an on_batch, may announce from any thread.                              *)
(***************************************************************************)
EXTENDS Integers, Sequences, FiniteSets

CONSTANTS
    Batches,        \* the batches that arrive: records [id, kind, from]
    QueueDepth,     \* queue_depth of the Broadcaster
    MaxConnects     \* bound: connections the browser makes

ASSUME ConsoleFeedAssumption ==
    /\ \A b \in Batches : b.kind \in {"trace", "error"} /\ b.from \in {"handler", "source", "caller"}
    /\ QueueDepth \in Nat \ {0} /\ MaxConnects \in Nat \ {0}

VARIABLES
    arrived,    \* batches whose handler has run: decoded
    announced,  \* batches published
    written,    \* batches in the store
    mailbox,    \* _Subscriber: queue, dropped, wakeup, and the set() calls
                \*   scheduled on its loop by publishers of other threads
    drain,      \* the generator _drain: off, take, or wait
    browser     \* the hook: status, pending kinds, and what each page shows

feedVars == <<arrived, announced, written, mailbox, drain, browser>>

Pages == {"lists", "errors"}

Empty == [queue |-> <<>>, dropped |-> 0, wakeup |-> FALSE, scheduled |-> FALSE]

FeedInit ==
    /\ arrived = {} /\ announced = {} /\ written = {} /\ mailbox = Empty /\ drain = "off"
    /\ browser = [status |-> "connecting", pending |-> {}, lists |-> {}, errors |-> {},
                  connects |-> 0, missed |-> {}]

-----------------------------------------------------------------------------
(* Who announces what it has written; the handlers do so on the event loop.  *)
announces(b) == b.from # "source"
on_loop(b) == b.from = "handler"

(* A batch arrives and decodes: a request, a poll, a caller's own.           *)
Arrive ==
    /\ \E b \in Batches \ arrived : arrived' = arrived \cup {b}
    /\ UNCHANGED <<announced, written, mailbox, drain, browser>>

(* _commit: the write runs in a thread while other handlers run.             *)
WriteBatch ==
    /\ \E b \in arrived \ written : written' = written \cup {b}
    /\ UNCHANGED <<arrived, announced, mailbox, drain, browser>>

wake_on_loop_only(m, b) == [m EXCEPT !.wakeup = @ \/ on_loop(b)]

(* _wake: set on the reader's own loop, or scheduled there from elsewhere.   *)
_wake(m, b) ==
    IF on_loop(b) THEN [m EXCEPT !.wakeup = TRUE] ELSE [m EXCEPT !.scheduled = TRUE]

(* _offer: a full mailbox loses the arrival and counts it.                   *)
_offer(m, b) ==
    IF Len(m.queue) >= QueueDepth THEN [m EXCEPT !.dropped = @ + 1]
    ELSE _wake([m EXCEPT !.queue = Append(@, b.kind)], b)

ready_at_once(b) == TRUE

ready(b) == b \in written

(* publish_batch, after the write: _coalesce and _fan_out under the lock.    *)
Publish ==
    /\ \E b \in {x \in arrived \ announced : announces(x) /\ ready(x)} :
          /\ announced' = announced \cup {b}
          /\ mailbox' = IF drain = "off" THEN mailbox ELSE _offer(mailbox, b)
          /\ browser' = IF drain = "off" THEN [browser EXCEPT !.missed = Pages] ELSE browser
    /\ UNCHANGED <<arrived, written, drain>>

(* The loop runs the callback a publisher of another thread scheduled.       *)
RunScheduledSet ==
    /\ mailbox.scheduled
    /\ mailbox' = [mailbox EXCEPT !.scheduled = FALSE, !.wakeup = TRUE]
    /\ UNCHANGED <<arrived, announced, written, drain, browser>>

-----------------------------------------------------------------------------
(* subscribe: registered before the first frame is pulled.  onopen: live.    *)
Connect ==
    /\ drain = "off" /\ browser.connects < MaxConnects
    /\ drain' = "take" /\ mailbox' = Empty
    /\ browser' = [browser EXCEPT !.status = "live", !.connects = @ + 1]
    /\ UNCHANGED <<arrived, announced, written>>

(* _take under the lock: the gap first, then the backlog, else wait.         *)
Take ==
    /\ drain = "take"
    /\ \/ /\ mailbox.dropped > 0
          /\ mailbox' = [mailbox EXCEPT !.dropped = 0]
          /\ browser' = [browser EXCEPT !.pending = @ \cup {"lagged"}] /\ UNCHANGED drain
       \/ /\ mailbox.dropped = 0 /\ mailbox.queue # <<>>
          /\ mailbox' = [mailbox EXCEPT !.queue = Tail(@)]
          /\ browser' = [browser EXCEPT !.pending = @ \cup {Head(mailbox.queue)}] /\ UNCHANGED drain
       \/ /\ mailbox.dropped = 0 /\ mailbox.queue = <<>>
          /\ mailbox' = [mailbox EXCEPT !.wakeup = FALSE]
          /\ drain' = "wait" /\ UNCHANGED browser
    /\ UNCHANGED <<arrived, announced, written>>

Resume ==
    /\ drain = "wait" /\ mailbox.wakeup /\ drain' = "take"
    /\ UNCHANGED <<arrived, announced, written, mailbox, browser>>

(* The connection is lost: _release, and onerror in the browser.             *)
Disconnect ==
    /\ drain # "off" /\ drain' = "off"
    /\ mailbox' = Empty
    /\ browser' = [browser EXCEPT !.status = "offline",
                                  !.missed = IF mailbox.queue # <<>> \/ mailbox.dropped > 0 THEN Pages ELSE @]
    /\ UNCHANGED <<arrived, announced, written>>

(* flush, every FLUSH_INTERVAL_MS: any event refetches the lists, an error   *)
(* event the error pages.                                                    *)
Flush ==
    /\ browser.pending # {}
    /\ browser' = IF "error" \in browser.pending
                  THEN [browser EXCEPT !.pending = {}, !.lists = written, !.errors = written, !.missed = {}]
                  ELSE [browser EXCEPT !.pending = {}, !.lists = written, !.missed = @ \ {"lists"}]
    /\ UNCHANGED <<arrived, announced, written, mailbox, drain>>

FeedNext ==
    \/ Arrive \/ WriteBatch \/ Publish \/ RunScheduledSet
    \/ Connect \/ Take \/ Resume \/ Disconnect \/ Flush

-----------------------------------------------------------------------------
(* No wakeup is lost between a publisher on any thread and the generator: a  *)
(* waiting one with something to deliver has been or will be woken           *)
(* (_sse.py:240).                                                            *)
NoLostWakeup ==
    (drain = "wait" /\ (mailbox.queue # <<>> \/ mailbox.dropped > 0)) =>
        (mailbox.wakeup \/ mailbox.scheduled)

Announced(batches) == {b \in batches : announces(b)}

Quiet == /\ browser.status = "live" /\ browser.pending = {}
         /\ Announced(arrived) \subseteq announced \cap written
         /\ mailbox.queue = <<>> /\ mailbox.dropped = 0

(* A dropped event costs a refresh, not a hole: once a connected browser has *)
(* handled what it was sent, its lists show every batch stored that its      *)
(* writer announces, unless one was announced while it was not connected and *)
(* nothing has come since.  A source's batches show with the next of these.  *)
ListsCatchUp ==
    (Quiet /\ "lists" \notin browser.missed) => Announced(written) \subseteq browser.lists
=============================================================================
