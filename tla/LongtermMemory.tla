--------------------------- MODULE LongtermMemory ---------------------------
(***************************************************************************)
(* The long-term tier of one entity: memory/facade.py (LongtermMemory),    *)
(* the seq-guarded stores of memory/stores/, the commit-tail flush of      *)
(* core/loop.py and the demotion FlushToLongterm performs when the key's   *)
(* state expires.                                                          *)
(*                                                                         *)
(* The flush is outside the Beam transaction, so an attempt of an event    *)
(* may have stored some or all of its records when it fails, when its      *)
(* bundle is retried, or when its worker is lost and goes on flushing      *)
(* beside the retry (a zombie).  SQLite drops the row lock the SQL store   *)
(* asks for (memory/stores/sql.py:8), so it is a store kind of its own:    *)
(* its save reads in one step and writes in another, whatever came between.*)
(***************************************************************************)
EXTENDS Integers, Sequences, FiniteSets, SequencesExt, FiniteSetsExt, Collections

CONSTANTS
    RecordKeys,       \* record keys, a set of numbers: their order is the keys'
    ExpiryKey,        \* the key FlushToLongterm stores under
    SearchPrefixes,        \* what a prefix matches: a set of sets of keys
    Saves,            \* the keys each event's activation saves, in program order
    Backends,         \* subset of {"atomic", "sql", "sqlite"}
    MaxExpiries       \* bound: TTL wipes

ASSUME LongtermAssumption ==
    /\ RecordKeys \subseteq Nat /\ ExpiryKey \in Nat
    /\ SearchPrefixes \subseteq SUBSET (RecordKeys \cup {ExpiryKey})
    /\ Saves \in Seq(Seq(RecordKeys))
    /\ Backends \subseteq {"atomic", "sql", "sqlite"} /\ MaxExpiries \in Nat

RowKeys == RecordKeys \cup {ExpiryKey}
Sources == 1..Len(Saves)

VARIABLES
    backend,    \* the configured store's kind
    rows,       \* key -> {} or {its record}
    lt_seq,     \* SEQ of the entity's keyed state
    wipes,      \* TTL wipes so far
    event,      \* the event the runner delivers next
    live,       \* {} or {the attempt whose bundle may commit}
    zombie,     \* {} or {an attempt whose bundle cannot commit any more}
    durable     \* history: the activations that committed

longtermVars == <<backend, rows, lt_seq, wipes, event, live, zombie, durable>>

-----------------------------------------------------------------------------
(* MemoryRecord; the value is a function of the activation that staged it.   *)
Record(k, e, s) == [key |-> k, seq |-> s, value |-> <<e, s, wipes>>]

_seq_guard_applies(incoming, stored) == \A r \in stored : incoming >= r.seq

(* LongtermMemory.save keeps a dict: a re-save of a key updates its record   *)
(* in place, so a key stays where its first save put it.                     *)
first_saves(e) == {i \in DOMAIN Saves[e] : \A j \in 1..(i - 1) : Saves[e][j] # Saves[e][i]}

(* The upserts the activation of event e stages when it runs at seq s.       *)
staged_upserts(e, s) ==
    LET saved == Picked(Saves[e], first_saves(e))
    IN  [n \in DOMAIN saved |-> Record(saved[n], e, s)]

(* MemoryStore.search: the entity's matching records in key order, at most n.*)
store_search(matching, n) ==
    LET found == {k \in matching : rows[k] # {}}
        ordered == SetToSortSeq(found, <)
    IN  [i \in 1..(IF Len(ordered) < n THEN Len(ordered) ELSE n)
            |-> CHOOSE r \in rows[ordered[i]] : TRUE]

search_store_only(staged, matching, n) == store_search(matching, n)

(* LongtermMemory.search: the staged records merged over the store's answer. *)
search(staged, matching, n) ==
    LET stored == store_search(matching, n)
        own    == {staged[i] : i \in {j \in DOMAIN staged : staged[j].key \in matching}}
        merged == own \cup {r \in ToSet(stored) : \A o \in own : o.key # r.key}
        sorted == SetToSortSeq(merged, LAMBDA a, b : a.key < b.key)
    IN  SubSeq(sorted, 1, IF Len(sorted) < n THEN Len(sorted) ELSE n)

(* LongtermMemory.load: the staged record first, then the store's row.       *)
load(staged, k) ==
    LET own == {r \in ToSet(staged) : r.key = k}
    IN  IF own # {} THEN own ELSE rows[k]

-----------------------------------------------------------------------------
Attempt(e, s) ==
    [event |-> e, seq |-> s, upserts |-> staged_upserts(e, s), next |-> 1, seen |-> <<>>]

(* on_ttl with FlushToLongterm: one save of the expiring memory, at SEQ.     *)
Expiry == 0
ExpiryAttempt(s) ==
    [event |-> Expiry, seq |-> s, upserts |-> <<Record(ExpiryKey, Expiry, s)>>,
     next |-> 1, seen |-> <<>>]

flushed(a) == a.next > Len(a.upserts)
current(a) == a.upserts[a.next]

(* SELECT ... FOR UPDATE holds the row, when there is one, to the commit;    *)
(* SQLite's compiler drops the clause.                                       *)
locked(k) ==
    /\ backend = "sql"
    /\ \E a \in live \cup zombie : a.seen # <<>> /\ a.seen[1] # {} /\ current(a).key = k

(* What attempt a becomes; a zombie's steps are those of a live attempt.     *)
Becomes(a, b) ==
    /\ \/ a \in live /\ live' = {b} /\ UNCHANGED zombie
       \/ a \in zombie /\ zombie' = {b} /\ UNCHANGED live
    /\ UNCHANGED <<backend, lt_seq, wipes, event, durable>>

(* InMemory, Redis (one script), Bigtable (one conditional mutation) and     *)
(* Firestore (one transaction) decide and apply in one step.                 *)
SaveAtomic(a) ==
    LET r == current(a) IN
    /\ backend = "atomic" /\ ~flushed(a)
    /\ rows' = IF _seq_guard_applies(r.seq, rows[r.key])
               THEN [rows EXCEPT ![r.key] = {r}] ELSE rows
    /\ Becomes(a, [a EXCEPT !.next = @ + 1])

(* SqlMemoryStore._save, first half: read the stored seq, locking its row    *)
(* where the dialect has such a lock.                                        *)
SqlSelect(a) ==
    /\ backend \in {"sql", "sqlite"} /\ ~flushed(a) /\ a.seen = <<>>
    /\ ~locked(current(a).key)
    /\ Becomes(a, [a EXCEPT !.seen = <<rows[current(a).key]>>])
    /\ UNCHANGED rows

SqlWrite_upserting(a) ==
    LET r == current(a) IN
    /\ backend \in {"sql", "sqlite"} /\ ~flushed(a) /\ a.seen # <<>>
    /\ rows' = IF _seq_guard_applies(r.seq, a.seen[1])
               THEN [rows EXCEPT ![r.key] = {r}] ELSE rows
    /\ Becomes(a, [a EXCEPT !.next = @ + 1, !.seen = <<>>])

(* Second half: the guard, then INSERT or UPDATE and the commit.  An INSERT  *)
(* beside a row that appeared meanwhile breaks the primary key and raises.   *)
SqlWrite(a) ==
    LET r == current(a) IN
    /\ backend \in {"sql", "sqlite"} /\ ~flushed(a) /\ a.seen # <<>>
    /\ a.seen[1] = {} => rows[r.key] = {}
    /\ rows' = IF _seq_guard_applies(r.seq, a.seen[1])
               THEN [rows EXCEPT ![r.key] = {r}] ELSE rows
    /\ Becomes(a, [a EXCEPT !.next = @ + 1, !.seen = <<>>])

(* _flush_longterm: the staged records, in order, one save at a time.        *)
Flush == \E a \in live \cup zombie : SaveAtomic(a) \/ SqlSelect(a) \/ SqlWrite(a)

-----------------------------------------------------------------------------
LongtermInit ==
    /\ backend \in Backends
    /\ rows = [k \in RowKeys |-> {}]
    /\ lt_seq = 0 /\ wipes = 0 /\ event = 1
    /\ live = {} /\ zombie = {} /\ durable = {}

(* An activation of the next event: a first delivery or a bundle's retry.    *)
Activate ==
    /\ live = {} /\ event \in Sources
    /\ live' = {Attempt(event, lt_seq)}
    /\ UNCHANGED <<backend, rows, lt_seq, wipes, event, zombie, durable>>

(* A save raises (or the activation runs out of time): LongtermFlushFailed.  *)
(* The event is dead-lettered, the keyed state is left as it was.            *)
LongtermFlushFailed ==
    /\ \E a \in live : a.event # Expiry /\ ~flushed(a)
    /\ live' = {} /\ event' = event + 1
    /\ UNCHANGED <<backend, rows, lt_seq, wipes, zombie, durable>>

Committed(attempts) ==
    {[event |-> a.event, seq |-> a.seq, wipes |-> wipes] : a \in attempts}

CommitBundle_before_flush ==
    /\ \E a \in live : a.event # Expiry
    /\ durable' = durable \cup Committed(live)
    /\ lt_seq' = lt_seq + 1 /\ event' = event + 1 /\ live' = {}
    /\ UNCHANGED <<backend, rows, wipes, zombie>>

(* The flush returned; the bundle commits SEQ and consumes the event.        *)
CommitBundle ==
    /\ \E a \in live : a.event # Expiry /\ flushed(a)
    /\ durable' = durable \cup Committed(live)
    /\ lt_seq' = lt_seq + 1 /\ event' = event + 1 /\ live' = {}
    /\ UNCHANGED <<backend, rows, wipes, zombie>>

(* The bundle does not commit (a timer's does not when its save raises) and  *)
(* the runner retries it; the worker may be gone or may go on with the flush.*)
BundleLost ==
    /\ live # {}
    /\ zombie' \in {live, zombie}
    /\ live' = {}
    /\ UNCHANGED <<backend, rows, lt_seq, wipes, event, durable>>

ZombieEnds ==
    /\ zombie # {} /\ zombie' = {}
    /\ UNCHANGED <<backend, rows, lt_seq, wipes, event, live, durable>>

(* on_ttl fires: the demotion comes before the wipe.                         *)
Expire ==
    /\ live = {} /\ wipes < MaxExpiries /\ lt_seq > 0
    /\ live' = {ExpiryAttempt(lt_seq)}
    /\ UNCHANGED <<backend, rows, lt_seq, wipes, event, zombie, durable>>

(* The timer's bundle commits the wipe of every state cell, SEQ included.    *)
CommitWipe ==
    /\ \E a \in live : a.event = Expiry /\ flushed(a)
    /\ live' = {} /\ lt_seq' = 0 /\ wipes' = wipes + 1
    /\ UNCHANGED <<backend, rows, event, zombie, durable>>

LongtermNext ==
    \/ Activate \/ Flush \/ LongtermFlushFailed
    \/ CommitBundle \/ BundleLost \/ ZombieEnds \/ Expire \/ CommitWipe

LongtermSpec == LongtermInit /\ [][LongtermNext]_longtermVars

-----------------------------------------------------------------------------
(* A save under way read the row before it was last written.                 *)
overtaken(k) ==
    \E a \in live \cup zombie : a.seen # <<>> /\ current(a).key = k /\ a.seen[1] # rows[k]

(* A row never goes back to an older seq, whatever zombie, retry or expiry   *)
(* saves late: the guard of memory/stores/base.py:110 as each backend        *)
(* enforces it, the SQL one through a row lock and the primary key.  On      *)
(* SQLite, which takes no row lock, it goes back in one way only: under a    *)
(* save that compared its seq with a row since written again.                *)
RowsNeverRegress ==
    [][\A k \in RowKeys :
          \/ \A r \in rows[k] : \E n \in rows'[k] : n.seq >= r.seq
          \/ backend = "sqlite" /\ overtaken(k)]_longtermVars

(* What a committed activation saved is stored, or something at least as new *)
(* is, in every store but SQLite: the flush is complete before the bundle    *)
(* commits (core/loop.py:364), and nothing undoes it.                        *)
CommittedIsStored ==
    backend # "sqlite" =>
        \A c \in durable : \A k \in ToSet(Saves[c.event]) :
            \E r \in rows[k] : r.seq >= c.seq

(* An activation's search answers as if its staged saves were already rows:  *)
(* the first n matching records of the merged view, whatever the limit the   *)
(* store applied before the merge (memory/facade.py:143).                    *)
SearchReadsOwnWrites ==
    \A a \in {b \in live : b.event # Expiry} : \A p \in SearchPrefixes : \A n \in 1..Cardinality(RowKeys) :
        LET view  == {k \in p : load(a.upserts, k) # {}}
            first == {k \in view : Cardinality({j \in view : j < k}) < n}
            found == search(a.upserts, p, n)
        IN  /\ Len(found) = Cardinality(first)
            /\ \A i \in DOMAIN found : found[i] \in load(a.upserts, found[i].key)
            /\ {found[i].key : i \in DOMAIN found} = first
=============================================================================
