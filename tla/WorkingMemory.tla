---------------------------- MODULE WorkingMemory ----------------------------
(***************************************************************************)
(* The working memory of one key: memory/facade.py (Memory) with the       *)
(* in-write DropOldestCompactor and the in-activation SummarizeCompactor   *)
(* of memory/compaction.py, over activations that commit or fail.          *)
(*                                                                         *)
(* An entry is a scalar or a ring, its items reduced to their sizes.       *)
(* Entries are kept least recently used first, as in the code's dict.      *)
(***************************************************************************)
EXTENDS Integers, Sequences, FiniteSets, SequencesExt, Collections

CONSTANTS
    Names,                   \* keys an agent stores under
    Protected,               \* names with a protected prefix (resume state)
    SourceKey, SummaryKey,   \* SummarizeCompactor: the ring it folds, where to
    ItemSizes,               \* sizes of values and ring items
    LenPrefix,               \* framing of a ring item
    HardCap, SoftCap, TargetBytes, TriggerBytes,
    KeepRecent,              \* SummarizeCompactor.keep_recent
    MaxItems,                \* max_items of the agent's appends
    MaxWrites,               \* bound: accesses in an activation
    MaxActivations           \* bound: activations

ASSUME WorkingMemoryAssumption ==
    /\ Protected \subseteq Names /\ SourceKey \in Names /\ SummaryKey \in Names
    /\ SourceKey # SummaryKey
    /\ ItemSizes \subseteq Nat /\ LenPrefix \in Nat
    /\ HardCap \in Nat /\ SoftCap \in 0..HardCap /\ TargetBytes \in 1..HardCap
    /\ TriggerBytes \in Nat \ {0} /\ KeepRecent \in Nat /\ MaxItems \in Nat \ {0}
    /\ MaxWrites \in Nat /\ MaxActivations \in Nat

VARIABLES
    memory_blob,    \* the committed entries
    memory,         \* {} or {the Memory of the activation under way}
    activations     \* activations begun

workingVars == <<memory_blob, memory, activations>>

-----------------------------------------------------------------------------
Scalar(n, size) == [name |-> n, ring |-> FALSE, items |-> <<size>>]
Ring(n, items) == [name |-> n, ring |-> TRUE, items |-> items]

(* entry_size: the encoded length, kind tag and ring framing included.       *)
entry_size(e) ==
    1 + SumFunction([i \in DOMAIN e.items |-> e.items[i] + (IF e.ring THEN LenPrefix ELSE 0)])

(* What the entries at positions P take, and all of them.                    *)
bytes_at(entries, P) == SumFunctionOnSet([i \in DOMAIN entries |-> entry_size(entries[i])], P)
blob_size(entries) == bytes_at(entries, DOMAIN entries)

at(m, n) == {e \in ToSet(m.entries) : e.name = n}

(* Where the entry of n is, and the bytes it takes.                          *)
places(entries, n) == {i \in DOMAIN entries : entries[i].name = n}
old_len(m, n) == bytes_at(m.entries, places(m.entries, n))

without(entries, P) == Picked(entries, DOMAIN entries \ P)

dropping_uncounted(m, P) == [m EXCEPT !.entries = without(@, P)]

(* delete, of the entries at positions P.                                    *)
dropping(m, P) == [m EXCEPT !.entries = without(@, P), !.total = @ - bytes_at(m.entries, P)]

delete(m, n) == dropping(m, places(m.entries, n))

(* _touch: re-stamp, move to most recently used.                             *)
touch(m, n) ==
    LET P == places(m.entries, n)
    IN  [m EXCEPT !.entries = without(@, P) \o Picked(@, P)]

(* _commit: replace and move to most recently used.                          *)
commit_entry(m, e) ==
    [m EXCEPT !.entries = Append(without(@, places(@, e.name)), e),
              !.total = @ - old_len(m, e.name) + entry_size(e)]

(* The first d entries that may go, and whether they are enough.             *)
unprotected(entries, d) == {i \in 1..d : entries[i].name \notin Protected}
reaches_target(m, P) == m.total - bytes_at(m.entries, P) <= TargetBytes

compact_one(m) ==
    LET some == {d \in 0..Len(m.entries) : reaches_target(m, {}) \/ unprotected(m.entries, d) # {}}
    IN  dropping(m, unprotected(m.entries, Min(some \cup {Len(m.entries)})))

compact_newest(m) ==
    LET newest(d) == unprotected(m.entries, Len(m.entries)) \ 1..d
        enough == {d \in 0..Len(m.entries) : reaches_target(m, newest(d))}
    IN  dropping(m, newest(Max(enough \cup {0})))

compact_unprotected(m) ==
    LET enough == {d \in 0..Len(m.entries) : reaches_target(m, 1..d)}
    IN  dropping(m, 1..Min(enough \cup {Len(m.entries)}))

(* DropOldestCompactor.compact: as few of the unprotected entries as reach   *)
(* the target, least recently used first, all of them if none do.            *)
compact(m) ==
    LET enough == {d \in 0..Len(m.entries) : reaches_target(m, unprotected(m.entries, d))}
    IN  dropping(m, unprotected(m.entries, Min(enough \cup {Len(m.entries)})))

(* _maybe_soft_cap: once an activation.                                      *)
maybe_soft_cap(m) ==
    IF m.warned \/ m.total < SoftCap THEN m ELSE compact([m EXCEPT !.warned = TRUE])

prospective_total(m, e) == m.total + entry_size(e) - old_len(m, e.name)

(* _guarded_write up to its second look: the memory after the compactor ran, *)
(* if e did not fit as it was first computed.                                *)
room_for(m, e) == IF prospective_total(m, e) > HardCap THEN compact(m) ELSE m

(* The rest of it: e, computed again against what the compactor left, is     *)
(* rejected or committed.                                                    *)
guarded_write(m, e) ==
    IF prospective_total(m, e) > HardCap
    THEN [m EXCEPT !.last = [said |-> "overflow", wrote |-> e]]
    ELSE [maybe_soft_cap(commit_entry(m, e)) EXCEPT !.last = [said |-> "ok", wrote |-> e]]

set(m, n, size) == LET e == Scalar(n, size) IN guarded_write(room_for(m, e), e)

(* The items of the ring at n, none when it is absent.                       *)
ring_items(m, n) == IF at(m, n) = {} THEN <<>> ELSE (CHOOSE e \in at(m, n) : TRUE).items

last_items(items, k) == SubSeq(items, IF Len(items) > k THEN Len(items) - k + 1 ELSE 1, Len(items))

append(m, n, size, max_items) ==
    LET grown(m1) == Ring(n, last_items(Append(ring_items(m1, n), size), max_items))
        m2 == room_for(m, grown(m))
    IN  guarded_write(m2, grown(m2))

holds_ring(m, n) == \A e \in at(m, n) : e.ring
holds_scalar(m, n) == \A e \in at(m, n) : ~e.ring

-----------------------------------------------------------------------------
WorkingInit ==
    /\ memory_blob = <<>>
    /\ memory = {}
    /\ activations = 0

Nothing == [said |-> "", wrote |-> Scalar(SummaryKey, 0)]

BeginActivation ==
    /\ memory = {} /\ activations < MaxActivations
    /\ activations' = activations + 1
    /\ memory' = {[entries |-> memory_blob, total |-> blob_size(memory_blob),
                   warned |-> FALSE, writes |-> 0, last |-> Nothing]}
    /\ UNCHANGED memory_blob

(* The agent accesses its memory; an overflow it swallows leaves the         *)
(* compaction behind.  A kind mismatch raises and changes nothing.           *)
Access(m, result) ==
    /\ m.writes < MaxWrites
    /\ memory' = {[result EXCEPT !.writes = @ + 1]}
    /\ UNCHANGED <<memory_blob, activations>>

Quiet(m) == [m EXCEPT !.last = Nothing]

Set(n, size) == \E m \in memory : Access(m, set(m, n, size))

AppendItem(n, size) ==
    \E m \in memory : holds_ring(m, n) /\ Access(m, append(m, n, size, MaxItems))

(* get and ring, which both touch what they find.                            *)
Read(n) == \E m \in memory : at(m, n) # {} /\ Access(m, Quiet(touch(m, n)))

Delete(n) == \E m \in memory : at(m, n) # {} /\ Access(m, Quiet(delete(m, n)))

(* SummarizeCompactor.compact once the model has answered with a summary.    *)
folded(m) == SubSeq(ring_items(m, SourceKey), 1,
                    Len(ring_items(m, SourceKey)) - KeepRecent)

rewritten_from_oldest(m) ==
    FoldLeft(LAMBDA acc, size : append(acc, SourceKey, size, KeepRecent),
             delete(m, SourceKey),
             SubSeq(ring_items(m, SourceKey), 1, KeepRecent))

rewritten(m) ==
    LET kept == last_items(ring_items(m, SourceKey), KeepRecent)
    IN  FoldLeft(LAMBDA acc, size : append(acc, SourceKey, size, Len(kept)),
                 delete(m, SourceKey), kept)

(* Whether it goes through: kinds agree and the summary shrinks what it      *)
(* replaces.                                                                 *)
summary_valid(m, size) ==
    /\ holds_ring(m, SourceKey) /\ holds_scalar(m, SummaryKey)
    /\ size < SumFunction(folded(m))

summarized(m, size) == set(rewritten(touch(touch(m, SourceKey), SummaryKey)), SummaryKey, size)

NeedsSummary(m) == m.total >= TriggerBytes

(* run_activation's tail: tier 2 if triggered, then the commit.              *)
CommitAsIs ==
    \E m \in memory :
        /\ ~NeedsSummary(m) \/ (holds_ring(m, SourceKey) /\ folded(m) = <<>>)
        /\ memory_blob' = IF NeedsSummary(m) THEN touch(m, SourceKey).entries ELSE m.entries
        /\ memory' = {}
        /\ UNCHANGED activations

CommitSummarized(size) ==
    \E m \in memory :
        /\ NeedsSummary(m) /\ folded(m) # <<>> /\ summary_valid(m, size)
        /\ summarized(m, size).last.said = "ok"
        /\ memory_blob' = summarized(m, size).entries
        /\ memory' = {}
        /\ UNCHANGED activations

(* A raise of the agent, of the summarizer or of the bundle.                 *)
Discard ==
    /\ memory # {} /\ memory' = {}
    /\ UNCHANGED <<memory_blob, activations>>

WorkingNext ==
    \/ BeginActivation
    \/ \E n \in Names, size \in ItemSizes : Set(n, size) \/ AppendItem(n, size)
    \/ \E n \in Names : Read(n) \/ Delete(n)
    \/ CommitAsIs
    \/ \E size \in ItemSizes : CommitSummarized(size)
    \/ Discard

WorkingSpec == WorkingInit /\ [][WorkingNext]_workingVars

-----------------------------------------------------------------------------
(* Memory keeps its size by increments, through replacements, evictions and  *)
(* rewrites; the hard cap holds of what is staged and of what is committed.  *)
SizesAreExact ==
    /\ blob_size(memory_blob) <= HardCap
    /\ \A m \in memory :
          /\ m.total = blob_size(m.entries) /\ m.total <= HardCap
          /\ Cardinality({e.name : e \in ToSet(m.entries)}) = Len(m.entries)

ProtectedBytes(m) ==
    bytes_at(m.entries, {i \in DOMAIN m.entries : m.entries[i].name \in Protected})

(* MemoryOverflow is the last resort: when it is raised nothing more could   *)
(* have been evicted down to the target.                                     *)
OverflowIsLastResort ==
    \A m \in memory : m.last.said = "overflow" =>
        m.total <= TargetBytes \/ m.total = ProtectedBytes(m)

(* A write that returned is there to be read, unless the soft-cap pass had   *)
(* to evict even it: it and the protected entries alone exceed the target.   *)
WrittenIsEvictedLast ==
    \A m \in memory : m.last.said = "ok" =>
        \/ m.last.wrote \in ToSet(m.entries)
        \/ /\ m.last.wrote.name \notin Protected
           /\ ProtectedBytes(m) + entry_size(m.last.wrote) > TargetBytes

(* Resume state is never compacted away: a protected entry disappears only   *)
(* by the agent's own delete.                                                *)
ProtectedStay ==
    \A n \in Protected, m \in memory, m2 \in memory' :
        at(m, n) # {} /\ at(m2, n) = {} => m2.last = Nothing

(* A committed summary replaces the old items and nothing else: the newest   *)
(* keep_recent items of the ring survive verbatim and the summary is stored, *)
(* neither being what the pass at the soft cap would evict.                  *)
SummaryKeepsRecent ==
    \A m \in memory, size \in ItemSizes : CommitSummarized(size) =>
        {Ring(SourceKey, last_items(ring_items(m, SourceKey), KeepRecent)), Scalar(SummaryKey, size)}
            \subseteq {Ring(SourceKey, <<>>)} \cup ToSet(memory_blob')

(* Compaction takes only what it may: neither an eviction in the middle of a *)
(* write nor a summary at its end loses resume state or recent items         *)
(* (memory/compaction.py, both compactors).                                  *)
CompactionIsSafe == [][ProtectedStay /\ SummaryKeepsRecent]_workingVars

(* A write under the caps does what it says: sizes are exact, it is refused  *)
(* only when nothing was left to evict, and what it wrote is evicted last    *)
(* (memory/facade.py, _guarded_write and _maybe_soft_cap).                   *)
WritesFit == SizesAreExact /\ OverflowIsLastResort /\ WrittenIsEvictedLast
=============================================================================
