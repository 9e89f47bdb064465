----------------------------- MODULE StateProofs -----------------------------
(***************************************************************************)
(* What an entity's working memory, long-term rows, versioned blobs and    *)
(* physical keys keep of one another across writes, compactions, flushes,  *)
(* retries, expiries and deployments: proofs about WorkingMemory,          *)
(* LongtermMemory, StateMigration and KeySharding, for every value of      *)
(* their constants.                                                        *)
(***************************************************************************)
EXTENDS LongtermMemory, KeyedState, WorkingMemory, Foundations

-----------------------------------------------------------------------------
(* The upserts of an activation.                                             *)

\* A dict of saves keeps the first position of every key it was given.
LEMMA FirstSaves ==
    ASSUME NEW e \in Sources
    PROVE  /\ IsFiniteSet(first_saves(e))
           /\ first_saves(e) \subseteq Nat
           /\ Cardinality(first_saves(e)) \in Nat
           /\ \A k \in ToSet(Saves[e]) : \E i \in first_saves(e) : Saves[e][i] = k
<1>. Saves \in Seq(Seq(RecordKeys)) /\ e \in 1..Len(Saves)
  BY LongtermAssumption DEF Sources
<1>1. Saves[e] \in Seq(RecordKeys) /\ DOMAIN Saves[e] = 1..Len(Saves[e]) /\ Len(Saves[e]) \in Nat
  OBVIOUS
<1>2. first_saves(e) \in SUBSET (1..Len(Saves[e]))
  BY <1>1 DEF first_saves
<1>3. IsFiniteSet(first_saves(e)) /\ Cardinality(first_saves(e)) \in Nat
  <2>1. IsFiniteSet(1..Len(Saves[e]))
    BY <1>1, FS_Interval
  <2>2. QED
    BY <1>2, <2>1, FS_Subset, FS_CardinalityType
<1>4. ASSUME NEW k \in ToSet(Saves[e])
      PROVE  \E i \in first_saves(e) : Saves[e][i] = k
  <2>. DEFINE T == {i \in 1..Len(Saves[e]) : Saves[e][i] = k}
  <2>1. T \in SUBSET Nat /\ T # {}
    BY <1>1 DEF ToSet
  <2>2. PICK i \in T : \A j \in T : i <= j
    <3>. HIDE DEF T
    <3>1. QED
      BY <2>1, LeastNumber
  <2>3. \A j \in 1..(i - 1) : Saves[e][j] # Saves[e][i]
    BY <1>1, <2>2
  <2>4. QED
    BY <1>1, <2>2, <2>3 DEF first_saves
<1>5. QED
  BY <1>2, <1>3, <1>4

Values == Nat \X Nat \X Nat
Records == [key : RowKeys, seq : Nat, value : Values]

\* Every record staged bears the attempt's seq, and every key saved is staged.
LEMMA StagedUpserts ==
    ASSUME NEW e \in Sources, NEW s \in Nat, wipes \in Nat
    PROVE  /\ staged_upserts(e, s) \in Seq(Records)
           /\ \A n \in DOMAIN staged_upserts(e, s) : staged_upserts(e, s)[n].seq = s
           /\ \A k \in ToSet(Saves[e]) : \E n \in DOMAIN staged_upserts(e, s) :
                 staged_upserts(e, s)[n].key = k
<1>1. PICK P : P = first_saves(e)
  OBVIOUS
<1>2. PICK w : w = Saves[e]
  OBVIOUS
<1>3. w \in Seq(RecordKeys) /\ P \in SUBSET (1..Len(w))
  BY <1>1, <1>2, LongtermAssumption DEF Sources, first_saves
<1>4. PICK kept : kept = Picked(w, P) /\ kept \in Seq(RecordKeys) /\ IsPicked(kept, w, P)
  BY <1>3, PickedKeeps
<1>5. PICK u : u = staged_upserts(e, s)
  OBVIOUS
<1>6. u = [n \in DOMAIN kept |-> Record(kept[n], e, s)]
  BY <1>1, <1>2, <1>4, <1>5 DEF staged_upserts
<1>7. \A n \in DOMAIN u : u[n].seq = s /\ u[n].key = kept[n]
  BY <1>6 DEF Record
<1>8. u \in Seq(Records)
  <2>1. <<e, s, wipes>> \in Values
    BY DEF Values, Sources
  <2>2. \A n \in DOMAIN kept : Record(kept[n], e, s) \in Records
    BY <1>4, <2>1 DEF Record, Records, RowKeys
  <2>3. DOMAIN kept = 1..Len(kept) /\ Len(kept) \in Nat
    BY <1>4
  <2> QED BY <1>6, <2>2, <2>3
<1>9. ASSUME NEW k \in ToSet(Saves[e])
      PROVE  \E n \in DOMAIN u : u[n].key = k
  <2>1. PICK i \in P : w[i] = k
    BY <1>1, <1>2, FirstSaves
  <2>2. PICK n \in 1..Cardinality(P) : nth(P, n) = i
    BY <1>4, <2>1 DEF IsPicked
  <2>3. n \in DOMAIN u /\ kept[n] = w[i]
    BY <1>4, <1>6, <2>2 DEF IsPicked
  <2> QED BY <1>7, <2>1, <2>3
<1> QED BY <1>5, <1>7, <1>8, <1>9

-----------------------------------------------------------------------------
(* The long-term rows.                                                       *)

Attempts == [event : Sources \cup {Expiry}, seq : Nat, upserts : Seq(Records), next : Nat \ {0},
             seen : Seq(SUBSET Records)]

LongtermTypeOK ==
    /\ backend \in {"atomic", "sql", "sqlite"} /\ rows \in [RowKeys -> SUBSET Records]
    /\ lt_seq \in Nat /\ wipes \in Nat /\ event \in Nat \ {0}
    /\ live \in SUBSET Attempts /\ zombie \in SUBSET Attempts
    /\ \A a, b \in live : a = b
    /\ \A a, b \in zombie : a = b
    /\ durable \subseteq [event : Sources, seq : Nat, wipes : Nat]

Stored(k, s) == \E r \in rows[k] : r.seq >= s

\* The row attempt a has read is there, so that its transaction holds it.
holds(a) == a.seen # <<>> /\ a.seen[1] # {}

\* What attempt a has staged, flushed, and read of the row it is about to write.
AttemptInv(a) ==
    /\ \A n \in DOMAIN a.upserts : a.upserts[n].seq = a.seq
    /\ a.event # Expiry =>
         \A k \in ToSet(Saves[a.event]) : \E n \in DOMAIN a.upserts : a.upserts[n].key = k
    /\ \A n \in DOMAIN a.upserts : n < a.next => Stored(a.upserts[n].key, a.seq)
    /\ a.seen # <<>> => ~flushed(a) /\ backend = "sql"
    /\ holds(a) => rows[current(a).key] = a.seen[1]

LocksExclude ==
    \A a \in live, z \in zombie :
        holds(a) /\ holds(z) => current(a).key # current(z).key

\* Where a save is decided over the row it writes: in every store but SQLite.
LongtermInv ==
    /\ backend # "sqlite" /\ LongtermTypeOK /\ LocksExclude /\ CommittedIsStored
    /\ \A a \in live \cup zombie : AttemptInv(a)

RowsForward == \A k \in RowKeys : \A r \in rows[k] : \E n \in rows'[k] : n.seq >= r.seq

\* Rows that only move forward keep whatever is stored.
LEMMA StoredStays ==
    ASSUME LongtermTypeOK, LongtermTypeOK', RowsForward, NEW k \in RowKeys, NEW s \in Nat,
           Stored(k, s)
    PROVE  Stored(k, s)'
<1>1. PICK r \in rows[k] : r.seq >= s
  BY DEF Stored
<1>2. PICK n \in rows'[k] : n.seq >= r.seq
  BY <1>1 DEF RowsForward
<1>3. r.seq \in Nat /\ n.seq \in Nat
  BY <1>1, <1>2 DEF LongtermTypeOK, Records
<1>4. QED
  BY <1>1, <1>2, <1>3 DEF Stored

LEMMA LongtermStarts ==
    ASSUME LongtermInit
    PROVE  LongtermTypeOK /\ (backend # "sqlite" => LongtermInv)
<1>1. LongtermTypeOK
  BY LongtermAssumption DEF LongtermInit, LongtermTypeOK
<1>2. QED
  BY <1>1 DEF LongtermInit, LongtermInv, LocksExclude, CommittedIsStored

\* The record an unfinished flush is at, whatever the store.
LEMMA CurrentTyped ==
    ASSUME LongtermTypeOK, NEW a \in live \cup zombie, ~flushed(a)
    PROVE  /\ a \in Attempts /\ a.next \in DOMAIN a.upserts
           /\ current(a) = a.upserts[a.next] /\ current(a) \in Records
           /\ current(a).key \in RowKeys /\ rows[current(a).key] \in SUBSET Records
<1>1. a \in Attempts
  BY DEF LongtermTypeOK
<1>2. a.upserts \in Seq(Records) /\ a.next \in Nat \ {0} /\ a.next <= Len(a.upserts)
  BY <1>1 DEF Attempts, flushed
<1>3. a.next \in DOMAIN a.upserts /\ a.upserts[a.next] \in Records
  BY <1>2
<1>4. current(a) \in Records /\ current(a).key \in RowKeys
  BY <1>3 DEF current, Records
<1>5. QED
  BY <1>1, <1>3, <1>4 DEF current, LongtermTypeOK

\* A step of one attempt is a step between attempts, whatever the store.
LEMMA FlushTyped ==
    ASSUME LongtermTypeOK, NEW a \in live \cup zombie,
           SaveAtomic(a) \/ SqlSelect(a) \/ SqlWrite(a)
    PROVE  LongtermTypeOK' /\ backend' = backend
<1>1. ~flushed(a)
  BY DEF SaveAtomic, SqlSelect, SqlWrite
<1>2. PICK r \in Records : r = current(a)
  BY <1>1, CurrentTyped
<1>3. a \in Attempts /\ r.key \in RowKeys /\ rows[r.key] \in SUBSET Records
  BY <1>1, <1>2, CurrentTyped
<1>4. rows' \in [RowKeys -> SUBSET Records]
  <2>1. rows' = rows \/ rows' = [rows EXCEPT ![r.key] = {r}]
    BY <1>2 DEF SaveAtomic, SqlSelect, SqlWrite
  <2>2. QED
    BY <1>3, <2>1 DEF LongtermTypeOK
<1>5. \E b \in Attempts : Becomes(a, b)
  <2>1. CASE SaveAtomic(a)
    <3>1. [a EXCEPT !.next = @ + 1] \in Attempts
      BY <1>3 DEF Attempts
    <3>2. QED
      BY <2>1, <3>1 DEF SaveAtomic
  <2>2. CASE SqlSelect(a)
    <3>1. <<rows[r.key]>> \in Seq(SUBSET Records)
      BY <1>3
    <3>2. [a EXCEPT !.seen = <<rows[r.key]>>] \in Attempts
      BY <1>3, <3>1 DEF Attempts
    <3>3. QED
      BY <1>2, <2>2, <3>2 DEF SqlSelect
  <2>3. CASE SqlWrite(a)
    <3>1. [a EXCEPT !.next = @ + 1, !.seen = <<>>] \in Attempts
      <4>. DEFINE next_one == [a EXCEPT !.next = @ + 1]
      <4>1. next_one \in Attempts
        BY <1>3 DEF Attempts
      <4>. HIDE DEF next_one
      <4>5. PICK c \in Attempts : c = next_one
        BY <4>1
      <4>6. PICK none \in Seq(SUBSET Records) : none = <<>>
        <5>1. <<>> \in Seq(SUBSET Records)
          OBVIOUS
        <5>2. QED
          BY <5>1
      <4>2. [c EXCEPT !.seen = <<>>] \in Attempts
        <5>1. [c EXCEPT !.seen = none] \in Attempts
          BY DEF Attempts
        <5>2. QED
          BY <4>6, <5>1
      <4>3. [a EXCEPT !.next = @ + 1, !.seen = <<>>] = [c EXCEPT !.seen = <<>>]
        BY <4>5, Zenon DEF next_one
      <4>4. QED
        BY <4>2, <4>3
    <3>2. QED
      BY <2>3, <3>1 DEF SqlWrite
  <2>4. QED
    BY <2>1, <2>2, <2>3
<1>6. PICK b \in Attempts : Becomes(a, b)
  BY <1>5
<1>7. QED
  BY <1>4, <1>6 DEF LongtermTypeOK, Becomes

\* What an activation and the demotion of an expiring key start with.
LEMMA AttemptTyped ==
    ASSUME LongtermTypeOK, event \in Sources
    PROVE  Attempt(event, lt_seq) \in Attempts
<1>1. PICK e \in Sources : e = event
  OBVIOUS
<1>2. PICK s \in Nat : s = lt_seq
  BY DEF LongtermTypeOK
<1>3. staged_upserts(e, s) \in Seq(Records)
  BY StagedUpserts DEF LongtermTypeOK
<1>4. <<>> \in Seq(SUBSET Records)
  OBVIOUS
<1>5. [event |-> e, seq |-> s, upserts |-> staged_upserts(e, s), next |-> 1, seen |-> <<>>]
      \in Attempts
  BY <1>3, <1>4 DEF Attempts
<1>6. QED
  BY <1>1, <1>2, <1>5 DEF Attempt

LEMMA ExpiryTyped ==
    ASSUME LongtermTypeOK
    PROVE  /\ ExpiryAttempt(lt_seq) \in Attempts
           /\ AttemptInv(ExpiryAttempt(lt_seq)) /\ ~holds(ExpiryAttempt(lt_seq))
           /\ ExpiryAttempt(lt_seq).seen = <<>>
<1>1. PICK s \in Nat : s = lt_seq
  BY DEF LongtermTypeOK
<1>2. PICK r : r = Record(ExpiryKey, Expiry, s)
  OBVIOUS
<1>3. r \in Records /\ r.seq = s
  BY <1>2, LongtermAssumption DEF LongtermTypeOK, Record, Records, Values, RowKeys, Expiry
<1>4. PICK u : u = <<r>>
  OBVIOUS
<1>5. u \in Seq(Records) /\ DOMAIN u = {1} /\ u[1] = r
  BY <1>3, <1>4
<1>6. PICK b : b = [event |-> Expiry, seq |-> s, upserts |-> u, next |-> 1, seen |-> <<>>]
  OBVIOUS
<1>7. b = ExpiryAttempt(lt_seq)
  BY <1>1, <1>2, <1>4, <1>6 DEF ExpiryAttempt
<1>8. /\ b.event = Expiry /\ b.seq = s /\ b.upserts = u /\ b.next = 1 /\ b.seen = <<>>
  BY <1>6
<1>9. b \in Attempts
  <2>1. <<>> \in Seq(SUBSET Records)
    OBVIOUS
  <2>2. QED
    BY <1>5, <1>6, <2>1 DEF Attempts
<1>10. AttemptInv(b) /\ ~holds(b)
  BY <1>3, <1>5, <1>8 DEF AttemptInv, holds
<1>11. QED
  BY <1>7, <1>8, <1>9, <1>10

LEMMA LongtermTyped ==
    ASSUME LongtermTypeOK, [LongtermNext]_longtermVars
    PROVE  LongtermTypeOK' /\ backend' = backend
<1>1. CASE Flush
  BY <1>1, FlushTyped DEF Flush
<1>2. CASE Activate
  <2>1. Attempt(event, lt_seq) \in Attempts
    BY <1>2, AttemptTyped DEF Activate
  <2>2. QED
    BY <1>2, <2>1 DEF Activate, LongtermTypeOK
<1>3. CASE Expire
  <2>1. ExpiryAttempt(lt_seq) \in Attempts
    BY ExpiryTyped
  <2>2. QED
    BY <1>3, <2>1 DEF Expire, LongtermTypeOK
<1>4. CASE CommitBundle
  <2>1. PICK a \in live : a.event # Expiry /\ live = {a}
    BY <1>4 DEF CommitBundle, LongtermTypeOK
  <2>2. Committed(live) \subseteq [event : Sources, seq : Nat, wipes : Nat]
    BY <2>1 DEF Committed, LongtermTypeOK, Attempts
  <2>3. QED
    BY <1>4, <2>2 DEF CommitBundle, LongtermTypeOK
<1>5. CASE LongtermFlushFailed \/ BundleLost \/ ZombieEnds \/ CommitWipe
  BY <1>5 DEF LongtermFlushFailed, BundleLost, ZombieEnds, CommitWipe, LongtermTypeOK
<1>6. CASE UNCHANGED longtermVars
  BY <1>6 DEF longtermVars, LongtermTypeOK
<1>7. QED
  BY <1>1, <1>2, <1>3, <1>4, <1>5, <1>6 DEF LongtermNext

\* The record an unfinished flush is at.
LEMMA CurrentRecord ==
    ASSUME LongtermInv, NEW a \in live \cup zombie, ~flushed(a)
    PROVE  /\ a \in Attempts /\ AttemptInv(a)
           /\ a.next \in DOMAIN a.upserts
           /\ current(a) = a.upserts[a.next] /\ current(a) \in Records
           /\ current(a).seq = a.seq
<1>1. a \in Attempts /\ AttemptInv(a)
  BY DEF LongtermInv, LongtermTypeOK
<1>2. a.upserts \in Seq(Records) /\ a.next \in Nat \ {0} /\ a.next <= Len(a.upserts)
  BY <1>1 DEF Attempts, flushed
<1>3. a.next \in DOMAIN a.upserts /\ a.upserts[a.next] \in Records
  BY <1>2
<1>4. QED
  BY <1>1, <1>3 DEF current, AttemptInv

\* One guarded write (_seq_guard_applies before it, whichever row it looked at).
LEMMA RowWritten ==
    ASSUME LongtermTypeOK, NEW r \in Records, NEW applies \in BOOLEAN,
           rows' = IF applies THEN [rows EXCEPT ![r.key] = {r}] ELSE rows,
           applies => \A old \in rows[r.key] : r.seq >= old.seq,
           ~applies => \E old \in rows[r.key] : ~(r.seq >= old.seq)
    PROVE  /\ rows' \in [RowKeys -> SUBSET Records]
           /\ \A k \in RowKeys : k # r.key => rows'[k] = rows[k]
           /\ RowsForward
           /\ Stored(r.key, r.seq)'
<1>1. rows \in [RowKeys -> SUBSET Records] /\ r.key \in RowKeys /\ r.seq \in Nat
  BY DEF LongtermTypeOK, Records
<1>2. \A k \in RowKeys : \A old \in rows[k] : old.seq \in Nat
  BY <1>1 DEF Records
<1>3. CASE applies
  <2>1. rows' = [rows EXCEPT ![r.key] = {r}]
    BY <1>3
  <2>2. rows' \in [RowKeys -> SUBSET Records]
    BY <1>1, <2>1
  <2>3. \A k \in RowKeys : rows'[k] = IF k = r.key THEN {r} ELSE rows[k]
    BY <1>1, <2>1
  <2>4. RowsForward
    BY <1>1, <1>2, <1>3, <2>3 DEF RowsForward
  <2>5. Stored(r.key, r.seq)'
    BY <1>1, <2>3 DEF Stored
  <2>6. QED
    BY <2>2, <2>3, <2>4, <2>5
<1>4. CASE ~applies
  <2>1. rows' = rows
    BY <1>4
  <2>2. RowsForward
    BY <1>2, <2>1 DEF RowsForward
  <2>3. PICK old \in rows[r.key] : ~(r.seq >= old.seq)
    BY <1>4
  <2>4. Stored(r.key, r.seq)'
    BY <1>1, <1>2, <2>1, <2>3 DEF Stored
  <2>5. QED
    BY <1>1, <2>1, <2>2, <2>4
<1>5. QED
  BY <1>3, <1>4

\* A save of a flush, in the stores that decide and write at once and in SQL,
\* where the row read is still the row.
LEMMA SaveWrites ==
    ASSUME LongtermInv, NEW a \in live \cup zombie, SaveAtomic(a) \/ SqlWrite(a)
    PROVE  /\ rows' \in [RowKeys -> SUBSET Records]
           /\ \A k \in RowKeys : k # current(a).key => rows'[k] = rows[k]
           /\ RowsForward
           /\ Stored(current(a).key, a.seq)'
<1>1. ~flushed(a)
  BY DEF SaveAtomic, SqlWrite
<1>2. AttemptInv(a) /\ current(a) \in Records /\ current(a).seq = a.seq /\ LongtermTypeOK
  BY <1>1, CurrentRecord DEF LongtermInv
<1>. DEFINE r == current(a)
<1>3. CASE SaveAtomic(a)
  <2>. DEFINE applies == _seq_guard_applies(r.seq, rows[r.key])
  <2>1. rows' = IF applies THEN [rows EXCEPT ![r.key] = {r}] ELSE rows
    BY <1>3 DEF SaveAtomic
  <2>2. /\ applies \in BOOLEAN
        /\ applies => \A old \in rows[r.key] : r.seq >= old.seq
        /\ ~applies => \E old \in rows[r.key] : ~(r.seq >= old.seq)
    BY DEF _seq_guard_applies
  <2>. HIDE DEF applies, r
  <2>3. r \in Records /\ r = current(a) /\ r.seq = a.seq
    BY <1>2 DEF r
  <2>4. /\ rows' \in [RowKeys -> SUBSET Records]
        /\ \A k \in RowKeys : k # r.key => rows'[k] = rows[k]
        /\ RowsForward
        /\ Stored(r.key, r.seq)'
    BY ONLY <1>2, <2>1, <2>2, <2>3, RowWritten
  <2>5. Stored(r.key, r.seq)' = Stored(current(a).key, a.seq)'
    BY <2>3
  <2>6. QED
    BY <2>3, <2>4, <2>5
<1>4. CASE SqlWrite(a)
  <2>. DEFINE applies == _seq_guard_applies(r.seq, a.seen[1])
  <2>1. rows' = IF applies THEN [rows EXCEPT ![r.key] = {r}] ELSE rows
    BY <1>4 DEF SqlWrite
  <2>2. a.seen[1] = rows[r.key]
    BY <1>2, <1>4 DEF SqlWrite, AttemptInv, holds
  <2>3. /\ applies \in BOOLEAN
        /\ applies => \A old \in rows[r.key] : r.seq >= old.seq
        /\ ~applies => \E old \in rows[r.key] : ~(r.seq >= old.seq)
    BY <2>2 DEF _seq_guard_applies
  <2>. HIDE DEF applies, r
  <2>4. r \in Records /\ r = current(a) /\ r.seq = a.seq
    BY <1>2 DEF r
  <2>5. /\ rows' \in [RowKeys -> SUBSET Records]
        /\ \A k \in RowKeys : k # r.key => rows'[k] = rows[k]
        /\ RowsForward
        /\ Stored(r.key, r.seq)'
    BY ONLY <1>2, <2>1, <2>3, <2>4, RowWritten
  <2>6. Stored(r.key, r.seq)' = Stored(current(a).key, a.seq)'
    BY <2>4
  <2>7. QED
    BY <2>4, <2>5, <2>6
<1>5. QED
  BY <1>3, <1>4

\* Every record staged has a row to go to.
LEMMA UpsertsHaveRows ==
    ASSUME NEW a \in Attempts, NEW n \in DOMAIN a.upserts
    PROVE  a.upserts[n].key \in RowKeys /\ a.seq \in Nat
<1>1. a.upserts \in Seq(Records) /\ a.seq \in Nat
  BY DEF Attempts
<1>2. a.upserts[n] \in Records
  BY <1>1
<1>3. QED
  BY <1>1, <1>2 DEF Records

\* What is asked of one attempt still holds once rows have moved forward,
\* unless the row it holds has changed.
LEMMA AttemptKept ==
    ASSUME LongtermInv, LongtermTypeOK', RowsForward, backend' = backend,
           NEW c \in live \cup zombie,
           holds(c) => rows'[current(c).key] = rows[current(c).key]
    PROVE  AttemptInv(c)'
<1>1. c \in Attempts /\ AttemptInv(c) /\ LongtermTypeOK
  BY DEF LongtermInv, LongtermTypeOK
<1>2. \A n \in DOMAIN c.upserts : c.upserts[n].key \in RowKeys /\ c.seq \in Nat
  BY <1>1, UpsertsHaveRows
<1>3. \A n \in DOMAIN c.upserts : n < c.next => Stored(c.upserts[n].key, c.seq)'
  BY <1>1, <1>2, StoredStays DEF AttemptInv
<1>4. (c.seen # <<>>)' = (c.seen # <<>>) /\ flushed(c)' = flushed(c) /\ holds(c)' = holds(c)
      /\ current(c)' = current(c)
  BY DEF flushed, holds, current
<1>5. QED
  BY <1>1, <1>3, <1>4 DEF AttemptInv

\* What a committed activation saved stays stored.
LEMMA CommittedKept ==
    ASSUME LongtermInv, LongtermTypeOK', RowsForward, durable' = durable
    PROVE  CommittedIsStored'
<1>1. ASSUME NEW d \in durable, NEW k \in ToSet(Saves[d.event])
      PROVE  Stored(k, d.seq)'
  <2>1. LongtermTypeOK /\ d.event \in Sources /\ d.seq \in Nat
    BY DEF LongtermInv, LongtermTypeOK
  <2>2. k \in RowKeys
    BY <2>1, LongtermAssumption DEF Sources, ToSet, RowKeys
  <2>3. Stored(k, d.seq)
    BY DEF LongtermInv, CommittedIsStored, Stored
  <2>4. QED
    BY <2>1, <2>2, <2>3, StoredStays
<1>2. QED
  BY <1>1 DEF CommittedIsStored, Stored

\* A step of one attempt (Becomes), which touches no row another one holds.
LEMMA BecomesKeeps ==
    ASSUME LongtermInv, NEW a \in live \cup zombie, NEW b \in Attempts, Becomes(a, b),
           rows' \in [RowKeys -> SUBSET Records], RowsForward, AttemptInv(b)',
           \A c \in live \cup zombie :
               holds(c) /\ (holds(a) => current(c).key # current(a).key)
               => /\ rows'[current(c).key] = rows[current(c).key]
                  /\ holds(b) => current(c).key # current(b).key
    PROVE  LongtermInv'
<1>1. LongtermTypeOK /\ LocksExclude
  BY DEF LongtermInv
<1>2. LongtermTypeOK'
  BY <1>1 DEF LongtermTypeOK, Becomes
<1>3. backend' = backend /\ durable' = durable
  BY DEF Becomes
<1>4. CommittedIsStored'
  BY <1>2, <1>3, CommittedKept
<1>5. CASE a \in live /\ live' = {b} /\ zombie' = zombie
  <2>1. \A z \in zombie : AttemptInv(z)'
    <3>1. ASSUME NEW z \in zombie
          PROVE  holds(z) => rows'[current(z).key] = rows[current(z).key]
      BY <1>1, <1>5 DEF LocksExclude
    <3>2. QED
      BY <1>2, <1>3, <3>1, AttemptKept
  <2>2. \A z \in zombie : holds(z) /\ holds(b) => current(b).key # current(z).key
    BY <1>1, <1>5 DEF LocksExclude
  <2>3. LocksExclude'
    BY <1>5, <2>2 DEF LocksExclude, holds, current
  <2>4. QED
    BY <1>2, <1>3, <1>4, <1>5, <2>1, <2>3 DEF LongtermInv
<1>6. CASE a \in zombie /\ zombie' = {b} /\ live' = live
  <2>1. \A l \in live : AttemptInv(l)'
    <3>1. ASSUME NEW l \in live
          PROVE  holds(l) => rows'[current(l).key] = rows[current(l).key]
      BY <1>1, <1>6 DEF LocksExclude
    <3>2. QED
      BY <1>2, <1>3, <3>1, AttemptKept
  <2>2. \A l \in live : holds(l) /\ holds(b) => current(b).key # current(l).key
    BY <1>1, <1>6 DEF LocksExclude
  <2>3. LocksExclude'
    BY <1>6, <2>2 DEF LocksExclude, holds, current
  <2>4. QED
    BY <1>2, <1>3, <1>4, <1>6, <2>1, <2>3 DEF LongtermInv
<1>7. QED
  BY <1>5, <1>6 DEF Becomes

\* An attempt one record on.
Advanced(a) ==
    [event |-> a.event, seq |-> a.seq, upserts |-> a.upserts, next |-> a.next + 1, seen |-> <<>>]

LEMMA SavesKeep ==
    ASSUME LongtermInv, NEW a \in live \cup zombie, SaveAtomic(a) \/ SqlWrite(a)
    PROVE  LongtermInv' /\ RowsForward
<1>. DEFINE b == Advanced(a)
            r == current(a)
<1>1. ~flushed(a)
  BY DEF SaveAtomic, SqlWrite
<1>2. /\ a \in Attempts /\ AttemptInv(a) /\ a.next \in DOMAIN a.upserts
      /\ r = a.upserts[a.next] /\ r \in Records /\ r.seq = a.seq
  BY <1>1, CurrentRecord
<1>3. LongtermTypeOK /\ LocksExclude
  BY DEF LongtermInv
<1>4. /\ rows' \in [RowKeys -> SUBSET Records]
      /\ \A k \in RowKeys : k # r.key => rows'[k] = rows[k]
      /\ RowsForward
      /\ Stored(r.key, a.seq)'
  BY SaveWrites
<1>5. Becomes(a, b)
  <2>1. CASE SaveAtomic(a)
    <3>1. a.seen = <<>>
      BY <1>2, <2>1 DEF SaveAtomic, AttemptInv
    <3>2. [a EXCEPT !.next = @ + 1] = b
      BY <1>2, <3>1 DEF Attempts, Advanced
    <3>3. QED
      BY <2>1, <3>2 DEF SaveAtomic
  <2>2. CASE SqlWrite(a)
    <3>1. [a EXCEPT !.next = @ + 1, !.seen = <<>>] = b
      <4>1. [a EXCEPT !.next = @ + 1]
            = [event |-> a.event, seq |-> a.seq, upserts |-> a.upserts, next |-> a.next + 1,
               seen |-> a.seen]
        BY <1>2 DEF Attempts
      <4>2. [a EXCEPT !.next = @ + 1, !.seen = <<>>]
            = [[a EXCEPT !.next = @ + 1] EXCEPT !.seen = <<>>]
        BY Zenon
      <4>3. [[event |-> a.event, seq |-> a.seq, upserts |-> a.upserts, next |-> a.next + 1,
              seen |-> a.seen] EXCEPT !.seen = <<>>] = b
        BY DEF Advanced
      <4>4. QED
        BY ONLY <4>1, <4>2, <4>3
    <3>2. QED
      BY <2>2, <3>1 DEF SqlWrite
  <2>3. QED
    BY <2>1, <2>2
<1>6. b \in Attempts
  BY <1>2 DEF Attempts, Advanced
<1>7. /\ b.event = a.event /\ b.seq = a.seq /\ b.upserts = a.upserts /\ b.next = a.next + 1
      /\ b.seen = <<>>
  BY DEF Advanced
<1>8. ~holds(b)
  BY <1>7 DEF holds
<1>9. LongtermTypeOK'
  BY <1>3, <1>4, <1>5, <1>6 DEF LongtermTypeOK, Becomes
<1>10. AttemptInv(b)'
  <2>1. \A n \in DOMAIN a.upserts : a.upserts[n].key \in RowKeys /\ a.seq \in Nat
    BY <1>2, UpsertsHaveRows
  <2>2. \A n \in DOMAIN a.upserts : n < a.next => Stored(a.upserts[n].key, a.seq)'
    BY <1>2, <1>3, <1>4, <1>9, <2>1, StoredStays DEF AttemptInv
  <2>3. \A n \in DOMAIN a.upserts : n < a.next + 1 => n < a.next \/ n = a.next
    BY <1>2 DEF Attempts
  <2>4. \A n \in DOMAIN b.upserts : n < b.next => Stored(b.upserts[n].key, b.seq)'
    BY <1>2, <1>4, <1>7, <2>2, <2>3
  <2>5. QED
    BY <1>2, <1>7, <1>8, <2>4 DEF AttemptInv, holds
<1>11. ASSUME NEW c \in live \cup zombie, holds(c),
              holds(a) => current(c).key # current(a).key
       PROVE  rows'[current(c).key] = rows[current(c).key]
  <2>1. AttemptInv(c) /\ ~flushed(c)
    BY <1>11 DEF LongtermInv, AttemptInv, holds
  <2>2. current(c) \in Records /\ backend = "sql" /\ c.seen[1] = rows[current(c).key]
    BY <1>11, <2>1, CurrentRecord DEF AttemptInv, holds
  <2>3. current(c).key \in RowKeys
    BY <2>2 DEF Records
  <2>4. SqlWrite(a)
    BY <2>2 DEF SaveAtomic
  <2>5. current(c).key # r.key
    <3>1. CASE holds(a)
      BY <1>11, <3>1
    <3>2. CASE ~holds(a)
      <4>1. rows[r.key] = {}
        BY <2>4, <3>2 DEF SqlWrite, holds
      <4>2. QED
        BY <1>11, <2>2, <4>1 DEF holds
    <3>3. QED
      BY <3>1, <3>2
  <2>6. QED
    BY <1>4, <2>3, <2>5
<1>. HIDE DEF b, r
<1>12. LongtermInv'
  BY <1>4, <1>5, <1>6, <1>8, <1>10, <1>11, BecomesKeeps
<1>13. QED
  BY <1>4, <1>12

LEMMA SelectsKeep ==
    ASSUME LongtermInv, NEW a \in live \cup zombie, SqlSelect(a)
    PROVE  LongtermInv' /\ RowsForward
<1>. DEFINE r == current(a)
            after == [event |-> a.event, seq |-> a.seq, upserts |-> a.upserts, next |-> a.next,
                      seen |-> <<rows[r.key]>>]
<1>1. ~flushed(a) /\ rows' = rows
  BY DEF SqlSelect
<1>2. a \in Attempts /\ AttemptInv(a) /\ r \in Records
  BY <1>1, CurrentRecord
<1>3. LongtermTypeOK /\ LocksExclude
  BY DEF LongtermInv
<1>4. rows[r.key] \in SUBSET Records
  BY <1>2, <1>3 DEF LongtermTypeOK, Records
<1>5. PICK b \in Attempts : b = after
  <2>1. <<rows[r.key]>> \in Seq(SUBSET Records)
    BY <1>4
  <2>2. after \in Attempts
    BY <1>2, <2>1 DEF Attempts
  <2>3. QED
    BY <2>2
<1>6. Becomes(a, b)
  <2>1. [a EXCEPT !.seen = <<rows[r.key]>>] = b
    BY <1>2, <1>5 DEF Attempts
  <2>2. QED
    BY <2>1 DEF SqlSelect
<1>7. RowsForward
  <2>1. \A k \in RowKeys : \A old \in rows[k] : old.seq \in Nat
    BY <1>3 DEF LongtermTypeOK, Records
  <2>2. QED
    BY <1>1, <2>1 DEF RowsForward
<1>8. /\ b.event = a.event /\ b.seq = a.seq /\ b.upserts = a.upserts /\ b.next = a.next
      /\ b.seen = <<rows[r.key]>> /\ b.seen[1] = rows[r.key] /\ b.seen # <<>>
  BY <1>5
<1>9. current(b) = r /\ ~flushed(b) /\ backend' = "sql"
  BY <1>1, <1>6, <1>8 DEF current, flushed, Becomes, SqlSelect, LongtermInv
<1>10. AttemptInv(b)'
  <2>1. \A n \in DOMAIN b.upserts : n < b.next => Stored(b.upserts[n].key, b.seq)'
    BY <1>1, <1>2, <1>8 DEF AttemptInv, Stored
  <2>2. holds(b)' => rows'[current(b).key] = b.seen[1]
    BY <1>1, <1>8, <1>9
  <2>3. flushed(b)' = flushed(b) /\ current(b)' = current(b)
    BY DEF flushed, current
  <2>4. /\ \A n \in DOMAIN b.upserts : b.upserts[n].seq = b.seq
        /\ b.event # Expiry =>
             \A k \in ToSet(Saves[b.event]) : \E n \in DOMAIN b.upserts : b.upserts[n].key = k
    BY <1>2, <1>8 DEF AttemptInv
  <2>5. QED
    BY <1>9, <2>1, <2>2, <2>3, <2>4 DEF AttemptInv
<1>11. ASSUME NEW c \in live \cup zombie, holds(c)
       PROVE  current(c).key # r.key
  BY <1>11 DEF SqlSelect, locked, holds, LongtermInv
<1>12. rows' \in [RowKeys -> SUBSET Records]
  BY <1>1, <1>3 DEF LongtermTypeOK
<1>13. \A c \in live \cup zombie :
         holds(c) /\ (holds(a) => current(c).key # current(a).key)
         => /\ rows'[current(c).key] = rows[current(c).key]
            /\ holds(b) => current(c).key # current(b).key
  BY <1>1, <1>9, <1>11
<1>. HIDE DEF r
<1>14. LongtermInv'
  BY <1>6, <1>5, <1>7, <1>10, <1>12, <1>13, BecomesKeeps
<1>15. QED
  BY <1>7, <1>14

\* The steps that touch no row (Activate and what ends an attempt).
LEMMA RowsAside ==
    ASSUME LongtermInv, LongtermTypeOK', rows' = rows, backend' = backend,
           live' \subseteq live, zombie' \subseteq zombie \/ (live' = {} /\ zombie' \subseteq live),
           CommittedIsStored'
    PROVE  LongtermInv' /\ RowsForward
<1>1. RowsForward
  <2>1. \A k \in RowKeys : \A r \in rows[k] : r.seq \in Nat
    BY DEF LongtermInv, LongtermTypeOK, Records
  <2>2. QED
    BY <2>1 DEF RowsForward
<1>2. \A a \in live' \cup zombie' : AttemptInv(a)'
  <2>1. \A a \in live' \cup zombie' : a \in live \cup zombie
    OBVIOUS
  <2>2. QED
    BY <1>1, <2>1, AttemptKept
<1>3. LocksExclude'
  BY DEF LongtermInv, LocksExclude, holds, current
<1>4. QED
  BY <1>1, <1>2, <1>3 DEF LongtermInv

LEMMA ActivateKeeps ==
    ASSUME LongtermInv, Activate
    PROVE  LongtermInv' /\ RowsForward
<1>1. LongtermTypeOK /\ LocksExclude /\ CommittedIsStored
  BY DEF LongtermInv
<1>2. /\ event \in Sources /\ live = {} /\ live' = {Attempt(event, lt_seq)}
      /\ UNCHANGED <<backend, rows, lt_seq, wipes, event, zombie, durable>>
  BY DEF Activate
<1>3. PICK e \in Sources : e = event
  BY <1>2
<1>4. PICK s \in Nat : s = lt_seq
  BY <1>1 DEF LongtermTypeOK
<1>5. PICK u \in Seq(Records) :
         /\ u = staged_upserts(e, s)
         /\ \A n \in DOMAIN u : u[n].seq = s
         /\ \A k \in ToSet(Saves[e]) : \E n \in DOMAIN u : u[n].key = k
  <2>1. /\ staged_upserts(e, s) \in Seq(Records)
        /\ \A n \in DOMAIN staged_upserts(e, s) : staged_upserts(e, s)[n].seq = s
        /\ \A k \in ToSet(Saves[e]) : \E n \in DOMAIN staged_upserts(e, s) :
              staged_upserts(e, s)[n].key = k
    BY <1>1, StagedUpserts DEF LongtermTypeOK
  <2>2. QED
    BY <2>1, Zenon
<1>6. PICK b \in Attempts :
         b = [event |-> e, seq |-> s, upserts |-> u, next |-> 1, seen |-> <<>>]
  <2>1. <<>> \in Seq(SUBSET Records)
    OBVIOUS
  <2>2. [event |-> e, seq |-> s, upserts |-> u, next |-> 1, seen |-> <<>>] \in Attempts
    BY <2>1 DEF Attempts
  <2>3. QED
    BY <2>2
<1>7. live' = {b}
  BY <1>2, <1>3, <1>4, <1>5, <1>6 DEF Attempt
<1>8. RowsForward
  <2>1. \A k \in RowKeys : \A r \in rows[k] : r.seq \in Nat
    BY <1>1 DEF LongtermTypeOK, Records
  <2>2. QED
    BY <1>2, <2>1 DEF RowsForward
<1>9. LongtermTypeOK'
  BY <1>1, <1>2, <1>7 DEF LongtermTypeOK
<1>10. AttemptInv(b)'
  <2>1. b.event = e /\ b.seq = s /\ b.upserts = u /\ b.next = 1 /\ b.seen = <<>>
    BY <1>6
  <2>2. \A n \in DOMAIN b.upserts : ~(n < b.next)
    BY <2>1
  <2>3. QED
    BY <1>5, <2>1, <2>2 DEF AttemptInv, holds
<1>11. \A z \in zombie' : AttemptInv(z)'
  BY <1>2, <1>8, <1>9, AttemptKept
<1>12. ~holds(b)'
  BY <1>6 DEF holds
<1>13. LocksExclude'
  BY <1>7, <1>12 DEF LocksExclude
<1>14. CommittedIsStored'
  BY <1>1, <1>2 DEF CommittedIsStored
<1>15. QED
  BY <1>2, <1>7, <1>8, <1>9, <1>10, <1>11, <1>13, <1>14 DEF LongtermInv

\* The bundle commits once every record its activation staged is stored.
LEMMA CommitKeeps ==
    ASSUME LongtermInv, CommitBundle
    PROVE  LongtermInv' /\ RowsForward
<1>1. LongtermTypeOK /\ CommittedIsStored
  BY DEF LongtermInv
<1>2. /\ \A a \in live : flushed(a) /\ a.event # Expiry
      /\ durable' = durable \cup
           {[event |-> a.event, seq |-> a.seq, wipes |-> wipes] : a \in live}
      /\ lt_seq' = lt_seq + 1 /\ event' = event + 1 /\ live' = {}
      /\ UNCHANGED <<backend, rows, wipes, zombie>>
  BY <1>1 DEF CommitBundle, Committed, LongtermTypeOK
<1>3. durable' \subseteq [event : Sources, seq : Nat, wipes : Nat]
  BY <1>1, <1>2 DEF LongtermTypeOK, Attempts
<1>4. LongtermTypeOK'
  BY <1>1, <1>2, <1>3 DEF LongtermTypeOK
<1>5. ASSUME NEW a \in live, NEW k \in ToSet(Saves[a.event])
      PROVE  Stored(k, a.seq)
  <2>1. a \in Attempts /\ AttemptInv(a) /\ flushed(a)
    BY <1>1, <1>2 DEF LongtermInv, LongtermTypeOK
  <2>2. PICK n \in DOMAIN a.upserts : a.upserts[n].key = k
    BY <1>2, <2>1 DEF AttemptInv
  <2>3. n < a.next
    BY <2>1 DEF flushed, Attempts
  <2>4. QED
    BY <2>1, <2>2, <2>3 DEF AttemptInv
<1>6. ASSUME NEW d \in durable', NEW k \in ToSet(Saves[d.event])
      PROVE  Stored(k, d.seq)'
  <2>1. CASE d \in durable
    BY <1>1, <1>2, <2>1 DEF CommittedIsStored, Stored, LongtermInv
  <2>2. CASE d \notin durable
    <3>1. PICK a \in live : d = [event |-> a.event, seq |-> a.seq, wipes |-> wipes]
      BY <1>2, <2>2
    <3>2. QED
      BY <1>2, <1>5, <3>1 DEF Stored
  <2>3. QED
    BY <2>1, <2>2
<1>7. CommittedIsStored'
  BY <1>6 DEF CommittedIsStored, Stored
<1>8. QED
  BY <1>2, <1>4, <1>7, RowsAside

\* The demotion of an expiring key begins with nothing flushed, nothing read.
LEMMA ExpireKeeps ==
    ASSUME LongtermInv, Expire
    PROVE  LongtermInv' /\ RowsForward
<1>1. LongtermTypeOK /\ LocksExclude /\ CommittedIsStored
  BY DEF LongtermInv
<1>2. /\ live = {} /\ live' = {ExpiryAttempt(lt_seq)}
      /\ UNCHANGED <<backend, rows, lt_seq, wipes, event, zombie, durable>>
  BY DEF Expire
<1>3. PICK b \in Attempts : b = ExpiryAttempt(lt_seq) /\ AttemptInv(b) /\ ~holds(b) /\ b.seen = <<>>
  BY <1>1, ExpiryTyped
<1>4. live' = {b} /\ LongtermTypeOK'
  BY <1>1, <1>2, <1>3 DEF LongtermTypeOK
<1>5. RowsForward
  <2>1. \A k \in RowKeys : \A r \in rows[k] : r.seq \in Nat
    BY <1>1 DEF LongtermTypeOK, Records
  <2>2. QED
    BY <1>2, <2>1 DEF RowsForward
<1>6. AttemptInv(b)'
  BY <1>2, <1>3 DEF AttemptInv, Stored, holds
<1>7. \A z \in zombie' : AttemptInv(z)'
  BY <1>2, <1>4, <1>5, AttemptKept
<1>8. LocksExclude'
  BY <1>3, <1>4 DEF LocksExclude, holds
<1>9. CommittedIsStored' /\ backend' # "sqlite"
  BY <1>1, <1>2 DEF CommittedIsStored, LongtermInv
<1>10. QED
  BY <1>4, <1>5, <1>6, <1>7, <1>8, <1>9 DEF LongtermInv

LEMMA LongtermStep ==
    ASSUME LongtermInv, [LongtermNext]_longtermVars
    PROVE  LongtermInv' /\ RowsForward
<1>1. LongtermTypeOK /\ CommittedIsStored
  BY DEF LongtermInv
<1>2. CASE Flush
  BY <1>2, SavesKeep, SelectsKeep DEF Flush
<1>3. CASE Activate
  BY <1>3, ActivateKeeps
<1>4. CASE LongtermFlushFailed
  <2>1. LongtermTypeOK' /\ CommittedIsStored'
    BY <1>1, <1>4 DEF LongtermFlushFailed, LongtermTypeOK, CommittedIsStored
  <2>2. QED
    BY <1>4, <2>1, RowsAside DEF LongtermFlushFailed
<1>5. CASE CommitBundle
  BY <1>5, CommitKeeps
<1>6. CASE BundleLost
  <2>1. LongtermTypeOK' /\ CommittedIsStored'
    BY <1>1, <1>6 DEF BundleLost, LongtermTypeOK, CommittedIsStored
  <2>2. QED
    BY <1>6, <2>1, RowsAside DEF BundleLost
<1>7. CASE ZombieEnds
  <2>1. LongtermTypeOK' /\ CommittedIsStored'
    BY <1>1, <1>7 DEF ZombieEnds, LongtermTypeOK, CommittedIsStored
  <2>2. QED
    BY <1>7, <2>1, RowsAside DEF ZombieEnds
<1>8. CASE Expire
  BY <1>8, ExpireKeeps
<1>11. CASE CommitWipe
  <2>1. LongtermTypeOK' /\ CommittedIsStored'
    BY <1>1, <1>11 DEF CommitWipe, LongtermTypeOK, CommittedIsStored
  <2>2. QED
    BY <1>11, <2>1, RowsAside DEF CommitWipe
<1>9. CASE UNCHANGED longtermVars
  <2>1. LongtermTypeOK' /\ CommittedIsStored'
    BY <1>1, <1>9 DEF longtermVars, LongtermTypeOK, CommittedIsStored
  <2>2. QED
    BY <1>9, <2>1, RowsAside DEF longtermVars
<1>10. QED
  BY <1>2, <1>3, <1>4, <1>5, <1>6, <1>7, <1>8, <1>9, <1>11 DEF LongtermNext

\* Over SQLite a save that saw the row as it is writes no older seq; one that
\* did not is overtaken.
LEMMA SqliteForward ==
    ASSUME LongtermTypeOK, backend = "sqlite", [LongtermNext]_longtermVars, NEW k \in RowKeys
    PROVE  \/ \A r \in rows[k] : \E n \in rows'[k] : n.seq >= r.seq
           \/ overtaken(k)
<1>1. \A r \in rows[k] : r.seq \in Nat
  BY DEF LongtermTypeOK, Records
<1>2. CASE rows' = rows
  BY <1>1, <1>2
<1>3. CASE rows' # rows
  <2>1. PICK a \in live \cup zombie : SqlWrite(a)
    BY <1>3 DEF LongtermNext, longtermVars, Flush, SaveAtomic, SqlSelect, Activate, Expire,
                LongtermFlushFailed, CommitBundle, CommitWipe, BundleLost, ZombieEnds
  <2>2. ~flushed(a)
    BY <2>1 DEF SqlWrite
  <2>3. PICK r \in Records : r = current(a) /\ r.key \in RowKeys
    BY <2>2, CurrentTyped
  <2>4. a.seen # <<>> /\ rows' = [rows EXCEPT ![r.key] = {r}] /\ \A o \in a.seen[1] : r.seq >= o.seq
    BY <1>3, <2>1, <2>3 DEF SqlWrite, _seq_guard_applies
  <2>5. CASE k # r.key
    BY <1>1, <2>3, <2>4, <2>5 DEF LongtermTypeOK
  <2>6. CASE k = r.key /\ a.seen[1] # rows[k]
    BY <2>3, <2>4, <2>6 DEF overtaken
  <2>7. CASE k = r.key /\ a.seen[1] = rows[k]
    <3>1. rows'[k] = {r}
      BY <2>3, <2>4, <2>7 DEF LongtermTypeOK
    <3>2. QED
      BY <2>4, <2>7, <3>1
  <2>8. QED
    BY <2>5, <2>6, <2>7
<1>4. QED
  BY <1>2, <1>3

\* A behaviour keeps its store; what is kept of the rows depends on it.
LongtermIInv == LongtermTypeOK /\ (backend # "sqlite" => LongtermInv)

LEMMA LongtermKept ==
    ASSUME LongtermIInv, [LongtermNext]_longtermVars
    PROVE  LongtermIInv'
<1>1. LongtermTypeOK' /\ backend' = backend
  BY LongtermTyped DEF LongtermIInv
<1>2. QED
  BY <1>1, LongtermStep DEF LongtermIInv

\* Whatever zombie, retry or expiry saves late, no row goes back to an older
\* seq: the guard of memory/stores/base.py:110 as each backend enforces it.
\* SQLite, without a row lock, lets one go back, under a save that read the
\* row before it was last written, and in no other way.
THEOREM RowsOnlyForward == LongtermSpec => RowsNeverRegress
<1>1. LongtermInit => LongtermIInv
  BY LongtermStarts DEF LongtermIInv
<1>2. LongtermIInv /\ [LongtermNext]_longtermVars => LongtermIInv'
  BY LongtermKept
<1>3. LongtermIInv /\ [LongtermNext]_longtermVars
      => [\A k \in RowKeys :
            \/ \A r \in rows[k] : \E n \in rows'[k] : n.seq >= r.seq
            \/ backend = "sqlite" /\ overtaken(k)]_longtermVars
  <2>. SUFFICES ASSUME LongtermIInv, [LongtermNext]_longtermVars, NEW k \in RowKeys
                PROVE  \/ \A r \in rows[k] : \E n \in rows'[k] : n.seq >= r.seq
                       \/ backend = "sqlite" /\ overtaken(k)
    OBVIOUS
  <2>1. CASE backend = "sqlite"
    BY <2>1, SqliteForward DEF LongtermIInv
  <2>2. CASE backend # "sqlite"
    BY <2>2, LongtermStep DEF LongtermIInv, RowsForward
  <2>3. QED
    BY <2>1, <2>2
<1>4. QED
  BY <1>1, <1>2, <1>3, PTL DEF LongtermSpec, RowsNeverRegress

\* In every store but SQLite, what a committed activation saved is stored, or
\* something at least as new is, for good: the flush is complete before the
\* bundle commits (core/loop.py:364), and no later save undoes it.
THEOREM CommittedSavesStay == LongtermSpec => []CommittedIsStored
<1>1. LongtermInit => LongtermIInv
  BY LongtermStarts DEF LongtermIInv
<1>2. LongtermIInv /\ [LongtermNext]_longtermVars => LongtermIInv'
  BY LongtermKept
<1>3. LongtermIInv => CommittedIsStored
  BY DEF LongtermIInv, LongtermInv, CommittedIsStored
<1>4. QED
  BY <1>1, <1>2, <1>3, PTL DEF LongtermSpec

-----------------------------------------------------------------------------
(* Versioned blobs.                                                          *)

\* What the chain of registered steps makes of blob b, version by version.
IsChain(walk, b, target) ==
    walk = [n \in version_of(b)..target |->
              IF n = version_of(b) THEN b ELSE migration_step(walk[n - 1], n - 1)]

\* The chain of registered steps, from a blob's own version to the binary's:
\* walked as migrate_to_current walks it, no step meets another's layout.
LEMMA ChainArrives ==
    ASSUME NEW b, NEW v \in Nat \ {0}, NEW target \in Nat, v <= target,
           version_of(b) = v, b.layout = v,
           NEW walk, IsChain(walk, b, target)
    PROVE  \A n \in v..target : n > v => walk[n] = [stamp |-> n, layout |-> n]
<1>. DEFINE T == {n \in v..target : n > v /\ walk[n] # [stamp |-> n, layout |-> n]}
<1>1. SUFFICES ASSUME T # {}
               PROVE  FALSE
  OBVIOUS
<1>2. T \in SUBSET Nat
  OBVIOUS
<1>3. PICK m \in T : \A k \in T : m <= k
  <2>. HIDE DEF T
  <2>1. QED
    BY <1>1, <1>2, LeastNumber
<1>4. m \in v..target /\ m > v /\ walk[m] # [stamp |-> m, layout |-> m]
  BY <1>3
<1>. DEFINE next(f) == [n \in v..target |-> IF n = v THEN b ELSE migration_step(f[n - 1], n - 1)]
<1>5. walk = next(walk)
  BY DEF IsChain
<1>6. \A n \in v..target : next(walk)[n] = IF n = v THEN b ELSE migration_step(walk[n - 1], n - 1)
  OBVIOUS
<1>. HIDE DEF next
<1>7. \A n \in v..target : walk[n] = IF n = v THEN b ELSE migration_step(walk[n - 1], n - 1)
  BY ONLY <1>5, <1>6
<1>8. walk[m] = migration_step(walk[m - 1], m - 1)
  BY <1>4, <1>7
<1>9. walk[m - 1].layout = m - 1
  <2>1. CASE m - 1 = v
    <3>1. walk[v] = b
      BY <1>4, <1>7
    <3>2. QED
      BY <2>1, <3>1
  <2>2. CASE m - 1 # v
    <3>1. m - 1 \in v..target /\ m - 1 > v /\ ~(m <= m - 1)
      BY <1>4, <2>2
    <3>2. m - 1 \notin T
      BY <1>3, <3>1
    <3>3. walk[m - 1] = [stamp |-> m - 1, layout |-> m - 1]
      BY <3>1, <3>2
    <3>4. QED
      BY <3>3
  <2>3. QED
    BY <2>1, <2>2
<1>10. walk[m] = [stamp |-> m, layout |-> m]
  BY <1>4, <1>8, <1>9 DEF migration_step
<1>11. QED
  BY <1>4, <1>10

\* The chain's recursive definition has a solution.
LEMMA ChainExists ==
    ASSUME NEW b, NEW v \in Nat \ {0}, NEW target \in Nat, v <= target,
           version_of(b) = v, b.layout = v
    PROVE  \E walk : IsChain(walk, b, target)
<1>. DEFINE solution == [n \in v..target |->
                           IF n = v THEN b ELSE [stamp |-> n, layout |-> n]]
<1>1. \A n \in v..target : n # v => migration_step(solution[n - 1], n - 1) = [stamp |-> n, layout |-> n]
  <2>1. SUFFICES ASSUME NEW n \in v..target, n # v
                 PROVE  migration_step(solution[n - 1], n - 1) = [stamp |-> n, layout |-> n]
    OBVIOUS
  <2>2. n - 1 \in v..target /\ n - 1 + 1 = n
    BY <2>1
  <2>3. solution[n - 1].layout = n - 1
    BY <2>2
  <2>. HIDE DEF solution
  <2>4. QED
    BY <2>2, <2>3 DEF migration_step
<1>2. solution = [n \in v..target |->
                    IF n = v THEN b ELSE migration_step(solution[n - 1], n - 1)]
  BY <1>1
<1>. HIDE DEF solution
<1>3. IsChain(solution, b, target)
  BY <1>2 DEF IsChain
<1>4. QED
  BY <1>3

\* migrate_to_current leaves a blob of the version it is asked for, and every
\* blob that is not older as it is.
LEMMA MigratedIsCurrent ==
    ASSUME NEW b, NEW v \in Nat \ {0}, NEW target \in Nat,
           version_of(b) = v, b.layout = v
    PROVE  /\ v >= target => migrate_to_current(b, target) = b
           /\ v < target => migrate_to_current(b, target) = Blob(target)
<1>. DEFINE chain == CHOOSE walk : IsChain(walk, b, target)
<1>1. migrate_to_current(b, target) = IF version_of(b) >= target THEN b ELSE chain[target]
  BY DEF migrate_to_current, IsChain
<1>2. CASE v < target
  <2>1. IsChain(chain, b, target)
    BY <1>2, ChainExists
  <2>. HIDE DEF chain
  <2>2. target \in v..target
    BY <1>2
  <2>3. chain[target] = [stamp |-> target, layout |-> target]
    BY <1>2, <2>1, <2>2, ChainArrives
  <2>4. QED
    BY <1>1, <1>2, <2>3 DEF Blob
<1>3. QED
  BY <1>1, <1>2

\* Blobs that are what they claim to be, of a version the build may know.
Blobs == {b \in [stamp : 0..MaxVersion, layout : Versions] : b.layout = version_of(b)}

MigrationInv ==
    /\ binary \in Versions /\ cells \in [CellNames -> SUBSET Blobs]
    /\ exported \subseteq [stamp : Versions, cells : [CellNames -> SUBSET Blobs]]
    /\ \A l \in loaded : \A c \in CellNames : \A b \in l.cells[c] :
         b.layout = l.version /\ version_of(b) = l.version

LEMMA CurrentBlob ==
    ASSUME NEW v \in Versions
    PROVE  Blob(v) \in Blobs /\ Blob(v).layout = v /\ version_of(Blob(v)) = v
<1>1. v \in 1..MaxVersion /\ MaxVersion \in Nat
  BY MigrationAssumption DEF Versions
<1>2. QED
  BY <1>1 DEF Blob, Blobs, version_of, Versions

\* A blob that is not refused comes out of its migration in the layout, and
\* under the stamp, of the version asked for.
LEMMA Migrated ==
    ASSUME NEW b \in Blobs, NEW v \in Versions, ~from_future(b, v)
    PROVE  LET m == migrate_to_current(b, v)
           IN  m \in Blobs /\ m.layout = v /\ version_of(m) = v
<1>1. version_of(b) \in Nat \ {0} /\ b.layout = version_of(b) /\ v \in Nat
  BY MigrationAssumption DEF Blobs, Versions
<1>2. version_of(b) <= v
  BY <1>1 DEF from_future
<1>3. CASE version_of(b) = v
  <2>1. migrate_to_current(b, v) = b
    BY <1>1, <1>3, MigratedIsCurrent
  <2>2. QED
    BY <1>1, <1>3, <2>1
<1>4. CASE version_of(b) < v
  <2>1. migrate_to_current(b, v) = Blob(v)
    BY <1>1, <1>4, MigratedIsCurrent
  <2>2. QED
    BY <2>1, CurrentBlob
<1>5. QED
  BY <1>1, <1>2, <1>3, <1>4

\* What a commit rewrites it has read, and stamps with what it wrote.
LEMMA RewrittenIsCurrent ==
    ASSUME MigrationInv, NEW c \in CellNames, Reads({c})
    PROVE  rewritten_cell(c) = {Blob(binary)}
<1>1. \A b \in cells[c] : b \in Blobs /\ ~from_future(b, binary)
  BY DEF MigrationInv, Reads
<1>2. \A b \in cells[c] : migrate_to_current(b, binary).layout = binary
  BY <1>1, Migrated DEF MigrationInv
<1>3. QED
  BY <1>2 DEF rewritten_cell, Blob

LEMMA CommitKeepsStamps ==
    ASSUME MigrationInv, NEW suspends \in BOOLEAN, Reads({"memory", "llm_cache"}),
           CommitStamped(suspends)
    PROVE  MigrationInv'
<1>1. rewritten_cell("memory") = {Blob(binary)} /\ rewritten_cell("llm_cache") = {Blob(binary)}
  BY RewrittenIsCurrent DEF Reads, CellNames
<1>2. Blob(binary) \in Blobs
  BY CurrentBlob DEF MigrationInv
<1>3. \A c \in CellNames : cells'[c] \in SUBSET Blobs
  BY <1>1, <1>2 DEF CommitStamped, CellNames
<1>4. cells' \in [CellNames -> SUBSET Blobs]
  BY <1>3 DEF CommitStamped
<1>5. QED
  BY <1>4 DEF MigrationInv, CommitStamped

LEMMA MigrationStarts ==
    ASSUME MigrationInit
    PROVE  MigrationInv
<1>1. 1 \in Versions
  BY MigrationAssumption DEF Versions
<1>2. Blob(1) \in Blobs
  BY <1>1, CurrentBlob
<1>3. [stamp |-> 0, layout |-> 1] \in Blobs
  BY <1>1, MigrationAssumption DEF Blobs, version_of
<1>4. cells \in [CellNames -> SUBSET Blobs]
  BY <1>2, <1>3 DEF MigrationInit
<1>5. QED
  BY <1>1, <1>4 DEF MigrationInit, MigrationInv

LEMMA MigrationStep ==
    ASSUME MigrationInv, [MigrationNext]_migrationVars
    PROVE  MigrationInv'
<1>1. ASSUME NEW v \in Versions, Deploy(v)
      PROVE  MigrationInv'
  BY <1>1 DEF Deploy, MigrationInv
<1>2. ASSUME NEW v \in Versions, LoadSnapshot(v)
      PROVE  MigrationInv'
  <2>1. PICK s \in exported : loaded' = load_snapshot(s, v)
    BY <1>2 DEF LoadSnapshot
  <2>2. s.cells \in [CellNames -> SUBSET Blobs]
    BY DEF MigrationInv
  <2>3. ASSUME NEW l \in loaded', NEW c \in CellNames, NEW m \in l.cells[c]
        PROVE  m.layout = l.version /\ version_of(m) = l.version
    <3>1. /\ \A b \in s.cells[c] : ~from_future(b, v)
          /\ l = [version |-> v,
                  cells |-> [d \in CellNames |-> {migrate_to_current(b, v) : b \in s.cells[d]}]]
      BY <2>1, <2>3 DEF load_snapshot
    <3>2. PICK b \in s.cells[c] : m = migrate_to_current(b, v)
      BY <2>3, <3>1
    <3>3. m.layout = v /\ version_of(m) = v
      BY <2>2, <3>1, <3>2, Migrated
    <3>4. QED
      BY <3>1, <3>3
  <2>4. QED
    BY <1>2, <2>3 DEF LoadSnapshot, MigrationInv
<1>3. ASSUME NEW suspends \in BOOLEAN, StartMigrating(suspends) \/ ResumeMigrating(suspends)
      PROVE  MigrationInv'
  BY <1>3, CommitKeepsStamps DEF StartMigrating, ResumeMigrating
<1>4. CASE EscalateMigrating
  <2>1. \A b \in cells["continuation"] : migrate_to_current(b, binary) \in Blobs
    <3>1. \A b \in cells["continuation"] : b \in Blobs /\ ~from_future(b, binary)
      BY <1>4 DEF EscalateMigrating, Reads, MigrationInv, CellNames
    <3>2. QED
      BY <3>1, Migrated DEF MigrationInv
  <2>2. {migrate_to_current(b, binary) : b \in cells["continuation"]} \in SUBSET Blobs
    BY <2>1
  <2>3. cells' \in [CellNames -> SUBSET Blobs]
    BY <1>4, <2>2 DEF EscalateMigrating, MigrationInv
  <2>4. QED
    BY <1>4, <2>3 DEF EscalateMigrating, MigrationInv
<1>5. CASE TimeOutMigrating
  BY <1>5 DEF TimeOutMigrating, MigrationInv
<1>6. CASE ExpireMigrating
  BY <1>6 DEF ExpireMigrating, MigrationInv
<1>7. CASE ExportSnapshot
  BY <1>7 DEF ExportSnapshot, build_snapshot, MigrationInv
<1>8. CASE UNCHANGED migrationVars
  BY <1>8 DEF migrationVars, MigrationInv
<1>9. QED
  BY <1>1, <1>2, <1>3, <1>4, <1>5, <1>6, <1>7, <1>8 DEF MigrationNext

-----------------------------------------------------------------------------
(* Sharded keys.                                                             *)

\* The suffix shard_key adds comes off again, whatever the key holds itself.
LEMMA UnshardsToOwner ==
    ASSUME NEW key \in Seq(Int), NEW index \in Nat
    PROVE  unshard_key(physical_key(key, index)) = key
<1>. DEFINE p == key \o <<Delimiter, index>>
            n == Len(key) + 1
            last(i) == p[i] = Delimiter /\ \A j \in (i + 1)..Len(p) : p[j] # Delimiter
<1>1. p \in Seq(Int) /\ Len(p) = n + 1 /\ DOMAIN p = 1..(n + 1) /\ n \in Nat
  BY DEF Delimiter
<1>2. p[n] = Delimiter /\ p[n + 1] = index /\ index # Delimiter
  BY DEF Delimiter
<1>3. \A i \in 1..Len(key) : p[i] = key[i]
  OBVIOUS
<1>. HIDE DEF p
<1>4. n \in DOMAIN p /\ last(n)
  BY <1>1, <1>2
<1>5. \A i \in DOMAIN p : last(i) => i = n
  <2>1. ASSUME NEW i \in DOMAIN p, last(i), i # n
        PROVE  FALSE
    <3>1. i \in 1..(n + 1) /\ i # n + 1
      BY <1>1, <1>2, <2>1
    <3>2. n \in (i + 1)..Len(p)
      BY <1>1, <2>1, <3>1
    <3>3. QED
      BY <1>2, <2>1, <3>2
  <2>2. QED
    BY <2>1
<1>6. (CHOOSE i \in DOMAIN p : last(i)) = n
  <2>. HIDE DEF last, n
  <2>1. QED
    BY <1>4, <1>5
<1>7. unshard_key(p) = SubSeq(p, 1, (CHOOSE i \in DOMAIN p : last(i)) - 1)
  BY DEF unshard_key
<1>8. unshard_key(p) = SubSeq(p, 1, Len(key))
  <2>1. unshard_key(p) = SubSeq(p, 1, n - 1)
    BY ONLY <1>6, <1>7
  <2>2. n - 1 = Len(key)
    OBVIOUS
  <2>3. QED
    BY ONLY <2>1, <2>2
<1>9. SubSeq(p, 1, Len(key)) = key
  <2>1. Len(key) \in Nat /\ Len(key) <= Len(p)
    BY <1>1
  <2>2. SubSeq(p, 1, Len(key)) = [i \in 1..Len(key) |-> p[i]]
    BY <1>1, <2>1
  <2>3. key = [i \in 1..Len(key) |-> key[i]]
    OBVIOUS
  <2>4. QED
    BY <1>3, <2>2, <2>3
<1>10. QED
  BY <1>8, <1>9 DEF physical_key, p

\* Where the runs of an event went.
ShardInv ==
    /\ assignment \in {"hash", "round_robin"} /\ counter \in [Workers -> Nat]
    /\ \A run \in staged : \E e \in Events, index \in Nat :
         /\ run.event = e.id /\ run.key = physical_key(e.key, index)
         /\ assignment = "hash" => index = e.digest % Shards

LEMMA ShardStep ==
    ASSUME ShardInv, [ShardNext]_shardVars
    PROVE  ShardInv'
<1>1. CASE UNCHANGED shardVars
  BY <1>1 DEF shardVars, ShardInv
<1>2. ASSUME NEW e \in Events, NEW w \in Workers, RunEvent(e, w)
      PROVE  ShardInv'
  <2>1. Shards \in Nat \ {0} /\ e.digest \in Nat /\ counter[w] \in Nat
    BY ShardAssumption DEF ShardInv
  <2>2. e.digest % Shards \in Nat /\ counter[w] % Shards \in Nat /\ (counter[w] + 1) % Shards \in Nat
    BY <2>1
  <2>3. counter' \in [Workers -> Nat]
    BY <1>2, <2>2 DEF RunEvent, counted, ShardInv
  <2>4. \E index \in Nat : /\ index_key(e, w) = physical_key(e.key, index)
                           /\ assignment = "hash" => index = e.digest % Shards
    BY <2>2 DEF index_key, shard_key
  <2>5. PICK index \in Nat : /\ index_key(e, w) = physical_key(e.key, index)
                             /\ assignment = "hash" => index = e.digest % Shards
    BY <2>4
  <2>6. staged' = staged \cup {[event |-> e.id, key |-> index_key(e, w)]} /\ assignment' = assignment
    BY <1>2 DEF RunEvent
  <2>7. QED
    BY <2>3, <2>5, <2>6 DEF ShardInv
<1>3. QED
  BY <1>1, <1>2 DEF ShardNext

\* No roll-out or roll-back makes a binary read fields of one layout as those
\* of another, under hash assignment an event's retries keep its shard, and
\* regrouping returns every output to its owner (core/migration.py, keys.py).
THEOREM KeyedStateKeepsItsMeaning == KeyedSpec => []KeyedStateCarriesOver
<1>1. MigrationInit /\ ShardInit => MigrationInv /\ ShardInv
  <2>1. ShardInit => ShardInv
    BY DEF ShardInit, ShardInv
  <2>2. QED
    BY <2>1, MigrationStarts
<1>2. MigrationInv /\ ShardInv /\ [KeyedNext]_keyedVars => (MigrationInv /\ ShardInv)'
  <2>1. SUFFICES ASSUME MigrationInv, ShardInv, [KeyedNext]_keyedVars
                 PROVE  MigrationInv' /\ ShardInv'
    OBVIOUS
  <2>2. CASE MigrationNext /\ UNCHANGED shardVars
    BY <2>1, <2>2, MigrationStep, ShardStep
  <2>3. CASE ShardNext /\ UNCHANGED migrationVars
    BY <2>1, <2>3, MigrationStep, ShardStep
  <2>4. CASE UNCHANGED keyedVars
    <3>1. UNCHANGED migrationVars /\ UNCHANGED shardVars
      BY <2>4 DEF keyedVars
    <3>2. QED
      BY <2>1, <3>1, MigrationStep, ShardStep
  <2>5. QED
    BY <2>1, <2>2, <2>3, <2>4 DEF KeyedNext
<1>3. MigrationInv => StampMatchesLayout
  BY DEF MigrationInv, StampMatchesLayout, Blobs
<1>4. ShardInv => RetriesKeepTheShard
  <2>1. SUFFICES ASSUME ShardInv, assignment = "hash",
                        NEW a \in staged, NEW b \in staged, a.event = b.event
                 PROVE  a.key = b.key
    BY DEF RetriesKeepTheShard
  <2>2. PICK e \in Events : a.event = e.id /\ a.key = physical_key(e.key, e.digest % Shards)
    BY <2>1 DEF ShardInv
  <2>3. PICK f \in Events : b.event = f.id /\ b.key = physical_key(f.key, f.digest % Shards)
    BY <2>1 DEF ShardInv
  <2>4. e = f
    BY <2>1, <2>2, <2>3, ShardAssumption
  <2>5. QED
    BY <2>2, <2>3, <2>4
<1>5. ShardInv => RegroupsToOwner
  <2>1. SUFFICES ASSUME ShardInv, NEW run \in staged
                 PROVE  \E e \in Events : e.id = run.event /\ unshard_key(run.key) = e.key
    BY DEF RegroupsToOwner
  <2>2. PICK e \in Events, index \in Nat : run.event = e.id /\ run.key = physical_key(e.key, index)
    BY <2>1 DEF ShardInv
  <2>3. e.key \in Seq(Int)
    BY ShardAssumption
  <2>4. QED
    BY <2>2, <2>3, UnshardsToOwner
<1>6. MigrationInv /\ ShardInv => KeyedStateCarriesOver
  BY <1>3, <1>4, <1>5 DEF KeyedStateCarriesOver
<1>7. QED
  BY <1>1, <1>2, <1>6, PTL DEF KeyedSpec

-----------------------------------------------------------------------------
(* The working memory.                                                       *)

MemoryEntries == [name : Names, ring : BOOLEAN, items : Seq(Nat)]
EntrySize == [e \in MemoryEntries |-> entry_size(e)]
Lasts == [said : {"", "ok", "overflow"}, wrote : MemoryEntries]
Memories == [entries : Seq(MemoryEntries), total : Nat, warned : BOOLEAN, writes : Nat,
             last : Lasts]

LEMMA EntrySizes == EntrySize \in [MemoryEntries -> Nat]
<1>1. SUFFICES ASSUME NEW e \in MemoryEntries PROVE entry_size(e) \in Nat
  BY DEF EntrySize
<1>2. e.items \in Seq(Nat) /\ LenPrefix \in Nat
  BY WorkingMemoryAssumption DEF MemoryEntries
<1>3. PICK n, S : n \in Nat /\ n = Len(e.items) /\ S = 1..n /\ S = DOMAIN e.items
  BY <1>2
<1>4. PICK w : w = [i \in DOMAIN e.items |-> e.items[i] + (IF e.ring THEN LenPrefix ELSE 0)]
  OBVIOUS
<1>5. IsFiniteSet(S) /\ \A i \in S : w[i] \in Nat
  <2>1. IsFiniteSet(S)
    BY <1>3, Interval
  <2> QED BY <1>2, <1>3, <1>4, <2>1
<1>6. SumFunctionOnSet(w, S) \in Nat
  BY <1>5, SumType
<1>7. SumFunction(w) = SumFunctionOnSet(w, S)
  <2>1. DOMAIN w = S
    BY <1>3, <1>4
  <2> QED BY <2>1, SumIsAll
<1> QED BY <1>4, <1>6, <1>7 DEF entry_size

LEMMA BytesAreWeights ==
    ASSUME NEW s \in Seq(MemoryEntries), NEW P
    PROVE  bytes_at(s, P) = Weight(EntrySize, s, P)
<1>1. \A i \in DOMAIN s : s[i] \in MemoryEntries
  OBVIOUS
<1>2. [i \in DOMAIN s |-> entry_size(s[i])] = [i \in DOMAIN s |-> EntrySize[s[i]]]
  BY <1>1 DEF EntrySize
<1> QED BY <1>2 DEF bytes_at, Weight

(* Bytes of parts add up; what Picked keeps takes what its positions do.     *)
LEMMA BytesAdd ==
    ASSUME NEW s \in Seq(MemoryEntries),
           NEW Q \in SUBSET (DOMAIN s), NEW P \in SUBSET Q
    PROVE  /\ bytes_at(s, Q) = bytes_at(s, P) + bytes_at(s, Q \ P)
           /\ bytes_at(s, P) \in Nat /\ bytes_at(s, Q \ P) \in Nat /\ bytes_at(s, Q) \in Nat
<1>1. PICK W : W = EntrySize /\ W \in [MemoryEntries -> Nat]
  BY EntrySizes
<1>2. PICK T : T = MemoryEntries
  OBVIOUS
<1>3. W \in [T -> Nat] /\ s \in Seq(T) /\ Q \in SUBSET (DOMAIN s) /\ P \in SUBSET Q
  BY <1>1, <1>2
<1>4. /\ Weight(W, s, Q) = Weight(W, s, P) + Weight(W, s, Q \ P)
      /\ Weight(W, s, P) \in Nat /\ Weight(W, s, Q \ P) \in Nat /\ Weight(W, s, Q) \in Nat
  BY <1>3, WeightAdds
<1> QED BY <1>1, <1>4, BytesAreWeights

LEMMA BytesPicked ==
    ASSUME NEW s \in Seq(MemoryEntries), NEW P \in SUBSET (DOMAIN s)
    PROVE  Picked(s, P) \in Seq(MemoryEntries) /\ blob_size(Picked(s, P)) = bytes_at(s, P)
<1>1. P \in SUBSET (1..Len(s))
  OBVIOUS
<1>2. PICK t : t = Picked(s, P) /\ t \in Seq(MemoryEntries)
  BY <1>1, PickedKeeps
<1>3. Weight(EntrySize, t, DOMAIN t) = Weight(EntrySize, s, P)
  <2>1. PICK T, W : T = MemoryEntries /\ W = EntrySize
    OBVIOUS
  <2>2. W \in [T -> Nat] /\ s \in Seq(T)
    BY <2>1, EntrySizes
  <2>3. Weight(W, Picked(s, P), DOMAIN Picked(s, P)) = Weight(W, s, P)
    BY <2>2, WeightPicked
  <2> QED BY <1>2, <2>1, <2>3
<1> QED BY <1>2, <1>3, BytesAreWeights DEF blob_size

LEMMA BytesAppended ==
    ASSUME NEW s \in Seq(MemoryEntries), NEW e \in MemoryEntries
    PROVE  /\ Append(s, e) \in Seq(MemoryEntries)
           /\ blob_size(Append(s, e)) = blob_size(s) + entry_size(e)
           /\ blob_size(s) \in Nat /\ entry_size(e) \in Nat
<1>0. Append(s, e) \in Seq(MemoryEntries)
  OBVIOUS
<1>1. PICK t : t = Append(s, e) /\ t \in Seq(MemoryEntries)
  BY <1>0
<1>2. Weight(EntrySize, t, DOMAIN t) = Weight(EntrySize, s, DOMAIN s) + EntrySize[e]
  BY <1>1, EntrySizes, WeightAppended
<1>3. EntrySize[e] = entry_size(e) /\ EntrySize[e] \in Nat
  BY EntrySizes DEF EntrySize
<1>4. blob_size(s) \in Nat
  BY BytesAdd DEF blob_size
<1> QED BY <1>1, <1>2, <1>3, <1>4, BytesAreWeights DEF blob_size

LEMMA BytesOfOne ==
    ASSUME NEW s \in Seq(MemoryEntries), NEW i \in DOMAIN s
    PROVE  bytes_at(s, {i}) = entry_size(s[i]) /\ entry_size(s[i]) \in Nat /\ bytes_at(s, {}) = 0
<1>1. s[i] \in MemoryEntries
  OBVIOUS
<1>2. EntrySize[s[i]] = entry_size(s[i]) /\ EntrySize[s[i]] \in Nat
  BY <1>1, EntrySizes DEF EntrySize
<1>3. Weight(EntrySize, s, {i}) = EntrySize[s[i]] /\ Weight(EntrySize, s, {}) = 0
  BY EntrySizes, WeightOfOne
<1> QED BY <1>2, <1>3, BytesAreWeights

-----------------------------------------------------------------------------
NamesApart(s) == \A i, j \in DOMAIN s : s[i].name = s[j].name => i = j

Exact(m) == m \in Memories /\ NamesApart(m.entries) /\ m.total = blob_size(m.entries)

(* All but the entries of a memory.                                          *)
SameAccess(b, m) == b.warned = m.warned /\ b.writes = m.writes /\ b.last = m.last

(* t has the entries of s at the positions outside P.                        *)
Outside(t, s, P) ==
    /\ \A i \in DOMAIN t : \E j \in DOMAIN s \ P : t[i] = s[j]
    /\ \A j \in DOMAIN s \ P : \E i \in DOMAIN t : t[i] = s[j]

LEMMA WithoutKeeps ==
    ASSUME NEW s \in Seq(MemoryEntries), NEW P \in SUBSET (DOMAIN s)
    PROVE  /\ without(s, P) \in Seq(MemoryEntries) /\ Outside(without(s, P), s, P)
           /\ NamesApart(s) => NamesApart(without(s, P))
           /\ blob_size(without(s, P)) = blob_size(s) - bytes_at(s, P)
           /\ blob_size(without(s, P)) \in Nat /\ blob_size(s) \in Nat /\ bytes_at(s, P) \in Nat
<1>1. PICK Q : Q = DOMAIN s \ P
  OBVIOUS
<1>2. Q \in SUBSET (1..Len(s)) /\ Q \in SUBSET (DOMAIN s)
  BY <1>1
<1>3. PICK t : t = Picked(s, Q) /\ t \in Seq(MemoryEntries) /\ IsPicked(t, s, Q)
  BY <1>2, PickedKeeps
<1>4. t = without(s, P)
  BY <1>1, <1>3 DEF without
<1>5. /\ DOMAIN t = 1..Cardinality(Q)
      /\ \A n \in 1..Cardinality(Q) : nth(Q, n) \in Q /\ t[n] = s[nth(Q, n)]
      /\ \A n, m \in 1..Cardinality(Q) : nth(Q, n) = nth(Q, m) => n = m
      /\ \A i \in Q : \E n \in 1..Cardinality(Q) : nth(Q, n) = i
  BY <1>3 DEF IsPicked
<1>6. Outside(t, s, P)
  <2>1. \A i \in DOMAIN t : \E j \in Q : t[i] = s[j]
    BY <1>5
  <2>2. \A j \in Q : \E i \in DOMAIN t : t[i] = s[j]
    BY <1>5
  <2> QED BY <1>1, <2>1, <2>2 DEF Outside
<1>7. NamesApart(s) => NamesApart(t)
  <2>1. SUFFICES ASSUME NamesApart(s), NEW n \in DOMAIN t, NEW m \in DOMAIN t, t[n].name = t[m].name
                 PROVE  n = m
    BY DEF NamesApart
  <2>2. /\ nth(Q, n) \in DOMAIN s /\ nth(Q, m) \in DOMAIN s
        /\ t[n] = s[nth(Q, n)] /\ t[m] = s[nth(Q, m)]
    BY <1>2, <1>5
  <2>3. nth(Q, n) = nth(Q, m)
    BY <2>1, <2>2 DEF NamesApart
  <2> QED BY <1>5, <2>3
<1>8. blob_size(t) = bytes_at(s, Q)
  BY <1>2, <1>3, BytesPicked
<1>9. /\ blob_size(s) = bytes_at(s, P) + bytes_at(s, Q)
      /\ bytes_at(s, P) \in Nat /\ bytes_at(s, Q) \in Nat /\ blob_size(s) \in Nat
  <2>1. PICK D : D = DOMAIN s /\ Q = D \ P
    BY <1>1
  <2>3. D \in SUBSET (DOMAIN s) /\ P \in SUBSET D
    BY <2>1
  <2>2. /\ bytes_at(s, D) = bytes_at(s, P) + bytes_at(s, D \ P)
        /\ bytes_at(s, P) \in Nat /\ bytes_at(s, D \ P) \in Nat /\ bytes_at(s, D) \in Nat
    BY <2>3, BytesAdd
  <2> QED BY <2>1, <2>2 DEF blob_size
<1> QED BY <1>3, <1>4, <1>6, <1>7, <1>8, <1>9

LEMMA DroppingKeeps ==
    ASSUME NEW m, Exact(m), NEW P \in SUBSET (DOMAIN m.entries)
    PROVE  /\ Exact(dropping(m, P)) /\ SameAccess(dropping(m, P), m)
           /\ dropping(m, P).entries = without(m.entries, P)
           /\ dropping(m, P).total = m.total - bytes_at(m.entries, P)
           /\ bytes_at(m.entries, P) \in Nat
           /\ Outside(dropping(m, P).entries, m.entries, P)
<1>1. PICK s : s = m.entries
  OBVIOUS
<1>2. s \in Seq(MemoryEntries) /\ m \in Memories /\ NamesApart(s) /\ m.total = blob_size(s)
  BY <1>1 DEF Exact, Memories
<1>3. PICK t, n : t = without(s, P) /\ n = m.total - bytes_at(s, P)
  OBVIOUS
<1>4. /\ t \in Seq(MemoryEntries) /\ n \in Nat /\ n = blob_size(t) /\ NamesApart(t)
      /\ bytes_at(s, P) \in Nat /\ Outside(t, s, P)
  BY <1>1, <1>2, <1>3, WithoutKeeps
<1>5. PICK b : b = dropping(m, P)
  OBVIOUS
<1>6. b = [m EXCEPT !.entries = t, !.total = n]
  BY <1>1, <1>3, <1>5 DEF dropping
<1>7. b \in Memories /\ b.entries = t /\ b.total = n /\ SameAccess(b, m)
  BY <1>2, <1>4, <1>6 DEF Memories, SameAccess
<1> QED BY <1>1, <1>3, <1>4, <1>5, <1>7 DEF Exact

(* What is left of m when the compactor made b of it.                        *)
Compacted(b, m) ==
    /\ Exact(b) /\ SameAccess(b, m) /\ b.total <= m.total
    /\ \A i \in DOMAIN b.entries : \E j \in DOMAIN m.entries : b.entries[i] = m.entries[j]
    /\ \A i \in DOMAIN m.entries :
          \/ \E j \in DOMAIN b.entries : b.entries[j] = m.entries[i]
          \/ /\ m.entries[i].name \notin Protected
             /\ ~reaches_target(m, unprotected(m.entries, i - 1))
             /\ i = Len(m.entries) => ProtectedBytes(b) + entry_size(m.entries[i]) > TargetBytes
    /\ b.total <= TargetBytes \/ b.total = ProtectedBytes(b)

LEMMA CompactKeeps ==
    ASSUME NEW m, Exact(m)
    PROVE  Compacted(compact(m), m)
<1>1. PICK s : s = m.entries
  OBVIOUS
<1>2. s \in Seq(MemoryEntries) /\ m \in Memories /\ NamesApart(s) /\ m.total = blob_size(s)
  BY <1>1 DEF Exact, Memories
<1>3. PICK n \in Nat : n = Len(s) /\ DOMAIN s = 1..n
  BY <1>2
<1>4. PICK enough : enough = {d \in 0..n : reaches_target(m, unprotected(s, d))}
  OBVIOUS
<1>5. PICK d : d = Min(enough \cup {n})
  OBVIOUS
<1>6. d \in enough \cup {n} /\ d \in 0..n /\ \A k \in enough : d <= k
  <2>1. enough \cup {n} \in SUBSET Nat /\ enough \cup {n} # {}
    BY <1>4
  <2> QED BY <1>4, <1>5, <2>1, MinIsLeast
<1>7. PICK P : P = unprotected(s, d)
  OBVIOUS
<1>8. P \in SUBSET (DOMAIN s) /\ \A i \in DOMAIN s : i \in P <=> i <= d /\ s[i].name \notin Protected
  BY <1>3, <1>6, <1>7 DEF unprotected
<1>9. PICK b : b = compact(m)
  OBVIOUS
<1>10. b = dropping(m, P)
  BY <1>1, <1>3, <1>4, <1>5, <1>7, <1>9 DEF compact
<1>11. /\ Exact(b) /\ SameAccess(b, m) /\ b.total = m.total - bytes_at(s, P)
       /\ bytes_at(s, P) \in Nat /\ Outside(b.entries, s, P)
  BY <1>1, <1>8, <1>10, DroppingKeeps
<1>12. m.total \in Nat /\ b.total \in Nat /\ TargetBytes \in Nat /\ b.entries \in Seq(MemoryEntries)
       /\ b.total = blob_size(b.entries)
  BY <1>2, <1>11, WorkingMemoryAssumption DEF Exact, Memories
<1>13. d = n => b.total = ProtectedBytes(b)
  <2>1. SUFFICES ASSUME d = n PROVE b.total = ProtectedBytes(b)
    OBVIOUS
  <2>2. \A i \in DOMAIN b.entries : b.entries[i].name \in Protected
    BY <1>3, <1>8, <1>11, <2>1 DEF Outside
  <2>3. {i \in DOMAIN b.entries : b.entries[i].name \in Protected} = DOMAIN b.entries
    BY <2>2
  <2> QED BY <1>12, <2>3 DEF ProtectedBytes, blob_size
<1>14. b.total <= TargetBytes \/ b.total = ProtectedBytes(b)
  <2>1. CASE d \in enough
    BY <1>4, <1>7, <1>11, <1>1, <2>1 DEF reaches_target
  <2> QED BY <1>6, <1>13, <2>1
<1>15. ASSUME NEW i \in DOMAIN s, ~\E j \in DOMAIN b.entries : b.entries[j] = s[i]
       PROVE  /\ s[i].name \notin Protected
              /\ ~reaches_target(m, unprotected(s, i - 1))
              /\ i = n => ProtectedBytes(b) + entry_size(s[i]) > TargetBytes
  <2>1. i \in P /\ i <= d /\ s[i].name \notin Protected
    BY <1>8, <1>11, <1>15 DEF Outside
  <2>2. i - 1 \in 0..n /\ i - 1 < d
    BY <1>3, <1>6, <2>1
  <2>3. ~reaches_target(m, unprotected(s, i - 1))
    BY <1>4, <1>6, <2>2
  <2>4. ASSUME i = n PROVE ProtectedBytes(b) + entry_size(s[i]) > TargetBytes
    <3>1. d = n /\ b.total = ProtectedBytes(b)
      BY <1>3, <1>6, <1>13, <2>1, <2>4
    <3>2. unprotected(s, i - 1) = P \ {i}
      BY <1>3, <1>7, <2>4, <3>1 DEF unprotected
    <3>3. {i} \in SUBSET P
      BY <2>1
    <3>4. /\ bytes_at(s, P) = bytes_at(s, {i}) + bytes_at(s, P \ {i})
          /\ bytes_at(s, P \ {i}) \in Nat
      <4>1. PICK R : R = {i}
        OBVIOUS
      <4>2. R \in SUBSET P
        BY <3>3, <4>1
      <4> QED BY <1>2, <1>8, <4>1, <4>2, BytesAdd
    <3>5. bytes_at(s, {i}) = entry_size(s[i]) /\ entry_size(s[i]) \in Nat
      BY <1>2, BytesOfOne
    <3>6. m.total - bytes_at(s, P \ {i}) > TargetBytes
      <4>1. PICK k : k = bytes_at(s, P \ {i})
        OBVIOUS
      <4>2. ~(m.total - k <= TargetBytes) /\ k \in Nat
        BY <1>1, <2>3, <3>2, <3>4, <4>1 DEF reaches_target
      <4> QED BY <1>12, <4>1, <4>2
    <3> QED BY <1>11, <1>12, <3>1, <3>4, <3>5, <3>6
  <2> QED BY <2>1, <2>3, <2>4
<1>16. \A i \in DOMAIN b.entries : \E j \in DOMAIN s : b.entries[i] = s[j]
  BY <1>11 DEF Outside
<1>17. b.total <= m.total
  BY <1>11, <1>12
<1> QED BY <1>1, <1>3, <1>9, <1>11, <1>14, <1>15, <1>16, <1>17 DEF Compacted

-----------------------------------------------------------------------------
(* Where the entry of a name is: nowhere or at one position.                 *)
LEMMA OnePlace ==
    ASSUME NEW s \in Seq(MemoryEntries), NamesApart(s), NEW n
    PROVE  /\ places(s, n) \in SUBSET (DOMAIN s)
           /\ places(s, n) = {} \/ \E i \in DOMAIN s : s[i].name = n /\ places(s, n) = {i}
<1>1. SUFFICES ASSUME NEW i \in places(s, n) PROVE i \in DOMAIN s /\ s[i].name = n /\ places(s, n) = {i}
  BY DEF places
<1>2. i \in DOMAIN s /\ s[i].name = n /\ \A j \in places(s, n) : j = i
  BY <1>1 DEF places, NamesApart
<1> QED BY <1>1, <1>2

(* The same entries, maybe in another order.                                 *)
SameContents(t, s) ==
    /\ \A i \in DOMAIN t : \E j \in DOMAIN s : t[i] = s[j]
    /\ \A j \in DOMAIN s : \E i \in DOMAIN t : t[i] = s[j]

LEMMA AppendsApart ==
    ASSUME NEW s \in Seq(MemoryEntries), NamesApart(s), NEW e \in MemoryEntries,
           \A i \in DOMAIN s : s[i].name # e.name
    PROVE  /\ NamesApart(Append(s, e)) /\ Append(s, e) \in Seq(MemoryEntries)
           /\ Len(Append(s, e)) = Len(s) + 1 /\ Len(s) \in Nat
           /\ Append(s, e)[Len(s) + 1] = e /\ Len(s) + 1 \in DOMAIN Append(s, e)
           /\ \A i \in DOMAIN Append(s, e) : i = Len(s) + 1 \/ i \in DOMAIN s
           /\ \A i \in DOMAIN s : i \in DOMAIN Append(s, e) /\ Append(s, e)[i] = s[i]
<1>1. PICK k \in Nat : k = Len(s) /\ DOMAIN s = 1..k
  OBVIOUS
<1>2. Append(s, e) \in Seq(MemoryEntries)
  OBVIOUS
<1>3. PICK t : t = Append(s, e)
  OBVIOUS
<1>4. /\ DOMAIN t = 1..(k + 1) /\ t[k + 1] = e /\ Len(t) = k + 1
      /\ \A i \in 1..k : t[i] = s[i]
  BY <1>1, <1>3
<1>5. NamesApart(t)
  BY <1>1, <1>4 DEF NamesApart
<1> QED BY <1>1, <1>2, <1>3, <1>4, <1>5

LEMMA TouchKeeps ==
    ASSUME NEW m, Exact(m), NEW n
    PROVE  /\ Exact(touch(m, n)) /\ SameAccess(touch(m, n), m) /\ touch(m, n).total = m.total
           /\ SameContents(touch(m, n).entries, m.entries)
<1>1. PICK s : s = m.entries
  OBVIOUS
<1>2. s \in Seq(MemoryEntries) /\ m \in Memories /\ NamesApart(s) /\ m.total = blob_size(s)
  BY <1>1 DEF Exact, Memories
<1>3. PICK P : P = places(s, n) /\ P \in SUBSET (DOMAIN s)
  BY <1>2, OnePlace
<1>4. PICK r : r = without(s, P)
  OBVIOUS
<1>5. /\ r \in Seq(MemoryEntries) /\ Outside(r, s, P) /\ NamesApart(r)
      /\ blob_size(r) = blob_size(s) - bytes_at(s, P)
      /\ blob_size(r) \in Nat /\ blob_size(s) \in Nat /\ bytes_at(s, P) \in Nat
  BY <1>2, <1>3, <1>4, WithoutKeeps
<1>6. PICK t : t = r \o Picked(s, P)
  OBVIOUS
<1>7. t \in Seq(MemoryEntries) /\ NamesApart(t) /\ blob_size(t) = blob_size(s) /\ SameContents(t, s)
  <2>1. CASE P = {}
    <3>1. Picked(s, P) = <<>>
      <4>1. P \in SUBSET (1..Len(s)) /\ Cardinality(P) = 0
        BY <2>1, FS_EmptySet
      <4>2. Picked(s, P) \in Seq(MemoryEntries) /\ IsPicked(Picked(s, P), s, P)
        BY <1>2, <4>1, PickedKeeps
      <4>3. PICK q : q = Picked(s, P) /\ q \in Seq(MemoryEntries) /\ Len(q) = 0
        BY <4>1, <4>2 DEF IsPicked
      <4> QED BY <4>3
    <3>2. t = r
      BY <1>5, <1>6, <3>1
    <3>3. bytes_at(s, P) = 0
      BY <2>1, SumOfNone DEF bytes_at
    <3> QED BY <1>5, <2>1, <3>2, <3>3 DEF Outside, SameContents
  <2>2. CASE \E i \in DOMAIN s : s[i].name = n /\ P = {i}
    <3>1. PICK i \in DOMAIN s : s[i].name = n /\ P = {i}
      BY <2>2
    <3>2. PICK e : e = s[i] /\ e \in MemoryEntries
      BY <1>2, <3>1
    <3>3. Picked(s, P) = <<e>>
      BY <1>2, <3>1, <3>2, PickedOne
    <3>4. t = Append(r, e)
      BY <1>5, <1>6, <3>2, <3>3
    <3>5. \A j \in DOMAIN r : r[j].name # e.name
      BY <1>2, <1>5, <3>1, <3>2 DEF Outside, NamesApart
    <3>6. /\ NamesApart(t) /\ t \in Seq(MemoryEntries)
          /\ t[Len(r) + 1] = e /\ Len(r) + 1 \in DOMAIN t
          /\ \A j \in DOMAIN t : j = Len(r) + 1 \/ j \in DOMAIN r
          /\ \A j \in DOMAIN r : j \in DOMAIN t /\ t[j] = r[j]
      BY <1>5, <3>2, <3>4, <3>5, AppendsApart
    <3>7. blob_size(t) = blob_size(s)
      <4>1. blob_size(t) = blob_size(r) + entry_size(e) /\ entry_size(e) \in Nat
        BY <1>5, <3>2, <3>4, BytesAppended
      <4>2. bytes_at(s, P) = entry_size(e)
        BY <1>2, <3>1, <3>2, BytesOfOne
      <4> QED BY <1>5, <4>1, <4>2
    <3>8. \A j \in DOMAIN t : \E k \in DOMAIN s : t[j] = s[k]
      BY <1>5, <3>1, <3>2, <3>6 DEF Outside
    <3>9. \A k \in DOMAIN s : \E j \in DOMAIN t : t[j] = s[k]
      BY <1>5, <3>1, <3>2, <3>6 DEF Outside
    <3> QED BY <3>6, <3>7, <3>8, <3>9 DEF SameContents
  <2> QED BY <1>2, <1>3, <2>1, <2>2, OnePlace
<1>8. PICK b : b = touch(m, n)
  OBVIOUS
<1>9. b = [m EXCEPT !.entries = t]
  BY <1>1, <1>3, <1>4, <1>6, <1>8 DEF touch
<1>10. b \in Memories /\ b.entries = t /\ b.total = m.total /\ SameAccess(b, m)
  BY <1>2, <1>7, <1>9 DEF Memories, SameAccess
<1> QED BY <1>1, <1>2, <1>7, <1>8, <1>10 DEF Exact

LEMMA CommittedWriteKeeps ==
    ASSUME NEW m, Exact(m), NEW e \in MemoryEntries
    PROVE  LET b == commit_entry(m, e)
           IN  /\ Exact(b) /\ SameAccess(b, m) /\ b.total = prospective_total(m, e)
               /\ Len(b.entries) \in DOMAIN b.entries /\ b.entries[Len(b.entries)] = e
               /\ \A i \in DOMAIN b.entries :
                     \/ i = Len(b.entries)
                     \/ \E j \in DOMAIN m.entries : b.entries[i] = m.entries[j]
               /\ \A j \in DOMAIN m.entries : m.entries[j].name # e.name =>
                     \E i \in DOMAIN b.entries : b.entries[i] = m.entries[j]
<1>1. PICK s : s = m.entries
  OBVIOUS
<1>2. s \in Seq(MemoryEntries) /\ m \in Memories /\ NamesApart(s) /\ m.total = blob_size(s)
  BY <1>1 DEF Exact, Memories
<1>3. PICK P : P = places(s, e.name) /\ P \in SUBSET (DOMAIN s)
  BY <1>2, OnePlace
<1>4. PICK r : r = without(s, P)
  OBVIOUS
<1>5. /\ r \in Seq(MemoryEntries) /\ Outside(r, s, P) /\ NamesApart(r)
      /\ blob_size(r) = blob_size(s) - bytes_at(s, P)
      /\ blob_size(r) \in Nat /\ blob_size(s) \in Nat /\ bytes_at(s, P) \in Nat
  BY <1>2, <1>3, <1>4, WithoutKeeps
<1>6. PICK t : t = Append(r, e)
  OBVIOUS
<1>7. \A j \in DOMAIN r : r[j].name # e.name
  BY <1>3, <1>5 DEF Outside, places
<1>8. /\ NamesApart(t) /\ t \in Seq(MemoryEntries) /\ Len(t) = Len(r) + 1
      /\ t[Len(r) + 1] = e /\ Len(r) + 1 \in DOMAIN t
      /\ \A j \in DOMAIN t : j = Len(r) + 1 \/ j \in DOMAIN r
      /\ \A j \in DOMAIN r : j \in DOMAIN t /\ t[j] = r[j]
  BY <1>5, <1>6, <1>7, AppendsApart
<1>9. blob_size(t) = blob_size(r) + entry_size(e) /\ entry_size(e) \in Nat
  BY <1>5, <1>6, BytesAppended
<1>10. PICK k : k = m.total - bytes_at(s, P) + entry_size(e)
  OBVIOUS
<1>11. k \in Nat /\ k = blob_size(t) /\ k = prospective_total(m, e)
  <2>1. k = m.total + entry_size(e) - bytes_at(s, P)
    BY <1>2, <1>5, <1>9, <1>10
  <2> QED BY <1>1, <1>2, <1>3, <1>5, <1>9, <1>10, <2>1 DEF prospective_total, old_len
<1>12. PICK b : b = commit_entry(m, e)
  OBVIOUS
<1>13. b = [m EXCEPT !.entries = t, !.total = k]
  BY <1>1, <1>3, <1>4, <1>6, <1>10, <1>12 DEF commit_entry, old_len
<1>14. b \in Memories /\ b.entries = t /\ b.total = k /\ SameAccess(b, m)
  BY <1>2, <1>8, <1>11, <1>13 DEF Memories, SameAccess
<1>15. \A j \in DOMAIN t : j = Len(t) \/ \E i \in DOMAIN s : t[j] = s[i]
  BY <1>5, <1>8 DEF Outside
<1>16. \A i \in DOMAIN s : s[i].name # e.name => \E j \in DOMAIN t : t[j] = s[i]
  BY <1>3, <1>5, <1>8 DEF Outside, places
<1>17. Exact(b)
  BY <1>8, <1>11, <1>14 DEF Exact
<1> QED BY <1>1, <1>8, <1>11, <1>12, <1>14, <1>15, <1>16, <1>17

-----------------------------------------------------------------------------
(* Writes.                                                                   *)

Fit(m) == Exact(m) /\ m.total <= HardCap

NothingToEvict(m) == m.total <= TargetBytes \/ m.total = ProtectedBytes(m)

WrittenStays(m) ==
    m.last.said = "ok" =>
        \/ m.last.wrote \in ToSet(m.entries)
        \/ /\ m.last.wrote.name \notin Protected
           /\ ProtectedBytes(m) + entry_size(m.last.wrote) > TargetBytes

Sound(m) == Fit(m) /\ (m.last.said = "overflow" => NothingToEvict(m)) /\ WrittenStays(m)

Holds(m, n) == \E i \in DOMAIN m.entries : m.entries[i].name = n

KeepsProtected(b, m) == \A n \in Protected : Holds(m, n) => Holds(b, n)

(* What does not touch the entries.                                          *)
LEMMA Relabelled ==
    ASSUME NEW m, Exact(m), NEW l \in Lasts, NEW w \in BOOLEAN
    PROVE  /\ LET b == [m EXCEPT !.last = l]
              IN  /\ Exact(b) /\ b.entries = m.entries /\ b.total = m.total /\ b.last = l
                  /\ b.warned = m.warned /\ b.writes = m.writes
           /\ LET b == [m EXCEPT !.warned = w]
              IN  /\ Exact(b) /\ b.entries = m.entries /\ b.total = m.total /\ b.last = m.last
                  /\ b.writes = m.writes
BY DEF Exact, Memories

LEMMA SoftCapKeeps ==
    ASSUME NEW m, Fit(m), m.entries # <<>>
    PROVE  LET b == maybe_soft_cap(m)
               e == m.entries[Len(m.entries)]
           IN  /\ Fit(b) /\ b.writes = m.writes /\ b.last = m.last /\ KeepsProtected(b, m)
               /\ \/ e \in ToSet(b.entries)
                  \/ e.name \notin Protected /\ ProtectedBytes(b) + entry_size(e) > TargetBytes
<1>1. PICK b, e : b = maybe_soft_cap(m) /\ e = m.entries[Len(m.entries)]
  OBVIOUS
<1>2. m \in Memories /\ m.entries \in Seq(MemoryEntries) /\ Exact(m) /\ m.total \in Nat /\ m.total <= HardCap
      /\ HardCap \in Nat
  BY WorkingMemoryAssumption DEF Fit, Exact, Memories
<1>3. Len(m.entries) \in DOMAIN m.entries /\ e \in ToSet(m.entries)
  BY <1>1, <1>2 DEF ToSet
<1>4. CASE b = m
  BY <1>1, <1>3, <1>4 DEF KeepsProtected
<1>5. CASE b = compact([m EXCEPT !.warned = TRUE])
  <2>1. PICK c : c = [m EXCEPT !.warned = TRUE]
    OBVIOUS
  <2>2. /\ Exact(c) /\ c.entries = m.entries /\ c.total = m.total /\ c.last = m.last
        /\ c.writes = m.writes
    BY <1>2, <2>1, Relabelled DEF Memories
  <2>3. Compacted(b, c)
    BY <1>5, <2>1, <2>2, CompactKeeps
  <2>4. Exact(b) /\ b.total <= m.total /\ b.writes = m.writes /\ b.last = m.last
    BY <2>2, <2>3 DEF Compacted, SameAccess
  <2>5. Fit(b)
    <3>1. b.total \in Nat
      BY <2>4 DEF Exact, Memories
    <3> QED BY <1>2, <2>4, <3>1 DEF Fit
  <2>6. KeepsProtected(b, m)
    <3>1. ASSUME NEW i \in DOMAIN m.entries, m.entries[i].name \in Protected
          PROVE  \E j \in DOMAIN b.entries : b.entries[j] = m.entries[i]
      BY <2>2, <2>3, <3>1 DEF Compacted
    <3> QED BY <3>1 DEF KeepsProtected, Holds
  <2>7. \/ e \in ToSet(b.entries)
        \/ e.name \notin Protected /\ ProtectedBytes(b) + entry_size(e) > TargetBytes
    <3>1. \/ \E j \in DOMAIN b.entries : b.entries[j] = e
          \/ e.name \notin Protected /\ ProtectedBytes(b) + entry_size(e) > TargetBytes
      BY <1>1, <1>3, <2>2, <2>3 DEF Compacted
    <3> QED BY <3>1 DEF ToSet
  <2> QED BY <1>1, <2>4, <2>5, <2>6, <2>7
<1> QED BY <1>1, <1>4, <1>5 DEF maybe_soft_cap

LEMMA GuardedKeeps ==
    ASSUME NEW m, Fit(m), NEW e \in MemoryEntries,
           prospective_total(m, e) > HardCap => NothingToEvict(m)
    PROVE  LET b == guarded_write(m, e)
           IN  Sound(b) /\ b.writes = m.writes /\ KeepsProtected(b, m)
<1>1. PICK b : b = guarded_write(m, e)
  OBVIOUS
<1>2. CASE prospective_total(m, e) > HardCap
  <2>1. PICK l : l = [said |-> "overflow", wrote |-> e]
    OBVIOUS
  <2>2. l \in Lasts /\ l.said = "overflow"
    BY <2>1 DEF Lasts
  <2>3. b = [m EXCEPT !.last = l]
    BY <1>1, <1>2, <2>1 DEF guarded_write
  <2>4. Exact(b) /\ b.entries = m.entries /\ b.total = m.total /\ b.last = l /\ b.writes = m.writes
    BY <2>2, <2>3, Relabelled DEF Fit
  <2>5. NothingToEvict(b)
    BY <1>2, <2>4 DEF NothingToEvict, ProtectedBytes
  <2> QED BY <1>1, <2>2, <2>4, <2>5 DEF Sound, Fit, WrittenStays, KeepsProtected, Holds
<1>3. CASE ~(prospective_total(m, e) > HardCap)
  <2>1. PICK c : c = commit_entry(m, e)
    OBVIOUS
  <2>2. /\ Exact(c) /\ SameAccess(c, m) /\ c.total = prospective_total(m, e)
        /\ Len(c.entries) \in DOMAIN c.entries /\ c.entries[Len(c.entries)] = e
        /\ \A j \in DOMAIN m.entries : m.entries[j].name # e.name =>
              \E i \in DOMAIN c.entries : c.entries[i] = m.entries[j]
    BY <2>1, CommittedWriteKeeps DEF Fit
  <2>3. Fit(c) /\ c.entries # <<>>
    <3>1. c.total \in Nat /\ HardCap \in Nat
      BY <2>2, WorkingMemoryAssumption DEF Exact, Memories
    <3> QED BY <1>3, <2>2, <3>1 DEF Fit
  <2>4. KeepsProtected(c, m)
    BY <2>2 DEF KeepsProtected, Holds
  <2>5. PICK k : k = maybe_soft_cap(c)
    OBVIOUS
  <2>6. /\ Fit(k) /\ k.writes = c.writes /\ KeepsProtected(k, c)
        /\ \/ e \in ToSet(k.entries)
           \/ e.name \notin Protected /\ ProtectedBytes(k) + entry_size(e) > TargetBytes
    BY <2>2, <2>3, <2>5, SoftCapKeeps
  <2>7. PICK l : l = [said |-> "ok", wrote |-> e]
    OBVIOUS
  <2>8. l \in Lasts /\ l.said = "ok" /\ l.wrote = e
    BY <2>7 DEF Lasts
  <2>9. b = [k EXCEPT !.last = l]
    BY <1>1, <1>3, <2>1, <2>5, <2>7 DEF guarded_write
  <2>10. Exact(b) /\ b.entries = k.entries /\ b.total = k.total /\ b.last = l /\ b.writes = k.writes
    BY <2>6, <2>8, <2>9, Relabelled DEF Fit
  <2>11. ProtectedBytes(b) = ProtectedBytes(k)
    BY <2>10 DEF ProtectedBytes
  <2>12. Sound(b)
    BY <2>6, <2>8, <2>10, <2>11 DEF Sound, Fit, WrittenStays
  <2>13. KeepsProtected(b, m)
    BY <2>4, <2>6, <2>10 DEF KeepsProtected, Holds
  <2> QED BY <1>1, <2>2, <2>6, <2>10, <2>12, <2>13 DEF SameAccess
<1> QED BY <1>2, <1>3

LEMMA RoomKeeps ==
    ASSUME NEW m, Fit(m), NEW e
    PROVE  LET b == room_for(m, e)
           IN  /\ Fit(b) /\ b.writes = m.writes /\ KeepsProtected(b, m)
               /\ b = m \/ NothingToEvict(b)
               /\ prospective_total(m, e) > HardCap => NothingToEvict(b)
               /\ ~(prospective_total(m, e) > HardCap) => b = m
<1>1. PICK b : b = room_for(m, e)
  OBVIOUS
<1>2. CASE ~(prospective_total(m, e) > HardCap)
  BY <1>1, <1>2 DEF room_for, KeepsProtected
<1>3. CASE prospective_total(m, e) > HardCap
  <2>1. Compacted(b, m)
    BY <1>1, <1>3, CompactKeeps DEF room_for, Fit
  <2>2. Exact(b) /\ b.total <= m.total /\ b.writes = m.writes /\ NothingToEvict(b)
    BY <2>1 DEF Compacted, SameAccess, NothingToEvict
  <2>3. Fit(b)
    <3>1. b.total \in Nat /\ m.total \in Nat /\ HardCap \in Nat /\ m.total <= HardCap
      BY <2>2, WorkingMemoryAssumption DEF Fit, Exact, Memories
    <3> QED BY <2>2, <3>1 DEF Fit
  <2>4. KeepsProtected(b, m)
    <3>1. ASSUME NEW i \in DOMAIN m.entries, m.entries[i].name \in Protected
          PROVE  \E j \in DOMAIN b.entries : b.entries[j] = m.entries[i]
      BY <2>1, <3>1 DEF Compacted
    <3> QED BY <3>1 DEF KeepsProtected, Holds
  <2> QED BY <1>1, <1>3, <2>2, <2>3, <2>4
<1> QED BY <1>2, <1>3

LEMMA SetKeeps ==
    ASSUME NEW m, Fit(m), NEW n \in Names, NEW size \in Nat
    PROVE  LET b == set(m, n, size)
           IN  Sound(b) /\ b.writes = m.writes /\ KeepsProtected(b, m)
<1>1. PICK e : e = Scalar(n, size)
  OBVIOUS
<1>2. e \in MemoryEntries
  BY <1>1 DEF Scalar, MemoryEntries
<1>3. PICK c : c = room_for(m, e)
  OBVIOUS
<1>4. /\ Fit(c) /\ c.writes = m.writes /\ KeepsProtected(c, m)
      /\ prospective_total(m, e) > HardCap => NothingToEvict(c)
      /\ ~(prospective_total(m, e) > HardCap) => c = m
  BY <1>3, RoomKeeps
<1>5. PICK b : b = guarded_write(c, e) /\ b = set(m, n, size)
  BY <1>1, <1>3 DEF set
<1>6. prospective_total(c, e) > HardCap => NothingToEvict(c)
  BY <1>4
<1>7. Sound(b) /\ b.writes = c.writes /\ KeepsProtected(b, c)
  BY <1>2, <1>4, <1>5, <1>6, GuardedKeeps
<1> QED BY <1>4, <1>5, <1>7 DEF KeepsProtected

LEMMA ItemsAreSizes ==
    ASSUME NEW m, Exact(m), NEW n
    PROVE  ring_items(m, n) \in Seq(Nat)
<1>1. CASE at(m, n) = {}
  <2>1. <<>> \in Seq(Nat)
    OBVIOUS
  <2> QED BY <1>1, <2>1 DEF ring_items
<1>2. CASE at(m, n) # {}
  <2>1. PICK e : e = CHOOSE x \in at(m, n) : TRUE
    OBVIOUS
  <2>2. e \in at(m, n)
    BY <1>2, <2>1
  <2>3. e \in MemoryEntries
    BY <2>2 DEF at, ToSet, Exact, Memories
  <2> QED BY <1>2, <2>1, <2>3 DEF ring_items, MemoryEntries
<1> QED BY <1>1, <1>2

LEMMA LastItemsAreItems ==
    ASSUME NEW items \in Seq(Nat), NEW k \in Nat
    PROVE  last_items(items, k) \in Seq(Nat)
<1>1. PICK i : i = IF Len(items) > k THEN Len(items) - k + 1 ELSE 1
  OBVIOUS
<1>2. i \in Nat /\ i >= 1 /\ Len(items) \in Nat
  BY <1>1
<1>3. last_items(items, k) = SubSeq(items, i, Len(items))
  BY <1>1 DEF last_items
<1> QED BY <1>2, <1>3

LEMMA AppendKeeps ==
    ASSUME NEW m, Fit(m), NEW n \in Names, NEW size \in Nat, NEW max_items \in Nat
    PROVE  LET b == append(m, n, size, max_items)
           IN  Sound(b) /\ b.writes = m.writes /\ KeepsProtected(b, m)
<1>. DEFINE grown(x) == Ring(n, last_items(Append(ring_items(x, n), size), max_items))
<1>1. ASSUME NEW x, Exact(x) PROVE grown(x) \in MemoryEntries
  <2>1. Append(ring_items(x, n), size) \in Seq(Nat)
    BY <1>1, ItemsAreSizes
  <2>2. last_items(Append(ring_items(x, n), size), max_items) \in Seq(Nat)
    BY <2>1, LastItemsAreItems
  <2> QED BY <2>2 DEF Ring, MemoryEntries
<1>2. PICK e : e = grown(m)
  OBVIOUS
<1>3. PICK c : c = room_for(m, e)
  OBVIOUS
<1>4. /\ Fit(c) /\ c.writes = m.writes /\ KeepsProtected(c, m)
      /\ prospective_total(m, e) > HardCap => NothingToEvict(c)
      /\ ~(prospective_total(m, e) > HardCap) => c = m
  BY <1>3, RoomKeeps
<1>5. PICK f : f = grown(c) /\ f \in MemoryEntries
  BY <1>1, <1>4 DEF Fit
<1>6. PICK b : b = guarded_write(c, f) /\ b = append(m, n, size, max_items)
  BY <1>2, <1>3, <1>5 DEF append
<1>7. prospective_total(c, f) > HardCap => NothingToEvict(c)
  BY <1>2, <1>4, <1>5
<1>8. Sound(b) /\ b.writes = c.writes /\ KeepsProtected(b, c)
  BY <1>4, <1>5, <1>6, <1>7, GuardedKeeps
<1> QED BY <1>4, <1>6, <1>8 DEF KeepsProtected

-----------------------------------------------------------------------------
(* The ring the summarizer rewrites, item by item: the fold of rewritten.    *)

Rewrites(f, b, s, k) ==
    f = [T \in SUBSET (DOMAIN s) |->
           IF T = {} THEN b
           ELSE LET x == Max(T) IN append(f[T \ {x}], SourceKey, s[x], k)]

(* Each of its prefixes is the one before it and an append.                  *)
Extends(f, s, k) ==
    \A T \in SUBSET (DOMAIN s) : T # {} =>
        f[T] = append(f[T \ {Max(T)}], SourceKey, s[Max(T)], k)

LEMMA RewriteExists ==
    ASSUME NEW b, Fit(b), NEW s \in Seq(Nat), NEW k \in Nat
    PROVE  \E f : /\ Rewrites(f, b, s, k)
                  /\ \A T \in SUBSET (DOMAIN s) : Fit(f[T])
                  /\ Extends(f, s, k)
<1>1. PICK n, S : n \in Nat /\ n = Len(s) /\ S = 1..n /\ S = DOMAIN s
  OBVIOUS
<1>2. PICK M : M = {x \in Memories : Fit(x)}
  OBVIOUS
<1>3. \A x : x \in M <=> Fit(x)
  BY <1>2 DEF Fit, Exact
<1>. DEFINE G == [i \in S |-> [x \in M |-> append(x, SourceKey, s[i], k)]]
            c == [T \in SUBSET S |-> Max(T)]
<1>4. \A i \in S : s[i] \in Nat
  BY <1>1
<1>5. SourceKey \in Names
  BY WorkingMemoryAssumption
<1>6. ASSUME NEW i \in S, NEW x \in M PROVE append(x, SourceKey, s[i], k) \in M
  <2>1. Sound(append(x, SourceKey, s[i], k))
    BY <1>3, <1>4, <1>5, AppendKeeps
  <2> QED BY <1>3, <2>1 DEF Sound
<1>7. G \in [S -> [M -> M]]
  BY <1>6
<1>8. \A i \in S, x \in M : G[i][x] = append(x, SourceKey, s[i], k)
  OBVIOUS
<1>9. \A T \in SUBSET S : c[T] = Max(T)
  OBVIOUS
<1>10. \A T \in SUBSET S : T # {} => c[T] \in T
  BY <1>1, <1>9, MaxIsGreatest
<1>11. IsFiniteSet(S) /\ b \in M
  BY <1>1, <1>3, Interval
<1>. HIDE DEF G, c
<1>12. PICK f \in [SUBSET S -> M] : IsFold(f, S, b, G, c)
  <2>1. /\ IsFiniteSet(S) /\ b \in M /\ G \in [S -> [M -> M]]
        /\ Chooses(c, S)
    BY <1>7, <1>10, <1>11 DEF Chooses
  <2> QED BY <2>1, FoldExists
<1>13. \A T \in SUBSET S : f[T] = IF T = {} THEN b ELSE G[c[T]][f[T \ {c[T]}]]
  BY <1>12 DEF IsFold
<1>14. \A T \in SUBSET S : f[T] \in M
  BY <1>12
<1>15. ASSUME NEW T \in SUBSET S, T # {}
       PROVE  f[T] = append(f[T \ {Max(T)}], SourceKey, s[Max(T)], k)
  <2>1. c[T] = Max(T) /\ Max(T) \in T
    BY <1>9, <1>10, <1>15
  <2>2. Max(T) \in S /\ f[T \ {Max(T)}] \in M
    BY <1>14, <2>1
  <2> QED BY <1>8, <1>13, <1>15, <2>1, <2>2
<1>16. Rewrites(f, b, s, k)
  <2>1. f = [T \in SUBSET S |-> f[T]]
    BY <1>12
  <2>2. \A T \in SUBSET S :
          f[T] = IF T = {} THEN b ELSE append(f[T \ {Max(T)}], SourceKey, s[Max(T)], k)
    BY <1>13, <1>15
  <2> QED BY <1>1, <2>1, <2>2 DEF Rewrites
<1>17. Extends(f, s, k)
  BY <1>1, <1>15 DEF Extends
<1> QED BY <1>1, <1>3, <1>14, <1>16, <1>17

(* What rewritten computes is that function.                                 *)
LEMMA RewritesAgree ==
    ASSUME NEW b, Fit(b), NEW s \in Seq(Nat), NEW k \in Nat, NEW f, Rewrites(f, b, s, k),
           NEW g, Rewrites(g, b, s, k)
    PROVE  \A T \in SUBSET (DOMAIN s) : f[T] = g[T]
<1>1. PICK n, S : n \in Nat /\ n = Len(s) /\ S = 1..n /\ S = DOMAIN s
  OBVIOUS
<1>. DEFINE c == [T \in SUBSET S |-> Max(T)]
<1>2. \A T \in SUBSET S : c[T] = Max(T)
  OBVIOUS
<1>. HIDE DEF c
<1>3. Chooses(c, S)
  BY <1>1, <1>2, MaxIsGreatest DEF Chooses
<1>4. Follow(f, g, c, S)
  <2>1. ASSUME NEW T \in SUBSET S, T # {} => f[T \ {c[T]}] = g[T \ {c[T]}] PROVE f[T] = g[T]
    <3>1. /\ f[T] = IF T = {} THEN b ELSE append(f[T \ {Max(T)}], SourceKey, s[Max(T)], k)
          /\ g[T] = IF T = {} THEN b ELSE append(g[T \ {Max(T)}], SourceKey, s[Max(T)], k)
      BY <1>1 DEF Rewrites
    <3> QED BY <1>2, <2>1, <3>1
  <2> QED BY <2>1 DEF Follow
<1>5. IsFiniteSet(S)
  BY <1>1, Interval
<1> QED BY <1>1, <1>3, <1>4, <1>5, FoldsAgree

LEMMA RewrittenIsFold ==
    ASSUME NEW m
    PROVE  LET kept == last_items(ring_items(m, SourceKey), KeepRecent)
           IN  rewritten(m) = (CHOOSE f : Rewrites(f, delete(m, SourceKey), kept, Len(kept)))[DOMAIN kept]
BY DEF rewritten, Rewrites, FoldLeft, MapThenFoldSet

LEMMA DeleteKeeps ==
    ASSUME NEW m, Fit(m), NEW n
    PROVE  Fit(delete(m, n)) /\ SameAccess(delete(m, n), m)
<1>1. PICK P : P = places(m.entries, n) /\ P \in SUBSET (DOMAIN m.entries)
  BY OnePlace DEF Fit, Exact, Memories
<1>2. PICK b : b = dropping(m, P) /\ b = delete(m, n)
  BY <1>1 DEF delete
<1>3. Exact(b) /\ SameAccess(b, m) /\ b.total = m.total - bytes_at(m.entries, P)
      /\ bytes_at(m.entries, P) \in Nat
  BY <1>1, <1>2, DroppingKeeps DEF Fit
<1>4. b.total <= HardCap
  <2>1. m.total \in Nat /\ m.total <= HardCap /\ HardCap \in Nat
    BY WorkingMemoryAssumption DEF Fit, Exact, Memories
  <2> QED BY <1>3, <2>1
<1> QED BY <1>2, <1>3, <1>4 DEF Fit

LEMMA RewrittenKeeps ==
    ASSUME NEW m, Fit(m)
    PROVE  Fit(rewritten(m))
<1>1. PICK kept : kept = last_items(ring_items(m, SourceKey), KeepRecent) /\ kept \in Seq(Nat)
  BY ItemsAreSizes, LastItemsAreItems, WorkingMemoryAssumption DEF Fit
<1>2. PICK b : b = delete(m, SourceKey) /\ Fit(b)
  BY DeleteKeeps
<1>3. PICK k \in Nat : k = Len(kept)
  BY <1>1
<1>4. PICK f : /\ Rewrites(f, b, kept, k)
               /\ \A T \in SUBSET (DOMAIN kept) : Fit(f[T])
  BY <1>1, <1>2, RewriteExists
<1>5. PICK g : g = CHOOSE h : Rewrites(h, b, kept, k)
  OBVIOUS
<1>6. Rewrites(g, b, kept, k)
  BY <1>4, <1>5
<1>7. \A T \in SUBSET (DOMAIN kept) : f[T] = g[T]
  BY <1>1, <1>2, <1>4, <1>6, RewritesAgree
<1>8. rewritten(m) = g[DOMAIN kept]
  BY <1>1, <1>2, <1>3, <1>5, RewrittenIsFold
<1> QED BY <1>4, <1>7, <1>8

LEMMA SummarizedKeeps ==
    ASSUME NEW m, Fit(m), NEW size \in Nat
    PROVE  Fit(summarized(m, size))
<1>1. PICK c : c = touch(touch(m, SourceKey), SummaryKey)
  OBVIOUS
<1>2. Fit(c)
  <2>1. Exact(touch(m, SourceKey)) /\ touch(m, SourceKey).total = m.total
    BY TouchKeeps DEF Fit
  <2>2. Exact(c) /\ c.total = m.total
    BY <1>1, <2>1, TouchKeeps
  <2> QED BY <2>2 DEF Fit
<1>3. Fit(rewritten(c))
  BY <1>2, RewrittenKeeps
<1>4. Sound(set(rewritten(c), SummaryKey, size))
  BY <1>3, SetKeeps, WorkingMemoryAssumption
<1> QED BY <1>1, <1>4 DEF summarized, Sound

-----------------------------------------------------------------------------
BlobFits(s) == s \in Seq(MemoryEntries) /\ NamesApart(s) /\ blob_size(s) <= HardCap

WorkingInv == BlobFits(memory_blob) /\ \A m \in memory : Sound(m)

LEMMA FitBlob ==
    ASSUME NEW m, Fit(m)
    PROVE  BlobFits(m.entries)
BY DEF Fit, Exact, Memories, BlobFits

LEMMA WorkingInitInv == WorkingInit => WorkingInv
<1>1. SUFFICES ASSUME WorkingInit PROVE BlobFits(memory_blob)
  BY DEF WorkingInit, WorkingInv
<1>2. memory_blob = <<>>
  BY <1>1 DEF WorkingInit
<1>3. blob_size(<<>>) = 0
  BY SumOfNone DEF blob_size, bytes_at
<1>4. <<>> \in Seq(MemoryEntries)
  OBVIOUS
<1> QED BY <1>2, <1>3, <1>4, WorkingMemoryAssumption DEF BlobFits, NamesApart

(* An access: the result, one write further on.                              *)
LEMMA AccessKeeps ==
    ASSUME WorkingInv, NEW m \in memory, NEW b, Sound(b), b.writes = m.writes, Access(m, b)
    PROVE  WorkingInv'
<1>1. PICK c : c = [b EXCEPT !.writes = @ + 1]
  OBVIOUS
<1>2. memory' = {c} /\ memory_blob' = memory_blob
  BY <1>1 DEF Access
<1>3. b \in Memories
  BY DEF Sound, Fit, Exact
<1>4. /\ c \in Memories /\ c.entries = b.entries /\ c.total = b.total /\ c.last = b.last
  BY <1>1, <1>3 DEF Memories
<1>5. ProtectedBytes(c) = ProtectedBytes(b)
  BY <1>4 DEF ProtectedBytes
<1>6. Sound(c)
  BY <1>4, <1>5 DEF Sound, Fit, Exact, NothingToEvict, WrittenStays
<1> QED BY <1>2, <1>6 DEF WorkingInv, BlobFits

(* A read or a delete.                                                       *)
LEMMA QuietIsSound ==
    ASSUME NEW m, Fit(m)
    PROVE  Sound(Quiet(m)) /\ Quiet(m).writes = m.writes /\ Quiet(m).entries = m.entries
           /\ Quiet(m).last = Nothing
<1>1. Nothing \in Lasts /\ Nothing.said = ""
  <2>1. Scalar(SummaryKey, 0) \in MemoryEntries
    <3>1. <<0>> \in Seq(Nat)
      OBVIOUS
    <3> QED BY <3>1, WorkingMemoryAssumption DEF Scalar, MemoryEntries
  <2> QED BY <2>1 DEF Nothing, Lasts
<1>2. /\ Exact(Quiet(m)) /\ Quiet(m).entries = m.entries /\ Quiet(m).total = m.total
      /\ Quiet(m).last = Nothing /\ Quiet(m).writes = m.writes
  BY <1>1, Relabelled DEF Quiet, Fit
<1> QED BY <1>1, <1>2 DEF Sound, Fit, WrittenStays

LEMMA WorkingNextInv == WorkingInv /\ [WorkingNext]_workingVars => WorkingInv'
<1>1. SUFFICES ASSUME WorkingInv, [WorkingNext]_workingVars PROVE WorkingInv'
  OBVIOUS
<1>2. \A m \in memory : Fit(m)
  BY <1>1 DEF WorkingInv, Sound
<1>3. CASE BeginActivation
  <2>1. PICK m : m = [entries |-> memory_blob, total |-> blob_size(memory_blob),
                      warned |-> FALSE, writes |-> 0, last |-> Nothing]
    OBVIOUS
  <2>2. BlobFits(memory_blob) /\ memory' = {m} /\ memory_blob' = memory_blob
    BY <1>1, <1>3, <2>1 DEF BeginActivation, WorkingInv
  <2>3. blob_size(memory_blob) \in Nat
    BY <2>2, BytesAdd DEF blob_size, BlobFits
  <2>4. Nothing \in Lasts /\ Nothing.said = ""
    <3>1. Scalar(SummaryKey, 0) \in MemoryEntries
      <4>1. <<0>> \in Seq(Nat)
        OBVIOUS
      <4> QED BY <4>1, WorkingMemoryAssumption DEF Scalar, MemoryEntries
    <3> QED BY <3>1 DEF Nothing, Lasts
  <2>5. m \in Memories /\ m.entries = memory_blob /\ m.total = blob_size(memory_blob) /\ m.last = Nothing
    BY <2>1, <2>2, <2>3, <2>4 DEF Memories, BlobFits
  <2>6. Sound(m)
    BY <2>2, <2>4, <2>5 DEF Sound, Fit, Exact, WrittenStays, BlobFits
  <2> QED BY <2>2, <2>6 DEF WorkingInv, BlobFits
<1>4. ASSUME NEW n \in Names, NEW size \in ItemSizes, Set(n, size) PROVE WorkingInv'
  <2>1. PICK m \in memory : Access(m, set(m, n, size))
    BY <1>4 DEF Set
  <2>2. size \in Nat
    BY WorkingMemoryAssumption
  <2>3. Sound(set(m, n, size)) /\ set(m, n, size).writes = m.writes
    BY <1>2, <2>2, SetKeeps
  <2> QED BY <1>1, <2>1, <2>3, AccessKeeps
<1>5. ASSUME NEW n \in Names, NEW size \in ItemSizes, AppendItem(n, size) PROVE WorkingInv'
  <2>1. PICK m \in memory : Access(m, append(m, n, size, MaxItems))
    BY <1>5 DEF AppendItem
  <2>2. size \in Nat /\ MaxItems \in Nat
    BY WorkingMemoryAssumption
  <2>3. PICK b : b = append(m, n, size, MaxItems)
    OBVIOUS
  <2>4. Sound(b) /\ b.writes = m.writes
    BY <1>2, <2>2, <2>3, AppendKeeps
  <2> QED BY <1>1, <2>1, <2>3, <2>4, AccessKeeps
<1>6. ASSUME NEW n \in Names, Read(n) PROVE WorkingInv'
  <2>1. PICK m \in memory : Access(m, Quiet(touch(m, n)))
    BY <1>6 DEF Read
  <2>2. PICK c : c = touch(m, n)
    OBVIOUS
  <2>3. Fit(c) /\ c.writes = m.writes
    BY <1>2, <2>2, TouchKeeps DEF Fit, SameAccess
  <2>4. PICK b : b = Quiet(c)
    OBVIOUS
  <2>5. Sound(b) /\ b.writes = m.writes
    BY <2>3, <2>4, QuietIsSound
  <2> QED BY <1>1, <2>1, <2>2, <2>4, <2>5, AccessKeeps
<1>7. ASSUME NEW n \in Names, Delete(n) PROVE WorkingInv'
  <2>1. PICK m \in memory : Access(m, Quiet(delete(m, n)))
    BY <1>7 DEF Delete
  <2>2. PICK c : c = delete(m, n)
    OBVIOUS
  <2>3. Fit(c) /\ c.writes = m.writes
    BY <1>2, <2>2, DeleteKeeps DEF SameAccess
  <2>4. PICK b : b = Quiet(c)
    OBVIOUS
  <2>5. Sound(b) /\ b.writes = m.writes
    BY <2>3, <2>4, QuietIsSound
  <2> QED BY <1>1, <2>1, <2>2, <2>4, <2>5, AccessKeeps
<1>8. CASE CommitAsIs
  <2>1. PICK m \in memory : /\ memory_blob' = IF NeedsSummary(m) THEN touch(m, SourceKey).entries
                                              ELSE m.entries
                            /\ memory' = {}
    BY <1>8 DEF CommitAsIs
  <2>2. Fit(m) /\ Fit(touch(m, SourceKey))
    BY <1>2, TouchKeeps DEF Fit
  <2>3. BlobFits(memory_blob)'
    BY <2>1, <2>2, FitBlob DEF BlobFits
  <2> QED BY <2>1, <2>3 DEF WorkingInv
<1>9. ASSUME NEW size \in ItemSizes, CommitSummarized(size) PROVE WorkingInv'
  <2>1. PICK m \in memory : memory_blob' = summarized(m, size).entries /\ memory' = {}
    BY <1>9 DEF CommitSummarized
  <2>2. Fit(summarized(m, size))
    BY <1>2, SummarizedKeeps, WorkingMemoryAssumption
  <2>3. BlobFits(memory_blob)'
    BY <2>1, <2>2, FitBlob DEF BlobFits
  <2> QED BY <2>1, <2>3 DEF WorkingInv
<1>10. CASE Discard
  BY <1>1, <1>10 DEF Discard, WorkingInv, BlobFits
<1>11. CASE UNCHANGED workingVars
  BY <1>1, <1>11 DEF workingVars, WorkingInv, BlobFits
<1> QED BY <1>1, <1>3, <1>4, <1>5, <1>6, <1>7, <1>8, <1>9, <1>10, <1>11 DEF WorkingNext

(* Sizes, with the number of names counted.                                  *)
LEMMA NamesCounted ==
    ASSUME NEW s \in Seq(MemoryEntries), NamesApart(s)
    PROVE  Cardinality({e.name : e \in ToSet(s)}) = Len(s)
<1>1. PICK n \in Nat : n = Len(s) /\ DOMAIN s = 1..n
  OBVIOUS
<1>2. PICK f : f = [i \in 1..n |-> s[i].name]
  OBVIOUS
<1>3. DOMAIN f = 1..n /\ \A i, j \in 1..n : f[i] = f[j] => i = j
  BY <1>1, <1>2 DEF NamesApart
<1>4. Cardinality({f[i] : i \in 1..n}) = n
  BY <1>3, OneEach
<1>5. {e.name : e \in ToSet(s)} = {f[i] : i \in 1..n}
  BY <1>1, <1>2 DEF ToSet
<1> QED BY <1>1, <1>4, <1>5

(* Working memory keeps its size by increments, refuses a write only when    *)
(* there was nothing left to evict, and evicts what was just written last    *)
(* (memory/facade.py, _guarded_write), whatever the caps, targets and sizes. *)
THEOREM WritesAlwaysFit == WorkingSpec => []WritesFit
<1>1. WorkingInv => WritesFit
  <2>1. SUFFICES ASSUME WorkingInv PROVE WritesFit
    OBVIOUS
  <2>2. SizesAreExact
    <3>1. blob_size(memory_blob) <= HardCap
      BY <2>1 DEF WorkingInv, BlobFits
    <3>2. ASSUME NEW m \in memory
          PROVE  /\ m.total = blob_size(m.entries) /\ m.total <= HardCap
                 /\ Cardinality({e.name : e \in ToSet(m.entries)}) = Len(m.entries)
      <4>1. Exact(m) /\ m.total <= HardCap
        BY <2>1 DEF WorkingInv, Sound, Fit
      <4> QED BY <4>1, NamesCounted DEF Exact, Memories
    <3> QED BY <3>1, <3>2 DEF SizesAreExact
  <2>3. OverflowIsLastResort
    BY <2>1 DEF WorkingInv, Sound, NothingToEvict, OverflowIsLastResort
  <2>4. WrittenIsEvictedLast
    BY <2>1 DEF WorkingInv, Sound, WrittenStays, WrittenIsEvictedLast
  <2> QED BY <2>2, <2>3, <2>4 DEF WritesFit
<1> QED BY <1>1, WorkingInitInv, WorkingNextInv, PTL DEF WorkingSpec

-----------------------------------------------------------------------------
(* What compaction may take.                                                 *)

LEMMA AtHolds ==
    ASSUME NEW m, Exact(m), NEW n
    PROVE  at(m, n) # {} <=> Holds(m, n)
<1>1. m.entries \in Seq(MemoryEntries)
  BY DEF Exact, Memories
<1> QED BY <1>1 DEF at, Holds, ToSet

LEMMA LoneInit == WorkingInit => \A x, y \in memory : x = y
BY DEF WorkingInit

LEMMA LoneNext ==
    (\A x, y \in memory : x = y) /\ [WorkingNext]_workingVars => (\A x, y \in memory : x = y)'
BY DEF WorkingNext, workingVars, BeginActivation, Set, AppendItem, Read, Delete, Access,
       CommitAsIs, CommitSummarized, Discard

(* What an access leaves, its count of accesses aside.                       *)
LEMMA AccessLeaves ==
    ASSUME NEW m \in memory, NEW c \in Memories, Access(m, c), NEW b \in memory'
    PROVE  b.entries = c.entries /\ b.last = c.last
BY DEF Access, Memories

(* The agent's accesses keep protected entries, but for its deletes.         *)
LEMMA ProtectedRemain ==
    ASSUME WorkingInv, \A x, y \in memory : x = y, [WorkingNext]_workingVars
    PROVE  ProtectedStay
<1>1. SUFFICES ASSUME NEW n \in Protected, NEW m \in memory, NEW b \in memory',
                      at(m, n) # {}, b.last # Nothing
               PROVE  at(b, n) # {}
  BY DEF ProtectedStay
<1>2. Fit(m)
  BY <1>1 DEF WorkingInv, Sound
<1>3. WorkingInv'
  BY WorkingNextInv
<1>4. Exact(b) /\ Exact(m)
  BY <1>1, <1>2, <1>3 DEF WorkingInv, Sound, Fit
<1>5. SUFFICES Holds(b, n)
  BY <1>4, AtHolds
<1>6. Holds(m, n)
  BY <1>1, <1>4, AtHolds
<1>7. ASSUME NEW c, Access(m, c), Fit(c), KeepsProtected(c, m)
      PROVE  Holds(b, n)
  <2>1. b.entries = c.entries
    BY <1>1, <1>7, AccessLeaves DEF Fit, Exact
  <2> QED BY <1>1, <1>6, <1>7, <2>1 DEF KeepsProtected, Holds
<1>8. ASSUME NEW a \in Names, NEW size \in ItemSizes, Set(a, size) PROVE Holds(b, n)
  <2>1. PICK c : c = set(m, a, size)
    OBVIOUS
  <2>2. Access(m, c)
    BY <1>1, <1>8, <2>1 DEF Set
  <2>3. Fit(c) /\ KeepsProtected(c, m)
    BY <1>2, <2>1, SetKeeps, WorkingMemoryAssumption DEF Sound
  <2> QED BY <1>7, <2>2, <2>3
<1>9. ASSUME NEW a \in Names, NEW size \in ItemSizes, AppendItem(a, size) PROVE Holds(b, n)
  <2>1. PICK c : c = append(m, a, size, MaxItems)
    OBVIOUS
  <2>2. Access(m, c)
    BY <1>1, <1>9, <2>1 DEF AppendItem
  <2>3. size \in Nat /\ MaxItems \in Nat
    BY WorkingMemoryAssumption
  <2>4. Fit(c) /\ KeepsProtected(c, m)
    BY <1>2, <2>1, <2>3, AppendKeeps DEF Sound
  <2> QED BY <1>7, <2>2, <2>4
<1>10. ASSUME NEW a \in Names, Read(a) \/ Delete(a) PROVE FALSE
  <2>1. PICK c : Access(m, Quiet(c)) /\ Fit(c)
    <3>1. CASE Read(a)
      <4>1. Access(m, Quiet(touch(m, a)))
        BY <1>1, <3>1 DEF Read
      <4>2. Fit(touch(m, a))
        BY <1>2, TouchKeeps DEF Fit
      <4> QED BY <4>1, <4>2
    <3>2. CASE Delete(a)
      <4>1. Access(m, Quiet(delete(m, a)))
        BY <1>1, <3>2 DEF Delete
      <4>2. Fit(delete(m, a))
        BY <1>2, DeleteKeeps
      <4> QED BY <4>1, <4>2
    <3> QED BY <1>10, <3>1, <3>2
  <2>2. PICK d : d = Quiet(c)
    OBVIOUS
  <2>3. Sound(d) /\ d.last = Nothing
    BY <2>1, <2>2, QuietIsSound
  <2>4. b.last = Nothing
    BY <1>1, <2>1, <2>2, <2>3, AccessLeaves DEF Sound, Fit, Exact
  <2> QED BY <1>1, <2>4
<1>11. CASE UNCHANGED workingVars
  BY <1>1, <1>6, <1>11 DEF workingVars
<1>12. ~BeginActivation /\ ~CommitAsIs /\ ~Discard /\ \A size \in ItemSizes : ~CommitSummarized(size)
  BY <1>1 DEF BeginActivation, CommitAsIs, Discard, CommitSummarized
<1> QED BY <1>8, <1>9, <1>10, <1>11, <1>12 DEF WorkingNext

-----------------------------------------------------------------------------
(* Memory that the soft-cap pass leaves alone.                               *)
Settled(m) == m.warned \/ m.total < SoftCap

LEMMA SettledStays ==
    ASSUME NEW m, Settled(m)
    PROVE  maybe_soft_cap(m) = m
BY DEF Settled, maybe_soft_cap

-----------------------------------------------------------------------------
(* The sizes of rings and of their parts.                                    *)

Framed == [x \in Nat |-> x + LenPrefix]
framed(items) == Weight(Framed, items, DOMAIN items)

LEMMA FramedSizes ==
    /\ Framed \in [Nat -> Nat]
    /\ \A x \in Nat : Framed[x] = x + LenPrefix /\ x <= Framed[x]
<1>1. LenPrefix \in Nat
  BY WorkingMemoryAssumption
<1> QED BY <1>1 DEF Framed

LEMMA FramedIsNat ==
    ASSUME NEW items \in Seq(Nat), NEW P \in SUBSET (DOMAIN items)
    PROVE  /\ framed(items) = Weight(Framed, items, P) + Weight(Framed, items, DOMAIN items \ P)
           /\ framed(items) \in Nat /\ Weight(Framed, items, P) \in Nat
           /\ Weight(Framed, items, DOMAIN items \ P) \in Nat
<1>1. PICK D, W, T : D = DOMAIN items /\ W = Framed /\ T = Nat
  OBVIOUS
<1>2. W \in [T -> Nat] /\ items \in Seq(T) /\ D \in SUBSET (DOMAIN items) /\ P \in SUBSET D
  BY <1>1, FramedSizes
<1>3. /\ Weight(W, items, D) = Weight(W, items, P) + Weight(W, items, D \ P)
      /\ Weight(W, items, P) \in Nat /\ Weight(W, items, D \ P) \in Nat /\ Weight(W, items, D) \in Nat
  BY <1>2, WeightAdds
<1> QED BY <1>1, <1>3 DEF framed

LEMMA RingSize ==
    ASSUME NEW n, NEW items \in Seq(Nat)
    PROVE  entry_size(Ring(n, items)) = 1 + framed(items) /\ framed(items) \in Nat
<1>0. PICK e : e = Ring(n, items)
  OBVIOUS
<1>1. e = Ring(n, items) /\ e.items = items /\ e.ring
  BY <1>0 DEF Ring
<1>2. PICK w : w = [i \in DOMAIN e.items |-> e.items[i] + (IF e.ring THEN LenPrefix ELSE 0)]
  OBVIOUS
<1>3. PICK v : v = [i \in DOMAIN items |-> Framed[items[i]]]
  OBVIOUS
<1>4. w = v
  <2>1. \A i \in DOMAIN items : items[i] \in Nat
    OBVIOUS
  <2>2. \A i \in DOMAIN items : w[i] = v[i]
    BY <1>1, <1>2, <1>3, <2>1, FramedSizes
  <2> QED BY <1>1, <1>2, <1>3, <2>2
<1>5. SumFunction(v) = SumFunctionOnSet(v, DOMAIN items)
  <2>1. DOMAIN v = DOMAIN items
    BY <1>3
  <2> QED BY <2>1, SumIsAll
<1>6. entry_size(e) = 1 + SumFunctionOnSet(v, DOMAIN items)
  BY <1>2, <1>4, <1>5 DEF entry_size
<1>7. framed(items) \in Nat
  <2>1. {} \in SUBSET (DOMAIN items)
    OBVIOUS
  <2> QED BY <2>1, FramedIsNat
<1> QED BY <1>1, <1>3, <1>6, <1>7 DEF framed, Weight

LEMMA ScalarSize ==
    ASSUME NEW n, NEW size \in Nat
    PROVE  entry_size(Scalar(n, size)) = 1 + size
<1>0. PICK e : e = Scalar(n, size)
  OBVIOUS
<1>1. e = Scalar(n, size) /\ e.items = <<size>> /\ ~e.ring
  BY <1>0 DEF Scalar
<1>2. PICK w : w = [i \in DOMAIN e.items |-> e.items[i] + (IF e.ring THEN LenPrefix ELSE 0)]
  OBVIOUS
<1>3. PICK S : S = {1}
  OBVIOUS
<1>4. DOMAIN w = S /\ w[1] = size
  BY <1>1, <1>2, <1>3
<1>5. SumFunction(w) = size
  <2>1. IsFiniteSet(S) /\ 1 \in S /\ \A x \in S : w[x] \in Nat
    BY <1>3, <1>4, FS_Singleton
  <2>2. SumFunctionOnSet(w, S) = w[1] + SumFunctionOnSet(w, S \ {1})
    BY <2>1, SumWithout
  <2>3. S \ {1} = {}
    BY <1>3
  <2>4. SumFunctionOnSet(w, S \ {1}) = 0
    BY <2>3, SumOfNone
  <2> QED BY <1>4, <2>2, <2>4, SumIsAll
<1> QED BY <1>1, <1>2, <1>5 DEF entry_size

LEMMA PrefixSize ==
    ASSUME NEW items \in Seq(Nat), NEW k \in Nat, k <= Len(items)
    PROVE  /\ SubSeq(items, 1, k) \in Seq(Nat) /\ Len(SubSeq(items, 1, k)) = k
           /\ framed(SubSeq(items, 1, k)) \in Nat /\ framed(SubSeq(items, 1, k)) <= framed(items)
           /\ framed(items) \in Nat
<1>0. PICK a : a \in Nat \ {0} /\ a = 1 /\ a <= k + 1 /\ k - a + 1 = k
  OBVIOUS
<1>1. PICK t, D, T, W : t = SubSeq(items, a, k) /\ D = a..k /\ T = Nat /\ W = Framed
  OBVIOUS
<1>2. W \in [T -> Nat] /\ items \in Seq(T) /\ k <= Len(items)
  BY <1>1, FramedSizes
<1>3. t \in Seq(T) /\ Len(t) = k /\ Weight(W, t, DOMAIN t) = Weight(W, items, D)
  <2>1. IsPart(items, a, k)
    BY <1>0, <1>2 DEF IsPart
  <2>2. SubSeq(items, a, k) \in Seq(T) /\ Len(SubSeq(items, a, k)) = k - a + 1
    /\ Weight(W, SubSeq(items, a, k), DOMAIN SubSeq(items, a, k)) = Weight(W, items, a..k)
    BY <1>2, <2>1, WeightOfPart
  <2> QED BY <1>0, <1>1, <2>2
<1>4. t = SubSeq(items, 1, k) /\ D \in SUBSET (DOMAIN items)
  BY <1>0, <1>1
<1>5. /\ framed(items) = Weight(Framed, items, D) + Weight(Framed, items, DOMAIN items \ D)
      /\ framed(items) \in Nat /\ Weight(Framed, items, D) \in Nat
      /\ Weight(Framed, items, DOMAIN items \ D) \in Nat
  BY <1>4, FramedIsNat
<1>6. framed(t) = Weight(Framed, items, D)
  BY <1>1, <1>3 DEF framed
<1>7. framed(t) \in Nat /\ framed(t) <= framed(items)
  BY <1>5, <1>6
<1> QED BY <1>1, <1>3, <1>4, <1>5, <1>7

(* A summary smaller than the items it replaces fits where they were.        *)
LEMMA FoldedSize ==
    ASSUME NEW items \in Seq(Nat), NEW K \in Nat, K < Len(items)
    PROVE  /\ last_items(items, K) \in Seq(Nat) /\ Len(last_items(items, K)) = K
           /\ SumFunction(SubSeq(items, 1, Len(items) - K)) \in Nat
           /\ SumFunction(SubSeq(items, 1, Len(items) - K)) + framed(last_items(items, K)) <= framed(items)
           /\ framed(last_items(items, K)) \in Nat /\ framed(items) \in Nat
<1>1. PICK n \in Nat : n = Len(items) /\ DOMAIN items = 1..n
  OBVIOUS
<1>2. n > K
  BY <1>1
<1>3. PICK a \in Nat : a = n - K /\ a + K = n
  BY <1>2
<1>4. PICK old, kept : old = SubSeq(items, 1, a) /\ kept = last_items(items, K)
  OBVIOUS
<1>5. PICK b : b \in Nat \ {0} /\ b = a + 1 /\ b <= n + 1 /\ kept = SubSeq(items, b, n)
  <2>1. kept = SubSeq(items, n - K + 1, n)
    BY <1>1, <1>2, <1>4 DEF last_items
  <2>2. n - K + 1 = a + 1 /\ a + 1 \in Nat \ {0} /\ a + 1 <= n + 1
    BY <1>3
  <2>3. PICK b : b = a + 1
    OBVIOUS
  <2> QED BY <2>1, <2>2, <2>3
<1>6. PICK T, W, I : T = Nat /\ W = Framed /\ I = [x \in Nat |-> x]
  OBVIOUS
<1>7. W \in [T -> Nat] /\ I \in [T -> Nat] /\ items \in Seq(T) /\ n <= Len(items) /\ a <= Len(items)
  <2>1. I \in [T -> Nat]
    BY <1>6
  <2>2. W \in [T -> Nat] /\ items \in Seq(T)
    BY <1>6, FramedSizes
  <2>3. n <= Len(items) /\ a <= Len(items)
    BY <1>1, <1>3
  <2> QED BY <2>1, <2>2, <2>3
<1>8. PICK A, B : A = 1..a /\ B = b..n
  OBVIOUS
<1>9. A \in SUBSET (DOMAIN items) /\ B = DOMAIN items \ A
  BY <1>1, <1>3, <1>5, <1>8
<1>10. kept \in Seq(Nat) /\ Len(kept) = K /\ framed(kept) = Weight(Framed, items, B)
  <2>1. IsPart(items, b, n) /\ W \in [T -> Nat] /\ items \in Seq(T)
    BY <1>1, <1>5, <1>7 DEF IsPart
  <2>2. kept \in Seq(T) /\ Weight(W, kept, DOMAIN kept) = Weight(W, items, b..n)
    <3>1. /\ SubSeq(items, b, n) \in Seq(T)
          /\ Weight(W, SubSeq(items, b, n), DOMAIN SubSeq(items, b, n)) = Weight(W, items, b..n)
      BY <2>1, WeightOfPart
    <3> QED BY <1>5, <3>1
  <2>3. Len(kept) = K
    BY <1>1, <1>3, <1>5
  <2> QED BY <1>6, <1>8, <2>2, <2>3 DEF framed
<1>11. old \in Seq(Nat) /\ Weight(I, old, DOMAIN old) = Weight(I, items, A)
  <2>1. PICK z : z \in Nat \ {0} /\ z = 1 /\ z <= a + 1
    OBVIOUS
  <2>2. old = SubSeq(items, z, a) /\ a <= Len(items) /\ z..a = A
    BY <1>1, <1>3, <1>4, <1>8, <2>1
  <2>3. IsPart(items, z, a) /\ I \in [T -> Nat] /\ items \in Seq(T)
    BY <1>7, <2>1, <2>2 DEF IsPart
  <2>4. old \in Seq(T) /\ Weight(I, old, DOMAIN old) = Weight(I, items, z..a)
    <3>1. /\ SubSeq(items, z, a) \in Seq(T)
          /\ Weight(I, SubSeq(items, z, a), DOMAIN SubSeq(items, z, a)) = Weight(I, items, z..a)
      BY <2>3, WeightOfPart
    <3> QED BY <2>2, <3>1
  <2> QED BY <1>6, <2>2, <2>4
<1>12. SumFunction(old) = Weight(I, old, DOMAIN old)
  <2>1. PICK w : w = [i \in DOMAIN old |-> I[old[i]]]
    OBVIOUS
  <2>2. w = old
    <3>1. \A i \in DOMAIN old : old[i] \in Nat
      BY <1>11
    <3>2. \A i \in DOMAIN old : w[i] = old[i]
      BY <1>6, <2>1, <3>1
    <3>3. old = [i \in DOMAIN old |-> old[i]]
      BY <1>11
    <3> QED BY <2>1, <3>2, <3>3
  <2> QED BY <2>1, <2>2, SumIsAll DEF Weight
<1>13. /\ Weight(I, items, A) \in Nat /\ Weight(W, items, A) \in Nat
       /\ Weight(I, items, A) <= Weight(W, items, A)
  <2>1. PICK w, v : w = [i \in DOMAIN items |-> I[items[i]]] /\ v = [i \in DOMAIN items |-> W[items[i]]]
    OBVIOUS
  <2>2. \A i \in A : items[i] \in Nat /\ i \in DOMAIN items
    BY <1>9
  <2>3. \A i \in A : w[i] \in Nat /\ v[i] \in Nat /\ w[i] <= v[i]
    BY <1>6, <2>1, <2>2, FramedSizes
  <2>4. IsFiniteSet(A)
    BY <1>8, Interval
  <2> QED BY <2>1, <2>3, <2>4, SumAtMost DEF Weight
<1>14. /\ framed(items) = Weight(Framed, items, A) + Weight(Framed, items, B)
       /\ framed(items) \in Nat /\ Weight(Framed, items, B) \in Nat
  <2>1. /\ framed(items) = Weight(Framed, items, A) + Weight(Framed, items, DOMAIN items \ A)
        /\ framed(items) \in Nat /\ Weight(Framed, items, DOMAIN items \ A) \in Nat
    BY <1>9, FramedIsNat
  <2> QED BY <1>9, <2>1
<1>15. PICK x, y : x = Weight(I, items, A) /\ y = Weight(Framed, items, A)
  OBVIOUS
<1>16. x \in Nat /\ y \in Nat /\ x <= y /\ SumFunction(old) = x
  BY <1>6, <1>11, <1>12, <1>13, <1>15
<1>17. SumFunction(old) + framed(kept) <= framed(items)
  BY <1>10, <1>14, <1>15, <1>16
<1> QED BY <1>1, <1>2, <1>3, <1>4, <1>10, <1>14, <1>16, <1>17

-----------------------------------------------------------------------------
(* A ring rewritten item by item.                                            *)

(* What is found of a name that is at position i, and of one that is not.    *)
LEMMA FoundAt ==
    ASSUME NEW m, Exact(m), NEW i \in DOMAIN m.entries, NEW n, m.entries[i].name = n
    PROVE  /\ places(m.entries, n) = {i} /\ at(m, n) = {m.entries[i]}
           /\ ring_items(m, n) = m.entries[i].items
           /\ old_len(m, n) = entry_size(m.entries[i]) /\ old_len(m, n) \in Nat
<1>1. PICK s : s = m.entries
  OBVIOUS
<1>2. s \in Seq(MemoryEntries) /\ NamesApart(s) /\ i \in DOMAIN s
  BY <1>1 DEF Exact, Memories
<1>3. places(s, n) = {i}
  BY <1>1, <1>2 DEF places, NamesApart
<1>4. at(m, n) = {s[i]}
  BY <1>1, <1>2 DEF at, ToSet, NamesApart
<1>5. ring_items(m, n) = s[i].items
  BY <1>4 DEF ring_items
<1>6. bytes_at(s, {i}) = entry_size(s[i]) /\ entry_size(s[i]) \in Nat
  BY <1>2, BytesOfOne
<1> QED BY <1>1, <1>3, <1>4, <1>5, <1>6 DEF old_len

LEMMA FoundNowhere ==
    ASSUME NEW m, Exact(m), NEW n, \A i \in DOMAIN m.entries : m.entries[i].name # n
    PROVE  /\ places(m.entries, n) = {} /\ at(m, n) = {} /\ ring_items(m, n) = <<>>
           /\ old_len(m, n) = 0
<1>1. places(m.entries, n) = {}
  BY DEF places
<1>2. at(m, n) = {}
  <2>1. m.entries \in Seq(MemoryEntries)
    BY DEF Exact, Memories
  <2> QED BY <2>1 DEF at, ToSet
<1>3. bytes_at(m.entries, {}) = 0
  BY SumOfNone DEF bytes_at
<1> QED BY <1>1, <1>2, <1>3 DEF ring_items, old_len

(* A write that fits is committed as it is where no soft-cap pass is due.    *)
Written(g, m, e) ==
    /\ Exact(g) /\ (m.warned => g.warned) /\ g.total = prospective_total(m, e)
    /\ Len(g.entries) \in DOMAIN g.entries /\ g.entries[Len(g.entries)] = e
    /\ \A i \in DOMAIN g.entries :
          g.entries[i] = e \/ \E j \in DOMAIN m.entries : g.entries[i] = m.entries[j]
    /\ \A j \in DOMAIN m.entries : m.entries[j].name # e.name =>
          \E i \in DOMAIN g.entries : g.entries[i] = m.entries[j]

LEMMA WrittenAsIs ==
    ASSUME NEW m, Exact(m), NEW e \in MemoryEntries, prospective_total(m, e) <= HardCap,
           m.warned \/ prospective_total(m, e) < SoftCap
    PROVE  room_for(m, e) = m /\ Written(guarded_write(m, e), m, e)
<1>1. /\ prospective_total(m, e) \in Nat /\ HardCap \in Nat
  <2>1. Exact(commit_entry(m, e)) /\ commit_entry(m, e).total = prospective_total(m, e)
    BY CommittedWriteKeeps
  <2> QED BY <2>1, WorkingMemoryAssumption DEF Exact, Memories
<1>2. ~(prospective_total(m, e) > HardCap)
  BY <1>1
<1>3. room_for(m, e) = m
  BY <1>2 DEF room_for
<1>4. PICK c : c = commit_entry(m, e)
  OBVIOUS
<1>5. /\ Exact(c) /\ SameAccess(c, m) /\ c.total = prospective_total(m, e)
      /\ Len(c.entries) \in DOMAIN c.entries /\ c.entries[Len(c.entries)] = e
      /\ \A i \in DOMAIN c.entries :
            \/ i = Len(c.entries)
            \/ \E j \in DOMAIN m.entries : c.entries[i] = m.entries[j]
      /\ \A j \in DOMAIN m.entries : m.entries[j].name # e.name =>
            \E i \in DOMAIN c.entries : c.entries[i] = m.entries[j]
  BY <1>4, CommittedWriteKeeps
<1>6. maybe_soft_cap(c) = c
  <2>1. Settled(c)
    BY <1>5 DEF Settled, SameAccess
  <2> QED BY <2>1, SettledStays
<1>7. PICK g : g = guarded_write(m, e)
  OBVIOUS
<1>8. g = [c EXCEPT !.last = [said |-> "ok", wrote |-> e]]
  BY <1>2, <1>4, <1>6, <1>7 DEF guarded_write
<1>9. Exact(g) /\ g.entries = c.entries /\ g.total = c.total /\ g.warned = c.warned
  <2>1. PICK l \in Lasts : l = [said |-> "ok", wrote |-> e]
    BY DEF Lasts
  <2>2. g = [c EXCEPT !.last = l]
    BY <1>8, <2>1
  <2>3. c \in Memories
    BY <1>5 DEF Exact
  <2>4. g \in Memories /\ g.entries = c.entries /\ g.total = c.total /\ g.warned = c.warned
    BY <2>2, <2>3 DEF Memories
  <2> QED BY <1>5, <2>4 DEF Exact
<1>10. Written(g, m, e)
  <2>1. \A i \in DOMAIN g.entries :
           g.entries[i] = e \/ \E j \in DOMAIN m.entries : g.entries[i] = m.entries[j]
    BY <1>5, <1>9
  <2>2. m.warned => g.warned
    BY <1>5, <1>9 DEF SameAccess
  <2> QED BY <1>5, <1>9, <2>1, <2>2 DEF Written
<1> QED BY <1>3, <1>7, <1>10

(* The first k items of kept are back, where m had a ring of size whole.     *)
Along(x, m, kept, k, whole) ==
    /\ Fit(x) /\ (m.warned => x.warned)
    /\ k \in Nat /\ k <= Len(kept)
    /\ x.total + whole <= m.total + old_len(x, SourceKey)
    /\ ring_items(x, SourceKey) = SubSeq(kept, 1, k)
    /\ old_len(x, SourceKey) = IF k = 0 THEN 0 ELSE 1 + framed(SubSeq(kept, 1, k))
    /\ k > 0 => /\ Len(x.entries) \in DOMAIN x.entries
                /\ x.entries[Len(x.entries)] = Ring(SourceKey, SubSeq(kept, 1, k))

LEMMA OneMore ==
    ASSUME NEW kept \in Seq(Nat), NEW k \in Nat, k < Len(kept)
    PROVE  last_items(Append(SubSeq(kept, 1, k), kept[k + 1]), Len(kept)) = SubSeq(kept, 1, k + 1)
<1>1. PICK L \in Nat : L = Len(kept) /\ DOMAIN kept = 1..L
  OBVIOUS
<1>2. PICK p, q : p = SubSeq(kept, 1, k) /\ q = SubSeq(kept, 1, k + 1)
  OBVIOUS
<1>3. p \in Seq(Nat) /\ Len(p) = k /\ \A i \in 1..k : p[i] = kept[i]
  BY <1>1, <1>2
<1>4. q \in Seq(Nat) /\ Len(q) = k + 1 /\ \A i \in 1..(k + 1) : q[i] = kept[i]
  BY <1>1, <1>2
<1>5. PICK a : a = Append(p, kept[k + 1])
  OBVIOUS
<1>6. a \in Seq(Nat) /\ Len(a) = k + 1 /\ (\A i \in 1..k : a[i] = p[i]) /\ a[k + 1] = kept[k + 1]
  BY <1>1, <1>3, <1>5
<1>7. a = q
  <2>1. ASSUME NEW i \in 1..(k + 1) PROVE a[i] = q[i]
    <3>1. CASE i \in 1..k
      BY <1>3, <1>4, <1>6, <3>1
    <3>2. CASE i = k + 1
      BY <1>4, <1>6, <3>2
    <3> QED BY <3>1, <3>2
  <2> QED BY <1>4, <1>6, <2>1
<1>8. last_items(a, L) = SubSeq(a, 1, k + 1)
  <2>1. k + 1 <= L /\ ~(Len(a) > L)
    BY <1>1, <1>6
  <2> QED BY <1>6, <2>1 DEF last_items
<1>9. SubSeq(q, 1, k + 1) = q
  BY <1>4
<1> QED BY <1>1, <1>2, <1>5, <1>7, <1>8, <1>9

LEMMA RingEntry ==
    ASSUME NEW items \in Seq(Nat)
    PROVE  /\ Ring(SourceKey, items) \in MemoryEntries
           /\ Ring(SourceKey, items).name = SourceKey /\ Ring(SourceKey, items).items = items
           /\ entry_size(Ring(SourceKey, items)) = 1 + framed(items) /\ framed(items) \in Nat
<1>1. Ring(SourceKey, items) \in MemoryEntries
  BY WorkingMemoryAssumption DEF Ring, MemoryEntries
<1>2. Ring(SourceKey, items).name = SourceKey /\ Ring(SourceKey, items).items = items
  BY DEF Ring
<1>3. entry_size(Ring(SourceKey, items)) = 1 + framed(items) /\ framed(items) \in Nat
  BY RingSize
<1> QED BY <1>1, <1>2, <1>3

(* One item more.                                                            *)
LEMMA AlongAppends ==
    ASSUME NEW m, Fit(m), NEW kept \in Seq(Nat), NEW k \in Nat, k < Len(kept),
           NEW whole \in Nat, 1 + framed(kept) <= whole, Settled(m),
           NEW x, Along(x, m, kept, k, whole)
    PROVE  Along(append(x, SourceKey, kept[k + 1], Len(kept)), m, kept, k + 1, whole)
<1>1. PICK items : items = SubSeq(kept, 1, k + 1)
  OBVIOUS
<1>2. /\ items \in Seq(Nat) /\ framed(items) \in Nat /\ framed(items) <= framed(kept) /\ framed(kept) \in Nat
  <2>1. k + 1 \in Nat /\ k + 1 <= Len(kept)
    BY DEF Along
  <2> QED BY <1>1, <2>1, PrefixSize
<1>3. PICK r : r = Ring(SourceKey, items)
  OBVIOUS
<1>4. /\ r \in MemoryEntries /\ r.name = SourceKey /\ r.items = items
      /\ entry_size(r) = 1 + framed(items)
  BY <1>2, <1>3, RingEntry
<1>5. PICK o : o = old_len(x, SourceKey)
  OBVIOUS
<1>6. /\ Exact(x) /\ x.total \in Nat /\ m.total \in Nat /\ m.total <= HardCap /\ HardCap \in Nat
      /\ SoftCap \in Nat
  BY WorkingMemoryAssumption DEF Along, Fit, Exact, Memories
<1>7. o \in Nat
  <2>1. CASE k = 0
    BY <1>5, <2>1 DEF Along
  <2>2. CASE k # 0
    <3>1. framed(SubSeq(kept, 1, k)) \in Nat
      <4>1. k <= Len(kept)
        BY DEF Along
      <4> QED BY <4>1, PrefixSize
    <3> QED BY <1>5, <2>2, <3>1 DEF Along
  <2> QED BY <2>1, <2>2
<1>8. prospective_total(x, r) = x.total + entry_size(r) - o
  BY <1>4, <1>5 DEF prospective_total
<1>9. /\ prospective_total(x, r) + whole <= m.total + (1 + framed(items))
      /\ prospective_total(x, r) <= m.total /\ prospective_total(x, r) \in Int
  <2>1. PICK p, y, z, f, h : /\ p = prospective_total(x, r) /\ y = x.total /\ z = m.total
                             /\ f = framed(items) /\ h = framed(kept)
    OBVIOUS
  <2>2. y + whole <= z + o
    BY <1>5, <2>1 DEF Along
  <2>3. p = y + (1 + f) - o
    BY <1>4, <1>8, <2>1
  <2>4. y \in Nat /\ z \in Nat /\ f \in Nat /\ h \in Nat /\ f <= h /\ 1 + h <= whole
    BY <1>2, <1>6, <2>1
  <2>5. p + whole <= z + (1 + f) /\ p <= z /\ p \in Int
    BY <1>7, <2>2, <2>3, <2>4
  <2> QED BY <2>1, <2>5
<1>10. prospective_total(x, r) <= m.total /\ prospective_total(x, r) \in Int
  BY <1>9
<1>11. PICK g : g = append(x, SourceKey, kept[k + 1], Len(kept))
  OBVIOUS
<1>12. Written(g, x, r)
  <2>1. prospective_total(x, r) <= HardCap
    BY <1>6, <1>10
  <2>2. x.warned \/ prospective_total(x, r) < SoftCap
    <3>1. m.warned => x.warned
      BY DEF Along
    <3> QED BY <1>6, <1>10, <3>1 DEF Settled
  <2>3. room_for(x, r) = x /\ Written(guarded_write(x, r), x, r)
    BY <1>4, <1>6, <2>1, <2>2, WrittenAsIs
  <2>4. Ring(SourceKey, last_items(Append(ring_items(x, SourceKey), kept[k + 1]), Len(kept))) = r
    BY <1>1, <1>3, OneMore DEF Along
  <2>5. g = guarded_write(x, r)
    BY <1>11, <2>3, <2>4 DEF append
  <2> QED BY <2>3, <2>5
<1>13. ring_items(g, SourceKey) = items /\ old_len(g, SourceKey) = 1 + framed(items)
  <2>1. PICK i : i = Len(g.entries) /\ i \in DOMAIN g.entries /\ g.entries[i] = r
    BY <1>12 DEF Written
  <2>2. PICK n : n = SourceKey /\ g.entries[i].name = n
    BY <1>4, <2>1
  <2>3. Exact(g) /\ i \in DOMAIN g.entries
    BY <1>12, <2>1 DEF Written
  <2>4. ring_items(g, n) = g.entries[i].items /\ old_len(g, n) = entry_size(g.entries[i])
    BY <2>2, <2>3, FoundAt
  <2> QED BY <1>4, <2>1, <2>2, <2>4
<1>14. Exact(g) /\ g.total = prospective_total(x, r)
  BY <1>12 DEF Written
<1>15. Fit(g)
  BY <1>6, <1>10, <1>14 DEF Fit
<1>16. m.warned => g.warned
  BY <1>12 DEF Written, Along
<1>17. g.total + whole <= m.total + old_len(g, SourceKey)
  BY <1>9, <1>13, <1>14
<1>18. k + 1 \in Nat /\ k + 1 <= Len(kept) /\ k + 1 # 0
  OBVIOUS
<1>19. Along(g, m, kept, k + 1, whole)
  BY <1>1, <1>3, <1>12, <1>13, <1>15, <1>16, <1>17, <1>18 DEF Along, Written
<1> QED BY <1>11, <1>19

(* Before the first: the ring is gone, with its bytes.                       *)
LEMMA AlongStarts ==
    ASSUME NEW m, Fit(m), NEW kept \in Seq(Nat), NEW items \in Seq(Nat),
           NEW i \in DOMAIN m.entries, m.entries[i] = Ring(SourceKey, items)
    PROVE  Along(delete(m, SourceKey), m, kept, 0, 1 + framed(items))
<1>1. Exact(m) /\ m.entries \in Seq(MemoryEntries) /\ m.total \in Nat
  BY DEF Fit, Exact, Memories
<1>2. PICK P : P = places(m.entries, SourceKey)
  OBVIOUS
<1>3. P = {i} /\ old_len(m, SourceKey) = 1 + framed(items) /\ framed(items) \in Nat
  <2>1. PICK r : r = Ring(SourceKey, items)
    OBVIOUS
  <2>2. r.name = SourceKey /\ entry_size(r) = 1 + framed(items) /\ framed(items) \in Nat
    BY <2>1, RingEntry
  <2>3. PICK n : n = SourceKey
    OBVIOUS
  <2>4. Exact(m) /\ i \in DOMAIN m.entries /\ m.entries[i].name = n
    BY <1>1, <2>1, <2>2, <2>3
  <2>5. places(m.entries, n) = {i} /\ old_len(m, n) = entry_size(m.entries[i])
    <3>1. PICK s : s = m.entries /\ s \in Seq(MemoryEntries) /\ NamesApart(s)
      BY <1>1 DEF Exact
    <3>2. places(s, n) = {i}
      BY <2>4, <3>1 DEF places, NamesApart
    <3>3. bytes_at(s, {i}) = entry_size(s[i])
      BY <2>4, <3>1, BytesOfOne
    <3> QED BY <3>1, <3>2, <3>3 DEF old_len
  <2> QED BY <1>2, <2>1, <2>2, <2>3, <2>5
<1>4. PICK d : d = delete(m, SourceKey)
  OBVIOUS
<1>5. d = dropping(m, P) /\ P \in SUBSET (DOMAIN m.entries)
  BY <1>2, <1>3, <1>4 DEF delete
<1>6. /\ Exact(d) /\ SameAccess(d, m) /\ d.entries = without(m.entries, P)
      /\ d.total = m.total - bytes_at(m.entries, P) /\ Outside(d.entries, m.entries, P)
  BY <1>1, <1>5, DroppingKeeps
<1>7. Fit(d)
  BY <1>4, DeleteKeeps
<1>8. \A j \in DOMAIN d.entries : d.entries[j].name # SourceKey
  BY <1>2, <1>6 DEF Outside, places
<1>9. /\ places(d.entries, SourceKey) = {} /\ ring_items(d, SourceKey) = <<>>
      /\ old_len(d, SourceKey) = 0
  BY <1>6, <1>8, FoundNowhere
<1>10. d.total + (1 + framed(items)) <= m.total + 0
  <2>1. bytes_at(m.entries, P) = 1 + framed(items)
    BY <1>2, <1>3 DEF old_len
  <2> QED BY <1>1, <1>3, <1>6, <2>1
<1>11. SubSeq(kept, 1, 0) = <<>> /\ 0 <= Len(kept) /\ 0 \in Nat
  OBVIOUS
<1>12. Along(d, m, kept, 0, 1 + framed(items))
  BY <1>6, <1>7, <1>9, <1>10, <1>11 DEF Along, SameAccess
<1> QED BY <1>4, <1>12

(* The rewriting of the items kept, prefix by prefix.                        *)
LEMMA RewritingOf ==
    ASSUME NEW m, Fit(m), NEW kept \in Seq(Nat),
           kept = last_items(ring_items(m, SourceKey), KeepRecent)
    PROVE  \E f : /\ f[{}] = delete(m, SourceKey) /\ rewritten(m) = f[DOMAIN kept]
                  /\ Extends(f, kept, Len(kept))
<1>1. PICK b : b = delete(m, SourceKey) /\ Fit(b)
  BY DeleteKeeps
<1>2. PICK k \in Nat : k = Len(kept)
  OBVIOUS
<1>3. PICK f : /\ Rewrites(f, b, kept, k)
               /\ \A T \in SUBSET (DOMAIN kept) : Fit(f[T])
               /\ Extends(f, kept, k)
  BY <1>1, <1>2, RewriteExists
<1>4. PICK g : g = CHOOSE h : Rewrites(h, b, kept, k)
  OBVIOUS
<1>5. Rewrites(g, b, kept, k)
  BY <1>3, <1>4
<1>6. \A T \in SUBSET (DOMAIN kept) : f[T] = g[T]
  BY <1>1, <1>2, <1>3, <1>5, RewritesAgree
<1>7. rewritten(m) = g[DOMAIN kept]
  BY <1>1, <1>2, <1>4, RewrittenIsFold
<1>8. f[{}] = b
  BY <1>3 DEF Rewrites
<1> QED BY <1>1, <1>2, <1>3, <1>6, <1>7, <1>8

(* All of kept is back.                                                      *)
LEMMA AlongToTheEnd ==
    ASSUME NEW m, Fit(m), NEW kept \in Seq(Nat), NEW items \in Seq(Nat),
           NEW i \in DOMAIN m.entries, m.entries[i] = Ring(SourceKey, items),
           framed(kept) <= framed(items), Settled(m),
           kept = last_items(ring_items(m, SourceKey), KeepRecent)
    PROVE  Along(rewritten(m), m, kept, Len(kept), 1 + framed(items))
<1>1. PICK b : b = delete(m, SourceKey)
  OBVIOUS
<1>2. PICK L \in Nat : L = Len(kept) /\ DOMAIN kept = 1..L
  OBVIOUS
<1>3. PICK f : /\ f[{}] = delete(m, SourceKey) /\ rewritten(m) = f[DOMAIN kept]
               /\ Extends(f, kept, L)
  BY <1>2, RewritingOf
<1>4. rewritten(m) = f[DOMAIN kept]
  BY <1>3
<1>5. PICK whole \in Nat : whole = 1 + framed(items) /\ 1 + framed(kept) <= whole
  <2>1. framed(items) \in Nat /\ framed(kept) \in Nat
    BY RingEntry
  <2> QED BY <2>1
<1>6. f[{}] = b
  BY <1>1, <1>3
<1>7. Along(f[1..0], m, kept, 0, whole)
  <2>1. 1..0 = {}
    OBVIOUS
  <2> QED BY <1>1, <1>5, <1>6, <2>1, AlongStarts
<1>8. ASSUME NEW k \in Nat, k < L, Along(f[1..k], m, kept, k, whole)
      PROVE  Along(f[1..(k + 1)], m, kept, k + 1, whole)
  <2>1. PICK T, n : T = 1..(k + 1) /\ n = k + 1
    OBVIOUS
  <2>2. /\ n \in Nat /\ n <= L /\ T = 1..n /\ n \in T /\ T # {}
        /\ T \in SUBSET (DOMAIN kept) /\ T \in SUBSET (1..L)
    <3>1. n \in Nat /\ n <= L /\ n >= 1 /\ T = 1..n
      BY <1>8, <2>1
    <3>2. n \in T /\ T \in SUBSET (1..L)
      BY <3>1
    <3> QED BY <1>2, <3>1, <3>2
  <2>3. Max(T) = k + 1
    <3>1. Max(T) \in T /\ \A j \in T : j <= Max(T)
      BY <2>2, MaxIsGreatest
    <3> QED BY <2>1, <2>2, <3>1
  <2>4. T \ {k + 1} = 1..k
    BY <2>1
  <2>5. f[T] = append(f[1..k], SourceKey, kept[k + 1], L)
    BY <1>3, <2>2, <2>3, <2>4 DEF Extends
  <2>6. Along(append(f[1..k], SourceKey, kept[k + 1], Len(kept)), m, kept, k + 1, whole)
    BY <1>2, <1>5, <1>8, AlongAppends
  <2> QED BY <1>2, <2>1, <2>5, <2>6
<1>. DEFINE U == {k \in 0..L : ~Along(f[1..k], m, kept, k, whole)}
<1>9. U = {}
  <2>1. SUFFICES ASSUME U # {} PROVE FALSE
    OBVIOUS
  <2>2. U \in SUBSET Nat
    OBVIOUS
  <2>3. PICK k \in U : \A j \in U : k <= j
    <3>. HIDE DEF U
    <3> QED BY <2>1, <2>2, LeastNumber
  <2>4. k # 0 /\ k \in Nat /\ k <= L
    BY <1>7, <2>3
  <2>5. PICK j \in Nat : k = j + 1
    <3>1. k - 1 \in Nat /\ k = (k - 1) + 1
      BY <2>4
    <3> QED BY <3>1
  <2>6. j \notin U /\ j \in 0..L /\ j < L
    BY <2>3, <2>4, <2>5
  <2>7. Along(f[1..j], m, kept, j, whole)
    BY <2>6
  <2> QED BY <1>8, <2>3, <2>5, <2>6, <2>7
<1>10. Along(f[1..L], m, kept, L, whole)
  BY <1>9
<1> QED BY <1>2, <1>4, <1>5, <1>10

(* The summary, written last: both are there, and nothing else of the ring.  *)
LEMMA SummaryFits ==
    ASSUME NEW m, Fit(m), NEW kept \in Seq(Nat), NEW whole \in Nat, NEW size \in Nat,
           (1 + size) + (1 + framed(kept)) <= whole, Settled(m),
           NEW x, Along(x, m, kept, Len(kept), whole),
           NEW b, b = set(x, SummaryKey, size)
    PROVE  /\ Scalar(SummaryKey, size) \in ToSet(b.entries)
           /\ kept # <<>> => Ring(SourceKey, kept) \in ToSet(b.entries)
           /\ \A i \in DOMAIN b.entries : b.entries[i].name = SourceKey => b.entries[i].items = kept
<1>1. PICK L \in Nat : L = Len(kept) /\ SubSeq(kept, 1, L) = kept /\ (kept # <<>> <=> L > 0)
  OBVIOUS
<1>2. framed(kept) \in Nat
  BY RingEntry
<1>3. PICK e : e = Scalar(SummaryKey, size)
  OBVIOUS
<1>4. e \in MemoryEntries /\ e.name = SummaryKey /\ entry_size(e) = 1 + size
  <2>1. <<size>> \in Seq(Nat)
    OBVIOUS
  <2> QED BY <1>3, <2>1, ScalarSize, WorkingMemoryAssumption DEF Scalar, MemoryEntries
<1>5. /\ Exact(x) /\ x.total \in Nat /\ m.total \in Nat /\ m.total <= HardCap /\ HardCap \in Nat
      /\ SoftCap \in Nat /\ x.entries \in Seq(MemoryEntries)
  BY WorkingMemoryAssumption DEF Along, Fit, Exact, Memories
<1>6. PICK o : o = old_len(x, SourceKey)
  OBVIOUS
<1>7. o \in Nat /\ o <= 1 + framed(kept)
  <2>1. o = IF L = 0 THEN 0 ELSE 1 + framed(SubSeq(kept, 1, L))
    BY <1>1, <1>6 DEF Along
  <2>2. PICK w : w = 1 + framed(kept) /\ w \in Nat
    BY <1>2
  <2>3. o = IF L = 0 THEN 0 ELSE w
    BY <1>1, <2>1, <2>2
  <2>4. o \in Nat /\ o <= w
    BY <1>1, <2>2, <2>3
  <2> QED BY <2>2, <2>4
<1>8. old_len(x, SummaryKey) \in Nat
  <2>1. PICK P : P = places(x.entries, SummaryKey) /\ P \in SUBSET (DOMAIN x.entries)
    BY <1>5, OnePlace DEF Exact
  <2>2. bytes_at(x.entries, P) \in Nat
    BY <1>5, <2>1, BytesAdd
  <2> QED BY <2>1, <2>2 DEF old_len
<1>9. prospective_total(x, e) <= m.total /\ prospective_total(x, e) \in Int
  <2>1. PICK p, y, z, f, h : /\ p = prospective_total(x, e) /\ y = x.total /\ z = m.total
                             /\ f = framed(kept) /\ h = old_len(x, SummaryKey)
    OBVIOUS
  <2>2. y + whole <= z + o
    BY <1>6, <2>1 DEF Along
  <2>3. p = y + (1 + size) - h
    BY <1>4, <2>1 DEF prospective_total
  <2>4. y \in Nat /\ z \in Nat /\ f \in Nat /\ h \in Nat /\ o <= 1 + f /\ (1 + size) + (1 + f) <= whole
    BY <1>2, <1>5, <1>7, <1>8, <2>1
  <2>5. p <= z /\ p \in Int
    BY <1>7, <2>2, <2>3, <2>4
  <2> QED BY <2>1, <2>5
<1>10. Written(b, x, e)
  <2>1. prospective_total(x, e) <= HardCap
    BY <1>5, <1>9
  <2>2. x.warned \/ prospective_total(x, e) < SoftCap
    <3>1. m.warned => x.warned
      BY DEF Along
    <3> QED BY <1>5, <1>9, <3>1 DEF Settled
  <2>3. room_for(x, e) = x /\ Written(guarded_write(x, e), x, e)
    BY <1>4, <1>5, <2>1, <2>2, WrittenAsIs
  <2> QED BY <1>3, <2>3 DEF set
<1>11. b.entries \in Seq(MemoryEntries)
  BY <1>10 DEF Written, Exact, Memories
<1>12. e \in ToSet(b.entries)
  BY <1>10, <1>11 DEF Written, ToSet
<1>13. L > 0 => Ring(SourceKey, kept) \in ToSet(b.entries)
  <2>1. SUFFICES ASSUME L > 0 PROVE Ring(SourceKey, kept) \in ToSet(b.entries)
    OBVIOUS
  <2>2. PICK r, n : r = Ring(SourceKey, kept) /\ n = Len(x.entries)
    OBVIOUS
  <2>3. n \in DOMAIN x.entries /\ x.entries[n] = r
    <3>1. /\ Len(x.entries) \in DOMAIN x.entries
          /\ x.entries[Len(x.entries)] = Ring(SourceKey, SubSeq(kept, 1, L))
      BY <1>1, <2>1 DEF Along
    <3> QED BY <1>1, <2>2, <3>1
  <2>4. r.name # e.name
    BY <1>4, <2>2, RingEntry, WorkingMemoryAssumption
  <2>5. \E i \in DOMAIN b.entries : b.entries[i] = r
    BY <1>10, <2>3, <2>4 DEF Written
  <2> QED BY <1>11, <2>2, <2>5 DEF ToSet
<1>14. ASSUME NEW i \in DOMAIN b.entries, b.entries[i].name = SourceKey
       PROVE  b.entries[i].items = kept
  <2>1. PICK j \in DOMAIN x.entries : b.entries[i] = x.entries[j]
    BY <1>4, <1>10, <1>14, WorkingMemoryAssumption DEF Written
  <2>2. PICK n : n = SourceKey /\ x.entries[j].name = n
    BY <1>14, <2>1
  <2>3. ring_items(x, n) = x.entries[j].items
    BY <1>5, <2>2, FoundAt
  <2>4. ring_items(x, SourceKey) = kept
    BY <1>1 DEF Along
  <2> QED BY <2>1, <2>2, <2>3, <2>4
<1> QED BY <1>1, <1>3, <1>12, <1>13, <1>14

-----------------------------------------------------------------------------
(* When the summary is due: the pass at the soft cap is over, or not due.    *)

(* What a committed blob, or memory not yet written to, is: below the        *)
(* trigger or with nothing to fold.                                          *)
Folded(s, size) ==
    \/ size < TriggerBytes
    \/ \A i \in DOMAIN s : s[i].name = SourceKey => Len(s[i].items) <= KeepRecent

Ready(m) == Settled(m) \/ Folded(m.entries, m.total)

Shrinks(b, m) ==
    /\ Exact(b) /\ Exact(m) /\ b.total <= m.total /\ b.warned = m.warned
    /\ \A i \in DOMAIN b.entries : \E j \in DOMAIN m.entries : b.entries[i] = m.entries[j]

LEMMA ReadyStays ==
    ASSUME NEW m, NEW b, Shrinks(b, m)
    PROVE  /\ Folded(m.entries, m.total) => Folded(b.entries, b.total)
           /\ Ready(m) => Ready(b)
<1>1. /\ b.total \in Nat /\ m.total \in Nat /\ b.total <= m.total /\ SoftCap \in Nat
      /\ TriggerBytes \in Nat /\ b.warned = m.warned
  BY WorkingMemoryAssumption DEF Shrinks, Exact, Memories
<1>2. ASSUME Folded(m.entries, m.total) PROVE Folded(b.entries, b.total)
  <2>1. CASE m.total < TriggerBytes
    BY <1>1, <2>1 DEF Folded
  <2>2. CASE \A i \in DOMAIN m.entries : m.entries[i].name = SourceKey =>
                                            Len(m.entries[i].items) <= KeepRecent
    <3>1. ASSUME NEW i \in DOMAIN b.entries, b.entries[i].name = SourceKey
          PROVE  Len(b.entries[i].items) <= KeepRecent
      <4>1. PICK j \in DOMAIN m.entries : b.entries[i] = m.entries[j]
        BY DEF Shrinks
      <4> QED BY <2>2, <3>1, <4>1
    <3> QED BY <3>1 DEF Folded
  <2> QED BY <1>2, <2>1, <2>2 DEF Folded
<1>3. ASSUME Settled(m) PROVE Settled(b)
  BY <1>1, <1>3 DEF Settled
<1> QED BY <1>2, <1>3 DEF Ready

LEMMA TouchReady ==
    ASSUME NEW m, Fit(m), NEW n
    PROVE  Shrinks(touch(m, n), m)
<1>1. PICK b : b = touch(m, n)
  OBVIOUS
<1>2. Exact(b) /\ SameAccess(b, m) /\ b.total = m.total /\ SameContents(b.entries, m.entries)
  BY <1>1, TouchKeeps DEF Fit
<1>3. b.total \in Nat
  BY <1>2 DEF Exact, Memories
<1> QED BY <1>1, <1>2, <1>3 DEF Shrinks, SameAccess, SameContents, Fit

LEMMA DeleteReady ==
    ASSUME NEW m, Fit(m), NEW n
    PROVE  Shrinks(delete(m, n), m)
<1>1. PICK P : P = places(m.entries, n) /\ P \in SUBSET (DOMAIN m.entries)
  BY OnePlace DEF Fit, Exact, Memories
<1>2. PICK b : b = dropping(m, P) /\ b = delete(m, n)
  BY <1>1 DEF delete
<1>3. Exact(b) /\ SameAccess(b, m) /\ b.total = m.total - bytes_at(m.entries, P)
      /\ bytes_at(m.entries, P) \in Nat /\ Outside(b.entries, m.entries, P)
  BY <1>1, <1>2, DroppingKeeps DEF Fit
<1>4. b.total <= m.total
  <2>1. m.total \in Nat
    BY DEF Fit, Exact, Memories
  <2> QED BY <1>3, <2>1
<1> QED BY <1>2, <1>3, <1>4 DEF Shrinks, SameAccess, Outside, Fit

LEMMA RoomReady ==
    ASSUME NEW m, Fit(m), NEW e
    PROVE  Shrinks(room_for(m, e), m) /\ Fit(room_for(m, e))
<1>1. PICK b : b = room_for(m, e) /\ Fit(b)
  BY RoomKeeps
<1>2. CASE b = m
  <2>1. m.total \in Nat
    BY DEF Fit, Exact, Memories
  <2> QED BY <1>1, <1>2, <2>1 DEF Shrinks, Fit
<1>3. CASE b = compact(m)
  <2>1. Compacted(b, m)
    BY <1>3, CompactKeeps DEF Fit
  <2> QED BY <1>1, <2>1 DEF Compacted, Shrinks, SameAccess, Fit
<1> QED BY <1>1, <1>2, <1>3 DEF room_for

LEMMA GuardedReady ==
    ASSUME NEW m, Fit(m), Ready(m), NEW e \in MemoryEntries
    PROVE  Ready(guarded_write(m, e))
<1>1. PICK b : b = guarded_write(m, e)
  OBVIOUS
<1>2. CASE prospective_total(m, e) > HardCap
  <2>1. PICK l \in Lasts : l = [said |-> "overflow", wrote |-> e]
    BY DEF Lasts
  <2>2. b = [m EXCEPT !.last = l]
    BY <1>1, <1>2, <2>1 DEF guarded_write
  <2>3. b.entries = m.entries /\ b.total = m.total /\ b.warned = m.warned
    BY <2>2, Relabelled DEF Fit
  <2> QED BY <1>1, <2>3 DEF Ready, Settled
<1>3. CASE ~(prospective_total(m, e) > HardCap)
  <2>1. PICK c : c = commit_entry(m, e) /\ Exact(c) /\ c \in Memories
    BY CommittedWriteKeeps DEF Fit, Exact
  <2>2. PICK k : k = maybe_soft_cap(c)
    OBVIOUS
  <2>3. Settled(k) /\ k \in Memories
    <3>1. CASE Settled(c)
      BY <2>1, <2>2, <3>1, SettledStays
    <3>2. CASE ~Settled(c)
      <4>1. PICK d : d = [c EXCEPT !.warned = TRUE]
        OBVIOUS
      <4>2. Exact(d) /\ d.warned
        <5>1. c.last \in Lasts
          BY <2>1 DEF Memories
        <5>2. Exact(d)
          BY <2>1, <4>1, <5>1, Relabelled
        <5> QED BY <2>1, <4>1, <5>2 DEF Memories
      <4>3. k = compact(d)
        BY <2>2, <3>2, <4>1 DEF maybe_soft_cap, Settled
      <4>4. Compacted(k, d)
        BY <4>2, <4>3, CompactKeeps
      <4> QED BY <4>2, <4>4 DEF Compacted, SameAccess, Settled, Exact
    <3> QED BY <3>1, <3>2
  <2>4. PICK l \in Lasts : l = [said |-> "ok", wrote |-> e]
    BY DEF Lasts
  <2>5. b = [k EXCEPT !.last = l]
    BY <1>1, <1>3, <2>1, <2>2, <2>4 DEF guarded_write
  <2>6. b.total = k.total /\ b.warned = k.warned
    BY <2>3, <2>5 DEF Memories
  <2> QED BY <1>1, <2>3, <2>6 DEF Ready, Settled
<1> QED BY <1>2, <1>3

LEMMA SetReady ==
    ASSUME NEW m, Fit(m), Ready(m), NEW n \in Names, NEW size \in Nat
    PROVE  Ready(set(m, n, size))
<1>1. PICK e : e = Scalar(n, size)
  OBVIOUS
<1>2. e \in MemoryEntries
  BY <1>1 DEF Scalar, MemoryEntries
<1>3. PICK c : c = room_for(m, e)
  OBVIOUS
<1>4. Fit(c) /\ Ready(c)
  BY <1>3, RoomReady, ReadyStays
<1> QED BY <1>1, <1>2, <1>3, <1>4, GuardedReady DEF set

LEMMA AppendReady ==
    ASSUME NEW m, Fit(m), Ready(m), NEW n \in Names, NEW size \in Nat, NEW max_items \in Nat
    PROVE  Ready(append(m, n, size, max_items))
<1>. DEFINE grown(x) == Ring(n, last_items(Append(ring_items(x, n), size), max_items))
<1>1. PICK c : c = room_for(m, grown(m))
  OBVIOUS
<1>2. Fit(c) /\ Ready(c)
  BY <1>1, RoomReady, ReadyStays
<1>3. PICK e : e = grown(c)
  OBVIOUS
<1>4. e \in MemoryEntries
  <2>1. Append(ring_items(c, n), size) \in Seq(Nat)
    BY <1>2, ItemsAreSizes DEF Fit
  <2>2. last_items(Append(ring_items(c, n), size), max_items) \in Seq(Nat)
    BY <2>1, LastItemsAreItems
  <2> QED BY <1>3, <2>2 DEF Ring, MemoryEntries
<1>5. append(m, n, size, max_items) = guarded_write(c, e)
  BY <1>1, <1>3 DEF append
<1> QED BY <1>2, <1>4, <1>5, GuardedReady

-----------------------------------------------------------------------------
(* The summary at the end of an activation.                                  *)

(* What is folded is what the ring held, when nothing else is.               *)
LEMMA NothingFolded ==
    ASSUME NEW m, Fit(m), folded(m) = <<>>
    PROVE  \A i \in DOMAIN m.entries :
              m.entries[i].name = SourceKey => Len(m.entries[i].items) <= KeepRecent
<1>1. SUFFICES ASSUME NEW i \in DOMAIN m.entries, m.entries[i].name = SourceKey
               PROVE  Len(m.entries[i].items) <= KeepRecent
  OBVIOUS
<1>2. PICK items : items = ring_items(m, SourceKey) /\ items \in Seq(Nat)
  BY ItemsAreSizes DEF Fit
<1>3. m.entries[i].items = items
  <2>1. PICK n : n = SourceKey /\ m.entries[i].name = n
    BY <1>1
  <2>2. ring_items(m, n) = m.entries[i].items
    BY <2>1, FoundAt DEF Fit
  <2> QED BY <1>2, <2>1, <2>2
<1>4. PICK K, L \in Nat : K = KeepRecent /\ L = Len(items)
  BY <1>2, WorkingMemoryAssumption
<1>5. SubSeq(items, 1, L - K) = <<>>
  BY <1>2, <1>4 DEF folded
<1>6. L <= K
  <2>1. SUFFICES ASSUME L > K PROVE FALSE
    BY <1>4
  <2>2. L - K \in Nat /\ L - K > 0 /\ L - K <= L
    BY <1>4, <2>1
  <2>3. PICK d : d = L - K
    OBVIOUS
  <2>4. d \in Nat /\ d > 0 /\ d <= Len(items)
    BY <1>4, <2>2, <2>3
  <2>5. Len(SubSeq(items, 1, d)) = d
    BY <1>2, <2>4
  <2> QED BY <1>5, <2>3, <2>4, <2>5
<1> QED BY <1>3, <1>4, <1>6

(* A summary that shrinks what it replaces is stored with the items kept,    *)
(* and nothing is left to fold.                                              *)
LEMMA SummaryStays ==
    ASSUME NEW m, Fit(m), NEW size \in Nat, Settled(m), folded(m) # <<>>, summary_valid(m, size),
           NEW kept, kept = last_items(ring_items(m, SourceKey), KeepRecent),
           NEW b, b = summarized(m, size)
    PROVE  /\ Scalar(SummaryKey, size) \in ToSet(b.entries)
           /\ kept # <<>> => Ring(SourceKey, kept) \in ToSet(b.entries)
           /\ \A i \in DOMAIN b.entries :
                 b.entries[i].name = SourceKey => Len(b.entries[i].items) <= KeepRecent
<1>1. PICK items : items = ring_items(m, SourceKey)
  OBVIOUS
<1>2. items \in Seq(Nat) /\ kept \in Seq(Nat) /\ kept = last_items(items, KeepRecent)
  BY <1>1, ItemsAreSizes, LastItemsAreItems, WorkingMemoryAssumption DEF Fit
<1>3. PICK K \in Nat : K = KeepRecent
  BY WorkingMemoryAssumption
<1>4. K < Len(items) /\ size < SumFunction(SubSeq(items, 1, Len(items) - K))
  <2>1. folded(m) = SubSeq(items, 1, Len(items) - K)
    BY <1>1, <1>3 DEF folded
  <2>2. K < Len(items)
    BY <1>2, <2>1
  <2> QED BY <2>1, <2>2 DEF summary_valid
<1>5. /\ (1 + size) + (1 + framed(kept)) <= 1 + framed(items) /\ framed(kept) <= framed(items)
      /\ framed(items) \in Nat /\ framed(kept) \in Nat /\ Len(kept) = K
  <2>1. kept = last_items(items, K)
    BY <1>2, <1>3
  <2>2. PICK old : old = SubSeq(items, 1, Len(items) - K)
    OBVIOUS
  <2>3. /\ SumFunction(old) + framed(kept) <= framed(items) /\ SumFunction(old) \in Nat
        /\ framed(kept) \in Nat /\ framed(items) \in Nat /\ Len(kept) = K
    BY <1>2, <1>4, <2>1, <2>2, FoldedSize
  <2>4. PICK x, y, w : x = framed(kept) /\ y = framed(items) /\ w = SumFunction(old)
    OBVIOUS
  <2>5. w + x <= y /\ size < w /\ w \in Nat /\ x \in Nat /\ y \in Nat
    BY <1>4, <2>2, <2>3, <2>4
  <2>6. (1 + size) + (1 + x) <= 1 + y /\ x <= y
    BY <2>5
  <2> QED BY <2>3, <2>4, <2>6
<1>6. PICK d, c : d = touch(m, SourceKey) /\ c = touch(d, SummaryKey)
  OBVIOUS
<1>7. Exact(d) /\ SameAccess(d, m) /\ d.total = m.total /\ SameContents(d.entries, m.entries)
  BY <1>6, TouchKeeps DEF Fit
<1>8. Exact(c) /\ SameAccess(c, d) /\ c.total = d.total /\ SameContents(c.entries, d.entries)
  BY <1>6, <1>7, TouchKeeps
<1>9. Fit(c) /\ Settled(c) /\ SameContents(c.entries, m.entries)
  <2>1. SameContents(c.entries, m.entries)
    BY <1>7, <1>8 DEF SameContents
  <2> QED BY <1>7, <1>8, <2>1 DEF Fit, Settled, SameAccess
<1>10. at(c, SourceKey) = at(m, SourceKey)
  <2>1. m.entries \in Seq(MemoryEntries) /\ c.entries \in Seq(MemoryEntries)
    BY <1>9 DEF Fit, Exact, Memories
  <2>2. ToSet(c.entries) = ToSet(m.entries)
    BY <1>9, <2>1 DEF ToSet, SameContents
  <2> QED BY <2>2 DEF at
<1>11. ring_items(c, SourceKey) = items
  BY <1>1, <1>10 DEF ring_items
<1>12. PICK i \in DOMAIN c.entries : c.entries[i] = Ring(SourceKey, items)
  <2>1. PICK e \in at(m, SourceKey) : e.items = items
    <3>1. at(m, SourceKey) # {}
      BY <1>1, <1>2, <1>4 DEF ring_items
    <3> QED BY <1>1, <3>1 DEF ring_items
  <2>2. e.ring /\ e.name = SourceKey
    BY <2>1 DEF summary_valid, holds_ring, at
  <2>3. PICK i \in DOMAIN c.entries : c.entries[i] = e
    BY <1>10, <2>1 DEF at, ToSet
  <2>4. e \in MemoryEntries
    BY <1>9, <2>3 DEF Fit, Exact, Memories
  <2>5. e = Ring(SourceKey, items)
    BY <2>1, <2>2, <2>4 DEF Ring, MemoryEntries
  <2> QED BY <2>3, <2>5
<1>13. PICK whole \in Nat : whole = 1 + framed(items)
  BY <1>5
<1>14. PICK x : x = rewritten(c)
  OBVIOUS
<1>15. Along(x, c, kept, Len(kept), whole)
  <2>1. kept = last_items(ring_items(c, SourceKey), KeepRecent)
    BY <1>2, <1>11
  <2> QED BY <1>2, <1>5, <1>9, <1>12, <1>13, <1>14, <2>1, AlongToTheEnd
<1>16. b = set(x, SummaryKey, size)
  BY <1>6, <1>14 DEF summarized
<1>17. /\ Scalar(SummaryKey, size) \in ToSet(b.entries)
       /\ kept # <<>> => Ring(SourceKey, kept) \in ToSet(b.entries)
       /\ \A j \in DOMAIN b.entries : b.entries[j].name = SourceKey => b.entries[j].items = kept
  BY <1>2, <1>5, <1>9, <1>13, <1>15, <1>16, SummaryFits
<1>18. Len(kept) <= KeepRecent
  BY <1>3, <1>5
<1> QED BY <1>17, <1>18

(* The activation under way is alone, and its summary has not been due       *)
(* since it began unless the soft-cap pass is behind it.                     *)
SummaryInv ==
    /\ \A x, y \in memory : x = y
    /\ Folded(memory_blob, blob_size(memory_blob))
    /\ \A m \in memory : Ready(m)

LEMMA SummaryInitInv == WorkingInit => SummaryInv
<1>1. SUFFICES ASSUME WorkingInit PROVE SummaryInv
  OBVIOUS
<1>2. Folded(memory_blob, blob_size(memory_blob))
  BY <1>1 DEF WorkingInit, Folded
<1> QED BY <1>1, <1>2, LoneInit DEF SummaryInv, WorkingInit

(* When a summary is committed the soft-cap pass is over or not due.         *)
LEMMA DueIsSettled ==
    ASSUME NEW m, Fit(m), Ready(m), NeedsSummary(m), folded(m) # <<>>
    PROVE  Settled(m)
<1>1. SUFFICES ASSUME Folded(m.entries, m.total) PROVE FALSE
  BY DEF Ready
<1>2. m.total \in Nat /\ TriggerBytes \in Nat /\ KeepRecent \in Nat
  BY WorkingMemoryAssumption DEF Fit, Exact, Memories
<1>3. \A i \in DOMAIN m.entries : m.entries[i].name = SourceKey => Len(m.entries[i].items) <= KeepRecent
  BY <1>1, <1>2 DEF Folded, NeedsSummary
<1>4. PICK items : items = ring_items(m, SourceKey) /\ items \in Seq(Nat)
  BY ItemsAreSizes DEF Fit
<1>5. Len(items) <= KeepRecent
  <2>1. CASE at(m, SourceKey) = {}
    <3>1. Len(items) = 0
      BY <1>4, <2>1 DEF ring_items
    <3> QED BY <1>2, <3>1
  <2>2. CASE at(m, SourceKey) # {}
    <3>1. PICK e \in at(m, SourceKey) : e.items = items
      BY <1>4, <2>2 DEF ring_items
    <3>2. PICK i \in DOMAIN m.entries : m.entries[i] = e
      BY <3>1 DEF at, ToSet
    <3> QED BY <1>3, <3>1, <3>2 DEF at
  <2> QED BY <2>1, <2>2
<1>6. folded(m) = <<>>
  <2>1. PICK K, L \in Nat : K = KeepRecent /\ L = Len(items) /\ L <= K
    BY <1>2, <1>4, <1>5
  <2>2. L - K <= 0 /\ L - K \in Int
    BY <2>1
  <2>3. SubSeq(items, 1, L - K) = <<>>
    BY <1>4, <2>2
  <2> QED BY <1>4, <2>1, <2>3 DEF folded
<1> QED BY <1>6

LEMMA SummaryNextInv == WorkingInv /\ SummaryInv /\ [WorkingNext]_workingVars => SummaryInv'
<1>1. SUFFICES ASSUME WorkingInv, SummaryInv, [WorkingNext]_workingVars PROVE SummaryInv'
  OBVIOUS
<1>2. \A m \in memory : Fit(m) /\ Ready(m)
  BY <1>1 DEF WorkingInv, Sound, SummaryInv
<1>3. (\A x, y \in memory : x = y)'
  BY <1>1, LoneNext DEF SummaryInv
<1>4. ASSUME NEW m \in memory, NEW c, Access(m, c), Exact(c), Ready(c) PROVE SummaryInv'
  <2>1. PICK b : b = [c EXCEPT !.writes = @ + 1]
    OBVIOUS
  <2>2. memory' = {b} /\ memory_blob' = memory_blob
    BY <1>4, <2>1 DEF Access
  <2>3. b.entries = c.entries /\ b.total = c.total /\ b.warned = c.warned
    BY <1>4, <2>1 DEF Exact, Memories
  <2>4. Ready(b)
    BY <1>4, <2>3 DEF Ready, Settled
  <2> QED BY <1>1, <1>3, <2>2, <2>4 DEF SummaryInv
<1>5. CASE BeginActivation
  <2>1. PICK m : m = [entries |-> memory_blob, total |-> blob_size(memory_blob),
                      warned |-> FALSE, writes |-> 0, last |-> Nothing]
    OBVIOUS
  <2>2. memory' = {m} /\ memory_blob' = memory_blob
    BY <1>5, <2>1 DEF BeginActivation
  <2>3. Ready(m)
    BY <1>1, <2>1 DEF Ready, SummaryInv
  <2> QED BY <1>1, <1>3, <2>2, <2>3 DEF SummaryInv
<1>6. ASSUME NEW n \in Names, NEW size \in ItemSizes, Set(n, size) PROVE SummaryInv'
  <2>1. PICK m \in memory : Access(m, set(m, n, size))
    BY <1>6 DEF Set
  <2>2. size \in Nat
    BY WorkingMemoryAssumption
  <2>3. Exact(set(m, n, size)) /\ Ready(set(m, n, size))
    BY <1>2, <2>2, SetKeeps, SetReady DEF Sound, Fit
  <2> QED BY <1>4, <2>1, <2>3
<1>7. ASSUME NEW n \in Names, NEW size \in ItemSizes, AppendItem(n, size) PROVE SummaryInv'
  <2>1. PICK m \in memory : Access(m, append(m, n, size, MaxItems))
    BY <1>7 DEF AppendItem
  <2>2. size \in Nat /\ MaxItems \in Nat
    BY WorkingMemoryAssumption
  <2>3. PICK c : c = append(m, n, size, MaxItems)
    OBVIOUS
  <2>4. Exact(c)
    BY <1>2, <2>2, <2>3, AppendKeeps DEF Sound, Fit
  <2>5. Ready(c)
    BY <1>2, <2>2, <2>3, AppendReady
  <2> QED BY <1>4, <2>1, <2>3, <2>4, <2>5
<1>8. ASSUME NEW m \in memory, NEW c, Fit(c), Shrinks(c, m), Access(m, Quiet(c)) PROVE SummaryInv'
  <2>1. Ready(c)
    BY <1>2, <1>8, ReadyStays
  <2>2. PICK d : d = Quiet(c)
    OBVIOUS
  <2>3. Exact(d) /\ d.entries = c.entries /\ d.total = c.total /\ d.warned = c.warned
    <3>1. Sound(d)
      BY <1>8, <2>2, QuietIsSound
    <3> QED BY <1>8, <2>2, <3>1 DEF Quiet, Sound, Fit, Exact, Memories
  <2>4. Ready(d)
    BY <2>1, <2>3 DEF Ready, Settled
  <2> QED BY <1>4, <1>8, <2>2, <2>3, <2>4
<1>9. ASSUME NEW n \in Names, Read(n) PROVE SummaryInv'
  <2>1. PICK m \in memory : Access(m, Quiet(touch(m, n)))
    BY <1>9 DEF Read
  <2>2. PICK c : c = touch(m, n)
    OBVIOUS
  <2>3. Fit(c) /\ Shrinks(c, m)
    BY <1>2, <2>2, TouchKeeps, TouchReady DEF Fit
  <2> QED BY <1>8, <2>1, <2>2, <2>3
<1>10. ASSUME NEW n \in Names, Delete(n) PROVE SummaryInv'
  <2>1. PICK m \in memory : Access(m, Quiet(delete(m, n)))
    BY <1>10 DEF Delete
  <2>2. PICK c : c = delete(m, n)
    OBVIOUS
  <2>3. Fit(c) /\ Shrinks(c, m)
    BY <1>2, <2>2, DeleteKeeps, DeleteReady
  <2> QED BY <1>8, <2>1, <2>2, <2>3
<1>11. CASE CommitAsIs
  <2>1. PICK m \in memory : /\ ~NeedsSummary(m) \/ folded(m) = <<>>
                            /\ memory_blob' = IF NeedsSummary(m) THEN touch(m, SourceKey).entries
                                              ELSE m.entries
                            /\ memory' = {}
    BY <1>11 DEF CommitAsIs
  <2>2. Fit(m) /\ m.total \in Nat /\ TriggerBytes \in Nat
    BY <1>2, WorkingMemoryAssumption DEF Fit, Exact, Memories
  <2>3. PICK c : /\ c = IF NeedsSummary(m) THEN touch(m, SourceKey) ELSE m
                 /\ memory_blob' = c.entries
    BY <2>1
  <2>4. Shrinks(c, m)
    BY <2>2, <2>3, TouchReady DEF Shrinks, Fit
  <2>5. Folded(m.entries, m.total)
    BY <2>1, <2>2, NothingFolded DEF Folded, NeedsSummary
  <2>6. Folded(c.entries, c.total) /\ c.total = blob_size(c.entries)
    BY <2>4, <2>5, ReadyStays DEF Shrinks, Exact
  <2>7. Folded(memory_blob', blob_size(memory_blob'))
    BY <2>3, <2>6
  <2> QED BY <1>3, <2>1, <2>7 DEF SummaryInv, Folded, blob_size, bytes_at
<1>12. ASSUME NEW size \in ItemSizes, CommitSummarized(size) PROVE SummaryInv'
  <2>1. PICK m \in memory : /\ NeedsSummary(m) /\ folded(m) # <<>> /\ summary_valid(m, size)
                            /\ memory_blob' = summarized(m, size).entries /\ memory' = {}
    BY <1>12 DEF CommitSummarized
  <2>2. Fit(m) /\ Settled(m) /\ size \in Nat
    BY <1>2, <2>1, DueIsSettled, WorkingMemoryAssumption
  <2>3. PICK kept, b : b = summarized(m, size) /\ kept = last_items(ring_items(m, SourceKey), KeepRecent)
    OBVIOUS
  <2>4. \A i \in DOMAIN b.entries :
           b.entries[i].name = SourceKey => Len(b.entries[i].items) <= KeepRecent
    BY <2>1, <2>2, <2>3, SummaryStays
  <2>5. Folded(memory_blob', blob_size(memory_blob'))
    BY <2>1, <2>3, <2>4 DEF Folded
  <2> QED BY <1>3, <2>1, <2>5 DEF SummaryInv, Folded, blob_size, bytes_at
<1>13. CASE Discard
  BY <1>1, <1>3, <1>13 DEF Discard, SummaryInv
<1>14. CASE UNCHANGED workingVars
  BY <1>1, <1>14 DEF workingVars, SummaryInv
<1> QED BY <1>1, <1>5, <1>6, <1>7, <1>9, <1>10, <1>11, <1>12, <1>13, <1>14 DEF WorkingNext

LEMMA SummariesKeep ==
    ASSUME WorkingInv, SummaryInv
    PROVE  SummaryKeepsRecent
<1>1. SUFFICES ASSUME NEW m \in memory, NEW size \in ItemSizes, CommitSummarized(size),
                      NEW kept, kept = last_items(ring_items(m, SourceKey), KeepRecent)
               PROVE  {Ring(SourceKey, kept), Scalar(SummaryKey, size)}
                        \subseteq {Ring(SourceKey, <<>>)} \cup ToSet(memory_blob')
  BY DEF SummaryKeepsRecent
<1>2. /\ NeedsSummary(m) /\ folded(m) # <<>> /\ summary_valid(m, size)
      /\ memory_blob' = summarized(m, size).entries
  BY <1>1 DEF CommitSummarized, SummaryInv
<1>3. Fit(m) /\ Ready(m) /\ size \in Nat
  BY WorkingMemoryAssumption DEF WorkingInv, Sound, SummaryInv
<1>4. Settled(m)
  BY <1>2, <1>3, DueIsSettled
<1>5. /\ Scalar(SummaryKey, size) \in ToSet(memory_blob')
      /\ kept # <<>> => Ring(SourceKey, kept) \in ToSet(memory_blob')
  BY <1>1, <1>2, <1>3, <1>4, SummaryStays
<1> QED BY <1>5

(* Neither compactor takes what it may not (memory/compaction.py): a         *)
(* protected entry goes only by a delete, and a summary is stored with the   *)
(* newest items of the ring it folds, for every cap, target and size.        *)
THEOREM CompactionAlwaysSafe == WorkingSpec => CompactionIsSafe
<1>1. WorkingInv /\ SummaryInv /\ [WorkingNext]_workingVars
      => [ProtectedStay /\ SummaryKeepsRecent]_workingVars
  BY ProtectedRemain, SummariesKeep DEF SummaryInv
<1> QED BY <1>1, SummaryInitInv, SummaryNextInv, WorkingInitInv, WorkingNextInv, PTL
        DEF WorkingSpec, CompactionIsSafe
=============================================================================
