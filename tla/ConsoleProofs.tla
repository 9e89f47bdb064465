--------------------------- MODULE ConsoleProofs ---------------------------
(* The console: what is proved of the telemetry sink's accounts, of the live *)
(* feed, of the sources that pull and of the record store's upserts, for any *)
(* records, batches, limits, rows, captures and interleavings.               *)
EXTENDS MCConsole, Foundations

-----------------------------------------------------------------------------
(* The telemetry sink: a queue of batches and the sum of their lengths.      *)
Records == 1..RecordCount
Batch == Seq(Records)
lengths == [b \in Batch |-> Len(b)]

LEMMA LengthsCount == lengths \in [Batch -> Nat]
BY DEF lengths, Batch

LEMMA QueueWeighs ==
    ASSUME NEW q \in Seq(Batch)
    PROVE  records_in(q) = Weight(lengths, q, DOMAIN q) /\ records_in(q) \in Nat
<1>1. PICK D : D = DOMAIN q
  OBVIOUS
<1>2. PICK w : w = [i \in DOMAIN q |-> Len(q[i])]
  OBVIOUS
<1>3. w = [i \in DOMAIN q |-> lengths[q[i]]]
  <2>1. \A i \in DOMAIN q : q[i] \in Batch
    OBVIOUS
  <2> QED BY <1>2, <2>1 DEF lengths
<1>4. records_in(q) = SumFunctionOnSet(w, DOMAIN q)
  BY <1>2, SumIsAll DEF records_in
<1>5. Weight(lengths, q, DOMAIN q) = records_in(q)
  BY <1>3, <1>4 DEF Weight
<1>6. {} \in SUBSET D /\ D \in SUBSET (DOMAIN q)
  BY <1>1
<1>7. Weight(lengths, q, D) \in Nat
  BY <1>6, LengthsCount, WeightAdds
<1> QED BY <1>1, <1>5, <1>7

LEMMA QueueGrows ==
    ASSUME NEW q \in Seq(Batch), NEW b \in Batch
    PROVE  Append(q, b) \in Seq(Batch) /\ records_in(Append(q, b)) = records_in(q) + Len(b)
<1>0. Append(q, b) \in Seq(Batch)
  OBVIOUS
<1>1. PICK t \in Seq(Batch) : t = Append(q, b)
  BY <1>0
<1>2. records_in(t) = Weight(lengths, t, DOMAIN t) /\ records_in(q) = Weight(lengths, q, DOMAIN q)
  BY QueueWeighs
<1>3. Weight(lengths, t, DOMAIN t) = Weight(lengths, q, DOMAIN q) + lengths[b]
  BY <1>1, LengthsCount, WeightAppended
<1> QED BY <1>1, <1>2, <1>3 DEF lengths

LEMMA BatchesWeigh ==
    ASSUME NEW q \in Seq(Batch), NEW D \in SUBSET (DOMAIN q), NEW P \in SUBSET D
    PROVE  /\ Weight(lengths, q, D) = Weight(lengths, q, P) + Weight(lengths, q, D \ P)
           /\ Weight(lengths, q, P) \in Nat /\ Weight(lengths, q, D \ P) \in Nat
<1>1. PICK W, T : W = lengths /\ T = Batch
  OBVIOUS
<1>2. W \in [T -> Nat] /\ q \in Seq(T) /\ D \in SUBSET (DOMAIN q) /\ P \in SUBSET D
  BY <1>1, LengthsCount
<1>3. /\ Weight(W, q, D) = Weight(W, q, P) + Weight(W, q, D \ P)
      /\ Weight(W, q, P) \in Nat /\ Weight(W, q, D \ P) \in Nat /\ Weight(W, q, D) \in Nat
  BY <1>2, WeightAdds
<1> QED BY <1>1, <1>3

LEMMA FrontWeighs ==
    ASSUME NEW q \in Seq(Batch), NEW i \in DOMAIN q
    PROVE  Weight(lengths, q, {i}) = lengths[q[i]]
<1>1. PICK W, T : W = lengths /\ T = Batch
  OBVIOUS
<1>2. W \in [T -> Nat] /\ q \in Seq(T)
  BY <1>1, LengthsCount
<1>3. Weight(W, q, {i}) = W[q[i]]
  BY <1>2, WeightOfOne
<1> QED BY <1>1, <1>3

(* What is taken from the front of the queue is its first batch.             *)
LEMMA QueueShrinks ==
    ASSUME NEW q \in Seq(Batch), q # <<>>
    PROVE  /\ Head(q) \in Batch /\ Tail(q) \in Seq(Batch)
           /\ records_in(Tail(q)) = records_in(q) - Len(Head(q))
<1>1. PICK n \in Nat : n = Len(q) - 1
  OBVIOUS
<1>0. Tail(q) \in Seq(Batch)
  OBVIOUS
<1>2. PICK t \in Seq(Batch) : t = Tail(q)
  BY <1>0
<1>3. /\ DOMAIN q = 1..(n + 1) /\ DOMAIN t = 1..n /\ Head(q) = q[1] /\ Head(q) \in Batch
      /\ \A i \in 1..n : t[i] = q[i + 1]
  BY <1>1, <1>2
<1>4. PICK w, v : w = [i \in DOMAIN t |-> lengths[t[i]]] /\ v = [i \in DOMAIN q |-> lengths[q[i]]]
  OBVIOUS
<1>5. PICK f : f = [i \in 1..n |-> i + 1]
  OBVIOUS
<1>6. Moves(f, w, v, 1..n)
  <2>1. \A i \in 1..n : t[i] \in Batch /\ lengths[t[i]] \in Nat
    BY <1>3, LengthsCount
  <2>2. \A i \in 1..n : w[i] = lengths[t[i]] /\ v[f[i]] = lengths[q[i + 1]]
    BY <1>3, <1>4, <1>5
  <2>3. \A i, j \in 1..n : f[i] = f[j] => i = j
    BY <1>5
  <2> QED BY <1>3, <2>1, <2>2, <2>3 DEF Moves
<1>7. {f[i] : i \in 1..n} = DOMAIN q \ {1}
  <2>1. \A i \in DOMAIN q \ {1} : i - 1 \in 1..n /\ f[i - 1] = i
    BY <1>3, <1>5
  <2>2. \A i \in 1..n : f[i] \in DOMAIN q \ {1}
    BY <1>3, <1>5
  <2> QED BY <2>1, <2>2
<1>8. SumFunctionOnSet(v, DOMAIN q \ {1}) = SumFunctionOnSet(w, 1..n)
  <2>1. IsFiniteSet(1..n)
    BY Interval
  <2>2. SumFunctionOnSet(v, {f[i] : i \in 1..n}) = SumFunctionOnSet(w, 1..n)
    BY <1>6, <2>1, SumMoves
  <2> QED BY <1>7, <2>2
<1>9. records_in(t) = Weight(lengths, q, DOMAIN q \ {1})
  BY <1>3, <1>4, <1>8, QueueWeighs DEF Weight
<1>10. 1 \in DOMAIN q
  BY <1>3
<1>11. PICK i \in DOMAIN q : i = 1
  BY <1>10
<1>14. PICK D, P : D = DOMAIN q /\ P = {i}
  OBVIOUS
<1>12. /\ Weight(lengths, q, D) = Weight(lengths, q, P) + Weight(lengths, q, D \ P)
       /\ Weight(lengths, q, P) \in Nat /\ Weight(lengths, q, D \ P) \in Nat
       /\ Weight(lengths, q, P) = lengths[q[i]]
  <2>1. D \in SUBSET (DOMAIN q) /\ P \in SUBSET D
    BY <1>14
  <2>2. Weight(lengths, q, {i}) = lengths[q[i]]
    BY FrontWeighs
  <2> QED BY <1>14, <2>1, <2>2, BatchesWeigh
<1>13. records_in(q) = Weight(lengths, q, DOMAIN q)
  BY QueueWeighs
<1> QED BY <1>2, <1>3, <1>9, <1>11, <1>12, <1>13, <1>14 DEF lengths

LEMMA EmptyQueue == records_in(<<>>) = 0
<1>1. PICK w : w = [i \in DOMAIN <<>> |-> Len(<<>>[i])]
  OBVIOUS
<1>2. DOMAIN w = {}
  BY <1>1
<1>3. records_in(<<>>) = SumFunctionOnSet(w, {})
  BY <1>1, <1>2, SumIsAll DEF records_in
<1> QED BY <1>3, SumOfNone

(* The sender holds a batch or none.                                         *)
held_in(h) == SumFunction([b \in h |-> Len(b)])

LEMMA HeldBatches ==
    /\ held_in({}) = 0
    /\ \A b \in Batch : held_in({b}) = Len(b)
<1>1. held_in({}) = 0
  <2>1. PICK w : w = [b \in {} |-> Len(b)]
    OBVIOUS
  <2>2. DOMAIN w = {}
    BY <2>1
  <2>3. held_in({}) = SumFunctionOnSet(w, {})
    BY <2>1, <2>2, SumIsAll DEF held_in
  <2> QED BY <2>3, SumOfNone
<1>2. ASSUME NEW b \in Batch PROVE held_in({b}) = Len(b)
  <2>1. PICK S : S = {b}
    OBVIOUS
  <2>2. PICK w : w = [c \in S |-> Len(c)]
    OBVIOUS
  <2>3. IsFiniteSet(S) /\ b \in S /\ S \ {b} = {}
    BY <2>1, FS_Singleton
  <2>4. w[b] = Len(b) /\ w[b] \in Nat /\ \A x \in S : w[x] \in Nat
    BY <2>1, <2>2 DEF Batch
  <2>5. SumFunctionOnSet(w, S) = w[b] + SumFunctionOnSet(w, S \ {b})
    BY <2>3, <2>4, SumWithout
  <2>6. SumFunctionOnSet(w, S \ {b}) = 0
    BY <2>3, SumOfNone
  <2>7. held_in(S) = SumFunctionOnSet(w, S)
    <3>1. DOMAIN w = S
      BY <2>2
    <3> QED BY <2>2, <3>1, SumIsAll DEF held_in
  <2> QED BY <2>1, <2>4, <2>5, <2>6, <2>7
<1> QED BY <1>1, <1>2

Tallies == [exported : Nat, dropped : Nat, failures : Nat, batches_sent : Nat]

SinkType ==
    /\ fed \in 0..RecordCount /\ out_batch \in Batch /\ out_queue \in Seq(Batch)
    /\ held = {} \/ \E b \in Batch : held = {b}
    /\ posts \in Int /\ in_flight \in Int /\ skipped \in Nat
    /\ tally \in Tallies /\ metrics \in Tallies
    /\ received \subseteq 1..fed

Single(b) == \A i, j \in DOMAIN b : b[i] = b[j] => i = j
Disjoint(b, c) == ToSet(b) \cap ToSet(c) = {}

\* b has come from the first n records and no other batch in sight has any of it.
Fresh(b, q, n) == Single(b) /\ ToSet(b) \subseteq 1..n /\ \A i \in DOMAIN q : Disjoint(b, q[i])

\* The batches of a queue, each record in one place of one batch.
Apart(q, n) ==
    /\ \A i \in DOMAIN q : Single(q[i]) /\ ToSet(q[i]) \subseteq 1..n
    /\ \A i, j \in DOMAIN q : i # j => Disjoint(q[i], q[j])

RecordsApart ==
    /\ Apart(out_queue, fed)
    /\ Fresh(out_batch, out_queue, fed)
    /\ \A b \in held : Fresh(b, out_queue, fed) /\ Disjoint(b, out_batch)

\* The records of a queue.
Contents(q) == UNION {ToSet(q[i]) : i \in DOMAIN q}

\* What may still be exported.
Pending == Contents(out_queue) \cup ToSet(out_batch)
           \cup (IF posts = -1 THEN {} ELSE UNION {ToSet(b) : b \in held})

\* The records counted as exported, each stored and none of them still to come.
Backed ==
    \E X \in SUBSET received : /\ Cardinality(X) = tally.exported + metrics.exported
                               /\ X \cap Pending = {}

SinkInv == SinkType /\ RecordsApart /\ RecordsAccounted /\ InFlightExact /\ Backed

LEMMA SinkStarts == SinkInit => SinkInv
<1>1. SUFFICES ASSUME SinkInit PROVE SinkInv
  OBVIOUS
<1>2. SinkType
  BY <1>1, SinkAssumption DEF SinkInit, SinkType, Zero, Tallies, Batch
<1>3. RecordsApart
  BY <1>1 DEF SinkInit, RecordsApart, Apart, Fresh, Single, Disjoint, ToSet
<1>4. queued = 0 /\ sender_holds = 0
  BY <1>1, EmptyQueue, HeldBatches DEF SinkInit, queued, sender_holds, held_in
<1>5. RecordsAccounted /\ InFlightExact
  BY <1>1, <1>4 DEF SinkInit, RecordsAccounted, InFlightExact, Zero
<1>6. Backed
  <2>1. {} \in SUBSET received /\ Cardinality({}) = tally.exported + metrics.exported
    BY <1>1, FS_EmptySet DEF SinkInit, Zero
  <2> QED BY <2>1 DEF Backed
<1> QED BY <1>2, <1>3, <1>5, <1>6 DEF SinkInv

(* What is exported stays backed while nothing exported comes back.          *)
LEMMA BackedStays ==
    ASSUME SinkType, Backed, received \subseteq received',
           tally'.exported + metrics'.exported = tally.exported + metrics.exported,
           Pending' \cap (1..fed) \subseteq Pending
    PROVE  Backed'
<1>1. PICK X \in SUBSET received : /\ Cardinality(X) = tally.exported + metrics.exported
                                   /\ X \cap Pending = {}
  BY DEF Backed
<1>2. X \in SUBSET received' /\ X \cap Pending' = {}
  BY <1>1 DEF SinkType
<1> QED BY <1>1, <1>2 DEF Backed

(* A batch put at the end of the queue.                                      *)
LEMMA EnqueuedApart ==
    ASSUME NEW q \in Seq(Batch), NEW fd, Apart(q, fd), NEW b \in Batch, Fresh(b, q, fd)
    PROVE  /\ Apart(Append(q, b), fd)
           /\ \A c : Fresh(c, q, fd) /\ Disjoint(c, b) => Fresh(c, Append(q, b), fd)
           /\ Contents(Append(q, b)) = Contents(q) \cup ToSet(b)
<1>0. Append(q, b) \in Seq(Batch)
  OBVIOUS
<1>1. PICK t \in Seq(Batch) : t = Append(q, b)
  BY <1>0
<1>2. PICK n \in Nat : n = Len(q)
  OBVIOUS
<1>3. /\ DOMAIN q = 1..n /\ DOMAIN t = 1..(n + 1) /\ t[n + 1] = b
      /\ \A i \in 1..n : t[i] = q[i]
  BY <1>1, <1>2
<1>4. \A i \in 1..(n + 1) : i \in 1..n \/ i = n + 1
  OBVIOUS
<1>5. Apart(t, fd)
  <2>1. ASSUME NEW i \in 1..(n + 1) PROVE Single(t[i]) /\ ToSet(t[i]) \subseteq 1..fd
    BY <1>3, <1>4 DEF Apart, Fresh
  <2>2. ASSUME NEW i \in 1..(n + 1), NEW j \in 1..(n + 1), i # j PROVE Disjoint(t[i], t[j])
    <3>1. CASE i \in 1..n /\ j \in 1..n
      BY <1>3, <2>2, <3>1 DEF Apart
    <3>2. CASE i = n + 1 /\ j \in 1..n
      BY <1>3, <3>2 DEF Fresh
    <3>3. CASE i \in 1..n /\ j = n + 1
      BY <1>3, <3>3 DEF Fresh, Disjoint
    <3> QED BY <1>4, <2>2, <3>1, <3>2, <3>3
  <2> QED BY <1>3, <2>1, <2>2 DEF Apart
<1>6. ASSUME NEW c, Fresh(c, q, fd), Disjoint(c, b) PROVE Fresh(c, t, fd)
  BY <1>3, <1>4, <1>6 DEF Fresh
<1>7. Contents(t) = Contents(q) \cup ToSet(b)
  <2>1. ASSUME NEW x \in Contents(t)
        PROVE  x \in Contents(q) \cup ToSet(b)
    <3>1. PICK i \in DOMAIN t : x \in ToSet(t[i])
      BY DEF Contents
    <3> QED BY <1>3, <1>4, <3>1 DEF Contents
  <2>2. ASSUME NEW i \in DOMAIN q PROVE ToSet(q[i]) \subseteq Contents(t)
    <3>1. i \in DOMAIN t /\ t[i] = q[i]
      BY <1>3
    <3> QED BY <3>1 DEF Contents
  <2>3. ToSet(b) \subseteq Contents(t)
    <3>1. n + 1 \in DOMAIN t /\ t[n + 1] = b
      BY <1>3
    <3> QED BY <3>1 DEF Contents
  <2> QED BY <2>1, <2>2, <2>3 DEF Contents
<1> QED BY <1>1, <1>5, <1>6, <1>7

(* The batch at the front taken from it.                                     *)
LEMMA DequeuedApart ==
    ASSUME NEW q \in Seq(Batch), NEW fd, q # <<>>, Apart(q, fd)
    PROVE  /\ Apart(Tail(q), fd) /\ Fresh(Head(q), Tail(q), fd)
           /\ \A c : Fresh(c, q, fd) => Fresh(c, Tail(q), fd) /\ Disjoint(c, Head(q))
           /\ Contents(Tail(q)) \cup ToSet(Head(q)) \subseteq Contents(q)
<1>0. Tail(q) \in Seq(Batch)
  OBVIOUS
<1>1. PICK t \in Seq(Batch) : t = Tail(q)
  BY <1>0
<1>2. PICK n \in Nat : n = Len(q) - 1
  OBVIOUS
<1>3. /\ DOMAIN q = 1..(n + 1) /\ DOMAIN t = 1..n /\ Head(q) = q[1]
      /\ \A i \in 1..n : t[i] = q[i + 1]
  BY <1>1, <1>2
<1>4. /\ 1 \in DOMAIN q
      /\ \A i \in DOMAIN t : i + 1 \in DOMAIN q /\ t[i] = q[i + 1] /\ i + 1 # 1
  BY <1>3
<1>5. Apart(t, fd)
  <2>1. ASSUME NEW i \in DOMAIN t, NEW j \in DOMAIN t, i # j PROVE i + 1 # j + 1
    BY <1>3, <2>1
  <2> QED BY <1>4, <2>1 DEF Apart
<1>6. Fresh(q[1], t, fd)
  BY <1>4 DEF Apart, Fresh
<1>7. ASSUME NEW c, Fresh(c, q, fd) PROVE Fresh(c, t, fd) /\ Disjoint(c, q[1])
  BY <1>4, <1>7 DEF Fresh
<1>8. Contents(t) \cup ToSet(q[1]) \subseteq Contents(q)
  <2>1. ASSUME NEW i \in DOMAIN t PROVE ToSet(t[i]) \subseteq Contents(q)
    <3>1. i + 1 \in DOMAIN q /\ t[i] = q[i + 1]
      BY <1>4 DEF Contents
    <3> QED BY <3>1 DEF Contents
  <2>2. ToSet(q[1]) \subseteq Contents(q)
    BY <1>4 DEF Contents
  <2> QED BY <2>1, <2>2 DEF Contents
<1> QED BY <1>1, <1>3, <1>5, <1>6, <1>7, <1>8

(* What _enqueue makes of a batch no one else has.                           *)
LEMMA EnqueueKeeps ==
    ASSUME SinkType, NEW n, Apart(out_queue, n), NEW b \in Batch, Fresh(b, out_queue, n), enqueue(b)
    PROVE  /\ out_queue' \in Seq(Batch) /\ tally' \in Tallies /\ in_flight' \in Int
           /\ Apart(out_queue', n)
           /\ \A c : Fresh(c, out_queue, n) /\ Disjoint(c, b) => Fresh(c, out_queue', n)
           /\ Contents(out_queue') \subseteq Contents(out_queue) \cup ToSet(b)
           /\ queued' - queued = in_flight' - in_flight
           /\ queued' + tally'.dropped = queued + tally.dropped + Len(b)
           /\ tally'.exported = tally.exported
           /\ queued \in Nat /\ queued' \in Nat
<1>1. queued \in Nat
  BY QueueWeighs DEF SinkType, queued
<1>2. Len(b) \in Nat
  BY DEF Batch
<1>5. tally \in Tallies /\ in_flight \in Int /\ out_queue \in Seq(Batch)
  BY DEF SinkType
<1>3. CASE Len(out_queue) < QueueBatches
  <2>1. /\ out_queue' = Append(out_queue, b) /\ in_flight' = in_flight + Len(b)
        /\ UNCHANGED tally
    BY <1>3 DEF enqueue
  <2>2. out_queue' \in Seq(Batch) /\ queued' = queued + Len(b)
    BY <1>5, <2>1, QueueGrows DEF queued
  <2>3. /\ Apart(out_queue', n)
        /\ \A c : Fresh(c, out_queue, n) /\ Disjoint(c, b) => Fresh(c, out_queue', n)
        /\ Contents(out_queue') = Contents(out_queue) \cup ToSet(b)
    BY <1>5, <2>1, EnqueuedApart
  <2>4. tally.dropped \in Nat /\ tally'.dropped = tally.dropped /\ tally'.exported = tally.exported
    BY <1>5, <2>1 DEF Tallies
  <2> QED BY <1>1, <1>2, <1>5, <2>1, <2>2, <2>3, <2>4
<1>4. CASE ~(Len(out_queue) < QueueBatches)
  <2>1. UNCHANGED <<out_queue, in_flight>> /\ tally' = [tally EXCEPT !.dropped = @ + Len(b)]
    BY <1>4 DEF enqueue
  <2>2. queued' = queued
    BY <2>1 DEF queued
  <2>3. /\ tally' \in Tallies /\ tally'.exported = tally.exported
        /\ tally'.dropped = tally.dropped + Len(b) /\ tally.dropped \in Nat
    BY <1>2, <1>5, <2>1 DEF Tallies
  <2> QED BY <1>1, <1>2, <1>5, <2>1, <2>2, <2>3
<1> QED BY <1>3, <1>4

LEMMA Later ==
    ASSUME NEW n \in Nat, NEW q
    PROVE  /\ Apart(q, n) => Apart(q, n + 1)
           /\ \A c : Fresh(c, q, n) => Fresh(c, q, n + 1)
BY DEF Apart, Fresh

(* The next record put at the end of a batch.                                *)
LEMMA BatchGrows ==
    ASSUME NEW n \in Nat, n + 1 \in Records, NEW q, Apart(q, n), NEW b \in Batch, Fresh(b, q, n)
    PROVE  /\ Append(b, n + 1) \in Batch /\ Fresh(Append(b, n + 1), q, n + 1)
           /\ Len(Append(b, n + 1)) = Len(b) + 1
           /\ ToSet(Append(b, n + 1)) = ToSet(b) \cup {n + 1}
           /\ \A c : Fresh(c, q, n) /\ Disjoint(c, b) => Disjoint(c, Append(b, n + 1))
<1>1. PICK r \in Records : r = n + 1
  OBVIOUS
<1>2. Append(b, r) \in Batch
  BY DEF Batch
<1>3. PICK t \in Batch : t = Append(b, r)
  BY <1>2
<1>4. PICK m \in Nat : m = Len(b)
  BY DEF Batch
<1>5. /\ DOMAIN b = 1..m /\ DOMAIN t = 1..(m + 1) /\ t[m + 1] = r /\ Len(t) = m + 1
      /\ \A i \in 1..m : t[i] = b[i]
  BY <1>3, <1>4 DEF Batch
<1>6. ToSet(t) = ToSet(b) \cup {r}
  <2>1. \A i \in 1..(m + 1) : i \in 1..m \/ i = m + 1
    OBVIOUS
  <2>2. m + 1 \in DOMAIN t /\ \A i \in 1..m : i \in DOMAIN t
    BY <1>5
  <2> QED BY <1>5, <2>1, <2>2 DEF ToSet
<1>7. r \notin 1..n /\ r \in 1..(n + 1)
  BY <1>1
<1>8. Single(t)
  <2>1. \A i \in 1..m : b[i] \in 1..n
    BY <1>5 DEF Fresh, ToSet
  <2>2. \A i \in 1..(m + 1) : i \in 1..m \/ i = m + 1
    OBVIOUS
  <2> QED BY <1>5, <1>7, <2>1, <2>2 DEF Single, Fresh
<1>9. Fresh(t, q, n + 1)
  <2>1. ToSet(t) \subseteq 1..(n + 1)
    BY <1>6, <1>7 DEF Fresh
  <2>2. \A i \in DOMAIN q : r \notin ToSet(q[i])
    BY <1>7 DEF Apart
  <2> QED BY <1>6, <1>8, <2>1, <2>2 DEF Fresh, Disjoint
<1>10. \A c : Fresh(c, q, n) /\ Disjoint(c, b) => Disjoint(c, t)
  BY <1>6, <1>7 DEF Fresh, Disjoint
<1> QED BY <1>1, <1>3, <1>4, <1>5, <1>6, <1>9, <1>10

LEMMA NoRecords ==
    /\ <<>> \in Batch /\ Len(<<>>) = 0 /\ ToSet(<<>>) = {}
    /\ \A q, n : Fresh(<<>>, q, n)
    /\ \A c : Disjoint(c, <<>>)
BY DEF Batch, ToSet, Fresh, Single, Disjoint

(* What the sender holds is counted as long as it holds it.                  *)
LEMMA SenderHolds == SinkType => sender_holds \in Nat
<1>1. SUFFICES ASSUME SinkType PROVE sender_holds \in Nat
  OBVIOUS
<1>2. CASE held = {}
  BY <1>2, HeldBatches DEF sender_holds, held_in
<1>3. ASSUME NEW b \in Batch, held = {b} PROVE sender_holds \in Nat
  <2>1. Len(b) \in Nat
    BY DEF Batch
  <2>2. sender_holds = held_in(held)
    BY DEF sender_holds, held_in
  <2> QED BY <1>3, <2>1, <2>2, HeldBatches
<1> QED BY <1>1, <1>2, <1>3 DEF SinkType

\* The numbers of the sink, for the leaves that only count.
Numbers(f, s, o, q, h, x, e, d, me, md) ==
    /\ fed = f /\ skipped = s /\ Len(out_batch) = o /\ queued = q /\ sender_holds = h
    /\ x = IF posts = -1 THEN 0 ELSE h
    /\ tally.exported = e /\ tally.dropped = d /\ metrics.exported = me /\ metrics.dropped = md
    /\ f = s + o + q + x + e + d + me + md /\ in_flight = q + h

LEMMA SinkNumbers ==
    ASSUME SinkInv
    PROVE  \E f \in Nat, s \in Nat, o \in Nat, q \in Nat, h \in Nat, x \in Nat, e \in Nat, d \in Nat,
              me \in Nat, md \in Nat : Numbers(f, s, o, q, h, x, e, d, me, md)
<1>1. SinkType /\ RecordsAccounted /\ InFlightExact
  BY DEF SinkInv
<1>2. fed \in Nat /\ skipped \in Nat
  BY <1>1, SinkAssumption DEF SinkType
<1>3. tally \in Tallies /\ metrics \in Tallies /\ out_batch \in Batch /\ out_queue \in Seq(Batch)
  BY <1>1 DEF SinkType
<1>4. queued \in Nat /\ sender_holds \in Nat
  BY <1>1, <1>3, SenderHolds, QueueWeighs DEF queued
<1>5. PICK f \in Nat, s \in Nat, o \in Nat, q \in Nat, h \in Nat :
         fed = f /\ skipped = s /\ Len(out_batch) = o /\ queued = q /\ sender_holds = h
  BY <1>2, <1>3, <1>4 DEF Batch
<1>6. PICK e \in Nat, d \in Nat, me \in Nat, md \in Nat :
         tally.exported = e /\ tally.dropped = d /\ metrics.exported = me /\ metrics.dropped = md
  BY <1>3 DEF Tallies
<1>7. PICK x \in Nat : x = IF posts = -1 THEN 0 ELSE h
  <2>1. (IF posts = -1 THEN 0 ELSE h) \in Nat
    OBVIOUS
  <2> QED BY <2>1
<1>8. f = s + o + q + x + e + d + me + md
  BY <1>1, <1>5, <1>6, <1>7 DEF RecordsAccounted
<1>9. in_flight = q + h
  BY <1>1, <1>5 DEF InFlightExact
<1> QED BY <1>5, <1>6, <1>7, <1>8, <1>9 DEF Numbers

(* Both accounts, from the numbers after a step.                             *)
LEMMA AccountsAfter ==
    ASSUME NEW f, NEW s, NEW o, NEW q, NEW h, NEW x, NEW e, NEW d, NEW me, NEW md,
           Numbers(f, s, o, q, h, x, e, d, me, md)'
    PROVE  RecordsAccounted' /\ InFlightExact'
BY DEF Numbers, RecordsAccounted, InFlightExact

LEMMA ProcessKeeps == SinkInv /\ Process => SinkInv'
<1>1. SUFFICES ASSUME SinkInv, Process PROVE SinkInv'
  OBVIOUS
<1>2. /\ fed \in Nat /\ fed + 1 \in Records /\ fed' = fed + 1
      /\ UNCHANGED <<exporter, held, posts, beam, metrics, received>>
  BY <1>1, SinkAssumption DEF Process, SinkInv, SinkType, Records
<1>3. PICK grown : grown = Append(out_batch, fed + 1)
  OBVIOUS
<1>4. SinkType /\ Apart(out_queue, fed) /\ Fresh(out_batch, out_queue, fed)
  BY <1>1 DEF SinkInv, RecordsApart
<1>5. /\ out_batch \in Batch /\ out_queue \in Seq(Batch) /\ in_flight \in Int /\ skipped \in Nat
      /\ tally \in Tallies /\ metrics \in Tallies
  BY <1>4 DEF SinkType
<1>6. /\ grown \in Batch /\ Fresh(grown, out_queue, fed + 1)
      /\ Len(grown) = Len(out_batch) + 1 /\ ToSet(grown) = ToSet(out_batch) \cup {fed + 1}
      /\ \A c : Fresh(c, out_queue, fed) /\ Disjoint(c, out_batch) => Disjoint(c, grown)
  <2>1. PICK b \in Batch, n \in Nat : b = out_batch /\ n = fed
    BY <1>2, <1>5
  <2>3. PICK q : q = out_queue
    OBVIOUS
  <2>2. n + 1 \in Records /\ Apart(q, n) /\ Fresh(b, q, n)
    BY <1>2, <1>4, <2>1, <2>3
  <2> QED BY <1>3, <2>1, <2>2, <2>3, BatchGrows
<1>7. /\ Apart(out_queue, fed + 1)
      /\ \A c : Fresh(c, out_queue, fed) => Fresh(c, out_queue, fed + 1)
  BY <1>2, <1>4, Later
<1>8. \A b \in held : Fresh(b, out_queue, fed) /\ Disjoint(b, out_batch)
  BY <1>1 DEF SinkInv, RecordsApart
<1>9. received \subseteq 1..fed' /\ fed' \in 0..RecordCount
  <2>1. received \subseteq 1..fed
    BY <1>4 DEF SinkType
  <2> QED BY <1>2, <2>1 DEF Records
<1>10. sender_holds' = sender_holds
  BY <1>2 DEF sender_holds
<1>11. Backed
  BY <1>1 DEF SinkInv
<1>12. held' = {} \/ \E b \in Batch : held' = {b}
  BY <1>2, <1>4 DEF SinkType
<1>16. PICK f \in Nat, s \in Nat, o \in Nat, q \in Nat, h \in Nat, x \in Nat, e \in Nat, d \in Nat,
            me \in Nat, md \in Nat : Numbers(f, s, o, q, h, x, e, d, me, md)
  BY <1>1, SinkNumbers
<1>17. /\ sender_holds' = h /\ x = (IF posts' = -1 THEN 0 ELSE h)
       /\ fed' = f + 1 /\ metrics'.exported = me /\ metrics'.dropped = md
       /\ Len(grown) = o + 1
  BY <1>2, <1>6, <1>10, <1>16 DEF Numbers
<1>13. CASE skipped' = skipped + 1 /\ UNCHANGED <<out_batch, out_queue, in_flight, tally>>
  <2>1. queued' = queued
    BY <1>13 DEF queued
  <2>2. SinkType'
    BY <1>2, <1>4, <1>5, <1>9, <1>12, <1>13 DEF SinkType
  <2>3. RecordsApart'
    BY <1>2, <1>4, <1>7, <1>8, <1>13 DEF RecordsApart
  <2>4. RecordsAccounted' /\ InFlightExact'
    <3>1. Numbers(f + 1, s + 1, o, q, h, x, e, d, me, md)'
      BY <1>13, <1>16, <1>17, <2>1 DEF Numbers
    <3> QED BY <3>1, AccountsAfter
  <2>5. Pending' = Pending
    BY <1>2, <1>13 DEF Pending
  <2>6. Backed'
    BY <1>2, <1>4, <1>11, <1>13, <2>5, BackedStays
  <2> QED BY <2>2, <2>3, <2>4, <2>6 DEF SinkInv
<1>14. CASE out_batch' = grown /\ UNCHANGED <<out_queue, in_flight, tally, skipped>>
  <2>1. queued' = queued
    BY <1>14 DEF queued
  <2>2. SinkType'
    BY <1>2, <1>4, <1>5, <1>6, <1>9, <1>12, <1>14 DEF SinkType
  <2>3. RecordsApart'
    BY <1>2, <1>4, <1>6, <1>7, <1>8, <1>14 DEF RecordsApart
  <2>4. RecordsAccounted' /\ InFlightExact'
    <3>1. Numbers(f + 1, s, o + 1, q, h, x, e, d, me, md)'
      BY <1>14, <1>16, <1>17, <2>1 DEF Numbers
    <3> QED BY <3>1, AccountsAfter
  <2>5. Pending' \cap (1..fed) \subseteq Pending
    BY <1>2, <1>6, <1>14 DEF Pending
  <2>6. Backed'
    BY <1>2, <1>4, <1>11, <1>14, <2>5, BackedStays
  <2> QED BY <2>2, <2>3, <2>4, <2>6 DEF SinkInv
<1>15. CASE out_batch' = <<>> /\ enqueue(grown) /\ UNCHANGED skipped
  <2>1. /\ out_queue' \in Seq(Batch) /\ tally' \in Tallies /\ in_flight' \in Int
        /\ Apart(out_queue', fed + 1)
        /\ \A c : Fresh(c, out_queue, fed + 1) /\ Disjoint(c, grown) => Fresh(c, out_queue', fed + 1)
        /\ Contents(out_queue') \subseteq Contents(out_queue) \cup ToSet(grown)
        /\ queued' - queued = in_flight' - in_flight
        /\ queued' + tally'.dropped = queued + tally.dropped + Len(grown)
        /\ tally'.exported = tally.exported
        /\ queued \in Nat /\ queued' \in Nat
    <3>1. PICK n : n = fed + 1
      OBVIOUS
    <3> QED BY <1>4, <1>6, <1>7, <1>15, <3>1, EnqueueKeeps
  <2>2. SinkType'
    BY <1>2, <1>4, <1>5, <1>9, <1>12, <1>15, <2>1, NoRecords DEF SinkType
  <2>3. RecordsApart'
    BY <1>2, <1>4, <1>6, <1>7, <1>8, <1>15, <2>1, NoRecords DEF RecordsApart
  <2>4. tally'.dropped \in Nat /\ Len(out_batch') = 0
    BY <1>15, <2>1 DEF Tallies
  <2>5. RecordsAccounted' /\ InFlightExact'
    <3>1. PICK r \in Nat, y \in Nat : queued' = r /\ tally'.dropped = y
      BY <2>1, <2>4
    <3>2. r + y = q + d + o + 1 /\ in_flight' = r + h
      <4>1. r + y = q + d + (o + 1)
        BY <1>16, <1>17, <2>1, <3>1 DEF Numbers
      <4>2. PICK z \in Int : in_flight' = z
        BY <2>1
      <4>3. r - q = z - (q + h)
        BY <1>16, <2>1, <3>1, <4>2 DEF Numbers
      <4> QED BY <4>1, <4>2, <4>3
    <3>3. f + 1 = s + 0 + r + x + e + y + me + md
      BY <1>16, <3>2 DEF Numbers
    <3>4. Numbers(f + 1, s, 0, r, h, x, e, y, me, md)'
      BY <1>15, <1>16, <1>17, <2>1, <2>4, <3>1, <3>2, <3>3 DEF Numbers
    <3> QED BY <3>4, AccountsAfter
  <2>7. Pending' \cap (1..fed) \subseteq Pending
    BY <1>2, <1>6, <1>15, <2>1, NoRecords DEF Pending
  <2>8. Backed'
    BY <1>2, <1>4, <1>11, <2>1, <2>7, BackedStays
  <2> QED BY <2>2, <2>3, <2>5, <2>8 DEF SinkInv
<1> QED BY <1>1, <1>3, <1>13, <1>14, <1>15 DEF Process

LEMMA FinishBundleKeeps == SinkInv /\ FinishBundle => SinkInv'
<1>1. SUFFICES ASSUME SinkInv, FinishBundle PROVE SinkInv'
  OBVIOUS
<1>2. out_batch' = <<>> /\ UNCHANGED <<exporter, fed, held, posts, metrics, skipped, received>>
  BY <1>1 DEF FinishBundle
<1>3. SinkType /\ Apart(out_queue, fed) /\ Fresh(out_batch, out_queue, fed) /\ Backed
  BY <1>1 DEF SinkInv, RecordsApart
<1>4. \A b \in held : Fresh(b, out_queue, fed) /\ Disjoint(b, out_batch)
  BY <1>1 DEF SinkInv, RecordsApart
<1>5. /\ out_batch \in Batch /\ out_queue \in Seq(Batch) /\ in_flight \in Int
      /\ tally \in Tallies /\ metrics \in Tallies
      /\ held' = {} \/ \E b \in Batch : held' = {b}
  BY <1>2, <1>3 DEF SinkType
<1>6. PICK f \in Nat, s \in Nat, o \in Nat, q \in Nat, h \in Nat, x \in Nat, e \in Nat, d \in Nat,
           me \in Nat, md \in Nat : Numbers(f, s, o, q, h, x, e, d, me, md)
  BY <1>1, SinkNumbers
<1>7. sender_holds' = h /\ x = (IF posts' = -1 THEN 0 ELSE h) /\ Len(out_batch') = 0
  BY <1>2, <1>6 DEF Numbers, sender_holds
<1>8. PICK r \in Nat, y \in Nat : /\ queued' = r /\ tally'.dropped = y /\ r + y = q + d + o
                                  /\ in_flight' = r + h /\ tally'.exported = e
                                  /\ out_queue' \in Seq(Batch) /\ tally' \in Tallies
                                  /\ Apart(out_queue', fed)
                                  /\ \A c : Fresh(c, out_queue, fed) /\ Disjoint(c, out_batch)
                                               => Fresh(c, out_queue', fed)
                                  /\ Contents(out_queue') \subseteq Contents(out_queue) \cup ToSet(out_batch)
  <2>1. CASE out_batch = <<>> /\ UNCHANGED <<out_queue, in_flight, tally>>
    <3>1. queued' = q /\ o = 0 /\ tally'.dropped = d /\ tally'.exported = e /\ in_flight' = q + h
      BY <1>6, <2>1 DEF Numbers, queued
    <3>2. q + d = q + d + o
      BY <3>1
    <3> QED BY <1>3, <1>5, <2>1, <3>1, <3>2
  <2>2. CASE enqueue(out_batch)
    <3>1. /\ out_queue' \in Seq(Batch) /\ tally' \in Tallies /\ in_flight' \in Int
          /\ Apart(out_queue', fed)
          /\ \A c : Fresh(c, out_queue, fed) /\ Disjoint(c, out_batch) => Fresh(c, out_queue', fed)
          /\ Contents(out_queue') \subseteq Contents(out_queue) \cup ToSet(out_batch)
          /\ queued' - queued = in_flight' - in_flight
          /\ queued' + tally'.dropped = queued + tally.dropped + Len(out_batch)
          /\ tally'.exported = tally.exported
          /\ queued \in Nat /\ queued' \in Nat
      <4>1. PICK n : n = fed
        OBVIOUS
      <4> QED BY <1>3, <1>5, <2>2, <4>1, EnqueueKeeps
    <3>2. tally'.dropped \in Nat
      BY <3>1 DEF Tallies
    <3>3. PICK r \in Nat, y \in Nat, z \in Int : queued' = r /\ tally'.dropped = y /\ in_flight' = z
      BY <3>1, <3>2
    <3>4. r - q = z - (q + h) /\ r + y = q + d + o /\ tally'.exported = e
      BY <1>6, <3>1, <3>3 DEF Numbers
    <3>5. z = r + h
      BY <3>4
    <3> QED BY <3>1, <3>3, <3>4, <3>5
  <2> QED BY <1>1, <2>1, <2>2 DEF FinishBundle
<1>9. SinkType'
  BY <1>2, <1>3, <1>5, <1>8, NoRecords DEF SinkType
<1>10. RecordsApart'
  BY <1>2, <1>4, <1>8, NoRecords DEF RecordsApart
<1>11. RecordsAccounted' /\ InFlightExact'
  <2>1. f = s + 0 + r + x + e + y + me + md
    BY <1>6, <1>8 DEF Numbers
  <2>2. Numbers(f, s, 0, r, h, x, e, y, me, md)'
    BY <1>2, <1>6, <1>7, <1>8, <2>1 DEF Numbers
  <2> QED BY <2>2, AccountsAfter
<1>12. Backed'
  <2>1. Pending' \cap (1..fed) \subseteq Pending
    BY <1>2, <1>8, NoRecords DEF Pending
  <2>2. tally'.exported + metrics'.exported = tally.exported + metrics.exported
    BY <1>2, <1>6, <1>8 DEF Numbers
  <2> QED BY <1>2, <1>3, <2>1, <2>2, BackedStays
<1> QED BY <1>9, <1>10, <1>11, <1>12 DEF SinkInv

(* A batch taken from the front of the queue, by the flush or by the sender. *)
LEMMA TakenFromQueue ==
    ASSUME SinkInv, out_queue # <<>>, out_queue' = Tail(out_queue),
           UNCHANGED <<fed, out_batch, skipped, metrics, received>>
    PROVE  /\ Head(out_queue) \in Batch /\ out_queue' \in Seq(Batch)
           /\ queued' = queued - Len(Head(out_queue))
           /\ queued' \in Nat /\ Len(Head(out_queue)) \in Nat
           /\ Apart(out_queue', fed) /\ Fresh(Head(out_queue), out_queue', fed)
           /\ Disjoint(Head(out_queue), out_batch)
           /\ \A c : Fresh(c, out_queue, fed) => Fresh(c, out_queue', fed)
           /\ Contents(out_queue') \cup ToSet(Head(out_queue)) \subseteq Contents(out_queue)
<1>1. PICK q, n : q = out_queue /\ n = fed /\ q \in Seq(Batch) /\ q # <<>> /\ Apart(q, n)
  BY DEF SinkInv, SinkType, RecordsApart
<1>2. /\ Head(q) \in Batch /\ Tail(q) \in Seq(Batch)
      /\ records_in(Tail(q)) = records_in(q) - Len(Head(q))
  BY <1>1, QueueShrinks
<1>3. /\ Apart(Tail(q), n) /\ Fresh(Head(q), Tail(q), n)
      /\ \A c : Fresh(c, q, n) => Fresh(c, Tail(q), n) /\ Disjoint(c, Head(q))
      /\ Contents(Tail(q)) \cup ToSet(Head(q)) \subseteq Contents(q)
  BY <1>1, DequeuedApart
<1>4. records_in(Tail(q)) \in Nat /\ Len(Head(q)) \in Nat
  <2>1. \A b \in Batch : Len(b) \in Nat
    BY DEF Batch
  <2> QED BY <1>2, <2>1, QueueWeighs
<1>5. Disjoint(Head(q), out_batch)
  <2>1. Fresh(out_batch, q, n)
    BY <1>1 DEF SinkInv, RecordsApart
  <2> QED BY <1>3, <2>1 DEF Disjoint
<1> QED BY <1>1, <1>2, <1>3, <1>4, <1>5 DEF queued

LEMMA DropUndrainedKeeps == SinkInv /\ DropUndrained => SinkInv'
<1>1. SUFFICES ASSUME SinkInv, DropUndrained PROVE SinkInv'
  OBVIOUS
<1>2. /\ out_queue # <<>> /\ out_queue' = Tail(out_queue)
      /\ in_flight' = in_flight - Len(Head(out_queue))
      /\ tally' = [tally EXCEPT !.dropped = @ + Len(Head(out_queue))]
      /\ UNCHANGED <<exporter, fed, out_batch, held, posts, beam, metrics, skipped, received>>
  BY <1>1 DEF DropUndrained
<1>3. /\ Head(out_queue) \in Batch /\ out_queue' \in Seq(Batch)
      /\ queued' = queued - Len(Head(out_queue))
      /\ queued' \in Nat /\ Len(Head(out_queue)) \in Nat
      /\ Apart(out_queue', fed)
      /\ \A c : Fresh(c, out_queue, fed) => Fresh(c, out_queue', fed)
      /\ Contents(out_queue') \cup ToSet(Head(out_queue)) \subseteq Contents(out_queue)
  BY <1>1, <1>2, TakenFromQueue
<1>4. SinkType /\ RecordsApart /\ Backed
  BY <1>1 DEF SinkInv
<1>5. /\ out_batch \in Batch /\ in_flight \in Int /\ tally \in Tallies /\ metrics \in Tallies
      /\ held' = {} \/ \E b \in Batch : held' = {b}
  BY <1>2, <1>4 DEF SinkType
<1>6. PICK f \in Nat, s \in Nat, o \in Nat, q \in Nat, h \in Nat, x \in Nat, e \in Nat, d \in Nat,
           me \in Nat, md \in Nat : Numbers(f, s, o, q, h, x, e, d, me, md)
  BY <1>1, SinkNumbers
<1>7. PICK l \in Nat, r \in Nat : l = Len(Head(out_queue)) /\ r = queued'
  BY <1>3
<1>8. /\ sender_holds' = h /\ r = q - l /\ in_flight' = q + h - l
      /\ tally' = [tally EXCEPT !.dropped = @ + l]
  <2>1. sender_holds' = sender_holds
    BY <1>2 DEF sender_holds
  <2>2. sender_holds = h /\ queued = q /\ in_flight = q + h
    BY <1>6 DEF Numbers
  <2>3. r = q - l /\ in_flight' = q + h - l
    BY <1>2, <1>3, <1>7, <2>2
  <2> QED BY <1>2, <1>7, <2>1, <2>2, <2>3
<1>9. tally' \in Tallies /\ tally'.dropped = d + l /\ tally'.exported = e
  <2>1. tally' = [exported |-> tally.exported, dropped |-> tally.dropped + l,
                  failures |-> tally.failures, batches_sent |-> tally.batches_sent]
    BY <1>5, <1>8 DEF Tallies
  <2>2. tally.dropped = d /\ tally.exported = e /\ d + l \in Nat
    BY <1>6 DEF Numbers
  <2> QED BY <1>5, <2>1, <2>2 DEF Tallies
<1>14. in_flight' \in Int
  BY <1>8
<1>10. SinkType'
  BY <1>2, <1>3, <1>4, <1>5, <1>9, <1>14 DEF SinkType
<1>11. RecordsApart'
  BY <1>2, <1>3, <1>4 DEF RecordsApart
<1>12. RecordsAccounted' /\ InFlightExact'
  <2>3. f = s + o + q + x + e + d + me + md /\ r = q - l
    BY <1>6, <1>8 DEF Numbers
  <2>1. f = s + o + r + x + e + (d + l) + me + md /\ q + h - l = r + h
    BY <2>3
  <2>2. Numbers(f, s, o, r, h, x, e, d + l, me, md)'
    BY <1>2, <1>6, <1>7, <1>8, <1>9, <2>1 DEF Numbers
  <2> QED BY <2>2, AccountsAfter
<1>13. Backed'
  <2>1. Pending' \cap (1..fed) \subseteq Pending
    BY <1>2, <1>3 DEF Pending
  <2>2. tally'.exported + metrics'.exported = tally.exported + metrics.exported
    BY <1>2, <1>6, <1>9 DEF Numbers
  <2> QED BY <1>2, <1>4, <2>1, <2>2, BackedStays
<1> QED BY <1>10, <1>11, <1>12, <1>13 DEF SinkInv

LEMMA TakeCountsKeeps == SinkInv /\ TakeCounts => SinkInv'
<1>1. SUFFICES ASSUME SinkInv, TakeCounts PROVE SinkInv'
  OBVIOUS
<1>2. /\ metrics' = [c \in DOMAIN metrics |-> metrics[c] + tally[c]] /\ tally' = Zero
      /\ UNCHANGED <<exporter, fed, out_batch, out_queue, held, posts, in_flight, skipped, received>>
  BY <1>1 DEF TakeCounts
<1>3. SinkType /\ RecordsApart /\ Backed
  BY <1>1 DEF SinkInv
<1>4. tally \in Tallies /\ metrics \in Tallies
  BY <1>3 DEF SinkType
<1>5. PICK f \in Nat, s \in Nat, o \in Nat, q \in Nat, h \in Nat, x \in Nat, e \in Nat, d \in Nat,
           me \in Nat, md \in Nat : Numbers(f, s, o, q, h, x, e, d, me, md)
  BY <1>1, SinkNumbers
<1>6. /\ metrics' \in Tallies /\ metrics'.exported = me + e /\ metrics'.dropped = md + d
      /\ tally' \in Tallies /\ tally'.exported = 0 /\ tally'.dropped = 0
  <2>1. tally' \in Tallies /\ tally'.exported = 0 /\ tally'.dropped = 0
    BY <1>2 DEF Tallies, Zero
  <2>2. \A c \in {"exported", "dropped", "failures", "batches_sent"} : metrics[c] + tally[c] \in Nat
    BY <1>4 DEF Tallies
  <2>3. metrics' = [exported |-> metrics.exported + tally.exported, dropped |-> metrics.dropped + tally.dropped,
                    failures |-> metrics.failures + tally.failures,
                    batches_sent |-> metrics.batches_sent + tally.batches_sent]
    BY <1>2, <1>4 DEF Tallies
  <2> QED BY <1>5, <2>1, <2>2, <2>3 DEF Tallies, Numbers
<1>7. queued' = q /\ sender_holds' = h
  BY <1>2, <1>5 DEF Numbers, queued, sender_holds
<1>8. SinkType'
  BY <1>2, <1>3, <1>6 DEF SinkType
<1>9. RecordsApart'
  BY <1>2, <1>3 DEF RecordsApart
<1>10. RecordsAccounted' /\ InFlightExact'
  <2>1. f = s + o + q + x + 0 + 0 + (me + e) + (md + d)
    BY <1>5 DEF Numbers
  <2>2. Numbers(f, s, o, q, h, x, 0, 0, me + e, md + d)'
    BY <1>2, <1>5, <1>6, <1>7, <2>1 DEF Numbers
  <2> QED BY <2>2, AccountsAfter
<1>11. Backed'
  <2>1. Pending' = Pending
    BY <1>2 DEF Pending
  <2>2. tally'.exported + metrics'.exported = tally.exported + metrics.exported
    <3>1. 0 + (me + e) = e + me
      OBVIOUS
    <3> QED BY <1>5, <1>6, <3>1 DEF Numbers
  <2> QED BY <1>2, <1>3, <2>1, <2>2, BackedStays
<1> QED BY <1>8, <1>9, <1>10, <1>11 DEF SinkInv

LEMMA TeardownKeeps == SinkInv /\ Teardown => SinkInv'
<1>1. SUFFICES ASSUME SinkInv, Teardown PROVE SinkInv'
  OBVIOUS
<1>2. /\ out_queue' = Append(out_queue, Stop)
      /\ UNCHANGED <<exporter, fed, out_batch, held, posts, in_flight, tally, metrics, skipped, received>>
  BY <1>1 DEF Teardown
<1>3. SinkType /\ RecordsApart /\ Backed /\ out_queue \in Seq(Batch)
  BY <1>1 DEF SinkInv, SinkType
<1>4. Stop \in Batch /\ Len(Stop) = 0 /\ ToSet(Stop) = {}
  BY NoRecords DEF Stop
<1>5. out_queue' \in Seq(Batch) /\ queued' = queued + 0
  BY <1>2, <1>3, <1>4, QueueGrows DEF queued
<1>6. /\ Apart(out_queue', fed)
      /\ \A c : Fresh(c, out_queue, fed) => Fresh(c, out_queue', fed)
      /\ Contents(out_queue') = Contents(out_queue)
  <2>1. PICK n, w, b : n = fed /\ w = out_queue /\ b = Stop /\ w \in Seq(Batch) /\ b \in Batch
                       /\ Apart(w, n) /\ Fresh(b, w, n) /\ ToSet(b) = {} /\ \A c : Disjoint(c, b)
    BY <1>3, <1>4, NoRecords DEF RecordsApart, Stop
  <2>2. /\ Apart(Append(w, b), n)
        /\ \A c : Fresh(c, w, n) /\ Disjoint(c, b) => Fresh(c, Append(w, b), n)
        /\ Contents(Append(w, b)) = Contents(w) \cup ToSet(b)
    BY <2>1, EnqueuedApart
  <2> QED BY <1>2, <2>1, <2>2
<1>7. PICK f \in Nat, s \in Nat, o \in Nat, q \in Nat, h \in Nat, x \in Nat, e \in Nat, d \in Nat,
           me \in Nat, md \in Nat : Numbers(f, s, o, q, h, x, e, d, me, md)
  BY <1>1, SinkNumbers
<1>8. queued' = q /\ sender_holds' = h
  BY <1>2, <1>5, <1>7 DEF Numbers, sender_holds
<1>9. SinkType'
  BY <1>2, <1>3, <1>5 DEF SinkType
<1>10. RecordsApart'
  BY <1>2, <1>3, <1>6 DEF RecordsApart
<1>11. RecordsAccounted' /\ InFlightExact'
  <2>1. Numbers(f, s, o, q, h, x, e, d, me, md)'
    BY <1>2, <1>7, <1>8 DEF Numbers
  <2> QED BY <2>1, AccountsAfter
<1>12. Backed'
  <2>1. Pending' = Pending
    BY <1>2, <1>6 DEF Pending
  <2> QED BY <1>2, <1>3, <2>1, BackedStays
<1> QED BY <1>9, <1>10, <1>11, <1>12 DEF SinkInv

LEMMA SenderTakesKeeps == SinkInv /\ SenderTakes => SinkInv'
<1>1. SUFFICES ASSUME SinkInv, SenderTakes PROVE SinkInv'
  OBVIOUS
<1>2. /\ held = {} /\ posts = 0 /\ out_queue # <<>> /\ out_queue' = Tail(out_queue)
      /\ UNCHANGED <<exporter, fed, out_batch, beam, in_flight, tally, metrics, skipped, received>>
  BY <1>1 DEF SenderTakes
<1>3. PICK b \in Batch : b = Head(out_queue)
  BY <1>1, <1>2, TakenFromQueue
<1>4. /\ out_queue' \in Seq(Batch) /\ queued' = queued - Len(b)
      /\ queued' \in Nat /\ Len(b) \in Nat
      /\ Apart(out_queue', fed) /\ Fresh(b, out_queue', fed)
      /\ Disjoint(b, out_batch)
      /\ \A c : Fresh(c, out_queue, fed) => Fresh(c, out_queue', fed)
      /\ Contents(out_queue') \cup ToSet(b) \subseteq Contents(out_queue)
  BY <1>1, <1>2, <1>3, TakenFromQueue
<1>5. SinkType /\ RecordsApart /\ Backed
  BY <1>1 DEF SinkInv
<1>6. PICK f \in Nat, s \in Nat, o \in Nat, q \in Nat, h \in Nat, x \in Nat, e \in Nat, d \in Nat,
           me \in Nat, md \in Nat : Numbers(f, s, o, q, h, x, e, d, me, md)
  BY <1>1, SinkNumbers
<1>7. h = 0 /\ x = 0
  BY <1>2, <1>6, HeldBatches DEF Numbers, sender_holds, held_in
<1>8. PICK l \in Nat, r \in Nat : l = Len(b) /\ r = queued'
  BY <1>4
<1>9. r = q - l
  BY <1>4, <1>6, <1>8 DEF Numbers
<1>10. /\ \/ held' = {} /\ l = 0 /\ posts' = -2
          \/ held' = {b} /\ posts' = 0
       /\ posts' # -1 /\ posts' \in Int
  <2>1. CASE b = Stop
    <3>1. l = 0
      BY <1>8, <2>1, NoRecords DEF Stop
    <3>2. posts' = -2 /\ held' = {}
      BY <1>1, <1>2, <1>3, <2>1 DEF SenderTakes
    <3> QED BY <3>1, <3>2
  <2>2. CASE b # Stop
    <3>1. held' = {b} /\ posts' = 0
      BY <1>1, <1>2, <1>3, <2>2 DEF SenderTakes
    <3> QED BY <3>1
  <2> QED BY <2>1, <2>2
<1>11. sender_holds' = l
  <2>1. held_in({}) = 0 /\ held_in({b}) = l
    BY <1>8, HeldBatches
  <2>2. sender_holds' = held_in(held')
    BY DEF sender_holds, held_in
  <2> QED BY <1>10, <2>1, <2>2
<1>12. SinkType'
  BY <1>2, <1>4, <1>5, <1>10 DEF SinkType
<1>13. RecordsApart'
  BY <1>2, <1>4, <1>5, <1>10 DEF RecordsApart
<1>14. RecordsAccounted' /\ InFlightExact'
  <2>3. f = s + o + q + x + e + d + me + md /\ in_flight = q + h
    BY <1>6 DEF Numbers
  <2>1. f = s + o + r + l + e + d + me + md /\ in_flight = r + l
    BY <1>7, <1>9, <2>3
  <2>2. Numbers(f, s, o, r, l, l, e, d, me, md)'
    BY <1>2, <1>6, <1>8, <1>10, <1>11, <2>1 DEF Numbers
  <2> QED BY <2>2, AccountsAfter
<1>15. Backed'
  <2>1. Pending' \cap (1..fed) \subseteq Pending
    BY <1>2, <1>4, <1>10 DEF Pending
  <2> QED BY <1>2, <1>5, <2>1, BackedStays
<1> QED BY <1>12, <1>13, <1>14, <1>15 DEF SinkInv

(* Records of one batch are as many as it is long.                           *)
LEMMA BatchSizeCounts ==
    ASSUME NEW b \in Batch, Single(b)
    PROVE  IsFiniteSet(ToSet(b)) /\ Cardinality(ToSet(b)) = Len(b)
<1>1. PICK n \in Nat : n = Len(b) /\ DOMAIN b = 1..n
  BY DEF Batch
<1>2. \A i, j \in 1..n : b[i] = b[j] => i = j
  BY <1>1 DEF Single
<1>3. Cardinality({b[i] : i \in 1..n}) = n
  BY <1>1, <1>2, OneEach
<1>4. ToSet(b) = {b[i] : i \in 1..n}
  BY <1>1 DEF ToSet
<1>5. ToSet(b) \subseteq Records
  BY DEF Batch, ToSet
<1>6. IsFiniteSet(Records)
  BY SinkAssumption, Interval DEF Records
<1> QED BY <1>1, <1>3, <1>4, <1>5, <1>6, FS_Subset

LEMMA SendKeeps == SinkInv /\ Send => SinkInv'
<1>1. SUFFICES ASSUME SinkInv, Send PROVE SinkInv'
  OBVIOUS
<1>2. PICK b \in held, stored \in BOOLEAN, answer \in {"ok", "retryable", "fatal", "lost"} :
        /\ posts >= 0 /\ posts < MaxPosts /\ ~client_closed
        /\ stored => answer \in {"ok", "lost"}
        /\ answer = "ok" => stored
        /\ received' = IF stored THEN received \cup ToSet(b) ELSE received
        /\ \/ /\ is_success(b, stored, answer) /\ posts' = -1
              /\ tally' = [tally EXCEPT !.exported = @ + Len(b), !.batches_sent = @ + 1]
           \/ /\ ~is_success(b, stored, answer)
              /\ \/ answer # "fatal" /\ posts + 1 < MaxPosts /\ posts' = posts + 1
                    /\ tally' = [tally EXCEPT !.failures = @ + 1]
                 \/ posts' = -1
                    /\ tally' = [tally EXCEPT !.failures = @ + 1, !.dropped = @ + Len(b)]
        /\ UNCHANGED <<exporter, fed, out_batch, out_queue, held, beam, in_flight, metrics, skipped>>
  BY <1>1, Zenon DEF Send
<1>3. SinkType /\ RecordsApart /\ Backed
  BY <1>1 DEF SinkInv
<1>4. b \in Batch /\ held = {b}
  BY <1>2, <1>3 DEF SinkType
<1>5. PICK f \in Nat, s \in Nat, o \in Nat, q \in Nat, h \in Nat, x \in Nat, e \in Nat, d \in Nat,
           me \in Nat, md \in Nat : Numbers(f, s, o, q, h, x, e, d, me, md)
  BY <1>1, SinkNumbers
<1>6. PICK l \in Nat : l = Len(b) /\ h = l
  <2>1. sender_holds = held_in({b}) /\ Len(b) \in Nat
    BY <1>4 DEF sender_holds, held_in, Batch
  <2> QED BY <1>4, <1>5, <2>1, HeldBatches DEF Numbers
<1>7. posts \in Int /\ posts # -1 /\ x = l
  BY <1>2, <1>3, <1>5, <1>6 DEF Numbers, SinkType
<1>8. Fresh(b, out_queue, fed) /\ Disjoint(b, out_batch)
  BY <1>3, <1>4 DEF RecordsApart
<1>9. received \subseteq received' /\ received' \subseteq 1..fed
  BY <1>2, <1>3, <1>8 DEF SinkType, Fresh
<1>10. queued' = q /\ sender_holds' = h /\ held' = {b} /\ RecordsApart'
  BY <1>2, <1>3, <1>4, <1>5 DEF Numbers, queued, sender_holds, RecordsApart
<1>11. tally \in Tallies /\ tally.exported = e /\ tally.dropped = d /\ metrics.exported = me
  BY <1>3, <1>5 DEF SinkType, Numbers
<1>12. ASSUME tally' \in Tallies, posts' \in Int PROVE SinkType'
  BY <1>2, <1>3, <1>9, <1>12 DEF SinkType
<1>13. CASE is_success(b, stored, answer)
  <2>1. posts' = -1 /\ tally' = [tally EXCEPT !.exported = @ + l, !.batches_sent = @ + 1]
    BY <1>2, <1>6, <1>13
  <2>2. tally' = [exported |-> e + l, dropped |-> tally.dropped,
                  failures |-> tally.failures, batches_sent |-> tally.batches_sent + 1]
    BY <1>11, <2>1 DEF Tallies
  <2>3. tally' \in Tallies /\ tally'.exported = e + l /\ tally'.dropped = d
    BY <1>11, <2>2 DEF Tallies
  <2>4. RecordsAccounted' /\ InFlightExact'
    <3>1. f = s + o + q + 0 + (e + l) + d + me + md
      BY <1>5, <1>7 DEF Numbers
    <3>2. Numbers(f, s, o, q, h, 0, e + l, d, me, md)'
      BY <1>2, <1>5, <1>10, <2>1, <2>3, <3>1 DEF Numbers
    <3> QED BY <3>2, AccountsAfter
  <2>5. Backed'
    <3>1. PICK X \in SUBSET received : Cardinality(X) = e + me /\ X \cap Pending = {}
      BY <1>3, <1>11 DEF Backed
    <3>2. stored
      BY <1>13 DEF is_success
    <3>3. ToSet(b) \subseteq Pending
      BY <1>4, <1>7 DEF Pending
    <3>4. IsFiniteSet(X) /\ IsFiniteSet(ToSet(b)) /\ Cardinality(ToSet(b)) = l /\ X \cap ToSet(b) = {}
      <4>1. received \subseteq Records
        BY <1>3, SinkAssumption DEF SinkType, Records
      <4>2. IsFiniteSet(Records)
        BY SinkAssumption, Interval DEF Records
      <4>3. IsFiniteSet(X)
        BY <4>1, <4>2, FS_Subset
      <4> QED BY <1>4, <1>6, <1>8, <3>1, <3>3, <4>3, BatchSizeCounts DEF Fresh
    <3>5. Cardinality(X \cup ToSet(b)) = (e + l) + me
      <4>1. PICK Y : Y = ToSet(b)
        OBVIOUS
      <4>2. Cardinality(X \cup Y) = Cardinality(X) + Cardinality(Y)
        <5>1. X \cap Y = {} /\ Cardinality({}) = 0 /\ Cardinality(X) \in Nat /\ Cardinality(Y) \in Nat
          BY <3>4, <4>1, FS_EmptySet, FS_CardinalityType
        <5>2. Cardinality(X \cup Y) = Cardinality(X) + Cardinality(Y) - Cardinality(X \cap Y)
          BY <3>4, <4>1, FS_Union
        <5>3. Cardinality(X \cap Y) = 0
          BY <5>1
        <5>4. PICK u \in Nat, v \in Nat : u = Cardinality(X) /\ v = Cardinality(Y)
          BY <5>1
        <5>5. Cardinality(X \cup Y) = u + v - 0
          BY <5>2, <5>3, <5>4
        <5> QED BY <5>4, <5>5
      <4> QED BY <3>1, <3>4, <4>1, <4>2
    <3>6. X \cup ToSet(b) \in SUBSET received'
      BY <1>2, <3>2
    <3>7. Pending' \subseteq Pending /\ Pending' \cap ToSet(b) = {}
      <4>1. Pending' = Contents(out_queue) \cup ToSet(out_batch)
        BY <1>2, <2>1 DEF Pending
      <4>2. Contents(out_queue) \cap ToSet(b) = {} /\ ToSet(out_batch) \cap ToSet(b) = {}
        BY <1>8 DEF Fresh, Disjoint, Contents
      <4> QED BY <4>1, <4>2 DEF Pending
    <3>8. tally'.exported + metrics'.exported = (e + l) + me
      BY <1>2, <1>11, <2>3
    <3>9. PICK Z : Z = X \cup ToSet(b)
      OBVIOUS
    <3>10. Z \cap Pending' = {}
      BY <3>1, <3>7, <3>9
    <3> QED BY <3>5, <3>6, <3>8, <3>9, <3>10 DEF Backed
  <2> QED BY <1>10, <1>12, <2>1, <2>3, <2>4, <2>5 DEF SinkInv
<1>14. CASE posts' = posts + 1 /\ tally' = [tally EXCEPT !.failures = @ + 1]
  <2>2. tally' = [exported |-> tally.exported, dropped |-> tally.dropped,
                  failures |-> tally.failures + 1, batches_sent |-> tally.batches_sent]
    BY <1>11, <1>14 DEF Tallies
  <2>3. tally' \in Tallies /\ tally'.exported = e /\ tally'.dropped = d
    BY <1>11, <2>2 DEF Tallies
  <2>1. posts' \in Int /\ posts' # -1
    BY <1>2, <1>7, <1>14
  <2>4. RecordsAccounted' /\ InFlightExact'
    <3>1. Numbers(f, s, o, q, h, x, e, d, me, md)'
      BY <1>2, <1>5, <1>7, <1>10, <2>1, <2>3 DEF Numbers
    <3> QED BY <3>1, AccountsAfter
  <2>5. Backed'
    <3>1. Pending' = Pending
      BY <1>2, <1>7, <2>1 DEF Pending
    <3>2. tally'.exported + metrics'.exported = tally.exported + metrics.exported
      BY <1>2, <1>11, <2>3
    <3> QED BY <1>3, <1>9, <3>1, <3>2, BackedStays
  <2> QED BY <1>10, <1>12, <2>1, <2>3, <2>4, <2>5 DEF SinkInv
<1>15. CASE posts' = -1 /\ tally' = [tally EXCEPT !.failures = @ + 1, !.dropped = @ + Len(b)]
  <2>2. tally' = [exported |-> tally.exported, dropped |-> tally.dropped + l,
                  failures |-> tally.failures + 1, batches_sent |-> tally.batches_sent]
    BY <1>6, <1>11, <1>15 DEF Tallies
  <2>3. tally' \in Tallies /\ tally'.exported = e /\ tally'.dropped = d + l
    BY <1>11, <2>2 DEF Tallies
  <2>4. RecordsAccounted' /\ InFlightExact'
    <3>1. f = s + o + q + 0 + e + (d + l) + me + md
      BY <1>5, <1>7 DEF Numbers
    <3>2. Numbers(f, s, o, q, h, 0, e, d + l, me, md)'
      BY <1>2, <1>5, <1>10, <1>15, <2>3, <3>1 DEF Numbers
    <3> QED BY <3>2, AccountsAfter
  <2>5. Backed'
    <3>1. Pending' \subseteq Pending
      BY <1>2, <1>15 DEF Pending
    <3>2. tally'.exported + metrics'.exported = tally.exported + metrics.exported
      BY <1>2, <1>11, <2>3
    <3> QED BY <1>3, <1>9, <3>1, <3>2, BackedStays
  <2> QED BY <1>10, <1>12, <1>15, <2>3, <2>4, <2>5 DEF SinkInv
<1> QED BY <1>2, <1>13, <1>14, <1>15

LEMMA SenderDoneKeeps == SinkInv /\ SenderDone => SinkInv'
<1>1. SUFFICES ASSUME SinkInv, SenderDone PROVE SinkInv'
  OBVIOUS
<1>2. /\ posts = -1 /\ posts' = 0 /\ held' = {} /\ in_flight' = in_flight - sender_holds
      /\ UNCHANGED <<exporter, fed, out_batch, out_queue, beam, tally, metrics, skipped, received>>
  BY <1>1 DEF SenderDone
<1>3. SinkType /\ RecordsApart /\ Backed
  BY <1>1 DEF SinkInv
<1>4. PICK f \in Nat, s \in Nat, o \in Nat, q \in Nat, h \in Nat, x \in Nat, e \in Nat, d \in Nat,
           me \in Nat, md \in Nat : Numbers(f, s, o, q, h, x, e, d, me, md)
  BY <1>1, SinkNumbers
<1>5. sender_holds' = 0 /\ queued' = q /\ in_flight' = (q + h) - h /\ x = 0
  BY <1>2, <1>4, HeldBatches DEF Numbers, sender_holds, held_in, queued
<1>6. SinkType'
  <2>1. in_flight' \in Int
    BY <1>5
  <2> QED BY <1>2, <1>3, <2>1 DEF SinkType
<1>7. RecordsApart'
  BY <1>2, <1>3 DEF RecordsApart
<1>8. RecordsAccounted' /\ InFlightExact'
  <2>1. (q + h) - h = q + 0
    OBVIOUS
  <2>2. Numbers(f, s, o, q, 0, 0, e, d, me, md)'
    BY <1>2, <1>4, <1>5, <2>1 DEF Numbers
  <2> QED BY <2>2, AccountsAfter
<1>9. Backed'
  <2>1. Pending' \subseteq Pending
    BY <1>2 DEF Pending
  <2> QED BY <1>2, <1>3, <2>1, BackedStays
<1> QED BY <1>6, <1>7, <1>8, <1>9 DEF SinkInv

(* The waits and timeouts of the two threads move no record.                 *)
LEMMA WaitsKeep ==
    ASSUME SinkInv, posts' = posts \/ (posts' = -2 /\ posts >= 0),
           UNCHANGED <<fed, out_batch, out_queue, held, in_flight, tally, metrics, skipped, received>>
    PROVE  SinkInv'
<1>1. SinkType /\ RecordsApart /\ Backed
  BY DEF SinkInv
<1>2. posts \in Int
  BY <1>1 DEF SinkType
<1>3. posts' \in Int /\ (posts' = -1 <=> posts = -1)
  BY <1>2
<1>4. SinkType' /\ RecordsApart'
  BY <1>1, <1>3 DEF SinkType, RecordsApart
<1>5. Pending' = Pending
  BY <1>3 DEF Pending
<1>6. Backed'
  BY <1>1, <1>5, BackedStays
<1>7. RecordsAccounted' /\ InFlightExact'
  BY <1>3 DEF SinkInv, RecordsAccounted, InFlightExact, queued, sender_holds
<1> QED BY <1>4, <1>6, <1>7 DEF SinkInv

LEMMA SinkKeeps == SinkInv /\ [SinkNext]_sinkVars => SinkInv'
<1>1. SUFFICES ASSUME SinkInv, [SinkNext]_sinkVars PROVE SinkInv'
  OBVIOUS
<1>2. CASE DrainEnds \/ JoinReturns \/ SenderDies \/ UNCHANGED sinkVars
  BY <1>1, <1>2, WaitsKeep DEF DrainEnds, JoinReturns, SenderDies, sinkVars
<1> QED BY <1>1, <1>2, ProcessKeeps, FinishBundleKeeps, DropUndrainedKeeps, TakeCountsKeeps, TeardownKeeps,
           SenderTakesKeeps, SendKeeps, SenderDoneKeeps DEF SinkNext

LEMMA SinkAccounts == SinkInv => RecordsAccounted /\ InFlightExact /\ ExportedWereStored
<1>1. SUFFICES ASSUME SinkInv PROVE ExportedWereStored
  BY DEF SinkInv
<1>2. PICK X \in SUBSET received : Cardinality(X) = tally.exported + metrics.exported
  BY <1>1 DEF SinkInv, Backed
<1>3. IsFiniteSet(received)
  <2>1. received \subseteq Records
    BY <1>1, SinkAssumption DEF SinkInv, SinkType, Records
  <2>2. IsFiniteSet(Records)
    BY SinkAssumption, Interval DEF Records
  <2> QED BY <2>1, <2>2, FS_Subset
<1> QED BY <1>2, <1>3, FS_Subset DEF ExportedWereStored

-----------------------------------------------------------------------------
(* The live feed.                                                            *)
Kinds == {"trace", "error"}
Mailbox == [queue : Seq(Kinds), dropped : Nat, wakeup : BOOLEAN, scheduled : BOOLEAN]
Browser == [status : {"connecting", "live", "offline"}, pending : SUBSET (Kinds \cup {"lagged"}), lists : SUBSET Batches,
            errors : SUBSET Batches, connects : Nat, missed : SUBSET Pages]

FeedType ==
    /\ arrived \subseteq Batches /\ written \subseteq arrived
    /\ announced \subseteq arrived \cap written
    /\ mailbox \in Mailbox /\ browser \in Browser
    /\ drain \in {"off", "take", "wait"}
    /\ browser.lists \subseteq written

\* There is something the browser has not fetched the lists for.
Unread == mailbox.queue # <<>> \/ mailbox.dropped > 0

FeedInv ==
    /\ FeedType /\ NoLostWakeup
    /\ drain = "off" => mailbox.queue = <<>> /\ mailbox.dropped = 0 /\ ~mailbox.scheduled
    /\ \/ announced \subseteq browser.lists
       \/ Unread \/ browser.pending # {} \/ "lists" \in browser.missed

LEMMA FeedStarts == FeedInit => FeedInv
<1>1. SUFFICES ASSUME FeedInit PROVE FeedInv
  OBVIOUS
<1>2. mailbox \in Mailbox /\ mailbox.queue = <<>> /\ mailbox.dropped = 0 /\ ~mailbox.scheduled
  BY <1>1 DEF FeedInit, Empty, Mailbox
<1>3. browser \in Browser /\ browser.lists = {}
  BY <1>1 DEF FeedInit, Browser
<1> QED BY <1>1, <1>2, <1>3 DEF FeedInit, FeedInv, FeedType, NoLostWakeup

(* A mailbox holds the arrival offered or counts that it could not.          *)
LEMMA OfferKeeps ==
    ASSUME NEW m \in Mailbox, NEW b \in Batches
    PROVE  LET n == _offer(m, b)
           IN  /\ n \in Mailbox
               /\ n.queue # <<>> \/ n.dropped > 0
               /\ \/ n.wakeup \/ n.scheduled
                  \/ (m.queue # <<>> /\ n.wakeup = m.wakeup /\ n.scheduled = m.scheduled)
<1>1. PICK q \in Seq(Kinds), d \in Nat, w \in BOOLEAN, c \in BOOLEAN :
        m = [queue |-> q, dropped |-> d, wakeup |-> w, scheduled |-> c]
  BY DEF Mailbox
<1>2. CASE Len(q) >= QueueDepth
  <2>1. _offer(m, b) = [queue |-> q, dropped |-> d + 1, wakeup |-> w, scheduled |-> c]
    BY <1>1, <1>2 DEF _offer
  <2>2. q # <<>>
    BY <1>2, ConsoleFeedAssumption
  <2> QED BY <1>1, <2>1, <2>2 DEF Mailbox
<1>3. CASE ~(Len(q) >= QueueDepth)
  <2>1. PICK r : r = Append(q, b.kind)
    OBVIOUS
  <2>2. r \in Seq(Kinds) /\ r # <<>>
    <3>1. b.kind \in Kinds
      BY ConsoleFeedAssumption DEF Kinds
    <3> QED BY <2>1, <3>1
  <2>3. \E x, y \in BOOLEAN : /\ _offer(m, b) = [queue |-> r, dropped |-> d, wakeup |-> x, scheduled |-> y]
                              /\ x \/ y
    <3>1. \/ _offer(m, b) = [queue |-> r, dropped |-> d, wakeup |-> TRUE, scheduled |-> c]
          \/ _offer(m, b) = [queue |-> r, dropped |-> d, wakeup |-> w, scheduled |-> TRUE]
      BY <1>1, <1>3, <2>1 DEF _offer, _wake
    <3> QED BY <3>1
  <2>4. PICK x \in BOOLEAN, y \in BOOLEAN :
          _offer(m, b) = [queue |-> r, dropped |-> d, wakeup |-> x, scheduled |-> y] /\ (x \/ y)
    BY <2>3
  <2>5. PICK n : n = _offer(m, b)
    OBVIOUS
  <2>6. n \in Mailbox /\ n.queue = r /\ n.wakeup = x /\ n.scheduled = y
    BY <2>2, <2>4, <2>5 DEF Mailbox
  <2> QED BY <2>2, <2>4, <2>5, <2>6
<1> QED BY <1>2, <1>3

LEMMA PublishKeeps == FeedInv /\ Publish => FeedInv'
<1>1. SUFFICES ASSUME FeedInv, Publish PROVE FeedInv'
  OBVIOUS
<1>2. PICK b \in arrived \ announced :
        /\ b \in written /\ announced' = announced \cup {b}
        /\ mailbox' = IF drain = "off" THEN mailbox ELSE _offer(mailbox, b)
        /\ browser' = IF drain = "off" THEN [browser EXCEPT !.missed = Pages] ELSE browser
        /\ UNCHANGED <<arrived, written, drain>>
  BY <1>1 DEF Publish, ready
<1>3. FeedType /\ b \in Batches
  BY <1>1, <1>2 DEF FeedInv, FeedType
<1>4. CASE drain = "off"
  <2>1. mailbox' = mailbox /\ browser' = [browser EXCEPT !.missed = Pages]
    BY <1>2, <1>4
  <2>2. browser' \in Browser /\ "lists" \in browser'.missed /\ browser'.lists = browser.lists
    BY <1>3, <2>1 DEF FeedType, Browser, Pages
  <2>3. FeedType'
    BY <1>2, <1>3, <2>1, <2>2 DEF FeedType
  <2>4. NoLostWakeup'
    BY <1>2, <1>4 DEF NoLostWakeup
  <2>5. drain' = "off" => mailbox'.queue = <<>> /\ mailbox'.dropped = 0 /\ ~mailbox'.scheduled
    BY <1>1, <1>4, <2>1 DEF FeedInv
  <2> QED BY <2>2, <2>3, <2>4, <2>5 DEF FeedInv
<1>5. CASE drain # "off"
  <2>1. mailbox' = _offer(mailbox, b) /\ browser' = browser
    BY <1>2, <1>5
  <2>2. mailbox \in Mailbox
    BY <1>3 DEF FeedType
  <2>3. /\ mailbox' \in Mailbox /\ Unread'
        /\ \/ mailbox'.wakeup \/ mailbox'.scheduled
           \/ /\ mailbox.queue # <<>> /\ mailbox'.wakeup = mailbox.wakeup
              /\ mailbox'.scheduled = mailbox.scheduled
    BY <1>3, <2>1, <2>2, OfferKeeps DEF Unread
  <2>4. FeedType'
    BY <1>2, <1>3, <2>1, <2>3 DEF FeedType
  <2>5. NoLostWakeup'
    BY <1>1, <1>2, <2>3 DEF FeedInv, NoLostWakeup
  <2> QED BY <1>2, <1>5, <2>3, <2>4, <2>5 DEF FeedInv
<1> QED BY <1>4, <1>5

LEMMA TakeKeeps == FeedInv /\ Take => FeedInv'
<1>1. SUFFICES ASSUME FeedInv, Take PROVE FeedInv'
  OBVIOUS
<1>2. FeedType /\ drain = "take" /\ UNCHANGED <<arrived, announced, written>>
  BY <1>1 DEF FeedInv, Take
<1>3. PICK q \in Seq(Kinds), d \in Nat, w \in BOOLEAN, c \in BOOLEAN :
        mailbox = [queue |-> q, dropped |-> d, wakeup |-> w, scheduled |-> c]
  BY <1>2 DEF FeedType, Mailbox
<1>4. ASSUME NEW k \in Kinds \cup {"lagged"}, browser' = [browser EXCEPT !.pending = @ \cup {k}],
             mailbox' \in Mailbox, UNCHANGED drain
      PROVE  FeedInv'
  <2>1. browser' \in Browser /\ browser'.lists = browser.lists /\ browser'.pending # {}
    BY <1>2, <1>4 DEF FeedType, Browser
  <2>2. FeedType'
    BY <1>2, <1>4, <2>1 DEF FeedType
  <2> QED BY <1>2, <1>4, <2>1, <2>2 DEF FeedInv, NoLostWakeup
<1>5. CASE mailbox.dropped > 0
  <2>1. /\ mailbox' = [queue |-> q, dropped |-> 0, wakeup |-> w, scheduled |-> c]
        /\ browser' = [browser EXCEPT !.pending = @ \cup {"lagged"}] /\ UNCHANGED drain
    BY <1>1, <1>3, <1>5 DEF Take
  <2>2. mailbox' \in Mailbox
    BY <2>1 DEF Mailbox
  <2> QED BY <1>4, <2>1, <2>2
<1>6. CASE mailbox.dropped = 0 /\ mailbox.queue # <<>>
  <2>1. /\ mailbox' = [queue |-> Tail(q), dropped |-> d, wakeup |-> w, scheduled |-> c]
        /\ browser' = [browser EXCEPT !.pending = @ \cup {Head(q)}] /\ UNCHANGED drain
    BY <1>1, <1>3, <1>6 DEF Take
  <2>2. Tail(q) \in Seq(Kinds) /\ Head(q) \in Kinds
    BY <1>3, <1>6
  <2>3. mailbox' \in Mailbox
    BY <2>1, <2>2 DEF Mailbox
  <2> QED BY <1>4, <2>1, <2>2, <2>3
<1>7. CASE mailbox.dropped = 0 /\ mailbox.queue = <<>>
  <2>1. /\ mailbox' = [queue |-> q, dropped |-> d, wakeup |-> FALSE, scheduled |-> c]
        /\ drain' = "wait" /\ UNCHANGED browser
    BY <1>1, <1>3, <1>7 DEF Take
  <2>2. mailbox' \in Mailbox /\ mailbox'.queue = <<>> /\ mailbox'.dropped = 0
    BY <1>3, <1>7, <2>1 DEF Mailbox
  <2>3. FeedType' /\ NoLostWakeup'
    BY <1>2, <2>1, <2>2 DEF FeedType, NoLostWakeup
  <2> QED BY <1>1, <1>2, <1>7, <2>1, <2>2, <2>3 DEF FeedInv, Unread
<1> QED BY <1>1, <1>5, <1>6, <1>7 DEF Take

LEMMA EmptyMailbox ==
    Empty \in Mailbox /\ Empty.queue = <<>> /\ Empty.dropped = 0 /\ ~Empty.scheduled
BY DEF Empty, Mailbox

LEMMA ConnectKeeps == FeedInv /\ (Connect \/ Disconnect) => FeedInv'
<1>1. SUFFICES ASSUME FeedInv, Connect \/ Disconnect PROVE FeedInv'
  OBVIOUS
<1>2. FeedType /\ mailbox' = Empty /\ UNCHANGED <<arrived, announced, written>>
  BY <1>1 DEF FeedInv, Connect, Disconnect
<1>3. drain' \in {"off", "take"}
  BY <1>1 DEF Connect, Disconnect
<1>4. /\ browser' \in Browser /\ browser'.lists = browser.lists /\ browser'.pending = browser.pending
      /\ "lists" \in browser.missed \/ Unread => "lists" \in browser'.missed
  <2>1. browser \in Browser /\ mailbox \in Mailbox
    BY <1>2 DEF FeedType
  <2>2. CASE Connect
    <3>1. /\ drain = "off"
          /\ browser' = [browser EXCEPT !.status = "live", !.connects = @ + 1]
      BY <2>2 DEF Connect
    <3>2. browser' \in Browser /\ browser'.lists = browser.lists /\ browser'.pending = browser.pending
          /\ browser'.missed = browser.missed
      <4>1. browser.connects \in Nat
        BY <2>1 DEF Browser
      <4>2. browser' = [status |-> "live", pending |-> browser.pending, lists |-> browser.lists,
                        errors |-> browser.errors, connects |-> browser.connects + 1,
                        missed |-> browser.missed]
        BY <2>1, <3>1 DEF Browser
      <4> QED BY <2>1, <4>1, <4>2 DEF Browser
    <3>3. ~Unread
      BY <1>1, <3>1 DEF FeedInv, Unread
    <3> QED BY <3>2, <3>3
  <2>3. CASE Disconnect
    <3>1. browser' = [browser EXCEPT !.status = "offline", !.missed = IF Unread THEN Pages ELSE @]
      BY <2>3 DEF Disconnect, Unread
    <3> QED BY <2>1, <3>1 DEF Browser, Pages
  <2> QED BY <1>1, <2>2, <2>3
<1>5. FeedType'
  BY <1>2, <1>3, <1>4, EmptyMailbox DEF FeedType
<1>6. NoLostWakeup'
  BY <1>3 DEF NoLostWakeup
<1> QED BY <1>1, <1>2, <1>4, <1>5, <1>6, EmptyMailbox DEF FeedInv

LEMMA FlushKeeps == FeedInv /\ Flush => FeedInv'
<1>1. SUFFICES ASSUME FeedInv, Flush PROVE FeedInv'
  OBVIOUS
<1>2. FeedType /\ UNCHANGED <<arrived, announced, written, mailbox, drain>>
  BY <1>1 DEF FeedInv, Flush
<1>3. browser' \in Browser /\ browser'.lists = written
  <2>1. browser \in Browser /\ written \in SUBSET Batches
    BY <1>2 DEF FeedType
  <2>2. \/ browser' = [browser EXCEPT !.pending = {}, !.lists = written, !.errors = written, !.missed = {}]
        \/ browser' = [browser EXCEPT !.pending = {}, !.lists = written, !.missed = @ \ {"lists"}]
    BY <1>1 DEF Flush
  <2>3. PICK m \in SUBSET Pages, r \in SUBSET Batches :
          browser' = [status |-> browser.status, pending |-> {}, lists |-> written,
                      errors |-> r, connects |-> browser.connects, missed |-> m]
    <3>1. browser.errors \in SUBSET Batches /\ browser.missed \ {"lists"} \in SUBSET Pages
      BY <2>1 DEF Browser
    <3>2. \/ browser' = [status |-> browser.status, pending |-> {}, lists |-> written,
                         errors |-> written, connects |-> browser.connects, missed |-> {}]
          \/ browser' = [status |-> browser.status, pending |-> {}, lists |-> written,
                         errors |-> browser.errors, connects |-> browser.connects,
                         missed |-> browser.missed \ {"lists"}]
      BY <2>1, <2>2 DEF Browser
    <3> QED BY <2>1, <3>1, <3>2
  <2> QED BY <2>1, <2>3 DEF Browser
<1>4. FeedType' /\ NoLostWakeup'
  BY <1>1, <1>2, <1>3 DEF FeedInv, FeedType, NoLostWakeup
<1>5. announced' \subseteq browser'.lists
  BY <1>2, <1>3 DEF FeedType
<1> QED BY <1>1, <1>2, <1>4, <1>5 DEF FeedInv

LEMMA ArrivalsKeep == FeedInv /\ (Arrive \/ WriteBatch) => FeedInv'
<1>1. SUFFICES ASSUME FeedInv, Arrive \/ WriteBatch PROVE FeedInv'
  OBVIOUS
<1>2. FeedType /\ UNCHANGED <<announced, mailbox, drain, browser>>
  BY <1>1 DEF FeedInv, Arrive, WriteBatch
<1>3. /\ arrived \subseteq arrived' /\ arrived' \subseteq Batches
      /\ written \subseteq written' /\ written' \subseteq arrived'
  BY <1>1, <1>2 DEF Arrive, WriteBatch, FeedType
<1>4. FeedType'
  BY <1>2, <1>3 DEF FeedType
<1> QED BY <1>1, <1>2, <1>4 DEF FeedInv, NoLostWakeup, Unread

LEMMA WakeupsKeep == FeedInv /\ (RunScheduledSet \/ Resume) => FeedInv'
<1>1. SUFFICES ASSUME FeedInv, RunScheduledSet \/ Resume PROVE FeedInv'
  OBVIOUS
<1>2. FeedType /\ UNCHANGED <<arrived, announced, written, browser>>
  BY <1>1 DEF FeedInv, RunScheduledSet, Resume
<1>3. CASE RunScheduledSet
  <2>1. mailbox.scheduled /\ UNCHANGED drain
    BY <1>3 DEF RunScheduledSet
  <2>2. /\ mailbox' \in Mailbox /\ mailbox'.wakeup
        /\ mailbox'.queue = mailbox.queue /\ mailbox'.dropped = mailbox.dropped
    BY <1>2, <1>3 DEF RunScheduledSet, FeedType, Mailbox
  <2>3. FeedType' /\ NoLostWakeup'
    BY <1>2, <2>1, <2>2 DEF FeedType, NoLostWakeup
  <2> QED BY <1>1, <1>2, <2>1, <2>2, <2>3 DEF FeedInv, Unread
<1>4. CASE Resume
  <2>1. drain' = "take" /\ UNCHANGED mailbox
    BY <1>4 DEF Resume
  <2>2. FeedType' /\ NoLostWakeup'
    BY <1>2, <2>1 DEF FeedType, NoLostWakeup
  <2> QED BY <1>1, <1>2, <2>1, <2>2 DEF FeedInv, Unread
<1> QED BY <1>1, <1>3, <1>4

LEMMA FeedKeeps == FeedInv /\ [FeedNext]_feedVars => FeedInv'
<1>1. SUFFICES ASSUME FeedInv, [FeedNext]_feedVars PROVE FeedInv'
  OBVIOUS
<1>2. CASE UNCHANGED feedVars
  BY <1>1, <1>2 DEF feedVars, FeedInv, FeedType, NoLostWakeup, Unread
<1> QED BY <1>1, <1>2, PublishKeeps, TakeKeeps, ConnectKeeps, FlushKeeps, ArrivalsKeep, WakeupsKeep
        DEF FeedNext

LEMMA FeedCatchesUp == FeedInv => NoLostWakeup /\ ListsCatchUp
<1>1. SUFFICES ASSUME FeedInv, Quiet, "lists" \notin browser.missed
               PROVE  Announced(written) \subseteq browser.lists
  BY DEF FeedInv, ListsCatchUp
<1>2. announced \subseteq browser.lists
  BY <1>1 DEF FeedInv, Unread, Quiet
<1> QED BY <1>1, <1>2 DEF FeedInv, FeedType, Quiet, Announced

-----------------------------------------------------------------------------
(* A cut capture: where its frames end rises from one to the next, so a      *)
(* prefix holds as many records as the capture from the last end on.         *)
Framed == [frames : Seq(Nat \ {0}), trailing : Nat]
ends(c) == [n \in DOMAIN c.frames |-> SumFunctionOnSet(c.frames, 1..n)]
cut(c) == SumFunction(c.frames)

LEMMA FramesSum ==
    ASSUME NEW f \in Seq(Nat \ {0}), NEW R \in SUBSET (DOMAIN f)
    PROVE  SumFunctionOnSet(f, R) \in Nat /\ (R # {} => SumFunctionOnSet(f, R) > 0)
<1>1. PICK n \in Nat : n = Len(f) /\ DOMAIN f = 1..n
  OBVIOUS
<1>2. IsFiniteSet(R) /\ \A i \in R : f[i] \in Nat /\ f[i] > 0
  <2>1. IsFiniteSet(DOMAIN f)
    BY <1>1, Interval
  <2>2. \A i \in R : f[i] \in Nat \ {0}
    OBVIOUS
  <2> QED BY <2>1, <2>2, FS_Subset
<1>3. SumFunctionOnSet(f, R) \in Nat
  BY <1>2, SumType
<1>4. ASSUME NEW x \in R PROVE SumFunctionOnSet(f, R) > 0
  <2>1. SumFunctionOnSet(f, R) = f[x] + SumFunctionOnSet(f, R \ {x})
    BY <1>2, SumWithout
  <2>2. IsFiniteSet(R \ {x}) /\ \A i \in R \ {x} : f[i] \in Nat
    BY <1>2, FS_Subset
  <2>3. SumFunctionOnSet(f, R \ {x}) \in Nat
    BY <2>2, SumType
  <2>4. PICK a, b, d : a = SumFunctionOnSet(f, R) /\ b = f[x] /\ d = SumFunctionOnSet(f, R \ {x})
    OBVIOUS
  <2>5. a = b + d /\ b \in Nat /\ b > 0 /\ d \in Nat
    BY <1>2, <2>1, <2>3, <2>4
  <2>6. a > 0
    BY <2>5
  <2> QED BY <2>4, <2>6
<1> QED BY <1>3, <1>4

LEMMA EndsRise ==
    ASSUME NEW f \in Seq(Nat \ {0}), NEW i \in 1..Len(f), NEW j \in 1..Len(f), i < j
    PROVE  SumFunctionOnSet(f, 1..i) < SumFunctionOnSet(f, 1..j)
<1>1. PICK S : S = 1..j
  OBVIOUS
<1>2. PICK R : R = 1..i
  OBVIOUS
<1>3. R \in SUBSET S /\ j \in S \ R /\ S \in SUBSET (DOMAIN f)
  BY <1>1, <1>2
<1>4. IsFiniteSet(S) /\ \A x \in S : f[x] \in Nat
  <2>1. IsFiniteSet(S)
    <3>1. j \in Nat
      OBVIOUS
    <3> QED BY <1>1, <3>1, Interval
  <2> QED BY <1>3, <2>1
<1>5. /\ SumFunctionOnSet(f, S) = SumFunctionOnSet(f, R) + SumFunctionOnSet(f, S \ R)
      /\ SumFunctionOnSet(f, R) \in Nat
  BY <1>3, <1>4, SumSplits
<1>6. S \ R \in SUBSET (DOMAIN f) /\ S \ R # {}
  BY <1>3
<1>7. SumFunctionOnSet(f, S \ R) \in Nat /\ SumFunctionOnSet(f, S \ R) > 0
  BY <1>6, FramesSum
<1>8. PICK a, b, d : a = SumFunctionOnSet(f, S) /\ b = SumFunctionOnSet(f, R) /\ d = SumFunctionOnSet(f, S \ R)
  OBVIOUS
<1>9. a = b + d /\ b \in Nat /\ d \in Nat /\ d > 0
  BY <1>5, <1>7, <1>8
<1>10. b < a
  BY <1>9
<1> QED BY <1>1, <1>2, <1>8, <1>10

LEMMA FrameEnds ==
    ASSUME NEW c \in Framed
    PROVE  /\ frame_ends(c) \subseteq 0..cut(c) /\ IsFiniteSet(frame_ends(c))
           /\ Cardinality(frame_ends(c)) = Len(c.frames) /\ Len(c.frames) \in Nat
           /\ cut(c) \in Nat
           /\ cut(c) = 0 \/ cut(c) \in frame_ends(c)
           /\ c.frames # <<>> => cut(c) \in frame_ends(c)
           /\ cut(c) <= length(c) /\ length(c) \in Nat
<1>1. c.frames \in Seq(Nat \ {0}) /\ c.trailing \in Nat
  BY DEF Framed
<1>2. PICK f : f = c.frames
  OBVIOUS
<1>3. PICK n : n = Len(f)
  OBVIOUS
<1>4. f \in Seq(Nat \ {0}) /\ n \in Nat /\ DOMAIN f = 1..n
  BY <1>1, <1>2, <1>3
<1>5. PICK e : e = ends(c)
  OBVIOUS
<1>6. DOMAIN e = 1..n /\ \A i \in 1..n : e[i] = SumFunctionOnSet(f, 1..i)
  BY <1>2, <1>4, <1>5 DEF ends
<1>7. \A i \in 1..n : e[i] \in Nat
  <2>1. ASSUME NEW i \in 1..n PROVE e[i] \in Nat
    <3>1. 1..i \in SUBSET (DOMAIN f)
      BY <1>4
    <3> QED BY <1>4, <1>6, <3>1, FramesSum
  <2> QED BY <2>1
<1>8. \A i, j \in 1..n : i < j => e[i] < e[j]
  BY <1>3, <1>4, <1>6, EndsRise
<1>9. \A i, j \in 1..n : e[i] = e[j] => i = j
  BY <1>4, <1>7, <1>8
<1>10. frame_ends(c) = {e[i] : i \in 1..n}
  BY <1>2, <1>4, <1>6 DEF frame_ends
<1>11. Cardinality(frame_ends(c)) = n /\ IsFiniteSet(frame_ends(c))
  <2>1. PICK D, F : D = 1..n /\ F = frame_ends(c)
    OBVIOUS
  <2>2. e = [i \in D |-> e[i]] /\ F = {e[i] : i \in D}
    BY <1>2, <1>4, <1>5, <1>10, <2>1 DEF ends
  <2>3. \A i, j \in D : e[i] = e[j] => i = j
    BY <1>9, <2>1
  <2>4. e \in Bijection(D, F)
    BY <2>2, <2>3 DEF Bijection, Injection, Surjection, IsInjective
  <2>5. IsFiniteSet(D) /\ Cardinality(D) = n
    BY <1>4, <2>1, Interval
  <2>6. IsFiniteSet(F) /\ Cardinality(F) = Cardinality(D)
    BY <2>4, <2>5, FS_Surjection, FS_Bijection DEF Bijection, ExistsBijection
  <2> QED BY <2>1, <2>5, <2>6
<1>13. cut(c) = SumFunctionOnSet(f, 1..n)
  BY <1>2, <1>4, SumIsAll DEF cut
<1>14. cut(c) \in Nat
  BY <1>4, <1>13, FramesSum
<1>15. n = 0 => cut(c) = 0
  <2>1. ASSUME n = 0 PROVE cut(c) = 0
    <3>1. 1..n = {}
      BY <2>1
    <3> QED BY <1>13, <3>1, SumOfNone
  <2> QED BY <2>1
<1>16. n # 0 => n \in 1..n /\ cut(c) = e[n]
  BY <1>4, <1>6, <1>13
<1>17. \A i \in 1..n : e[i] <= cut(c)
  <2>1. ASSUME NEW i \in 1..n PROVE e[i] <= cut(c)
    <3>1. n \in 1..n /\ cut(c) = e[n]
      BY <1>4, <1>16
    <3>2. i < n => e[i] < e[n]
      BY <1>8, <3>1
    <3>3. PICK x, y : x = e[i] /\ y = e[n]
      OBVIOUS
    <3>4. x \in Nat /\ y \in Nat /\ (i < n => x < y) /\ (i = n => x = y)
      BY <1>7, <3>1, <3>2, <3>3
    <3>5. x <= y
      BY <1>4, <3>4
    <3> QED BY <3>1, <3>3, <3>5
  <2> QED BY <2>1
<1>18. frame_ends(c) \subseteq 0..cut(c)
  BY <1>7, <1>10, <1>14, <1>17
<1>19. cut(c) <= length(c) /\ length(c) \in Nat
  BY <1>1, <1>14 DEF length, cut
<1>20. n # 0 => cut(c) \in frame_ends(c)
  BY <1>10, <1>16
<1>21. Len(c.frames) = n /\ (c.frames # <<>> => n # 0)
  BY <1>1, <1>2, <1>3
<1> QED BY <1>4, <1>11, <1>14, <1>15, <1>18, <1>19, <1>20, <1>21

LEMMA CountReaches ==
    ASSUME NEW c \in Framed, NEW m \in Nat
    PROVE  /\ _count_at(c, m).count \in 0..Len(c.frames)
           /\ (_count_at(c, m).count < Len(c.frames)) <=> (m < cut(c))
           /\ m = cut(c) => _count_at(c, m).whole
           /\ m > cut(c) => ~ _count_at(c, m).whole
           /\ m >= cut(c) => _count_at(c, m).count = Len(c.frames)
<1>1. PICK F, E, n : F = frame_ends(c) /\ E = cut(c) /\ n = Len(c.frames)
  OBVIOUS
<1>2. /\ F \subseteq 0..E /\ IsFiniteSet(F) /\ Cardinality(F) = n /\ n \in Nat /\ E \in Nat
      /\ E = 0 \/ E \in F
      /\ n # 0 => E \in F
  <2>1. c.frames = <<>> => Len(c.frames) = 0
    OBVIOUS
  <2> QED BY <1>1, <2>1, FrameEnds
<1>3. PICK P : P = {e \in F : e <= m}
  OBVIOUS
<1>4. P \subseteq F
  BY <1>3
<1>5. IsFiniteSet(P) /\ Cardinality(P) \in Nat /\ Cardinality(P) <= n
      /\ (P # F => Cardinality(P) # n)
  BY <1>2, <1>4, FS_Subset, FS_CardinalityType
<1>6. m >= E => P = F
  <2>1. \A e \in F : e \in Nat /\ e <= E
    BY <1>2
  <2>2. m >= E => \A e \in F : e <= m
    BY <1>2, <2>1
  <2> QED BY <1>3, <2>2, Zenon
<1>7. m < E => P # F
  BY <1>2, <1>3
<1>8. _count_at(c, m).count = Cardinality(P) /\ (_count_at(c, m).whole <=> m = 0 \/ m \in F)
  BY <1>1, <1>3 DEF _count_at
<1>9. (Cardinality(P) < n) <=> (m < E)
  BY <1>2, <1>5, <1>6, <1>7
<1>10. m = E => m = 0 \/ m \in F
  BY <1>2
<1>11. m > E => ~ (m = 0 \/ m \in F)
  BY <1>2
<1> QED BY <1>1, <1>2, <1>5, <1>6, <1>8, <1>9, <1>10, <1>11

(* The search narrows to where the frames end: what it answers, whatever it  *)
(* carries, is every record when that is still in doubt.                     *)
narrowed(g, c, s) ==
    LET middle == (s.low + s.high) \div 2
        at == _count_at(c, middle)
    IN  IF s.low > s.high THEN s.found
        ELSE IF at.count < Len(c.frames) THEN g[[s EXCEPT !.low = middle + 1]]
        ELSE g[[s EXCEPT !.high = middle - 1,
                         !.found = IF at.whole THEN at.count ELSE @]]
IsSearch(g, c) == g = [s \in Searches(c) |-> narrowed(g, c, s)]
In(c, s) == s.low <= cut(c) /\ cut(c) <= s.high
answer(c) == [s \in Searches(c) |-> IF In(c, s) THEN Len(c.frames) ELSE s.found]
Left(s) == [s EXCEPT !.low = ((s.low + s.high) \div 2) + 1]
Right(s, c) == [s EXCEPT !.high = ((s.low + s.high) \div 2) - 1,
                         !.found = IF _count_at(c, (s.low + s.high) \div 2).whole
                                   THEN _count_at(c, (s.low + s.high) \div 2).count ELSE @]
Descends(s, t) == t.high - t.low < s.high - s.low

LEMMA SearchSteps ==
    ASSUME NEW c \in Framed, NEW s \in Searches(c), s.low <= s.high
    PROVE  LET m == (s.low + s.high) \div 2
           IN  /\ m \in Nat
               /\ m < cut(c) => /\ Left(s) \in Searches(c) /\ Descends(s, Left(s))
                                /\ In(c, Left(s)) <=> In(c, s)
                                /\ Left(s).found = s.found
               /\ m >= cut(c) => /\ Right(s, c) \in Searches(c) /\ Descends(s, Right(s, c))
                                 /\ m = cut(c) => ~ In(c, Right(s, c)) /\ In(c, s)
                                                  /\ Right(s, c).found = Len(c.frames)
                                 /\ m > cut(c) => (In(c, Right(s, c)) <=> In(c, s))
                                                  /\ Right(s, c).found = s.found
<1>1. PICK m : m = (s.low + s.high) \div 2
  OBVIOUS
<1>2. PICK E, L, n : E = cut(c) /\ L = length(c) /\ n = Len(c.frames)
  OBVIOUS
<1>3. E \in Nat /\ L \in Nat /\ E <= L /\ n \in Nat
  BY <1>2, FrameEnds
<1>4. PICK lo, hi, fd : lo = s.low /\ hi = s.high /\ fd = s.found
  OBVIOUS
<1>5. s = [low |-> lo, high |-> hi, found |-> fd] /\ lo \in 0..(L + 1) /\ hi \in -1..L /\ fd \in 0..n
  BY <1>2, <1>4 DEF Searches
<1>6. lo <= hi /\ m = (lo + hi) \div 2
  BY <1>1, <1>4
<1>7. m \in Nat /\ lo <= m /\ m <= hi
  BY <1>3, <1>5, <1>6
<1>8. Left(s) = [low |-> m + 1, high |-> hi, found |-> fd]
  BY <1>1, <1>5 DEF Left
<1>9. PICK t : t = _count_at(c, m)
  OBVIOUS
<1>10. PICK x : x = IF t.whole THEN t.count ELSE fd
  OBVIOUS
<1>11. Right(s, c) = [low |-> lo, high |-> m - 1, found |-> x]
  <2>1. Right(s, c) = [s EXCEPT !.high = m - 1, !.found = x]
    BY <1>1, <1>4, <1>9, <1>10 DEF Right
  <2> QED BY <1>5, <2>1
<1>12. /\ t.count \in 0..n /\ (t.count < n <=> m < E)
       /\ m = E => t.whole
       /\ m > E => ~ t.whole
       /\ m >= E => t.count = n
  BY <1>2, <1>7, <1>9, CountReaches
<1>13. x \in 0..n /\ (m = E => x = n) /\ (m > E => x = fd)
  BY <1>3, <1>5, <1>7, <1>10, <1>12
<1>14. /\ Left(s) \in Searches(c)
       /\ Right(s, c) \in Searches(c)
  <2>1. m + 1 \in 0..(L + 1) /\ m - 1 \in -1..L
    BY <1>3, <1>5, <1>7
  <2> QED BY <1>2, <1>5, <1>8, <1>11, <1>13, <2>1 DEF Searches
<1>15. In(c, s) <=> lo <= E /\ E <= hi
  BY <1>2, <1>4 DEF In
<1>16. In(c, Left(s)) <=> m + 1 <= E /\ E <= hi
  BY <1>2, <1>8 DEF In
<1>17. In(c, Right(s, c)) <=> lo <= E /\ E <= m - 1
  BY <1>2, <1>11 DEF In
<1>18. Descends(s, Left(s)) /\ Descends(s, Right(s, c))
  <2>1. hi - (m + 1) < hi - lo /\ (m - 1) - lo < hi - lo
    BY <1>3, <1>5, <1>7
  <2> QED BY <1>4, <1>8, <1>11, <2>1 DEF Descends
<1>19. m < E => (In(c, Left(s)) <=> In(c, s))
  BY <1>3, <1>5, <1>7, <1>15, <1>16
<1>20. m = E => ~ In(c, Right(s, c)) /\ In(c, s)
  BY <1>3, <1>5, <1>7, <1>15, <1>17
<1>21. m > E => (In(c, Right(s, c)) <=> In(c, s))
  BY <1>3, <1>5, <1>7, <1>15, <1>17
<1>22. Left(s).found = fd /\ Right(s, c).found = x
  BY <1>8, <1>11
<1> QED BY <1>1, <1>2, <1>4, <1>7, <1>13, <1>14, <1>18, <1>19, <1>20, <1>21, <1>22

LEMMA SearchUnfolds ==
    ASSUME NEW c \in Framed, NEW s \in Searches(c), NEW g
    PROVE  /\ s.low > s.high => narrowed(g, c, s) = s.found
           /\ s.low <= s.high =>
                LET m == (s.low + s.high) \div 2
                IN  /\ m < cut(c) => narrowed(g, c, s) = g[Left(s)]
                    /\ m >= cut(c) => narrowed(g, c, s) = g[Right(s, c)]
<1>1. s.low \in Int /\ s.high \in Int
  <2>1. length(c) \in Nat
    BY FrameEnds
  <2> QED BY <2>1 DEF Searches
<1>2. CASE s.low > s.high
  BY <1>1, <1>2 DEF narrowed
<1>3. CASE s.low <= s.high
  <2>1. PICK m : m = (s.low + s.high) \div 2
    OBVIOUS
  <2>2. m \in Nat
    BY <1>3, <2>1, SearchSteps
  <2>3. (_count_at(c, m).count < Len(c.frames)) <=> (m < cut(c))
    BY <2>2, CountReaches
  <2>4. ~ (s.low > s.high)
    BY <1>1, <1>3
  <2>5. CASE m < cut(c)
    BY <2>1, <2>3, <2>4, <2>5, FrameEnds, <1>3, <2>2 DEF narrowed, Left
  <2>6. CASE m >= cut(c)
    <3>1. ~ (_count_at(c, m).count < Len(c.frames)) /\ ~ (m < cut(c))
      BY <2>2, <2>3, <2>6, FrameEnds
    <3> QED BY <2>1, <2>4, <3>1 DEF narrowed, Right
  <2> QED BY <2>1, <2>2, <2>5, <2>6, FrameEnds
<1> QED BY <1>1, <1>2, <1>3

LEMMA SearchAnswers == ASSUME NEW c \in Framed PROVE IsSearch(answer(c), c)
<1>1. ASSUME NEW s \in Searches(c)
      PROVE  answer(c)[s] = narrowed(answer(c), c, s)
  <2>1. s.low \in Int /\ s.high \in Int /\ cut(c) \in Nat
    <3>1. length(c) \in Nat /\ cut(c) \in Nat
      BY FrameEnds
    <3> QED BY <3>1 DEF Searches
  <2>2. answer(c)[s] = IF In(c, s) THEN Len(c.frames) ELSE s.found
    BY DEF answer
  <2>3. CASE s.low > s.high
    <3>1. ~ In(c, s)
      BY <2>1, <2>3 DEF In
    <3>2. narrowed(answer(c), c, s) = s.found
      BY <2>3, SearchUnfolds
    <3> QED BY <2>2, <3>1, <3>2
  <2>4. CASE s.low <= s.high
    <3>1. PICK m : m = (s.low + s.high) \div 2
      OBVIOUS
    <3>2. m \in Nat
      BY <2>4, <3>1, SearchSteps
    <3>3. CASE m < cut(c)
      <4>1. /\ Left(s) \in Searches(c) /\ (In(c, Left(s)) <=> In(c, s))
            /\ Left(s).found = s.found
        BY <2>4, <3>1, <3>3, SearchSteps
      <4>2. narrowed(answer(c), c, s) = answer(c)[Left(s)]
        BY <2>4, <3>1, <3>3, SearchUnfolds
      <4>3. answer(c)[Left(s)] = IF In(c, Left(s)) THEN Len(c.frames) ELSE Left(s).found
        BY <4>1 DEF answer
      <4> QED BY <2>2, <4>1, <4>2, <4>3
    <3>4. CASE m >= cut(c)
      <4>1. /\ Right(s, c) \in Searches(c)
            /\ m = cut(c) => ~ In(c, Right(s, c)) /\ In(c, s) /\ Right(s, c).found = Len(c.frames)
            /\ m > cut(c) => (In(c, Right(s, c)) <=> In(c, s)) /\ Right(s, c).found = s.found
        BY <2>4, <3>1, <3>4, SearchSteps
      <4>2. narrowed(answer(c), c, s) = answer(c)[Right(s, c)]
        BY <2>4, <3>1, <3>4, SearchUnfolds
      <4>3. answer(c)[Right(s, c)] = IF In(c, Right(s, c)) THEN Len(c.frames) ELSE Right(s, c).found
        BY <4>1 DEF answer
      <4>4. m = cut(c) \/ m > cut(c)
        BY <2>1, <3>2, <3>4
      <4> QED BY <2>2, <4>1, <4>2, <4>3, <4>4
    <3> QED BY <2>1, <3>2, <3>3, <3>4
  <2> QED BY <2>1, <2>3, <2>4
<1> QED BY <1>1 DEF IsSearch, answer

LEMMA SearchesAgree ==
    ASSUME NEW c \in Framed, NEW g, IsSearch(g, c)
    PROVE  \A s \in Searches(c) : g[s] = answer(c)[s]
<1>. DEFINE room(s) == s.high - s.low + length(c) + 2
            U == {room(s) : s \in {t \in Searches(c) : g[t] # answer(c)[t]}}
<1>0. \A s \in Searches(c) : room(s) \in Nat /\ s.high \in Int /\ s.low \in Int
  <2>1. length(c) \in Nat
    BY FrameEnds
  <2> QED BY <2>1 DEF Searches
<1>1. SUFFICES ASSUME NEW s0 \in Searches(c), g[s0] # answer(c)[s0] PROVE FALSE
  OBVIOUS
<1>2. U \in SUBSET Nat /\ U # {}
  BY <1>0, <1>1
<1>3. PICK n \in U : \A k \in U : n <= k
  <2>. HIDE DEF U
  <2> QED BY <1>2, LeastNumber
<1>4. PICK s \in Searches(c) : g[s] # answer(c)[s] /\ room(s) = n
  BY <1>3
<1>5. ASSUME NEW t \in Searches(c), Descends(s, t) PROVE g[t] = answer(c)[t]
  <2>1. room(t) < room(s)
    <3>1. PICK L : L = length(c)
      OBVIOUS
    <3>2. L \in Nat
      BY <3>1, FrameEnds
    <3> QED BY <1>0, <1>5, <3>1, <3>2 DEF Descends
  <2>2. room(t) \notin U
    <3>1. n \in Nat /\ room(t) \in Nat
      BY <1>0, <1>4
    <3>. HIDE DEF U, room
    <3> QED BY <1>3, <1>4, <2>1, <3>1
  <2> QED BY <2>2
<1>6. IsSearch(answer(c), c)
  BY SearchAnswers
<1>7. g[s] = narrowed(g, c, s) /\ answer(c)[s] = narrowed(answer(c), c, s)
  <2>1. PICK h : h = answer(c)
    OBVIOUS
  <2>2. g = [t \in Searches(c) |-> narrowed(g, c, t)] /\ h = [t \in Searches(c) |-> narrowed(h, c, t)]
    BY <1>6, <2>1 DEF IsSearch
  <2>3. g[s] = narrowed(g, c, s) /\ h[s] = narrowed(h, c, s)
    BY <2>2, Zenon
  <2> QED BY <2>1, <2>3
<1>8. narrowed(g, c, s) = narrowed(answer(c), c, s)
  <2>1. CASE s.low > s.high
    BY <2>1, SearchUnfolds
  <2>2. CASE s.low <= s.high
    <3>1. PICK m : m = (s.low + s.high) \div 2
      OBVIOUS
    <3>2. m \in Nat
      BY <2>2, <3>1, SearchSteps
    <3>3. CASE m < cut(c)
      <4>1. Left(s) \in Searches(c) /\ Descends(s, Left(s))
        BY <2>2, <3>1, <3>3, SearchSteps
      <4>2. g[Left(s)] = answer(c)[Left(s)]
        BY <1>5, <4>1
      <4>3. narrowed(g, c, s) = g[Left(s)] /\ narrowed(answer(c), c, s) = answer(c)[Left(s)]
        BY <2>2, <3>1, <3>3, SearchUnfolds
      <4> QED BY <4>2, <4>3
    <3>4. CASE m >= cut(c)
      <4>1. Right(s, c) \in Searches(c) /\ Descends(s, Right(s, c))
        BY <2>2, <3>1, <3>4, SearchSteps
      <4>2. g[Right(s, c)] = answer(c)[Right(s, c)]
        BY <1>5, <4>1
      <4>3. /\ narrowed(g, c, s) = g[Right(s, c)]
            /\ narrowed(answer(c), c, s) = answer(c)[Right(s, c)]
        BY <2>2, <3>1, <3>4, SearchUnfolds
      <4> QED BY <4>2, <4>3
    <3>5. cut(c) \in Nat
      BY FrameEnds
    <3> QED BY <3>2, <3>3, <3>4, <3>5
  <2> QED BY <1>0, <2>1, <2>2
<1> QED BY <1>4, <1>7, <1>8

LEMMA PrefixIsComplete ==
    ASSUME NEW c \in Framed
    PROVE  _complete_prefix(c) = Len(c.frames)
<1>. DEFINE g == CHOOSE h : IsSearch(h, c)
            s == [low |-> 0, high |-> length(c), found |-> 0]
<1>1. IsSearch(g, c)
  BY SearchAnswers
<1>2. _complete_prefix(c) = g[s]
  BY DEF _complete_prefix, IsSearch, narrowed
<1>3. s \in Searches(c) /\ In(c, s)
  BY FrameEnds DEF Searches, In
<1>4. g[s] = answer(c)[s]
  <2>. HIDE DEF g, s
  <2> QED BY <1>1, <1>3, SearchesAgree
<1>5. answer(c)[s] = Len(c.frames)
  <2>. HIDE DEF s
  <2> QED BY <1>3 DEF answer
<1> QED BY <1>2, <1>4, <1>5

(* A moving window: the watermark is where the last poll was, the reader     *)
(* has read since its first poll, and what is old enough was read.           *)
SourceInv ==
    /\ now \in Nat
    /\ bq \in [watermark : SUBSET Nat, stored : SUBSET Rows, since : SUBSET Nat]
    /\ \A w, v \in bq.watermark : w = v
    /\ bq.watermark = {} => bq.since = {}
    /\ LateRowsAreRead /\ TruncatedImportKeepsPrefix

LEMMA SourceStarts == SourceInit => SourceInv
BY DEF SourceInit, SourceInv, LateRowsAreRead, TruncatedImportKeepsPrefix

LEMMA AtLeastZero ==
    ASSUME NEW x \in Int
    PROVE  Max({0, x}) \in Nat /\ \A t \in Nat : x <= t => Max({0, x}) <= t
<1>1. \E y \in {0, x} : \A z \in {0, x} : y >= z
  <2>1. CASE x >= 0
    <3>1. \A z \in {0, x} : x >= z
      BY <2>1
    <3> QED BY <3>1
  <2>2. CASE ~ (x >= 0)
    <3>1. \A z \in {0, x} : 0 >= z
      BY <2>2
    <3> QED BY <3>1
  <2> QED BY <2>1, <2>2
<1>2. PICK m : m = Max({0, x})
  OBVIOUS
<1>3. m \in {0, x} /\ \A z \in {0, x} : m >= z
  BY <1>1, <1>2 DEF Max
<1>4. m \in Nat
  BY <1>3
<1> QED BY <1>2, <1>3, <1>4

LEMMA PullKeeps == SourceInv /\ PullOnce => SourceInv'
<1>1. SUFFICES ASSUME SourceInv, PullOnce PROVE SourceInv'
  OBVIOUS
<1>2. PICK w : w = _window(now)
  OBVIOUS
<1>3. PICK read : read = {r \in Rows : r.lands <= now /\ w.start <= r.t /\ r.t < w.end}
  OBVIOUS
<1>4. PICK x : x = IF bq.watermark = {} THEN now - Lookback ELSE Max(bq.watermark) - Overlap
  OBVIOUS
<1>5. w.start = Max({0, x}) /\ w.end = now
  BY <1>2, <1>4 DEF _window
<1>6. \A v \in bq.watermark : Max(bq.watermark) = v /\ v \in Nat
  <2>1. \A v \in bq.watermark : v \in Nat /\ v >= v
    BY <1>1 DEF SourceInv
  <2>2. \A v, u \in bq.watermark : v >= u
    BY <1>1, <2>1 DEF SourceInv
  <2>3. ASSUME NEW v \in bq.watermark PROVE Max(bq.watermark) \in bq.watermark
    BY <2>2 DEF Max
  <2> QED BY <1>1, <2>1, <2>3 DEF SourceInv
<1>7. now \in Nat /\ Overlap \in Nat /\ Lookback \in Nat
  BY <1>1, ConsoleSourcesAssumption DEF SourceInv
<1>8. x \in Int
  BY <1>4, <1>6, <1>7
<1>9. w.start \in Nat /\ \A t \in Nat : x <= t => w.start <= t
  BY <1>5, <1>8, AtLeastZero
<1>10. /\ bq' = [watermark |-> {now}, stored |-> bq.stored \cup {r \in read : r.ok},
                 since |-> IF bq.watermark = {} THEN {w.start} ELSE bq.since]
       /\ now' = now /\ imported' = imported
  BY <1>1, <1>2, <1>3, <1>5 DEF PullOnce
<1>11. /\ bq'.watermark = {now} /\ bq'.stored = bq.stored \cup {r \in read : r.ok}
       /\ bq'.since = IF bq.watermark = {} THEN {w.start} ELSE bq.since
  BY <1>10
<1>12. bq' \in [watermark : SUBSET Nat, stored : SUBSET Rows, since : SUBSET Nat]
  <2>1. {now} \in SUBSET Nat
    BY <1>7
  <2>2. bq.stored \cup {r \in read : r.ok} \in SUBSET Rows
    BY <1>1, <1>3 DEF SourceInv
  <2>3. (IF bq.watermark = {} THEN {w.start} ELSE bq.since) \in SUBSET Nat
    BY <1>1, <1>9 DEF SourceInv
  <2> QED BY <1>10, <2>1, <2>2, <2>3
<1>13. LateRowsAreRead'
  <2>1. SUFFICES ASSUME NEW r \in Rows, r.ok, r.lands <= r.t + Overlap,
                        NEW s \in bq'.since, s <= r.t, r.t < now - Overlap
                 PROVE  r \in bq'.stored
    BY <1>11 DEF LateRowsAreRead
  <2>2. r.t \in Nat /\ r.lands \in Nat
    BY ConsoleSourcesAssumption
  <2>3. r.lands <= now /\ r.t < now
    BY <1>7, <2>1, <2>2
  <2>4. ASSUME w.start <= r.t PROVE r \in bq'.stored
    BY <1>3, <1>5, <1>11, <2>1, <2>3, <2>4
  <2>5. CASE bq.watermark = {}
    BY <1>11, <2>1, <2>4, <2>5
  <2>6. ASSUME NEW v \in bq.watermark PROVE r \in bq'.stored
    <3>1. x = v - Overlap /\ v \in Nat /\ s \in bq.since
      BY <1>4, <1>6, <1>11, <2>1, <2>6
    <3>2. CASE v - Overlap <= r.t
      BY <1>9, <2>2, <2>4, <3>1, <3>2
    <3>3. CASE r.t < v - Overlap
      <4>1. r \in bq.stored
        BY <1>1, <2>1, <3>1, <3>3 DEF SourceInv, LateRowsAreRead
      <4> QED BY <1>11, <4>1
    <3> QED BY <1>7, <2>2, <3>1, <3>2, <3>3
  <2> QED BY <2>5, <2>6
<1>14. TruncatedImportKeepsPrefix'
  BY <1>1, <1>10 DEF SourceInv, TruncatedImportKeepsPrefix
<1>15. (\A a, b \in bq'.watermark : a = b) /\ (bq'.watermark = {} => bq'.since = {}) /\ now' \in Nat
  BY <1>7, <1>10, <1>11
<1> QED BY <1>12, <1>13, <1>14, <1>15 DEF SourceInv

LEMMA ImportKeeps == SourceInv /\ ImportBundle => SourceInv'
<1>1. SUFFICES ASSUME SourceInv, ImportBundle PROVE SourceInv'
  OBVIOUS
<1>2. PICK c \in Captures :
        imported' = {[capture |-> c, truncated |-> c.trailing > 0,
                      found |-> IF c.trailing = 0 THEN Len(c.frames) ELSE _complete_prefix(c)]}
  BY <1>1 DEF ImportBundle
<1>3. c \in Framed
  BY ConsoleSourcesAssumption DEF Framed
<1>4. _complete_prefix(c) = Len(c.frames)
  BY <1>3, PrefixIsComplete
<1>5. imported' = {[capture |-> c, truncated |-> c.trailing > 0, found |-> Len(c.frames)]}
  BY <1>2, <1>4
<1>6. TruncatedImportKeepsPrefix'
  BY <1>5 DEF TruncatedImportKeepsPrefix
<1> QED BY <1>1, <1>6 DEF SourceInv, ImportBundle, LateRowsAreRead

LEMMA SourceKeeps == SourceInv /\ [SourceNext]_sourceVars => SourceInv'
<1>1. SUFFICES ASSUME SourceInv, [SourceNext]_sourceVars PROVE SourceInv'
  OBVIOUS
<1>2. CASE UNCHANGED sourceVars \/ Consume \/ ConsumerFails
  BY <1>1, <1>2 DEF sourceVars, Consume, ConsumerFails, SourceInv, LateRowsAreRead,
     TruncatedImportKeepsPrefix
<1>3. CASE PollInterval
  <2>1. now' \in Nat
    BY <1>1, <1>3 DEF SourceInv, PollInterval
  <2> QED BY <1>1, <1>3, <2>1 DEF PollInterval, SourceInv, LateRowsAreRead, TruncatedImportKeepsPrefix
<1> QED BY <1>1, <1>2, <1>3, PullKeeps, ImportKeeps DEF SourceNext

-----------------------------------------------------------------------------
(* The record store: what an upsert keeps, a batch of upserts keeps.         *)
Columns == {"trace", "span", "parent", "type", "entity", "seq", "step", "t", "attrs", "prov"}
Row(e) == DOMAIN e = Columns

\* What is known of record o is known of n.
Knows(o, n) ==
    /\ o.parent # 0 => n.parent # 0
    /\ o.entity # 0 => n.entity # 0
    /\ DOMAIN o.attrs \subseteq DOMAIN n.attrs
    /\ n.prov = "otlp" => o.prov = "otlp"

LEMMA Merging ==
    ASSUME NEW old, NEW new, Row(new)
    PROVE  /\ Row(merged(old, new)) /\ identity(merged(old, new)) = identity(new)
           /\ Knows(old, merged(old, new))
<1>1. PICK m : m = merged(old, new)
  OBVIOUS
<1>2. PICK p, t : /\ p = (IF new.entity # 0 THEN new.entity ELSE old.entity)
                  /\ t = (IF new.t # 0 THEN new.t ELSE old.t)
  OBVIOUS
<1>3. PICK q, s, a : /\ q = (IF new.parent # 0 THEN new.parent ELSE old.parent)
                     /\ s = keep_lossless(old.prov, new.prov)
                     /\ a = over(new.attrs, old.attrs)
  OBVIOUS
<1>4. m = [new EXCEPT !.parent = q, !.entity = p, !.t = t, !.prov = s, !.attrs = a]
  BY <1>1, <1>2, <1>3 DEF merged
<1>5. /\ DOMAIN m = DOMAIN new /\ m.trace = new.trace /\ m.span = new.span /\ m.type = new.type
      /\ m.parent = q /\ m.entity = p /\ m.prov = s /\ m.attrs = a
  BY <1>4 DEF Row, Columns
<1>6. DOMAIN old.attrs \subseteq DOMAIN a
  BY <1>3 DEF over
<1>7. s = "otlp" => old.prov = "otlp"
  BY <1>3 DEF keep_lossless
<1>8. Knows(old, m)
  BY <1>2, <1>3, <1>5, <1>6, <1>7 DEF Knows
<1>9. identity(m) = identity(new) /\ Row(m)
  BY <1>5 DEF identity, Row
<1> QED BY <1>1, <1>8, <1>9

\* A table of events, each identity in it once; and one that knows all of S.
Table(E) ==
    /\ \A e \in E : Row(e)
    /\ \A a, b \in E : identity(a) = identity(b) => a = b
Grown(S, E) ==
    /\ Table(E)
    /\ \A o \in S : \E n \in E : identity(n) = identity(o) /\ Knows(o, n)

LEMMA UpsertGrows ==
    ASSUME NEW S, NEW E, Grown(S, E), NEW new, Row(new)
    PROVE  Grown(S, write_events(E, new))
<1>1. PICK old : old = {e \in E : identity(e) = identity(new)}
  OBVIOUS
<1>2. PICK m : m = IF old = {} THEN new ELSE merged(CHOOSE e \in old : TRUE, new)
  OBVIOUS
<1>3. PICK W : W = write_events(E, new)
  OBVIOUS
<1>4. W = (E \ old) \cup {m}
  BY <1>1, <1>2, <1>3 DEF write_events
<1>5. Row(m) /\ identity(m) = identity(new) /\ \A e \in old : Knows(e, m)
  <2>1. CASE old = {}
    BY <1>2, <2>1
  <2>2. CASE old # {}
    <3>1. PICK e \in old : e = CHOOSE x \in old : TRUE
      BY <2>2
    <3>2. m = merged(e, new)
      BY <1>2, <2>2, <3>1
    <3>3. Row(m) /\ identity(m) = identity(new) /\ Knows(e, m)
      BY <3>2, Merging
    <3>4. \A x \in old : x = e
      BY <1>1 DEF Grown, Table
    <3> QED BY <3>3, <3>4
  <2> QED BY <2>1, <2>2
<1>6. Table(W)
  <2>1. \A e \in W : Row(e)
    BY <1>4, <1>5 DEF Grown, Table
  <2>2. \A a, b \in W : identity(a) = identity(b) => a = b
    <3>1. \A a \in E \ old : identity(a) # identity(m)
      BY <1>1, <1>5
    <3> QED BY <1>4, <3>1 DEF Grown, Table
  <2> QED BY <2>1, <2>2 DEF Table
<1>7. ASSUME NEW o \in S PROVE \E n \in W : identity(n) = identity(o) /\ Knows(o, n)
  <2>1. PICK e \in E : identity(e) = identity(o) /\ Knows(o, e)
    BY DEF Grown
  <2>2. CASE e \in old
    <3>1. Knows(e, m) /\ identity(m) = identity(o) /\ m \in W
      BY <1>1, <1>4, <1>5, <2>1, <2>2
    <3>2. Knows(o, m)
      BY <2>1, <3>1 DEF Knows
    <3> QED BY <3>1, <3>2
  <2>3. CASE e \notin old
    BY <1>4, <2>1, <2>3
  <2> QED BY <2>2, <2>3
<1> QED BY <1>3, <1>6, <1>7 DEF Grown

(* A transaction upserts the records of its batch one after another.         *)
upserted(f, E, T) == IF T = {} THEN E ELSE write_events(f[T \ {First(T)}], First(T))
Upserts(f, E, B) == f = [T \in SUBSET B |-> upserted(f, E, T)]
UpsertsUpTo(f, E, B, n) == \A T \in SUBSET B : Cardinality(T) <= n => f[T] = upserted(f, E, T)

LEMMA UpsertsExist ==
    ASSUME NEW B, IsFiniteSet(B), NEW E
    PROVE  \E f : Upserts(f, E, B)
<1>. DEFINE Fails == {n \in Nat : ~ \E f : UpsertsUpTo(f, E, B, n)}
<1>1. \A T \in SUBSET B : Cardinality(T) \in Nat /\ Cardinality(T) <= Cardinality(B)
  BY FS_Subset, FS_CardinalityType
<1>2. Cardinality(B) \in Nat
  BY FS_CardinalityType
<1>3. Fails = {}
  <2>1. SUFFICES ASSUME Fails # {} PROVE FALSE
    OBVIOUS
  <2>2. PICK n \in Fails : \A k \in Fails : n <= k
    <3>1. Fails \in SUBSET Nat
      OBVIOUS
    <3>. HIDE DEF Fails
    <3> QED BY <2>1, <3>1, LeastNumber
  <2>3. n \in Nat /\ ~ \E f : UpsertsUpTo(f, E, B, n)
    BY <2>2
  <2>4. PICK g : n # 0 => UpsertsUpTo(g, E, B, n - 1)
    <3>1. CASE n = 0
      BY <3>1
    <3>2. CASE n # 0
      <4>1. n - 1 \in Nat /\ n - 1 \notin Fails
        <5>1. n - 1 \in Nat /\ ~ (n <= n - 1)
          BY <2>3, <3>2
        <5>. HIDE DEF Fails
        <5> QED BY <2>2, <5>1
      <4> QED BY <4>1
    <3> QED BY <3>1, <3>2
  <2>5. PICK f : f = [T \in SUBSET B |-> upserted(g, E, T)]
    OBVIOUS
  <2>6. ASSUME NEW T \in SUBSET B, Cardinality(T) <= n
        PROVE  f[T] = upserted(f, E, T)
    <3>1. f[T] = upserted(g, E, T)
      BY <2>5
    <3>2. CASE T = {}
      BY <3>1, <3>2 DEF upserted
    <3>3. CASE T # {}
      <4>1. PICK x \in T : x = First(T)
        BY <3>3 DEF First
      <4>2. /\ T \ {x} \in SUBSET B /\ Cardinality(T) >= 1
            /\ Cardinality(T \ {x}) = Cardinality(T) - 1 /\ Cardinality(T) \in Nat
        BY Smaller
      <4>3. n # 0 /\ Cardinality(T \ {x}) <= n - 1
        BY <2>3, <2>6, <4>2
      <4>4. g[T \ {x}] = upserted(g, E, T \ {x})
        BY <2>4, <4>2, <4>3 DEF UpsertsUpTo
      <4>5. f[T \ {x}] = upserted(g, E, T \ {x})
        BY <2>5, <4>2
      <4>6. f[T \ {x}] = g[T \ {x}]
        BY <4>4, <4>5
      <4> QED BY <3>1, <3>3, <4>1, <4>6 DEF upserted
    <3> QED BY <3>2, <3>3
  <2>7. UpsertsUpTo(f, E, B, n)
    BY <2>6 DEF UpsertsUpTo
  <2> QED BY <2>3, <2>7
<1>4. PICK g : UpsertsUpTo(g, E, B, Cardinality(B))
  BY <1>2, <1>3
<1>5. PICK f : f = [T \in SUBSET B |-> upserted(g, E, T)]
  OBVIOUS
<1>6. \A T \in SUBSET B : f[T] = g[T]
  BY <1>1, <1>4, <1>5 DEF UpsertsUpTo
<1>7. ASSUME NEW T \in SUBSET B PROVE upserted(g, E, T) = upserted(f, E, T)
  <2>1. T \ {First(T)} \in SUBSET B
    OBVIOUS
  <2>2. f[T \ {First(T)}] = g[T \ {First(T)}]
    BY <1>6, <2>1
  <2> QED BY <2>2 DEF upserted
<1>8. f = [T \in SUBSET B |-> upserted(f, E, T)]
  BY <1>5, <1>7
<1> QED BY <1>8 DEF Upserts

LEMMA UpsertsGrow ==
    ASSUME NEW B, IsFiniteSet(B), \A b \in B : Row(b), NEW E, Table(E), NEW f, Upserts(f, E, B)
    PROVE  Grown(E, f[B])
<1>. DEFINE U == {T \in SUBSET B : ~ Grown(E, f[T])}
<1>0. \A T \in SUBSET B : f[T] = upserted(f, E, T)
  BY Zenon DEF Upserts
<1>1. SUFFICES ASSUME U # {} PROVE FALSE
  OBVIOUS
<1>2. \A T \in U : IsFiniteSet(T)
  BY FS_Subset
<1>3. PICK T \in U : Cardinality(T) \in Nat /\ \A V \in U : Cardinality(T) <= Cardinality(V)
  <2>. HIDE DEF U
  <2> QED BY <1>1, <1>2, SmallestSet
<1>4. T \in SUBSET B /\ ~ Grown(E, f[T])
  BY <1>3
<1>5. CASE T = {}
  <2>1. f[T] = E
    BY <1>0, <1>4, <1>5 DEF upserted
  <2>2. Grown(E, E)
    BY DEF Grown, Knows
  <2> QED BY <1>4, <2>1, <2>2
<1>6. CASE T # {}
  <2>1. PICK x \in T : x = First(T)
    BY <1>6 DEF First
  <2>2. T \ {x} \in SUBSET B /\ Cardinality(T \ {x}) = Cardinality(T) - 1
    BY <1>4, Smaller
  <2>3. T \ {x} \notin U
    BY <1>3, <2>2
  <2>4. Grown(E, f[T \ {x}]) /\ Row(x)
    BY <1>4, <2>2, <2>3
  <2>5. f[T] = write_events(f[T \ {x}], x)
    BY <1>0, <1>4, <1>6, <2>1 DEF upserted
  <2> QED BY <1>4, <2>4, <2>5, UpsertGrows
<1> QED BY <1>5, <1>6

LEMMA BatchUpserts ==
    ASSUME NEW B, IsFiniteSet(B), \A b \in B : Row(b), NEW E, Table(E)
    PROVE  Grown(E, FoldSet(LAMBDA e, S : write_events(S, e), E, B))
<1>. DEFINE g == CHOOSE f : Upserts(f, E, B)
<1>1. Upserts(g, E, B)
  BY UpsertsExist
<1>2. FoldSet(LAMBDA e, S : write_events(S, e), E, B) = g[B]
  BY DEF FoldSet, MapThenFoldSet, Upserts, upserted, First
<1>3. Grown(E, g[B])
  <2>. HIDE DEF g
  <2> QED BY <1>1, UpsertsGrow
<1> QED BY <1>2, <1>3

(* The store: what a route delivers is a row, and there is a finite number.  *)
StoreInv == feed \in Feeds /\ Table(events)

LEMMA StoreStarts == StoreInit => StoreInv
BY DEF StoreInit, StoreInv, Table

LEMMA Decoded ==
    ASSUME NEW e, DOMAIN e = Columns \ {"prov"}, NEW route
    PROVE  Row(decode(e, route))
<1>1. PICK d : d = IF route = "otlp" THEN from_otlp(e) ELSE e
  OBVIOUS
<1>2. DOMAIN d = Columns \ {"prov"}
  BY <1>1 DEF from_otlp
<1>3. decode(e, route) = over(d, [prov |-> route])
  BY <1>1 DEF decode
<1>4. DOMAIN [prov |-> route] = {"prov"}
  OBVIOUS
<1>5. DOMAIN decode(e, route) = DOMAIN d \cup {"prov"}
  BY <1>3, <1>4 DEF over
<1> QED BY <1>2, <1>5 DEF Row, Columns

LEMMA Delivered ==
    ASSUME feed \in Feeds, NEW route, NEW n, NEW es \in kSubset(n, carried(route))
    PROVE  IsFiniteSet({decode(e, route) : e \in es}) /\ \A b \in {decode(e, route) : e \in es} : Row(b)
<1>1. es \subseteq feed.trace
  BY DEF kSubset, carried
<1>2. IsFiniteSet(feed.trace) /\ \A e \in feed.trace : DOMAIN e = Columns \ {"prov"}
  BY ConsoleStoreAssumption DEF Columns
<1>3. IsFiniteSet(es)
  BY <1>1, <1>2, FS_Subset
<1>4. PICK B : B = {decode(e, route) : e \in es}
  OBVIOUS
<1>5. [e \in es |-> decode(e, route)] \in Surjection(es, B)
  BY <1>4 DEF Surjection
<1>6. IsFiniteSet(B)
  BY <1>3, <1>5, FS_Surjection
<1>7. \A b \in B : Row(b)
  BY <1>1, <1>2, <1>4, Decoded
<1> QED BY <1>4, <1>6, <1>7

Kept == \A o \in events : \A n \in {x \in events' : identity(x) = identity(o)} : Knows(o, n)

LEMMA WriteKeeps ==
    ASSUME StoreInv, NEW batch, IsFiniteSet(batch), \A b \in batch : Row(b), NEW errs,
           Write(batch, errs)
    PROVE  Table(events') /\ Kept
<1>1. PICK F : F = FoldSet(LAMBDA e, S : write_events(S, e), events, batch)
  OBVIOUS
<1>2. events' = F
  BY <1>1 DEF Write
<1>3. Grown(events, F)
  BY <1>1, BatchUpserts DEF StoreInv
<1>4. Table(events')
  BY <1>2, <1>3 DEF Grown
<1>5. ASSUME NEW o \in events, NEW n \in events', identity(n) = identity(o) PROVE Knows(o, n)
  <2>1. PICK k \in events' : identity(k) = identity(o) /\ Knows(o, k)
    BY <1>2, <1>3 DEF Grown
  <2>2. k = n
    BY <1>4, <1>5, <2>1 DEF Table
  <2> QED BY <2>1, <2>2
<1> QED BY <1>4, <1>5 DEF Kept

LEMMA StandsStill ==
    ASSUME StoreInv, events' \subseteq events
    PROVE  Table(events') /\ Kept
<1>1. Table(events')
  BY DEF StoreInv, Table
<1>2. \A o \in events, n \in events' : identity(n) = identity(o) => n = o
  BY DEF StoreInv, Table
<1>3. \A o : Knows(o, o)
  BY DEF Knows
<1> QED BY <1>1, <1>2, <1>3 DEF Kept

LEMMA StoreKeeps == StoreInv /\ [StoreNext]_storeVars => StoreInv' /\ Kept
<1>1. SUFFICES ASSUME StoreInv, [StoreNext]_storeVars PROVE StoreInv' /\ Kept
  OBVIOUS
<1>2. CASE UNCHANGED storeVars
  <2>1. events' \subseteq events /\ feed' = feed
    BY <1>2 DEF storeVars
  <2> QED BY <1>1, <2>1, StandsStill DEF StoreInv
<1>3. CASE Ingest
  <2>1. PICK route \in feed.routes, n \in 1..MaxBatch :
          /\ \/ \E es \in kSubset(n, carried(route)) : Write({decode(e, route) : e \in es}, {})
             \/ /\ route # "otlp"
                /\ \E rs \in kSubset(n, feed.letters) : Write({}, {_error_row(r, route) : r \in rs})
          /\ UNCHANGED feed
    BY <1>3, Zenon DEF Ingest
  <2>2. ASSUME NEW es \in kSubset(n, carried(route)), Write({decode(e, route) : e \in es}, {})
        PROVE  Table(events') /\ Kept
    <3>1. PICK B : B = {decode(e, route) : e \in es}
      OBVIOUS
    <3>2. IsFiniteSet(B) /\ \A b \in B : Row(b)
      BY <1>1, <3>1, Delivered DEF StoreInv
    <3>3. Write(B, {})
      BY <2>2, <3>1
    <3> QED BY <1>1, <3>2, <3>3, WriteKeeps
  <2>3. ASSUME NEW rs, Write({}, {_error_row(r, route) : r \in rs})
        PROVE  Table(events') /\ Kept
    <3>1. PICK R : R = {_error_row(r, route) : r \in rs}
      OBVIOUS
    <3>2. Write({}, R)
      BY <2>3, <3>1
    <3>3. IsFiniteSet({})
      BY FS_EmptySet
    <3> QED BY <1>1, <3>2, <3>3, WriteKeeps
  <2>4. Table(events') /\ Kept
    BY <2>1, <2>2, <2>3
  <2> QED BY <1>1, <2>1, <2>4 DEF StoreInv
<1>4. CASE Prune
  <2>1. PICK cutoff \in Cutoffs : _prune(cutoff) /\ feed' = feed
    BY <1>4 DEF Prune
  <2>2. events' \subseteq events
    BY <2>1 DEF _prune
  <2> QED BY <1>1, <2>1, <2>2, StandsStill DEF StoreInv
<1> QED BY <1>1, <1>2, <1>3, <1>4 DEF StoreNext

LEMMA QueriesRead == [QueryNext]_queryVars => [StoreNext]_storeVars
BY DEF QueryNext, StoreStep, FirstPage, NextPage, OpenOverview, NextStatement, OpenDetail,
       ReadEvents, queryVars, storeVars

-----------------------------------------------------------------------------
(* Telemetry is delivered or counted, from the pipeline to the browser       *)
(* (_sink.py, otlp.py, _feed.py, _bigquery.py, _bundle.py): for any records, *)
(* batch and queue sizes, rows, polls and captures, what a DoFn was fed is   *)
(* exported, dropped or still held, and counted so; no late row is skipped   *)
(* by the window and nothing before a cut is lost by an import; and a reader *)
(* of the feed is woken and, when all is quiet, has seen what was written by *)
(* those who announce it (the handlers do; the app's sources do not).        *)
TelemetryInv == SinkInv /\ FeedInv /\ SourceInv

THEOREM TelemetryAlwaysArrives == Spec => []TelemetryArrives
<1>1. Init => TelemetryInv
  BY SinkStarts, FeedStarts, SourceStarts DEF Init, TelemetryInv
<1>2. TelemetryInv /\ [Next]_<<part, sinkVars, queryVars, feedVars, sourceVars>> => TelemetryInv'
  <2>1. SUFFICES ASSUME TelemetryInv, [Next]_<<part, sinkVars, queryVars, feedVars, sourceVars>>
                 PROVE  TelemetryInv'
    OBVIOUS
  <2>2. [SinkNext]_sinkVars /\ [FeedNext]_feedVars /\ [SourceNext]_sourceVars
    BY <2>1 DEF Next
  <2> QED BY <2>1, <2>2, SinkKeeps, FeedKeeps, SourceKeeps DEF TelemetryInv
<1>3. TelemetryInv => TelemetryArrives
  BY SinkAccounts, FeedCatchesUp DEF TelemetryInv, SourceInv, TelemetryArrives
<1> QED BY <1>1, <1>2, <1>3, PTL DEF Spec

(* A copy that lacks a field never erases it (_store.py:24): parents, entity *)
(* keys and attributes once stored stay until the event is swept, and a      *)
(* lossless event is not relabelled, for any records, routes, batches and    *)
(* sweeps.                                                                   *)
THEOREM KnownAlwaysStays == Spec => KnownStaysKnown
<1>1. Init => StoreInv
  BY StoreStarts DEF Init, QueryInit
<1>2. StoreInv /\ [Next]_<<part, sinkVars, queryVars, feedVars, sourceVars>> => StoreInv' /\ Kept
  <2>1. SUFFICES ASSUME StoreInv, [Next]_<<part, sinkVars, queryVars, feedVars, sourceVars>>
                 PROVE  StoreInv' /\ Kept
    OBVIOUS
  <2>2. [QueryNext]_queryVars
    BY <2>1 DEF Next
  <2> QED BY <2>1, <2>2, QueriesRead, StoreKeeps
<1>3. Kept => [ \A o \in events : \A n \in {x \in events' : identity(x) = identity(o)} :
            /\ o.parent # 0 => n.parent # 0
            /\ o.entity # 0 => n.entity # 0
            /\ DOMAIN o.attrs \subseteq DOMAIN n.attrs
            /\ n.prov = "otlp" => o.prov = "otlp" ]_storeVars
  BY DEF Kept, Knows
<1> QED BY <1>1, <1>2, <1>3, PTL DEF Spec, KnownStaysKnown
=============================================================================
