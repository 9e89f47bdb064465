---------------------------- MODULE Foundations ----------------------------
(***************************************************************************)
(* What the proofs of several components rest on: least numbers and sets,  *)
(* the folds of the community modules (what a recursion over a finite set  *)
(* defines exists, is unique and, for a sum, does not depend on the order  *)
(* it is taken in), and the collections of Collections.                    *)
(***************************************************************************)
EXTENDS Integers, Sequences, FiniteSets, SequencesExt, Collections, FiniteSetTheorems, TLAPS

\* Every nonempty set of numbers has a least one.
LEMMA LeastNumber ==
    ASSUME NEW T \in SUBSET Nat, T # {}
    PROVE  \E m \in T : \A k \in T : m <= k
<1>. DEFINE U == {1..n : n \in T}
<1>1. U \subseteq FiniteSubsetsOf(Nat) /\ U # {}
  <2>1. \A n \in T : IsFiniteSet(1..n)
    BY FS_Interval
  <2>2. \A n \in T : 1..n \in FiniteSubsetsOf(Nat)
    <3>1. \A n \in T : 1..n \in SUBSET Nat
      OBVIOUS
    <3>2. QED
      BY <2>1, <3>1, Zenon DEF FiniteSubsetsOf
  <2>3. QED
    BY <2>2, Zenon
<1>2. PICK x \in U : \A y \in U : <<y, x>> \notin StrictSubsetOrdering(Nat)
  <2>. HIDE DEF U
  <2>1. QED
    BY <1>1, FS_StrictSubsetOrderingWellFounded, WFMin
<1>3. PICK m \in T : x = 1..m
  BY <1>2
<1>4. \A k \in T : m <= k
  <2>1. SUFFICES ASSUME NEW k \in T, k < m
                 PROVE  FALSE
    BY <1>3
  <2>2. 1..k \subseteq 1..m /\ m \in 1..m /\ m \notin 1..k
    BY <2>1
  <2>3. <<1..k, 1..m>> \in StrictSubsetOrdering(Nat)
    BY <2>2 DEF StrictSubsetOrdering
  <2>4. QED
    BY <1>2, <1>3, <2>3
<1>5. QED
  BY <1>4

LEMMA MinIsLeast ==
    ASSUME NEW T \in SUBSET Nat, T # {}
    PROVE  Min(T) \in T /\ \A k \in T : Min(T) <= k
BY LeastNumber DEF Min

LEMMA MaxIsGreatest ==
    ASSUME NEW n \in Nat, NEW T \in SUBSET (1..n), T # {}
    PROVE  Max(T) \in T /\ \A k \in T : k <= Max(T)
<1>. DEFINE U == {u \in Nat : \A k \in T : k <= u}
<1>1. U \in SUBSET Nat /\ n \in U
  OBVIOUS
<1>2. PICK u \in U : \A v \in U : u <= v
  <2>. HIDE DEF U
  <2> QED BY <1>1, LeastNumber
<1>3. u \in T
  <2>1. SUFFICES ASSUME u \notin T PROVE FALSE
    OBVIOUS
  <2>2. u \in Nat /\ (\A k \in T : k \in Nat /\ k >= 1 /\ k <= u)
    BY <1>2
  <2>5. PICK w \in T : w >= 1 /\ w <= u
    BY <2>2
  <2>3. u - 1 \in Nat /\ \A k \in T : k <= u - 1
    BY <2>1, <2>2, <2>5
  <2>4. u - 1 \in U
    BY <2>3
  <2> QED BY <1>2, <2>2, <2>4
<1> QED BY <1>2, <1>3 DEF Max

(* Every nonempty collection of finite sets has a member of least size.      *)
LEMMA SmallestSet ==
    ASSUME NEW U, U # {}, \A T \in U : IsFiniteSet(T)
    PROVE  \E T \in U : /\ Cardinality(T) \in Nat
                        /\ \A V \in U : Cardinality(T) <= Cardinality(V)
<1>. DEFINE N == {Cardinality(T) : T \in U}
<1>1. \A T \in U : Cardinality(T) \in Nat
  BY FS_CardinalityType
<1>2. N \in SUBSET Nat /\ N # {}
  BY <1>1
<1>3. PICK m \in N : \A k \in N : m <= k
  <2>. HIDE DEF N
  <2> QED BY <1>2, LeastNumber
<1>4. PICK T \in U : m = Cardinality(T)
  BY <1>3
<1>5. \A V \in U : Cardinality(T) <= Cardinality(V)
  BY <1>3, <1>4
<1> QED BY <1>1, <1>4, <1>5

(* A recursion that takes one element, which c names, out of a finite set    *)
(* after the other.                                                          *)
IsFold(f, S, b, G, c) ==
    f = [T \in SUBSET S |-> IF T = {} THEN b ELSE G[c[T]][f[T \ {c[T]}]]]

(* Up to a cardinality n.                                                    *)
Up(S, n) == {T \in SUBSET S : Cardinality(T) <= n}
IsFoldUpTo(f, S, b, G, c, n) ==
    f = [T \in Up(S, n) |-> IF T = {} THEN b ELSE G[c[T]][f[T \ {c[T]}]]]

LEMMA Smaller ==
    ASSUME NEW S, IsFiniteSet(S), NEW T \in SUBSET S, NEW x \in T
    PROVE  /\ T \ {x} \in SUBSET S /\ IsFiniteSet(T) /\ IsFiniteSet(T \ {x})
           /\ Cardinality(T) \in Nat /\ Cardinality(T) >= 1
           /\ Cardinality(T \ {x}) = Cardinality(T) - 1 /\ Cardinality(T \ {x}) \in Nat
<1>1. IsFiniteSet(T)
  BY FS_Subset
<1>2. IsFiniteSet(T \ {x}) /\ Cardinality(T \ {x}) = Cardinality(T) - 1
  BY <1>1, FS_RemoveElement
<1>3. Cardinality(T) \in Nat /\ Cardinality(T \ {x}) \in Nat
  BY <1>1, <1>2, FS_CardinalityType
<1> QED BY <1>1, <1>2, <1>3

LEMMA FoldUpTo ==
    ASSUME NEW S, IsFiniteSet(S), NEW M, NEW b \in M, NEW G \in [S -> [M -> M]],
           NEW c, \A T \in SUBSET S : T # {} => c[T] \in T,
           NEW n \in Nat
    PROVE  \E f \in [Up(S, n) -> M] : IsFoldUpTo(f, S, b, G, c, n)
<1>. DEFINE Fails == {m \in Nat : ~\E f \in [Up(S, m) -> M] : IsFoldUpTo(f, S, b, G, c, m)}
<1>1. SUFFICES ASSUME Fails # {} PROVE FALSE
  OBVIOUS
<1>2. PICK m \in Fails : \A k \in Fails : m <= k
  <2>1. Fails \in SUBSET Nat
    OBVIOUS
  <2>. HIDE DEF Fails
  <2> QED BY <1>1, <2>1, LeastNumber
<1>3. m \in Nat
  BY <1>2
<1>4. CASE m = 0
  <2>. DEFINE f == [T \in Up(S, 0) |-> b]
  <2>1. \A T \in Up(S, 0) : T = {}
    <3>1. SUFFICES ASSUME NEW T \in Up(S, 0) PROVE T = {}
      OBVIOUS
    <3>2. T \in SUBSET S /\ Cardinality(T) <= 0
      BY DEF Up
    <3>3. IsFiniteSet(T) /\ Cardinality(T) \in Nat
      BY <3>2, FS_Subset, FS_CardinalityType
    <3> QED BY <3>2, <3>3, FS_EmptySet
  <2>2. f \in [Up(S, 0) -> M]
    OBVIOUS
  <2>3. IsFoldUpTo(f, S, b, G, c, 0)
    BY <2>1 DEF IsFoldUpTo
  <2>. HIDE DEF f
  <2> QED BY <1>2, <1>4, <2>2, <2>3
<1>5. CASE m # 0
  <2>1. m - 1 \in Nat /\ m - 1 \notin Fails
    BY <1>2, <1>3, <1>5
  <2>2. PICK f \in [Up(S, m - 1) -> M] : IsFoldUpTo(f, S, b, G, c, m - 1)
    BY <2>1
  <2>. DEFINE g == [T \in Up(S, m) |-> IF T = {} THEN b ELSE G[c[T]][f[T \ {c[T]}]]]
  <2>3. ASSUME NEW T \in Up(S, m), T # {}
        PROVE  T \ {c[T]} \in Up(S, m - 1) /\ c[T] \in S /\ T \ {c[T]} \in Up(S, m)
    <3>1. T \in SUBSET S /\ Cardinality(T) <= m
      BY DEF Up
    <3>2. PICK x \in T : x = c[T]
      BY <2>3, <3>1
    <3>3. /\ T \ {x} \in SUBSET S /\ Cardinality(T \ {x}) = Cardinality(T) - 1
          /\ Cardinality(T) \in Nat
      BY <3>1, Smaller
    <3> QED BY <1>3, <3>1, <3>2, <3>3 DEF Up
  <2>4. g \in [Up(S, m) -> M]
    <3>1. ASSUME NEW T \in Up(S, m), T # {} PROVE G[c[T]][f[T \ {c[T]}]] \in M
      BY <2>3, <3>1
    <3> QED BY <3>1
  <2>5. ASSUME NEW T \in Up(S, m - 1) PROVE T \in Up(S, m) /\ g[T] = f[T]
    <3>1. T \in SUBSET S /\ Cardinality(T) <= m - 1
      BY DEF Up
    <3>2. Cardinality(T) \in Nat
      BY <3>1, FS_Subset, FS_CardinalityType
    <3>3. T \in Up(S, m)
      BY <1>3, <3>1, <3>2 DEF Up
    <3>4. f[T] = IF T = {} THEN b ELSE G[c[T]][f[T \ {c[T]}]]
      BY <2>2 DEF IsFoldUpTo
    <3> QED BY <3>3, <3>4
  <2>6. ASSUME NEW T \in Up(S, m), T # {} PROVE g[T] = G[c[T]][g[T \ {c[T]}]]
    <3>1. g[T \ {c[T]}] = f[T \ {c[T]}]
      BY <2>3, <2>5, <2>6
    <3> QED BY <2>6, <3>1
  <2>7. ASSUME NEW T \in Up(S, m), T = {} PROVE g[T] = b
    BY <2>7
  <2>. HIDE DEF g
  <2>8. IsFoldUpTo(g, S, b, G, c, m)
    BY <2>4, <2>6, <2>7 DEF IsFoldUpTo
  <2> QED BY <1>2, <2>4, <2>8
<1> QED BY <1>4, <1>5

(* What c names of a set is in it.                                           *)
Chooses(c, S) == \A T \in SUBSET S : T # {} => c[T] \in T

LEMMA FoldExists ==
    ASSUME NEW S, IsFiniteSet(S), NEW M, NEW b \in M, NEW G \in [S -> [M -> M]],
           NEW c, Chooses(c, S)
    PROVE  \E f \in [SUBSET S -> M] : IsFold(f, S, b, G, c)
<1>1. PICK n \in Nat : n = Cardinality(S)
  BY FS_CardinalityType
<1>2. Up(S, n) = SUBSET S
  BY <1>1, FS_Subset DEF Up
<1>6. \A T \in SUBSET S : T # {} => c[T] \in T
  BY DEF Chooses
<1>3. PICK f \in [Up(S, n) -> M] : IsFoldUpTo(f, S, b, G, c, n)
  BY <1>6, FoldUpTo
<1>4. f \in [SUBSET S -> M]
  BY <1>2
<1>5. IsFold(f, S, b, G, c)
  BY <1>2, <1>3 DEF IsFoldUpTo, IsFold
<1> QED BY <1>4, <1>5

(* Two functions that agree as far as the recursion takes them agree.        *)
Follow(f, g, c, S) ==
    \A T \in SUBSET S : (T # {} => f[T \ {c[T]}] = g[T \ {c[T]}]) => f[T] = g[T]

LEMMA FoldsAgree ==
    ASSUME NEW S, IsFiniteSet(S), NEW c, Chooses(c, S), NEW f, NEW g, Follow(f, g, c, S)
    PROVE  \A T \in SUBSET S : f[T] = g[T]
<1>. DEFINE U == {T \in SUBSET S : f[T] # g[T]}
<1>1. SUFFICES ASSUME U # {} PROVE FALSE
  OBVIOUS
<1>2. \A T \in U : IsFiniteSet(T)
  BY FS_Subset
<1>3. PICK T \in U : Cardinality(T) \in Nat /\ \A V \in U : Cardinality(T) <= Cardinality(V)
  <2>. HIDE DEF U
  <2> QED BY <1>1, <1>2, SmallestSet
<1>4. T \in SUBSET S /\ f[T] # g[T]
  BY <1>3
<1>5. PICK x \in T : x = c[T] /\ f[T \ {x}] # g[T \ {x}]
  BY <1>4 DEF Chooses, Follow
<1>6. T \ {x} \in SUBSET S /\ Cardinality(T \ {x}) = Cardinality(T) - 1
  BY <1>4, Smaller
<1>7. T \ {x} \in U
  BY <1>5, <1>6
<1> QED BY <1>3, <1>6, <1>7

-----------------------------------------------------------------------------
(* Sums of numbers.                                                          *)
IsTally(f, w, S) ==
    f = [T \in SUBSET S |-> IF T = {} THEN 0
            ELSE LET x == CHOOSE x \in T : TRUE IN w[x] + f[T \ {x}]]

LEMMA SumByTally ==
    ASSUME NEW w, NEW S
    PROVE  SumFunctionOnSet(w, S) = (CHOOSE f : IsTally(f, w, S))[S]
BY DEF SumFunctionOnSet, FoldFunctionOnSet, MapThenFoldSet, IsTally

First(T) == CHOOSE x \in T : TRUE

LEMMA TallyExists ==
    ASSUME NEW S, IsFiniteSet(S), NEW w, \A x \in S : w[x] \in Nat
    PROVE  \E f \in [SUBSET S -> Nat] : IsTally(f, w, S)
<1>. DEFINE c == [T \in SUBSET S |-> First(T)]
            G == [x \in S |-> [n \in Nat |-> w[x] + n]]
<1>1. \A T \in SUBSET S : T # {} => c[T] \in T /\ c[T] = First(T)
  BY DEF First
<1>2. G \in [S -> [Nat -> Nat]]
  OBVIOUS
<1>3. \A x \in S : \A n \in Nat : G[x][n] = w[x] + n
  OBVIOUS
<1>. HIDE DEF c, G
<1>4. PICK f \in [SUBSET S -> Nat] : IsFold(f, S, 0, G, c)
  <2>1. Chooses(c, S)
    BY <1>1 DEF Chooses
  <2> QED BY <1>2, <2>1, FoldExists
<1>5. ASSUME NEW T \in SUBSET S, T # {} PROVE f[T] = w[First(T)] + f[T \ {First(T)}]
  <2>1. f[T] = G[c[T]][f[T \ {c[T]}]]
    BY <1>4, <1>5 DEF IsFold
  <2>2. c[T] = First(T) /\ First(T) \in S /\ f[T \ {First(T)}] \in Nat
    BY <1>1, <1>5
  <2> QED BY <1>3, <2>1, <2>2
<1>6. f[{}] = 0
  BY <1>4 DEF IsFold
<1>7. IsTally(f, w, S)
  <2>1. \A T \in SUBSET S : f[T] = IF T = {} THEN 0 ELSE w[First(T)] + f[T \ {First(T)}]
    BY <1>5, <1>6
  <2>2. f = [T \in SUBSET S |-> f[T]]
    OBVIOUS
  <2>3. f = [T \in SUBSET S |-> IF T = {} THEN 0 ELSE w[First(T)] + f[T \ {First(T)}]]
    BY <2>1
  <2> QED BY <2>3 DEF IsTally, First
<1> QED BY <1>7

(* A sum over a set is what any tally over a larger one says of it.          *)
LEMMA SumIsTallied ==
    ASSUME NEW S, IsFiniteSet(S), NEW w, \A x \in S : w[x] \in Nat,
           NEW f, IsTally(f, w, S), NEW R \in SUBSET S
    PROVE  SumFunctionOnSet(w, R) = f[R]
<1>1. IsFiniteSet(R) /\ \A x \in R : w[x] \in Nat
  BY FS_Subset
<1>2. PICK g : g = CHOOSE h : IsTally(h, w, R)
  OBVIOUS
<1>3. IsTally(g, w, R)
  BY <1>1, <1>2, TallyExists
<1>. DEFINE c == [T \in SUBSET R |-> First(T)]
<1>4. \A T \in SUBSET R : T # {} => c[T] \in T /\ c[T] = First(T)
  BY DEF First
<1>. HIDE DEF c
<1>0. Chooses(c, R)
  BY <1>4 DEF Chooses
<1>5. ASSUME NEW T \in SUBSET R, T # {} => f[T \ {c[T]}] = g[T \ {c[T]}] PROVE f[T] = g[T]
  <2>1. f[T] = IF T = {} THEN 0 ELSE w[First(T)] + f[T \ {First(T)}]
    <3>1. T \in SUBSET S
      OBVIOUS
    <3> QED BY <3>1 DEF IsTally, First
  <2>2. g[T] = IF T = {} THEN 0 ELSE w[First(T)] + g[T \ {First(T)}]
    BY <1>3 DEF IsTally, First
  <2>3. T # {} => c[T] = First(T)
    BY <1>4
  <2> QED BY <1>5, <2>1, <2>2, <2>3
<1>6. \A T \in SUBSET R : f[T] = g[T]
  <2>1. Follow(f, g, c, R)
    BY <1>5 DEF Follow
  <2> QED BY <1>0, <1>1, <2>1, FoldsAgree
<1>7. SumFunctionOnSet(w, R) = g[R]
  BY <1>2, SumByTally
<1> QED BY <1>6, <1>7

(* The two facts every other rests on.                                       *)
LEMMA SumOfNone == ASSUME NEW w PROVE SumFunctionOnSet(w, {}) = 0
<1>1. IsFiniteSet({})
  BY FS_EmptySet
<1>2. PICK f \in [SUBSET {} -> Nat] : IsTally(f, w, {})
  BY <1>1, TallyExists
<1>3. f[{}] = 0
  BY <1>2 DEF IsTally
<1> QED BY <1>1, <1>2, <1>3, SumIsTallied

LEMMA SumOfFirst ==
    ASSUME NEW S, IsFiniteSet(S), NEW w, \A x \in S : w[x] \in Nat, S # {}
    PROVE  SumFunctionOnSet(w, S) = w[First(S)] + SumFunctionOnSet(w, S \ {First(S)})
<1>1. PICK f \in [SUBSET S -> Nat] : IsTally(f, w, S)
  BY TallyExists
<1>2. f[S] = w[First(S)] + f[S \ {First(S)}]
  BY <1>1 DEF IsTally, First
<1>3. SumFunctionOnSet(w, S) = f[S] /\ SumFunctionOnSet(w, S \ {First(S)}) = f[S \ {First(S)}]
  BY <1>1, SumIsTallied
<1> QED BY <1>2, <1>3

LEMMA SumType ==
    ASSUME NEW S, IsFiniteSet(S), NEW w, \A x \in S : w[x] \in Nat
    PROVE  SumFunctionOnSet(w, S) \in Nat
<1>1. PICK f \in [SUBSET S -> Nat] : IsTally(f, w, S)
  BY TallyExists
<1> QED BY <1>1, SumIsTallied

(* Any element can be the first.                                             *)
LEMMA SumWithout ==
    ASSUME NEW S, IsFiniteSet(S), NEW w, \A x \in S : w[x] \in Nat, NEW x \in S
    PROVE  SumFunctionOnSet(w, S) = w[x] + SumFunctionOnSet(w, S \ {x})
<1>. DEFINE U == {T \in SUBSET S :
                    \E y \in T : SumFunctionOnSet(w, T) # w[y] + SumFunctionOnSet(w, T \ {y})}
<1>1. SUFFICES ASSUME U # {} PROVE FALSE
  OBVIOUS
<1>2. \A T \in U : IsFiniteSet(T)
  BY FS_Subset
<1>3. PICK T \in U : Cardinality(T) \in Nat /\ \A V \in U : Cardinality(T) <= Cardinality(V)
  <2>. HIDE DEF U
  <2> QED BY <1>1, <1>2, SmallestSet
<1>4. PICK y \in T : SumFunctionOnSet(w, T) # w[y] + SumFunctionOnSet(w, T \ {y})
  BY <1>3
<1>5. T \in SUBSET S /\ IsFiniteSet(T) /\ T # {} /\ \A z \in T : w[z] \in Nat
  BY <1>2, <1>3, <1>4
<1>6. PICK z \in T : z = First(T)
  BY <1>5 DEF First
<1>7. SumFunctionOnSet(w, T) = w[z] + SumFunctionOnSet(w, T \ {z})
  BY <1>5, <1>6, SumOfFirst
<1>8. z # y /\ y \in T \ {z} /\ z \in T \ {y}
  BY <1>4, <1>7
<1>9. /\ T \ {z} \in SUBSET S /\ Cardinality(T \ {z}) = Cardinality(T) - 1
      /\ T \ {y} \in SUBSET S /\ Cardinality(T \ {y}) = Cardinality(T) - 1
  BY <1>5, Smaller
<1>10. T \ {z} \notin U /\ T \ {y} \notin U
  BY <1>3, <1>9
<1>11. SumFunctionOnSet(w, T \ {z}) = w[y] + SumFunctionOnSet(w, (T \ {z}) \ {y})
  BY <1>8, <1>9, <1>10
<1>12. SumFunctionOnSet(w, T \ {y}) = w[z] + SumFunctionOnSet(w, (T \ {y}) \ {z})
  BY <1>8, <1>9, <1>10
<1>13. (T \ {z}) \ {y} = (T \ {y}) \ {z}
  OBVIOUS
<1>14. SumFunctionOnSet(w, (T \ {y}) \ {z}) \in Nat /\ w[y] \in Nat /\ w[z] \in Nat
  <2>1. (T \ {y}) \ {z} \in SUBSET S
    BY <1>5
  <2>2. IsFiniteSet((T \ {y}) \ {z}) /\ \A v \in (T \ {y}) \ {z} : w[v] \in Nat
    BY <2>1, FS_Subset
  <2> QED BY <1>5, <1>6, <2>2, SumType
<1> QED BY <1>4, <1>7, <1>11, <1>12, <1>13, <1>14

LEMMA SumWith ==
    ASSUME NEW S, IsFiniteSet(S), NEW x, x \notin S, NEW w, \A y \in S \cup {x} : w[y] \in Nat
    PROVE  SumFunctionOnSet(w, S \cup {x}) = w[x] + SumFunctionOnSet(w, S)
<1>1. IsFiniteSet(S \cup {x}) /\ (S \cup {x}) \ {x} = S
  BY FS_AddElement
<1>2. x \in S \cup {x}
  OBVIOUS
<1> QED BY <1>1, <1>2, SumWithout

(* A sum moves along an injection, so over equal values it is equal.         *)
Moves(f, w, v, S) ==
    /\ \A x \in S : w[x] \in Nat /\ v[f[x]] = w[x]
    /\ \A x, y \in S : f[x] = f[y] => x = y

LEMMA SumMoves ==
    ASSUME NEW S, IsFiniteSet(S), NEW w, NEW v, NEW f, Moves(f, w, v, S)
    PROVE  SumFunctionOnSet(v, {f[x] : x \in S}) = SumFunctionOnSet(w, S)
<1>. DEFINE U == {T \in SUBSET S : SumFunctionOnSet(v, {f[x] : x \in T}) # SumFunctionOnSet(w, T)}
<1>0. /\ \A x \in S : w[x] \in Nat /\ v[f[x]] = w[x]
      /\ \A x, y \in S : f[x] = f[y] => x = y
  BY DEF Moves
<1>1. SUFFICES ASSUME U # {} PROVE FALSE
  <2>1. S \notin U
    OBVIOUS
  <2> QED BY <2>1
<1>2. \A T \in U : IsFiniteSet(T)
  BY FS_Subset
<1>3. PICK T \in U : Cardinality(T) \in Nat /\ \A V \in U : Cardinality(T) <= Cardinality(V)
  <2>. HIDE DEF U
  <2> QED BY <1>1, <1>2, SmallestSet
<1>4. T \in SUBSET S /\ IsFiniteSet(T)
  BY <1>2, <1>3
<1>5. CASE T = {}
  <2>1. {f[x] : x \in T} = {}
    BY <1>5
  <2> QED BY <1>3, <1>5, <2>1, SumOfNone
<1>6. CASE T # {}
  <2>1. PICK x \in T : TRUE
    BY <1>6
  <2>2. PICK V : V = T \ {x}
    OBVIOUS
  <2>3. V \in SUBSET S /\ IsFiniteSet(V) /\ Cardinality(V) = Cardinality(T) - 1
    BY <1>4, <2>2, Smaller
  <2>4. V \notin U
    BY <1>3, <2>3
  <2>5. SumFunctionOnSet(v, {f[y] : y \in V}) = SumFunctionOnSet(w, V)
    BY <2>3, <2>4
  <2>6. SumFunctionOnSet(w, T) = w[x] + SumFunctionOnSet(w, V)
    BY <1>0, <1>4, <2>2, SumWithout
  <2>7. {f[y] : y \in T} = {f[y] : y \in V} \cup {f[x]} /\ f[x] \notin {f[y] : y \in V}
    BY <1>0, <1>4, <2>1, <2>2
  <2>8. IsFiniteSet({f[y] : y \in V})
    <3>1. [y \in V |-> f[y]] \in Surjection(V, {f[y] : y \in V})
      BY DEF Surjection
    <3> QED BY <2>3, <3>1, FS_Surjection
  <2>9. PICK I : I = {f[y] : y \in V}
    OBVIOUS
  <2>10. \A z \in I \cup {f[x]} : v[z] \in Nat
    BY <1>0, <1>4, <2>3, <2>9
  <2>11. SumFunctionOnSet(v, I \cup {f[x]}) = v[f[x]] + SumFunctionOnSet(v, I)
    BY <2>7, <2>8, <2>9, <2>10, SumWith
  <2> QED BY <1>0, <1>3, <1>4, <2>5, <2>6, <2>7, <2>9, <2>11
<1> QED BY <1>5, <1>6

(* A sum over a set is the sum over a part and over the rest.                *)
LEMMA SumSplits ==
    ASSUME NEW S, IsFiniteSet(S), NEW w, \A x \in S : w[x] \in Nat, NEW R \in SUBSET S
    PROVE  /\ SumFunctionOnSet(w, S) = SumFunctionOnSet(w, R) + SumFunctionOnSet(w, S \ R)
           /\ SumFunctionOnSet(w, R) \in Nat /\ SumFunctionOnSet(w, S \ R) \in Nat
<1>. DEFINE U == {T \in SUBSET R :
                    SumFunctionOnSet(w, S) # SumFunctionOnSet(w, T) + SumFunctionOnSet(w, S \ T)}
<1>0. ASSUME NEW T \in SUBSET S PROVE SumFunctionOnSet(w, T) \in Nat /\ SumFunctionOnSet(w, S \ T) \in Nat
  <2>1. IsFiniteSet(T) /\ IsFiniteSet(S \ T)
    BY FS_Subset
  <2> QED BY <2>1, SumType
<1>1. SUFFICES ASSUME U # {} PROVE FALSE
  <2>1. R \notin U
    OBVIOUS
  <2> QED BY <1>0, <2>1
<1>2. \A T \in U : IsFiniteSet(T)
  BY FS_Subset
<1>3. PICK T \in U : Cardinality(T) \in Nat /\ \A V \in U : Cardinality(T) <= Cardinality(V)
  <2>. HIDE DEF U
  <2> QED BY <1>1, <1>2, SmallestSet
<1>4. T \in SUBSET S /\ IsFiniteSet(T)
  BY <1>2, <1>3
<1>5. CASE T = {}
  <2>1. S \ T = S /\ SumFunctionOnSet(w, T) = 0 /\ SumFunctionOnSet(w, S) \in Nat
    BY <1>5, SumOfNone, SumType
  <2> QED BY <1>3, <2>1
<1>6. CASE T # {}
  <2>1. PICK x \in T : TRUE
    BY <1>6
  <2>2. PICK V : V = T \ {x}
    OBVIOUS
  <2>3. V \in SUBSET S /\ V \in SUBSET R /\ Cardinality(V) = Cardinality(T) - 1
    BY <1>4, <2>2, Smaller
  <2>4. SumFunctionOnSet(w, S) = SumFunctionOnSet(w, V) + SumFunctionOnSet(w, S \ V)
    BY <1>3, <2>3
  <2>5. SumFunctionOnSet(w, T) = w[x] + SumFunctionOnSet(w, V)
    BY <1>4, <2>2, SumWithout
  <2>6. S \ V \in SUBSET S /\ x \in S \ V /\ S \ T = (S \ V) \ {x}
    BY <1>4, <2>1, <2>2
  <2>7. SumFunctionOnSet(w, S \ V) = w[x] + SumFunctionOnSet(w, S \ T)
    <3>1. IsFiniteSet(S \ V)
      BY <2>6, FS_Subset
    <3> QED BY <2>6, <3>1, SumWithout
  <2>8. /\ SumFunctionOnSet(w, T) \in Nat /\ SumFunctionOnSet(w, S \ T) \in Nat
        /\ SumFunctionOnSet(w, V) \in Nat /\ SumFunctionOnSet(w, S \ V) \in Nat /\ w[x] \in Nat
    BY <1>0, <1>4, <2>3
  <2> QED BY <1>3, <2>4, <2>5, <2>7, <2>8
<1> QED BY <1>5, <1>6

(* Equal weights give equal sums.                                            *)
LEMMA SumSame ==
    ASSUME NEW S, IsFiniteSet(S), NEW w, NEW v, \A x \in S : w[x] \in Nat /\ v[x] = w[x]
    PROVE  SumFunctionOnSet(v, S) = SumFunctionOnSet(w, S)
<1>. DEFINE f == [x \in S |-> x]
<1>1. {f[x] : x \in S} = S /\ \A x \in S : f[x] = x
  OBVIOUS
<1>. HIDE DEF f
<1>2. SumFunctionOnSet(v, {f[x] : x \in S}) = SumFunctionOnSet(w, S)
  <2>1. Moves(f, w, v, S)
    BY <1>1 DEF Moves
  <2> QED BY <2>1, SumMoves
<1> QED BY <1>1, <1>2

LEMMA SumIsAll == ASSUME NEW w PROVE SumFunction(w) = SumFunctionOnSet(w, DOMAIN w)
BY DEF SumFunction, SumFunctionOnSet, FoldFunction

-----------------------------------------------------------------------------
(* Parts of sequences.                                                       *)

LEMMA Interval ==
    ASSUME NEW n \in Nat
    PROVE  IsFiniteSet(1..n) /\ Cardinality(1..n) = n
<1>1. 1 \in Int /\ n \in Int
  OBVIOUS
<1>2. IsFiniteSet(1..n) /\ Cardinality(1..n) = IF 1 > n THEN 0 ELSE n - 1 + 1
  BY <1>1, FS_Interval
<1> QED BY <1>2

UpTo(P, i) == {j \in P : j <= i}

LEMMA Positions ==
    ASSUME NEW P, P \subseteq Nat, IsFiniteSet(P)
    PROVE  /\ Cardinality(P) \in Nat
           /\ \A i \in P : Cardinality(UpTo(P, i)) \in 1..Cardinality(P)
           /\ \A i, j \in P : Cardinality(UpTo(P, i)) = Cardinality(UpTo(P, j)) => i = j
<1>1. ASSUME NEW i PROVE /\ UpTo(P, i) \in SUBSET P /\ IsFiniteSet(UpTo(P, i))
                         /\ Cardinality(UpTo(P, i)) \in Nat
                         /\ Cardinality(UpTo(P, i)) <= Cardinality(P)
  <2>1. UpTo(P, i) \in SUBSET P
    BY DEF UpTo
  <2> QED BY <2>1, FS_Subset, FS_CardinalityType
<1>2. Cardinality(P) \in Nat
  BY FS_CardinalityType
<1>3. ASSUME NEW i \in P PROVE Cardinality(UpTo(P, i)) # 0
  <2>1. i \in UpTo(P, i)
    BY DEF UpTo
  <2> QED BY <1>1, <2>1, FS_EmptySet
<1>4. ASSUME NEW i \in P, NEW j \in P, i < j
      PROVE  Cardinality(UpTo(P, i)) # Cardinality(UpTo(P, j))
  <2>1. UpTo(P, i) \in SUBSET UpTo(P, j)
    <3>1. \A n \in P : n <= i => n <= j
      BY <1>4
    <3> QED BY <3>1, Zenon DEF UpTo
  <2>2. j \in UpTo(P, j) /\ j \notin UpTo(P, i)
    BY <1>4 DEF UpTo
  <2> QED BY <1>1, <2>1, <2>2, FS_Subset
<1>5. \A i, j \in P : Cardinality(UpTo(P, i)) = Cardinality(UpTo(P, j)) => i = j
  BY <1>4
<1> QED BY <1>1, <1>2, <1>3, <1>5

(* The positions, numbered from the lowest on: each has one number.          *)
LEMMA NthPositions ==
    ASSUME NEW P, P \subseteq Nat, IsFiniteSet(P)
    PROVE  /\ Cardinality(P) \in Nat
           /\ \A n \in 1..Cardinality(P) : nth(P, n) \in P
           /\ \A n, m \in 1..Cardinality(P) : nth(P, n) = nth(P, m) => n = m
           /\ \A i \in P : \E n \in 1..Cardinality(P) : nth(P, n) = i
           /\ \A i \in P : nth(P, Cardinality(UpTo(P, i))) = i
<1>. DEFINE N == 1..Cardinality(P)
            f == [i \in P |-> Cardinality(UpTo(P, i))]
<1>1. Cardinality(P) \in Nat /\ IsFiniteSet(N) /\ Cardinality(N) = Cardinality(P)
  <2>1. PICK n \in Nat : n = Cardinality(P)
    BY Positions
  <2> QED BY <2>1, Interval
<1>2. f \in Injection(P, N)
  BY Positions DEF Injection, IsInjective
<1>3. \A n \in N : \E i \in P : Cardinality(UpTo(P, i)) = n
  <2>1. f \in Surjection(P, N)
    <3>. HIDE DEF f, N
    <3> QED BY <1>1, <1>2, FS_Injection
  <2> QED BY <2>1 DEF Surjection
<1>4. \A n \in N : nth(P, n) \in P /\ Cardinality(UpTo(P, nth(P, n))) = n
  BY <1>3 DEF nth, UpTo
<1>5. \A i \in P : Cardinality(UpTo(P, i)) \in N /\ nth(P, Cardinality(UpTo(P, i))) = i
  <2>1. SUFFICES ASSUME NEW i \in P
                 PROVE  Cardinality(UpTo(P, i)) \in N /\ nth(P, Cardinality(UpTo(P, i))) = i
    OBVIOUS
  <2>2. Cardinality(UpTo(P, i)) \in N
    BY Positions
  <2> QED BY <1>4, <2>2, Positions
<1> QED BY <1>1, <1>4, <1>5

(* What Picked keeps: a sequence of the elements at the positions, no two    *)
(* of them from one position.                                                *)
IsPicked(t, s, P) ==
    /\ Cardinality(P) \in Nat /\ Cardinality(P) <= Len(s) /\ IsFiniteSet(P)
    /\ Len(t) = Cardinality(P) /\ DOMAIN t = 1..Cardinality(P)
    /\ \A n \in 1..Cardinality(P) : nth(P, n) \in P /\ t[n] = s[nth(P, n)]
    /\ \A n, m \in 1..Cardinality(P) : nth(P, n) = nth(P, m) => n = m
    /\ \A i \in P : \E n \in 1..Cardinality(P) : nth(P, n) = i

LEMMA PickedKeeps ==
    ASSUME NEW T, NEW s \in Seq(T), NEW P \in SUBSET (1..Len(s))
    PROVE  Picked(s, P) \in Seq(T) /\ IsPicked(Picked(s, P), s, P)
<1>0. Len(s) \in Nat /\ P \subseteq Nat /\ \A i \in 1..Len(s) : s[i] \in T
  OBVIOUS
<1>1. PICK D : D = 1..Len(s) /\ IsFiniteSet(D) /\ Cardinality(D) = Len(s)
  <2>1. PICK n \in Nat : n = Len(s)
    BY <1>0
  <2> QED BY <2>1, Interval
<1>2. IsFiniteSet(P) /\ P \subseteq Nat /\ Cardinality(P) <= Len(s)
  BY <1>0, <1>1, FS_Subset
<1>3. /\ Cardinality(P) \in Nat
      /\ \A n \in 1..Cardinality(P) : nth(P, n) \in P
      /\ \A n, m \in 1..Cardinality(P) : nth(P, n) = nth(P, m) => n = m
      /\ \A i \in P : \E n \in 1..Cardinality(P) : nth(P, n) = i
  BY <1>2, NthPositions
<1>4. \A n \in 1..Cardinality(P) : s[nth(P, n)] \in T
  BY <1>0, <1>3
<1>5. Picked(s, P) \in [1..Cardinality(P) -> T]
  BY <1>4 DEF Picked
<1>6. \A n \in 1..Cardinality(P) : Picked(s, P)[n] = s[nth(P, n)]
  BY DEF Picked
<1>7. Picked(s, P) \in Seq(T) /\ Len(Picked(s, P)) = Cardinality(P)
      /\ DOMAIN Picked(s, P) = 1..Cardinality(P)
  BY <1>3, <1>5
<1> QED BY <1>2, <1>3, <1>6, <1>7 DEF IsPicked

(* The sum of what Picked keeps is the sum over its positions.               *)
WeighsPicked(v, w, P) ==
    /\ DOMAIN v = 1..Cardinality(P) /\ \A i \in 1..Cardinality(P) : v[i] = w[nth(P, i)]
    /\ \A i \in P : w[i] \in Nat

LEMMA PickedSum ==
    ASSUME NEW n \in Nat, NEW P \in SUBSET (1..n), NEW w, NEW v, WeighsPicked(v, w, P)
    PROVE  SumFunctionOnSet(v, DOMAIN v) = SumFunctionOnSet(w, P)
<1>0. /\ DOMAIN v = 1..Cardinality(P) /\ \A i \in 1..Cardinality(P) : v[i] = w[nth(P, i)]
      /\ \A i \in P : w[i] \in Nat
  BY DEF WeighsPicked
<1>1. IsFiniteSet(P) /\ P \subseteq Nat
  <2>1. PICK D : D = 1..n /\ IsFiniteSet(D)
    BY Interval
  <2>2. P \in SUBSET D /\ P \subseteq Nat
    BY <2>1
  <2> QED BY <2>1, <2>2, FS_Subset
<1>2. /\ Cardinality(P) \in Nat
      /\ \A i \in 1..Cardinality(P) : nth(P, i) \in P
      /\ \A i, j \in 1..Cardinality(P) : nth(P, i) = nth(P, j) => i = j
      /\ \A i \in P : \E m \in 1..Cardinality(P) : nth(P, m) = i
  BY <1>1, NthPositions
<1>. DEFINE f == [i \in 1..Cardinality(P) |-> nth(P, i)]
<1>3. \A i \in 1..Cardinality(P) : f[i] = nth(P, i)
  OBVIOUS
<1>. HIDE DEF f
<1>4. {f[i] : i \in 1..Cardinality(P)} = P
  <2>1. \A i \in 1..Cardinality(P) : f[i] \in P
    BY <1>2, <1>3
  <2>2. \A i \in P : \E m \in 1..Cardinality(P) : f[m] = i
    BY <1>2, <1>3
  <2> QED BY <2>1, <2>2
<1>5. IsFiniteSet(1..Cardinality(P))
  <2>1. PICK m \in Nat : m = Cardinality(P)
    BY <1>2
  <2> QED BY <2>1, Interval
<1>6. \A i \in 1..Cardinality(P) : v[i] \in Nat /\ w[f[i]] = v[i]
  BY <1>0, <1>2, <1>3
<1>7. \A i, j \in 1..Cardinality(P) : f[i] = f[j] => i = j
  BY <1>2, <1>3
<1>8. SumFunctionOnSet(w, {f[i] : i \in 1..Cardinality(P)}) = SumFunctionOnSet(v, 1..Cardinality(P))
  <2>1. PICK D : D = 1..Cardinality(P)
    OBVIOUS
  <2>2. IsFiniteSet(D) /\ Moves(f, v, w, D)
    BY <1>5, <1>6, <1>7, <2>1 DEF Moves
  <2>3. SumFunctionOnSet(w, {f[i] : i \in D}) = SumFunctionOnSet(v, D)
    BY <2>2, SumMoves
  <2> QED BY <2>1, <2>3
<1> QED BY <1>0, <1>4, <1>8

(* The sum of a longer sequence.                                             *)
LEMMA SumGrows ==
    ASSUME NEW n \in Nat, NEW w, \A i \in 1..(n + 1) : w[i] \in Nat,
           NEW v, \A i \in 1..n : v[i] = w[i]
    PROVE  SumFunctionOnSet(w, 1..(n + 1)) = w[n + 1] + SumFunctionOnSet(v, 1..n)
<1>1. IsFiniteSet(1..n) /\ n + 1 \notin 1..n /\ 1..(n + 1) = (1..n) \cup {n + 1}
  BY Interval
<1>2. SumFunctionOnSet(w, (1..n) \cup {n + 1}) = w[n + 1] + SumFunctionOnSet(w, 1..n)
  <2>1. PICK D, x : D = 1..n /\ x = n + 1
    OBVIOUS
  <2>2. \A y \in D \cup {x} : w[y] \in Nat
    BY <1>1, <2>1
  <2>3. SumFunctionOnSet(w, D \cup {x}) = w[x] + SumFunctionOnSet(w, D)
    BY <1>1, <2>1, <2>2, SumWith
  <2> QED BY <2>1, <2>3
<1>3. SumFunctionOnSet(v, 1..n) = SumFunctionOnSet(w, 1..n)
  BY <1>1, SumSame
<1> QED BY <1>1, <1>2, <1>3

(* As many different values as positions.                                    *)
LEMMA OneEach ==
    ASSUME NEW n \in Nat, NEW f, DOMAIN f = 1..n,
           \A i, j \in 1..n : f[i] = f[j] => i = j
    PROVE  Cardinality({f[i] : i \in 1..n}) = n
<1>1. PICK V : V = {f[i] : i \in 1..n}
  OBVIOUS
<1>. DEFINE g == [i \in 1..n |-> f[i]]
<1>2. g \in Bijection(1..n, V)
  BY <1>1 DEF Bijection, Injection, Surjection, IsInjective
<1>3. IsFiniteSet(1..n) /\ Cardinality(1..n) = n
  BY Interval
<1>. HIDE DEF g
<1>4. Cardinality(V) = n
  <2>1. PICK D : D = 1..n
    OBVIOUS
  <2>2. IsFiniteSet(D) /\ Cardinality(D) = n /\ ExistsBijection(D, V)
    BY <1>2, <1>3, <2>1 DEF ExistsBijection
  <2> QED BY <2>2, FS_Bijection
<1> QED BY <1>1, <1>4
-----------------------------------------------------------------------------
(* What the entries of a sequence weigh, W giving the weight of each.        *)
Weight(W, s, P) == SumFunctionOnSet([i \in DOMAIN s |-> W[s[i]]], P)

LEMMA Weights ==
    ASSUME NEW T, NEW W \in [T -> Nat], NEW s \in Seq(T)
    PROVE  /\ DOMAIN s = 1..Len(s) /\ Len(s) \in Nat /\ IsFiniteSet(DOMAIN s)
           /\ \A i \in DOMAIN s : s[i] \in T /\ W[s[i]] \in Nat
<1>1. DOMAIN s = 1..Len(s) /\ Len(s) \in Nat /\ \A i \in DOMAIN s : s[i] \in T
  OBVIOUS
<1>2. IsFiniteSet(DOMAIN s)
  <2>1. PICK n \in Nat : n = Len(s)
    BY <1>1
  <2> QED BY <1>1, <2>1, Interval
<1> QED BY <1>1, <1>2

LEMMA WeightAdds ==
    ASSUME NEW T, NEW W \in [T -> Nat], NEW s \in Seq(T),
           NEW Q \in SUBSET (DOMAIN s), NEW P \in SUBSET Q
    PROVE  /\ Weight(W, s, Q) = Weight(W, s, P) + Weight(W, s, Q \ P)
           /\ Weight(W, s, P) \in Nat /\ Weight(W, s, Q \ P) \in Nat /\ Weight(W, s, Q) \in Nat
<1>1. PICK w : w = [i \in DOMAIN s |-> W[s[i]]]
  OBVIOUS
<1>2. IsFiniteSet(Q) /\ \A i \in Q : w[i] \in Nat
  BY <1>1, Weights, FS_Subset
<1>3. /\ SumFunctionOnSet(w, Q) = SumFunctionOnSet(w, P) + SumFunctionOnSet(w, Q \ P)
      /\ SumFunctionOnSet(w, P) \in Nat /\ SumFunctionOnSet(w, Q \ P) \in Nat
  BY <1>2, SumSplits
<1> QED BY <1>1, <1>3 DEF Weight

LEMMA WeightPicked ==
    ASSUME NEW T, NEW W \in [T -> Nat], NEW s \in Seq(T), NEW P \in SUBSET (DOMAIN s)
    PROVE  Weight(W, Picked(s, P), DOMAIN Picked(s, P)) = Weight(W, s, P)
<1>1. PICK t, w : t = Picked(s, P) /\ w = [i \in DOMAIN s |-> W[s[i]]]
  OBVIOUS
<1>2. PICK v : v = [i \in DOMAIN t |-> W[t[i]]]
  OBVIOUS
<1>3. PICK n \in Nat : n = Len(s) /\ DOMAIN s = 1..n
  OBVIOUS
<1>4. P \in SUBSET (1..n) /\ \A i \in 1..n : w[i] \in Nat
  BY <1>1, <1>3, Weights
<1>5. t \in Seq(T) /\ IsPicked(t, s, P)
  BY <1>1, <1>3, <1>4, PickedKeeps
<1>6. WeighsPicked(v, w, P)
  BY <1>1, <1>2, <1>3, <1>4, <1>5 DEF WeighsPicked, IsPicked
<1>7. SumFunctionOnSet(v, DOMAIN v) = SumFunctionOnSet(w, P)
  <2>1. n \in Nat /\ P \in SUBSET (1..n)
    BY <1>4
  <2> QED BY <1>6, <2>1, PickedSum
<1>8. Weight(W, t, DOMAIN t) = SumFunctionOnSet(v, DOMAIN v)
  BY <1>2 DEF Weight
<1>9. Weight(W, s, P) = SumFunctionOnSet(w, P)
  BY <1>1 DEF Weight
<1>10. Weight(W, t, DOMAIN t) = Weight(W, s, P)
  BY <1>7, <1>8, <1>9
<1> QED BY <1>1, <1>10

LEMMA WeightAppended ==
    ASSUME NEW T, NEW W \in [T -> Nat], NEW s \in Seq(T), NEW e \in T
    PROVE  Weight(W, Append(s, e), DOMAIN Append(s, e)) = Weight(W, s, DOMAIN s) + W[e]
<1>. DEFINE t == Append(s, e)
            v == [i \in DOMAIN s |-> W[s[i]]]
            w == [i \in DOMAIN t |-> W[t[i]]]
<1>1. PICK n \in Nat : n = Len(s)
  OBVIOUS
<1>2. /\ t \in Seq(T) /\ DOMAIN t = 1..(n + 1) /\ DOMAIN s = 1..n
      /\ \A i \in 1..n : t[i] = s[i]
      /\ t[n + 1] = e
  BY <1>1
<1>3. /\ \A i \in 1..(n + 1) : w[i] \in Nat
      /\ \A i \in 1..n : v[i] = w[i]
      /\ w[n + 1] = W[e] /\ W[e] \in Nat
  <2>1. \A i \in 1..(n + 1) : t[i] \in T
    BY <1>2
  <2>. HIDE DEF t
  <2> QED BY <1>1, <1>2, <2>1
<1>4. Weight(W, t, DOMAIN t) = SumFunctionOnSet(w, 1..(n + 1)) /\ Weight(W, s, DOMAIN s) = SumFunctionOnSet(v, 1..n)
  BY <1>2 DEF Weight
<1>5. Weight(W, s, DOMAIN s) \in Nat
  <2>1. PICK D : D = DOMAIN s
    OBVIOUS
  <2>2. {} \in SUBSET D
    OBVIOUS
  <2> QED BY <2>1, <2>2, WeightAdds
<1>. HIDE DEF w, v, t
<1>6. SumFunctionOnSet(w, 1..(n + 1)) = w[n + 1] + SumFunctionOnSet(v, 1..n)
  BY <1>3, SumGrows
<1> QED BY <1>3, <1>4, <1>5, <1>6 DEF t

LEMMA WeightOfOne ==
    ASSUME NEW T, NEW W \in [T -> Nat], NEW s \in Seq(T), NEW i \in DOMAIN s
    PROVE  Weight(W, s, {i}) = W[s[i]] /\ Weight(W, s, {}) = 0
<1>1. PICK S, w : S = {i} /\ w = [j \in DOMAIN s |-> W[s[j]]]
  OBVIOUS
<1>2. w[i] = W[s[i]] /\ W[s[i]] \in Nat /\ Weight(W, s, {i}) = SumFunctionOnSet(w, S)
  BY <1>1, Weights DEF Weight
<1>3. IsFiniteSet(S) /\ i \in S /\ \A x \in S : w[x] \in Nat
  BY <1>1, <1>2, FS_Singleton
<1>4. SumFunctionOnSet(w, S) = w[i] + SumFunctionOnSet(w, S \ {i})
  BY <1>3, SumWithout
<1>5. S \ {i} = {}
  BY <1>1
<1>6. SumFunctionOnSet(w, S \ {i}) = 0 /\ Weight(W, s, {}) = 0
  BY <1>5, SumOfNone DEF Weight
<1> QED BY <1>2, <1>4, <1>6

(* What is picked at one position.                                           *)
LEMMA PickedOne ==
    ASSUME NEW T, NEW s \in Seq(T), NEW i \in DOMAIN s
    PROVE  Picked(s, {i}) = <<s[i]>>
<1>1. PICK P : P = {i}
  OBVIOUS
<1>2. IsFiniteSet(P) /\ Cardinality(P) = 1 /\ P \in SUBSET (1..Len(s))
  <2>1. IsFiniteSet({i}) /\ Cardinality({i}) = 1
    BY FS_Singleton
  <2>2. P \in SUBSET (1..Len(s))
    BY <1>1
  <2> QED BY <1>1, <2>1, <2>2
<1>3. Picked(s, P) \in Seq(T) /\ IsPicked(Picked(s, P), s, P)
  BY <1>2, PickedKeeps
<1>4. PICK t : t = Picked(s, P)
  OBVIOUS
<1>5. t \in Seq(T) /\ Len(t) = 1 /\ t[1] = s[i]
  <2>1. /\ Len(t) = Cardinality(P)
        /\ \A n \in 1..Cardinality(P) : nth(P, n) \in P /\ t[n] = s[nth(P, n)]
    BY <1>3, <1>4 DEF IsPicked
  <2>2. 1 \in 1..Cardinality(P)
    BY <1>2
  <2>3. nth(P, 1) = i
    BY <1>1, <2>1, <2>2
  <2> QED BY <1>2, <1>3, <1>4, <2>1, <2>2, <2>3
<1> QED BY <1>1, <1>4, <1>5

-----------------------------------------------------------------------------
(* Comparing sums.                                                           *)

LEMMA SumAtMost ==
    ASSUME NEW S, IsFiniteSet(S), NEW w, NEW v,
           \A x \in S : w[x] \in Nat /\ v[x] \in Nat /\ w[x] <= v[x]
    PROVE  /\ SumFunctionOnSet(w, S) \in Nat /\ SumFunctionOnSet(v, S) \in Nat
           /\ SumFunctionOnSet(w, S) <= SumFunctionOnSet(v, S)
<1>. DEFINE U == {T \in SUBSET S : ~(SumFunctionOnSet(w, T) <= SumFunctionOnSet(v, T))}
<1>0. SumFunctionOnSet(w, S) \in Nat /\ SumFunctionOnSet(v, S) \in Nat
  BY SumType
<1>1. SUFFICES ASSUME U # {} PROVE FALSE
  <2>1. S \notin U
    OBVIOUS
  <2> QED BY <1>0, <2>1
<1>2. \A T \in U : IsFiniteSet(T)
  BY FS_Subset
<1>3. PICK T \in U : Cardinality(T) \in Nat /\ \A V \in U : Cardinality(T) <= Cardinality(V)
  <2>. HIDE DEF U
  <2> QED BY <1>1, <1>2, SmallestSet
<1>4. T \in SUBSET S /\ IsFiniteSet(T) /\ ~(SumFunctionOnSet(w, T) <= SumFunctionOnSet(v, T))
  BY <1>2, <1>3
<1>5. T # {}
  BY <1>4, SumOfNone
<1>6. PICK x \in T : TRUE
  BY <1>5
<1>7. PICK V : V = T \ {x}
  OBVIOUS
<1>8. V \in SUBSET S /\ IsFiniteSet(V) /\ Cardinality(V) = Cardinality(T) - 1
  BY <1>4, <1>7, Smaller
<1>9. SumFunctionOnSet(w, V) <= SumFunctionOnSet(v, V)
  BY <1>3, <1>8
<1>10. /\ SumFunctionOnSet(w, T) = w[x] + SumFunctionOnSet(w, V)
       /\ SumFunctionOnSet(v, T) = v[x] + SumFunctionOnSet(v, V)
  <2>1. \A y \in T : w[y] \in Nat /\ v[y] \in Nat
    BY <1>4
  <2> QED BY <1>4, <1>7, <2>1, SumWithout
<1>11. SumFunctionOnSet(w, V) \in Nat /\ SumFunctionOnSet(v, V) \in Nat
  BY <1>8, SumType
<1>12. w[x] \in Nat /\ v[x] \in Nat /\ w[x] <= v[x]
  BY <1>4
<1> QED BY <1>4, <1>9, <1>10, <1>11, <1>12

(* What a part of a sequence weighs, it weighed in the whole.                *)
IsPart(s, low, high) == low \in Nat \ {0} /\ high \in Nat /\ low <= high + 1 /\ high <= Len(s)

LEMMA WeightOfPart ==
    ASSUME NEW T, NEW W \in [T -> Nat], NEW s \in Seq(T), NEW low, NEW high, IsPart(s, low, high)
    PROVE  /\ SubSeq(s, low, high) \in Seq(T) /\ Len(SubSeq(s, low, high)) = high - low + 1
           /\ Weight(W, SubSeq(s, low, high), DOMAIN SubSeq(s, low, high)) = Weight(W, s, low..high)
<1>0. PICK t, a, n : t = SubSeq(s, low, high) /\ a \in Nat /\ n \in Nat /\ low = a + 1 /\ high = a + n
  <2>1. low - 1 \in Nat /\ high - low + 1 \in Nat /\ low = (low - 1) + 1 /\ high = (low - 1) + (high - low + 1)
    BY DEF IsPart
  <2> QED BY <2>1
<1>1. t \in Seq(T) /\ Len(t) = n /\ DOMAIN t = 1..n /\ \A i \in 1..n : t[i] = s[a + i]
  <2>1. t = SubSeq(s, a + 1, a + n) /\ a \in Nat /\ n \in Nat /\ a + n <= Len(s)
    BY <1>0 DEF IsPart
  <2>2. n = (a + n) - (a + 1) + 1
    BY <2>1
  <2> QED BY <2>1, <2>2
<1>2. PICK w, v : w = [i \in DOMAIN t |-> W[t[i]]] /\ v = [i \in DOMAIN s |-> W[s[i]]]
  OBVIOUS
<1>3. PICK D, f : D = 1..n /\ f = [i \in 1..n |-> a + i]
  OBVIOUS
<1>4. \A i \in D : f[i] = a + i /\ f[i] \in DOMAIN s /\ i \in DOMAIN t /\ t[i] = s[a + i] /\ t[i] \in T
  <2>1. PICK k \in Nat : k = Len(s) /\ DOMAIN s = 1..k
    OBVIOUS
  <2>2. \A i \in 1..n : a + i \in 1..k
    <3>1. a \in Nat /\ n \in Nat /\ a + n <= k
      BY <1>0, <2>1 DEF IsPart
    <3> QED BY <3>1
  <2> QED BY <1>1, <1>3, <2>1, <2>2
<1>5. Moves(f, w, v, D)
  <2>1. \A i \in D : w[i] \in Nat /\ v[f[i]] = w[i]
    BY <1>2, <1>4
  <2>2. \A i, j \in D : f[i] = f[j] => i = j
    BY <1>0, <1>3
  <2> QED BY <2>1, <2>2 DEF Moves
<1>6. {f[i] : i \in D} = low..high
  <2>1. \A j \in low..high : j - a \in D /\ f[j - a] = j
    BY <1>0, <1>3
  <2>2. \A i \in D : f[i] \in low..high
    BY <1>0, <1>3
  <2> QED BY <2>1, <2>2
<1>7. SumFunctionOnSet(v, {f[i] : i \in D}) = SumFunctionOnSet(w, D)
  <2>1. IsFiniteSet(D)
    BY <1>0, <1>3, Interval
  <2> QED BY <1>5, <2>1, SumMoves
<1>8. Weight(W, t, DOMAIN t) = Weight(W, s, low..high)
  BY <1>1, <1>2, <1>3, <1>6, <1>7 DEF Weight
<1> QED BY <1>0, <1>1, <1>8
=============================================================================
