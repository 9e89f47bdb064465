---------------------------- MODULE Collections ----------------------------
(***************************************************************************)
(* The ordered collections the entries of a cache, of a memory and of a    *)
(* write set are kept in (OrderedDict, dict and list of the language), as  *)
(* sequences: what is left of one when some of its entries are taken out.  *)
(***************************************************************************)
EXTENDS Integers, FiniteSets

\* The n-th position of P from the lowest on.
nth(P, n) == CHOOSE i \in P : Cardinality({j \in P : j <= i}) = n

\* What s has at the positions of P, in the order of s.
Picked(s, P) == [n \in 1..Cardinality(P) |-> s[nth(P, n)]]
=============================================================================
