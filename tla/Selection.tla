------------------------------ MODULE Selection ------------------------------
(***************************************************************************)
(* The elements of a sequence at given positions, in order.  This is what  *)
(* SelectSeq does, written so that the provers can expand it.              *)
(***************************************************************************)
EXTENDS Naturals, FiniteSets, Sequences

\* The k-th of a set of positions.
Nth(I, k) == CHOOSE i \in I : Cardinality({j \in I : j <= i}) = k

Picked(s, I) == [k \in 1..Cardinality(I) |-> s[Nth(I, k)]]

Those(s, Test(_)) == Picked(s, {i \in DOMAIN s : Test(s[i])})
=============================================================================
