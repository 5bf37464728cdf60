------------------------------- MODULE Magnitude -------------------------------
(***************************************************************************)
(* Math.abs and Python's abs, and the order of numbers.                    *)
(***************************************************************************)
EXTENDS Integers, FiniteSets

Abs(n) == IF n < 0 THEN -n ELSE n

\* The numbers of S from the least to the greatest.
Ascending(S) == [n \in 1 .. Cardinality(S) |-> CHOOSE x \in S : Cardinality({y \in S : y <= x}) = n]
=============================================================================
