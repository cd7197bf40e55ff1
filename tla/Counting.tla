------------------------------- MODULE Counting -------------------------------
(***************************************************************************)
(* Sums over sequences of numbers, as the number of the units they stand   *)
(* for.                                                                    *)
(***************************************************************************)
EXTENDS Naturals, FiniteSets

\* The units that the elements of a sequence of numbers stand for, one by one, and how
\* many these are.
Units(s) == UNION {{k} \X (1..s[k]) : k \in DOMAIN s}
Total(s) == Cardinality(Units(s))
=============================================================================
