-------------------------------- MODULE Tallies --------------------------------
(***************************************************************************)
(* Sums of numbers over a set, as the cardinality of the set of the units  *)
(* summed, which the theorems about finite sets speak of.                  *)
(***************************************************************************)
EXTENDS Integers, FiniteSets

\* The units that f counts over S, told apart by a number, and their sum.
Units(f, S) == UNION {{x} \X (1..f[x]) : x \in S}
Tally(f, S) == Cardinality(Units(f, S))
=============================================================================
