------------------------------- MODULE Counting -------------------------------
(* Sums over finite sets, as the number of elements of a set: an x in S stands   *)
(* for f[x] pairs.                                                               *)
EXTENDS Naturals, FiniteSets

Units(f, S) == UNION {{x} \X (1 .. f[x]) : x \in S}
Total(f, S) == Cardinality(Units(f, S))
===============================================================================
