------------------------------- MODULE Ordering -------------------------------
EXTENDS Naturals, FiniteSets

\* A set as a sequence, in an order that tells any two of its elements apart: an
\* element's place is the number of those before it.
Sorted(S, Before(_, _)) ==
  LET Place(x) == 1 + Cardinality({y \in S : Before(y, x)})
  IN  [k \in 1 .. Cardinality(S) |-> CHOOSE x \in S : Place(x) = k]
===============================================================================
