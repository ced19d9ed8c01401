----------------------------- MODULE MCOrdering -----------------------------
EXTENDS Ordering, TLC
CONSTANTS i1, i2, i3, i4, q1, q2

Symmetry == Permutations(Item) \cup Permutations(Request)
=============================================================================
