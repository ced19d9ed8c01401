------------------------------ MODULE MCAccess ------------------------------
EXTENDS Access, TLC
CONSTANTS a, p, s1, s2, r, w1, w2

MCContests == {[exists |-> TRUE, pub |-> FALSE, start |-> Nil, end |-> Nil],
               [exists |-> TRUE, pub |-> TRUE, start |-> 1, end |-> Nil]}
MCSeries == {[start |-> 1, end |-> Nil, release |-> Nil], [start |-> Nil, end |-> 1, release |-> 0]}
Symmetry == Permutations(Writer) \cup Permutations(Series)
=============================================================================
