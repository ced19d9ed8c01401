---------------------------- MODULE OrderedList -----------------------------
(***************************************************************************)
(* What clients of the ordering API see: the series of a contest, or the   *)
(* assignments of a series, each at a position of its own.  An item is     *)
(* added or removed in one step, a series may also be moved in one step,   *)
(* and a new order is applied to the rows it lists in one step or not at   *)
(* all.                                                                    *)
(***************************************************************************)
EXTENDS Integers, FiniteSets

CONSTANT Item
VARIABLES place,   \* the position of an item; -1 when it is not in the list
          movable  \* may a single item change its position?

Listed == {i \in Item : place[i] >= 0}
Distinct == \A i, j \in Listed : place[i] = place[j] => i = j

Init == place \in [Item -> Int] /\ Distinct /\ movable \in BOOLEAN

Put(i, p) ==
  /\ i \in Listed => movable
  /\ p >= 0 /\ \A j \in Listed : place[j] # p
  /\ place' = [place EXCEPT ![i] = p]

Remove(i) == place' = [place EXCEPT ![i] = -1]

(* The items that the new order names get a position below their number;   *)
(* items added since it was made keep theirs.                              *)
Renumber ==
  \E S \in SUBSET Listed, n \in 0..Cardinality(Item) :
    \E rank \in [S -> 0..(n - 1)] :
      /\ place' = [i \in Item |-> IF i \in S THEN rank[i] ELSE place[i]]
      /\ Distinct'

Next ==
  /\ Renumber \/ \E i \in Item : Remove(i) \/ Put(i, place'[i])
  /\ UNCHANGED movable

Spec == Init /\ [][Next]_<<place, movable>>
=============================================================================
