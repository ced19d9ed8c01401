------------------------------ MODULE Ordering ------------------------------
(***************************************************************************)
(* Service.reorder (internal/content/service.go): it gives the series of a *)
(* contest, or the assignments of a series, the positions 0, 1, ... one    *)
(* row at a time under the unique index on (parent, position), while other *)
(* requests insert, move and delete rows of the same parent.               *)
(*                                                                         *)
(* A reorder is a transaction: each of its UPDATEs is a step, visible to   *)
(* the others when it commits.  The other operations are one statement.    *)
(* Locks are PostgreSQL's: the parent's row keeps reorders apart and does  *)
(* not keep anything else out, a row that a reorder has updated is its own *)
(* until it ends, and a statement that wants a position which an open      *)
(* transaction leaves or takes waits for it.  A deadlock ends one of the   *)
(* two with an error: CancelReorder, or a statement that does nothing.     *)
(* Under SQLite's single connection a transaction is one step.             *)
(***************************************************************************)
EXTENDS Integers, Sequences, FiniteSets, Functions

CONSTANTS Item,      \* row ids
          Request,   \* concurrent reorders
          MaxPos,    \* bound on the positions that clients ask for
          PosLimit   \* 1<<30: a reorder refuses a list that reaches beyond

ASSUME OrderingAssumption == MaxPos \in Nat /\ PosLimit \in Nat /\ IsFiniteSet(Item)

VARIABLES pos,      \* committed position of a row; None without a row
          movable,  \* TRUE for series (PUT /series), FALSE for assignments
          phase,    \* of a reorder: "idle", "first" or "second" pass
          seen,     \* the rows it has read
          top,      \* the greatest position it has read
          ids,      \* the part of the requested order it has gone through
          done,     \* the updates of its second pass
          pend,     \* positions it has written; None for a row not written
          quiet     \* history: no row was inserted or moved since it has read

tx == <<phase, seen, top, ids, done, pend>>
vars == <<pos, movable, tx, quiet>>

None == -1
Rows == {i \in Item : pos[i] # None}
Nothing == [i \in Item |-> None]

Init ==
  /\ pos \in [Item -> 0..MaxPos \cup {None}]
  /\ \A i, j \in Rows : pos[i] = pos[j] => i = j
  /\ movable \in BOOLEAN
  /\ phase = [q \in Request |-> "idle"]
  /\ seen = [q \in Request |-> {}] /\ top = [q \in Request |-> 0]
  /\ ids = [q \in Request |-> <<>>] /\ done = [q \in Request |-> 0]
  /\ pend = [q \in Request |-> Nothing]
  /\ quiet = [q \in Request |-> FALSE]

ParentFree_Mutant == TRUE  \* the parent's row is not updated first

(* No reorder holds the parent's row.                                      *)
ParentFree == \A q \in Request : phase[q] = "idle"

(* Another transaction has updated the row, or claims the position.        *)
Locked(i, others) == \E q \in others : pend[q][i] # None
Claimed(p, others) == \E q \in others, i \in Item : pend[q][i] # None /\ p \in {pend[q][i], pos[i]}

(* The position of a row as the transaction sees it.                       *)
View(q, i) == IF pend[q][i] # None THEN pend[q][i] ELSE pos[i]

(* The unique index refuses position p to row i.                           *)
Collides(q, i, p) == \E j \in Rows \ {i} : View(q, j) = p

-----------------------------------------------------------------------------
(* The reorder.                                                            *)

(* The greatest of the positions read, from 0 on.                          *)
Greatest(m) == m \in {0} \cup {pos[i] : i \in Rows} /\ \A i \in Rows : pos[i] <= m

Begin_Mutant(q) ==  \* the greatest position is not bounded
  /\ phase[q] = "idle" /\ ParentFree
  /\ \E m \in 0..MaxPos : Greatest(m) /\ top' = [top EXCEPT ![q] = m]
  /\ phase' = [phase EXCEPT ![q] = "first"]
  /\ seen' = [seen EXCEPT ![q] = Rows]
  /\ quiet' = [quiet EXCEPT ![q] = TRUE]
  /\ UNCHANGED <<pos, movable, ids, done, pend>>

(* The rows are read behind the lock.  A body of another length is refused *)
(* here, so that the ids that follow are as many as the rows.              *)
Begin(q) ==
  /\ phase[q] = "idle" /\ ParentFree
  /\ \E m \in 0..PosLimit : Greatest(m) /\ top' = [top EXCEPT ![q] = m]
  /\ phase' = [phase EXCEPT ![q] = "first"]
  /\ seen' = [seen EXCEPT ![q] = Rows]
  /\ quiet' = [quiet EXCEPT ![q] = TRUE]
  /\ UNCHANGED <<pos, movable, ids, done, pend>>

End(q) ==
  /\ phase' = [phase EXCEPT ![q] = "idle"] /\ seen' = [seen EXCEPT ![q] = {}]
  /\ top' = [top EXCEPT ![q] = 0] /\ ids' = [ids EXCEPT ![q] = <<>>]
  /\ done' = [done EXCEPT ![q] = 0] /\ pend' = [pend EXCEPT ![q] = Nothing]
  /\ quiet' = [quiet EXCEPT ![q] = FALSE]

(* The disjoint range of the first pass.                                   *)
Temporary(q) == top[q] + 1 + Len(ids[q])

(* UPDATE ... SET position = p WHERE id = i: a row that has been deleted   *)
(* is not there to update, which is no error.                              *)
Update(q, i, p) ==
  /\ ~Locked(i, Request \ {q}) /\ ~Claimed(p, Request \ {q})
  /\ i \in Rows => ~Collides(q, i, p)
  /\ pend' = IF i \in Rows THEN [pend EXCEPT ![q][i] = p] ELSE pend

FirstPass(q) ==
  /\ phase[q] = "first"
  /\ \E i \in seen[q] \ Range(ids[q]) :
       Update(q, i, Temporary(q)) /\ ids' = [ids EXCEPT ![q] = Append(@, i)]
  /\ UNCHANGED <<pos, movable, phase, seen, top, done, quiet>>

StartSecondPass(q) ==
  /\ phase[q] = "first" /\ Range(ids[q]) = seen[q]
  /\ phase' = [phase EXCEPT ![q] = "second"]
  /\ UNCHANGED <<pos, movable, seen, top, ids, done, pend, quiet>>

SecondPass_Mutant(q) ==  \* positions from 1 on
  /\ phase[q] = "second" /\ done[q] < Len(ids[q])
  /\ Update(q, ids[q][done[q] + 1], done[q] + 1)
  /\ done' = [done EXCEPT ![q] = @ + 1]
  /\ UNCHANGED <<pos, movable, phase, seen, top, ids, quiet>>

SecondPass(q) ==
  /\ phase[q] = "second" /\ done[q] < Len(ids[q])
  /\ Update(q, ids[q][done[q] + 1], done[q])
  /\ done' = [done EXCEPT ![q] = @ + 1]
  /\ UNCHANGED <<pos, movable, phase, seen, top, ids, quiet>>

Commit_Mutant(q) ==  \* every UPDATE of the first pass commits on its own
  /\ phase[q] = "first" /\ ids[q] # <<>>
  /\ pos' = [i \in Item |-> IF i \in Rows THEN View(q, i) ELSE None]
  /\ End(q)
  /\ UNCHANGED movable

Commit(q) ==
  /\ phase[q] = "second" /\ done[q] = Len(ids[q])
  /\ pos' = [i \in Item |-> IF i \in Rows THEN View(q, i) ELSE None]
  /\ End(q)
  /\ UNCHANGED movable

(* A duplicate or foreign id, a position that an insert has taken, the end *)
(* of the client's connection: the transaction is rolled back.             *)
CancelReorder(q) ==
  /\ phase[q] # "idle" /\ End(q)
  /\ UNCHANGED <<pos, movable>>

-----------------------------------------------------------------------------
(* The other operations on the list, each one statement.                   *)

Disturb == quiet' = [q \in Request |-> FALSE] /\ UNCHANGED <<movable, tx>>

Free(p) == ~Claimed(p, Request) /\ \A j \in Rows : pos[j] # p

(* CreateSeries and Assign; an id is not handed out twice.                 *)
Insert ==
  /\ \E i \in Item \ (Rows \cup UNION Range(seen)), p \in 0..MaxPos :
       Free(p) /\ pos' = [pos EXCEPT ![i] = p]
  /\ Disturb

(* UpdateSeries.                                                           *)
Move ==
  /\ movable
  /\ \E i \in Rows, p \in 0..MaxPos :
       ~Locked(i, Request) /\ Free(p) /\ pos' = [pos EXCEPT ![i] = p]
  /\ Disturb

(* DeleteSeries and unassign.                                              *)
Delete ==
  /\ \E i \in Rows : ~Locked(i, Request) /\ pos' = [pos EXCEPT ![i] = None]
  /\ UNCHANGED <<movable, tx, quiet>>

Reorder(q) ==
  \/ Begin(q) \/ FirstPass(q) \/ StartSecondPass(q) \/ SecondPass(q) \/ Commit(q) \/ CancelReorder(q)

Next == Insert \/ Move \/ Delete \/ \E q \in Request : Reorder(q)

Spec == Init /\ [][Next]_vars

-----------------------------------------------------------------------------
(* Properties.                                                             *)

TypeOK ==
  /\ pos \in [Item -> Nat \cup {None}] /\ movable \in BOOLEAN
  /\ phase \in [Request -> {"idle", "first", "second"}]
  /\ seen \in [Request -> SUBSET Item] /\ top \in [Request -> 0..PosLimit]
  /\ ids \in [Request -> Seq(Item)] /\ done \in [Request -> Nat]
  /\ pend \in [Request -> [Item -> Nat \cup {None}]]
  /\ quiet \in [Request -> BOOLEAN]

(* The next write of reorder's two passes finds its position free unless a *)
(* row was inserted or moved since the rows were read, whatever the old    *)
(* positions and the new order are and whichever rows are deleted on the   *)
(* way: the "disjoint positive range" (service.go:278) is disjoint from    *)
(* every old position and from 0..n-1.                                     *)
NoCollision ==
  \A q \in Request : quiet[q] =>
    /\ phase[q] = "first" =>
         \A i \in seen[q] \ Range(ids[q]) : ~Collides(q, i, Temporary(q))
    /\ phase[q] = "second" /\ done[q] < Len(ids[q]) => ~Collides(q, ids[q][done[q] + 1], done[q])

(* reorder "requires the complete set" (service.go:278): when it commits   *)
(* and no row was inserted or moved since it has read the rows, every row  *)
(* that is left is at its index in the requested order.                    *)
OrderApplied ==
  [][\A q \in Request : quiet[q] /\ phase[q] = "second" /\ phase'[q] = "idle" /\ pos' # pos =>
       /\ Rows \subseteq Range(ids[q])
       /\ \A k \in 1..Len(ids[q]) : ids[q][k] \in Rows => pos'[ids[q][k]] = k - 1]_vars

(* Clients see the list of OrderedList: positions stay distinct, and a     *)
(* reorder shows as one change of the rows it lists or not at all, with    *)
(* the rows inserted, moved or deleted while it ran.                       *)
OL == INSTANCE OrderedList WITH place <- pos
ListRefined == OL!Spec

-----------------------------------------------------------------------------
(* The inductive invariant behind these (OrderingProofs).                  *)

PositionsDistinct == \A i, j \in Rows : pos[i] = pos[j] => i = j

(* The parent's row keeps reorders apart, an idle one leaves nothing.      *)
OneReorder ==
  /\ \A q, r \in Request : phase[q] # "idle" /\ phase[r] # "idle" => q = r
  /\ \A q \in Request : phase[q] = "idle" =>
       pend[q] = Nothing /\ ids[q] = <<>> /\ ~quiet[q]
  /\ \A q \in Request : phase[q] # "second" => done[q] = 0

(* A reorder writes rows of its order only, each at one index.             *)
OrderFits ==
  \A q \in Request :
    /\ Range(ids[q]) \subseteq seen[q]
    /\ \A j, k \in 1..Len(ids[q]) : ids[q][j] = ids[q][k] => j = k
    /\ \A i \in Item : pend[q][i] # None => i \in Rows /\ i \in Range(ids[q])

(* The unique index, as the transaction sees it.                           *)
ViewDistinct == \A q \in Request : \A i, j \in Rows : View(q, i) = View(q, j) => i = j

(* Where the two passes have put the rows so far.                          *)
PassesFit ==
  \A q \in Request : \A k \in 1..Len(ids[q]) : ids[q][k] \in Rows =>
    /\ phase[q] = "first" => pend[q][ids[q][k]] = top[q] + k
    /\ phase[q] = "second" =>
         pend[q][ids[q][k]] = IF k <= done[q] THEN k - 1 ELSE top[q] + k
SecondFits ==
  \A q \in Request : phase[q] = "second" => Range(ids[q]) = seen[q] /\ done[q] <= Len(ids[q])

(* While nothing is inserted or moved, what was read bounds what is there. *)
QuietReads ==
  \A q \in Request : quiet[q] => Rows \subseteq seen[q] /\ \A i \in Rows : pos[i] <= top[q]

IInv ==
  /\ TypeOK /\ PositionsDistinct /\ OneReorder /\ OrderFits /\ ViewDistinct
  /\ PassesFit /\ SecondFits /\ QuietReads
=============================================================================
