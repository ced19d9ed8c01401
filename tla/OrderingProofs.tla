--------------------------- MODULE OrderingProofs ---------------------------
(***************************************************************************)
(* Proofs about Ordering, for any number of rows, requests and positions:  *)
(* the two passes of a reorder meet no position that is taken, a reorder   *)
(* puts every row where the client asked for it, and clients see the list  *)
(* of OrderedList.                                                         *)
(***************************************************************************)
EXTENDS Ordering, FiniteSetTheorems, TLAPS

(* The elements of a sequence and their indices.                           *)
LEMMA RangeIndex ==
  ASSUME NEW s \in Seq(Item), NEW i
  PROVE  i \in Range(s) <=> \E k \in 1..Len(s) : s[k] = i
  BY DEF Range

(* What Append adds.                                                       *)
LEMMA AppendFacts ==
  ASSUME NEW s \in Seq(Item), NEW i \in Item
  PROVE  /\ Append(s, i) \in Seq(Item) /\ Len(Append(s, i)) = Len(s) + 1
         /\ \A k \in 1..Len(s) : Append(s, i)[k] = s[k]
         /\ Append(s, i)[Len(s) + 1] = i
         /\ Range(Append(s, i)) = Range(s) \cup {i}
<1>1. /\ Append(s, i) \in Seq(Item) /\ Len(Append(s, i)) = Len(s) + 1
      /\ \A k \in 1..Len(s) : Append(s, i)[k] = s[k]
      /\ Append(s, i)[Len(s) + 1] = i
  OBVIOUS
<1>2. ASSUME NEW x PROVE x \in Range(Append(s, i)) <=> x \in Range(s) \cup {i}
  <2>1. x \in Range(Append(s, i)) <=> \E k \in 1..(Len(s) + 1) : Append(s, i)[k] = x
    BY <1>1, RangeIndex, ZenonT(60)
  <2>2. x \in Range(s) <=> \E k \in 1..Len(s) : s[k] = x
    BY RangeIndex
  <2> QED
    BY <1>1, <2>1, <2>2
<1> QED
  BY <1>1, <1>2

(* Arithmetic of Temporary.                                                *)
LEMMA PlusOne == \A a, b \in Nat : a + 1 + b = a + (b + 1)
  OBVIOUS

(* The initial states.                                                     *)
LEMMA InitIInv == Init => IInv
<1> SUFFICES ASSUME Init PROVE IInv
  OBVIOUS
<1> USE OrderingAssumption DEF Init, Nothing, None
<1>1. TypeOK
  BY DEF TypeOK
<1>2. PositionsDistinct /\ OneReorder
  BY DEF PositionsDistinct, OneReorder, Rows
<1>3. OrderFits
  BY DEF OrderFits, Range
<1>4. ViewDistinct
  BY DEF ViewDistinct, View, Rows
<1>5. PassesFit /\ SecondFits /\ QuietReads
  BY DEF PassesFit, SecondFits, QuietReads
<1> QED
  BY <1>1, <1>2, <1>3, <1>4, <1>5 DEF IInv

(* A request that ends.                                                    *)
LEMMA EndFrame ==
  ASSUME TypeOK, NEW q \in Request, End(q)
  PROVE  /\ phase' \in [Request -> {"idle", "first", "second"}]
         /\ seen' \in [Request -> SUBSET Item] /\ top' \in [Request -> 0..PosLimit]
         /\ ids' \in [Request -> Seq(Item)] /\ done' \in [Request -> Nat]
         /\ pend' \in [Request -> [Item -> Nat \cup {None}]]
         /\ quiet' \in [Request -> BOOLEAN]
         /\ phase'[q] = "idle" /\ ids'[q] = <<>> /\ done'[q] = 0 /\ pend'[q] = Nothing
         /\ quiet'[q] = FALSE
         /\ \A r \in Request \ {q} :
              /\ phase'[r] = phase[r] /\ seen'[r] = seen[r] /\ top'[r] = top[r]
              /\ ids'[r] = ids[r] /\ done'[r] = done[r] /\ pend'[r] = pend[r]
              /\ quiet'[r] = quiet[r]
<1>1. Nothing \in [Item -> Nat \cup {None}]
  BY DEF Nothing, None
<1>2. <<>> \in Seq(Item) /\ 0 \in 0..PosLimit
  BY OrderingAssumption
<1> QED
  BY <1>1, <1>2 DEF End, TypeOK

(* A statement of another request that inserts a row or moves one nobody   *)
(* has locked to a free position.                                          *)
LEMMA PutStep ==
  ASSUME IInv, NEW i \in Item, NEW p \in 0..MaxPos, Free(p), Disturb,
         pos' = [pos EXCEPT ![i] = p], \A r \in Request : pend[r][i] = None,
         i \in Rows \/ \A r \in Request : i \notin seen[r]
  PROVE  IInv'
<1> USE DEF IInv
<1>1. p \in Nat /\ p # None /\ Rows' = Rows \cup {i}
  BY OrderingAssumption DEF TypeOK, Rows, None
<1>2. /\ pos'[i] = p /\ \A j \in Item \ {i} : pos'[j] = pos[j]
      /\ \A j \in Rows : pos[j] # p
      /\ \A r \in Request, j \in Item : pend[r][j] # None => pend[r][j] # p /\ pos[j] # p
  BY DEF TypeOK, Free, Claimed
<1>3. UNCHANGED <<movable, phase, seen, top, ids, done, pend>> /\ quiet' = [q \in Request |-> FALSE]
  BY DEF Disturb, tx
<1>4. TypeOK'
  BY <1>1, <1>3 DEF TypeOK
<1>5. PositionsDistinct'
  BY <1>1, <1>2 DEF PositionsDistinct, Rows
<1>6. OneReorder'
  BY <1>3 DEF OneReorder
<1>7. OrderFits'
  BY <1>1, <1>3 DEF OrderFits
<1>8. ViewDistinct'
  <2> SUFFICES ASSUME NEW r \in Request, NEW j \in Rows', NEW k \in Rows',
                      View(r, j)' = View(r, k)'
               PROVE  j = k
    BY DEF ViewDistinct
  <2>1. \A m \in Rows : m # i => View(r, m)' = View(r, m) /\ View(r, m) # p
    BY <1>2, <1>3 DEF View, Rows
  <2>2. View(r, i)' = p
    BY <1>2, <1>3 DEF View
  <2> QED
    BY <1>1, <2>1, <2>2 DEF ViewDistinct
<1>9. PassesFit'
  <2> SUFFICES ASSUME NEW r \in Request, NEW k \in 1..Len(ids[r]), ids[r][k] \in Rows'
               PROVE  ids[r][k] \in Rows
    BY <1>3 DEF PassesFit
  <2>1. ids[r][k] \in seen[r]
    BY RangeIndex DEF OrderFits, TypeOK
  <2> QED
    BY <1>1, <2>1
<1>10. SecondFits' /\ QuietReads'
  BY <1>3 DEF SecondFits, QuietReads
<1> QED
  BY <1>4, <1>5, <1>6, <1>7, <1>8, <1>9, <1>10

(* CreateSeries and Assign keep IInv: the new row is in no open reorder.   *)
LEMMA InsertStep == IInv /\ Insert => IInv'
<1> SUFFICES ASSUME IInv, Insert PROVE IInv'
  OBVIOUS
<1>1. PICK i \in Item \ (Rows \cup UNION Range(seen)), p \in 0..MaxPos :
        Free(p) /\ pos' = [pos EXCEPT ![i] = p]
  BY DEF Insert
<1>2. \A r \in Request : i \notin seen[r]
  BY <1>1 DEF IInv, TypeOK, Range
<1>3. \A r \in Request : pend[r][i] = None
  BY <1>1 DEF IInv, OrderFits
<1> QED
  BY <1>1, <1>2, <1>3, PutStep DEF Insert

(* UpdateSeries keeps IInv: it waits for rows and positions in use.        *)
LEMMA MoveStep == IInv /\ Move => IInv'
<1> SUFFICES ASSUME IInv, Move PROVE IInv'
  OBVIOUS
<1>1. PICK i \in Rows, p \in 0..MaxPos :
        ~Locked(i, Request) /\ Free(p) /\ pos' = [pos EXCEPT ![i] = p]
  BY DEF Move
<1>2. i \in Item /\ \A r \in Request : pend[r][i] = None
  BY <1>1 DEF Locked, Rows
<1> QED
  BY <1>1, <1>2, PutStep DEF Move

(* DeleteSeries and unassign keep IInv: a row written by a reorder waits.  *)
LEMMA DeleteStep == IInv /\ Delete => IInv'
<1> SUFFICES ASSUME IInv, Delete PROVE IInv'
  OBVIOUS
<1> USE DEF IInv
<1>1. PICK i \in Rows : ~Locked(i, Request) /\ pos' = [pos EXCEPT ![i] = None]
  BY DEF Delete
<1>2. /\ i \in Item /\ Rows' = Rows \ {i} /\ \A j \in Rows' : pos'[j] = pos[j]
      /\ \A r \in Request : pend[r][i] = None
  BY <1>1 DEF TypeOK, Rows, Locked
<1>3. UNCHANGED <<movable, phase, seen, top, ids, done, pend, quiet>>
  BY DEF Delete, tx
<1>4. TypeOK'
  BY <1>1, <1>2, <1>3 DEF TypeOK
<1>5. PositionsDistinct' /\ OneReorder'
  BY <1>2, <1>3 DEF PositionsDistinct, OneReorder
<1>6. OrderFits'
  BY <1>2, <1>3 DEF OrderFits
<1>7. ViewDistinct'
  <2>1. \A r \in Request, j \in Rows' : View(r, j)' = View(r, j)
    BY <1>2, <1>3 DEF View
  <2> QED
    BY <1>2, <2>1 DEF ViewDistinct
<1>8. PassesFit' /\ SecondFits'
  BY <1>2, <1>3 DEF PassesFit, SecondFits
<1>9. QuietReads'
  BY <1>2, <1>3 DEF QuietReads
<1> QED
  BY <1>4, <1>5, <1>6, <1>7, <1>8, <1>9

(* The read behind the parent's lock establishes what both passes rely on. *)
LEMMA BeginStep == ASSUME IInv, NEW q \in Request, Begin(q) PROVE IInv'
<1> USE DEF IInv
<1>1. PICK m \in 0..PosLimit : Greatest(m) /\ top' = [top EXCEPT ![q] = m]
  BY DEF Begin
<1>2. /\ UNCHANGED <<pos, movable, ids, done, pend>> /\ Rows' = Rows
      /\ phase' = [phase EXCEPT ![q] = "first"] /\ seen' = [seen EXCEPT ![q] = Rows]
      /\ quiet' = [quiet EXCEPT ![q] = TRUE]
  BY DEF Begin, Rows
<1>3. \A r \in Request : phase[r] = "idle" /\ pend[r] = Nothing /\ ids[r] = <<>> /\ ~quiet[r]
                         /\ done[r] = 0
  BY DEF Begin, ParentFree, OneReorder
<1>4. TypeOK'
  BY <1>1, <1>2 DEF TypeOK, Rows
<1>5. PositionsDistinct' /\ OneReorder'
  BY <1>2, <1>3 DEF PositionsDistinct, OneReorder, TypeOK
<1>6. OrderFits'
  BY <1>2, <1>3 DEF OrderFits, TypeOK, Range, Nothing
<1>7. ViewDistinct'
  BY <1>2 DEF ViewDistinct, View
<1>8. PassesFit' /\ SecondFits'
  BY <1>2, <1>3 DEF PassesFit, SecondFits, TypeOK
<1>9. QuietReads'
  <2> SUFFICES ASSUME NEW r \in Request, quiet'[r]
               PROVE  Rows \subseteq seen'[r] /\ \A i \in Rows : pos[i] <= top'[r]
    BY <1>2 DEF QuietReads
  <2>1. r = q
    BY <1>2, <1>3 DEF TypeOK
  <2> QED
    BY <1>1, <1>2, <2>1 DEF TypeOK, Greatest
<1> QED
  BY <1>4, <1>5, <1>6, <1>7, <1>8, <1>9

(* One UPDATE of a reorder: what it sees stays distinct, and it writes one *)
(* row at most.                                                            *)
LEMMA UpdateFrame ==
  ASSUME IInv, NEW q \in Request, NEW i \in Item, NEW p \in Nat, Update(q, i, p), UNCHANGED pos
  PROVE  /\ pend' \in [Request -> [Item -> Nat \cup {None}]]
         /\ \A r \in Request, j \in Item : r # q \/ j # i => pend'[r][j] = pend[r][j]
         /\ pend'[q][i] = IF i \in Rows THEN p ELSE pend[q][i]
         /\ ViewDistinct'
<1> USE DEF IInv
<1>1. /\ pend' \in [Request -> [Item -> Nat \cup {None}]]
      /\ \A r \in Request, j \in Item : r # q \/ j # i => pend'[r][j] = pend[r][j]
      /\ pend'[q][i] = IF i \in Rows THEN p ELSE pend[q][i]
  BY DEF Update, TypeOK
<1>2. Rows' = Rows /\ Rows \subseteq Item /\ p # None
  BY DEF Rows, None
<1>3. ViewDistinct'
  <2> SUFFICES ASSUME NEW r \in Request, NEW j \in Rows, NEW k \in Rows,
                      View(r, j)' = View(r, k)'
               PROVE  j = k
    BY <1>2 DEF ViewDistinct
  <2>1. \A m \in Rows : r # q \/ m # i => View(r, m)' = View(r, m)
    BY <1>1, <1>2 DEF View
  <2>2. CASE r # q \/ i \notin Rows
    BY <2>1, <2>2 DEF ViewDistinct
  <2>3. CASE r = q /\ i \in Rows
    <3>1. View(q, i)' = p /\ \A m \in Rows : m # i => View(q, m) # p
      BY <1>1, <1>2, <2>3 DEF View, Update, Collides
    <3> QED
      BY <2>1, <2>3, <3>1 DEF ViewDistinct
  <2> QED
    BY <2>2, <2>3
<1> QED
  BY <1>1, <1>3

(* An UPDATE of the first pass keeps IInv.                                 *)
LEMMA FirstPassStep == ASSUME IInv, NEW q \in Request, FirstPass(q) PROVE IInv'
<1> USE DEF IInv
<1>1. PICK i \in seen[q] \ Range(ids[q]) :
        Update(q, i, Temporary(q)) /\ ids' = [ids EXCEPT ![q] = Append(@, i)]
  BY DEF FirstPass
<1>2. /\ UNCHANGED <<pos, movable, phase, seen, top, done, quiet>> /\ Rows' = Rows
      /\ phase[q] = "first"
  BY DEF FirstPass, Rows
<1>3. i \in Item /\ ids[q] \in Seq(Item) /\ top[q] \in Nat /\ Temporary(q) \in Nat
  BY OrderingAssumption DEF TypeOK, Temporary
<1>4. /\ pend' \in [Request -> [Item -> Nat \cup {None}]]
      /\ \A r \in Request, j \in Item : r # q \/ j # i => pend'[r][j] = pend[r][j]
      /\ pend'[q][i] = IF i \in Rows THEN Temporary(q) ELSE pend[q][i]
      /\ ViewDistinct'
  BY <1>1, <1>2, <1>3, UpdateFrame
<1>5. /\ ids' \in [Request -> Seq(Item)] /\ \A r \in Request \ {q} : ids'[r] = ids[r]
      /\ Len(ids'[q]) = Len(ids[q]) + 1 /\ Range(ids'[q]) = Range(ids[q]) \cup {i}
      /\ \A k \in 1..Len(ids[q]) : ids'[q][k] = ids[q][k] /\ ids[q][k] \in Range(ids[q])
      /\ ids'[q][Len(ids[q]) + 1] = i
  BY <1>1, <1>3, AppendFacts, RangeIndex DEF TypeOK
<1>6. TypeOK'
  BY <1>2, <1>4, <1>5 DEF TypeOK
<1>7. PositionsDistinct' /\ QuietReads'
  BY <1>2 DEF PositionsDistinct, QuietReads
<1>8. OneReorder'
  <2> SUFFICES ASSUME NEW r \in Request, phase[r] = "idle" PROVE pend'[r] = pend[r] /\ ids'[r] = ids[r]
    BY <1>2 DEF OneReorder
  <2> QED
    BY <1>2, <1>4, <1>5 DEF TypeOK
<1>9. OrderFits'
  <2> SUFFICES ASSUME NEW r \in Request
               PROVE  /\ Range(ids'[r]) \subseteq seen[r]
                      /\ \A j, k \in 1..Len(ids'[r]) : ids'[r][j] = ids'[r][k] => j = k
                      /\ \A j \in Item : pend'[r][j] # None => j \in Rows /\ j \in Range(ids'[r])
    BY <1>2 DEF OrderFits
  <2>1. CASE r # q
    <3>1. ids'[r] = ids[r] /\ \A j \in Item : pend'[r][j] = pend[r][j]
      BY <1>4, <1>5, <2>1
    <3> QED
      BY <3>1 DEF OrderFits
  <2>2. CASE r = q
    <3>1. Range(ids'[q]) \subseteq seen[q]
      BY <1>1, <1>5 DEF OrderFits
    <3>2. ASSUME NEW j \in 1..(Len(ids[q]) + 1), NEW k \in 1..(Len(ids[q]) + 1),
                 ids'[q][j] = ids'[q][k]
          PROVE  j = k
      <4>1. \A m \in 1..(Len(ids[q]) + 1) : m \in 1..Len(ids[q]) \/ m = Len(ids[q]) + 1
        BY <1>3
      <4>2. \A m \in 1..Len(ids[q]) : ids'[q][m] # i
        BY <1>1, <1>5
      <4>3. CASE j \in 1..Len(ids[q]) /\ k \in 1..Len(ids[q])
        BY <1>5, <3>2, <4>3 DEF OrderFits
      <4> QED
        BY <1>5, <3>2, <4>1, <4>2, <4>3
    <3>3. ASSUME NEW j \in Item, pend'[q][j] # None PROVE j \in Rows /\ j \in Range(ids'[q])
      <4>1. CASE j = i /\ i \in Rows
        BY <1>5, <4>1
      <4>2. CASE ~(j = i /\ i \in Rows)
        <5>1. pend[q][j] # None
          BY <1>4, <3>3, <4>2
        <5>2. j \in Rows /\ j \in Range(ids[q])
          BY <5>1 DEF OrderFits
        <5> QED
          BY <1>5, <5>2
      <4> QED
        BY <4>1, <4>2
    <3> QED
      BY <1>5, <2>2, <3>1, <3>2, <3>3
  <2> QED
    BY <2>1, <2>2
<1>10. PassesFit'
  <2> SUFFICES ASSUME NEW r \in Request, NEW k \in 1..Len(ids'[r]), ids'[r][k] \in Rows
               PROVE  /\ phase[r] = "first" => pend'[r][ids'[r][k]] = top[r] + k
                      /\ phase[r] = "second" =>
                           pend'[r][ids'[r][k]] = IF k <= done[r] THEN k - 1 ELSE top[r] + k
    BY <1>2 DEF PassesFit
  <2>1. Rows \subseteq Item
    BY DEF Rows
  <2>2. CASE r # q
    BY <1>4, <1>5, <2>1, <2>2 DEF PassesFit
  <2>3. CASE r = q /\ k \in 1..Len(ids[q])
    <3>1. ids'[r][k] = ids[q][k] /\ ids[q][k] # i
      BY <1>1, <1>5, <2>3
    <3> QED
      BY <1>2, <1>4, <2>1, <2>3, <3>1 DEF PassesFit
  <2>4. CASE r = q /\ k = Len(ids[q]) + 1
    <3>1. ids'[r][k] = i /\ pend'[q][i] = top[q] + 1 + Len(ids[q]) /\ phase[r] = "first"
      BY <1>2, <1>4, <1>5, <2>4 DEF Temporary
    <3>2. Len(ids[q]) \in Nat
      BY <1>3
    <3>3. top[q] + 1 + Len(ids[q]) = top[q] + (Len(ids[q]) + 1)
      BY <1>3, <3>2, PlusOne
    <3> QED
      BY <2>4, <3>1, <3>3
  <2> QED
    BY <1>3, <1>5, <2>2, <2>3, <2>4
<1>11. SecondFits'
  BY <1>2, <1>5 DEF SecondFits
<1> QED
  BY <1>4, <1>6, <1>7, <1>8, <1>9, <1>10, <1>11

(* The first pass has gone through every row that was read.                *)
LEMMA StartSecondPassStep == ASSUME IInv, NEW q \in Request, StartSecondPass(q) PROVE IInv'
<1> USE DEF IInv
<1>1. /\ UNCHANGED <<pos, movable, seen, top, ids, done, pend, quiet>> /\ Rows' = Rows
      /\ phase' = [phase EXCEPT ![q] = "second"] /\ phase[q] = "first"
      /\ Range(ids[q]) = seen[q] /\ done[q] = 0
  BY DEF StartSecondPass, Rows, OneReorder
<1>2. TypeOK' /\ PositionsDistinct' /\ OneReorder' /\ OrderFits' /\ QuietReads'
  BY <1>1 DEF TypeOK, PositionsDistinct, OneReorder, OrderFits, QuietReads
<1>3. ViewDistinct'
  BY <1>1 DEF ViewDistinct, View
<1>4. SecondFits'
  BY <1>1 DEF SecondFits, TypeOK
<1>5. PassesFit'
  BY <1>1 DEF PassesFit, TypeOK
<1> QED
  BY <1>2, <1>3, <1>4, <1>5

(* An UPDATE of the second pass keeps IInv.                                *)
LEMMA SecondPassStep == ASSUME IInv, NEW q \in Request, SecondPass(q) PROVE IInv'
<1> USE DEF IInv
<1> DEFINE n == done[q] + 1  i == ids[q][n]
<1>1. /\ UNCHANGED <<pos, movable, phase, seen, top, ids, quiet>> /\ Rows' = Rows
      /\ phase[q] = "second" /\ done[q] < Len(ids[q]) /\ Update(q, i, done[q])
      /\ done' = [done EXCEPT ![q] = n]
  BY DEF SecondPass, Rows
<1>2. /\ done[q] \in Nat /\ ids[q] \in Seq(Item) /\ n \in 1..Len(ids[q]) /\ i \in Item
      /\ i \in Range(ids[q]) /\ top[q] \in Nat
  <2>1. done[q] \in Nat /\ ids[q] \in Seq(Item) /\ top[q] \in Nat
    BY OrderingAssumption DEF TypeOK
  <2>2. n \in 1..Len(ids[q])
    BY <1>1, <2>1
  <2> QED
    BY <2>1, <2>2, RangeIndex
<1>3. /\ pend' \in [Request -> [Item -> Nat \cup {None}]]
      /\ \A r \in Request, j \in Item : r # q \/ j # i => pend'[r][j] = pend[r][j]
      /\ pend'[q][i] = IF i \in Rows THEN done[q] ELSE pend[q][i]
      /\ ViewDistinct'
  BY <1>1, <1>2, UpdateFrame
<1>4. TypeOK'
  <2>1. done' \in [Request -> Nat]
    BY <1>1, <1>2 DEF TypeOK
  <2> QED
    BY <1>1, <1>3, <2>1 DEF TypeOK
<1>5. PositionsDistinct' /\ QuietReads'
  BY <1>1 DEF PositionsDistinct, QuietReads
<1>6. OneReorder'
  <2> SUFFICES ASSUME NEW r \in Request, phase[r] # "second"
               PROVE  pend'[r] = pend[r] /\ done'[r] = done[r]
    BY <1>1 DEF OneReorder
  <2>1. r # q
    BY <1>1
  <2>2. done'[r] = done[r]
    BY <1>1, <2>1 DEF TypeOK
  <2>3. pend[r] \in [Item -> Nat \cup {None}] /\ pend'[r] \in [Item -> Nat \cup {None}]
    BY <1>3 DEF TypeOK
  <2>4. \A j \in Item : pend'[r][j] = pend[r][j]
    BY <1>3, <2>1
  <2> QED
    BY <2>2, <2>3, <2>4
<1>7. OrderFits'
  BY <1>1, <1>2, <1>3, ZenonT(60) DEF OrderFits
<1>8. SecondFits'
  BY <1>1, <1>2 DEF SecondFits, TypeOK
<1>9. PassesFit'
  <2> SUFFICES ASSUME NEW r \in Request, NEW k \in 1..Len(ids[r]), ids[r][k] \in Rows
               PROVE  /\ phase[r] = "first" => pend'[r][ids[r][k]] = top[r] + k
                      /\ phase[r] = "second" =>
                           pend'[r][ids[r][k]] = IF k <= done'[r] THEN k - 1 ELSE top[r] + k
    BY <1>1 DEF PassesFit
  <2>1. Rows \subseteq Item
    BY DEF Rows
  <2>2. CASE r # q
    BY <1>1, <1>3, <2>1, <2>2 DEF PassesFit, TypeOK
  <2>3. CASE r = q /\ k # n
    <3>1. ids[q][k] # i
      BY <1>2, <2>3 DEF OrderFits
    <3>2. k <= done'[q] <=> k <= done[q]
      BY <1>1, <1>2, <2>3 DEF TypeOK
    <3>3. pend'[q][ids[q][k]] = pend[q][ids[q][k]]
      BY <1>3, <2>1, <2>3, <3>1
    <3> QED
      BY <1>1, <2>3, <3>2, <3>3 DEF PassesFit
  <2>4. CASE r = q /\ k = n
    <3>1. pend'[q][ids[q][k]] = k - 1 /\ k <= done'[q]
      BY <1>1, <1>2, <1>3, <2>4 DEF TypeOK
    <3> QED
      BY <1>1, <2>4, <3>1
  <2> QED
    BY <2>2, <2>3, <2>4
<1> QED
  BY <1>3, <1>4, <1>5, <1>6, <1>7, <1>8, <1>9

(* A reorder that ends leaves no reorder under way.                        *)
LEMMA EndStep ==
  ASSUME IInv, NEW q \in Request, phase[q] # "idle", End(q), Rows' = Rows, UNCHANGED movable,
         pos' \in [Item -> Nat \cup {None}], PositionsDistinct'
  PROVE  IInv'
<1> USE DEF IInv
<1>1. \A r \in Request : /\ phase'[r] = "idle" /\ pend'[r] = Nothing /\ ids'[r] = <<>>
                         /\ quiet'[r] = FALSE /\ done'[r] = 0
  <2> SUFFICES ASSUME NEW r \in Request, r # q
               PROVE  /\ phase'[r] = "idle" /\ pend'[r] = Nothing /\ ids'[r] = <<>>
                      /\ quiet'[r] = FALSE /\ done'[r] = 0
    BY EndFrame
  <2>1. /\ phase'[r] = phase[r] /\ ids'[r] = ids[r] /\ done'[r] = done[r]
        /\ pend'[r] = pend[r] /\ quiet'[r] = quiet[r]
    BY EndFrame
  <2>2. phase[r] = "idle" /\ pend[r] = Nothing /\ ids[r] = <<>> /\ ~quiet[r] /\ done[r] = 0
    BY DEF OneReorder
  <2>3. quiet[r] \in BOOLEAN
    BY DEF TypeOK
  <2> QED
    BY <2>1, <2>2, <2>3
<1>2. TypeOK'
  BY EndFrame DEF TypeOK
<1>3. OneReorder' /\ PassesFit' /\ SecondFits' /\ QuietReads'
  BY <1>1 DEF OneReorder, PassesFit, SecondFits, QuietReads
<1>4. OrderFits'
  BY <1>1 DEF OrderFits, Range, Nothing
<1>5. ViewDistinct'
  BY <1>1 DEF ViewDistinct, PositionsDistinct, View, Nothing, Rows
<1> QED
  BY <1>2, <1>3, <1>4, <1>5

(* A commit keeps IInv: what the reorder saw was distinct.                 *)
LEMMA CommitStep == ASSUME IInv, NEW q \in Request, Commit(q) PROVE IInv'
<1> USE DEF IInv
<1>1. \A i \in Rows : View(q, i) \in Nat
  BY DEF View, Rows, TypeOK, None
<1>2. Rows \subseteq Item /\ pos' = [i \in Item |-> IF i \in Rows THEN View(q, i) ELSE None]
  BY DEF Rows, Commit
<1>3. pos' \in [Item -> Nat \cup {None}] /\ Rows' = Rows
  BY <1>1, <1>2 DEF Rows, None
<1>4. PositionsDistinct'
  BY <1>2, <1>3 DEF PositionsDistinct, ViewDistinct
<1> QED
  BY <1>3, <1>4, EndStep DEF Commit

(* A rollback keeps IInv: nothing of the reorder remains.                  *)
LEMMA CancelStep == ASSUME IInv, NEW q \in Request, CancelReorder(q) PROVE IInv'
<1>1. UNCHANGED pos /\ Rows' = Rows
  BY DEF CancelReorder, Rows
<1>2. pos' \in [Item -> Nat \cup {None}] /\ PositionsDistinct'
  BY <1>1 DEF IInv, TypeOK, PositionsDistinct
<1> QED
  BY <1>1, <1>2, EndStep DEF CancelReorder

(* Steps that change nothing.                                              *)
LEMMA StutterStep == IInv /\ UNCHANGED vars => IInv'
<1> SUFFICES ASSUME IInv, UNCHANGED vars PROVE IInv'
  OBVIOUS
<1>1. UNCHANGED <<pos, movable, phase, seen, top, ids, done, pend, quiet>> /\ Rows' = Rows
  BY DEF vars, tx, Rows
<1> QED
  BY <1>1 DEF IInv, TypeOK, PositionsDistinct, OneReorder, OrderFits, ViewDistinct, View,
              PassesFit, SecondFits, QuietReads

(* IInv is an invariant of service.go's reorder and of what runs beside it *)
(* for every set of rows and requests.                                     *)
THEOREM IInvHolds == Spec => []IInv
<1>1. IInv /\ [Next]_vars => IInv'
  BY InsertStep, MoveStep, DeleteStep, BeginStep, FirstPassStep, StartSecondPassStep,
     SecondPassStep, CommitStep, CancelStep, StutterStep DEF Next, Reorder
<1> QED
  BY <1>1, InitIInv, PTL DEF Spec

(* The state of the lists and of every reorder keeps its type, the bound   *)
(* PosLimit on the greatest position included.                             *)
THEOREM TypeCorrect == Spec => []TypeOK
<1>1. IInv => TypeOK
  BY DEF IInv
<1> QED
  BY <1>1, IInvHolds, PTL

(* Without a concurrent insert or move no UPDATE of a reorder meets the    *)
(* unique index: the temporary positions lie above every position read and *)
(* above every final one, however many rows there are.                     *)
THEOREM NoCollisions == Spec => []NoCollision
<1>1. IInv => NoCollision
  <2> SUFFICES ASSUME IInv, NEW q \in Request, quiet[q]
               PROVE  /\ phase[q] = "first" =>
                           \A i \in seen[q] \ Range(ids[q]) : ~Collides(q, i, Temporary(q))
                      /\ phase[q] = "second" /\ done[q] < Len(ids[q]) =>
                           ~Collides(q, ids[q][done[q] + 1], done[q])
    BY DEF NoCollision
  <2> USE DEF IInv
  <2>1. /\ ids[q] \in Seq(Item) /\ Len(ids[q]) \in Nat /\ top[q] \in Nat /\ done[q] \in Nat
        /\ Rows \subseteq Item
    BY OrderingAssumption DEF TypeOK, Rows
  <2>2. ASSUME phase[q] = "first", NEW j \in Rows PROVE View(q, j) # Temporary(q)
    <3>1. CASE j \in Range(ids[q])
      <4>1. PICK k \in 1..Len(ids[q]) : ids[q][k] = j
        BY <2>1, <3>1, RangeIndex
      <4>2. pend[q][j] = top[q] + k
        BY <2>2, <4>1 DEF PassesFit
      <4> QED
        BY <2>1, <4>2 DEF View, Temporary, None
    <3>2. CASE j \notin Range(ids[q])
      <4>1. View(q, j) = pos[j] /\ pos[j] <= top[q] /\ pos[j] \in Nat
        BY <2>1, <3>2 DEF OrderFits, QuietReads, View, TypeOK, Rows
      <4> QED
        BY <2>1, <4>1 DEF Temporary
    <3> QED
      BY <3>1, <3>2
  <2>3. ASSUME phase[q] = "second", done[q] < Len(ids[q]), NEW j \in Rows,
               j # ids[q][done[q] + 1]
        PROVE  View(q, j) # done[q]
    <3>1. PICK k \in 1..Len(ids[q]) : ids[q][k] = j
      BY <2>1, <2>3, RangeIndex DEF SecondFits, QuietReads
    <3>2. k # done[q] + 1
      BY <2>3, <3>1
    <3>3. pend[q][j] = IF k <= done[q] THEN k - 1 ELSE top[q] + k
      BY <2>3, <3>1 DEF PassesFit
    <3>4. pend[q][j] # None /\ pend[q][j] # done[q]
      BY <2>1, <3>2, <3>3 DEF None
    <3> QED
      BY <3>4 DEF View
  <2> QED
    BY <2>2, <2>3 DEF Collides
<1> QED
  BY <1>1, IInvHolds, PTL

(* A reorder that commits undisturbed puts every remaining row at its      *)
(* index in the client's list.                                             *)
THEOREM OrderIsApplied == Spec => OrderApplied
<1> DEFINE A == \A q \in Request :
      quiet[q] /\ phase[q] = "second" /\ phase'[q] = "idle" /\ pos' # pos =>
        /\ Rows \subseteq Range(ids[q])
        /\ \A k \in 1..Len(ids[q]) : ids[q][k] \in Rows => pos'[ids[q][k]] = k - 1
<1>1. IInv /\ [Next]_vars => [A]_vars
  <2> SUFFICES ASSUME IInv, Next, NEW q \in Request, quiet[q], phase[q] = "second",
                      phase'[q] = "idle", pos' # pos
               PROVE  /\ Rows \subseteq Range(ids[q])
                      /\ \A k \in 1..Len(ids[q]) : ids[q][k] \in Rows => pos'[ids[q][k]] = k - 1
    OBVIOUS
  <2> USE DEF IInv
  <2>1. Commit(q)
    <3>1. ~Insert /\ ~Move /\ ~Delete
      BY DEF Insert, Move, Delete, Disturb, tx
    <3>2. PICK r \in Request : Reorder(r)
      BY <3>1 DEF Next
    <3>3. Commit(r)
      BY <3>2 DEF Reorder, Begin, FirstPass, StartSecondPass, SecondPass, CancelReorder
    <3> QED
      BY <3>3 DEF Commit, OneReorder
  <2>2. Rows \subseteq Range(ids[q]) /\ Rows \subseteq Item
    BY DEF SecondFits, QuietReads, Rows
  <2>3. ASSUME NEW k \in 1..Len(ids[q]), ids[q][k] \in Rows PROVE pos'[ids[q][k]] = k - 1
    <3>1. pend[q][ids[q][k]] = k - 1 /\ k - 1 # None
      <4>1. Len(ids[q]) \in Nat /\ done[q] = Len(ids[q])
        BY <2>1 DEF TypeOK, Commit
      <4>2. k <= done[q] /\ k - 1 # -1
        BY <4>1
      <4> QED
        BY <2>3, <4>2 DEF PassesFit, None
    <3> QED
      BY <2>1, <2>2, <2>3, <3>1 DEF Commit, View
  <2> QED
    BY <2>2, <2>3
<1> QED
  BY <1>1, IInvHolds, PTL DEF Spec, OrderApplied

(* A reorder that commits gives the rows it has written positions below    *)
(* the length of its list, which no two rows share.                        *)
LEMMA CommitRenumbers ==
  ASSUME IInv, NEW q \in Request, Commit(q), OL!Distinct'
  PROVE  OL!Renumber
<1> USE DEF IInv
<1> DEFINE S == {i \in Rows : pend[q][i] # None}
           n == Len(ids[q])
           rank == [i \in S |-> pend[q][i]]
<1>1. ids[q] \in Seq(Item) /\ n \in Nat /\ Rows \subseteq Item /\ done[q] = n
  BY DEF TypeOK, Rows, Commit
<1>2. n \in 0..Cardinality(Item)
  <2>1. IsFiniteSet(1..n) /\ Cardinality(1..n) = n
    BY <1>1, FS_Interval
  <2>2. ids[q] \in Injection(1..n, Item)
    BY <1>1 DEF OrderFits, Injection, IsInjective
  <2>3. Cardinality(1..n) <= Cardinality(Item)
    BY <2>2, FS_Injection, OrderingAssumption
  <2>4. Cardinality(Item) \in Nat
    BY FS_CardinalityType, OrderingAssumption
  <2> QED
    BY <1>1, <2>1, <2>3, <2>4
<1>3. rank \in [S -> 0..(n - 1)]
  <2> SUFFICES ASSUME NEW i \in S PROVE pend[q][i] \in 0..(n - 1)
    OBVIOUS
  <2>1. PICK k \in 1..n : ids[q][k] = i
    BY <1>1, RangeIndex DEF OrderFits
  <2>2. k <= done[q]
    BY <1>1
  <2>3. pend[q][i] = k - 1
    BY <2>1, <2>2 DEF PassesFit, Commit
  <2> QED
    BY <1>1, <2>3
<1>4. pos' = [i \in Item |-> IF i \in S THEN rank[i] ELSE pos[i]]
  BY <1>1 DEF Commit, View, TypeOK, Rows
<1>5. S \in SUBSET OL!Listed
  BY DEF OL!Listed, Rows, TypeOK, None
<1> HIDE DEF S, n, rank
<1>6. \E f \in [S -> 0..(n - 1)] :
        pos' = [i \in Item |-> IF i \in S THEN f[i] ELSE pos[i]] /\ OL!Distinct'
  BY <1>3, <1>4
<1> QED
  BY <1>2, <1>5, <1>6 DEF OL!Renumber, OL!Cardinality, Cardinality

(* What clients see of the series or assignments while any number of       *)
(* reorders run, are cancelled or meet inserts, moves and deletes is a     *)
(* behaviour of OrderedList: a reorder applies whole or not at all.        *)
THEOREM Refinement == Spec => ListRefined
<1>1. ASSUME TypeOK PROVE OL!Listed = Rows
  BY <1>1 DEF OL!Listed, Rows, TypeOK, None
<1>2. Init => OL!Init
  <2> SUFFICES ASSUME Init PROVE OL!Init
    OBVIOUS
  <2>1. OL!Listed = Rows
    BY <1>1, InitIInv DEF IInv
  <2>2. pos \in [Item -> Int]
    BY OrderingAssumption DEF Init, None
  <2> QED
    BY <2>1, <2>2 DEF Init, OL!Init, OL!Distinct
<1>3. IInv /\ IInv' /\ [Next]_vars => [OL!Next]_<<pos, movable>>
  <2> SUFFICES ASSUME IInv, IInv', Next PROVE OL!Next \/ UNCHANGED <<pos, movable>>
    BY DEF vars
  <2>1. OL!Listed = Rows /\ OL!Listed' = Rows' /\ OL!Distinct'
    <3>1. OL!Listed = Rows
      BY <1>1 DEF IInv
    <3>2. OL!Listed' = Rows'
      BY DEF IInv, TypeOK, OL!Listed, Rows, None
    <3>3. PositionsDistinct'
      BY DEF IInv
    <3> QED
      BY <3>1, <3>2, <3>3 DEF OL!Distinct, PositionsDistinct
  <2>2. CASE Insert
    <3>1. PICK i \in Item \ Rows, p \in 0..MaxPos : Free(p) /\ pos' = [pos EXCEPT ![i] = p]
      BY <2>2 DEF Insert
    <3>2. pos'[i] = p /\ p >= 0 /\ UNCHANGED movable
      BY <2>2, <3>1, OrderingAssumption DEF Insert, Disturb, IInv, TypeOK
    <3> QED
      BY <2>1, <3>1, <3>2 DEF OL!Next, OL!Put, Free
  <2>3. CASE Move
    <3>1. PICK i \in Rows, p \in 0..MaxPos : Free(p) /\ pos' = [pos EXCEPT ![i] = p]
      BY <2>3 DEF Move
    <3>2. pos'[i] = p /\ p >= 0 /\ i \in Item /\ UNCHANGED movable /\ movable
      BY <2>3, <3>1, OrderingAssumption DEF Move, Disturb, IInv, TypeOK, Rows
    <3> QED
      BY <2>1, <3>1, <3>2 DEF OL!Next, OL!Put, Free
  <2>4. CASE Delete
    <3>1. PICK i \in Item : pos' = [pos EXCEPT ![i] = None]
      BY <2>4 DEF Delete, Rows
    <3> QED
      BY <2>4, <3>1 DEF OL!Next, OL!Remove, Delete, None
  <2>5. ASSUME NEW q \in Request, Reorder(q) PROVE OL!Next \/ UNCHANGED <<pos, movable>>
    <3>1. CASE Commit(q)
      <4>1. OL!Renumber
        BY <2>1, <3>1, CommitRenumbers
      <4> QED
        BY <3>1, <4>1 DEF OL!Next, Commit
    <3>2. CASE ~Commit(q)
      BY <2>5, <3>2 DEF Reorder, Begin, FirstPass, StartSecondPass, SecondPass, CancelReorder
    <3> QED
      BY <3>1, <3>2
  <2> QED
    BY <2>2, <2>3, <2>4, <2>5 DEF Next
<1> QED
  BY <1>2, <1>3, IInvHolds, PTL DEF Spec, ListRefined, OL!Spec
=============================================================================
