-------------------------- MODULE AuthLimiterProofs -------------------------
(***************************************************************************)
(* Proofs about AuthLimiter, for any addresses, emails, requests, limit,   *)
(* window, cap and longest wait for the mutex.  The sets of keys need not  *)
(* be finite: the table is.                                                *)
(***************************************************************************)
EXTENDS AuthLimiter, FiniteSetTheorems, TLAPS

-----------------------------------------------------------------------------
(* The constants, and what the deletion of old buckets leaves.             *)

LEMMA Constants ==
  /\ Limit \in Nat /\ Limit > 0 /\ Window \in Nat /\ Cap \in Nat /\ MaxWait \in Nat
  /\ Horizon \in Nat /\ Horizon > 0 /\ OldAge \in Nat /\ MaxWait <= OldAge
  /\ 2 * Limit \in Last /\ 1 \in Last /\ Horizon <= Window - MaxWait
  BY LimiterAssumption DEF Horizon, OldAge, Last

(* The keys of an attempt are at most two.                                 *)
LEMMA PairsAreSmall ==
  ASSUME NEW s \in Pair \cup {{}}
  PROVE  IsFiniteSet(s) /\ Cardinality(s) <= 2 /\ s \subseteq Key
<1>1. CASE s = {}
  BY <1>1, FS_EmptySet
<1>2. CASE s \in Pair
  <2>1. PICK ip \in Ip, email \in Email : s = {ip, email}
    BY <1>2 DEF Pair
  <2>2. IsFiniteSet({ip}) /\ Cardinality({ip}) = 1
    BY FS_Singleton
  <2>3. s = {ip} \cup {email}
    BY <2>1
  <2>4. IsFiniteSet(s) /\ Cardinality(s) <= 2
    BY <2>2, <2>3, FS_AddElement
  <2> QED
    BY <2>1, <2>4 DEF Key
<1> QED
  BY <1>1, <1>2

(* Counting the keys c of a request q: a bucket is kept, goes on counting  *)
(* or opens, and what is not kept is forgotten.                            *)
LEMMA CountsTypes ==
  ASSUME TypeOK, NEW q \in Request, NEW c \in SUBSET Key, NEW a \in 0..MaxWait, Counts(c, a, q),
         \A k \in c \cap Kept(q) : count[k] < Limit
  PROVE  /\ count' \in [Key -> 0..Limit] /\ age' \in [Key -> 0..OldAge]
         /\ Bucket' = Kept(q) \cup c
<1>1. ASSUME NEW k \in Key
      PROVE  /\ count'[k] \in 0..Limit /\ age'[k] \in 0..OldAge
             /\ count'[k] > 0 <=> k \in Kept(q) \cup c
  <2>1. /\ count[k] \in 0..Limit /\ age[k] \in 0..OldAge
        /\ k \in Kept(q) => count[k] > 0
    BY DEF TypeOK, Kept
  <2>2. /\ count'[k] = IF k \in Kept(q) \/ k \in c THEN
                         (IF k \in Kept(q) THEN count[k] ELSE 0) + (IF k \in c THEN 1 ELSE 0) ELSE 0
        /\ age'[k] = IF k \in Kept(q) THEN age[k] ELSE IF k \in c THEN a ELSE 0
    BY DEF Counts
  <2>3. k \in c /\ k \in Kept(q) => count[k] < Limit
    OBVIOUS
  <2> QED
    BY <2>1, <2>2, <2>3, Constants
<1>2. count' \in [Key -> 0..Limit] /\ age' \in [Key -> 0..OldAge]
  BY <1>1 DEF Counts
<1>3. Kept(q) \cup c \subseteq Key
  BY DEF Kept
<1> QED
  BY <1>1, <1>2, <1>3 DEF Bucket

(* The table, when at most Cap buckets are kept or none is opened.         *)
LEMMA TableFits ==
  ASSUME TypeOK, BucketsFit, NEW q \in Request, NEW c \in Pair \cup {{}},
         c = {} \/ ~Full(q), Bucket' = Kept(q) \cup c
  PROVE  BucketsFit'
<1>1. Kept(q) \subseteq Bucket
  BY DEF Kept, Bucket
<1>2. IsFiniteSet(Kept(q)) /\ Cardinality(Kept(q)) <= Cap + 2 /\ Cardinality(Kept(q)) \in Nat
  <2>1. /\ IsFiniteSet(Kept(q)) /\ Cardinality(Kept(q)) <= Cardinality(Bucket)
        /\ Cardinality(Kept(q)) \in Nat /\ Cardinality(Bucket) \in Nat
    BY <1>1, FS_Subset, FS_CardinalityType DEF BucketsFit
  <2> QED
    BY <2>1, Constants DEF BucketsFit
<1>3. CASE c = {}
  BY <1>2, <1>3 DEF BucketsFit
<1>4. CASE ~Full(q)
  <2>1. IsFiniteSet(c) /\ Cardinality(c) <= 2 /\ Cardinality(c) \in Nat
    BY PairsAreSmall, FS_CardinalityType
  <2>2. Cardinality(Kept(q)) <= Cap
    BY <1>2, <1>4, Constants DEF Full
  <2>3. /\ IsFiniteSet(Kept(q) \cup c)
        /\ Cardinality(Kept(q) \cup c) = Cardinality(Kept(q)) + Cardinality(c) - Cardinality(Kept(q) \cap c)
        /\ Cardinality(Kept(q) \cap c) \in Nat
    BY <1>2, <2>1, FS_Union, FS_Intersection, FS_CardinalityType
  <2> QED
    BY <1>2, <2>1, <2>2, <2>3, Constants DEF BucketsFit
<1> QED
  BY <1>3, <1>4

-----------------------------------------------------------------------------
(* The bucket of Watched and the history of its admissions.                *)

(* A deletion finds the first attempt of the bucket beyond the horizon.    *)
LEMMA DeletedIsOld ==
  ASSUME TypeOK, FirstCounted, NEW q \in Request, Watched \notin Kept(q), count[Watched] > 0
  PROVE  back[count[Watched]] >= Horizon
<1>1. /\ Watched \in Key /\ age[Watched] \in Nat /\ wait[q] \in Nat /\ count[Watched] \in Last
      /\ count[Watched] \in 0..Limit
  BY LimiterAssumption, Constants DEF TypeOK, Last
<1>2. back[count[Watched]] \in Nat
  BY <1>1, Constants DEF TypeOK
<1>3. age[Watched] >= Window
  BY <1>1, Constants DEF Kept
<1> QED
  BY <1>2, <1>3, <1>1, Constants DEF FirstCounted

(* Without an admission on Watched, its bucket is kept or deleted.         *)
LEMMA HistoryKept ==
  ASSUME TypeOK, Ordered, FirstCounted, FewBefore, NEW q \in Request, UNCHANGED back,
         \/ count'[Watched] = count[Watched] /\ age'[Watched] = age[Watched]
         \/ Watched \notin Kept(q) /\ count'[Watched] = 0
  PROVE  Ordered' /\ FirstCounted' /\ FewBefore'
<1>1. count[Watched] \in 0..Limit /\ back \in [Last -> 0..Horizon]
  BY LimiterAssumption DEF TypeOK
<1>2. Ordered'
  BY DEF Ordered
<1>3. CASE count'[Watched] = count[Watched] /\ age'[Watched] = age[Watched]
  BY <1>2, <1>3 DEF FirstCounted, FewBefore
<1>4. CASE Watched \notin Kept(q) /\ count'[Watched] = 0
  <2>1. FirstCounted'
    BY <1>4 DEF FirstCounted
  <2>2. CASE count[Watched] = 0
    BY <1>2, <1>4, <2>1, <2>2 DEF FewBefore
  <2>3. CASE count[Watched] > 0
    <3>1. back[count[Watched]] >= Horizon
      BY <1>4, <2>3, DeletedIsOld
    <3>2. count[Watched] \in Last /\ Limit \in Last /\ count[Watched] <= Limit
      BY <1>1, <2>3, Constants DEF Last
    <3>3. back[count[Watched]] <= back[Limit] /\ back[count[Watched]] \in 0..Horizon
          /\ back[Limit] \in 0..Horizon
      BY <1>1, <3>2 DEF Ordered
    <3>4. back[Limit] >= Horizon
      BY <3>1, <3>3, Constants
    <3> QED
      BY <1>2, <1>4, <2>1, <3>4, Constants DEF FewBefore
  <2> QED
    BY <1>1, <2>2, <2>3, Constants
<1> QED
  BY <1>3, <1>4

(* An admission on Watched: the history moves up by one.                   *)
LEMMA HistoryMoves ==
  ASSUME TypeOK, Ordered, FirstCounted, FewBefore, NEW q \in Request, ~Exhausted(q),
         Watched \in keys[q], Counts(keys[q], wait[q], q),
         back' = [n \in Last |-> IF n = 1 THEN 0 ELSE back[n - 1]]
  PROVE  Ordered' /\ FirstCounted' /\ FewBefore' /\ back' \in [Last -> 0..Horizon]
<1> DEFINE c == IF Watched \in Kept(q) THEN count[Watched] ELSE 0
<1>1. /\ Watched \in Key /\ count[Watched] \in 0..Limit /\ back \in [Last -> 0..Horizon]
      /\ wait[q] \in 0..MaxWait /\ age[Watched] \in 0..OldAge
  BY LimiterAssumption DEF TypeOK
<1>2. /\ count'[Watched] = c + 1
      /\ age'[Watched] = IF Watched \in Kept(q) THEN age[Watched] ELSE wait[q]
  BY <1>1 DEF Counts
<1>3. c \in 0..(Limit - 1)
  <2>1. Watched \in Kept(q) => count[Watched] < Limit
    BY <1>1, Constants DEF Exhausted
  <2> QED
    BY <1>1, <2>1, Constants
<1>4. back[c + Limit] >= Horizon
  <2>1. CASE Watched \in Kept(q) \/ count[Watched] = 0
    BY <2>1 DEF FewBefore
  <2>2. CASE Watched \notin Kept(q) /\ count[Watched] > 0
    <3>1. back[count[Watched]] >= Horizon
      BY <2>2, DeletedIsOld
    <3>2. count[Watched] \in Last /\ Limit \in Last /\ count[Watched] <= Limit /\ c + Limit = Limit
      BY <1>1, <2>2, Constants DEF Last
    <3>3. /\ back[count[Watched]] <= back[Limit] /\ back[count[Watched]] \in 0..Horizon
          /\ back[Limit] \in 0..Horizon
      BY <1>1, <3>2 DEF Ordered
    <3> QED
      BY <3>1, <3>2, <3>3, Constants
  <2> QED
    BY <1>1, <2>1, <2>2, Constants
<1>5. c > 0 => back[c] >= Horizon \/ back[c] >= age'[Watched] - MaxWait
  BY <1>2 DEF FirstCounted
<1> HIDE DEF c
<1>6. \A n \in Last : n # 1 => n - 1 \in Last
  BY Constants DEF Last
<1>7. back' \in [Last -> 0..Horizon]
  BY <1>1, <1>6, Constants
<1>8. Ordered'
  <2> SUFFICES ASSUME NEW m \in Last, NEW n \in Last, m <= n PROVE back'[m] <= back'[n]
    BY DEF Ordered
  <2>1. CASE m = 1
    <3>1. back'[m] = 0 /\ back'[n] \in 0..Horizon
      BY <1>7, <2>1
    <3> QED
      BY <3>1, Constants
  <2>2. CASE m # 1
    <3>1. n # 1 /\ m - 1 \in Last /\ n - 1 \in Last /\ m - 1 <= n - 1
      BY <1>6, <2>2, Constants DEF Last
    <3> QED
      BY <2>2, <3>1 DEF Ordered
  <2> QED
    BY <2>1, <2>2
<1>9. FewBefore'
  <2>1. c + 1 + Limit \in Last /\ c + 1 + Limit # 1 /\ (c + 1 + Limit) - 1 = c + Limit
    BY <1>3, Constants DEF Last
  <2>2. back'[c + 1 + Limit] = back[c + Limit]
    BY <2>1
  <2> QED
    BY <1>2, <1>4, <2>2 DEF FewBefore, Horizon
<1>10. FirstCounted'
  <2>1. c + 1 \in Last /\ c \in Nat /\ (c + 1) - 1 = c
    BY <1>3, Constants DEF Last
  <2>2. CASE c = 0
    <3>1. back'[c + 1] = 0 /\ age'[Watched] - MaxWait <= 0
      <4>1. Watched \notin Kept(q)
        BY <2>2, <1>1, Constants DEF c, Kept
      <4> QED
        BY <1>1, <1>2, <2>1, <2>2, <4>1, Constants
    <3> QED
      BY <1>1, <1>2, <3>1, Constants DEF FirstCounted
  <2>3. CASE c > 0
    <3>1. back'[c + 1] = back[c]
      BY <2>1, <2>3
    <3> QED
      BY <1>2, <1>5, <2>3, <3>1 DEF FirstCounted, Horizon
  <2> QED
    BY <2>1, <2>2, <2>3
<1> QED
  BY <1>7, <1>8, <1>9, <1>10

-----------------------------------------------------------------------------
(* The steps.                                                              *)

LEMMA ArriveInv ==
  ASSUME IInv, NEW q \in Request, Arrive(q)
  PROVE  IInv'
<1>1. UNCHANGED <<count, age, wait, back>> /\ pc' = [pc EXCEPT ![q] = "waiting"]
  BY DEF Arrive
<1>2. PICK ip \in Ip, email \in Email : keys' = [keys EXCEPT ![q] = {ip, email}]
  BY DEF Arrive
<1>3. {ip, email} \in Pair /\ {ip, email} \in SUBSET Key
  BY DEF Pair, Key
<1>4. TypeOK'
  BY <1>1, <1>2, <1>3 DEF IInv, TypeOK
<1>5. KeysFit'
  BY <1>2, <1>3 DEF IInv, KeysFit, TypeOK
<1>6. BucketsFit' /\ Ordered' /\ FirstCounted' /\ FewBefore'
  BY <1>1 DEF IInv, BucketsFit, Bucket, Ordered, FirstCounted, FewBefore
<1> QED
  BY <1>4, <1>5, <1>6 DEF IInv

LEMMA LeaveTypes ==
  ASSUME TypeOK, KeysFit, NEW q \in Request, Leave(q)
  PROVE  /\ pc' \in [Request -> {"idle", "waiting", "working"}] /\ keys' \in [Request -> SUBSET Key]
         /\ wait' \in [Request -> 0..MaxWait] /\ KeysFit'
  BY Constants DEF TypeOK, KeysFit, Leave

LEMMA FinishInv ==
  ASSUME IInv, NEW q \in Request, Finish(q)
  PROVE  IInv'
<1>1. UNCHANGED <<count, age, back>> /\ Leave(q)
  BY DEF Finish
<1>2. TypeOK' /\ KeysFit'
  BY <1>1, LeaveTypes DEF IInv, TypeOK
<1>3. BucketsFit' /\ Ordered' /\ FirstCounted' /\ FewBefore'
  BY <1>1 DEF IInv, BucketsFit, Bucket, Ordered, FirstCounted, FewBefore
<1> QED
  BY <1>2, <1>3 DEF IInv

LEMMA RefuseInv ==
  ASSUME IInv, NEW q \in Request, Refuse(q)
  PROVE  IInv'
<1>1. UNCHANGED back /\ Leave(q) /\ Counts({}, 0, q)
  BY DEF Refuse
<1>2. /\ count' \in [Key -> 0..Limit] /\ age' \in [Key -> 0..OldAge]
      /\ Bucket' = Kept(q) \cup {}
  <2>1. 0 \in 0..MaxWait /\ {} \in SUBSET Key
    BY Constants
  <2> QED
    BY <1>1, <2>1, CountsTypes DEF IInv
<1>3. BucketsFit'
  BY <1>2, TableFits DEF IInv
<1>4. TypeOK' /\ KeysFit'
  BY <1>1, <1>2, LeaveTypes DEF IInv, TypeOK
<1>5. \/ count'[Watched] = count[Watched] /\ age'[Watched] = age[Watched]
      \/ Watched \notin Kept(q) /\ count'[Watched] = 0
  <2>1. count[Watched] \in 0..Limit
    BY LimiterAssumption DEF IInv, TypeOK
  <2> QED
    BY <1>1, <2>1, LimiterAssumption, Constants DEF Counts
<1>6. Ordered' /\ FirstCounted' /\ FewBefore'
  BY <1>1, <1>5, HistoryKept DEF IInv
<1> QED
  BY <1>3, <1>4, <1>6 DEF IInv

LEMMA AdmitInv ==
  ASSUME IInv, NEW q \in Request, Admit(q)
  PROVE  IInv'
<1>1. /\ ~Full(q) /\ ~Exhausted(q) /\ Counts(keys[q], wait[q], q)
      /\ pc' = [pc EXCEPT ![q] = "working"] /\ wait' = [wait EXCEPT ![q] = 0] /\ UNCHANGED keys
      /\ back' = IF Watched \in keys[q] THEN [n \in Last |-> IF n = 1 THEN 0 ELSE back[n - 1]] ELSE back
  BY DEF Admit
<1>2. keys[q] \in SUBSET Key /\ keys[q] \in Pair \cup {{}} /\ wait[q] \in 0..MaxWait
  BY DEF IInv, TypeOK, KeysFit
<1>3. \A k \in keys[q] \cap Kept(q) : count[k] < Limit
  <2>1. \A k \in Kept(q) : count[k] \in Nat
    BY DEF IInv, TypeOK, Kept
  <2> QED
    BY <1>1, <2>1, Constants DEF Exhausted
<1>4. /\ count' \in [Key -> 0..Limit] /\ age' \in [Key -> 0..OldAge]
      /\ Bucket' = Kept(q) \cup keys[q]
  BY <1>1, <1>2, <1>3, CountsTypes DEF IInv
<1>5. BucketsFit'
  BY <1>1, <1>2, <1>4, TableFits DEF IInv
<1>6. Ordered' /\ FirstCounted' /\ FewBefore' /\ back' \in [Last -> 0..Horizon]
  <2>1. CASE Watched \in keys[q]
    BY <1>1, <2>1, HistoryMoves DEF IInv
  <2>2. CASE Watched \notin keys[q]
    <3>1. count[Watched] \in 0..Limit
      BY LimiterAssumption DEF IInv, TypeOK
    <3>2. \/ count'[Watched] = count[Watched] /\ age'[Watched] = age[Watched]
          \/ Watched \notin Kept(q) /\ count'[Watched] = 0
      BY <1>1, <2>2, <3>1, LimiterAssumption, Constants DEF Counts
    <3> QED
      BY <1>1, <2>2, <3>2, HistoryKept DEF IInv, TypeOK
  <2> QED
    BY <2>1, <2>2
<1>7. TypeOK' /\ KeysFit'
  BY <1>1, <1>4, <1>6, Constants DEF IInv, TypeOK, KeysFit
<1> QED
  BY <1>5, <1>6, <1>7 DEF IInv

LEMMA TickInv ==
  ASSUME IInv, Tick
  PROVE  IInv'
<1>1. /\ UNCHANGED <<count, pc, keys>>
      /\ age' = [k \in Key |-> IF count[k] > 0 THEN Older(age[k]) ELSE 0]
      /\ wait' = [q \in Request |-> IF pc[q] = "waiting" THEN wait[q] + 1 ELSE 0]
      /\ back' = [n \in Last |-> IF back[n] < Horizon THEN back[n] + 1 ELSE Horizon]
      /\ \A q \in Request : pc[q] = "waiting" => wait[q] < MaxWait
  BY DEF Tick
<1>2. age' \in [Key -> 0..OldAge]
  BY <1>1, Constants DEF IInv, TypeOK, Older
<1>3. wait' \in [Request -> 0..MaxWait]
  BY <1>1, Constants DEF IInv, TypeOK
<1>4. back' \in [Last -> 0..Horizon] /\ \A n \in Last : back[n] \in 0..Horizon
  BY <1>1, Constants DEF IInv, TypeOK
<1>5. TypeOK' /\ KeysFit' /\ BucketsFit'
  BY <1>1, <1>2, <1>3, <1>4 DEF IInv, TypeOK, KeysFit, BucketsFit, Bucket
<1>6. Ordered'
  <2> SUFFICES ASSUME NEW m \in Last, NEW n \in Last, m <= n PROVE back'[m] <= back'[n]
    BY DEF Ordered
  <2>1. back[m] <= back[n]
    BY DEF IInv, Ordered
  <2> QED
    BY <1>1, <1>4, <2>1, Constants
<1>7. /\ count[Watched] \in 0..Limit /\ count'[Watched] = count[Watched]
      /\ age[Watched] \in 0..OldAge
      /\ count[Watched] > 0 => age'[Watched] <= age[Watched] + 1
  BY <1>1, LimiterAssumption, Constants DEF IInv, TypeOK, Older
<1>8. FewBefore'
  <2>1. count[Watched] + Limit \in Last
    BY <1>7, Constants DEF Last
  <2> QED
    BY <1>1, <1>4, <1>7, <2>1, Constants DEF IInv, FewBefore
<1>9. FirstCounted'
  <2> SUFFICES ASSUME count[Watched] > 0
               PROVE  \/ back'[count[Watched]] >= Horizon
                      \/ back'[count[Watched]] >= age'[Watched] - MaxWait
    BY <1>7 DEF FirstCounted, Horizon
  <2>1. count[Watched] \in Last
    BY <1>7, Constants DEF Last
  <2>2. age'[Watched] \in Nat
    BY <1>2, LimiterAssumption, Constants
  <2> QED
    BY <1>1, <1>4, <1>7, <2>1, <2>2, Constants DEF IInv, FirstCounted
<1> QED
  BY <1>5, <1>6, <1>8, <1>9 DEF IInv

-----------------------------------------------------------------------------
(* The invariant.                                                          *)

LEMMA InitInv == Init => IInv
<1> SUFFICES ASSUME Init PROVE IInv
  OBVIOUS
<1>1. TypeOK /\ KeysFit
  BY Constants DEF Init, TypeOK, KeysFit
<1>2. Bucket = {}
  BY DEF Init, Bucket
<1>3. BucketsFit
  BY <1>2, FS_EmptySet, Constants DEF BucketsFit
<1>4. count[Watched] = 0 /\ Limit \in Last
  BY LimiterAssumption, Constants DEF Init, Last
<1>5. Ordered /\ FirstCounted /\ FewBefore
  BY <1>4, Constants DEF Init, Ordered, FirstCounted, FewBefore
<1> QED
  BY <1>1, <1>3, <1>5 DEF IInv

LEMMA NextInv == IInv /\ [Next]_vars => IInv'
<1> SUFFICES ASSUME IInv, [Next]_vars PROVE IInv'
  OBVIOUS
<1>1. ASSUME NEW q \in Request, Step(q) PROVE IInv'
  BY <1>1, ArriveInv, AdmitInv, RefuseInv, FinishInv DEF Step
<1>2. CASE UNCHANGED vars
  BY <1>2 DEF vars, IInv, TypeOK, KeysFit, BucketsFit, Bucket, Ordered, FirstCounted, FewBefore
<1> QED
  BY <1>1, <1>2, TickInv DEF Next

LEMMA Invariance == Spec => []IInv
  BY InitInv, NextInv, PTL DEF Spec

(* No bucket counts more attempts than the limit, whatever clock readings  *)
(* the requests bring to the mutex.                                        *)
THEOREM TypeCorrect == Spec => []TypeOK
  BY Invariance, PTL DEF IInv

(* Of any 2 * Limit attempts on a key that reach the password check, the   *)
(* first and the last are at least a window less the longest wait for the  *)
(* mutex apart: a bucket is deleted only when its first attempt is that    *)
(* old, and a new one counts no further than the limit                     *)
(* (handlers.go:305-331).                                                  *)
THEOREM WorkIsBounded == Spec => []WorkBounded
<1>1. ASSUME IInv PROVE WorkBounded
  <2>1. count[Watched] \in 0..Limit /\ back \in [Last -> 0..Horizon]
    BY <1>1, LimiterAssumption DEF IInv, TypeOK
  <2>2. /\ count[Watched] + Limit \in Last /\ 2 * Limit \in Last
        /\ count[Watched] + Limit <= 2 * Limit
    BY <2>1, Constants DEF Last
  <2>3. /\ back[count[Watched] + Limit] <= back[2 * Limit]
        /\ back[count[Watched] + Limit] \in 0..Horizon /\ back[2 * Limit] \in 0..Horizon
    BY <1>1, <2>1, <2>2 DEF IInv, Ordered
  <2> QED
    BY <1>1, <2>3, Constants DEF IInv, FewBefore, WorkBounded
<1> QED
  BY <1>1, Invariance, PTL

(* The table never holds more than its cap and the two buckets of the last *)
(* attempt let in, however many addresses and emails there are             *)
(* (handlers.go:310).                                                      *)
THEOREM TableIsBounded == Spec => []TableBounded
<1>1. ASSUME IInv PROVE TableBounded
  BY <1>1 DEF IInv, BucketsFit, Bucket, TableBounded
<1> QED
  BY <1>1, Invariance, PTL
=============================================================================
