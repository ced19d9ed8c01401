---------------------------- MODULE AuthLimiter -----------------------------
(***************************************************************************)
(* The bound on password work of internal/server/handlers.go: Login and    *)
(* Register take one of a few slots, then allowAuthAttempt counts the      *)
(* attempt against its source address and against its email, in buckets    *)
(* that expire a window after they were opened.                            *)
(*                                                                         *)
(* Time is counted in ticks; a bucket and a reading of the clock carry     *)
(* their age, up to the age at which nothing depends on it any more.  The  *)
(* clock is read before the mutex is taken, and may be old when it is used *)
(* (MaxWait).  A request without a free slot is refused and changes        *)
(* nothing; a restart of the process begins at Init again.                 *)
(***************************************************************************)
EXTENDS Integers, FiniteSets

CONSTANTS Ip, Email,  \* keys of the two kinds of buckets
          Request,    \* requests in flight
          Slots,      \* 4: capacity of authWork
          Limit,      \* 10: attempts in a bucket
          Window,     \* a minute: the life of a bucket
          Cap,        \* 10000: buckets beyond which everyone is refused
          MaxWait,    \* ticks that pass at most while a request waits for the mutex
          Watched     \* the bucket the properties are about

Key == Ip \cup Email

ASSUME LimiterAssumption ==
  /\ {Slots, Limit, Window} \subseteq Nat \ {0} /\ {Cap, MaxWait} \subseteq Nat
  /\ MaxWait < Window /\ Watched \in Key /\ Ip \cap Email = {}

VARIABLES count, age,  \* of a bucket; count 0 is a key without a bucket
          pc,          \* of a request: "idle", "waiting" for the mutex, "working"
          keys,        \* the two keys of a request
          wait,        \* the age of the clock reading of a request
          back         \* history: how long ago the n-th last admission on Watched was

vars == <<count, age, pc, keys, wait, back>>

OldAge == Window + MaxWait
Horizon == Window - MaxWait  \* an admission that long ago does not matter any more
Last == 1..(2 * Limit)

Init ==
  /\ count = [k \in Key |-> 0] /\ age = [k \in Key |-> 0]
  /\ pc = [q \in Request |-> "idle"] /\ keys = [q \in Request |-> {}]
  /\ wait = [q \in Request |-> 0]
  /\ back = [n \in Last |-> Horizon]

InWork == {q \in Request : pc[q] # "idle"}

(* Login and Register: a slot, the form, the clock.                        *)
Arrive(q) ==
  /\ pc[q] = "idle" /\ Cardinality(InWork) < Slots
  /\ pc' = [pc EXCEPT ![q] = "waiting"]
  /\ \E ip \in Ip, email \in Email : keys' = [keys EXCEPT ![q] = {ip, email}]
  /\ UNCHANGED <<count, age, wait, back>>

(* The slot is given back.                                                 *)
Leave(q) ==
  /\ pc' = [pc EXCEPT ![q] = "idle"] /\ keys' = [keys EXCEPT ![q] = {}]
  /\ wait' = [wait EXCEPT ![q] = 0]

(* The buckets that are left when those as old as the window, by the clock *)
(* reading of q, are deleted.                                              *)
Kept(q) == {k \in Key : count[k] > 0 /\ age[k] - wait[q] < Window}

Full_Mutant(q) == FALSE  \* the table is not capped

Full(q) == Cardinality(Kept(q)) > Cap

Exhausted_Mutant(q) == \E k \in keys[q] \cap Kept(q) \cap Ip : count[k] >= Limit  \* the email is not looked up
Exhausted_Late(q) == \E k \in keys[q] \cap Kept(q) : count[k] > Limit  \* off by one

Exhausted(q) == \E k \in keys[q] \cap Kept(q) : count[k] >= Limit

Counts(c, a, q) ==
  LET kept == Kept(q)
  IN  /\ count' = [k \in Key |-> (IF k \in kept THEN count[k] ELSE 0) + (IF k \in c THEN 1 ELSE 0)]
      /\ age' = [k \in Key |-> IF k \in kept THEN age[k] ELSE IF k \in c THEN a ELSE 0]

(* allowAuthAttempt says yes: both buckets count the attempt, a new one    *)
(* opens at the clock reading.                                             *)
Admit(q) ==
  /\ pc[q] = "waiting" /\ ~Full(q) /\ ~Exhausted(q)
  /\ Counts(keys[q], wait[q], q)
  /\ pc' = [pc EXCEPT ![q] = "working"] /\ wait' = [wait EXCEPT ![q] = 0]
  /\ back' = IF Watched \in keys[q] THEN [n \in Last |-> IF n = 1 THEN 0 ELSE back[n - 1]] ELSE back
  /\ UNCHANGED keys

Refuse_Mutant(q) ==  \* a refused attempt opens the bucket anew
  /\ pc[q] = "waiting" /\ (Full(q) \/ Exhausted(q))
  /\ count' = [k \in Key |-> IF k \in Kept(q) THEN count[k] ELSE 0]
  /\ age' = [k \in Key |-> IF k \in Kept(q) \ keys[q] THEN age[k] ELSE 0]
  /\ Leave(q)
  /\ UNCHANGED back

(* It says no, having deleted the old buckets.                             *)
Refuse(q) ==
  /\ pc[q] = "waiting" /\ (Full(q) \/ Exhausted(q))
  /\ Counts({}, 0, q)
  /\ Leave(q)
  /\ UNCHANGED back

(* The rest of the request: validation, bcrypt, the session.               *)
Finish(q) ==
  /\ pc[q] = "working" /\ Leave(q)
  /\ UNCHANGED <<count, age, back>>

Older(n) == IF n < OldAge THEN n + 1 ELSE n

Tick ==
  /\ \A q \in Request : pc[q] = "waiting" => wait[q] < MaxWait
  /\ age' = [k \in Key |-> IF count[k] > 0 THEN Older(age[k]) ELSE 0]
  /\ wait' = [q \in Request |-> IF pc[q] = "waiting" THEN wait[q] + 1 ELSE 0]
  /\ back' = [n \in Last |-> IF back[n] < Horizon THEN back[n] + 1 ELSE Horizon]
  /\ UNCHANGED <<count, pc, keys>>

Step(q) == Arrive(q) \/ Admit(q) \/ Refuse(q) \/ Finish(q)
Next == Tick \/ \E q \in Request : Step(q)

Spec == Init /\ [][Next]_vars

(* Time passes, the mutex is handed to every waiter (Go's mutex does not   *)
(* starve), and handlers end.                                              *)
FairSpec ==
  /\ Spec /\ WF_vars(Tick)
  /\ \A q \in Request : WF_vars(Admit(q) \/ Refuse(q)) /\ WF_vars(Finish(q))

-----------------------------------------------------------------------------
(* Properties.                                                             *)

TypeOK ==
  /\ count \in [Key -> 0..Limit] /\ age \in [Key -> 0..OldAge]
  /\ pc \in [Request -> {"idle", "waiting", "working"}]
  /\ keys \in [Request -> SUBSET Key] /\ wait \in [Request -> 0..MaxWait]
  /\ back \in [Last -> 0..Horizon]

(* "Bound costly bcrypt work by both source address and normalized email"  *)
(* (handlers.go:291): of any 2 * Limit attempts on a key that reach the    *)
(* password check one after the other, the first and the last lie at least *)
(* a window less the longest wait for the mutex apart.  A whole window can *)
(* see more: the clock is read before the mutex is won (handlers.go:300),  *)
(* so that a waiter with an old reading opens a bucket again that a later  *)
(* request has just deleted, and dates it back.                            *)
WorkBounded == back[2 * Limit] >= Horizon

(* The table of allowAuthAttempt stays within its cap and the two buckets  *)
(* of the last attempt that was let in.                                    *)
TableBounded == Cardinality({k \in Key : count[k] > 0}) <= Cap + 2

(* "The buckets expire quickly so a client cannot permanently lock out an  *)
(* account" (handlers.go:291): whatever the other requests do, again and   *)
(* again there is an instant at which the bucket of an account has room    *)
(* and the table is below its cap.                                         *)
Fresh == {k \in Key : count[k] > 0 /\ age[k] < Window}
NotLockedOut ==
  []<>(Cardinality(Fresh) <= Cap /\ (Watched \in Fresh => count[Watched] < Limit))

-----------------------------------------------------------------------------
(* The inductive invariant of the proofs.                                  *)

Pair == {{ip, email} : ip \in Ip, email \in Email}
KeysFit == \A q \in Request : keys[q] \in Pair \cup {{}}

Bucket == {k \in Key : count[k] > 0}
BucketsFit == IsFiniteSet(Bucket) /\ Cardinality(Bucket) <= Cap + 2

(* The attempts that the bucket of Watched counts are the last ones, the   *)
(* first of them about as old as the bucket; and fewer than Limit of those *)
(* before them can be recent.                                              *)
Ordered == \A m, n \in Last : m <= n => back[m] <= back[n]
FirstCounted == count[Watched] > 0 => \/ back[count[Watched]] >= Horizon
                                      \/ back[count[Watched]] >= age[Watched] - MaxWait
FewBefore == back[count[Watched] + Limit] >= Horizon

IInv == TypeOK /\ KeysFit /\ BucketsFit /\ Ordered /\ FirstCounted /\ FewBefore
=============================================================================
