-------------------------- MODULE MigrationsProofs --------------------------
(***************************************************************************)
(* Proofs about Migrations, for any number of processes and crashes and on *)
(* both databases: what is recorded is there, sessions are refused rather  *)
(* than deleted, and on PostgreSQL no process works on a stale reading.    *)
(***************************************************************************)
EXTENDS Migrations, TLAPS

-----------------------------------------------------------------------------
(* The migrations.                                                         *)

(* A database with another schema, or with one version more.               *)
LEMMA WithSchema ==
  ASSUME NEW d \in Database, NEW s \in SUBSET Fact, NEW e, e = [d EXCEPT !.schema = s]
  PROVE  e \in Database /\ e.schema = s /\ e.done = d.done /\ e.rows = d.rows
  BY DEF Database

LEMMA WithVersion ==
  ASSUME NEW d \in Database, NEW v \in Version, d.done \cup {v} = 1..v,
         NEW e, e = [d EXCEPT !.done = @ \cup {v}]
  PROVE  e \in Database /\ e.schema = d.schema /\ e.done = 1..v /\ e.rows = d.rows
<1>1. 1..v \in {1..n : n \in 0..7}
  BY DEF Version
<1> QED
  BY <1>1 DEF Database

(* The facts, one by one.                                                  *)
LEMMA FactSet ==
  Fact = {"users", "contests", "hash", "fk", "expiry", "required", "content", "access",
          "scoped", "raw", "global"}
<1>1. UpTo(7) = Adds[1] \cup Adds[2] \cup Adds[3] \cup Adds[4] \cup Adds[5] \cup Adds[6] \cup Adds[7]
  <2>1. 1..7 = {1, 2, 3, 4, 5, 6, 7}
    OBVIOUS
  <2> QED
    BY <2>1 DEF UpTo
<1> QED
  BY <1>1 DEF Fact, Adds

(* What the recorded versions promise, one by one.                         *)
LEMMA SoundParts ==
  ASSUME NEW d \in Database
  PROVE  (\A v \in d.done : Adds[v] \subseteq d.schema) <=>
           /\ 1 \in d.done => "users" \in d.schema /\ "contests" \in d.schema
           /\ 2 \in d.done => "hash" \in d.schema
           /\ 3 \in d.done => "fk" \in d.schema /\ "expiry" \in d.schema
           /\ 4 \in d.done => "required" \in d.schema
           /\ 5 \in d.done => "content" \in d.schema
           /\ 6 \in d.done => "access" \in d.schema
           /\ 7 \in d.done => "scoped" \in d.schema
<1>1. \A v \in d.done : v \in {1, 2, 3, 4, 5, 6, 7}
  BY DEF Database
<1>2. /\ Adds[1] = {"users", "contests"} /\ Adds[2] = {"hash"} /\ Adds[3] = {"fk", "expiry"}
      /\ Adds[4] = {"required"} /\ Adds[5] = {"content"} /\ Adds[6] = {"access"}
      /\ Adds[7] = {"scoped"}
  BY DEF Adds
<1> QED
  BY <1>1, <1>2

(* A transaction that has applied the versions before v, and not v, has    *)
(* applied these only.                                                     *)
LEMMA DoneBefore ==
  ASSUME NEW d \in Database, NEW v \in Version, 1..(v - 1) \subseteq d.done, v \notin d.done
  PROVE  d.done = 1..(v - 1) /\ d.done \cup {v} = 1..v
<1>1. PICK n \in 0..7 : d.done = 1..n
  BY DEF Database
<1>2. n = v - 1
  <2>1. n < v
    BY <1>1 DEF Version
  <2>2. v - 1 <= n
    BY <1>1 DEF Version
  <2> QED
    BY <2>1, <2>2 DEF Version
<1> QED
  BY <1>1, <1>2 DEF Version

(* A rebuild loses nothing but the constraint and the index.               *)
LEMMA RebuildKeeps ==
  ASSUME NEW schema \in SUBSET Fact, NEW s \in Rebuilt(schema)
  PROVE  s \subseteq schema /\ schema \ {"fk", "expiry"} \subseteq s
  BY DEF Rebuilt

(* What there is to show of a database with the versions up to v.          *)
UpToVersion(v, f) ==
  /\ {"users", "contests"} \subseteq f.schema
  /\ "raw" \in f.schema \/ "hash" \in f.schema
  /\ "fk" \in f.schema => "orphan" \notin f.rows
  /\ v >= 2 => "hash" \in f.schema /\ "raw" \notin f.schema
  /\ v >= 3 => "fk" \in f.schema /\ "expiry" \in f.schema
  /\ v >= 4 => "required" \in f.schema /\ f.rows \subseteq {"good"}
  /\ v >= 5 => "content" \in f.schema
  /\ v >= 6 => "access" \in f.schema
  /\ v >= 7 => "scoped" \in f.schema /\ "global" \notin f.schema

LEMMA SoundUpTo ==
  ASSUME NEW v \in Version, NEW f \in Database, f.done = 1..v, UpToVersion(v, f)
  PROVE  Sound(f)
<1>1. /\ 2 \in f.done => v >= 2
      /\ 3 \in f.done => v >= 3
      /\ 4 \in f.done => v >= 4
      /\ 5 \in f.done => v >= 5
      /\ 6 \in f.done => v >= 6
      /\ 7 \in f.done => v >= 7
  BY DEF Version
<1>2. \A w \in f.done : Adds[w] \subseteq f.schema
  BY <1>1, SoundParts DEF UpToVersion
<1> QED
  BY <1>1, <1>2 DEF Sound, UpToVersion

(* addSessionIntegrity adds the constraint and the index, and keeps the    *)
(* rest; it refuses orphans.                                               *)
LEMMA IntegritySound ==
  ASSUME NEW d \in Database, "fk" \in d.schema => "orphan" \notin d.rows,
         NEW e \in addSessionIntegrity(d)
  PROVE  /\ e \in Database /\ e.done = d.done /\ e.rows = d.rows /\ "orphan" \notin d.rows
         /\ d.schema \subseteq e.schema \cup {"fk", "expiry"}
         /\ e.schema \subseteq d.schema \cup {"fk", "expiry"}
         /\ "fk" \in e.schema /\ "expiry" \in e.schema
<1>1. d.schema \in SUBSET Fact
  BY DEF Database
<1>2. CASE "fk" \in d.schema
  <2>1. e = [d EXCEPT !.schema = d.schema \cup {"expiry"}]
    BY <1>2 DEF addSessionIntegrity
  <2>2. d.schema \cup {"expiry"} \in SUBSET Fact
    BY <1>1, FactSet
  <2>3. /\ e \in Database /\ e.done = d.done /\ e.rows = d.rows
        /\ e.schema = d.schema \cup {"expiry"}
    BY <2>1, <2>2, WithSchema
  <2> QED
    BY <1>2, <2>3
<1>3. CASE "fk" \notin d.schema
  <2>1. "orphan" \notin d.rows
    BY <1>3 DEF addSessionIntegrity, rejectOrphanedSessions
  <2>2. PICK s \in Rebuilt(d.schema) : e = [d EXCEPT !.schema = s \cup {"fk", "expiry"}]
    BY <1>3 DEF addSessionIntegrity, rejectOrphanedSessions
  <2>3. s \subseteq d.schema /\ d.schema \ {"fk", "expiry"} \subseteq s
    BY <1>1, RebuildKeeps
  <2>4. s \cup {"fk", "expiry"} \in SUBSET Fact
    BY <1>1, <2>3, FactSet
  <2>5. /\ e \in Database /\ e.done = d.done /\ e.rows = d.rows
        /\ e.schema = s \cup {"fk", "expiry"}
    BY <2>2, <2>4, WithSchema
  <2> QED
    BY <2>1, <2>3, <2>5
<1> QED
  BY <1>2, <1>3

(* Each migration leads from a sound database to one that is sound with    *)
(* its version recorded: one step per migration.                           *)
LEMMA ApplySound ==
  ASSUME NEW d \in Database, Sound(d), NEW v \in Version, 1..(v - 1) \subseteq d.done,
         v \notin d.done, NEW e \in apply(v, d)
  PROVE  LET f == [e EXCEPT !.done = @ \cup {v}]
         IN  f \in Database /\ f.done = 1..v /\ Sound(f) /\ Follows(d, f)
<1>1. d.done = 1..(v - 1) /\ d.done \cup {v} = 1..v
  BY DoneBefore
<1>2. d.schema \in SUBSET Fact /\ d.rows \in SUBSET Row
  BY DEF Database
<1>3. /\ v > 1 => 1 \in d.done
      /\ v > 2 => 2 \in d.done
      /\ v > 3 => 3 \in d.done
      /\ v > 4 => 4 \in d.done
      /\ v > 5 => 5 \in d.done
      /\ v > 6 => 6 \in d.done
  BY <1>1 DEF Version
<1>4. v > 1 => UpToVersion(v - 1, d)
  BY <1>3, SoundParts DEF Sound, UpToVersion, Version
<1>5. /\ "users" \in d.schema => "raw" \in d.schema \/ "hash" \in d.schema
      /\ "fk" \in d.schema => "orphan" \notin d.rows
  BY DEF Sound
<1>6. SUFFICES /\ e \in Database /\ e.done = d.done /\ UpToVersion(v, e)
               /\ "raw" \in e.schema => "raw" \in d.schema
               /\ e.rows # d.rows => "raw" \in d.schema
  <2>1. ASSUME /\ e \in Database /\ e.done = d.done /\ UpToVersion(v, e)
               /\ "raw" \in e.schema => "raw" \in d.schema
               /\ e.rows # d.rows => "raw" \in d.schema
        PROVE  LET f == [e EXCEPT !.done = @ \cup {v}]
               IN  f \in Database /\ f.done = 1..v /\ Sound(f) /\ Follows(d, f)
    <3> DEFINE f == [e EXCEPT !.done = @ \cup {v}]
    <3>1. f \in Database /\ f.schema = e.schema /\ f.done = 1..v /\ f.rows = e.rows
      BY <1>1, <2>1, WithVersion
    <3> HIDE DEF f
    <3>2. UpToVersion(v, f)
      BY <2>1, <3>1 DEF UpToVersion
    <3>3. Sound(f)
      BY <3>1, <3>2, SoundUpTo
    <3>4. Follows(d, f)
      BY <1>1, <2>1, <3>1 DEF Follows
    <3>5. f \in Database /\ f.done = 1..v /\ Sound(f) /\ Follows(d, f)
      BY <3>1, <3>3, <3>4
    <3> QED
      BY <3>5 DEF f
  <2> QED
    BY <2>1
<1>7. CASE v = 1
  <2> DEFINE schema == d.schema \cup {"users", "contests"}
                         \cup (IF "users" \in d.schema THEN {} ELSE {"hash"})
  <2>1. e = [d EXCEPT !.schema = schema]
    BY <1>7 DEF apply, createInitialSchema, Adds
  <2>2. schema \in SUBSET Fact
    BY <1>2, FactSet
  <2>3. e \in Database /\ e.schema = schema /\ e.done = d.done /\ e.rows = d.rows
    <3> HIDE DEF schema
    <3> QED
      BY <2>1, <2>2, WithSchema
  <2>4. "fk" \in e.schema <=> "fk" \in d.schema
    BY <2>3
  <2> QED
    BY <1>5, <1>7, <2>3, <2>4 DEF UpToVersion
<1>8. CASE v = 2
  <2>1. CASE "raw" \notin d.schema
    <3>1. e = d
      BY <1>8, <2>1 DEF apply, removeLegacySessionTokens
    <3> QED
      BY <1>4, <1>8, <2>1, <3>1 DEF UpToVersion
  <2>2. CASE "raw" \in d.schema
    <3>0. e \in {[d EXCEPT !.schema = s, !.rows = {}] :
                   s \in Rebuilt((d.schema \cup {"hash"}) \ {"raw"})}
      <4>1. e \in removeLegacySessionTokens(d)
        BY <1>8 DEF apply
      <4> QED
        BY <2>2, <4>1, Zenon DEF removeLegacySessionTokens
    <3>1. PICK s \in Rebuilt((d.schema \cup {"hash"}) \ {"raw"}) :
            e = [d EXCEPT !.schema = s, !.rows = {}]
      BY <3>0, Zenon
    <3>2. (d.schema \cup {"hash"}) \ {"raw"} \in SUBSET Fact
      BY <1>2, FactSet
    <3>3. /\ s \subseteq (d.schema \cup {"hash"}) \ {"raw"}
          /\ ((d.schema \cup {"hash"}) \ {"raw"}) \ {"fk", "expiry"} \subseteq s
      BY <3>2, RebuildKeeps
    <3>4. e \in Database /\ e.schema = s /\ e.done = d.done /\ e.rows = {}
      <4>1. s \in SUBSET Fact
        BY <3>2, <3>3
      <4> QED
        BY <3>1, <4>1 DEF Database
    <3> QED
      BY <1>4, <1>8, <2>2, <3>3, <3>4 DEF UpToVersion
  <2> QED
    BY <2>1, <2>2
<1>9. CASE v = 3
  <2>1. e \in addSessionIntegrity(d)
    BY <1>9 DEF apply
  <2> QED
    BY <1>4, <1>5, <1>9, <2>1, IntegritySound DEF UpToVersion
<1>10. CASE v = 4
  <2>1. PICK s \in Rebuilt(d.schema) :
          /\ "incomplete" \notin d.rows
          /\ e \in addSessionIntegrity([d EXCEPT !.schema = s \cup {"required"}])
    BY <1>10 DEF apply, requireSessionFields
  <2>2. s \subseteq d.schema /\ d.schema \ {"fk", "expiry"} \subseteq s
    BY <1>2, RebuildKeeps
  <2> DEFINE c == [d EXCEPT !.schema = s \cup {"required"}]
  <2>3. s \cup {"required"} \in SUBSET Fact
    BY <1>2, <2>2, FactSet
  <2>4. c \in Database /\ c.schema = s \cup {"required"} /\ c.done = d.done /\ c.rows = d.rows
    BY <2>3, WithSchema
  <2>5. e \in addSessionIntegrity(c)
    BY <2>1
  <2> HIDE DEF c
  <2>6. "fk" \in c.schema => "orphan" \notin c.rows
    BY <1>5, <2>2, <2>4
  <2>7. /\ e \in Database /\ e.done = d.done /\ e.rows = d.rows /\ "orphan" \notin d.rows
        /\ c.schema \subseteq e.schema \cup {"fk", "expiry"}
        /\ e.schema \subseteq c.schema \cup {"fk", "expiry"}
        /\ "fk" \in e.schema /\ "expiry" \in e.schema
    BY <2>4, <2>5, <2>6, IntegritySound
  <2>8. d.rows \subseteq {"good"}
    BY <1>2, <2>1, <2>7 DEF Row
  <2> QED
    BY <1>4, <1>10, <2>2, <2>4, <2>7, <2>8 DEF UpToVersion
<1>11. CASE v = 5
  <2>1. /\ e \in Database /\ e.done = d.done /\ e.rows = d.rows
        /\ d.schema \cup {"content"} \subseteq e.schema
        /\ e.schema \subseteq d.schema \cup {"content", "global"}
    <3>1. CASE "content" \in d.schema
      <4>1. e = d
        BY <1>11, <3>1 DEF apply, createContentSchema
      <4> QED
        BY <3>1, <4>1
    <3>2. CASE "content" \notin d.schema
      <4>1. e = [d EXCEPT !.schema = d.schema \cup {"content", "global"}]
        BY <1>11, <3>2 DEF apply, createContentSchema
      <4>2. PICK s \in SUBSET Fact : s = d.schema \cup {"content", "global"} /\ e = [d EXCEPT !.schema = s]
        BY <1>2, <4>1, FactSet
      <4>3. e \in Database /\ e.schema = s /\ e.done = d.done /\ e.rows = d.rows
        BY <4>2, WithSchema
      <4> QED
        BY <4>2, <4>3
    <3> QED
      BY <3>1, <3>2
  <2> QED
    BY <1>4, <1>11, <2>1 DEF UpToVersion
<1>12. CASE v = 6
  <2>1. e = [d EXCEPT !.schema = d.schema \cup {"access"}]
    BY <1>12 DEF apply, createAccessSchema
  <2>2. PICK s \in SUBSET Fact : s = d.schema \cup {"access"} /\ e = [d EXCEPT !.schema = s]
    BY <1>2, <2>1, FactSet
  <2>3. e \in Database /\ e.schema = s /\ e.done = d.done /\ e.rows = d.rows
    BY <2>2 DEF Database
  <2> QED
    BY <1>4, <1>12, <2>2, <2>3 DEF UpToVersion
<1>13. CASE v = 7
  <2>1. e = [d EXCEPT !.schema = (d.schema \ {"global"}) \cup {"scoped"}]
    BY <1>13 DEF apply, scopeAssignmentCodes
  <2>2. PICK s \in SUBSET Fact : s = (d.schema \ {"global"}) \cup {"scoped"} /\ e = [d EXCEPT !.schema = s]
    BY <1>2, <2>1, FactSet
  <2>3. e \in Database /\ e.schema = s /\ e.done = d.done /\ e.rows = d.rows
    BY <2>2 DEF Database
  <2> QED
    BY <1>4, <1>13, <2>2, <2>3 DEF UpToVersion
<1> QED
  BY <1>7, <1>8, <1>9, <1>10, <1>11, <1>12, <1>13 DEF Version

-----------------------------------------------------------------------------
(* The steps of a process, one lemma each.                                 *)

LEMMA EmptySound == Empty \in Database /\ Sound(Empty)
<1>1. Empty \in Database
  <2>1. {} = 1..0
    OBVIOUS
  <2> QED
    BY <2>1 DEF Empty, Database
<1> QED
  BY <1>1 DEF Empty, Sound

(* Looking for the table, or creating it, touches no transaction.          *)
LEMMA StartStep ==
  ASSUME IInv, NEW p \in Proc, Start(p) \/ CreateTable(p)
  PROVE  IInv'
<1> USE DEF IInv
<1>1. /\ Types' /\ UNCHANGED <<postgres, store, base, work, next, lock>>
      /\ pc[p] \in {"down", "create"} /\ pc'[p] \in {"down", "create", "begin"}
      /\ \A q \in Proc \ {p} : pc'[q] = pc[q]
  BY DEF Types, Start, CreateTable, Go
<1>2. Transactions' /\ Outside' /\ Alone' /\ Serving'
  BY <1>1 DEF Types, Transactions, Outside, Alone, Serving
<1> QED
  BY <1>1, <1>2

(* The transaction begins with what is committed, and on PostgreSQL with   *)
(* the lock.                                                               *)
LEMMA BeginStep ==
  ASSUME IInv, NEW p \in Proc, Begin(p)
  PROVE  IInv'
<1> USE DEF IInv
<1>1. Types'
  BY DEF Types, Begin, Go
<1>2. /\ UNCHANGED <<postgres, store, next>> /\ pc[p] = "begin" /\ pc'[p] = "migrate"
      /\ base'[p] = store /\ work'[p] = store /\ next[p] = 1 /\ LockFree
      /\ lock' = IF postgres THEN p ELSE lock
      /\ \A q \in Proc \ {p} : pc'[q] = pc[q] /\ base'[q] = base[q] /\ work'[q] = work[q]
  BY DEF Types, Begin, Go, Outside
<1>3. Transactions'
  BY <1>2 DEF Transactions, Follows
<1>4. Outside' /\ Serving'
  BY <1>2 DEF Outside, Serving
<1>5. Alone'
  BY <1>2, MigrationsAssumption DEF Alone, LockFree
<1> QED
  BY <1>1, <1>2, <1>3, <1>4, <1>5

LEMMA SkipStep ==
  ASSUME IInv, NEW p \in Proc, Skip(p)
  PROVE  IInv'
<1> USE DEF IInv
<1>1. /\ UNCHANGED <<postgres, store, base, work, pc, lock>> /\ pc[p] = "migrate"
      /\ next[p] \in work[p].done /\ next[p] \in 1..7 /\ next'[p] = next[p] + 1
      /\ \A q \in Proc \ {p} : next'[q] = next[q]
  BY DEF Types, Skip, Database
<1>2. Types'
  BY <1>1 DEF Types, Skip
<1>3. Transactions'
  <2>1. 1..(next'[p] - 1) \subseteq work[p].done
    BY <1>1 DEF Transactions
  <2> QED
    BY <1>1, <2>1 DEF Transactions
<1>4. Outside' /\ Serving' /\ Alone'
  BY <1>1 DEF Outside, Serving, Alone
<1> QED
  BY <1>1, <1>2, <1>3, <1>4

(* A migration is applied: ApplySound.                                     *)
LEMMA ApplyStep ==
  ASSUME IInv, NEW p \in Proc, Apply(p)
  PROVE  IInv'
<1> USE DEF IInv
<1>1. PICK e \in apply(next[p], work[p]) :
        work' = [work EXCEPT ![p] = [e EXCEPT !.done = @ \cup {next[p]}]]
  BY DEF Apply
<1>2. /\ UNCHANGED <<postgres, table, store, base, pc, lock, crashes>> /\ pc[p] = "migrate"
      /\ next[p] \in Version /\ next[p] \notin work[p].done /\ next'[p] = next[p] + 1
      /\ next' \in [Proc -> 1..8]
      /\ \A q \in Proc \ {p} : next'[q] = next[q]
  BY DEF Types, Apply, Version
<1>3. work \in [Proc -> Database] /\ work[p] \in Database
  BY DEF Types
<1>4. Sound(work[p]) /\ Follows(base[p], work[p]) /\ 1..(next[p] - 1) \subseteq work[p].done
  BY <1>2 DEF Transactions
<1> DEFINE f == [e EXCEPT !.done = @ \cup {next[p]}]
<1>5. f \in Database /\ f.done = 1..next[p] /\ Sound(f) /\ Follows(work[p], f)
  BY <1>2, <1>3, <1>4, ApplySound
<1>6. work' = [work EXCEPT ![p] = f]
  BY <1>1
<1> HIDE DEF f
<1>7. work'[p] = f /\ work' \in [Proc -> Database] /\ \A q \in Proc \ {p} : work'[q] = work[q]
  BY <1>3, <1>5, <1>6
<1>8. Types'
  BY <1>2, <1>7 DEF Types
<1>9. Transactions'
  <2>1. Follows(base[p], f)
    BY <1>4, <1>5 DEF Follows
  <2>2. 1..(next'[p] - 1) \subseteq f.done
    BY <1>2, <1>5 DEF Version
  <2> QED
    BY <1>2, <1>5, <1>7, <2>1, <2>2 DEF Transactions
<1>10. Outside' /\ Serving' /\ Alone'
  BY <1>2 DEF Outside, Serving, Alone
<1> QED
  BY <1>2, <1>8, <1>9, <1>10

(* The end of a transaction.                                               *)
LEMMA EndTxFrame ==
  ASSUME Types, NEW p \in Proc, EndTx(p), NEW step \in {"down", "serving"}, Go(p, step)
  PROVE  /\ base' \in [Proc -> Database] /\ work' \in [Proc -> Database]
         /\ next' \in [Proc -> 1..8] /\ lock' \in Proc \cup {NoProc}
         /\ pc' \in [Proc -> {"down", "create", "begin", "migrate", "serving"}]
         /\ pc'[p] = step /\ next'[p] = 1
         /\ \A q \in Proc \ {p} : /\ pc'[q] = pc[q] /\ base'[q] = base[q] /\ work'[q] = work[q]
                                  /\ next'[q] = next[q] /\ (lock = q => lock' = q)
  BY EmptySound DEF Types, EndTx, Go

(* A migration refuses, SQLite refuses, or the process dies: what is       *)
(* committed stays.                                                        *)
LEMMA RollbackStep ==
  ASSUME IInv, NEW p \in Proc, Refuse(p) \/ Conflict(p) \/ Crash(p)
  PROVE  IInv'
<1> USE DEF IInv
<1>1. EndTx(p) /\ Go(p, "down") /\ UNCHANGED <<postgres, table, store>>
  BY DEF Refuse, Conflict, Crash
<1>2. crashes' \in 0..MaxCrashes
  BY MigrationsAssumption DEF Refuse, Conflict, Crash, Types
<1>3. Types'
  BY <1>1, <1>2, EndTxFrame DEF Types
<1>4. Transactions' /\ Outside' /\ Serving' /\ Alone'
  BY <1>1, EndTxFrame DEF Transactions, Outside, Serving, Alone
<1> QED
  BY <1>1, <1>3, <1>4

(* COMMIT: the versions only grow, so that whoever serves still can, and   *)
(* on PostgreSQL nobody else is in a transaction.                          *)
LEMMA CommitStep ==
  ASSUME IInv, NEW p \in Proc, Commit(p)
  PROVE  IInv' /\ Follows(store, store')
<1> USE DEF IInv
<1>1. /\ pc[p] = "migrate" /\ next[p] = 8 /\ ~Stale(p)
      /\ store' = (IF Wrote(p) THEN work[p] ELSE store)
      /\ EndTx(p) /\ Go(p, "serving") /\ UNCHANGED <<postgres, table, crashes>>
  BY DEF Commit
<1>2. /\ Sound(work[p]) /\ Follows(base[p], work[p]) /\ Version \subseteq work[p].done
      /\ base[p].done \subseteq store.done /\ work[p] \in Database
      /\ store \in Database
  BY <1>1 DEF Transactions, Types, Version
<1>3. Wrote(p) <=> work[p] # base[p]
  BY <1>1 DEF Wrote, InTx
<1>4. /\ store' \in Database /\ Sound(store') /\ Follows(store, store')
      /\ Version \subseteq store'.done
  <2>1. CASE work[p] = base[p]
    BY <1>1, <1>2, <1>3, <2>1 DEF Follows
  <2>2. CASE work[p] # base[p]
    <3>1. store = base[p]
      BY <1>1, <1>3, <2>2 DEF Stale
    <3> QED
      BY <1>1, <1>2, <1>3, <2>2, <3>1
  <2> QED
    BY <2>1, <2>2
<1>5. store'.done = Version /\ store.done \subseteq store'.done
  BY <1>4 DEF Database, Version, Follows
<1>6. Types'
  BY <1>1, <1>4, EndTxFrame DEF Types
<1>7. Transactions'
  BY <1>1, <1>5, EndTxFrame DEF Transactions
<1>8. Outside' /\ Serving'
  BY <1>1, <1>5, EndTxFrame DEF Outside, Serving
<1>9. Alone'
  BY <1>1, EndTxFrame DEF Alone
<1> QED
  BY <1>4, <1>6, <1>7, <1>8, <1>9

-----------------------------------------------------------------------------

LEMMA InitInv == Init => IInv
<1> SUFFICES ASSUME Init PROVE IInv
  OBVIOUS
<1>1. /\ pc = [p \in Proc |-> "down"] /\ next = [p \in Proc |-> 1]
      /\ base = [p \in Proc |-> Empty] /\ work = [p \in Proc |-> Empty]
      /\ postgres \in BOOLEAN /\ lock = NoProc /\ crashes = 0 /\ table \in BOOLEAN
  BY DEF Init
<1>2. store \in Database /\ Sound(store)
  <2>1. CASE store = Empty
    BY <2>1, EmptySound
  <2>2. ASSUME NEW token \in {"raw", "hash"}, NEW more \in SUBSET {"contests", "fk", "expiry"},
               NEW rows \in SUBSET Row, "fk" \in more => "orphan" \notin rows,
               store = [schema |-> {"users", token} \cup more, done |-> {}, rows |-> rows]
        PROVE  store \in Database /\ Sound(store)
    <3>1. {} = 1..0
      OBVIOUS
    <3>2. {"users", token} \cup more \in SUBSET Fact
      BY FactSet
    <3>3. store \in Database
      BY <2>2, <3>1, <3>2 DEF Database
    <3> QED
      BY <2>2, <3>3 DEF Sound
  <2>3. ASSUME NEW rows \in SUBSET {"good"}, NEW n \in {5, 7}, NEW schema \in SUBSET Fact,
               schema = UpTo(n) \cup (IF n = 5 THEN {"global"} ELSE {}),
               store = [schema |-> schema, done |-> 1..n, rows |-> rows]
        PROVE  store \in Database /\ Sound(store)
    <3>1. 1..n \in {1..m : m \in 0..7}
      OBVIOUS
    <3>2. store \in Database
      BY <2>3, <3>1 DEF Database, Row
    <3>3. \A v \in 1..n : Adds[v] \subseteq UpTo(n)
      BY DEF UpTo
    <3>4. schema \subseteq {"users", "contests", "hash", "fk", "expiry", "required", "content",
                            "access", "scoped", "global"}
          /\ (n = 7 => "global" \notin schema) /\ "hash" \in schema
      <4>1. UpTo(n) \subseteq {"users", "contests", "hash", "fk", "expiry", "required",
                                "content", "access", "scoped"}
        <5>1. \A v \in 1..n : v \in {1, 2, 3, 4, 5, 6, 7}
          OBVIOUS
        <5> QED
          BY <5>1 DEF UpTo, Adds
      <4>2. "hash" \in UpTo(n)
        <5>1. Adds[2] = {"hash"}
          BY DEF Adds
        <5> QED
          BY <3>3, <5>1
      <4> QED
        BY <2>3, <4>1, <4>2
    <3> QED
      BY <2>3, <3>2, <3>3, <3>4 DEF Sound
  <2>4. UpTo(5) \cup {"global"} \in SUBSET Fact /\ UpTo(7) \in SUBSET Fact
    BY DEF Fact, UpTo
  <2>5. ASSUME NEW rows \in SUBSET {"good"},
               \/ store = [schema |-> UpTo(5) \cup {"global"}, done |-> 1..5, rows |-> rows]
               \/ store = [schema |-> UpTo(7), done |-> Version, rows |-> rows]
        PROVE  store \in Database /\ Sound(store)
    BY <2>3, <2>4, <2>5 DEF Version
  <2> QED
    BY <2>1, <2>2, <2>5 DEF Init
<1>3. Types
  BY <1>1, <1>2, EmptySound, MigrationsAssumption DEF Types
<1> QED
  BY <1>1, <1>2, <1>3 DEF IInv, Transactions, Outside, Alone, Serving

LEMMA Inductive == IInv /\ [Next]_vars => IInv'
<1> SUFFICES ASSUME IInv, [Next]_vars PROVE IInv'
  OBVIOUS
<1>1. CASE UNCHANGED vars
  BY <1>1 DEF vars, IInv, Types, Sound, Transactions, Outside, Alone, Serving, Follows
<1>2. ASSUME NEW p \in Proc, Step(p) \/ Crash(p) PROVE IInv'
  BY <1>2, StartStep, BeginStep, SkipStep, ApplyStep, RollbackStep, CommitStep DEF Step
<1> QED
  BY <1>1, <1>2 DEF Next

(* The variables have their types; the versions that a transaction has     *)
(* applied, and those that are committed, are the first ones.              *)
THEOREM TypeCorrect == Spec => []TypeOK
<1>1. IInv => TypeOK
  <2> SUFFICES ASSUME IInv PROVE TypeOK
    OBVIOUS
  <2>1. \A d \in Database : /\ d.schema \subseteq Fact /\ d.rows \subseteq Row
                            /\ \E n \in 0..7 : d.done = 1..n
    BY DEF Database
  <2>2. /\ store \in Database
        /\ \A p \in Proc : base[p] \in Database /\ work[p] \in Database
    BY DEF IInv, Types
  <2>3. /\ postgres \in BOOLEAN /\ table \in BOOLEAN /\ crashes \in 0..MaxCrashes
        /\ lock \in Proc \cup {NoProc}
        /\ pc \in [Proc -> {"down", "create", "begin", "migrate", "serving"}]
        /\ next \in [Proc -> 1..8]
    BY DEF IInv, Types
  <2> QED
    BY <2>1, <2>2, <2>3, Zenon DEF TypeOK
<1> QED
  BY <1>1, InitInv, Inductive, PTL DEF Spec

(* For any number of processes and crashes: what Migrate has recorded is   *)
(* there after every COMMIT, through all rebuilds of the session table,    *)
(* and whoever serves has the whole schema.                                *)
THEOREM SchemaIsReady == Spec => []SchemaReady
<1>1. IInv => SchemaReady
  <2> SUFFICES ASSUME IInv PROVE SchemaReady
    OBVIOUS
  <2>1. Sound(store) /\ Serving
    BY DEF IInv
  <2>2. 7 \in Version
    BY DEF Version
  <2> QED
    BY <2>1, <2>2 DEF SchemaReady, Sound, Serving
<1> QED
  BY <1>1, InitInv, Inductive, PTL DEF Spec

(* On PostgreSQL no process ever works on a reading that another one's     *)
(* COMMIT has overtaken: the advisory lock comes before the first query.   *)
THEOREM NoConflicts == Spec => []NoConflict
<1>1. IInv => NoConflict
  BY DEF IInv, Alone, NoConflict, Stale, Wrote, InTx
<1> QED
  BY <1>1, InitInv, Inductive, PTL DEF Spec

(* Orphaned sessions are refused and never deleted: a COMMIT that removes  *)
(* rows replaces a database with raw tokens.                               *)
THEOREM SessionsRefused == Spec => RefusedNotDeleted
<1>1. ASSUME IInv, [Next]_vars
      PROVE  [store'.rows # store.rows => "raw" \in store.schema]_vars
  <2>1. ASSUME NEW p \in Proc, Commit(p) PROVE store'.rows # store.rows => "raw" \in store.schema
    BY <1>1, <2>1, CommitStep DEF Follows
  <2>2. ASSUME NEW p \in Proc, Step(p) \/ Crash(p), ~Commit(p) PROVE store' = store
    BY <2>2 DEF Step, Start, CreateTable, Begin, Skip, Apply, Refuse, Conflict, Crash
  <2> QED
    BY <1>1, <2>1, <2>2 DEF Next
<1> QED
  BY <1>1, InitInv, Inductive, PTL DEF Spec, RefusedNotDeleted
=============================================================================
