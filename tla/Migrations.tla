----------------------------- MODULE Migrations -----------------------------
(***************************************************************************)
(* Start-up migrations of internal/db/migrations.go, run by every process  *)
(* that opens the database (the web server and the admin command): the     *)
(* table of versions, the transaction that applies the missing versions    *)
(* one by one, PostgreSQL's advisory lock, SQLite's single writer, crashes *)
(* and restarts at any step.                                               *)
(*                                                                         *)
(* The schema is the set of the facts that some migration or a serving     *)
(* process depends on; of the sessions only the kinds present are kept.    *)
(***************************************************************************)
EXTENDS Integers, FiniteSets

CONSTANTS Proc,       \* processes
          NoProc,
          MaxCrashes  \* bound on crashes

ASSUME MigrationsAssumption == MaxCrashes \in Nat /\ NoProc \notin Proc

VARIABLES postgres,  \* the dialect, chosen once
          table,     \* schema_migrations exists
          store,     \* what is committed: [schema, done, rows]
          base, work,  \* of a transaction: what it saw first, what it has made of it
          pc, next,  \* of a process: its step, the next version
          lock,      \* holder of the advisory lock
          crashes

vars == <<postgres, table, store, base, work, pc, next, lock, crashes>>

Version == 1..7

(* What a version adds for good; "global" (codes unique in the whole       *)
(* database) is added by version 5 and taken away by version 7.            *)
Adds == <<{"users", "contests"}, {"hash"}, {"fk", "expiry"}, {"required"},
          {"content"}, {"access"}, {"scoped"}>>
UpTo(n) == UNION {Adds[v] : v \in 1..n}
Fact == UpTo(7) \cup {"raw", "global"}
Row == {"good", "orphan", "incomplete"}

Empty == [schema |-> {}, done |-> {}, rows |-> {}]

(* A new database; one from before schema_migrations, with raw or with     *)
(* hashed session tokens; one after version 5; one that is up to date.     *)
Init ==
  /\ postgres \in BOOLEAN /\ lock = NoProc /\ crashes = 0
  /\ \/ table = FALSE /\ store = Empty
     \/ /\ table = FALSE
        /\ \E token \in {"raw", "hash"}, more \in SUBSET {"contests", "fk", "expiry"},
              rows \in SUBSET Row :
             /\ "fk" \in more => "orphan" \notin rows
             /\ store = [schema |-> {"users", token} \cup more, done |-> {}, rows |-> rows]
     \/ /\ table = TRUE
        /\ \E rows \in SUBSET {"good"} :
             \/ store = [schema |-> UpTo(5) \cup {"global"}, done |-> 1..5, rows |-> rows]
             \/ store = [schema |-> UpTo(7), done |-> Version, rows |-> rows]
  /\ pc = [p \in Proc |-> "down"] /\ next = [p \in Proc |-> 1]
  /\ base = [p \in Proc |-> Empty] /\ work = [p \in Proc |-> Empty]

-----------------------------------------------------------------------------
(* The migrations: the states that each may make of d, none if it returns  *)
(* an error.  On SQLite a table is rebuilt to change it, and what it had   *)
(* of constraint and index may be gone.                                    *)

Rebuilt(schema) ==
  IF postgres THEN {schema}
  ELSE {schema \ gone : gone \in SUBSET {"fk", "expiry"}}

createInitialSchema(d) ==
  {[d EXCEPT !.schema = @ \cup Adds[1] \cup (IF "users" \in @ THEN {} ELSE {"hash"})]}

removeLegacySessionTokens(d) ==
  IF "raw" \notin d.schema THEN {d}
  ELSE {[d EXCEPT !.schema = s, !.rows = {}] : s \in Rebuilt((d.schema \cup {"hash"}) \ {"raw"})}

rejectOrphanedSessions(d) == "orphan" \in d.rows

addSessionIntegrity_Mutant(d) ==  \* the orphans are deleted
  {[d EXCEPT !.schema = s \cup {"fk", "expiry"}, !.rows = @ \ {"orphan"}] : s \in Rebuilt(d.schema)}

(* The constraint if there is none, then the index.                        *)
addSessionIntegrity(d) ==
  IF "fk" \in d.schema THEN {[d EXCEPT !.schema = @ \cup {"expiry"}]}
  ELSE IF rejectOrphanedSessions(d) THEN {}
  ELSE {[d EXCEPT !.schema = s \cup {"fk", "expiry"}] : s \in Rebuilt(d.schema)}

requireSessionFields_Mutant(d) ==  \* constraint and index are not restored
  IF "incomplete" \in d.rows THEN {}
  ELSE {[d EXCEPT !.schema = s \cup {"required"}] : s \in Rebuilt(d.schema)}

requireSessionFields(d) ==
  IF "incomplete" \in d.rows THEN {}
  ELSE UNION {addSessionIntegrity([d EXCEPT !.schema = s \cup {"required"}]) : s \in Rebuilt(d.schema)}

createContentSchema(d) ==
  {IF "content" \in d.schema THEN d ELSE [d EXCEPT !.schema = @ \cup {"content", "global"}]}

createAccessSchema(d) == {[d EXCEPT !.schema = @ \cup {"access"}]}

scopeAssignmentCodes(d) == {[d EXCEPT !.schema = (@ \ {"global"}) \cup {"scoped"}]}

apply(v, d) ==
  CASE v = 1 -> createInitialSchema(d)   [] v = 2 -> removeLegacySessionTokens(d)
    [] v = 3 -> addSessionIntegrity(d)   [] v = 4 -> requireSessionFields(d)
    [] v = 5 -> createContentSchema(d)   [] v = 6 -> createAccessSchema(d)
    [] v = 7 -> scopeAssignmentCodes(d)

-----------------------------------------------------------------------------
(* Migrate.                                                                *)

Go(p, step) == pc' = [pc EXCEPT ![p] = step]

Start(p) ==
  /\ pc[p] = "down" /\ Go(p, IF table THEN "begin" ELSE "create")  \* HasTable
  /\ UNCHANGED <<postgres, table, store, base, work, next, lock, crashes>>

(* CreateTable, outside of any transaction: an error if the table is there *)
(* by now.                                                                 *)
CreateTable(p) ==
  /\ pc[p] = "create" /\ Go(p, IF table THEN "down" ELSE "begin")
  /\ table' = TRUE
  /\ UNCHANGED <<postgres, store, base, work, next, lock, crashes>>

LockFree_Mutant == TRUE  \* no advisory lock

LockFree == ~postgres \/ lock = NoProc

(* The transaction begins; PostgreSQL waits for pg_advisory_xact_lock, and *)
(* reads what was committed before it has the lock.                        *)
Begin(p) ==
  /\ pc[p] = "begin" /\ LockFree /\ Go(p, "migrate")
  /\ lock' = IF postgres THEN p ELSE lock
  /\ base' = [base EXCEPT ![p] = store] /\ work' = [work EXCEPT ![p] = store]
  /\ UNCHANGED <<postgres, table, store, next, crashes>>

InTx == {p \in Proc : pc[p] = "migrate"}
Wrote(p) == p \in InTx /\ work[p] # base[p]
Busy(p) == ~postgres /\ \E q \in InTx \ {p} : Wrote(q)  \* SQLite has one writer

Skip(p) ==
  /\ pc[p] = "migrate" /\ next[p] \in work[p].done
  /\ next' = [next EXCEPT ![p] = @ + 1]
  /\ UNCHANGED <<postgres, table, store, base, work, pc, lock, crashes>>

Apply_Mutant(p) ==  \* a migration with nothing to do is not recorded
  /\ pc[p] = "migrate" /\ next[p] \in Version \ work[p].done /\ ~Busy(p)
  /\ \E e \in apply(next[p], work[p]) :
       work' = [work EXCEPT ![p] = IF e = @ THEN e ELSE [e EXCEPT !.done = @ \cup {next[p]}]]
  /\ next' = [next EXCEPT ![p] = @ + 1]
  /\ UNCHANGED <<postgres, table, store, base, pc, lock, crashes>>

Apply(p) ==
  /\ pc[p] = "migrate" /\ next[p] \in Version \ work[p].done /\ ~Busy(p)
  /\ \E e \in apply(next[p], work[p]) :
       work' = [work EXCEPT ![p] = [e EXCEPT !.done = @ \cup {next[p]}]]
  /\ next' = [next EXCEPT ![p] = @ + 1]
  /\ UNCHANGED <<postgres, table, store, base, pc, lock, crashes>>

(* The end of the transaction, which also frees the advisory lock.         *)
EndTx(p) ==
  /\ base' = [base EXCEPT ![p] = Empty] /\ work' = [work EXCEPT ![p] = Empty]
  /\ next' = [next EXCEPT ![p] = 1]
  /\ lock' = IF lock = p THEN NoProc ELSE lock

(* A migration returns an error: rollback, and the process ends.           *)
Refuse(p) ==
  /\ pc[p] = "migrate" /\ next[p] \in Version \ work[p].done /\ apply(next[p], work[p]) = {}
  /\ EndTx(p) /\ Go(p, "down")
  /\ UNCHANGED <<postgres, table, store, crashes>>

(* Someone else has committed since the transaction began to read: its     *)
(* records meet the primary key, or SQLite refuses the write.  SQLite also *)
(* refuses a write or a COMMIT while another transaction is open.          *)
Stale(p) == Wrote(p) /\ base[p] # store

Conflict(p) ==
  /\ pc[p] = "migrate"
  /\ Stale(p) \/ (~postgres /\ InTx # {p})
  /\ EndTx(p) /\ Go(p, "down")
  /\ UNCHANGED <<postgres, table, store, crashes>>

Commit_Mutant(p) ==  \* pg_advisory_lock: the connection keeps the lock
  /\ pc[p] = "migrate" /\ next[p] = 8 /\ ~Stale(p)
  /\ store' = IF Wrote(p) THEN work[p] ELSE store
  /\ base' = [base EXCEPT ![p] = Empty] /\ work' = [work EXCEPT ![p] = Empty]
  /\ next' = [next EXCEPT ![p] = 1] /\ Go(p, "serving")
  /\ UNCHANGED <<postgres, table, lock, crashes>>

Commit(p) ==
  /\ pc[p] = "migrate" /\ next[p] = 8 /\ ~Stale(p)
  /\ store' = IF Wrote(p) THEN work[p] ELSE store
  /\ EndTx(p) /\ Go(p, "serving")
  /\ UNCHANGED <<postgres, table, crashes>>

(* A process dies, whatever it does; the database rolls back.              *)
Crash(p) ==
  /\ pc[p] # "down" /\ crashes < MaxCrashes /\ crashes' = crashes + 1
  /\ EndTx(p) /\ Go(p, "down")
  /\ UNCHANGED <<postgres, table, store>>

Step(p) ==
  \/ Start(p) \/ CreateTable(p) \/ Begin(p) \/ Skip(p) \/ Apply(p) \/ Refuse(p)
  \/ Conflict(p) \/ Commit(p)

Next == \E p \in Proc : Step(p) \/ Crash(p)

Spec == Init /\ [][Next]_vars

(* A process that is down is started again, and goes on.                   *)
FairSpec == Spec /\ \A p \in Proc : WF_vars(Step(p))

-----------------------------------------------------------------------------
(* Properties.                                                             *)

TypeOK ==
  /\ postgres \in BOOLEAN /\ table \in BOOLEAN /\ crashes \in 0..MaxCrashes
  /\ lock \in Proc \cup {NoProc}
  /\ \A d \in {store} \cup {base[p] : p \in Proc} \cup {work[p] : p \in Proc} :
       /\ d.schema \subseteq Fact /\ d.rows \subseteq Row
       /\ \E n \in 0..7 : d.done = 1..n
  /\ pc \in [Proc -> {"down", "create", "begin", "migrate", "serving"}]
  /\ next \in [Proc -> 1..8]

(* What is recorded is there: "Migrate applies each immutable schema       *)
(* migration once and records its version" (migrations.go:94), and the     *)
(* constraint and the index that version 3 adds survive every rebuild of   *)
(* the table on SQLite (migrations.go:173, 199); no raw session token is   *)
(* left once version 2 is recorded; a process that serves has all of it.   *)
SchemaReady ==
  /\ \A v \in store.done : Adds[v] \subseteq store.schema
  /\ 2 \in store.done => "raw" \notin store.schema
  /\ 4 \in store.done => store.rows \subseteq {"good"}
  /\ \A p \in Proc : pc[p] = "serving" =>
       store.done = Version /\ "global" \notin store.schema

(* "The application refuses an upgrade that would add the session foreign  *)
(* key while orphaned sessions exist, rather than deleting them"           *)
(* (README.md:54): only the sessions of raw tokens are ever deleted.       *)
RefusedNotDeleted ==
  [][store'.rows # store.rows => "raw" \in store.schema]_vars

(* Processes that start together do not make each other fail once the      *)
(* table of versions exists: on PostgreSQL the advisory lock is won before *)
(* anything is read (migrations.go:104), so that no migration is attempted *)
(* twice.                                                                  *)
NoConflict == \A p \in Proc : postgres => ~Stale(p)

(* On PostgreSQL every process serves in the end, although two that start  *)
(* together race for the table of versions before they lock anything       *)
(* (migrations.go:97) and one of them fails, if the sessions are ones that *)
(* can be upgraded.                                                        *)
Upgradable ==
  "raw" \in store.schema \/ ("incomplete" \notin store.rows /\ "orphan" \notin store.rows)
EveryoneServes ==
  postgres /\ Upgradable => <>[](\A p \in Proc : pc[p] = "serving")

-----------------------------------------------------------------------------
(* The inductive invariant of the proofs.                                  *)

Database == [schema : SUBSET Fact, done : {1..n : n \in 0..7}, rows : SUBSET Row]

Types ==
  /\ postgres \in BOOLEAN /\ table \in BOOLEAN /\ crashes \in 0..MaxCrashes
  /\ lock \in Proc \cup {NoProc}
  /\ store \in Database /\ base \in [Proc -> Database] /\ work \in [Proc -> Database]
  /\ pc \in [Proc -> {"down", "create", "begin", "migrate", "serving"}]
  /\ next \in [Proc -> 1..8]

(* What is recorded is there, between two migrations as well.  A table of  *)
(* users has a column for the token, and the constraint keeps orphans out. *)
Sound(d) ==
  /\ \A v \in d.done : Adds[v] \subseteq d.schema
  /\ "users" \in d.schema => "raw" \in d.schema \/ "hash" \in d.schema
  /\ "fk" \in d.schema => "orphan" \notin d.rows
  /\ 2 \in d.done => "raw" \notin d.schema
  /\ 4 \in d.done => d.rows \subseteq {"good"}
  /\ 7 \in d.done => "global" \notin d.schema

(* e can have come of d: versions are added, raw tokens do not come back,  *)
(* and only with them do sessions go.                                      *)
Follows(d, e) ==
  /\ d.done \subseteq e.done
  /\ "raw" \in e.schema => "raw" \in d.schema
  /\ e.rows # d.rows => "raw" \in d.schema

(* A transaction that has come to a version has applied those before it;   *)
(* what it saw first was committed, and versions are never taken back.     *)
Transactions ==
  \A p \in Proc : pc[p] = "migrate" =>
    /\ Sound(work[p]) /\ Follows(base[p], work[p])
    /\ 1..(next[p] - 1) \subseteq work[p].done
    /\ base[p].done \subseteq store.done

(* A process outside of its transaction begins with the first version.     *)
Outside == \A p \in Proc : pc[p] # "migrate" => next[p] = 1

(* The advisory lock: whoever migrates holds it, and sees what is          *)
(* committed.                                                              *)
Alone ==
  postgres => \A p \in Proc : pc[p] = "migrate" => lock = p /\ base[p] = store

Serving == \A p \in Proc : pc[p] = "serving" => store.done = Version

IInv == Types /\ Sound(store) /\ Transactions /\ Outside /\ Alone /\ Serving
=============================================================================
