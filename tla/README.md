# Verification of Cotests

Cotests is a Go web application for programming contests. Authors write
problems (revisions with a statement, a PDF and test files), organizers put
published revisions into series of contests, participants read them. This
directory holds TLA+ models of the parts where concurrency, failures and time
meet, TLC runs over small instances, and TLAPS proofs for all sizes.

## Inventory

| Part | State | Operations | What is hard | What makes it correct |
| --- | --- | --- | --- | --- |
| Artifact store (`internal/artifact/store.go`) | one directory of files, `storageMu` | `Save`, `Remove`, `CollectTemporary`, `Open` | files and rows cannot change in one step; `Remove` takes no lock; the quota is a sum over a directory that changes | no row without its file, quota kept, running uploads undisturbed |
| File transactions and collection (`internal/content/files.go`) | tables `artifacts`, `import_previews`, references from revisions and tests | `fileTransaction` and its compensation, `Collect` | crash between rename and COMMIT, compensation racing with collection, grace period, lost COMMIT answer, mutex and single connection | nothing referenced is removed, everything else goes in the end, no upload blocks for ever |
| Revisions and tests (`internal/db/problems.go`, `files.go`) | `problem_revisions`, `test_cases` | create, edit, upload, publish, clone | checks before the transaction, writes in it; two editors; clone while editing | published content immutable and complete, clones coherent |
| Import previews (`files.go`) | `import_previews` | preview, commit, expiry | repeated and concurrent commits, positions read then used | imported once, positions free |
| Assignments (`content/service.go`) | `series_problems` | assign, unassign, reorder | state checked, the row inserted later without a lock | what is assigned is published and stays as it is |
| Contest access (`content/service.go`, `db/contests.go`, handlers) | memberships, visibility, schedules | `setMember`, `SaveSeries`, `CanReadSeries`, `CanSubmit`, `Artifact` | several queries and clock readings per decision, role read before the transaction | grants rest on what was in force, only admins make organizers |
| Ordering (`content/service.go`) | positions | `reorder` | two passes under a unique index, concurrent inserts | a new order applies whole or not at all, no collision on the way |
| ZIP importer (`importer/tests.go`) | none | `ReadTestZIP` | byte budget, pairing | flat matching pairs within the limits |
| Sessions and CSRF (`db/sessions.go`, `server/auth.go`, `server/security.go`, `static/js/app.js`) | `sessions`, cookies, the signing key | login, expiry, logout, page, form | tabs that share cookies, a script that sends the newest token, lost answers, restarts, delete by an id read earlier | a plain form acts for the session of its page, sessions are not lost, reloading helps |
| Login limiter (`server/handlers.go`) | table of attempts, `authWork` | `allowAuthAttempt` | two buckets per attempt, cap, expiry, clock read before the mutex | password work and table bounded, nobody locked out for good |
| Migrations (`db/migrations.go`, `app/app.go`) | schema, `schema_migrations` | `Migrate` | processes that start together, crashes, tables rebuilt by SQLite | what is recorded is there, nothing is deleted silently, everyone serves in the end |
| Users, configuration, command line, routing, templates, judge interface | one-step or none | | | not modelled, see below |

Handlers call the content service, which calls the database layer and the
artifact store. All share the database; the store is shared through the
directory and `storageMu`. PostgreSQL gives concurrent transactions with row
locks; SQLite is used through one connection, so a transaction excludes every
other statement.

## Modules

### ArtifactStore and ArtifactCatalogue

One module for `store.go`, `fileTransaction` and `Collect`, because their
correctness is a matter of how their steps interleave.

* `dir`, `temp`, `age`: the directory. A key stands for a file with its bytes;
  `age` counts ticks since it was written and saturates where the code stops
  telling ages apart.
* `rows`, `refs`, `prev`: the committed rows of `artifacts`, the keys that
  revisions or tests reference, the keys that previews reference.
* `pc`, `staged`, `created`: each request in `fileTransaction`. `Begin`,
  `CallSave`, `StartSave` (mutex taken, staging file written), `AdmitSave` (the sum
  over the directory leaves room for the file), `FinishSave` (rename, row, mutex
  released), `FailSave`, `RefuseSave`, `CommitContent` (SaveTest,
  UploadPDF, CommitZIP), `CommitPreview` (PreviewZIP), `Abort`, and the
  compensation one file at a time.
* `gcpc`, `old`, `lapsed`, `unused`, `entries`, `victim`: each run of `Collect`:
  cutoff, query, deletes and COMMIT, unlinking one file at a time, staging
  files with the mutex held from `CollectTemporary` to `SweepTemporary`, directory
  scan of every entry (`GcScan`), and for each entry its age (`GcSkip` when young), a
  query and a removal as separate steps. An entry that has vanished when the
  scan comes to it, young or old, ends the collection (`GcVanished`).
* `Crash`, `GcError`, failing removals, `CommitUnacked` and the stale PDF write
  are faults, at most `MaxFaults` of them. `Tick` is time.

`SingleConn` chooses the database (`ConnFree` is `SetMaxOpenConns(1)`).
`SlowTx` and `AckLoss` switch two environments on: PostgreSQL transactions
that outlast the grace period, and lost answers to COMMIT.

A failed transaction of `CommitZIP` on a repeated preview commits nothing;
`CommitContent` with no created file stands for it. Sizes matter to the quota
only. Keys are 256 random bits, so `Fresh` never picks one that is still named.

`ArtifactCatalogue` is the abstract specification: the artifacts that can be
opened (`stored`) and the references to them (`used`). `Commit` adds all
artifacts of a transaction in one step, referenced from the start; `Refer`
brings a reference to an artifact back; `Collect` drops lapsed references and
artifacts that no remaining reference names. `CatalogueRefined` is the
refinement, with `rows \cap dir` for `stored` and `refs \cup prev` for `used`:
staging, renaming, compensation, unlinking and crashes do not show.

### Revisions

One problem: `number`, `state`, `stmt`, `pdf`, `tests` are its rows, `preview`,
`prevRev`, `expired` its import previews, `assigned` the revisions that
assignments pin. A request is a sequence of steps: `Call` (what the handler
loads and checks before the transaction), `LockDraft` or `CloneLatest` and
`CloneLock` (the conditional write that takes the row, and the reads after it),
then one action per operation that writes and commits (`SaveTest`,
`ReplaceTest`, `DeleteTest`, `UploadPDF`, `PreviewZIP`, `CommitZIP`,
`CommitZIPAgain`, `UpdateDraft`, `Publish`, `Clone`), or `NotDraft` or
`Rollback`. An assignment is two steps with no lock over them: `CallAssign`
loads the revision and checks that it is published, `Assign` inserts. Row locks
are PostgreSQL's; SQLite's schedules are among them. A request is called as
"edit" (any operation that only locks a draft), "import", "update", "clone" or
"assign", as far as what it loads differs; which edit it is shows in its write.
What a transaction has read is kept in `copy` and `last`, so that a stale read
would show. A statement is empty or not, the two files of a test are one
artifact id, and `from` remembers which preview a test came from.

### Access

One contest, its series, one problem that is assigned to some of them.
`contest`, `series`, `live`, `assigned`, `member` are the committed rows, `now`
the clock. A reader (`CallRead`, `CallStatement`, `CallDownload`, `CallPage`)
goes through the queries and clock readings of `CanReadSeries` (`Manage`,
`Check`, `Clock`, `Member`), `CanSubmit` (`Participant`, `Window`, `Instant`)
and `Artifact` (`Revision`, `Load`) one step at a time, keeps the rows of the
series and the contest it has loaded (`copy`, `row`) and ends with `granted` or
`refused`. A writer has passed `ManageContest` when it begins; whatever happens
after that may be stale. `LockContest` and `SetMember` are the transaction of
`setMember`. `MayRead` and `May` are the documented rules at one instant,
written apart from the code's order of checks; the history variables `held`,
`seen`, `shown`, `quiet` and `due` record what was true while a request ran. The
rows and the instant a grant rests on need not have held together: a contest can
be moved between the query and the clock reading. `GrantsGrounded` therefore
says that each was in force at some instant of the request, and `DecisionsExact`
that the decision is the documented one when nothing changed meanwhile.

### Ordering and OrderedList

`OrderedList` is the abstract specification: items at distinct positions, added
and removed in one step, a new order of the rows it lists applied in one step. `Ordering` is
`reorder`: the lock on the parent's row, the rows read, the first pass to a
range above every position read, the second pass down to 0, 1, ..., one UPDATE
per step, with inserts, moves and deletes of other requests in between.
`pend` holds what a transaction has written; a commit makes it visible.
`ListRefined` is the refinement (`INSTANCE OrderedList WITH place <- pos`).
The list may be that of series (`movable`) or of assignments.

### AuthLimiter

Buckets are `count` and `age`; a request takes a slot of `authWork` and its clock
reading (`Arrive`), waits for the mutex, and is let in (`Admit`) or not
(`Refuse`). `wait` is the age of its clock reading, at most `MaxWait`. The
history `back[n]` is how long ago the n-th last attempt on `Watched` was let in,
up to `Horizon`, a window less the longest wait.

### Sessions

A browser with tabs: `jar` holds its two cookies, `page` the token in the page of
each tab. A request goes through `Identify` (AuthMiddleware), `Forget`,
`Protect` (RequestProtection) and the steps of its handler; its answer
(`out`) arrives later (`Deliver`) or never (`Lose`). `Restart` loses the
signing key: tokens from before are all `Stale`.

A form is submitted by htmx or plainly (`Post`, `Form`). By htmx (the login,
logout and contest forms), `static/js/app.js` puts the token of the cookie at
that moment into the header `X-CSRF-Token`, which `validRequestCSRF` prefers to
the field of the page. The forms of problems, their revisions and tests, and any
form when the script does not run, are plain and carry the field alone.
`PageActsAsItself` holds of plain forms only: when another tab has logged in
since, an old page whose form the script submits acts for the session that is
current, not for the one the page was rendered for.

### Migrations

`store` is the committed schema (a set of facts), the recorded versions and the
kinds of session rows present; `work` is what the transaction of a process has
made of it. Each migration is an operator that gives the states it may lead to,
none when it returns an error. `Rebuilt` lets a rebuild by SQLite lose the
foreign key and the expiry index, as the comments at
`internal/db/migrations.go:173` and `:199` expect. The unique index on
`token_hash` is not among these facts: whether a rebuild keeps it is up to the
driver, and no migration would restore it.

### Proof modules and instances

The `...Proofs` modules hold the theorems about the module they are named
after, `DataLemmas` what they need to know of minima and maxima, the `MC...`
modules the constants and symmetries of the runs. The inductive invariants
are at the end of the modules they are about. Operators named
`..._Mutant`, `..._Starved` or `..._Late` are broken variants of the
definition that follows them; they show that a property notices the bug.

## Runs

| Run | Instance | Checks |
| --- | --- | --- |
| `artifact_postgres` | 2 keys, 2 requests, 2 collectors, 1 fault | types, `RowsHaveFiles`, `ContentReadable`, `PendingFilesSurvive` |
| `artifact_quota` | files of 1 and 2 bytes, quota 2, 2 requests, 1 collector, slow transactions, a lost answer | `QuotaRespected`, `ActiveUploadSurvives` |
| `artifact_liveness` | 2 keys, 1 request, 1 collector, 2 faults, one connection | `RowsHaveFiles` and `CatalogueRefined` without a bound on the length of transactions, `GarbageCollected`, `UploadsEnd` |
| `artifact_ack_loss` | PostgreSQL with one lost answer | violated: `RowsHaveFiles` |
| `revisions_edit` | 2 revisions, 2 requests, 2 tests, 1 preview, 2 artifacts | types, `PublishedImmutable`, `PublishedHasContent`, `AssignmentsPinned`, `SamplesStaySamples`, `CloneNumberFree`, `CloneCoherent`, `ImportPositionsFree`, `ImportedOnce` |
| `revisions_stale_pdf` | 1 revision, 2 requests | violated: `FileReferencesServerOwned` |
| `access` | an admin who owns the problem, a user who is given and loses every role; 2 series, 1 reader and 2 writers of which 2 run at once, 2 instants | types, `GrantsGrounded`, `DecisionsExact`, `OrganizersByAdmin` |
| `access_stale_schedule` | the same with 1 series | violated: `FormPreservesSchedule` |
| `ordering` | 4 rows at positions 0 to 4, 2 reorders | types, `NoCollision`, `OrderApplied`, `ListRefined` |
| `auth_limiter` | 2 addresses, 3 emails, 2 requests, limit 2, window 2, cap 2, waits of 1 | types, `WorkBounded`, `TableBounded`, `NotLockedOut` |
| `sessions` | 2 tabs, one logs in by script, the other logs out by script and has a plain form; 2 logins of which the first may expire, any number of restarts and lost answers | types, `PageActsAsItself`, `SessionKept`, `RefreshHelps` |
| `migrations` | 3 processes, 1 crash, both dialects, every legacy schema | types, `SchemaReady`, `NoConflict`, `RefusedNotDeleted`, `EveryoneServes` |

Bounds. Two requests and two collectors meet every pairwise race; two keys let a
transaction create two files and be compensated between them. `Grace = TTL = 1`
separates a young file, one past the grace period, and one past expiry and
grace; ages above `TTL + Grace` are not told apart by any comparison. One fault
shows each failure alone, two in the liveness run show a failure of the
recovery. In `artifact_quota` either file fits and both together do not, so that
two sums taken before either rename would admit too much: what keeps the quota
is `storageMu` held from the sum to the rename. In `artifact_liveness` the
request waits for the mutex with the only connection in its hand while the
collector sweeps staging files. Two revisions and two requests let a clone race
with a clone, an edit and a publication; one preview with one test and two test
rows let an import race with an import and an upload. `MaxBlobs`, `MaxPos`,
`PosLimit` (for `1 << 30`) bound counters.

In `access` two instants and windows that start or end at the second of them put
the comparisons on their boundaries (a contest's window and a series' window are
compared by the same code, `InWindow`); the owner has every authority, and the
other user passes through every role while requests are under way. Four rows give a reorder of
three that meets an inserted one; `PosLimit` below `MaxPos` makes the refusal
happen. `auth_limiter` needs a cap that concurrent requests can pass and a
window longer than the longest wait; three emails from two addresses fill the
table. In `sessions` one tab logs in while the other logs out and submits;
two logins give an old and a new session at once (`Expiring` says which of them
may expire: the first, so that the second follows it), three nonces more tokens than
a tab, a cookie and an answer can hold (`Unused` are the ones left; `Render` waits
for one when it has to sign, and never does in this instance). `migrations` starts three
processes, so that one can fail, one commit and one come late.

Further instances answer no question of their own and are kept as constants to
vary rather than as runs; TLC finds no error in them either:

* `ArtifactPostgres.cfg` checked for `CatalogueRefined` (2290382 states), and
  with `SingleConn = TRUE`, 3 keys and 1 collector for its safety invariants
  (1478703 states);
* `RevisionsEdit.cfg` with 3 revisions, 1 test, 1 artifact and no preview (clones
  of clones, for `CloneNumberFree` and `CloneCoherent`; 200940 states), and
  with 1 revision, 4 tests, 4 artifacts, `MaxPos = PosLimit = 1` and
  `ZipSize = 2` (imports of two tests, for `ImportPositionsFree` and
  `ImportedOnce`; 543464 states);
* `Access.cfg` with a third user who owns the problem and a contest that ends
  (1935228 states), `Sessions.cfg` with both sessions expiring (988159 states),
  and `AuthLimiter.cfg` with `Window = 3` (about a million states).

The proofs remove these bounds from the safety properties they cover.

### The three violated properties

* `artifact_ack_loss`: a request uploads, COMMIT takes effect, the connection
  breaks before the answer, `fileTransaction` sees an error and removes the
  files: committed rows without files. The comment at
  `internal/content/files.go:22` speaks of failed transactions only.
* `revisions_stale_pdf`: a metadata update loads the revision, a PDF is
  uploaded, the update writes the old reference back
  (`internal/db/problems.go:80`). `HTTP_API.md:49-51` says that the update
  replaces the listed fields and that file references are server-owned. The
  same write is `StalePDFWrite` in `ArtifactStore`: it brings a reference back
  between the collector's query and its deletes, where only the foreign key
  keeps the file (`ContentReadable`).
* `access_stale_schedule`: an admin opens the HTML form of a series and submits
  it; after `adminSeries` has loaded the row, another request changes the
  release time; the form writes the old schedule back
  (`internal/server/admin.go:147`), although the comment above the line says
  that the schedule is preserved.

### Fairness

`ArtifactStore`: `FairSpec` assumes that time passes, that a request which has a connection
ends its transaction (handlers have no loop that waits for others), that the
collector is run again and again (`HTTP_API.md:124`, "Run the admin GC
operation periodically"), and strong fairness for whoever waits for
`storageMu` or the connection: `sync.Mutex` hands over to a starved waiter
after a millisecond, and `database/sql` serves its queue in order. Nothing
forces a request to begin, to save again or to commit rather than abort.
`GarbageCollected` is conditional on `<>[]Calm`: a failed transaction that removes
a file it has saved, however young, can make it vanish under the scan, which
reads the information of every entry (`internal/content/files.go:306`); that ends
the collection, and transactions that failed so for ever would starve it.
`UploadsEnd` has no condition: the collector that holds the mutex sweeps the directory
without asking for the connection, so nobody waits in a circle.

`AuthLimiter`: time passes, the mutex is handed to every waiter, handlers end;
no request has to come. `Sessions`: from some time on the process is not restarted
and the session cookie is not replaced (a tab that logged in again and again would
outdate each page before it is submitted); the process answers; the user of the
watched tab reloads and submits again and again, and the network delivers a page
that is asked for again and again. Nothing else is asked of the other tab.
`Migrations`: a process that is down is started again (by its
supervisor) and goes on; crashes are finite. `EveryoneServes` is stated for
PostgreSQL: on SQLite two processes may make each other fail as `SQLITE_BUSY`,
and no fairness forbids that they do so for ever. It does not demand that a
first start succeeds: of two processes that find no table of versions, one may
fail at `CreateTable` and has to be started again.

The clock of `allowAuthAttempt` is read before its mutex is won. That is why
`WorkBounded` speaks of a window less the longest wait: in less time than that
fewer than twice the limit are let in, but within a whole window a waiter with
an old reading can open a bucket once more, and three times the limit can pass.

## Proofs

All theorems hold for any sets of keys, requests, collectors, revisions, tests,
previews, users, series, tabs, processes and (finitely many) rows, and for any
bounds. They assume only the named ASSUMEs of the modules: numbers are naturals,
switches are Booleans, `first` is a revision, the strings that stand for
"nothing" are not ids, a request is a reader or a writer. For each invariant
that is not inductive the module ends with the strengthening that is; TLC checked every
strengthening on the instance of its run before it was proved. One lemma per action
or group of actions, under it one step per conjunct that the action can disturb.

`ArtifactStoreProofs`
* `TypeCorrect`: `TypeOK`, inductive by itself.
* `RowsKeepFiles`, `ContentStaysReadable`, `PendingFilesKept`, under `~AckLoss` and
  (`SingleConn` or `~SlowTx`). `IInv` adds that what a request writes is
  uncommitted and its own (`Uncommitted`, `Unshared`), that a collector handles
  only files older than its cutoff and without a row once it unlinks
  (`CollectorShape`), that what it is about to unlink belongs to no transaction
  that can still commit (`CollectorApart`), and why: on PostgreSQL the files of an
  open transaction are younger than every cutoff (`WithinGrace`), on SQLite the
  count waits for the connection. `CommitUnacked` and, on PostgreSQL with
  `SlowTx`, `Tick` are exactly the steps that break it: the one-hour grace
  period is an assumption on PostgreSQL, not a lock.
* `CatalogueRefinement`: `CatalogueRefined` under the same assumptions, from `IInv`.
  The files that `Save`, the compensation and the collector write and remove have
  no row at that time (`FilesUnseen`), COMMIT adds files that are all there
  (`CommitShows`, by `PendingFilesSurvive`), and the collector's COMMIT drops rows
  that nothing references at that instant (`DeleteShows`). A reference that
  comes back (`StalePDFWrite`) finds its artifact because rows have files.
* `UploadsUndisturbed`: `ActiveUploadSurvives` with no assumption, from the facts
  that at most one request is inside `Save` (`SavesAlone`) and that none is while
  a collector sweeps staging files (`SweepsAlone`): together `UploadInv`, which is
  also part of `IInv`.
* `QuotaKept`: `QuotaRespected` with no assumption, for files of any sizes. The sum
  of the sizes is the number of bytes `<<k, n>>`, so that the library's theorems on
  cardinalities replace an induction: a file adds at most its size
  (`BytesAdded`), a removal adds nothing (`BytesRemoved`), and a step either
  removes files or is the rename of an admitted file (`DirSteps`). What the sum
  has admitted still fits when it is renamed (`AdmittedFits`), because no other
  request is in `Save` in between: `QuotaInv` rests on `SavesAlone`, that is on
  `storageMu`.

`RevisionsProofs`
* `PublishedComplete`, `Immutable`, `Pinned`, `Coherent`, `CloneNumbersFree`. `IInv`
  says that a revision row has one owner and that editors own drafts
  (`RowsLocked`), that what a publication or a clone has read is still so
  (`HeaderCurrent`), and that the one clone under way works on the latest
  revision (`ClonesLatest`). `Pinned` needs in addition that the revision of an
  assignment between its check and its insert is still published
  (`RequestsFit`): no lock says so, only that nothing takes publication back.
* `TypeCorrect`, `HiddenStaysHidden`, `PositionsFree`, `PreviewsImportedOnce`, from
  `RowsInv`, which is inductive relative to `IInv`: file ids and positions are
  bounded (`RowsBounded`), an import has a preview of the revision it locks
  (`ImportsFit`), and what it has read under the lock is still so
  (`ImportCurrent`), since whoever else commits that preview waits for the same
  row. Every write puts in a row no test, a row there was, or one with new
  files that are all samples or none (`NewRow`). That `MAX(position)` exists is
  `IntMax` of `DataLemmas`, by the least counterexample.

`OrderingProofs`
* `TypeCorrect`, `NoCollisions`, `OrderIsApplied` and `Refinement`. `IInv` says that
  at most one reorder is under way (`OneReorder`), that it has written only rows
  it went through (`OrderFits`), that the list as it sees it has distinct
  positions (`ViewDistinct`), where exactly its two passes have put the rows
  (`PassesFit`, `SecondFits`), and that without inserts and moves its first
  query still bounds what is there (`QuietReads`). In the refinement a commit is
  `Renumber` of the rows written, an insert or move is `Put`, a delete is
  `Remove`, and every other step of a reorder stutters. That a list has at most
  as many ids as there are rows follows from `FS_Injection`.

`AccessProofs`
* `OrganizersAreTheAdmins`: one membership transaction at a time, and the role it
  has read under the lock is current (`LocksFit`).
* `GrantsHaveGrounds`: at each query and clock reading of a reader, the grounds
  found so far were recorded as held, the contest row it keeps among the rows
  seen, the series row among those shown (`Shape`, `Ground`).
* `DecisionsAreExact`: while nothing changes, what a reader has loaded is what is
  there (`Current`), and a download that is due still has a series before it
  that allows it (`Left`). `TypeCorrect` comes with them.

`AuthLimiterProofs`
* `WorkIsBounded`: the attempts that the bucket counts are the last ones, the first
  of them about as old as the bucket (`FirstCounted`), and fewer than `Limit` of
  those before them are recent (`FewBefore`).
* `TableIsBounded`: the buckets in use are finite in number and at most `Cap + 2`
  (`BucketsFit`); the sets of addresses and accounts may be infinite.
  `TypeCorrect` comes with them.

`SessionsProofs`
* `FormsActForTheirPage`: for plain forms; a token of this process in a page, also
  one on its way, was signed for the session of the page (`PagesFit`), and the
  request carries no header that would be preferred to it.
* `SessionsKept`: an id that is about to be deleted is that of the request's own
  session, and ids do not come back (`RowsFit`, `FoundFits`). `TypeCorrect` comes
  with them.

`MigrationsProofs`
* `SchemaIsReady`, `NoConflicts`, `SessionsRefused` and `TypeCorrect`: a transaction's
  view is sound after each migration and follows from the one it began with
  (`Sound`, `Follows`, `Transactions`), and on PostgreSQL it holds the lock and
  began with what is committed (`Alone`).

Only model-checked: the liveness properties `GarbageCollected`, `UploadsEnd`,
`NotLockedOut`, `RefreshHelps` and `EveryoneServes` (fairness and ENABLED are out of
the prover's reach), and the three violated properties. Every invariant and
every action property of a passing run is proved.

## Plan

1. Done: `ArtifactStore` with `ArtifactCatalogue`, `Revisions`, `Access`, `Ordering`
   with `OrderedList`, `AuthLimiter`, `Sessions`, `Migrations`, their runs, and the
   proofs of all their safety properties and both refinements.
2. The steps towards liveness that are within reach: that a state in which garbage
   stays is one in which a collector's action is possible, as invariants.

## Not modelled

Routing, decoding, rendering, templates and static files keep no state.
Configuration and the command line run once at start (opening the database is part
of `Migrations`). The ZIP importer is a sequential function of an archive's bytes
that keeps nothing. Users and passwords are
single inserts and a library's hash. The judge is an interface without state.
Contents of files, field validation, and the text of errors decide nothing the
properties speak about.
