----------------------------- MODULE Revisions -----------------------------
(***************************************************************************)
(* The revisions of one problem: drafts that several requests edit at the  *)
(* same time, publication, import previews, clones and assignments         *)
(* (internal/db/problems.go, internal/content/files.go and their callers   *)
(* in internal/server).                                                    *)
(*                                                                         *)
(* A request reads and checks the revision before its transaction, then    *)
(* opens the transaction by locking a row, reads again, and writes.  These *)
(* are separate steps here.  Row locks are those of PostgreSQL; SQLite's   *)
(* single connection allows the interleavings in which a transaction is    *)
(* one step, which are among the ones below.                               *)
(*                                                                         *)
(* The input and the output file of a test are one artifact id here, a     *)
(* statement is empty or not, and the metadata that no rule reads (limits, *)
(* languages, checker, points) are left out.  Requests that are refused    *)
(* before they change anything (authorisation, validation) do not appear.  *)
(***************************************************************************)
EXTENDS Integers, FiniteSets, FiniteSetsExt

CONSTANTS Req,        \* concurrent requests
          Rev,        \* revision ids
          Slot,       \* test ids within a revision
          Preview,    \* import preview ids
          MaxBlobs,   \* bound on the artifacts ever created
          MaxPos,     \* bound on the positions a client asks for
          PosLimit,   \* 1<<30: the last position an import appends after
          ZipSize,    \* tests in an archive
          first       \* the id of the problem's first revision

ASSUME RevAssumption == first \in Rev
ASSUME BoundAssumption ==
  /\ MaxBlobs \in Nat /\ MaxPos \in Nat /\ PosLimit \in Nat
  /\ ZipSize \in Nat \ {0}
ASSUME PreviewAssumption == Preview \cap {"none", "upload"} = {}

VARIABLES number,    \* revision number; 0 for an id not yet used
          state,     \* "draft" or "published"
          stmt,      \* is the statement nonempty?
          pdf,       \* the PDF's artifact id, 0 for none
          tests,     \* per revision and slot, a test row
          blobs,     \* artifacts created so far; ids are 1..blobs
          preview,   \* "none", "open", "committed" or "gone"
          prevRev,   \* the revision a preview is for
          expired,   \* previews past their expiry
          assigned,  \* revisions that an assignment of a series pins
          pc, op,    \* where a request is, and which operation it is
          rev,       \* the revision it works on
          imp,       \* the preview it commits
          copy,      \* what it has read: statement, PDF, preview
          last       \* the last position it has read

content == <<number, state, stmt, pdf, tests, blobs>>
imports == <<preview, prevRev, expired>>
reqs == <<pc, op, rev, imp, copy, last>>
vars == <<content, imports, assigned, reqs>>

TestRow == [pos : Int, sample : BOOLEAN, blob : Nat, from : Preview \cup {"upload"}]
NoTest == [pos |-> -1, sample |-> FALSE, blob |-> 0, from |-> "upload"]

(* SaveTest, DeleteTest, UploadPDF, PreviewZIP and PublishRevision         *)
(* ("edit") lock the revision alike and keep nothing of what they load     *)
(* before: which of them a request is shows in its write only.  PreviewZIP *)
(* also refuses a published revision when it loads it, which the lock      *)
(* would refuse as well.                                                   *)
EditOps == {"edit", "import", "update"}
Copies == [stmt : BOOLEAN, pdf : Nat, usable : BOOLEAN, done : BOOLEAN]
NoCopy == [stmt |-> FALSE, pdf |-> 0, usable |-> FALSE, done |-> FALSE]

TypeOK ==
  /\ number \in [Rev -> Nat]
  /\ state \in [Rev -> {"draft", "published"}]
  /\ stmt \in [Rev -> BOOLEAN]
  /\ pdf \in [Rev -> Nat]
  /\ tests \in [Rev -> [Slot -> TestRow]]
  /\ blobs \in Nat
  /\ preview \in [Preview -> {"none", "open", "committed", "gone"}]
  /\ prevRev \in [Preview -> Rev]
  /\ expired \subseteq Preview
  /\ assigned \subseteq Rev
  /\ pc \in [Req -> {"idle", "called", "problem", "tx"}]
  /\ op \in [Req -> EditOps \cup {"clone", "assign", "none"}]
  /\ rev \in [Req -> Rev]
  /\ imp \in [Req -> Preview \cup {"none"}]
  /\ copy \in [Req -> Copies]
  /\ last \in [Req -> Int]

(* CreateProblem inserts the problem and its first draft.                  *)
Init ==
  /\ number = [v \in Rev |-> IF v = first THEN 1 ELSE 0]
  /\ state = [v \in Rev |-> "draft"]
  /\ \E nonempty \in BOOLEAN : stmt = [v \in Rev |-> v = first /\ nonempty]
  /\ pdf = [v \in Rev |-> 0]
  /\ tests = [v \in Rev |-> [t \in Slot |-> NoTest]]
  /\ blobs = 0
  /\ preview = [p \in Preview |-> "none"]
  /\ prevRev = [p \in Preview |-> first]
  /\ expired = {}
  /\ assigned = {}
  /\ pc = [q \in Req |-> "idle"]
  /\ op = [q \in Req |-> "none"]
  /\ rev = [q \in Req |-> first]
  /\ imp = [q \in Req |-> "none"]
  /\ copy = [q \in Req |-> NoCopy]
  /\ last = [q \in Req |-> -1]

-----------------------------------------------------------------------------
(* Rows and locks.                                                         *)

Exists(v) == number[v] > 0
Used(v) == {t \in Slot : tests[v][t] # NoTest}
Positions(v) == {tests[v][t].pos : t \in Used(v)}

(* COALESCE(MAX(position), -1)                                             *)
MaxPosition(v) == Max({-1} \cup Positions(v))

RowFree_Mutant(v) == TRUE

(* A transaction holds the row of the revision it has locked until it ends. *)
RowFree(v) == \A q \in Req : pc[q] = "tx" => rev[q] # v

(* A clone holds the row of the problem until it ends.                     *)
ProblemFree_Mutant == TRUE

ProblemFree == \A q \in Req : op[q] = "clone" => pc[q] \in {"idle", "called"}

(* What a transaction that edits reads once it has the row.                *)
ReadRow(q) ==
  [stmt |-> stmt[rev[q]],
   pdf |-> IF op[q] = "update" THEN copy[q].pdf ELSE pdf[rev[q]],
   usable |-> op[q] = "import" /\ preview[imp[q]] = "open" /\ imp[q] \notin expired,
   done |-> op[q] = "import" /\ preview[imp[q]] = "committed"]

Read(q) ==
  /\ copy' = [copy EXCEPT ![q] = ReadRow(q)]
  /\ last' = [last EXCEPT ![q] = IF op[q] = "import" THEN MaxPosition(rev[q]) ELSE -1]

Finish(q) ==
  /\ pc' = [pc EXCEPT ![q] = "idle"]
  /\ op' = [op EXCEPT ![q] = "none"]
  /\ rev' = [rev EXCEPT ![q] = first]
  /\ imp' = [imp EXCEPT ![q] = "none"]
  /\ copy' = [copy EXCEPT ![q] = NoCopy]
  /\ last' = [last EXCEPT ![q] = -1]

-----------------------------------------------------------------------------
(* Before the transaction.                                                 *)

(* The handler loads the revision.  updateRevision keeps the loaded PDF    *)
(* reference and refuses a published revision here already.               *)
Call(q) ==
  /\ pc[q] = "idle"
  /\ \E o \in EditOps, v \in Rev :
       /\ Exists(v)
       /\ o = "update" => state[v] = "draft"
       /\ op' = [op EXCEPT ![q] = o]
       /\ rev' = [rev EXCEPT ![q] = v]
       /\ IF o = "import"
          THEN \E p \in Preview : /\ preview[p] \in {"open", "committed"}
                                  /\ prevRev[p] = v
                                  /\ imp' = [imp EXCEPT ![q] = p]
          ELSE UNCHANGED imp
       /\ copy' = [copy EXCEPT ![q].pdf = IF o = "update" THEN pdf[v] ELSE 0]
  /\ pc' = [pc EXCEPT ![q] = "called"]
  /\ UNCHANGED <<content, imports, assigned, last>>

(* newRevision and CreateProblemRevision.                                  *)
CallClone(q) ==
  /\ pc[q] = "idle"
  /\ op' = [op EXCEPT ![q] = "clone"]
  /\ pc' = [pc EXCEPT ![q] = "called"]
  /\ UNCHANGED <<content, imports, assigned, rev, imp, copy, last>>

(* An assignment that does not look at the state.                          *)
CallAssign_Mutant(q) ==
  /\ pc[q] = "idle"
  /\ op' = [op EXCEPT ![q] = "assign"]
  /\ \E v \in Rev : Exists(v) /\ rev' = [rev EXCEPT ![q] = v]
  /\ pc' = [pc EXCEPT ![q] = "called"]
  /\ UNCHANGED <<content, imports, assigned, imp, copy, last>>

(* Assign loads the revision and refuses a draft.                          *)
CallAssign(q) ==
  /\ pc[q] = "idle"
  /\ op' = [op EXCEPT ![q] = "assign"]
  /\ \E v \in Rev : /\ Exists(v) /\ state[v] = "published"
                    /\ rev' = [rev EXCEPT ![q] = v]
  /\ pc' = [pc EXCEPT ![q] = "called"]
  /\ UNCHANGED <<content, imports, assigned, imp, copy, last>>

-----------------------------------------------------------------------------
(* Opening the transaction.                                                *)

(* A lock that does not look at the state.                                 *)
LockDraft_Mutant(q) ==
  /\ pc[q] = "called" /\ op[q] \in EditOps
  /\ RowFree(rev[q])
  /\ pc' = [pc EXCEPT ![q] = "tx"]
  /\ Read(q)
  /\ UNCHANGED <<content, imports, assigned, op, rev, imp>>

(* The conditional write waits for the row and takes it if the revision is *)
(* a draft by then.                                                        *)
LockDraft(q) ==
  /\ pc[q] = "called" /\ op[q] \in EditOps
  /\ RowFree(rev[q])
  /\ state[rev[q]] = "draft"
  /\ pc' = [pc EXCEPT ![q] = "tx"]
  /\ Read(q)
  /\ UNCHANGED <<content, imports, assigned, op, rev, imp>>

(* ErrNotDraft: no row matches, and nothing is waited for.                 *)
NotDraft(q) ==
  /\ pc[q] = "called" /\ op[q] \in EditOps
  /\ state[rev[q]] # "draft"
  /\ Finish(q)
  /\ UNCHANGED <<content, imports, assigned>>

(* CreateDraftRevision locks the problem and looks up the latest revision. *)
CloneLatest(q) ==
  /\ pc[q] = "called" /\ op[q] = "clone"
  /\ ProblemFree
  /\ \E v \in Rev : /\ \A w \in Rev : number[w] <= number[v]
                    /\ rev' = [rev EXCEPT ![q] = v]
  /\ pc' = [pc EXCEPT ![q] = "problem"]
  /\ UNCHANGED <<content, imports, assigned, op, imp, copy, last>>

(* It locks that revision, whatever its state, and reads its header.       *)
CloneLock(q) ==
  /\ pc[q] = "problem"
  /\ RowFree(rev[q])
  /\ pc' = [pc EXCEPT ![q] = "tx"]
  /\ Read(q)
  /\ UNCHANGED <<content, imports, assigned, op, rev, imp>>

(* An error, a violated constraint, a cancelled request or the death of    *)
(* the process: the transaction leaves no trace.                           *)
Rollback(q) ==
  /\ pc[q] # "idle"
  /\ Finish(q)
  /\ UNCHANGED <<content, imports, assigned>>

-----------------------------------------------------------------------------
(* The writes of each transaction, and its COMMIT.                         *)

InTx(q, o) == pc[q] = "tx" /\ op[q] = o

NewBlobs(n) == blobs + n <= MaxBlobs /\ blobs' = blobs + n

Uploaded(p, s, b) == [pos |-> p, sample |-> s, blob |-> b, from |-> "upload"]

(* SaveTest without a test id.                                             *)
SaveTest(q) ==
  /\ InTx(q, "edit")
  /\ NewBlobs(1)
  /\ \E t \in Slot \ Used(rev[q]), p \in 0..MaxPos, s \in BOOLEAN :
       /\ p \notin Positions(rev[q])
       /\ tests' = [tests EXCEPT ![rev[q]][t] = Uploaded(p, s, blobs + 1)]
  /\ Finish(q)
  /\ UNCHANGED <<number, state, stmt, pdf, imports, assigned>>

(* A replacement that keeps the artifacts.                                 *)
ReplaceTest_Mutant(q) ==
  /\ InTx(q, "edit")
  /\ NewBlobs(1)
  /\ \E t \in Used(rev[q]), p \in 0..MaxPos, s \in BOOLEAN :
       /\ p \in Positions(rev[q]) => p = tests[rev[q]][t].pos
       /\ tests' = [tests EXCEPT ![rev[q]][t].pos = p, ![rev[q]][t].sample = s]
  /\ Finish(q)
  /\ UNCHANGED <<number, state, stmt, pdf, imports, assigned>>

(* SaveTest with a test id: new artifacts in any case.                     *)
ReplaceTest(q) ==
  /\ InTx(q, "edit")
  /\ NewBlobs(1)
  /\ \E t \in Used(rev[q]), p \in 0..MaxPos, s \in BOOLEAN :
       /\ p \in Positions(rev[q]) => p = tests[rev[q]][t].pos
       /\ tests' = [tests EXCEPT ![rev[q]][t] =
                      [pos |-> p, sample |-> s, blob |-> blobs + 1, from |-> @.from]]
  /\ Finish(q)
  /\ UNCHANGED <<number, state, stmt, pdf, imports, assigned>>

DeleteTest(q) ==
  /\ InTx(q, "edit")
  /\ \E t \in Used(rev[q]) : tests' = [tests EXCEPT ![rev[q]][t] = NoTest]
  /\ Finish(q)
  /\ UNCHANGED <<number, state, stmt, pdf, blobs, imports, assigned>>

UploadPDF(q) ==
  /\ InTx(q, "edit")
  /\ NewBlobs(1)
  /\ pdf' = [pdf EXCEPT ![rev[q]] = blobs + 1]
  /\ Finish(q)
  /\ UNCHANGED <<number, state, stmt, tests, imports, assigned>>

(* A preview whose row does not say which revision it is for.              *)
PreviewZIP_Mutant(q) ==
  /\ InTx(q, "edit")
  /\ \E p \in Preview :
       /\ preview[p] = "none"
       /\ preview' = [preview EXCEPT ![p] = "open"]
       /\ prevRev' = [prevRev EXCEPT ![p] = "none"]
  /\ Finish(q)
  /\ UNCHANGED <<content, expired, assigned>>

(* The archive itself is an artifact that no revision references.          *)
PreviewZIP(q) ==
  /\ InTx(q, "edit")
  /\ \E p \in Preview :
       /\ preview[p] = "none"
       /\ preview' = [preview EXCEPT ![p] = "open"]
       /\ prevRev' = [prevRev EXCEPT ![p] = rev[q]]
  /\ Finish(q)
  /\ UNCHANGED <<content, expired, assigned>>

(* The preview was committed before: nothing is done, with success.        *)
CommitZIPAgain(q) ==
  /\ InTx(q, "import")
  /\ copy[q].done
  /\ Finish(q)
  /\ UNCHANGED <<content, imports, assigned>>

(* CommitZIP appends one hidden test per pair after the last position.  A  *)
(* preview the collector has deleted meanwhile is updated without effect.  *)
CommitZIP(q) ==
  /\ InTx(q, "import")
  /\ copy[q].usable
  /\ last[q] <= PosLimit
  /\ NewBlobs(ZipSize)
  /\ \E at \in [1..ZipSize -> Slot \ Used(rev[q])] :
       /\ \A i, j \in 1..ZipSize : at[i] = at[j] => i = j
       /\ \A i \in 1..ZipSize : last[q] + i \notin Positions(rev[q])
       /\ tests' = [tests EXCEPT ![rev[q]] = [t \in Slot |->
            IF \E i \in 1..ZipSize : at[i] = t
            THEN LET i == CHOOSE j \in 1..ZipSize : at[j] = t
                 IN  [pos |-> last[q] + i, sample |-> FALSE,
                      blob |-> blobs + i, from |-> imp[q]]
            ELSE @[t]]]
  /\ preview' = [preview EXCEPT ![imp[q]] = IF @ = "open" THEN "committed" ELSE @]
  /\ expired' = expired \ {imp[q]}
  /\ Finish(q)
  /\ UNCHANGED <<number, state, stmt, pdf, prevRev, assigned>>

(* UpdateDraftRevision writes the statement and the PDF reference of the   *)
(* struct its caller loaded before the transaction.                        *)
UpdateDraft(q) ==
  /\ InTx(q, "update")
  /\ \E nonempty \in BOOLEAN : stmt' = [stmt EXCEPT ![rev[q]] = nonempty]
  /\ pdf' = [pdf EXCEPT ![rev[q]] = copy[q].pdf]
  /\ Finish(q)
  /\ UNCHANGED <<number, state, tests, blobs, imports, assigned>>

(* PublishRevision checks what it read under the lock.                     *)
Publish(q) ==
  /\ InTx(q, "edit")
  /\ copy[q].stmt \/ copy[q].pdf # 0
  /\ state' = [state EXCEPT ![rev[q]] = "published"]
  /\ Finish(q)
  /\ UNCHANGED <<number, stmt, pdf, tests, blobs, imports, assigned>>

(* CreateDraftRevision inserts the header it read, then copies the tests.  *)
(* The unique index on (problem, number) refuses a number twice.           *)
CloneNumber(q) == number[rev[q]] + 1

Clone(q) ==
  /\ InTx(q, "clone")
  /\ \A w \in Rev : number[w] # CloneNumber(q)
  /\ \E v \in Rev :
       /\ ~Exists(v)
       /\ number' = [number EXCEPT ![v] = CloneNumber(q)]
       /\ stmt' = [stmt EXCEPT ![v] = copy[q].stmt]
       /\ pdf' = [pdf EXCEPT ![v] = copy[q].pdf]
       /\ tests' = [tests EXCEPT ![v] = tests[rev[q]]]
  /\ Finish(q)
  /\ UNCHANGED <<state, blobs, imports, assigned>>

-----------------------------------------------------------------------------
(* Assignments and the life of previews.                                   *)

(* It inserts later, and neither locks the revision nor looks at it again. *)
Assign(q) ==
  /\ pc[q] = "called" /\ op[q] = "assign"
  /\ assigned' = assigned \cup {rev[q]}
  /\ Finish(q)
  /\ UNCHANGED <<content, imports>>

Unassign(v) ==
  /\ v \in assigned
  /\ assigned' = assigned \ {v}
  /\ UNCHANGED <<content, imports, reqs>>

(* The hour of a preview is over; later the collector deletes its row.     *)
(* Of a committed preview only the collector asks for it, and it is not    *)
(* kept.                                                                   *)
Expire(p) ==
  /\ preview[p] = "open"
  /\ expired' = expired \cup {p}
  /\ UNCHANGED <<content, preview, prevRev, assigned, reqs>>

CollectPreview(p) ==
  /\ p \in expired \/ preview[p] = "committed"
  /\ preview' = [preview EXCEPT ![p] = "gone"]
  /\ expired' = expired \ {p}
  /\ UNCHANGED <<content, prevRev, assigned, reqs>>

-----------------------------------------------------------------------------

Open(q) == LockDraft(q) \/ NotDraft(q) \/ CloneLatest(q) \/ CloneLock(q)

Write(q) ==
  \/ SaveTest(q) \/ ReplaceTest(q) \/ DeleteTest(q) \/ UploadPDF(q)
  \/ PreviewZIP(q) \/ CommitZIP(q) \/ CommitZIPAgain(q)
  \/ UpdateDraft(q) \/ Publish(q) \/ Clone(q)

Next ==
  \/ \E q \in Req : \/ Call(q) \/ CallClone(q) \/ CallAssign(q)
                   \/ Open(q) \/ Write(q) \/ Assign(q) \/ Rollback(q)
  \/ \E v \in Rev : Unassign(v)
  \/ \E p \in Preview : Expire(p) \/ CollectPreview(p)

Spec == Init /\ [][Next]_vars

-----------------------------------------------------------------------------
(* Properties.                                                             *)

Unchanged(v) ==
  /\ number'[v] = number[v] /\ state'[v] = state[v]
  /\ stmt'[v] = stmt[v] /\ pdf'[v] = pdf[v] /\ tests'[v] = tests[v]

(* "Published revisions ... are immutable": no edit changes a published    *)
(* revision or its tests, not even one that began while it was a draft.    *)
PublishedImmutable ==
  [][\A v \in Rev : Exists(v) /\ state[v] = "published" => Unchanged(v)]_vars

(* "Requires nonempty statement or PDF": a published revision has one,     *)
(* although edits that empty them race with PublishRevision.               *)
PublishedHasContent ==
  \A v \in Rev : Exists(v) /\ state[v] = "published" => stmt[v] \/ pdf[v] # 0

(* A revision is assigned, or an assignment has been checked for it that   *)
(* is not inserted yet.                                                    *)
Pins(v) == v \in assigned \/ \E q \in Req : op[q] = "assign" /\ rev[q] = v

(* "assignments pin a published revision": what Assign has checked does    *)
(* not change from then on, in the window before its insert, which no lock *)
(* closes against edits and publications, and as long as it is assigned.   *)
AssignmentsPinned == [][\A v \in Rev : Pins(v) => Unchanged(v)]_vars

(* "Clone a coherent revision/test snapshot": a new revision is the latest *)
(* one, header and tests as of one instant, under the next number.         *)
CloneCoherent ==
  [][\A v \in Rev : ~Exists(v) /\ number'[v] > 0 =>
       \E w \in Rev : /\ \A u \in Rev : number[u] <= number[w]
                      /\ number'[v] = number[w] + 1
                      /\ stmt'[v] = stmt[w] /\ pdf'[v] = pdf[w]
                      /\ tests'[v] = tests[w]]_vars

(* Two concurrent clones never meet on a number: CreateDraftRevision does  *)
(* not fail on the unique index.                                           *)
CloneNumberFree ==
  \A q \in Req : InTx(q, "clone") => \A w \in Rev : number[w] # CloneNumber(q)

From(T, p) == {t \in Slot : T[t].from = p}

(* "Repeating a committed preview ... succeeds without duplicates", also   *)
(* when the two commits run at the same time.                              *)
ImportedOnce ==
  [][\A p \in Preview, v \in Rev :
       preview[p] = "committed" /\ Exists(v) => From(tests'[v], p) \subseteq From(tests[v], p)]_vars

(* The positions an import appends at are still free when it inserts.      *)
ImportPositionsFree ==
  \A q \in Req : InTx(q, "import") =>
    \A i \in 1..ZipSize : last[q] + i \notin Positions(rev[q])

(* An artifact is a sample everywhere or nowhere, whatever is cloned and   *)
(* edited: Artifact grants participants the files of samples, and these    *)
(* are never the files of a hidden test.                                   *)
SamplesStaySamples ==
  \A v, w \in Rev : \A t \in Used(v), u \in Used(w) :
    tests[v][t].blob = tests[w][u].blob => tests[v][t].sample = tests[w][u].sample

(* "file references are server-owned": the PDF reference of a revision     *)
(* changes only to a file that is uploaded in the same step.               *)
FileReferencesServerOwned ==
  [][\A v \in Rev : Exists(v) /\ pdf'[v] # pdf[v] =>
       blobs' > blobs /\ pdf'[v] = blobs']_vars

-----------------------------------------------------------------------------
(* The inductive invariant of the proofs.                                  *)

(* TypeOK without the rows of the tests, the positions and the imports.    *)
Tables ==
  /\ number \in [Rev -> Nat]
  /\ state \in [Rev -> {"draft", "published"}]
  /\ stmt \in [Rev -> BOOLEAN] /\ pdf \in [Rev -> Nat]
  /\ tests = [v \in Rev |-> tests[v]] /\ blobs \in Nat
  /\ assigned \subseteq Rev
  /\ pc \in [Req -> {"idle", "called", "problem", "tx"}]
  /\ op \in [Req -> EditOps \cup {"clone", "assign", "none"}]
  /\ rev \in [Req -> Rev]
  /\ copy \in [Req -> Copies]

(* An id without a revision is not published, an assigned one is.          *)
StatesFit ==
  /\ Exists(first)
  /\ \A v \in Rev : ~Exists(v) => state[v] = "draft"
  /\ \A v \in assigned : Exists(v) /\ state[v] = "published"

(* Requests work on revisions that exist; only a clone locks the problem,  *)
(* and what an assignment has found published is so until its insert.      *)
RequestsFit ==
  \A q \in Req : /\ pc[q] \in {"called", "tx"} => op[q] # "none"
                 /\ pc[q] = "problem" => op[q] = "clone"
                 /\ Exists(rev[q])
                 /\ op[q] = "assign" => state[rev[q]] = "published"

(* A revision row has one owner, and whoever edits it owns a draft.        *)
RowsLocked ==
  /\ \A q, s \in Req : q # s /\ pc[q] = "tx" /\ pc[s] = "tx" => rev[q] # rev[s]
  /\ \A q \in Req : pc[q] = "tx" /\ op[q] \in EditOps => state[rev[q]] = "draft"

(* What a publication or a clone has read is still so.                     *)
HeaderCurrent ==
  \A q \in Req : pc[q] = "tx" /\ op[q] \in {"edit", "clone"} =>
    copy[q].stmt = stmt[rev[q]] /\ copy[q].pdf = pdf[rev[q]]

Cloning(q) == op[q] = "clone" /\ pc[q] \in {"problem", "tx"}

(* One clone at a time, and of the revision with the highest number.       *)
ClonesLatest ==
  /\ \A q, s \in Req : Cloning(q) /\ Cloning(s) => q = s
  /\ \A q \in Req : Cloning(q) => \A w \in Rev : number[w] <= number[rev[q]]

IInv ==
  /\ Tables /\ StatesFit /\ RequestsFit /\ RowsLocked
  /\ HeaderCurrent /\ ClonesLatest /\ PublishedHasContent
(* A second invariant, on top of the first, about tests and imports.       *)

Highest == MaxPos + PosLimit + ZipSize

(* No test lies above what an import may append, no file id is ahead.      *)
RowsBounded ==
  \A v \in Rev, t \in Slot : tests[v][t].pos <= Highest /\ tests[v][t].blob <= blobs

(* An import commits a preview of the revision it has locked.              *)
ImportsFit ==
  \A q \in Req : op[q] = "import" => /\ imp[q] \in Preview
                                    /\ prevRev[imp[q]] = rev[q]
                                    /\ preview[imp[q]] # "none"

(* What an import has read under the lock is still so: the preview is not  *)
(* committed by another one, and no test lies after the last position.     *)
ImportCurrent ==
  \A q \in Req : InTx(q, "import") =>
    /\ copy[q].usable => preview[imp[q]] # "committed"
    /\ last[q] >= -1
    /\ \A x \in Positions(rev[q]) : x <= last[q]

RowsInv ==
  /\ TypeOK /\ RowsBounded /\ ImportsFit /\ ImportCurrent /\ SamplesStaySamples
=============================================================================
