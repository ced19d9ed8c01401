-------------------------- MODULE RevisionsProofs --------------------------
(***************************************************************************)
(* Proofs about Revisions, for any number of requests, revisions, tests    *)
(* and previews: published revisions are immutable and complete,           *)
(* assignments stay pinned, clones are coherent, hidden tests stay hidden  *)
(* and imports happen once, at free positions.                             *)
(***************************************************************************)
EXTENDS Revisions, DataLemmas, TLAPS

(* A request that ends touches its own entries only.                       *)
LEMMA FinishFrame ==
  ASSUME Tables, NEW q \in Req, Finish(q)
  PROVE  /\ pc' \in [Req -> {"idle", "called", "problem", "tx"}]
         /\ op' \in [Req -> EditOps \cup {"clone", "assign", "none"}]
         /\ rev' \in [Req -> Rev]
         /\ copy' \in [Req -> Copies]
         /\ pc'[q] = "idle" /\ op'[q] = "none" /\ rev'[q] = first
         /\ \A s \in Req \ {q} : /\ pc'[s] = pc[s] /\ op'[s] = op[s]
                                 /\ rev'[s] = rev[s] /\ copy'[s] = copy[s]
  BY RevAssumption DEF Tables, Finish, Copies, NoCopy

(* Steps that end a request and write nothing but tests and previews.      *)
LEMMA TestsOnly ==
  ASSUME IInv, NEW q \in Req, Finish(q),
         UNCHANGED <<number, state, stmt, pdf, assigned>>,
         tests' = [v \in Rev |-> tests'[v]], blobs' \in Nat
  PROVE  IInv'
<1> USE FinishFrame DEF IInv
<1>1. Tables'
  BY DEF Tables
<1>2. StatesFit' /\ PublishedHasContent'
  BY DEF StatesFit, PublishedHasContent, Exists
<1>3. RequestsFit'
  BY DEF RequestsFit, StatesFit, Exists
<1>4. RowsLocked'
  BY DEF RowsLocked
<1>5. HeaderCurrent'
  BY DEF HeaderCurrent
<1>6. ClonesLatest'
  BY DEF ClonesLatest, Cloning
<1> QED
  BY <1>1, <1>2, <1>3, <1>4, <1>5, <1>6

(* SaveTest, DeleteTest and CommitZIP change tests; NotDraft, Rollback,    *)
(* PreviewZIP and the repeated CommitZIP do not even do that.              *)
LEMMA TestsStep ==
  ASSUME IInv, NEW q \in Req,
         \/ SaveTest(q) \/ ReplaceTest(q) \/ DeleteTest(q) \/ CommitZIP(q)
         \/ NotDraft(q) \/ Rollback(q) \/ PreviewZIP(q) \/ CommitZIPAgain(q)
  PROVE  IInv'
<1>1. tests = [v \in Rev |-> tests[v]] /\ blobs \in Nat /\ rev[q] \in Rev
  BY DEF IInv, Tables
<1>2. CASE SaveTest(q)
  <2>1. tests' = [v \in Rev |-> tests'[v]]
    BY <1>1, <1>2 DEF SaveTest
  <2>2. blobs' \in Nat
    BY <1>1, <1>2 DEF SaveTest, NewBlobs
  <2>3. Finish(q) /\ UNCHANGED <<number, state, stmt, pdf, assigned>>
    BY <1>2 DEF SaveTest
  <2> QED
    BY <2>1, <2>2, <2>3, TestsOnly
<1>3. CASE ReplaceTest(q)
  <2>1. tests' = [v \in Rev |-> tests'[v]]
    BY <1>1, <1>3 DEF ReplaceTest
  <2>2. blobs' \in Nat
    <3>1. NewBlobs(1)
      BY <1>3 DEF ReplaceTest
    <3> QED
      BY <1>1, <3>1 DEF NewBlobs
  <2>3. Finish(q) /\ UNCHANGED <<number, state, stmt, pdf, assigned>>
    BY <1>3 DEF ReplaceTest
  <2> QED
    BY <2>1, <2>2, <2>3, TestsOnly
<1>5. CASE DeleteTest(q)
  <2>1. tests' = [v \in Rev |-> tests'[v]]
    BY <1>1, <1>5 DEF DeleteTest
  <2> QED
    BY <1>1, <1>5, <2>1, TestsOnly DEF DeleteTest
<1>6. CASE CommitZIP(q)
  <2>1. tests' = [v \in Rev |-> tests'[v]]
    BY <1>1, <1>6 DEF CommitZIP
  <2>2. blobs' \in Nat
    BY <1>1, <1>6, BoundAssumption DEF CommitZIP, NewBlobs
  <2>3. Finish(q) /\ UNCHANGED <<number, state, stmt, pdf, assigned>>
    BY <1>6 DEF CommitZIP
  <2> QED
    BY <2>1, <2>2, <2>3, TestsOnly
<1>7. CASE NotDraft(q) \/ Rollback(q) \/ PreviewZIP(q) \/ CommitZIPAgain(q)
  <2>1. tests' = [v \in Rev |-> tests'[v]]
    BY <1>1, <1>7 DEF NotDraft, Rollback, PreviewZIP, CommitZIPAgain, content
  <2> QED
    BY <1>1, <1>7, <2>1, TestsOnly
       DEF NotDraft, Rollback, PreviewZIP, CommitZIPAgain, content
<1> QED
  BY <1>2, <1>3, <1>5, <1>6, <1>7

(* UploadPDF and UpdateDraftRevision change the header of a draft that no  *)
(* other transaction holds, so what others have read stays current.        *)
LEMMA HeaderStep ==
  ASSUME IInv, NEW q \in Req, UploadPDF(q) \/ UpdateDraft(q)
  PROVE  IInv'
<1> USE FinishFrame DEF IInv
<1>0. /\ Finish(q) /\ UNCHANGED <<number, state, tests, assigned>>
      /\ pc[q] = "tx" /\ op[q] \in EditOps
  BY DEF UploadPDF, UpdateDraft, InTx, EditOps
<1>a. rev[q] \in Rev /\ copy[q].pdf \in Nat /\ blobs \in Nat
  BY DEF Tables, Copies
<1>b. blobs' \in Nat
  BY <1>a DEF UploadPDF, UpdateDraft, NewBlobs
<1>c. stmt' \in [Rev -> BOOLEAN]
  BY <1>a DEF UploadPDF, UpdateDraft, Tables
<1>d. pdf' \in [Rev -> Nat]
  <2>1. CASE UploadPDF(q)
    BY <1>a, <2>1 DEF UploadPDF, Tables
  <2>2. CASE UpdateDraft(q)
    BY <1>a, <2>2 DEF UpdateDraft, Tables
  <2> QED
    BY <2>1, <2>2
<1>e. \A v \in Rev : v # rev[q] => stmt'[v] = stmt[v] /\ pdf'[v] = pdf[v]
  BY <1>a DEF UploadPDF, UpdateDraft, Tables
<1>1. /\ Finish(q) /\ UNCHANGED <<number, state, tests, assigned>>
      /\ pc[q] = "tx" /\ op[q] \in EditOps /\ rev[q] \in Rev
      /\ stmt' \in [Rev -> BOOLEAN] /\ pdf' \in [Rev -> Nat] /\ blobs' \in Nat
      /\ \A v \in Rev : v # rev[q] => stmt'[v] = stmt[v] /\ pdf'[v] = pdf[v]
  BY <1>0, <1>a, <1>b, <1>c, <1>d, <1>e
<1>2. Tables'
  BY <1>1 DEF Tables
<1>3. StatesFit'
  BY <1>1 DEF StatesFit, Exists
<1>4. RequestsFit'
  BY <1>1 DEF RequestsFit, StatesFit, Exists
<1>5. RowsLocked'
  BY <1>1 DEF RowsLocked
<1>6. HeaderCurrent'
  BY <1>1 DEF HeaderCurrent, RowsLocked, Tables
<1>7. ClonesLatest'
  BY <1>1 DEF ClonesLatest, Cloning
<1>8. PublishedHasContent'
  BY <1>1 DEF PublishedHasContent, RowsLocked, Exists, Tables
<1> QED
  BY <1>2, <1>3, <1>4, <1>5, <1>6, <1>7, <1>8

(* PublishRevision: the header it checked is the current one.              *)
LEMMA PublishStep ==
  ASSUME IInv, NEW q \in Req, Publish(q)
  PROVE  IInv'
<1> USE FinishFrame DEF IInv
<1>1. /\ Finish(q) /\ UNCHANGED <<number, stmt, pdf, tests, blobs, assigned>>
      /\ pc[q] = "tx" /\ op[q] = "edit" /\ rev[q] \in Rev
      /\ state' = [state EXCEPT ![rev[q]] = "published"]
      /\ copy[q].stmt \/ copy[q].pdf # 0
  BY DEF Publish, InTx, Tables
<1>2. Tables'
  BY <1>1 DEF Tables
<1>3. StatesFit'
  BY <1>1 DEF StatesFit, RequestsFit, Exists, Tables
<1>4. RequestsFit'
  BY <1>1 DEF RequestsFit, StatesFit, Exists
<1>5. RowsLocked'
  BY <1>1, SMTT(30) DEF RowsLocked, Tables
<1>6. HeaderCurrent'
  BY <1>1 DEF HeaderCurrent
<1>7. ClonesLatest'
  BY <1>1 DEF ClonesLatest, Cloning
<1>8. PublishedHasContent'
  BY <1>1 DEF PublishedHasContent, HeaderCurrent, Exists, Tables
<1> QED
  BY <1>2, <1>3, <1>4, <1>5, <1>6, <1>7, <1>8

(* CreateDraftRevision writes an id that nobody works on, and no other     *)
(* clone is under way to be overtaken.                                     *)
LEMMA CloneStep ==
  ASSUME IInv, NEW q \in Req, Clone(q)
  PROVE  IInv'
<1> USE FinishFrame DEF IInv
<1>1. PICK v \in Rev :
        /\ ~Exists(v)
        /\ number' = [number EXCEPT ![v] = CloneNumber(q)]
        /\ stmt' = [stmt EXCEPT ![v] = copy[q].stmt]
        /\ pdf' = [pdf EXCEPT ![v] = copy[q].pdf]
        /\ tests' = [tests EXCEPT ![v] = tests[rev[q]]]
  BY DEF Clone
<1>2. /\ Finish(q) /\ UNCHANGED <<state, blobs, assigned>>
      /\ pc[q] = "tx" /\ op[q] = "clone" /\ rev[q] \in Rev
      /\ CloneNumber(q) \in Nat /\ CloneNumber(q) > 0
  BY DEF Clone, InTx, Tables, CloneNumber
<1>3. Tables'
  BY <1>1, <1>2 DEF Tables, Copies
<1>4. StatesFit'
  BY <1>1, <1>2 DEF StatesFit, Exists, Tables
<1>5. RequestsFit'
  BY <1>1, <1>2 DEF RequestsFit, StatesFit, Exists, Tables
<1>6. RowsLocked'
  BY <1>1, <1>2 DEF RowsLocked
<1>7. HeaderCurrent'
  BY <1>1, <1>2 DEF HeaderCurrent, RequestsFit, Exists, Tables
<1>8. ClonesLatest'
  BY <1>1, <1>2 DEF ClonesLatest, Cloning
<1>9. PublishedHasContent'
  BY <1>1, <1>2 DEF PublishedHasContent, StatesFit, Exists, Tables
<1> QED
  BY <1>3, <1>4, <1>5, <1>6, <1>7, <1>8, <1>9

(* Before the write a request changes its own entries only; it takes a row *)
(* that is free, and a clone starts when no other one is under way.        *)
LEMMA OpenStep ==
  ASSUME IInv, NEW q \in Req,
         \/ Call(q) \/ CallClone(q) \/ CallAssign(q)
         \/ LockDraft(q) \/ CloneLatest(q) \/ CloneLock(q)
  PROVE  IInv'
<1> USE DEF IInv, EditOps
<1>1. /\ UNCHANGED <<number, state, stmt, pdf, tests, blobs, assigned>>
      /\ StatesFit' /\ PublishedHasContent'
  BY DEF Call, CallClone, CallAssign, LockDraft, CloneLatest, CloneLock, content,
         StatesFit, PublishedHasContent, Exists
<1>2. CASE Call(q)
  <2>1. PICK o \in EditOps, v \in Rev :
          /\ Exists(v)
          /\ op' = [op EXCEPT ![q] = o]
          /\ rev' = [rev EXCEPT ![q] = v]
          /\ copy' = [copy EXCEPT ![q].pdf = IF o = "update" THEN pdf[v] ELSE 0]
    BY <1>2 DEF Call
  <2>2. pc[q] = "idle" /\ pc' = [pc EXCEPT ![q] = "called"]
    BY <1>2 DEF Call
  <2>3. (IF o = "update" THEN pdf[v] ELSE 0) \in Nat /\ copy[q] \in Copies
    BY DEF Tables
  <2>4. copy' \in [Req -> Copies]
    BY <2>1, <2>3 DEF Tables, Copies
  <2>5. \A s \in Req \ {q} : copy'[s] = copy[s]
    BY <2>1 DEF Tables
  <2>6. Tables'
    BY <1>1, <2>1, <2>2, <2>4 DEF Tables
  <2>7. RequestsFit'
    BY <1>1, <2>1, <2>2 DEF Tables, RequestsFit, Exists
  <2>8. RowsLocked' /\ HeaderCurrent'
    BY <1>1, <2>1, <2>2, <2>5 DEF Tables, RowsLocked, HeaderCurrent
  <2>9. ClonesLatest'
    BY <1>1, <2>1, <2>2 DEF Tables, ClonesLatest, Cloning
  <2> QED
    BY <1>1, <2>6, <2>7, <2>8, <2>9
<1>3. CASE CallClone(q)
  BY <1>1, <1>3 DEF CallClone, Tables, RequestsFit, RowsLocked, HeaderCurrent,
     ClonesLatest, Cloning, Exists
<1>4. CASE LockDraft(q)
  BY <1>1, <1>4 DEF LockDraft, RowFree, Read, ReadRow, Tables, RequestsFit,
     RowsLocked, HeaderCurrent, ClonesLatest, Cloning, Exists, Copies
<1>5. CASE CloneLatest(q)
  BY <1>1, <1>5 DEF CloneLatest, ProblemFree, Tables, RequestsFit, RowsLocked,
     HeaderCurrent, ClonesLatest, Cloning, Exists, StatesFit
<1>6. CASE CloneLock(q)
  BY <1>1, <1>6 DEF CloneLock, RowFree, Read, ReadRow, Tables, RequestsFit,
     RowsLocked, HeaderCurrent, ClonesLatest, Cloning, Exists, Copies
<1>7. CASE CallAssign(q)
  <2>1. PICK v \in Rev : Exists(v) /\ state[v] = "published" /\ rev' = [rev EXCEPT ![q] = v]
    BY <1>7 DEF CallAssign
  <2>2. /\ op' = [op EXCEPT ![q] = "assign"] /\ pc' = [pc EXCEPT ![q] = "called"]
        /\ pc[q] = "idle" /\ UNCHANGED copy
    BY <1>7 DEF CallAssign
  <2>3. Tables'
    BY <1>1, <2>1, <2>2 DEF Tables
  <2>4. RequestsFit'
    BY <1>1, <2>1, <2>2 DEF Tables, RequestsFit, Exists
  <2>5. RowsLocked' /\ HeaderCurrent'
    BY <1>1, <2>1, <2>2 DEF Tables, RowsLocked, HeaderCurrent
  <2>6. ClonesLatest'
    BY <1>1, <2>1, <2>2 DEF Tables, ClonesLatest, Cloning
  <2> QED
    BY <1>1, <2>3, <2>4, <2>5, <2>6
<1> QED
  BY <1>2, <1>3, <1>4, <1>5, <1>6, <1>7

(* An assignment inserts a revision that has stayed published since the    *)
(* check.                                                                  *)
LEMMA AssignStep ==
  ASSUME IInv, NEW q \in Req, Assign(q)
  PROVE  IInv'
<1> USE FinishFrame DEF IInv
<1>1. /\ Finish(q) /\ assigned' = assigned \cup {rev[q]} /\ rev[q] \in Rev
      /\ UNCHANGED <<number, state, stmt, pdf, tests, blobs>>
      /\ Exists(rev[q]) /\ state[rev[q]] = "published"
  BY DEF Assign, content, Tables, RequestsFit
<1>2. Tables'
  BY <1>1 DEF Tables
<1>3. StatesFit' /\ PublishedHasContent'
  BY <1>1 DEF StatesFit, PublishedHasContent, Exists
<1>4. RequestsFit'
  BY <1>1 DEF RequestsFit, StatesFit, Exists
<1>5. RowsLocked' /\ HeaderCurrent'
  BY <1>1 DEF RowsLocked, HeaderCurrent
<1>6. ClonesLatest'
  BY <1>1 DEF ClonesLatest, Cloning
<1> QED
  BY <1>2, <1>3, <1>4, <1>5, <1>6

(* Unassigning and the life of previews concern no revision.               *)
LEMMA OtherStep ==
  ASSUME IInv,
         \/ \E v \in Rev : Unassign(v)
         \/ \E p \in Preview : Expire(p) \/ CollectPreview(p)
         \/ UNCHANGED vars
  PROVE  IInv'
  BY DEF IInv, Unassign, Expire, CollectPreview, vars, content, imports,
     reqs, Tables, StatesFit, RequestsFit, RowsLocked, HeaderCurrent,
     ClonesLatest, Cloning, PublishedHasContent, Exists

(* IInv is inductive.                                                      *)
LEMMA Inductive == (Init => IInv) /\ (IInv /\ [Next]_vars => IInv')
<1>1. ASSUME Init PROVE IInv
  BY <1>1, RevAssumption
     DEF Init, IInv, Tables, StatesFit, RequestsFit, RowsLocked, HeaderCurrent,
         ClonesLatest, Cloning, PublishedHasContent, Exists, Copies, NoCopy
<1>2. ASSUME IInv, [Next]_vars PROVE IInv'
  BY <1>2, TestsStep, HeaderStep, PublishStep, CloneStep, OpenStep, AssignStep, OtherStep
     DEF Next, Open, Write
<1> QED
  BY <1>1, <1>2

(* A published revision always has a statement or a PDF.                   *)
THEOREM PublishedComplete == Spec => []PublishedHasContent
<1>1. IInv => PublishedHasContent
  BY DEF IInv
<1> QED
  BY <1>1, Inductive, PTL DEF Spec

(* Concurrent clones never meet on a revision number.                      *)
THEOREM CloneNumbersFree == Spec => []CloneNumberFree
<1>1. IInv => CloneNumberFree
  BY DEF IInv, CloneNumberFree, CloneNumber, ClonesLatest, Cloning, InTx, Tables
<1> QED
  BY <1>1, Inductive, PTL DEF Spec

(* A step changes a revision only through the request that holds its row   *)
(* as a draft, or by creating it.                                          *)
LEMMA OnlyDraftsChange ==
  ASSUME IInv, [Next]_vars, NEW v \in Rev, Exists(v), state[v] = "published"
  PROVE  Unchanged(v)
<1> USE DEF Unchanged, IInv, Tables, content
<1>1. ASSUME NEW q \in Req, Write(q) PROVE Unchanged(v)
  <2>1. pc[q] = "tx" /\ op[q] \in EditOps => rev[q] # v
    BY DEF RowsLocked
  <2>2. CASE SaveTest(q) \/ ReplaceTest(q) \/ DeleteTest(q)
    BY <2>1, <2>2 DEF SaveTest, ReplaceTest, DeleteTest, InTx, EditOps
  <2>3. CASE CommitZIP(q) \/ CommitZIPAgain(q) \/ PreviewZIP(q)
    BY <2>1, <2>3 DEF CommitZIP, CommitZIPAgain, PreviewZIP, InTx, EditOps
  <2>4. CASE UploadPDF(q) \/ UpdateDraft(q) \/ Publish(q)
    BY <2>1, <2>4 DEF UploadPDF, UpdateDraft, Publish, InTx, EditOps
  <2>5. CASE Clone(q)
    BY <2>5 DEF Clone, Exists
  <2> QED
    BY <1>1, <2>2, <2>3, <2>4, <2>5 DEF Write
<1>2. CASE \E q \in Req : \/ Call(q) \/ CallClone(q) \/ CallAssign(q)
                          \/ Open(q) \/ Assign(q) \/ Rollback(q)
  BY <1>2 DEF Call, CallClone, CallAssign, Open, LockDraft, NotDraft, CloneLatest, CloneLock,
     Assign, Rollback
<1>3. CASE \/ \E w \in Rev : Unassign(w)
           \/ \E p \in Preview : Expire(p) \/ CollectPreview(p)
           \/ UNCHANGED vars
  BY <1>3 DEF Unassign, Expire, CollectPreview, vars
<1> QED
  BY <1>1, <1>2, <1>3 DEF Next

(* Published revisions are immutable.                                      *)
THEOREM Immutable == Spec => PublishedImmutable
<1>1. IInv /\ [Next]_vars =>
        [\A v \in Rev : Exists(v) /\ state[v] = "published" => Unchanged(v)]_vars
  BY OnlyDraftsChange
<1> QED
  BY <1>1, Inductive, PTL DEF Spec, PublishedImmutable

(* What an assignment pins does not change under it, and what it is going  *)
(* to pin does not change between its check and its insert, although the   *)
(* revision is not locked (service.go: Assign).                            *)
THEOREM Pinned == Spec => AssignmentsPinned
<1>1. ASSUME IInv, NEW v \in Rev, Pins(v) PROVE Exists(v) /\ state[v] = "published"
  BY <1>1 DEF IInv, StatesFit, RequestsFit, Pins
<1>2. IInv /\ [Next]_vars => [\A v \in Rev : Pins(v) => Unchanged(v)]_vars
  BY <1>1, OnlyDraftsChange
<1> QED
  BY <1>2, Inductive, PTL DEF Spec, AssignmentsPinned

(* A new revision is a coherent copy of the latest one.                    *)
THEOREM Coherent == Spec => CloneCoherent
<1> DEFINE Copied ==
      \A v \in Rev : ~Exists(v) /\ number'[v] > 0 =>
        \E w \in Rev : /\ \A u \in Rev : number[u] <= number[w]
                       /\ number'[v] = number[w] + 1
                       /\ stmt'[v] = stmt[w] /\ pdf'[v] = pdf[w]
                       /\ tests'[v] = tests[w]
<1>1. ASSUME IInv, NEW q \in Req, Clone(q) PROVE Copied
  <2>1. /\ \A u \in Rev : number[u] <= number[rev[q]]
        /\ copy[q].stmt = stmt[rev[q]] /\ copy[q].pdf = pdf[rev[q]]
        /\ rev[q] \in Rev
    BY <1>1 DEF IInv, ClonesLatest, Cloning, HeaderCurrent, Clone, InTx, Tables
  <2> QED
    BY <1>1, <2>1 DEF Clone, CloneNumber, Exists, IInv, Tables
<1>2. ASSUME IInv, [Next]_vars, \A q \in Req : ~Clone(q) PROVE number' = number
  BY <1>2 DEF Next, Open, Write, Call, CallClone, CallAssign, LockDraft, NotDraft, CloneLatest,
     CloneLock, Rollback, SaveTest, ReplaceTest, DeleteTest, UploadPDF, PreviewZIP,
     CommitZIP, CommitZIPAgain, UpdateDraft, Publish, Assign, Unassign, Expire,
     CollectPreview, vars, content
<1>3. IInv /\ [Next]_vars => [Copied]_vars
  BY <1>1, <1>2 DEF Exists
<1> QED
  BY <1>3, Inductive, PTL DEF Spec, CloneCoherent
-----------------------------------------------------------------------------
(* Tests and imports: the second invariant.                                *)

(* What a step may put in a row: no test, a row there was already, or one  *)
(* with new files, all of which are samples or none.                       *)
NewRow(row, sample) ==
  \/ row = NoTest
  \/ \E v \in Rev, t \in Slot : row = tests[v][t]
  \/ /\ row.pos <= Highest /\ row.sample = sample
     /\ blobs < row.blob /\ row.blob <= blobs'

(* The imports other than q's keep their previews, and none of these is    *)
(* committed under them.                                                   *)
PreviewsKept(q) ==
  /\ preview' \in [Preview -> {"none", "open", "committed", "gone"}]
  /\ prevRev' \in [Preview -> Rev]
  /\ expired' \subseteq Preview
  /\ \A r \in Req \ {q} : op[r] = "import" =>
       /\ prevRev'[imp[r]] = prevRev[imp[r]]
       /\ preview'[imp[r]] # "none"
       /\ pc[r] = "tx" /\ preview'[imp[r]] = "committed" => preview[imp[r]] = "committed"

LEMMA PreviewsUnchanged ==
  ASSUME RowsInv, NEW q \in Req, UNCHANGED imports
  PROVE  PreviewsKept(q)
  BY DEF PreviewsKept, RowsInv, TypeOK, ImportsFit, imports

(* Rows that are old or new in this sense keep samples and hidden tests    *)
(* apart.                                                                  *)
LEMMA RowsKept ==
  ASSUME TypeOK, RowsBounded, SamplesStaySamples, blobs' \in Nat, blobs <= blobs',
         tests' \in [Rev -> [Slot -> TestRow]], NEW sample \in BOOLEAN,
         \A v \in Rev, t \in Slot : NewRow(tests'[v][t], sample)
  PROVE  RowsBounded' /\ SamplesStaySamples'
<1>1. /\ \A v \in Rev, t \in Slot : tests[v][t] \in TestRow /\ tests'[v][t] \in TestRow
      /\ blobs \in Nat /\ Highest \in Nat
  BY BoundAssumption DEF TypeOK, Highest
<1>2. NoTest.pos = -1 /\ NoTest.blob = 0
  BY DEF NoTest
<1>3. RowsBounded'
  <2> SUFFICES ASSUME NEW v \in Rev, NEW t \in Slot
               PROVE  tests'[v][t].pos <= Highest /\ tests'[v][t].blob <= blobs'
    BY DEF RowsBounded, Highest
  <2>1. CASE tests'[v][t] = NoTest
    BY <1>1, <1>2, <2>1
  <2>2. CASE \E w \in Rev, u \in Slot : tests'[v][t] = tests[w][u]
    <3>1. PICK w \in Rev, u \in Slot : tests'[v][t] = tests[w][u]
      BY <2>2
    <3>2. tests[w][u].pos <= Highest /\ tests[w][u].blob <= blobs /\ tests[w][u].blob \in Nat
      BY <1>1 DEF RowsBounded, TestRow
    <3> QED
      BY <1>1, <3>1, <3>2
  <2> QED
    BY <2>1, <2>2 DEF NewRow
<1>4. SamplesStaySamples'
  <2> SUFFICES ASSUME NEW v \in Rev, NEW w \in Rev, NEW t \in Slot, NEW u \in Slot,
                      tests'[v][t] # NoTest, tests'[w][u] # NoTest,
                      tests'[v][t].blob = tests'[w][u].blob
               PROVE  tests'[v][t].sample = tests'[w][u].sample
    BY DEF SamplesStaySamples, Used
  <2>1. \A x \in Rev, y \in Slot : tests[x][y].blob \in Nat /\ tests[x][y].blob <= blobs
    BY <1>1 DEF RowsBounded, TestRow
  <2>2. \A x1, x2 \in Rev : \A y1, y2 \in Slot :
          /\ tests[x1][y1] # NoTest /\ tests[x2][y2] # NoTest
          /\ tests[x1][y1].blob = tests[x2][y2].blob
          => tests[x1][y1].sample = tests[x2][y2].sample
    BY DEF SamplesStaySamples, Used
  <2>3. tests'[v][t].blob \in Nat /\ tests'[w][u].blob \in Nat
    BY <1>1 DEF TestRow
  <2>4. \/ \E x \in Rev, y \in Slot : tests'[v][t] = tests[x][y]
        \/ tests'[v][t].sample = sample /\ blobs < tests'[v][t].blob
    BY DEF NewRow
  <2>5. \/ \E x \in Rev, y \in Slot : tests'[w][u] = tests[x][y]
        \/ tests'[w][u].sample = sample /\ blobs < tests'[w][u].blob
    BY DEF NewRow
  <2>6. CASE (\E x \in Rev, y \in Slot : tests'[v][t] = tests[x][y])
             /\ (\E x \in Rev, y \in Slot : tests'[w][u] = tests[x][y])
    <3>1. PICK x1 \in Rev, y1 \in Slot : tests'[v][t] = tests[x1][y1]
      BY <2>6
    <3>2. PICK x2 \in Rev, y2 \in Slot : tests'[w][u] = tests[x2][y2]
      BY <2>6
    <3> QED
      BY <3>1, <3>2, <2>2
  <2>7. CASE (\E x \in Rev, y \in Slot : tests'[v][t] = tests[x][y])
             /\ blobs < tests'[w][u].blob
    <3>1. tests'[v][t].blob <= blobs
      BY <2>1, <2>7
    <3> QED
      BY <1>1, <2>3, <2>7, <3>1
  <2>8. CASE (\E x \in Rev, y \in Slot : tests'[w][u] = tests[x][y])
             /\ blobs < tests'[v][t].blob
    <3>1. tests'[w][u].blob <= blobs
      BY <2>1, <2>8
    <3> QED
      BY <1>1, <2>3, <2>8, <3>1
  <2> QED
    BY <2>4, <2>5, <2>6, <2>7, <2>8
<1> QED
  BY <1>3, <1>4

(* A step that ends a request keeps the invariant if its rows are old or   *)
(* new in this sense and the rows that others have locked stay.            *)
LEMMA EndRows ==
  ASSUME IInv, IInv', RowsInv, NEW q \in Req, Finish(q), PreviewsKept(q),
         blobs <= blobs', NEW sample \in BOOLEAN,
         tests' \in [Rev -> [Slot -> TestRow]],
         \A v \in Rev, t \in Slot : NewRow(tests'[v][t], sample),
         \A r \in Req \ {q} : pc[r] = "tx" => tests'[rev[r]] = tests[rev[r]]
  PROVE  RowsInv'
<1>1. TypeOK /\ Tables /\ Tables'
  BY DEF IInv, RowsInv
<1>2. /\ imp' \in [Req -> Preview \cup {"none"}] /\ last' \in [Req -> Int]
      /\ \A r \in Req \ {q} : imp'[r] = imp[r] /\ last'[r] = last[r]
  BY <1>1 DEF Finish, TypeOK
<1>3. /\ pc'[q] = "idle" /\ op'[q] = "none"
      /\ \A r \in Req \ {q} : /\ pc'[r] = pc[r] /\ op'[r] = op[r]
                              /\ rev'[r] = rev[r] /\ copy'[r] = copy[r]
  BY <1>1, FinishFrame
<1>4. TypeOK'
  BY <1>1, <1>2 DEF TypeOK, Tables, PreviewsKept
<1>5. RowsBounded' /\ SamplesStaySamples'
  BY <1>1, RowsKept DEF Tables, RowsInv
<1>6. ImportsFit'
  BY <1>2, <1>3 DEF RowsInv, ImportsFit, PreviewsKept
<1>7. ImportCurrent'
  BY <1>2, <1>3 DEF RowsInv, ImportCurrent, ImportsFit, PreviewsKept, InTx, Positions, Used
<1> QED
  BY <1>4, <1>5, <1>6, <1>7 DEF RowsInv
(* Steps that end a request and leave the tests alone.                     *)
LEMMA EndWithoutRows ==
  ASSUME IInv, IInv', RowsInv, NEW q \in Req, Finish(q), PreviewsKept(q),
         blobs <= blobs', UNCHANGED tests
  PROVE  RowsInv'
<1>1. tests' \in [Rev -> [Slot -> TestRow]]
  BY DEF RowsInv, TypeOK
<1>2. \A v \in Rev, t \in Slot : NewRow(tests'[v][t], FALSE)
  BY DEF NewRow
<1> QED
  BY <1>1, <1>2, EndRows

LEMMA PlainRows ==
  ASSUME IInv, IInv', RowsInv, NEW q \in Req,
         \/ NotDraft(q) \/ Rollback(q) \/ CommitZIPAgain(q)
         \/ UploadPDF(q) \/ UpdateDraft(q) \/ Publish(q) \/ Assign(q)
  PROVE  RowsInv'
<1>1. blobs \in Nat
  BY DEF RowsInv, TypeOK
<1>2. Finish(q) /\ UNCHANGED imports /\ UNCHANGED tests
  BY DEF NotDraft, Rollback, CommitZIPAgain, UploadPDF, UpdateDraft, Publish, Assign, content
<1>3. blobs <= blobs'
  BY <1>1 DEF NotDraft, Rollback, CommitZIPAgain, UploadPDF, UpdateDraft, Publish, Assign,
     content, NewBlobs
<1> QED
  BY <1>2, <1>3, PreviewsUnchanged, EndWithoutRows

(* PreviewZIP takes a preview that no import has.                          *)
LEMMA PreviewRows ==
  ASSUME IInv, IInv', RowsInv, NEW q \in Req, PreviewZIP(q)
  PROVE  RowsInv'
<1>1. PICK p \in Preview : /\ preview[p] = "none"
                           /\ preview' = [preview EXCEPT ![p] = "open"]
                           /\ prevRev' = [prevRev EXCEPT ![p] = rev[q]]
  BY DEF PreviewZIP
<1>2. /\ preview \in [Preview -> {"none", "open", "committed", "gone"}]
      /\ prevRev \in [Preview -> Rev] /\ expired \subseteq Preview
      /\ rev[q] \in Rev /\ blobs \in Nat
  BY DEF RowsInv, TypeOK
<1>3. Finish(q) /\ UNCHANGED tests /\ expired' = expired /\ blobs <= blobs'
  BY <1>2 DEF PreviewZIP, content
<1>4. \A r \in Req : op[r] = "import" => imp[r] \in Preview /\ preview[imp[r]] # "none"
  BY DEF RowsInv, ImportsFit
<1>5. PreviewsKept(q)
  BY <1>1, <1>2, <1>3, <1>4 DEF PreviewsKept
<1> QED
  BY <1>3, <1>5, EndWithoutRows

(* A step of a transaction that rewrites the rows of the revision it has   *)
(* locked.                                                                 *)
LEMMA OwnRows ==
  ASSUME IInv, IInv', RowsInv, NEW q \in Req, Finish(q), PreviewsKept(q),
         blobs <= blobs', NEW sample \in BOOLEAN, pc[q] = "tx",
         NEW rows \in [Slot -> TestRow],
         tests' = [tests EXCEPT ![rev[q]] = rows],
         \A t \in Slot : NewRow(rows[t], sample)
  PROVE  RowsInv'
<1>1. tests \in [Rev -> [Slot -> TestRow]] /\ rev \in [Req -> Rev]
  BY DEF RowsInv, TypeOK
<1>2. tests' \in [Rev -> [Slot -> TestRow]]
  BY <1>1
<1>3. \A v \in Rev, t \in Slot : NewRow(tests'[v][t], sample)
  <2> SUFFICES ASSUME NEW v \in Rev, NEW t \in Slot PROVE NewRow(tests'[v][t], sample)
    OBVIOUS
  <2>1. CASE v = rev[q]
    <3>1. tests'[v][t] = rows[t]
      BY <1>1, <2>1
    <3> QED
      BY <3>1
  <2>2. CASE v # rev[q]
    <3>1. tests'[v][t] = tests[v][t]
      BY <1>1, <2>2
    <3> QED
      BY <3>1 DEF NewRow
  <2> QED
    BY <2>1, <2>2
<1>4. \A r \in Req \ {q} : pc[r] = "tx" => tests'[rev[r]] = tests[rev[r]]
  BY <1>1 DEF IInv, RowsLocked
<1> QED
  BY <1>2, <1>3, <1>4, EndRows

(* SaveTest and DeleteTest write one row.                                  *)
LEMMA EditRows ==
  ASSUME IInv, IInv', RowsInv, NEW q \in Req, SaveTest(q) \/ ReplaceTest(q) \/ DeleteTest(q)
  PROVE  RowsInv'
<1>1. /\ tests \in [Rev -> [Slot -> TestRow]] /\ rev[q] \in Rev /\ blobs \in Nat
      /\ tests[rev[q]] \in [Slot -> TestRow]
  BY DEF RowsInv, TypeOK
<1>2. Finish(q) /\ UNCHANGED imports /\ pc[q] = "tx"
  BY DEF SaveTest, ReplaceTest, DeleteTest, InTx
<1>3. blobs <= blobs'
  BY <1>1 DEF SaveTest, ReplaceTest, DeleteTest, NewBlobs
<1>4. ASSUME NEW t \in Slot, NEW row \in TestRow, NEW sample \in BOOLEAN,
             NewRow(row, sample), tests' = [tests EXCEPT ![rev[q]][t] = row]
      PROVE  RowsInv'
  <2>1. PICK rows : rows = [tests[rev[q]] EXCEPT ![t] = row]
    OBVIOUS
  <2>2. rows \in [Slot -> TestRow]
    BY <1>1, <2>1
  <2>3. tests' = [tests EXCEPT ![rev[q]] = rows]
    BY <1>1, <1>4, <2>1
  <2>4. \A u \in Slot : NewRow(rows[u], sample)
    <3> SUFFICES ASSUME NEW u \in Slot PROVE NewRow(rows[u], sample)
      OBVIOUS
    <3>1. CASE u = t
      <4>1. rows[u] = row
        BY <1>1, <2>1, <3>1
      <4> QED
        BY <4>1, <1>4
    <3>2. CASE u # t
      <4>1. rows[u] = tests[rev[q]][u]
        BY <1>1, <2>1, <3>2
      <4> QED
        BY <4>1, <1>1 DEF NewRow
    <3> QED
      BY <3>1, <3>2
  <2> QED
    BY <1>2, <1>3, <2>2, <2>3, <2>4, PreviewsUnchanged, OwnRows
<1>5. CASE SaveTest(q)
  <2>1. PICK t \in Slot, p \in 0..MaxPos, s \in BOOLEAN :
          tests' = [tests EXCEPT ![rev[q]][t] = Uploaded(p, s, blobs + 1)]
    BY <1>5 DEF SaveTest
  <2>2. PICK row : row = Uploaded(p, s, blobs + 1)
    OBVIOUS
  <2>3. row \in TestRow /\ row.pos = p /\ row.sample = s /\ row.blob = blobs + 1
    BY <1>1, <2>2 DEF Uploaded, TestRow
  <2>4. p <= Highest /\ blobs < blobs + 1 /\ blobs + 1 <= blobs'
    BY <1>1, <1>5, BoundAssumption DEF Highest, SaveTest, NewBlobs
  <2>5. NewRow(row, s)
    BY <2>3, <2>4 DEF NewRow
  <2> QED
    BY <1>4, <2>1, <2>2, <2>3, <2>5
<1>6. CASE ReplaceTest(q)
  <2>1. PICK t \in Slot, p \in 0..MaxPos, s \in BOOLEAN :
          tests' = [tests EXCEPT ![rev[q]][t] =
                      [pos |-> p, sample |-> s, blob |-> blobs + 1,
                       from |-> tests[rev[q]][t].from]]
    BY <1>1, <1>6 DEF ReplaceTest, Used
  <2>2. PICK row : row = [pos |-> p, sample |-> s, blob |-> blobs + 1,
                          from |-> tests[rev[q]][t].from]
    OBVIOUS
  <2>3. tests[rev[q]][t] \in TestRow
    BY <1>1
  <2>4. row \in TestRow /\ row.pos = p /\ row.sample = s /\ row.blob = blobs + 1
    BY <1>1, <2>2, <2>3 DEF TestRow
  <2>5. p <= Highest /\ blobs < blobs + 1 /\ blobs + 1 <= blobs'
    BY <1>1, <1>6, BoundAssumption DEF Highest, ReplaceTest, NewBlobs
  <2>6. NewRow(row, s)
    BY <2>4, <2>5 DEF NewRow
  <2> QED
    BY <1>4, <2>1, <2>2, <2>4, <2>6
<1>7. CASE DeleteTest(q)
  <2>1. PICK t \in Slot : tests' = [tests EXCEPT ![rev[q]][t] = NoTest]
    BY <1>7 DEF DeleteTest, Used
  <2>2. NoTest \in TestRow /\ NewRow(NoTest, FALSE)
    BY DEF NoTest, TestRow, NewRow
  <2> QED
    BY <1>4, <2>1, <2>2
<1> QED
  BY <1>5, <1>6, <1>7

(* CommitZIP appends hidden tests; whoever else has read the same preview  *)
(* waits for the same revision, so the preview is committed under nobody.  *)
LEMMA ImportRows ==
  ASSUME IInv, IInv', RowsInv, NEW q \in Req, CommitZIP(q)
  PROVE  RowsInv'
<1>1. /\ tests[rev[q]] \in [Slot -> TestRow] /\ rev[q] \in Rev /\ blobs \in Nat
      /\ preview \in [Preview -> {"none", "open", "committed", "gone"}]
      /\ prevRev \in [Preview -> Rev] /\ expired \subseteq Preview /\ last[q] \in Int
  BY DEF RowsInv, TypeOK
<1>2. /\ Finish(q) /\ UNCHANGED prevRev /\ expired' = expired \ {imp[q]} /\ pc[q] = "tx" /\ op[q] = "import"
      /\ blobs' = blobs + ZipSize /\ last[q] <= PosLimit
      /\ preview' = [preview EXCEPT ![imp[q]] = IF @ = "open" THEN "committed" ELSE @]
  BY DEF CommitZIP, InTx, NewBlobs
<1>3. blobs <= blobs'
  BY <1>1, <1>2, BoundAssumption
<1>4. imp[q] \in Preview /\ prevRev[imp[q]] = rev[q]
  BY <1>2 DEF RowsInv, ImportsFit
<1>5. PreviewsKept(q)
  <2>1. \A r \in Req \ {q} : op[r] = "import" => imp[r] \in Preview
                                /\ prevRev[imp[r]] = rev[r] /\ preview[imp[r]] # "none"
    BY DEF RowsInv, ImportsFit
  <2>2. \A r \in Req \ {q} : pc[r] = "tx" => rev[r] # rev[q]
    BY <1>2 DEF IInv, RowsLocked
  <2>3. \A r \in Req \ {q} : op[r] = "import" /\ pc[r] = "tx" => imp[r] # imp[q]
    BY <1>4, <2>1, <2>2
  <2>4. preview' \in [Preview -> {"none", "open", "committed", "gone"}]
    BY <1>1, <1>2, <1>4
  <2>5. \A p \in Preview : /\ p # imp[q] => preview'[p] = preview[p]
                           /\ preview[p] # "none" => preview'[p] # "none"
    BY <1>1, <1>2, <1>4
  <2> QED
    BY <1>1, <1>2, <2>1, <2>3, <2>4, <2>5 DEF PreviewsKept
<1>6. PICK rows : tests' = [tests EXCEPT ![rev[q]] = rows] /\
        \E at \in [1..ZipSize -> Slot \ Used(rev[q])] :
          rows = [t \in Slot |->
            IF \E i \in 1..ZipSize : at[i] = t
            THEN LET i == CHOOSE j \in 1..ZipSize : at[j] = t
                 IN  [pos |-> last[q] + i, sample |-> FALSE,
                      blob |-> blobs + i, from |-> imp[q]]
            ELSE tests[rev[q]][t]]
  <2>1. PICK at \in [1..ZipSize -> Slot \ Used(rev[q])] :
          tests' = [tests EXCEPT ![rev[q]] = [t \in Slot |->
            IF \E i \in 1..ZipSize : at[i] = t
            THEN LET i == CHOOSE j \in 1..ZipSize : at[j] = t
                 IN  [pos |-> last[q] + i, sample |-> FALSE,
                      blob |-> blobs + i, from |-> imp[q]]
            ELSE tests[rev[q]][t]]]
    BY Zenon DEF CommitZIP
  <2> QED
    BY <2>1, Zenon
<1>7. \A t \in Slot : \/ rows[t] = tests[rev[q]][t]
                      \/ \E i \in 1..ZipSize :
                           rows[t] = [pos |-> last[q] + i, sample |-> FALSE,
                                      blob |-> blobs + i, from |-> imp[q]]
  BY <1>6
<1>8. \A t \in Slot : rows[t] \in TestRow /\ NewRow(rows[t], FALSE)
  <2> SUFFICES ASSUME NEW t \in Slot PROVE rows[t] \in TestRow /\ NewRow(rows[t], FALSE)
    OBVIOUS
  <2>1. CASE rows[t] = tests[rev[q]][t]
    BY <1>1, <2>1 DEF NewRow
  <2>2. ASSUME NEW i \in 1..ZipSize,
               rows[t] = [pos |-> last[q] + i, sample |-> FALSE,
                          blob |-> blobs + i, from |-> imp[q]]
        PROVE  rows[t] \in TestRow /\ NewRow(rows[t], FALSE)
    <3>1. /\ rows[t] \in TestRow /\ rows[t].pos = last[q] + i
          /\ rows[t].sample = FALSE /\ rows[t].blob = blobs + i
      BY <1>1, <1>4, <2>2, BoundAssumption DEF TestRow
    <3>2. last[q] + i <= Highest /\ blobs < blobs + i /\ blobs + i <= blobs'
      BY <1>1, <1>2, BoundAssumption DEF Highest
    <3> QED
      BY <3>1, <3>2 DEF NewRow
  <2> QED
    BY <1>7, <2>1, <2>2
<1>9. rows \in [Slot -> TestRow]
  BY <1>6, <1>8
<1> QED
  BY <1>2, <1>3, <1>5, <1>6, <1>8, <1>9, OwnRows

(* A clone copies the rows of the latest revision under a new id.          *)
LEMMA CloneRows ==
  ASSUME IInv, IInv', RowsInv, NEW q \in Req, Clone(q)
  PROVE  RowsInv'
<1>1. PICK v \in Rev : ~Exists(v) /\ tests' = [tests EXCEPT ![v] = tests[rev[q]]]
  BY DEF Clone
<1>2. tests \in [Rev -> [Slot -> TestRow]] /\ rev \in [Req -> Rev] /\ blobs \in Nat
  BY DEF RowsInv, TypeOK
<1>3. Finish(q) /\ UNCHANGED imports /\ blobs <= blobs'
  BY <1>2 DEF Clone
<1>4. tests' \in [Rev -> [Slot -> TestRow]]
  BY <1>1, <1>2
<1>5. \A w \in Rev, t \in Slot : NewRow(tests'[w][t], FALSE)
  BY <1>1, <1>2 DEF NewRow
<1>6. \A r \in Req \ {q} : tests'[rev[r]] = tests[rev[r]]
  BY <1>1, <1>2 DEF IInv, RequestsFit
<1> QED
  BY <1>3, <1>4, <1>5, <1>6, PreviewsUnchanged, EndRows
(* COALESCE(MAX(position), -1) is at least every position.                 *)
LEMMA MaxIsLast ==
  ASSUME TypeOK, RowsBounded, NEW v \in Rev
  PROVE  /\ MaxPosition(v) \in Int /\ MaxPosition(v) >= -1
         /\ \A x \in Positions(v) : x <= MaxPosition(v)
<1> DEFINE P == {-1} \cup Positions(v)
<1>1. \A t \in Slot : tests[v][t].pos \in Int /\ tests[v][t].pos <= Highest
  <2>1. \A t \in Slot : tests[v][t] \in TestRow
    BY DEF TypeOK
  <2> QED
    BY <2>1 DEF RowsBounded, TestRow
<1>2. Highest \in Int /\ -1 <= Highest
  BY BoundAssumption DEF Highest
<1>3. P \in SUBSET Int /\ P # {} /\ \A x \in P : x <= Highest
  BY <1>1, <1>2 DEF Positions, Used
<1>4. Max(P) \in P /\ \A x \in P : x <= Max(P)
  <2> HIDE DEF P
  <2> QED
    BY <1>2, <1>3, IntMax
<1>5. MaxPosition(v) = Max(P)
  BY DEF MaxPosition
<1> QED
  BY <1>3, <1>4, <1>5

(* Before the write a request only reads; an import reads the last         *)
(* position and the state of its preview once it has the row.              *)
LEMMA OpenRows ==
  ASSUME IInv, IInv', RowsInv, NEW q \in Req,
         \/ Call(q) \/ CallClone(q) \/ CallAssign(q)
         \/ LockDraft(q) \/ CloneLatest(q) \/ CloneLock(q)
  PROVE  RowsInv'
<1>0. TypeOK /\ RowsBounded /\ ImportsFit /\ ImportCurrent /\ SamplesStaySamples /\ Tables'
  BY DEF RowsInv, IInv
<1>1. UNCHANGED <<tests, blobs, preview, prevRev, expired>>
  BY DEF Call, CallClone, CallAssign, LockDraft, CloneLatest, CloneLock, content, imports
<1>2. RowsBounded' /\ SamplesStaySamples'
  BY <1>0, <1>1 DEF RowsBounded, SamplesStaySamples, Used, Highest
<1>3. ASSUME imp' \in [Req -> Preview \cup {"none"}], last' \in [Req -> Int]
      PROVE  TypeOK'
  BY <1>0, <1>1, <1>3 DEF TypeOK, Tables
<1>4. ASSUME \A r \in Req \ {q} : /\ pc'[r] = pc[r] /\ op'[r] = op[r] /\ rev'[r] = rev[r]
                                  /\ imp'[r] = imp[r] /\ copy'[r] = copy[r]
                                  /\ last'[r] = last[r],
             op'[q] = "import" => /\ imp'[q] \in Preview /\ prevRev[imp'[q]] = rev'[q]
                                  /\ preview[imp'[q]] # "none",
             pc'[q] = "tx" /\ op'[q] = "import" =>
               /\ copy'[q].usable => preview[imp'[q]] # "committed"
               /\ last'[q] >= -1
               /\ \A x \in Positions(rev'[q]) : x <= last'[q]
      PROVE  ImportsFit' /\ ImportCurrent'
  <2>1. ImportsFit'
    BY <1>0, <1>1, <1>4 DEF ImportsFit
  <2>2. ImportCurrent'
    BY <1>0, <1>1, <1>4 DEF ImportCurrent, InTx, Positions, Used
  <2> QED
    BY <2>1, <2>2
<1>5. /\ pc \in [Req -> {"idle", "called", "problem", "tx"}]
      /\ op \in [Req -> EditOps \cup {"clone", "assign", "none"}] /\ rev \in [Req -> Rev]
      /\ imp \in [Req -> Preview \cup {"none"}] /\ copy \in [Req -> Copies]
      /\ last \in [Req -> Int]
  BY <1>0 DEF TypeOK
<1>6. op[q] = "import" => /\ imp[q] \in Preview /\ prevRev[imp[q]] = rev[q]
                          /\ preview[imp[q]] # "none"
  BY <1>0 DEF ImportsFit
<1>7. CASE Call(q)
  <2>1. PICK o \in EditOps, v \in Rev :
          /\ op' = [op EXCEPT ![q] = o]
          /\ rev' = [rev EXCEPT ![q] = v]
          /\ IF o = "import"
             THEN \E p \in Preview : /\ preview[p] \in {"open", "committed"}
                                     /\ prevRev[p] = v
                                     /\ imp' = [imp EXCEPT ![q] = p]
             ELSE UNCHANGED imp
          /\ copy' = [copy EXCEPT ![q].pdf = IF o = "update" THEN pdf[v] ELSE 0]
    BY <1>7 DEF Call
  <2>2. pc' = [pc EXCEPT ![q] = "called"] /\ last' = last
    BY <1>7 DEF Call
  <2>3. imp' \in [Req -> Preview \cup {"none"}]
    BY <1>5, <2>1
  <2>4. \A r \in Req \ {q} : /\ pc'[r] = pc[r] /\ op'[r] = op[r] /\ rev'[r] = rev[r]
                             /\ copy'[r] = copy[r] /\ last'[r] = last[r]
    BY <1>5, <2>1, <2>2
  <2>5. \A r \in Req \ {q} : imp'[r] = imp[r]
    BY <1>5, <2>1
  <2>6. pc'[q] = "called" /\ op'[q] = o /\ rev'[q] = v
    BY <1>5, <2>1, <2>2
  <2>7. o = "import" => /\ imp'[q] \in Preview /\ prevRev[imp'[q]] = v
                        /\ preview[imp'[q]] # "none"
    BY <1>5, <2>1
  <2> QED
    BY <1>2, <1>3, <1>4, <1>5, <2>2, <2>3, <2>4, <2>5, <2>6, <2>7 DEF RowsInv
<1>8. CASE CallClone(q)
  <2>1. /\ op' = [op EXCEPT ![q] = "clone"] /\ pc' = [pc EXCEPT ![q] = "called"]
        /\ UNCHANGED <<rev, imp, copy, last>>
    BY <1>8 DEF CallClone
  <2>2. op'[q] = "clone" /\ \A r \in Req \ {q} : pc'[r] = pc[r] /\ op'[r] = op[r]
    BY <1>5, <2>1
  <2> QED
    BY <1>2, <1>3, <1>4, <1>5, <2>1, <2>2 DEF RowsInv
<1>9. CASE CloneLatest(q)
  <2>1. /\ op[q] = "clone" /\ pc' = [pc EXCEPT ![q] = "problem"]
        /\ \E v \in Rev : rev' = [rev EXCEPT ![q] = v]
        /\ UNCHANGED <<op, imp, copy, last>>
    BY <1>9 DEF CloneLatest
  <2>2. op'[q] = "clone" /\ \A r \in Req \ {q} : pc'[r] = pc[r] /\ rev'[r] = rev[r]
    BY <1>5, <2>1
  <2> QED
    BY <1>2, <1>3, <1>4, <1>5, <2>1, <2>2 DEF RowsInv
<1>10. CASE LockDraft(q) \/ CloneLock(q)
  <2>1. pc' = [pc EXCEPT ![q] = "tx"] /\ Read(q) /\ UNCHANGED <<op, rev, imp>>
    BY <1>10 DEF LockDraft, CloneLock
  <2>2. /\ MaxPosition(rev[q]) \in Int /\ MaxPosition(rev[q]) >= -1
        /\ \A x \in Positions(rev[q]) : x <= MaxPosition(rev[q])
    BY <1>0, <1>5, MaxIsLast
  <2>3. /\ last' \in [Req -> Int]
        /\ \A r \in Req \ {q} : last'[r] = last[r] /\ copy'[r] = copy[r] /\ pc'[r] = pc[r]
        /\ op[q] = "import" => last'[q] = MaxPosition(rev[q])
    BY <1>5, <2>1, <2>2 DEF Read
  <2>4. copy'[q].usable => preview[imp[q]] # "committed"
    BY <1>5, <2>1 DEF Read, ReadRow
  <2> QED
    BY <1>2, <1>3, <1>4, <1>5, <1>6, <2>1, <2>2, <2>3, <2>4 DEF RowsInv
<1>11. CASE CallAssign(q)
  <2>1. /\ op' = [op EXCEPT ![q] = "assign"] /\ pc' = [pc EXCEPT ![q] = "called"]
        /\ \E v \in Rev : rev' = [rev EXCEPT ![q] = v]
        /\ UNCHANGED <<imp, copy, last>>
    BY <1>11 DEF CallAssign
  <2>2. /\ op'[q] = "assign"
        /\ \A r \in Req \ {q} : pc'[r] = pc[r] /\ op'[r] = op[r] /\ rev'[r] = rev[r]
    BY <1>5, <2>1
  <2> QED
    BY <1>2, <1>3, <1>4, <1>5, <2>1, <2>2 DEF RowsInv
<1> QED
  BY <1>7, <1>8, <1>9, <1>10, <1>11

(* Unassigning and the life of previews: a preview that expires is not     *)
(* committed by that, and one that is collected even less so.              *)
LEMMA OtherRows ==
  ASSUME IInv', RowsInv,
         \/ \E v \in Rev : Unassign(v)
         \/ \E p \in Preview : Expire(p) \/ CollectPreview(p)
         \/ UNCHANGED vars
  PROVE  RowsInv'
<1>0. TypeOK /\ RowsBounded /\ ImportsFit /\ ImportCurrent /\ SamplesStaySamples /\ Tables'
  BY DEF RowsInv, IInv
<1>1. UNCHANGED <<tests, blobs, pc, op, rev, imp, copy, last, prevRev>>
  BY DEF Unassign, Expire, CollectPreview, vars, content, imports, reqs
<1>2. /\ preview' \in [Preview -> {"none", "open", "committed", "gone"}]
      /\ expired' \subseteq Preview
      /\ \A p \in Preview : preview'[p] # preview[p] => preview'[p] = "gone"
  <2>1. CASE UNCHANGED <<preview, expired>>
    BY <1>0, <2>1 DEF TypeOK
  <2>2. CASE \E p \in Preview : Expire(p)
    BY <1>0, <2>2 DEF TypeOK, Expire
  <2>3. CASE \E p \in Preview : CollectPreview(p)
    BY <1>0, <2>3 DEF TypeOK, CollectPreview
  <2> QED
    BY <2>1, <2>2, <2>3 DEF Unassign, vars, imports
<1>3. TypeOK'
  BY <1>0, <1>1, <1>2 DEF TypeOK, Tables
<1>4. RowsBounded' /\ SamplesStaySamples'
  BY <1>0, <1>1 DEF RowsBounded, SamplesStaySamples, Used, Highest
<1>5. ImportsFit'
  BY <1>0, <1>1, <1>2 DEF ImportsFit
<1>6. ImportCurrent'
  BY <1>0, <1>1, <1>2 DEF ImportCurrent, ImportsFit, InTx, Positions, Used
<1> QED
  BY <1>3, <1>4, <1>5, <1>6 DEF RowsInv

(* RowsInv is inductive relative to IInv.                                  *)
LEMMA RowsInductive == (Init => RowsInv) /\ (IInv /\ IInv' /\ RowsInv /\ [Next]_vars => RowsInv')
<1>1. ASSUME Init PROVE RowsInv
  <2>1. NoTest \in TestRow /\ NoTest.pos = -1 /\ NoTest.blob = 0 /\ NoCopy \in Copies
    BY DEF NoTest, TestRow, NoCopy, Copies
  <2>2. TypeOK
    BY <1>1, <2>1, RevAssumption DEF Init, TypeOK
  <2>3. RowsBounded
    BY <1>1, <2>1, BoundAssumption DEF Init, RowsBounded, Highest
  <2>4. ImportsFit /\ ImportCurrent /\ SamplesStaySamples
    BY <1>1 DEF Init, ImportsFit, ImportCurrent, InTx, SamplesStaySamples, Used
  <2> QED
    BY <2>2, <2>3, <2>4 DEF RowsInv
<1>2. ASSUME IInv, IInv', RowsInv, [Next]_vars PROVE RowsInv'
  BY <1>2, PlainRows, PreviewRows, EditRows, ImportRows, CloneRows, OpenRows, OtherRows
     DEF Next, Open, Write
<1> QED
  BY <1>1, <1>2

(* Every reachable state is well typed.                                    *)
THEOREM TypeCorrect == Spec => []TypeOK
<1>1. RowsInv => TypeOK
  BY DEF RowsInv
<1> QED
  BY <1>1, Inductive, RowsInductive, PTL DEF Spec

(* An artifact is a sample everywhere or nowhere, whatever is cloned,      *)
(* replaced and imported by however many requests.                         *)
THEOREM HiddenStaysHidden == Spec => []SamplesStaySamples
<1>1. RowsInv => SamplesStaySamples
  BY DEF RowsInv
<1> QED
  BY <1>1, Inductive, RowsInductive, PTL DEF Spec

(* The positions at which CommitZIP inserts are free.                      *)
THEOREM PositionsFree == Spec => []ImportPositionsFree
<1>1. RowsInv => ImportPositionsFree
  <2> SUFFICES ASSUME RowsInv, NEW q \in Req, InTx(q, "import"), NEW i \in 1..ZipSize,
                      last[q] + i \in Positions(rev[q])
               PROVE  FALSE
    BY DEF ImportPositionsFree
  <2>1. last[q] \in Int /\ i \in Int /\ i >= 1
    BY BoundAssumption DEF RowsInv, TypeOK
  <2>2. last[q] + i <= last[q]
    BY DEF RowsInv, ImportCurrent
  <2> QED
    BY <2>1, <2>2
<1> QED
  BY <1>1, Inductive, RowsInductive, PTL DEF Spec

(* A preview's tests are added at most once, however many requests commit  *)
(* it at the same time.                                                    *)
THEOREM PreviewsImportedOnce == Spec => ImportedOnce
<1> DEFINE Once == \A p \in Preview, v \in Rev :
             preview[p] = "committed" /\ Exists(v) => From(tests'[v], p) \subseteq From(tests[v], p)
<1>1. ASSUME RowsInv, NEW p \in Preview, NEW v \in Rev, NEW t \in Slot, Exists(v),
             tests'[v][t].from = p, tests[v][t].from # p, NEW q \in Req, Write(q)
      PROVE  preview[p] # "committed"
  <2>1. /\ tests \in [Rev -> [Slot -> TestRow]] /\ rev[q] \in Rev /\ p # "upload"
        /\ tests[rev[q]] \in [Slot -> TestRow]
    BY <1>1, PreviewAssumption DEF RowsInv, TypeOK
  <2>2. tests'[v][t] # tests[v][t]
    BY <1>1
  <2>3. CASE SaveTest(q)
    <3>0. PICK u \in Slot, n \in 0..MaxPos, s \in BOOLEAN :
            tests' = [tests EXCEPT ![rev[q]][u] = Uploaded(n, s, blobs + 1)]
      BY <2>3 DEF SaveTest
    <3>a. PICK row : row = Uploaded(n, s, blobs + 1)
      OBVIOUS
    <3>1. tests' = [tests EXCEPT ![rev[q]][u] = row] /\ row.from = "upload"
      BY <3>0, <3>a DEF Uploaded
    <3>2. CASE v = rev[q] /\ t = u
      <4>1. tests'[v][t] = row
        BY <2>1, <3>1, <3>2
      <4> QED
        BY <1>1, <2>1, <3>1, <4>1
    <3>3. CASE ~(v = rev[q] /\ t = u)
      <4>1. tests'[v][t] = tests[v][t]
        BY <2>1, <3>1, <3>3
      <4> QED
        BY <2>2, <4>1
    <3> QED
      BY <3>2, <3>3
  <2>4. CASE ReplaceTest(q)
    <3>0. PICK u \in Slot, n \in 0..MaxPos, s \in BOOLEAN :
            tests' = [tests EXCEPT ![rev[q]][u] =
                        [pos |-> n, sample |-> s, blob |-> blobs + 1,
                         from |-> tests[rev[q]][u].from]]
      BY <2>1, <2>4 DEF ReplaceTest, Used
    <3>a. PICK row : row = [pos |-> n, sample |-> s, blob |-> blobs + 1,
                            from |-> tests[rev[q]][u].from]
      OBVIOUS
    <3>1. /\ tests' = [tests EXCEPT ![rev[q]][u] = row]
          /\ row.from = tests[rev[q]][u].from
      BY <3>0, <3>a
    <3>2. CASE v = rev[q] /\ t = u
      <4>1. tests'[v][t] = row
        BY <2>1, <3>1, <3>2
      <4> QED
        BY <1>1, <3>1, <3>2, <4>1
    <3>3. CASE ~(v = rev[q] /\ t = u)
      <4>1. tests'[v][t] = tests[v][t]
        BY <2>1, <3>1, <3>3
      <4> QED
        BY <2>2, <4>1
    <3> QED
      BY <3>2, <3>3
  <2>5. CASE DeleteTest(q)
    <3>1. PICK u \in Slot : tests' = [tests EXCEPT ![rev[q]][u] = NoTest]
      BY <2>5 DEF DeleteTest, Used
    <3>2. NoTest.from = "upload"
      BY DEF NoTest
    <3> QED
      BY <1>1, <2>1, <3>1, <3>2
  <2>6. CASE CommitZIP(q)
    <3>1. InTx(q, "import") /\ copy[q].usable
      BY <2>6 DEF CommitZIP
    <3>2. preview[imp[q]] # "committed"
      BY <1>1, <3>1 DEF RowsInv, ImportCurrent
    <3>3. tests'[v][t].from = imp[q]
      BY <2>1, <2>2, <2>6 DEF CommitZIP
    <3> QED
      BY <1>1, <3>2, <3>3
  <2>7. CASE Clone(q)
    BY <1>1, <2>1, <2>2, <2>7 DEF Clone
  <2> QED
    BY <1>1, <2>2, <2>3, <2>4, <2>5, <2>6, <2>7
       DEF Write, UploadPDF, PreviewZIP, CommitZIPAgain, UpdateDraft, Publish, content
<1>2. ASSUME [Next]_vars, \A q \in Req : ~Write(q) PROVE tests' = tests
  BY <1>2 DEF Next, Open, Call, CallClone, CallAssign, LockDraft, NotDraft, CloneLatest, CloneLock,
     Rollback, Assign, Unassign, Expire, CollectPreview, vars, content
<1>3. ASSUME RowsInv, [Next]_vars PROVE Once
  <2> SUFFICES ASSUME NEW p \in Preview, NEW v \in Rev, preview[p] = "committed", Exists(v),
                      ~(From(tests'[v], p) \subseteq From(tests[v], p))
               PROVE  FALSE
    OBVIOUS
  <2>1. PICK t \in Slot : tests'[v][t].from = p /\ tests[v][t].from # p
    BY DEF From
  <2>2. PICK q \in Req : Write(q)
    BY <1>2, <1>3, <2>1
  <2> QED
    BY <1>1, <1>3, <2>1, <2>2
<1>4. RowsInv /\ [Next]_vars => [Once]_vars
  BY <1>3
<1> QED
  BY <1>4, Inductive, RowsInductive, PTL DEF Spec, ImportedOnce
=============================================================================
