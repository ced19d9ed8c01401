------------------------ MODULE ArtifactStoreProofs ------------------------
(***************************************************************************)
(* Proofs about ArtifactStore, for any sets of keys, requests and          *)
(* collectors and for both databases: the type invariant, the quota, that  *)
(* running uploads are left alone, and, as long as no answer to a COMMIT   *)
(* is lost, that every row has its file and what is referenced is there.   *)
(***************************************************************************)
EXTENDS ArtifactStore, FiniteSetTheorems, TLAPS

-----------------------------------------------------------------------------
(* Type correctness.                                                       *)

(* Every action keeps the types of the variables; one step per action.     *)
LEMMA TypeStep == TypeOK /\ [Next]_vars => TypeOK'
<1> SUFFICES ASSUME TypeOK, [Next]_vars PROVE TypeOK'
  OBVIOUS
<1> USE TimeAssumption, FaultAssumption DEF TypeOK, ReqStates, GcStates, MaxAge
<1>1. ASSUME NEW r \in Req, Begin(r) PROVE TypeOK'
  BY <1>1 DEF Begin, files, tables, gcs
<1>2. ASSUME NEW r \in Req, CallSave(r) PROVE TypeOK'
  BY <1>2 DEF CallSave, files, tables, gcs
<1>3. ASSUME NEW r \in Req, StartSave(r) PROVE TypeOK'
  BY <1>3 DEF StartSave, Fresh, tables, gcs
<1>4. ASSUME NEW r \in Req, RefuseSave(r) PROVE TypeOK'
  BY <1>4 DEF RefuseSave, files, tables, gcs
<1>5. ASSUME NEW r \in Req, AdmitSave(r) \/ FinishSave(r) PROVE TypeOK'
  BY <1>5 DEF AdmitSave, FinishSave, files, tables, gcs
<1>6. ASSUME NEW r \in Req, FailSave(r) PROVE TypeOK'
  BY <1>6 DEF FailSave, tables, gcs, Fault
<1>7. ASSUME NEW r \in Req, CommitContent(r) PROVE TypeOK'
  BY <1>7 DEF CommitContent, files, gcs
<1>8. ASSUME NEW r \in Req, CommitPreview(r) PROVE TypeOK'
  BY <1>8 DEF CommitPreview, files, gcs
<1>9. ASSUME NEW r \in Req, CommitUnacked(r) PROVE TypeOK'
  BY <1>9 DEF CommitUnacked, files, gcs, Fault
<1>10. ASSUME NEW r \in Req, Abort(r) PROVE TypeOK'
  BY <1>10 DEF Abort, files, tables, gcs
<1>11. ASSUME NEW r \in Req, Compensate(r) PROVE TypeOK'
  BY <1>11 DEF Compensate, tables, gcs, Fault
<1>12. ASSUME NEW r \in Req, CompensateDone(r) PROVE TypeOK'
  BY <1>12 DEF CompensateDone, files, tables, gcs
<1>13. ASSUME NEW g \in Collector, GcCutoff(g) PROVE TypeOK'
  BY <1>13 DEF GcCutoff, files, tables, reqs, OlderThan
<1>14. ASSUME NEW g \in Collector, GcSelect(g) PROVE TypeOK'
  BY <1>14 DEF GcSelect, files, tables, reqs, Unreferenced, Expired
<1>15. ASSUME NEW g \in Collector, GcDelete(g) PROVE TypeOK'
  BY <1>15 DEF GcDelete, files, reqs, Expired
<1>16. ASSUME NEW g \in Collector, GcRefused(g) PROVE TypeOK'
  BY <1>16 DEF GcRefused, files, tables, reqs, Stop
<1>17. ASSUME NEW g \in Collector, GcUnlink(g) PROVE TypeOK'
  BY <1>17 DEF GcUnlink, tables, reqs
<1>18. ASSUME NEW g \in Collector, GcUnlinked(g) PROVE TypeOK'
  BY <1>18 DEF GcUnlinked, files, tables, reqs
<1>19. ASSUME NEW g \in Collector, CollectTemporary(g) \/ SweepTemporary(g) PROVE TypeOK'
  BY <1>19 DEF CollectTemporary, SweepTemporary, files, tables, reqs
<1>20. ASSUME NEW g \in Collector, GcScan(g) PROVE TypeOK'
  BY <1>20 DEF GcScan, files, tables, reqs
<1>21. ASSUME NEW g \in Collector, GcVanished(g) PROVE TypeOK'
  BY <1>21 DEF GcVanished, files, tables, reqs, Stop
<1>22. ASSUME NEW g \in Collector, GcSkip(g) \/ GcCount(g) PROVE TypeOK'
  BY <1>22 DEF GcSkip, GcCount, files, tables, reqs
<1>23. ASSUME NEW g \in Collector, GcRemove(g) PROVE TypeOK'
  BY <1>23 DEF GcRemove, tables, reqs
<1>24. ASSUME NEW g \in Collector, GcDone(g) PROVE TypeOK'
  BY <1>24 DEF GcDone, files, tables, reqs, Stop
<1>25. ASSUME NEW g \in Collector, GcError(g) PROVE TypeOK'
  BY <1>25 DEF GcError, tables, reqs, Stop, Fault
<1>26. CASE DeleteTest
  BY <1>26 DEF DeleteTest, files, reqs, gcs
<1>27. CASE StalePDFWrite
  BY <1>27 DEF StalePDFWrite, files, reqs, gcs, Fault
<1>28. CASE Crash
  BY <1>28 DEF Crash, files, tables, Fault
<1>29. CASE Tick
  BY <1>29 DEF Tick, tables, reqs, gcs, Older
<1>30. CASE UNCHANGED vars
  BY <1>30 DEF vars, files, tables, reqs, gcs
<1> QED
  BY <1>1, <1>2, <1>3, <1>4, <1>5, <1>6, <1>7, <1>8, <1>9, <1>10, <1>11,
     <1>12, <1>13, <1>14, <1>15, <1>16, <1>17, <1>18, <1>19, <1>20, <1>21,
     <1>22, <1>23, <1>24, <1>25, <1>26, <1>27, <1>28, <1>29, <1>30
     DEF Next, RequestStep, SaveStep, EndStep, CollectStep

(* The variables always have their types.                                  *)
THEOREM TypeCorrect == Spec => []TypeOK
<1>1. Init => TypeOK
  BY TimeAssumption, FaultAssumption
     DEF Init, TypeOK, ReqStates, GcStates, MaxAge
<1> QED
  BY <1>1, TypeStep, PTL DEF Spec

-----------------------------------------------------------------------------
(* Staging files, without any assumption on time or on COMMIT.             *)

(* What requests do to UploadInv: the mutex admits one request to Save, and *)
(* only FinishSave and FailSave take a staging file away, their own.        *)
LEMMA RequestUpload == ASSUME UploadInv, NEW r \in Req, RequestStep(r) PROVE UploadInv'
<1> USE DEF UploadInv, InSave
<1>1. TypeOK'
  BY TypeStep DEF Next
<1>2. CASE StartSave(r)
  BY <1>1, <1>2 DEF StartSave, StorageMuFree, gcs, SavesAlone, SweepsAlone,
     ActiveUploadSurvives, TypeOK
<1>3. CASE FinishSave(r) \/ FailSave(r)
  BY <1>1, <1>3 DEF FinishSave, FailSave, gcs, SavesAlone, SweepsAlone,
     ActiveUploadSurvives, TypeOK
<1>4. CASE Begin(r) \/ CallSave(r) \/ RefuseSave(r) \/ AdmitSave(r)
  BY <1>1, <1>4 DEF Begin, CallSave, RefuseSave, AdmitSave, files, gcs, SavesAlone,
     SweepsAlone, ActiveUploadSurvives, TypeOK
<1>5. CASE EndStep(r)
  BY <1>1, <1>5 DEF EndStep, CommitContent, CommitPreview, CommitUnacked, Abort,
     Compensate, CompensateDone, files, gcs, SavesAlone, SweepsAlone,
     ActiveUploadSurvives, TypeOK
<1> QED
  BY <1>2, <1>3, <1>4, <1>5 DEF RequestStep, SaveStep

(* What collectors do: they take staging files only with the mutex, while  *)
(* nobody is in Save.                                                      *)
LEMMA CollectUpload ==
  ASSUME UploadInv, NEW g \in Collector, CollectStep(g) \/ GcError(g)
  PROVE  UploadInv'
<1> USE DEF UploadInv
<1>1. TypeOK'
  BY TypeStep DEF Next
<1>2. CASE CollectTemporary(g)
  BY <1>1, <1>2 DEF CollectTemporary, StorageMuFree, SavesAlone, SweepsAlone, InSave,
     ActiveUploadSurvives, files, reqs, TypeOK
<1>3. CASE SweepTemporary(g) \/ GcError(g)
  BY <1>1, <1>3 DEF SweepTemporary, GcError, Stop, SavesAlone, SweepsAlone, InSave,
     ActiveUploadSurvives, reqs, TypeOK
<1>4. ASSUME CollectStep(g), ~CollectTemporary(g), ~SweepTemporary(g)
      PROVE  /\ UNCHANGED <<temp, pc, staged>>
             /\ \A h \in Collector : gcpc'[h] = "sweep" => gcpc[h] = "sweep"
  BY <1>4 DEF CollectStep, GcCutoff, GcSelect, GcDelete, GcRefused, GcUnlink,
     GcUnlinked, GcScan, GcVanished, GcSkip, GcCount, GcRemove, GcDone, Stop, files,
     reqs, TypeOK
<1> QED
  BY <1>1, <1>2, <1>3, <1>4 DEF SavesAlone, SweepsAlone, InSave, ActiveUploadSurvives

(* Every step keeps UploadInv.                                             *)
LEMMA UploadStep == ASSUME UploadInv, [Next]_vars PROVE UploadInv'
<1> USE DEF UploadInv
<1>1. TypeOK'
  BY TypeStep
<1>2. CASE DeleteTest \/ StalePDFWrite \/ Crash \/ Tick \/ UNCHANGED vars
  BY <1>1, <1>2 DEF DeleteTest, StalePDFWrite, Crash, Tick, vars, files, reqs, gcs,
     SavesAlone, SweepsAlone, InSave, ActiveUploadSurvives
<1> QED
  BY <1>2, RequestUpload, CollectUpload DEF Next

(* Nobody is in Save at the start.                                         *)
LEMMA UploadInit == Init => UploadInv
<1>1. ASSUME Init PROVE TypeOK
  BY <1>1, TimeAssumption, FaultAssumption
     DEF Init, TypeOK, ReqStates, GcStates, MaxAge
<1> QED
  BY <1>1 DEF Init, UploadInv, SavesAlone, SweepsAlone, InSave, ActiveUploadSurvives

(* "active temporary uploads cannot be removed", on both databases, however *)
(* slow uploads are and whatever answers are lost.                          *)
THEOREM UploadsUndisturbed == Spec => []ActiveUploadSurvives
<1>1. UploadInv => ActiveUploadSurvives
  BY DEF UploadInv
<1> QED
  BY <1>1, UploadInit, UploadStep, PTL DEF Spec

-----------------------------------------------------------------------------
(* The inductive invariant, one lemma per action.  Each has one step per   *)
(* conjunct that the action can disturb and one for all the others.        *)

(* A transaction starts with no files of its own.                          *)
LEMMA BeginInv == ASSUME IInv, NEW r \in Req, Begin(r) PROVE IInv'
<1>1. UploadInv'
  BY UploadStep DEF IInv, Next, RequestStep, SaveStep, EndStep
<1>2. RequestShape'
  BY DEF IInv, UploadInv, TypeOK, RequestShape, Begin, files, tables, gcs
<1>3. CollectorApart'
  BY DEF IInv, UploadInv, TypeOK, CollectorApart, RequestShape, InTx, Begin, files,
     tables, gcs
<1>4. WithinGrace'
  BY DEF IInv, UploadInv, TypeOK, WithinGrace, RequestShape, SavesAlone, InSave, InTx,
     Begin, files, tables, gcs
<1>5. PendingFilesSurvive'
  BY DEF IInv, UploadInv, TypeOK, PendingFilesSurvive, RequestShape, InTx, Begin, files,
     tables, gcs
<1>6. /\ Uncommitted' /\ Unshared' /\ CollectorShape'
      /\ RowsHaveFiles' /\ ReferencesHaveRows'
  BY DEF IInv, UploadInv, Uncommitted, Unshared, CollectorShape, RowsHaveFiles,
     ReferencesHaveRows, Begin, files, tables, gcs
<1> QED
  BY <1>1, <1>2, <1>3, <1>4, <1>5, <1>6 DEF IInv

(* Waiting for the mutex changes no file and no row.                       *)
LEMMA CallSaveInv == ASSUME IInv, NEW r \in Req, CallSave(r) PROVE IInv'
<1>1. UploadInv'
  BY UploadStep DEF IInv, Next, RequestStep, SaveStep, EndStep
<1>2. RequestShape'
  BY DEF IInv, UploadInv, TypeOK, RequestShape, CallSave, files, tables, gcs
<1>3. CollectorApart'
  BY DEF IInv, UploadInv, TypeOK, CollectorApart, InTx, CallSave, files, tables, gcs
<1>4. WithinGrace'
  BY DEF IInv, UploadInv, TypeOK, WithinGrace, InTx, CallSave, files, tables, gcs
<1>5. PendingFilesSurvive'
  BY DEF IInv, UploadInv, TypeOK, PendingFilesSurvive, InTx, CallSave, files, tables, gcs
<1>6. /\ Uncommitted' /\ Unshared' /\ CollectorShape'
      /\ RowsHaveFiles' /\ ReferencesHaveRows'
  BY DEF IInv, UploadInv, Uncommitted, Unshared, CollectorShape, RowsHaveFiles,
     ReferencesHaveRows, CallSave, files, tables, gcs
<1> QED
  BY <1>1, <1>2, <1>3, <1>4, <1>5, <1>6 DEF IInv

(* The new key is fresh: no row, request or collector names it.            *)
LEMMA StartSaveInv == ASSUME IInv, NEW r \in Req, StartSave(r) PROVE IInv'
<1>1. UploadInv'
  BY UploadStep DEF IInv, Next, RequestStep, SaveStep, EndStep
<1>2. RequestShape'
  BY DEF IInv, UploadInv, TypeOK, RequestShape, StartSave, Fresh, StorageMuFree, tables,
     gcs
<1>3. Uncommitted'
  BY DEF IInv, UploadInv, TypeOK, Uncommitted, StartSave, Fresh, StorageMuFree, tables,
     gcs
<1>4. Unshared'
  BY DEF IInv, UploadInv, TypeOK, Unshared, ActiveUploadSurvives, StartSave, Fresh,
     StorageMuFree, tables, gcs
<1>5. CollectorApart'
  BY DEF IInv, UploadInv, TypeOK, CollectorApart, CollectorShape, InTx, StartSave, Fresh,
     StorageMuFree, tables, gcs
<1>6. WithinGrace'
  BY TimeAssumption DEF IInv, UploadInv, TypeOK, WithinGrace, InTx, StartSave, Fresh,
     StorageMuFree, tables, gcs
<1>7. PendingFilesSurvive'
  BY DEF IInv, UploadInv, TypeOK, PendingFilesSurvive, InTx, StartSave, Fresh,
     StorageMuFree, tables, gcs
<1>8. /\ CollectorShape' /\ RowsHaveFiles' /\ ReferencesHaveRows'
  BY DEF IInv, UploadInv, CollectorShape, RowsHaveFiles, ReferencesHaveRows, StartSave,
     tables, gcs
<1> QED
  BY <1>1, <1>2, <1>3, <1>4, <1>5, <1>6, <1>7, <1>8 DEF IInv

(* A Save that fails at once leaves what the request has.                  *)
LEMMA RefuseSaveInv == ASSUME IInv, NEW r \in Req, RefuseSave(r) PROVE IInv'
<1>1. UploadInv'
  BY UploadStep DEF IInv, Next, RequestStep, SaveStep, EndStep
<1>2. RequestShape'
  BY DEF IInv, UploadInv, TypeOK, RequestShape, RefuseSave, StorageMuFree, files, tables,
     gcs
<1>3. CollectorApart'
  BY DEF IInv, UploadInv, TypeOK, CollectorApart, InTx, RefuseSave, StorageMuFree, files,
     tables, gcs
<1>4. WithinGrace'
  BY DEF IInv, UploadInv, TypeOK, WithinGrace, InTx, RefuseSave, StorageMuFree, files,
     tables, gcs
<1>5. PendingFilesSurvive'
  BY DEF IInv, UploadInv, TypeOK, PendingFilesSurvive, InTx, RefuseSave, StorageMuFree,
     files, tables, gcs
<1>6. /\ Uncommitted' /\ Unshared' /\ CollectorShape'
      /\ RowsHaveFiles' /\ ReferencesHaveRows'
  BY DEF IInv, UploadInv, Uncommitted, Unshared, CollectorShape, RowsHaveFiles,
     ReferencesHaveRows, RefuseSave, files, tables, gcs
<1> QED
  BY <1>1, <1>2, <1>3, <1>4, <1>5, <1>6 DEF IInv

(* The sum over the directory changes no file and no row.                  *)
LEMMA AdmitSaveInv == ASSUME IInv, NEW r \in Req, AdmitSave(r) PROVE IInv'
<1>1. UploadInv'
  BY UploadStep DEF IInv, Next, RequestStep, SaveStep, EndStep
<1>2. RequestShape'
  BY DEF IInv, UploadInv, TypeOK, RequestShape, AdmitSave, files, tables, gcs
<1>3. \A s \in Req : InTx(s)' = InTx(s)
  BY DEF IInv, UploadInv, TypeOK, InTx, AdmitSave
<1>4. CollectorApart' /\ WithinGrace' /\ PendingFilesSurvive'
  BY <1>3 DEF IInv, CollectorApart, WithinGrace, PendingFilesSurvive, AdmitSave, files,
     tables, gcs
<1>5. /\ Uncommitted' /\ Unshared' /\ CollectorShape'
      /\ RowsHaveFiles' /\ ReferencesHaveRows'
  BY DEF IInv, Uncommitted, Unshared, CollectorShape, RowsHaveFiles,
     ReferencesHaveRows, AdmitSave, files, tables, gcs
<1> QED
  BY <1>1, <1>2, <1>4, <1>5 DEF IInv

(* The renamed file joins the request's own files; it was staged, so no    *)
(* collector has it among its entries.                                     *)
LEMMA FinishSaveInv == ASSUME IInv, NEW r \in Req, FinishSave(r) PROVE IInv'
<1>1. UploadInv'
  BY UploadStep DEF IInv, Next, RequestStep, SaveStep, EndStep
<1>2. RequestShape'
  BY DEF IInv, UploadInv, TypeOK, RequestShape, FinishSave, tables, gcs
<1>3. Uncommitted'
  BY DEF IInv, UploadInv, TypeOK, Uncommitted, Unshared, FinishSave, tables, gcs
<1>4. Unshared'
  BY DEF IInv, UploadInv, TypeOK, Unshared, FinishSave, tables, gcs
<1>5. CollectorApart'
  BY DEF IInv, UploadInv, TypeOK, CollectorApart, InTx, Admitted, FinishSave, tables, gcs
<1>6. WithinGrace'
  BY DEF IInv, UploadInv, TypeOK, WithinGrace, InTx, Admitted, FinishSave, tables, gcs
<1>7. RowsHaveFiles'
  BY DEF IInv, UploadInv, TypeOK, RowsHaveFiles, FinishSave, tables, gcs
<1>8. PendingFilesSurvive'
  BY DEF IInv, UploadInv, TypeOK, PendingFilesSurvive, InTx, Admitted, FinishSave,
     tables, gcs
<1>9. /\ CollectorShape' /\ ReferencesHaveRows'
  BY DEF IInv, UploadInv, CollectorShape, ReferencesHaveRows, FinishSave, tables, gcs
<1> QED
  BY <1>1, <1>2, <1>3, <1>4, <1>5, <1>6, <1>7, <1>8, <1>9 DEF IInv

(* The staging file goes, and belongs to nobody else.                      *)
LEMMA FailSaveInv == ASSUME IInv, NEW r \in Req, FailSave(r) PROVE IInv'
<1>1. UploadInv'
  BY UploadStep DEF IInv, Next, RequestStep, SaveStep, EndStep
<1>2. RequestShape'
  BY DEF IInv, UploadInv, TypeOK, RequestShape, FailSave, tables, gcs
<1>3. Uncommitted'
  BY DEF IInv, UploadInv, TypeOK, Uncommitted, Unshared, FailSave, tables, gcs
<1>4. Unshared'
  BY DEF IInv, UploadInv, TypeOK, Unshared, FailSave, tables, gcs
<1>5. CollectorApart'
  BY DEF IInv, UploadInv, TypeOK, CollectorApart, InTx, FailSave, tables, gcs
<1>6. WithinGrace'
  BY DEF IInv, UploadInv, TypeOK, WithinGrace, InTx, FailSave, tables, gcs
<1>7. PendingFilesSurvive'
  BY DEF IInv, UploadInv, TypeOK, PendingFilesSurvive, InTx, FailSave, tables, gcs
<1>8. /\ CollectorShape' /\ RowsHaveFiles' /\ ReferencesHaveRows'
  BY DEF IInv, UploadInv, CollectorShape, RowsHaveFiles, ReferencesHaveRows, FailSave,
     tables, gcs
<1> QED
  BY <1>1, <1>2, <1>3, <1>4, <1>5, <1>6, <1>7, <1>8 DEF IInv

(* The files of the new rows are there (PendingFilesSurvive), and no       *)
(* collector is about to unlink one of them (CollectorApart).              *)
LEMMA CommitContentInv == ASSUME IInv, NEW r \in Req, CommitContent(r) PROVE IInv'
<1>1. UploadInv'
  BY UploadStep DEF IInv, Next, RequestStep, SaveStep, EndStep
<1>2. RequestShape'
  BY DEF IInv, UploadInv, TypeOK, RequestShape, CommitContent, files, gcs
<1>3. Uncommitted'
  BY DEF IInv, UploadInv, TypeOK, Uncommitted, Unshared, SavesAlone, InSave,
     RequestShape, CommitContent, files, gcs
<1>4. Unshared'
  BY DEF IInv, UploadInv, TypeOK, Unshared, CommitContent, files, gcs
<1>5. CollectorShape'
  BY DEF IInv, UploadInv, TypeOK, CollectorShape, CollectorApart, InTx, CommitContent,
     files, gcs
<1>6. CollectorApart'
  BY DEF IInv, UploadInv, TypeOK, CollectorApart, InTx, CommitContent, files, gcs
<1>7. WithinGrace'
  BY DEF IInv, UploadInv, TypeOK, WithinGrace, InTx, CommitContent, files, gcs
<1>8. RowsHaveFiles'
  BY DEF IInv, UploadInv, TypeOK, RowsHaveFiles, PendingFilesSurvive, InTx,
     CommitContent, files, gcs
<1>9. ReferencesHaveRows'
  BY DEF IInv, UploadInv, TypeOK, ReferencesHaveRows, CommitContent, files, gcs
<1>10. PendingFilesSurvive'
  BY DEF IInv, UploadInv, TypeOK, PendingFilesSurvive, InTx, CommitContent, files, gcs
<1> QED
  BY <1>1, <1>2, <1>3, <1>4, <1>5, <1>6, <1>7, <1>8, <1>9, <1>10 DEF IInv

(* As for CommitContent.                                                   *)
LEMMA CommitPreviewInv == ASSUME IInv, NEW r \in Req, CommitPreview(r) PROVE IInv'
<1>1. UploadInv'
  BY UploadStep DEF IInv, Next, RequestStep, SaveStep, EndStep
<1>2. RequestShape'
  BY DEF IInv, UploadInv, TypeOK, RequestShape, CommitPreview, files, gcs
<1>3. Uncommitted'
  BY DEF IInv, UploadInv, TypeOK, Uncommitted, Unshared, SavesAlone, InSave,
     RequestShape, CommitPreview, files, gcs
<1>4. Unshared'
  BY DEF IInv, UploadInv, TypeOK, Unshared, CommitPreview, files, gcs
<1>5. CollectorShape'
  BY DEF IInv, UploadInv, TypeOK, CollectorShape, CollectorApart, InTx, CommitPreview,
     files, gcs
<1>6. CollectorApart'
  BY DEF IInv, UploadInv, TypeOK, CollectorApart, InTx, CommitPreview, files, gcs
<1>7. WithinGrace'
  BY DEF IInv, UploadInv, TypeOK, WithinGrace, InTx, CommitPreview, files, gcs
<1>8. RowsHaveFiles'
  BY DEF IInv, UploadInv, TypeOK, RowsHaveFiles, PendingFilesSurvive, InTx,
     CommitPreview, files, gcs
<1>9. ReferencesHaveRows'
  BY DEF IInv, UploadInv, TypeOK, ReferencesHaveRows, CommitPreview, files, gcs
<1>10. PendingFilesSurvive'
  BY DEF IInv, UploadInv, TypeOK, PendingFilesSurvive, InTx, CommitPreview, files, gcs
<1> QED
  BY <1>1, <1>2, <1>3, <1>4, <1>5, <1>6, <1>7, <1>8, <1>9, <1>10 DEF IInv

(* Rolling back only ends the transaction.                                 *)
LEMMA AbortInv == ASSUME IInv, NEW r \in Req, Abort(r) PROVE IInv'
<1>1. UploadInv'
  BY UploadStep DEF IInv, Next, RequestStep, SaveStep, EndStep
<1>2. RequestShape'
  BY DEF IInv, UploadInv, TypeOK, RequestShape, Abort, files, tables, gcs
<1>3. CollectorApart'
  BY DEF IInv, UploadInv, TypeOK, CollectorApart, InTx, Abort, files, tables, gcs
<1>4. WithinGrace'
  BY DEF IInv, UploadInv, TypeOK, WithinGrace, InTx, Abort, files, tables, gcs
<1>5. PendingFilesSurvive'
  BY DEF IInv, UploadInv, TypeOK, PendingFilesSurvive, InTx, Abort, files, tables, gcs
<1>6. /\ Uncommitted' /\ Unshared' /\ CollectorShape'
      /\ RowsHaveFiles' /\ ReferencesHaveRows'
  BY DEF IInv, UploadInv, Uncommitted, Unshared, CollectorShape, RowsHaveFiles,
     ReferencesHaveRows, Abort, files, tables, gcs
<1> QED
  BY <1>1, <1>2, <1>3, <1>4, <1>5, <1>6 DEF IInv

(* A compensated file has no row (Uncommitted) and is no other request's   *)
(* (Unshared).                                                             *)
LEMMA CompensateInv == ASSUME IInv, NEW r \in Req, Compensate(r) PROVE IInv'
<1>1. UploadInv'
  BY UploadStep DEF IInv, Next, RequestStep, SaveStep, EndStep
<1>2. RequestShape'
  BY DEF IInv, UploadInv, TypeOK, RequestShape, Compensate, tables, gcs
<1>3. Uncommitted'
  BY DEF IInv, UploadInv, TypeOK, Uncommitted, Compensate, tables, gcs
<1>4. Unshared'
  BY DEF IInv, UploadInv, TypeOK, Unshared, Compensate, tables, gcs
<1>5. CollectorApart'
  BY DEF IInv, UploadInv, TypeOK, CollectorApart, InTx, Compensate, tables, gcs
<1>6. WithinGrace'
  BY DEF IInv, UploadInv, TypeOK, WithinGrace, InTx, Compensate, tables, gcs
<1>7. RowsHaveFiles'
  BY DEF IInv, UploadInv, TypeOK, RowsHaveFiles, Uncommitted, Compensate, tables, gcs
<1>8. PendingFilesSurvive'
  BY DEF IInv, UploadInv, TypeOK, PendingFilesSurvive, Unshared, InTx, Compensate,
     tables, gcs
<1>9. /\ CollectorShape' /\ ReferencesHaveRows'
  BY DEF IInv, UploadInv, CollectorShape, ReferencesHaveRows, Compensate, tables, gcs
<1> QED
  BY <1>1, <1>2, <1>3, <1>4, <1>5, <1>6, <1>7, <1>8, <1>9 DEF IInv

(* The request has no files left.                                          *)
LEMMA CompensateDoneInv == ASSUME IInv, NEW r \in Req, CompensateDone(r) PROVE IInv'
<1>1. UploadInv'
  BY UploadStep DEF IInv, Next, RequestStep, SaveStep, EndStep
<1>2. RequestShape'
  BY DEF IInv, UploadInv, TypeOK, RequestShape, CompensateDone, files, tables, gcs
<1>3. CollectorApart'
  BY DEF IInv, UploadInv, TypeOK, CollectorApart, InTx, CompensateDone, files, tables,
     gcs
<1>4. WithinGrace'
  BY DEF IInv, UploadInv, TypeOK, WithinGrace, InTx, CompensateDone, files, tables, gcs
<1>5. PendingFilesSurvive'
  BY DEF IInv, UploadInv, TypeOK, PendingFilesSurvive, InTx, CompensateDone, files,
     tables, gcs
<1>6. /\ Uncommitted' /\ Unshared' /\ CollectorShape'
      /\ RowsHaveFiles' /\ ReferencesHaveRows'
  BY DEF IInv, UploadInv, Uncommitted, Unshared, CollectorShape, RowsHaveFiles,
     ReferencesHaveRows, CompensateDone, files, tables,
     gcs
<1> QED
  BY <1>1, <1>2, <1>3, <1>4, <1>5, <1>6 DEF IInv

(* On PostgreSQL no file of an open transaction is older than the cutoff.  *)
LEMMA GcCutoffInv == ASSUME IInv, NEW g \in Collector, GcCutoff(g) PROVE IInv'
<1>1. UploadInv'
  BY UploadStep DEF IInv, Next, CollectStep
<1>2. CollectorShape'
  BY DEF IInv, UploadInv, TypeOK, CollectorShape, GcCutoff, OlderThan, files, tables,
     reqs
<1>3. WithinGrace'
  BY TimeAssumption DEF IInv, UploadInv, TypeOK, WithinGrace, InTx, GcCutoff, OlderThan,
     MaxAge, files, tables, reqs
<1>4. /\ RequestShape' /\ Uncommitted' /\ Unshared'
      /\ CollectorApart' /\ RowsHaveFiles' /\ ReferencesHaveRows'
      /\ PendingFilesSurvive'
  BY DEF IInv, UploadInv, RequestShape, Uncommitted, Unshared, CollectorApart,
     RowsHaveFiles, ReferencesHaveRows, PendingFilesSurvive, InTx, GcCutoff, files,
     tables, reqs
<1> QED
  BY <1>1, <1>2, <1>3, <1>4 DEF IInv

(* Only committed rows are selected, so no request has created them.       *)
LEMMA GcSelectInv == ASSUME IInv, NEW g \in Collector, GcSelect(g) PROVE IInv'
<1>1. UploadInv'
  BY UploadStep DEF IInv, Next, CollectStep
<1>2. CollectorShape'
  BY DEF IInv, UploadInv, TypeOK, CollectorShape, GcSelect, Unreferenced, Expired, files,
     tables, reqs
<1>3. CollectorApart'
  BY DEF IInv, UploadInv, TypeOK, CollectorApart, Uncommitted, InTx, GcSelect,
     Unreferenced, Expired, files, tables, reqs
<1>4. /\ RequestShape' /\ Uncommitted' /\ Unshared'
      /\ WithinGrace' /\ RowsHaveFiles' /\ ReferencesHaveRows'
      /\ PendingFilesSurvive'
  BY DEF IInv, UploadInv, RequestShape, Uncommitted, Unshared, WithinGrace,
     RowsHaveFiles, ReferencesHaveRows, PendingFilesSurvive, InTx, GcSelect, files,
     tables, reqs
<1> QED
  BY <1>1, <1>2, <1>3, <1>4 DEF IInv

(* Nothing that is referenced is deleted.                                  *)
LEMMA GcDeleteInv == ASSUME IInv, NEW g \in Collector, GcDelete(g) PROVE IInv'
<1>1. UploadInv'
  BY UploadStep DEF IInv, Next, CollectStep
<1>2. Uncommitted'
  BY DEF IInv, UploadInv, TypeOK, Uncommitted, GcDelete, Expired, Referenced, files, reqs
<1>3. CollectorShape'
  BY DEF IInv, UploadInv, TypeOK, CollectorShape, GcDelete, Expired, Referenced, files,
     reqs
<1>4. RowsHaveFiles'
  BY DEF IInv, UploadInv, TypeOK, RowsHaveFiles, GcDelete, Expired, Referenced, files,
     reqs
<1>5. ReferencesHaveRows'
  BY DEF IInv, UploadInv, TypeOK, ReferencesHaveRows, GcDelete, Expired, Referenced,
     files, reqs
<1>6. /\ RequestShape' /\ Unshared' /\ CollectorApart'
      /\ WithinGrace' /\ PendingFilesSurvive'
  BY DEF IInv, UploadInv, RequestShape, Unshared, CollectorApart, WithinGrace,
     PendingFilesSurvive, InTx, GcDelete, files, reqs
<1> QED
  BY <1>1, <1>2, <1>3, <1>4, <1>5, <1>6 DEF IInv

(* The collector forgets what it selected.                                 *)
LEMMA GcRefusedInv == ASSUME IInv, NEW g \in Collector, GcRefused(g) PROVE IInv'
<1>1. UploadInv'
  BY UploadStep DEF IInv, Next, CollectStep
<1>2. CollectorShape'
  BY DEF IInv, UploadInv, TypeOK, CollectorShape, GcRefused, Stop, files, tables, reqs
<1>3. CollectorApart'
  BY DEF IInv, UploadInv, TypeOK, CollectorApart, InTx, GcRefused, Stop, files, tables,
     reqs
<1>4. WithinGrace'
  BY DEF IInv, UploadInv, TypeOK, WithinGrace, InTx, GcRefused, Stop, files, tables, reqs
<1>5. /\ RequestShape' /\ Uncommitted' /\ Unshared'
      /\ RowsHaveFiles' /\ ReferencesHaveRows'
      /\ PendingFilesSurvive'
  BY DEF IInv, UploadInv, RequestShape, Uncommitted, Unshared, RowsHaveFiles,
     ReferencesHaveRows, PendingFilesSurvive, InTx,
     GcRefused, Stop, files, tables, reqs
<1> QED
  BY <1>1, <1>2, <1>3, <1>4, <1>5 DEF IInv

(* An unlinked file has no row any more and no request that could commit   *)
(* it.                                                                     *)
LEMMA GcUnlinkInv == ASSUME IInv, NEW g \in Collector, GcUnlink(g) PROVE IInv'
<1>1. UploadInv'
  BY UploadStep DEF IInv, Next, CollectStep
<1>2. Uncommitted'
  BY DEF IInv, UploadInv, TypeOK, Uncommitted, GcUnlink, tables, reqs
<1>3. CollectorShape'
  BY DEF IInv, UploadInv, TypeOK, CollectorShape, GcUnlink, tables, reqs
<1>4. CollectorApart'
  BY DEF IInv, UploadInv, TypeOK, CollectorApart, InTx, GcUnlink, tables, reqs
<1>5. RowsHaveFiles'
  BY DEF IInv, UploadInv, TypeOK, RowsHaveFiles, CollectorShape, GcUnlink, tables, reqs
<1>6. PendingFilesSurvive'
  BY DEF IInv, UploadInv, TypeOK, PendingFilesSurvive, CollectorApart, InTx, GcUnlink,
     tables, reqs
<1>7. /\ RequestShape' /\ Unshared' /\ WithinGrace'
      /\ ReferencesHaveRows'
  BY DEF IInv, UploadInv, RequestShape, Unshared, WithinGrace, ReferencesHaveRows,
     InTx, GcUnlink, tables, reqs
<1> QED
  BY <1>1, <1>2, <1>3, <1>4, <1>5, <1>6, <1>7 DEF IInv

(* All selected files are gone.                                            *)
LEMMA GcUnlinkedInv == ASSUME IInv, NEW g \in Collector, GcUnlinked(g) PROVE IInv'
<1>1. UploadInv'
  BY UploadStep DEF IInv, Next, CollectStep
<1>2. CollectorShape'
  BY DEF IInv, UploadInv, TypeOK, CollectorShape, GcUnlinked, files, tables, reqs
<1>3. /\ RequestShape' /\ Uncommitted' /\ Unshared'
      /\ CollectorApart' /\ WithinGrace' /\ RowsHaveFiles'
      /\ ReferencesHaveRows' /\ PendingFilesSurvive'
  BY DEF IInv, UploadInv, RequestShape, Uncommitted, Unshared, CollectorApart,
     WithinGrace, RowsHaveFiles, ReferencesHaveRows, PendingFilesSurvive, InTx,
     GcUnlinked, files, tables, reqs
<1> QED
  BY <1>1, <1>2, <1>3 DEF IInv

(* Taking the mutex changes no file, and the staging files that go then    *)
(* belong to nobody.                                                       *)
LEMMA CollectTemporaryInv ==
  ASSUME IInv, NEW g \in Collector, CollectTemporary(g) \/ SweepTemporary(g)
  PROVE  IInv'
<1>1. UploadInv'
  BY UploadStep DEF IInv, Next, CollectStep
<1>2. CollectorShape'
  BY DEF IInv, UploadInv, TypeOK, CollectorShape, CollectTemporary, SweepTemporary,
     tables, reqs
<1>3. /\ RequestShape' /\ Uncommitted' /\ Unshared'
      /\ CollectorApart' /\ WithinGrace' /\ RowsHaveFiles'
      /\ ReferencesHaveRows' /\ PendingFilesSurvive'
  BY DEF IInv, RequestShape, Uncommitted, Unshared, CollectorApart,
     WithinGrace, RowsHaveFiles, ReferencesHaveRows, PendingFilesSurvive,
     InTx, CollectTemporary, SweepTemporary, files, tables, reqs
<1> QED
  BY <1>1, <1>2, <1>3 DEF IInv

(* Entries are files of the directory, hence not staged.                   *)
LEMMA GcScanInv == ASSUME IInv, NEW g \in Collector, GcScan(g) PROVE IInv'
<1>1. UploadInv'
  BY UploadStep DEF IInv, Next, CollectStep
<1>2. CollectorShape'
  BY DEF IInv, UploadInv, TypeOK, CollectorShape, GcScan, files, tables, reqs
<1>3. CollectorApart'
  BY DEF IInv, UploadInv, TypeOK, CollectorApart, Uncommitted, InTx, GcScan, files,
     tables, reqs
<1>4. /\ RequestShape' /\ Uncommitted' /\ Unshared'
      /\ WithinGrace' /\ RowsHaveFiles' /\ ReferencesHaveRows'
      /\ PendingFilesSurvive'
  BY DEF IInv, UploadInv, RequestShape, Uncommitted, Unshared, WithinGrace,
     RowsHaveFiles, ReferencesHaveRows, PendingFilesSurvive, InTx, GcScan, files,
     tables, reqs
<1> QED
  BY <1>1, <1>2, <1>3, <1>4 DEF IInv

(* The collector forgets its entries.                                      *)
LEMMA GcVanishedInv == ASSUME IInv, NEW g \in Collector, GcVanished(g) PROVE IInv'
<1>1. UploadInv'
  BY UploadStep DEF IInv, Next, CollectStep
<1>2. CollectorShape'
  BY DEF IInv, UploadInv, TypeOK, CollectorShape, GcVanished, Stop, files, tables, reqs
<1>3. CollectorApart'
  BY DEF IInv, UploadInv, TypeOK, CollectorApart, InTx, GcVanished, Stop, files, tables,
     reqs
<1>4. WithinGrace'
  BY DEF IInv, UploadInv, TypeOK, WithinGrace, InTx, GcVanished, Stop, files, tables,
     reqs
<1>5. /\ RequestShape' /\ Uncommitted' /\ Unshared'
      /\ RowsHaveFiles' /\ ReferencesHaveRows'
      /\ PendingFilesSurvive'
  BY DEF IInv, UploadInv, RequestShape, Uncommitted, Unshared, RowsHaveFiles,
     ReferencesHaveRows, PendingFilesSurvive, InTx,
     GcVanished, Stop, files, tables, reqs
<1> QED
  BY <1>1, <1>2, <1>3, <1>4, <1>5 DEF IInv

(* A young entry is passed over.                                           *)
LEMMA GcSkipInv == ASSUME IInv, NEW g \in Collector, GcSkip(g) PROVE IInv'
<1>1. UploadInv'
  BY UploadStep DEF IInv, Next, CollectStep
<1>2. CollectorShape'
  BY DEF IInv, UploadInv, TypeOK, CollectorShape, GcSkip, files, tables, reqs
<1>3. CollectorApart'
  BY DEF IInv, UploadInv, TypeOK, CollectorApart, InTx, GcSkip, files, tables, reqs
<1>4. /\ RequestShape' /\ Uncommitted' /\ Unshared'
      /\ WithinGrace' /\ RowsHaveFiles' /\ ReferencesHaveRows'
      /\ PendingFilesSurvive'
  BY DEF IInv, RequestShape, Uncommitted, Unshared, WithinGrace,
     RowsHaveFiles, ReferencesHaveRows, PendingFilesSurvive, InTx, GcSkip,
     files, tables, reqs
<1> QED
  BY <1>1, <1>2, <1>3, <1>4 DEF IInv

(* The heart of the matter: a file without a committed row is no open      *)
(* transaction's.  On SQLite there is no open transaction, on PostgreSQL   *)
(* its files are younger than the cutoff.                                  *)
LEMMA GcCountInv == ASSUME IInv, NEW g \in Collector, GcCount(g) PROVE IInv'
<1>1. UploadInv'
  BY UploadStep DEF IInv, Next, CollectStep
<1>2. CollectorShape'
  BY DEF IInv, UploadInv, TypeOK, CollectorShape, GcCount, ConnFree, files, tables, reqs
<1>3. CollectorApart'
  BY DEF IInv, UploadInv, TypeOK, CollectorApart, CollectorShape, WithinGrace, InTx,
     GcCount, ConnFree, files, tables, reqs
<1>4. /\ RequestShape' /\ Uncommitted' /\ Unshared'
      /\ WithinGrace' /\ RowsHaveFiles' /\ ReferencesHaveRows'
      /\ PendingFilesSurvive'
  BY DEF IInv, UploadInv, RequestShape, Uncommitted, Unshared, WithinGrace,
     RowsHaveFiles, ReferencesHaveRows, PendingFilesSurvive, InTx, GcCount, files,
     tables, reqs
<1> QED
  BY <1>1, <1>2, <1>3, <1>4 DEF IInv

(* The victim has no row and no transaction that could still commit it.    *)
LEMMA GcRemoveInv == ASSUME IInv, NEW g \in Collector, GcRemove(g) PROVE IInv'
<1>1. UploadInv'
  BY UploadStep DEF IInv, Next, CollectStep
<1>2. Uncommitted'
  BY DEF IInv, UploadInv, TypeOK, Uncommitted, GcRemove, tables, reqs
<1>3. CollectorShape'
  BY DEF IInv, UploadInv, TypeOK, CollectorShape, GcRemove, tables, reqs
<1>4. CollectorApart'
  BY DEF IInv, UploadInv, TypeOK, CollectorApart, InTx, GcRemove, tables, reqs
<1>5. RowsHaveFiles'
  BY DEF IInv, UploadInv, TypeOK, RowsHaveFiles, CollectorShape, GcRemove, tables, reqs
<1>6. PendingFilesSurvive'
  BY DEF IInv, UploadInv, TypeOK, PendingFilesSurvive, CollectorApart, InTx, GcRemove,
     tables, reqs
<1>7. /\ RequestShape' /\ Unshared' /\ WithinGrace'
      /\ ReferencesHaveRows'
  BY DEF IInv, UploadInv, RequestShape, Unshared, WithinGrace, ReferencesHaveRows,
     InTx, GcRemove, tables, reqs
<1> QED
  BY <1>1, <1>2, <1>3, <1>4, <1>5, <1>6, <1>7 DEF IInv

(* The collector ends.                                                     *)
LEMMA GcDoneInv == ASSUME IInv, NEW g \in Collector, GcDone(g) PROVE IInv'
<1>1. UploadInv'
  BY UploadStep DEF IInv, Next, CollectStep
<1>2. CollectorShape'
  BY DEF IInv, UploadInv, TypeOK, CollectorShape, GcDone, Stop, files, tables, reqs
<1>3. CollectorApart'
  BY DEF IInv, UploadInv, TypeOK, CollectorApart, InTx, GcDone, Stop, files, tables, reqs
<1>4. WithinGrace'
  BY DEF IInv, UploadInv, TypeOK, WithinGrace, InTx, GcDone, Stop, files, tables, reqs
<1>5. /\ RequestShape' /\ Uncommitted' /\ Unshared'
      /\ RowsHaveFiles' /\ ReferencesHaveRows'
      /\ PendingFilesSurvive'
  BY DEF IInv, UploadInv, RequestShape, Uncommitted, Unshared, RowsHaveFiles,
     ReferencesHaveRows, PendingFilesSurvive, InTx,
     GcDone, Stop, files, tables, reqs
<1> QED
  BY <1>1, <1>2, <1>3, <1>4, <1>5 DEF IInv

(* The collector ends; staging files go only while the mutex is free.      *)
LEMMA GcErrorInv == ASSUME IInv, NEW g \in Collector, GcError(g) PROVE IInv'
<1>1. UploadInv'
  BY UploadStep DEF IInv, Next, CollectStep
<1>2. CollectorShape'
  BY DEF IInv, UploadInv, TypeOK, CollectorShape, GcError, Stop, StorageMuFree, Fault,
     tables, reqs
<1>3. CollectorApart'
  BY DEF IInv, UploadInv, TypeOK, CollectorApart, InTx, GcError, Stop, StorageMuFree,
     Fault, tables, reqs
<1>4. WithinGrace'
  BY DEF IInv, UploadInv, TypeOK, WithinGrace, InTx, GcError, Stop, StorageMuFree, Fault,
     tables, reqs
<1>5. /\ RequestShape' /\ Uncommitted' /\ Unshared'
      /\ RowsHaveFiles' /\ ReferencesHaveRows' /\ PendingFilesSurvive'
  BY DEF IInv, UploadInv, RequestShape, Uncommitted, Unshared, RowsHaveFiles,
     ReferencesHaveRows, PendingFilesSurvive, InTx, GcError, Stop, tables,
     reqs
<1> QED
  BY <1>1, <1>2, <1>3, <1>4, <1>5 DEF IInv

(* Losing a reference is harmless.                                         *)
LEMMA DeleteTestInv == ASSUME IInv, DeleteTest PROVE IInv'
<1>1. UploadInv'
  BY UploadStep DEF IInv, Next
<1>2. ReferencesHaveRows'
  BY DEF IInv, UploadInv, TypeOK, ReferencesHaveRows, DeleteTest, files, reqs, gcs
<1>3. /\ RequestShape' /\ Uncommitted' /\ Unshared'
      /\ CollectorShape' /\ CollectorApart' /\ WithinGrace'
      /\ RowsHaveFiles' /\ PendingFilesSurvive'
  BY DEF IInv, UploadInv, RequestShape, Uncommitted, Unshared, CollectorShape,
     CollectorApart, WithinGrace, RowsHaveFiles, PendingFilesSurvive, InTx, DeleteTest,
     files, reqs, gcs
<1> QED
  BY <1>1, <1>2, <1>3 DEF IInv

(* The foreign key asks for a committed row.                               *)
LEMMA StalePDFWriteInv == ASSUME IInv, StalePDFWrite PROVE IInv'
<1>1. UploadInv'
  BY UploadStep DEF IInv, Next
<1>2. ReferencesHaveRows'
  BY DEF IInv, UploadInv, TypeOK, ReferencesHaveRows, StalePDFWrite, Fault, files, reqs,
     gcs
<1>3. /\ RequestShape' /\ Uncommitted' /\ Unshared'
      /\ CollectorShape' /\ CollectorApart' /\ WithinGrace'
      /\ RowsHaveFiles' /\ PendingFilesSurvive'
  BY DEF IInv, UploadInv, RequestShape, Uncommitted, Unshared, CollectorShape,
     CollectorApart, WithinGrace, RowsHaveFiles, PendingFilesSurvive, InTx,
     StalePDFWrite, files, reqs, gcs
<1> QED
  BY <1>1, <1>2, <1>3 DEF IInv

(* Requests and collectors are gone; files and rows are as they were.      *)
LEMMA CrashInv == ASSUME IInv, Crash PROVE IInv'
<1>1. UploadInv'
  BY UploadStep DEF IInv, Next
<1>2. RequestShape'
  BY DEF IInv, UploadInv, TypeOK, RequestShape, Crash, Fault, files, tables
<1>3. Uncommitted'
  BY DEF IInv, UploadInv, TypeOK, Uncommitted, Crash, Fault, files, tables
<1>4. Unshared'
  BY DEF IInv, UploadInv, TypeOK, Unshared, Crash, Fault, files, tables
<1>5. CollectorShape'
  BY DEF IInv, UploadInv, TypeOK, CollectorShape, Crash, Fault, files, tables
<1>6. CollectorApart'
  BY DEF IInv, UploadInv, TypeOK, CollectorApart, Crash, Fault, files, tables
<1>7. WithinGrace'
  BY DEF IInv, UploadInv, TypeOK, WithinGrace, Crash, Fault, files, tables
<1>8. PendingFilesSurvive'
  BY DEF IInv, UploadInv, TypeOK, PendingFilesSurvive, Crash, Fault, files, tables
<1>9. /\ RowsHaveFiles' /\ ReferencesHaveRows'
  BY DEF IInv, UploadInv, RowsHaveFiles, ReferencesHaveRows, Crash, files, tables
<1> QED
  BY <1>1, <1>2, <1>3, <1>4, <1>5, <1>6, <1>7, <1>8, <1>9 DEF IInv

(* Time passes only while open transactions are timely.                    *)
LEMMA TickInv == ASSUME SingleConn \/ ~SlowTx, IInv, Tick PROVE IInv'
<1>1. UploadInv'
  BY UploadStep DEF IInv, Next
<1>2. WithinGrace'
  BY TimeAssumption DEF IInv, UploadInv, TypeOK, WithinGrace, InTx, Tick, Timely, Older,
     MaxAge, tables, reqs, gcs
<1>3. /\ RequestShape' /\ Uncommitted' /\ Unshared'
      /\ CollectorShape' /\ CollectorApart' /\ RowsHaveFiles'
      /\ ReferencesHaveRows' /\ PendingFilesSurvive'
  BY DEF IInv, UploadInv, RequestShape, Uncommitted, Unshared, CollectorShape,
     CollectorApart, RowsHaveFiles, ReferencesHaveRows, PendingFilesSurvive, InTx, Tick,
     tables, reqs, gcs
<1> QED
  BY <1>1, <1>2, <1>3 DEF IInv

-----------------------------------------------------------------------------

(* IInv holds initially and every step keeps it, unless the answer to a    *)
(* COMMIT is lost (CommitUnacked breaks it) or, on PostgreSQL, a           *)
(* transaction outlasts the grace period (Tick breaks it then).            *)
LEMMA Inductive ==
  ASSUME ~AckLoss, SingleConn \/ ~SlowTx
  PROVE  (Init => IInv) /\ (IInv /\ [Next]_vars => IInv')
<1> USE DEF IInv, RequestShape, Uncommitted, Unshared, CollectorShape, CollectorApart, WithinGrace
<1>1. ASSUME Init PROVE IInv
  <2>1. UploadInv
    BY <1>1, UploadInit
  <2> QED
    BY <1>1, <2>1 DEF Init, InTx, RowsHaveFiles, ReferencesHaveRows, PendingFilesSurvive
<1>2. ASSUME IInv, UNCHANGED vars PROVE IInv'
  <2>1. UploadInv'
    BY <1>2, UploadStep
  <2> QED
    BY <1>2, <2>1 DEF vars, files, tables, reqs, gcs, InTx, RowsHaveFiles,
       ReferencesHaveRows, PendingFilesSurvive
<1>3. ASSUME IInv, NEW r \in Req, RequestStep(r) PROVE IInv'
  <2> USE <1>3
  <2>1. ~CommitUnacked(r)
    BY DEF CommitUnacked
  <2> QED
    BY <2>1, BeginInv, CallSaveInv, StartSaveInv, RefuseSaveInv,
       AdmitSaveInv, FinishSaveInv, FailSaveInv, CommitContentInv, CommitPreviewInv,
       AbortInv, CompensateInv, CompensateDoneInv
       DEF RequestStep, SaveStep, EndStep
<1>4. ASSUME IInv, NEW g \in Collector, CollectStep(g) \/ GcError(g) PROVE IInv'
  BY <1>4, GcCutoffInv, GcSelectInv, GcDeleteInv, GcRefusedInv, GcUnlinkInv,
     GcUnlinkedInv, CollectTemporaryInv, GcScanInv, GcVanishedInv,
     GcSkipInv, GcCountInv,
          GcRemoveInv, GcDoneInv, GcErrorInv
     DEF CollectStep
<1>5. ASSUME IInv, DeleteTest \/ StalePDFWrite \/ Crash \/ Tick PROVE IInv'
  BY <1>5, DeleteTestInv, StalePDFWriteInv, CrashInv, TickInv
<1> QED
  BY <1>1, <1>2, <1>3, <1>4, <1>5 DEF Next

(* For every number of keys, requests and collectors, every row names a    *)
(* file that is there: Save writes the file before the row, Collect and    *)
(* the compensation remove it after the row.                               *)
THEOREM RowsKeepFiles ==
  ASSUME ~AckLoss, SingleConn \/ ~SlowTx
  PROVE  Spec => []RowsHaveFiles
<1>1. IInv => RowsHaveFiles
  BY DEF IInv
<1> QED
  BY <1>1, Inductive, PTL DEF Spec

(* What a revision, a test or a retained preview references can be read:   *)
(* the collector's deletes look at the references once more.               *)
THEOREM ContentStaysReadable ==
  ASSUME ~AckLoss, SingleConn \/ ~SlowTx
  PROVE  Spec => []ContentReadable
<1>1. IInv => ContentReadable
  BY DEF IInv, RowsHaveFiles, ReferencesHaveRows, ContentReadable
<1> QED
  BY <1>1, Inductive, PTL DEF Spec

(* Neither the collector nor another request's compensation takes a file   *)
(* of a transaction that may still commit.                                 *)
THEOREM PendingFilesKept ==
  ASSUME ~AckLoss, SingleConn \/ ~SlowTx
  PROVE  Spec => []PendingFilesSurvive
<1>1. IInv => PendingFilesSurvive
  BY DEF IInv
<1> QED
  BY <1>1, Inductive, PTL DEF Spec

-----------------------------------------------------------------------------
(* The catalogue of ArtifactCatalogue.                                     *)

(* Files are written and removed only while no row names them.             *)
LEMMA FilesUnseen ==
  ASSUME IInv, rows' = rows,
         \/ \E r \in Req : SaveStep(r) \/ Compensate(r)
         \/ \E g \in Collector : GcUnlink(g) \/ GcRemove(g)
  PROVE  rows' \cap dir' = rows \cap dir
<1>1. ASSUME NEW r \in Req, SaveStep(r) PROVE rows' \cap dir' = rows \cap dir
  <2>1. staged[r] \cap rows = {}
    BY DEF IInv, Uncommitted
  <2>2. dir' = dir \/ dir' = dir \cup staged[r]
    BY <1>1 DEF SaveStep, StartSave, RefuseSave, AdmitSave, FinishSave, FailSave, files
  <2> QED
    BY <2>1, <2>2
<1>2. ASSUME NEW r \in Req, Compensate(r) PROVE rows' \cap dir' = rows \cap dir
  <2>1. created[r] \cap rows = {}
    BY DEF IInv, Uncommitted
  <2>2. PICK k \in created[r] : dir' = dir \/ dir' = dir \ {k}
    BY <1>2 DEF Compensate
  <2> QED
    BY <2>1, <2>2
<1>3. ASSUME NEW g \in Collector, GcUnlink(g) PROVE rows' \cap dir' = rows \cap dir
  <2>1. unused[g] \cap rows = {}
    BY <1>3 DEF GcUnlink, IInv, CollectorShape
  <2>2. PICK k \in unused[g] : dir' = dir \ {k}
    BY <1>3 DEF GcUnlink
  <2> QED
    BY <2>1, <2>2
<1>4. ASSUME NEW g \in Collector, GcRemove(g) PROVE rows' \cap dir' = rows \cap dir
  BY <1>4 DEF GcRemove, IInv, CollectorShape
<1> QED
  BY <1>1, <1>2, <1>3, <1>4

(* COMMIT shows all the artifacts of a transaction at once.                *)
LEMMA CommitShows ==
  ASSUME IInv, NEW r \in Req, CommitContent(r) \/ CommitPreview(r)
  PROVE  Catalogue!Next
<1>1. /\ created[r] \cap rows = {} /\ created[r] \subseteq dir /\ created[r] \subseteq Key
      /\ refs \cup prev \subseteq rows
  BY DEF IInv, Uncommitted, PendingFilesSurvive, CommitContent, CommitPreview, InTx,
     UploadInv, TypeOK, ReferencesHaveRows
<1>2. rows' = rows \cup created[r] /\ dir' = dir
  BY DEF CommitContent, CommitPreview, files
<1>3. /\ created[r] \subseteq refs' \cup prev'
      /\ refs' \cup prev' \subseteq (refs \cup prev) \cup created[r]
  BY DEF CommitContent, CommitPreview
<1>4. Catalogue!Commit(created[r])
  BY <1>1, <1>2, <1>3 DEF Catalogue!Commit
<1>5. created[r] \in SUBSET (Key \ (rows \cap dir))
  BY <1>1
<1> QED
  BY <1>4, <1>5 DEF Catalogue!Next

(* The collector's COMMIT takes away what nothing references.              *)
LEMMA DeleteShows ==
  ASSUME IInv, NEW g \in Collector, GcDelete(g)
  PROVE  Catalogue!Next
<1> DEFINE gone == unused[g] \cap rows \cap dir
<1>1. rows' = rows \ unused[g] /\ dir' = dir /\ refs' = refs /\ prev' = prev \ Expired(g)
  BY DEF GcDelete, files
<1>2. unused[g] \cap (refs \cup (prev \ Expired(g))) = {}
  BY DEF GcDelete, Referenced
<1>3. rows' \cap dir' = (rows \cap dir) \ gone
  BY <1>1
<1>4. refs' \cup prev' \subseteq (refs \cup prev) \ gone
  BY <1>1, <1>2
<1>5. Catalogue!Collect(gone)
  BY <1>3, <1>4 DEF Catalogue!Collect
<1> QED
  BY <1>5 DEF Catalogue!Next

(* ArtifactStore implements ArtifactCatalogue, with the artifacts that     *)
(* have both a row and a file as the stored ones: fileTransaction shows    *)
(* whole or not at all, Collect drops what is unreferenced in its COMMIT,  *)
(* and every other step of Save, Remove, Collect or a crash is a stutter.  *)
THEOREM CatalogueRefinement ==
  ASSUME ~AckLoss, SingleConn \/ ~SlowTx
  PROVE  Spec => CatalogueRefined
<1> DEFINE view == <<rows \cap dir, refs \cup prev>>
<1>1. Init => Catalogue!Init
  BY DEF Init, Catalogue!Init
<1>2. IInv /\ [Next]_vars => [Catalogue!Next]_view
  <2> SUFFICES ASSUME IInv, [Next]_vars PROVE Catalogue!Next \/ UNCHANGED view
    OBVIOUS
  <2>1. ASSUME NEW r \in Req, RequestStep(r) PROVE Catalogue!Next \/ UNCHANGED view
    <3>1. CASE CommitContent(r) \/ CommitPreview(r)
      BY <3>1, CommitShows
    <3>2. CASE SaveStep(r) \/ Compensate(r)
      <4>1. UNCHANGED tables
        BY <3>2 DEF SaveStep, StartSave, RefuseSave, AdmitSave, FinishSave, FailSave,
           Compensate <4> QED BY <3>2, <4>1, FilesUnseen DEF tables
    <3>3. CASE Begin(r) \/ CallSave(r) \/ Abort(r) \/ CompensateDone(r)
      BY <3>3 DEF Begin, CallSave, Abort, CompensateDone, files, tables
    <3>4. ~CommitUnacked(r)
      BY DEF CommitUnacked
    <3> QED
      BY <2>1, <3>1, <3>2, <3>3, <3>4 DEF RequestStep, EndStep
  <2>2. ASSUME NEW g \in Collector, CollectStep(g) \/ GcError(g)
        PROVE  Catalogue!Next \/ UNCHANGED view
    <3>1. CASE GcDelete(g)
      BY <3>1, DeleteShows
    <3>2. CASE GcUnlink(g) \/ GcRemove(g)
      <4>1. UNCHANGED tables
        BY <3>2 DEF GcUnlink, GcRemove
      <4> QED
        BY <3>2, <4>1, FilesUnseen DEF tables
    <3>3. CASE ~GcDelete(g) /\ ~GcUnlink(g) /\ ~GcRemove(g)
      BY <2>2, <3>3 DEF CollectStep, GcCutoff, GcSelect, GcRefused, GcUnlinked,
         CollectTemporary, SweepTemporary, GcScan, GcVanished, GcSkip, GcCount, GcDone,
         GcError, files, tables
    <3> QED
      BY <3>1, <3>2, <3>3
  <2>3. CASE DeleteTest
    <3>1. PICK k \in refs : refs' = refs \ {k}
      BY <2>3 DEF DeleteTest
    <3>2. rows' \cap dir' = rows \cap dir /\ prev' = prev
      BY <2>3 DEF DeleteTest, files
    <3>3. Catalogue!Commit({})
      BY <3>1, <3>2 DEF Catalogue!Commit
    <3> QED
      BY <3>3 DEF Catalogue!Next
  <2>4. CASE StalePDFWrite
    <3>1. PICK k \in rows : refs' = refs \cup {k}
      BY <2>4 DEF StalePDFWrite
    <3>2. rows' = rows /\ dir' = dir /\ prev' = prev
      BY <2>4 DEF StalePDFWrite, files
    <3>3. k \in dir /\ k \in Key
      BY DEF IInv, RowsHaveFiles, UploadInv, TypeOK
    <3>4. Catalogue!Refer(k)
      BY <3>1, <3>2, <3>3 DEF Catalogue!Refer
    <3> QED
      BY <3>3, <3>4 DEF Catalogue!Next
  <2>5. CASE Crash \/ Tick \/ UNCHANGED vars
    BY <2>5 DEF Crash, Tick, vars, files, tables
  <2> QED
    BY <2>1, <2>2, <2>3, <2>4, <2>5 DEF Next
<1> QED
  BY <1>1, <1>2, Inductive, PTL DEF Spec, CatalogueRefined, Catalogue!Spec

-----------------------------------------------------------------------------
(* The quota, without any assumption on time or on COMMIT.                 *)

(* A file has as many bytes as its size says.                              *)
LEMMA BytesOfFile ==
  ASSUME NEW k \in Key
  PROVE  /\ Size[k] \in Nat
         /\ IsFiniteSet({k} \X (1..Size[k]))
         /\ Cardinality({k} \X (1..Size[k])) = Size[k]
<1>1. Size[k] \in Nat
  BY QuotaAssumption
<1>2. IsFiniteSet({k}) /\ Cardinality({k}) = 1
  BY FS_Singleton, Zenon
<1>3. IsFiniteSet(1..Size[k]) /\ Cardinality(1..Size[k]) = Size[k]
  <2>1. PICK n \in Nat : n = Size[k]
    BY <1>1
  <2>2. 1 \in Int /\ n \in Int
    OBVIOUS
  <2>3. IsFiniteSet(1..n) /\ Cardinality(1..n) = IF 1 > n THEN 0 ELSE n - 1 + 1
    BY <2>2, FS_Interval, Zenon
  <2>4. (IF 1 > n THEN 0 ELSE n - 1 + 1) = n
    OBVIOUS
  <2> QED
    BY <2>1, <2>3, <2>4
<1>4. /\ IsFiniteSet({k} \X (1..Size[k]))
      /\ Cardinality({k} \X (1..Size[k])) = Cardinality({k}) * Cardinality(1..Size[k])
  BY <1>2, <1>3, FS_Product, Zenon
<1>5. 1 * Size[k] = Size[k]
  BY <1>1
<1> QED
  BY <1>1, <1>2, <1>3, <1>4, <1>5

(* Finitely many files have finitely many bytes.                           *)
LEMMA BytesFinite ==
  ASSUME NEW S \in SUBSET Key, IsFiniteSet(S)
  PROVE  IsFiniteSet(BytesOf(S))
<1> DEFINE B == {{k} \X (1..Size[k]) : k \in S}
<1>1. \A k \in S : IsFiniteSet({k} \X (1..Size[k]))
  BY BytesOfFile
<1>2. PICK f : f = [k \in S |-> {k} \X (1..Size[k])]
  OBVIOUS
<1>3. f \in Surjection(S, B)
  BY <1>2 DEF Surjection
<1>4. IsFiniteSet(B)
  BY <1>3, FS_Surjection
<1>5. IsFiniteSet(UNION B)
  BY <1>1, <1>4, FS_UNION
<1> QED
  BY <1>5 DEF BytesOf

(* A new file adds its size.                                               *)
LEMMA BytesAdded ==
  ASSUME NEW S \in SUBSET Key, IsFiniteSet(S), NEW k \in Key
  PROVE  Cardinality(BytesOf(S \cup {k})) <= Cardinality(BytesOf(S)) + Size[k]
<1>1. Size[k] \in Nat
  BY BytesOfFile
<1>2. BytesOf(S \cup {k}) = BytesOf(S) \cup ({k} \X (1..Size[k]))
  BY DEF BytesOf
<1>3. /\ IsFiniteSet({k} \X (1..Size[k]))
      /\ Cardinality({k} \X (1..Size[k])) = Size[k]
  BY BytesOfFile
<1>4. IsFiniteSet(BytesOf(S)) /\ Cardinality(BytesOf(S)) \in Nat
  BY BytesFinite, FS_CardinalityType
<1>5. Cardinality(BytesOf(S) \cap ({k} \X (1..Size[k]))) \in Nat
  BY <1>4, FS_Intersection, FS_CardinalityType
<1>6. Cardinality(BytesOf(S \cup {k})) =
        Cardinality(BytesOf(S)) + Size[k] - Cardinality(BytesOf(S) \cap ({k} \X (1..Size[k])))
  BY <1>2, <1>3, <1>4, FS_Union
<1> QED
  BY <1>1, <1>4, <1>5, <1>6

(* Fewer files have fewer bytes.                                           *)
LEMMA BytesRemoved ==
  ASSUME NEW S \in SUBSET Key, IsFiniteSet(S), NEW T \in SUBSET S
  PROVE  Cardinality(BytesOf(T)) <= Cardinality(BytesOf(S))
<1>1. BytesOf(T) \subseteq BytesOf(S)
  BY DEF BytesOf
<1> QED
  BY <1>1, BytesFinite, FS_Subset

(* A directory that loses files uses fewer bytes.                          *)
LEMMA LessIsUsed ==
  ASSUME dir \in SUBSET Key, IsFiniteSet(dir), dir' \subseteq dir
  PROVE  /\ IsFiniteSet(dir') /\ UsedBytes \in Nat /\ UsedBytes' \in Nat
         /\ UsedBytes' <= UsedBytes
<1>1. IsFiniteSet(dir') /\ UsedBytes' <= UsedBytes
  BY FS_Subset, BytesRemoved DEF UsedBytes, BytesOf
<1> QED
  BY <1>1, BytesFinite, FS_CardinalityType DEF UsedBytes, BytesOf

(* A directory that gains a file uses at most its size more.               *)
LEMMA OneMoreIsUsed ==
  ASSUME dir \in SUBSET Key, IsFiniteSet(dir), NEW k \in Key, dir' = dir \cup {k}
  PROVE  /\ IsFiniteSet(dir') /\ UsedBytes \in Nat /\ UsedBytes' \in Nat
         /\ Size[k] \in Nat /\ UsedBytes' <= UsedBytes + Size[k]
<1>1. IsFiniteSet(dir')
  BY FS_AddElement
<1>2. UsedBytes' <= UsedBytes + Size[k]
  BY BytesAdded DEF UsedBytes, BytesOf
<1> QED
  BY <1>1, <1>2, BytesFinite, FS_CardinalityType, QuotaAssumption DEF UsedBytes, BytesOf

(* A file comes into the directory only at the end of an admitted Save.    *)
DirGrows(r) ==
  /\ pc[r] = (IF MaxTotal > 0 THEN "admitted" ELSE "saving")
  /\ dir' = dir \cup staged[r]
  /\ ~InSave(r)'
  /\ \A s \in Req : s # r => pc'[s] = pc[s] /\ staged'[s] = staged[s]

(* Every other step leaves the directory alone or removes files.           *)
LEMMA DirSteps ==
  ASSUME TypeOK, [Next]_vars
  PROVE  dir' \subseteq dir \/ \E r \in Req : DirGrows(r)
<1>1. ASSUME NEW r \in Req, FinishSave(r) \/ FailSave(r)
      PROVE  dir' \subseteq dir \/ DirGrows(r)
  <2>1. dir' = dir \/ (Admitted(r) /\ dir' = dir \cup staged[r])
    BY <1>1 DEF FinishSave, FailSave
  <2>2. ~InSave(r)' /\ \A s \in Req : s # r => pc'[s] = pc[s] /\ staged'[s] = staged[s]
    BY <1>1 DEF FinishSave, FailSave, InSave, TypeOK
  <2> QED
    BY <2>1, <2>2 DEF DirGrows, Admitted
<1>2. CASE \E r \in Req : \/ Begin(r) \/ CallSave(r) \/ StartSave(r) \/ RefuseSave(r)
                          \/ AdmitSave(r) \/ EndStep(r)
  BY <1>2 DEF Begin, CallSave, StartSave, RefuseSave, AdmitSave, EndStep, CommitContent,
     CommitPreview, CommitUnacked, Abort, Compensate, CompensateDone, files
<1>3. CASE \E g \in Collector : CollectStep(g) \/ GcError(g)
  BY <1>3 DEF CollectStep, GcError, GcCutoff, GcSelect, GcDelete, GcRefused, GcUnlink,
     GcUnlinked, CollectTemporary, SweepTemporary, GcScan, GcVanished, GcSkip, GcCount,
     GcRemove, GcDone, files
<1>4. CASE DeleteTest \/ StalePDFWrite \/ Crash \/ Tick \/ UNCHANGED vars
  BY <1>4 DEF DeleteTest, StalePDFWrite, Crash, Tick, vars, files
<1> QED
  BY <1>1, <1>2, <1>3, <1>4 DEF Next, RequestStep, SaveStep

(* Only StartSave stages a file, one at a time, and only AdmitSave admits  *)
(* one.                                                                    *)
LEMMA StagedSteps ==
  ASSUME TypeOK, [Next]_vars, NEW r \in Req
  PROVE  /\ staged'[r] \in {staged[r], {}} \/ \E k \in Key : staged'[r] = {k}
         /\ pc'[r] = "admitted" =>
              /\ staged'[r] = staged[r]
              /\ pc[r] = "admitted" \/ (dir' = dir /\ \A k \in staged[r] : WithinQuota(k))
<1> DEFINE Kept(t) ==
      /\ staged'[t] \in {staged[t], {}} \/ \E k \in Key : staged'[t] = {k}
      /\ pc'[t] = "admitted" =>
           /\ staged'[t] = staged[t]
           /\ pc[t] = "admitted" \/ (dir' = dir /\ \A k \in staged[t] : WithinQuota(k))
<1>1. ASSUME NEW s \in Req, RequestStep(s) PROVE Kept(r)
  <2>1. CASE r # s
    <3>1. staged'[r] = staged[r] /\ pc'[r] = pc[r]
      BY <1>1, <2>1 DEF RequestStep, SaveStep, EndStep, TypeOK, Begin, CallSave, StartSave,
         RefuseSave, AdmitSave, FinishSave, FailSave, CommitContent, CommitPreview,
         CommitUnacked, Abort, Compensate, CompensateDone
    <3> QED
      BY <3>1
  <2>2. CASE r = s /\ AdmitSave(r)
    BY <2>2 DEF AdmitSave, files
  <2>3. CASE r = s /\ StartSave(r)
    BY <2>3 DEF StartSave, TypeOK
  <2>4. CASE r = s /\ ~AdmitSave(r) /\ ~StartSave(r)
    <3>1. staged'[r] \in {staged[r], {}}
      BY <1>1, <2>4 DEF RequestStep, SaveStep, EndStep, TypeOK, Begin, CallSave,
         RefuseSave, FinishSave, FailSave, CommitContent, CommitPreview,
         CommitUnacked, Abort, Compensate, CompensateDone
    <3>2. pc'[r] # "admitted"
      BY <1>1, <2>4 DEF RequestStep, SaveStep, EndStep, TypeOK, Begin, CallSave,
         RefuseSave, FinishSave, FailSave, CommitContent, CommitPreview,
         CommitUnacked, Abort, Compensate, CompensateDone
    <3> QED
      BY <3>1, <3>2
  <2> QED
    BY <2>1, <2>2, <2>3, <2>4
<1>2. CASE \E g \in Collector : CollectStep(g) \/ GcError(g)
  BY <1>2 DEF CollectStep, GcError, GcCutoff, GcSelect, GcDelete, GcRefused, GcUnlink,
     GcUnlinked, CollectTemporary, SweepTemporary, GcScan, GcVanished, GcSkip, GcCount,
     GcRemove, GcDone, reqs
<1>3. CASE DeleteTest \/ StalePDFWrite \/ Crash \/ Tick \/ UNCHANGED vars
  BY <1>3 DEF DeleteTest, StalePDFWrite, Crash, Tick, vars, reqs
<1> QED
  BY <1>1, <1>2, <1>3 DEF Next

(* What the sum over the directory has admitted still fits at the rename,  *)
(* because no other request is inside Save meanwhile; files that are       *)
(* removed outside the mutex only make room.                               *)
LEMMA QuotaStep == ASSUME QuotaInv, [Next]_vars PROVE QuotaInv'
<1>1. /\ UploadInv /\ UploadInv' /\ TypeOK /\ TypeOK'
      /\ dir \in SUBSET Key /\ IsFiniteSet(dir) /\ MaxTotal \in Nat
  BY UploadStep, QuotaAssumption DEF QuotaInv, UploadInv, TypeOK, FilesFinite
<1>2. \A r \in Req : staged'[r] = {} \/ \E k \in Key : staged'[r] = {k}
  BY <1>1, StagedSteps DEF QuotaInv, FilesFinite
<1>3. CASE dir' \subseteq dir
  <2>1. /\ IsFiniteSet(dir') /\ UsedBytes \in Nat /\ UsedBytes' \in Nat
        /\ UsedBytes' <= UsedBytes
    BY <1>1, <1>3, LessIsUsed
  <2>2. QuotaRespected'
    BY <1>1, <2>1 DEF QuotaInv, QuotaRespected
  <2>3. ASSUME NEW k \in Key, WithinQuota(k) PROVE WithinQuota(k)'
    <3>1. Size[k] \in Nat
      BY QuotaAssumption
    <3> QED
      BY <1>1, <2>1, <2>3, <3>1 DEF WithinQuota
  <2>4. ASSUME NEW r \in Req, pc'[r] = "admitted", NEW k \in staged'[r]
        PROVE  WithinQuota(k)'
    <3>1. k \in staged[r] /\ k \in Key
      BY <1>1, <2>4, StagedSteps DEF TypeOK
    <3>2. WithinQuota(k)
      BY <1>1, <2>4, <3>1, StagedSteps DEF QuotaInv, AdmittedFits
    <3> QED
      BY <2>3, <3>1, <3>2
  <2> QED
    BY <1>1, <1>2, <2>1, <2>2, <2>4 DEF QuotaInv, FilesFinite, AdmittedFits
<1>4. ASSUME NEW r \in Req, DirGrows(r), ~(dir' \subseteq dir) PROVE QuotaInv'
  <2>1. PICK k \in Key : staged[r] = {k} /\ dir' = dir \cup {k}
    BY <1>4 DEF DirGrows, QuotaInv, FilesFinite
  <2>2. /\ IsFiniteSet(dir') /\ UsedBytes \in Nat /\ UsedBytes' \in Nat
        /\ Size[k] \in Nat /\ UsedBytes' <= UsedBytes + Size[k]
    BY <1>1, <2>1, OneMoreIsUsed
  <2>3. MaxTotal > 0 => WithinQuota(k)
    BY <1>4, <2>1 DEF DirGrows, QuotaInv, AdmittedFits
  <2>4. QuotaRespected'
    BY <1>1, <2>2, <2>3 DEF QuotaRespected, WithinQuota
  <2>5. \A s \in Req : s # r => ~InSave(s)
    BY <1>1, <1>4 DEF UploadInv, SavesAlone, DirGrows, InSave
  <2>6. \A s \in Req : pc'[s] # "admitted"
    BY <1>4, <2>5 DEF DirGrows, InSave
  <2> QED
    BY <1>1, <1>2, <2>2, <2>4, <2>6 DEF QuotaInv, FilesFinite, AdmittedFits
<1> QED
  BY <1>1, <1>3, <1>4, DirSteps

(* The files never exceed MAX_STORAGE_BYTES, whatever their sizes and      *)
(* however many uploads, removals, collections and crashes interleave:     *)
(* storageMu is kept from the sum over the directory to the rename.        *)
THEOREM QuotaKept == Spec => []QuotaRespected
<1>1. ASSUME Init PROVE QuotaInv
  <2>1. UploadInv
    BY <1>1, UploadInit
  <2>2. FilesFinite /\ AdmittedFits
    BY <1>1, FS_EmptySet DEF Init, FilesFinite, AdmittedFits
  <2>3. UsedBytes = 0
    BY <1>1, FS_EmptySet DEF Init, UsedBytes, BytesOf
  <2> QED
    BY <2>1, <2>2, <2>3, QuotaAssumption DEF QuotaInv, QuotaRespected
<1>2. QuotaInv => QuotaRespected
  BY DEF QuotaInv
<1> QED
  BY <1>1, <1>2, QuotaStep, PTL DEF Spec
=============================================================================
