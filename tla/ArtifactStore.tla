--------------------------- MODULE ArtifactStore ---------------------------
(***************************************************************************)
(* The private artifact directory, the database rows that name its files,  *)
(* the requests that write both, and the garbage collector that prunes     *)
(* both (internal/artifact/store.go, internal/content/files.go).           *)
(*                                                                         *)
(* A file and a database row cannot be changed in one atomic step, so the  *)
(* code orders the steps and relies on a mutex, a transaction, a           *)
(* compensation and a grace period.  The module keeps every one of these   *)
(* steps apart and lets requests, collectors, crashes and time interleave. *)
(*                                                                         *)
(* A key stands for one generated storage key together with its bytes.     *)
(* Keys are 256 random bits: a key is taken again only when nothing in the *)
(* system still names it.  The instants at which a file is written, its    *)
(* row created and its preview's expiry fixed are one instant here, so a   *)
(* key has one age.  Ages are counted in ticks and saturate at MaxAge,     *)
(* above which the code tells no two apart.                                *)
(***************************************************************************)
EXTENDS Integers, FiniteSets

CONSTANTS Key,         \* storage keys
          Req,         \* concurrent requests that run fileTransaction
          Collector,   \* concurrent calls of Collect
          Size,        \* Size[k]: the bytes stored under k
          MaxTotal,    \* MaxTotalBytes; 0 switches the quota off
          Grace,       \* the collector's grace period, in ticks
          TTL,         \* the lifetime of an import preview, in ticks
          SingleConn,  \* TRUE: SQLite's one connection; FALSE: PostgreSQL
          SlowTx,      \* may a PostgreSQL transaction outlast Grace?
          AckLoss,     \* may the answer to a COMMIT be lost (PostgreSQL)?
          MaxFaults    \* bound on crashes, collector errors, removals that
                       \* fail, lost answers and stale PDF writes

ASSUME TimeAssumption == Grace \in Nat /\ TTL \in Nat
ASSUME QuotaAssumption == MaxTotal \in Nat /\ Size \in [Key -> Nat]
ASSUME ModeAssumption == SingleConn \in BOOLEAN /\ SlowTx \in BOOLEAN /\ AckLoss \in BOOLEAN
ASSUME FaultAssumption == MaxFaults \in Nat

VARIABLES dir,      \* keys whose file exists under its final name
          temp,     \* keys whose staging file (.upload-*) exists
          age,      \* ticks since the file of a key was written
          rows,     \* committed rows of table artifacts
          refs,     \* keys that a revision (PDF) or a test references
          prev,     \* keys that an import preview references
          pc,       \* where each request is in fileTransaction
          staged,   \* the key a request is saving: {} or {k}
          created,  \* files a request's transaction has created
          gcpc,     \* where each collector is in Collect
          old,      \* files older than the collector's cutoff
          lapsed,   \* of these, the ones past TTL + Grace
          unused,   \* rows the collector deletes, then files it unlinks
          entries,  \* directory entries the collector still has to check
          victim,   \* the orphan it has decided to remove: {} or {k}
          faults    \* faults so far, at most MaxFaults

files == <<dir, temp, age>>
tables == <<rows, refs, prev>>
reqs == <<pc, staged, created>>
gcs == <<gcpc, old, lapsed, unused, entries, victim>>
vars == <<files, tables, reqs, gcs, faults>>

MaxAge == TTL + Grace + 1

ReqStates == {"idle", "open", "waiting", "saving", "admitted", "compensating"}
GcStates == {"idle", "select", "delete", "unlink", "temp", "sweep", "scan", "count", "remove"}

TypeOK ==
  /\ dir \subseteq Key /\ temp \subseteq Key \ dir  \* a file has one name
  /\ age \in [Key -> 0..MaxAge]
  /\ rows \subseteq Key /\ refs \subseteq Key /\ prev \subseteq Key
  /\ pc \in [Req -> ReqStates]
  /\ staged \in [Req -> SUBSET Key] /\ created \in [Req -> SUBSET Key]
  /\ gcpc \in [Collector -> GcStates]
  /\ old \in [Collector -> SUBSET Key] /\ lapsed \in [Collector -> SUBSET Key]
  /\ unused \in [Collector -> SUBSET Key] /\ entries \in [Collector -> SUBSET Key]
  /\ victim \in [Collector -> SUBSET Key]
  /\ faults \in 0..MaxFaults

Init ==
  /\ dir = {} /\ temp = {}
  /\ age = [k \in Key |-> 0]
  /\ rows = {} /\ refs = {} /\ prev = {}
  /\ pc = [r \in Req |-> "idle"]
  /\ staged = [r \in Req |-> {}] /\ created = [r \in Req |-> {}]
  /\ gcpc = [g \in Collector |-> "idle"]
  /\ old = [g \in Collector |-> {}] /\ lapsed = [g \in Collector |-> {}]
  /\ unused = [g \in Collector |-> {}] /\ entries = [g \in Collector |-> {}]
  /\ victim = [g \in Collector |-> {}]
  /\ faults = 0

-----------------------------------------------------------------------------
(* Shared resources.                                                       *)

InTx(r) == pc[r] \in {"open", "waiting", "saving", "admitted"}
InSave(r) == pc[r] \in {"saving", "admitted"}

ConnFree_Mutant == TRUE

(* SetMaxOpenConns(1): a transaction keeps SQLite's only connection, so    *)
(* that every other statement waits for its end.                           *)
ConnFree ==
  SingleConn => /\ \A r \in Req : ~InTx(r)
                /\ \A g \in Collector : gcpc[g] # "delete"

StorageMuFree_Mutant == TRUE

(* storageMu is held by the one request that is inside Save or by the      *)
(* collector that is inside CollectTemporary.                              *)
StorageMuFree == (\A r \in Req : ~InSave(r)) /\ \A g \in Collector : gcpc[g] # "sweep"

(* randomKey: a key that nothing names.                                    *)
Fresh(k) ==
  /\ k \notin dir \cup temp \cup rows
  /\ \A r \in Req : k \notin created[r]
  /\ \A g \in Collector : k \notin old[g] \cup entries[g]

Fault == faults < MaxFaults /\ faults' = faults + 1

-----------------------------------------------------------------------------
(* fileTransaction and Save.                                               *)

Begin(r) ==
  /\ pc[r] = "idle"
  /\ ConnFree
  /\ pc' = [pc EXCEPT ![r] = "open"]
  /\ UNCHANGED <<files, tables, staged, created, gcs, faults>>

(* The body of a transaction calls Save, which blocks on the mutex.  It    *)
(* keeps its database connection meanwhile.                                *)
CallSave(r) ==
  /\ pc[r] = "open"
  /\ pc' = [pc EXCEPT ![r] = "waiting"]
  /\ UNCHANGED <<files, tables, staged, created, gcs, faults>>

(* Save has the mutex and writes the staging file.                         *)
StartSave(r) ==
  /\ pc[r] = "waiting"
  /\ StorageMuFree
  /\ \E k \in Key :
       /\ Fresh(k)
       /\ staged' = [staged EXCEPT ![r] = {k}]
       /\ temp' = temp \cup {k}
       /\ age' = [age EXCEPT ![k] = 0]
  /\ pc' = [pc EXCEPT ![r] = "saving"]
  /\ UNCHANGED <<dir, tables, created, gcs, faults>>

(* The sizes of the files added up: the number of their bytes, where the   *)
(* n-th byte of k is <<k, n>>.                                             *)
BytesOf(S) == UNION {{k} \X (1..Size[k]) : k \in S}

UsedBytes == Cardinality(BytesOf(dir))

WithinQuota(k) == Size[k] <= MaxTotal - UsedBytes

(* Save also fails without a staging file (invalid arguments, directory or *)
(* random source unusable).                                                *)
RefuseSave(r) ==
  /\ pc[r] = "waiting"
  /\ StorageMuFree
  /\ pc' = [pc EXCEPT ![r] = "compensating"]
  /\ UNCHANGED <<files, tables, staged, created, gcs, faults>>

(* The sum over the directory admits the file.  It stands for the          *)
(* directory as ReadDir found it: an entry that vanishes before its Info   *)
(* makes Save fail.                                                        *)
AdmitSave(r) ==
  /\ pc[r] = "saving" /\ MaxTotal > 0
  /\ \A k \in staged[r] : WithinQuota(k)
  /\ pc' = [pc EXCEPT ![r] = "admitted"]
  /\ UNCHANGED <<files, tables, staged, created, gcs, faults>>

(* Without a quota nothing is added up.                                    *)
Admitted(r) == pc[r] = IF MaxTotal > 0 THEN "admitted" ELSE "saving"

FinishSave_Mutant(r) ==  \* a copy in place of the rename, and the staging file stays
  /\ Admitted(r)
  /\ dir' = dir \cup staged[r]
  /\ created' = [created EXCEPT ![r] = @ \cup staged[r]]
  /\ staged' = [staged EXCEPT ![r] = {}]
  /\ pc' = [pc EXCEPT ![r] = "open"]
  /\ UNCHANGED <<temp, age, tables, gcs, faults>>

(* Rename, insert the row in the transaction, release the mutex.           *)
FinishSave(r) ==
  /\ Admitted(r)
  /\ dir' = dir \cup staged[r]
  /\ temp' = temp \ staged[r]
  /\ created' = [created EXCEPT ![r] = @ \cup staged[r]]
  /\ staged' = [staged EXCEPT ![r] = {}]
  /\ pc' = [pc EXCEPT ![r] = "open"]
  /\ UNCHANGED <<age, tables, gcs, faults>>

(* Any error of Save (write, size, quota, rename, row): nothing of the     *)
(* file is left, unless its removal fails too, which Save ignores, and the *)
(* error ends the transaction.                                             *)
FailSave(r) ==
  /\ InSave(r)
  /\ \/ temp' = temp \ staged[r] /\ UNCHANGED <<dir, faults>>
     \/ Fault /\ UNCHANGED <<dir, temp>>
     \/ /\ Fault /\ Admitted(r)
        /\ temp' = temp \ staged[r]
        /\ dir' = dir \cup staged[r]
  /\ staged' = [staged EXCEPT ![r] = {}]
  /\ pc' = [pc EXCEPT ![r] = "compensating"]
  /\ UNCHANGED <<age, tables, created, gcs>>

(* SaveTest, UploadPDF and CommitZIP: the new artifacts become referenced  *)
(* and the ones they replace may lose their last reference.  A repeated    *)
(* CommitZIP commits nothing.                                              *)
CommitContent(r) ==
  /\ pc[r] = "open"
  /\ rows' = rows \cup created[r]
  /\ \E replaced \in SUBSET refs :
       /\ created[r] = {} => replaced = {}
       /\ refs' = (refs \ replaced) \cup created[r]
  /\ pc' = [pc EXCEPT ![r] = "idle"]
  /\ created' = [created EXCEPT ![r] = {}]
  /\ UNCHANGED <<files, prev, staged, gcs, faults>>

(* PreviewZIP: one archive, referenced by its preview only.                *)
CommitPreview(r) ==
  /\ pc[r] = "open"
  /\ \E k \in Key : created[r] = {k}
  /\ rows' = rows \cup created[r]
  /\ prev' = prev \cup created[r]
  /\ pc' = [pc EXCEPT ![r] = "idle"]
  /\ created' = [created EXCEPT ![r] = {}]
  /\ UNCHANGED <<files, refs, staged, gcs, faults>>

(* PostgreSQL commits but the connection breaks before the answer: the     *)
(* code sees an error and compensates a transaction that took effect.      *)
CommitUnacked(r) ==
  /\ AckLoss
  /\ pc[r] = "open"
  /\ Fault
  /\ rows' = rows \cup created[r]
  /\ refs' = refs \cup created[r]
  /\ pc' = [pc EXCEPT ![r] = "compensating"]
  /\ UNCHANGED <<files, prev, staged, created, gcs>>

(* Any error of the body or of COMMIT: the rows vanish, the files do not.  *)
Abort(r) ==
  /\ pc[r] = "open"
  /\ pc' = [pc EXCEPT ![r] = "compensating"]
  /\ UNCHANGED <<files, tables, staged, created, gcs, faults>>

(* One round of the compensation loop.  Remove takes no lock, and its      *)
(* errors (the collector was faster, the file stays) are ignored.          *)
Compensate(r) ==
  /\ pc[r] = "compensating"
  /\ \E k \in created[r] :
       /\ \/ dir' = dir \ {k} /\ UNCHANGED faults
          \/ Fault /\ UNCHANGED dir
       /\ created' = [created EXCEPT ![r] = @ \ {k}]
  /\ UNCHANGED <<temp, age, tables, pc, staged, gcs>>

CompensateDone(r) ==
  /\ pc[r] = "compensating"
  /\ created[r] = {}
  /\ pc' = [pc EXCEPT ![r] = "idle"]
  /\ UNCHANGED <<files, tables, staged, created, gcs, faults>>

-----------------------------------------------------------------------------
(* Transactions that write no file.                                        *)

(* DeleteTest: the test's artifacts may lose their last reference.         *)
DeleteTest ==
  /\ ConnFree
  /\ \E k \in refs : refs' = refs \ {k}
  /\ UNCHANGED <<files, rows, prev, reqs, gcs, faults>>

(* UpdateDraftRevision writes back the PDF reference its caller read       *)
(* before the transaction.  The foreign key demands a committed row.       *)
StalePDFWrite ==
  /\ ConnFree
  /\ Fault
  /\ \E k \in rows \ (refs \cup prev) : refs' = refs \cup {k}
  /\ UNCHANGED <<files, rows, prev, reqs, gcs>>

-----------------------------------------------------------------------------
(* Collect.                                                                *)

OlderThan_Mutant(t) == dir \cup temp

OlderThan(t) == {k \in dir \cup temp : age[k] > t}

(* cutoff := now - Grace, kept as the set of files older than it.          *)
GcCutoff(g) ==
  /\ gcpc[g] = "idle"
  /\ old' = [old EXCEPT ![g] = OlderThan(Grace)]
  /\ lapsed' = [lapsed EXCEPT ![g] = OlderThan(TTL + Grace)]
  /\ gcpc' = [gcpc EXCEPT ![g] = "select"]
  /\ UNCHANGED <<files, tables, reqs, unused, entries, victim, faults>>

(* Previews the collector's transaction deletes.                           *)
Expired(g) == prev \cap lapsed[g]

(* The query for old artifacts that nothing references any more.           *)
Unreferenced(g) == (rows \cap old[g]) \ (refs \cup (prev \ Expired(g)))

GcSelect(g) ==
  /\ gcpc[g] = "select"
  /\ ConnFree
  /\ unused' = [unused EXCEPT ![g] = Unreferenced(g)]
  /\ gcpc' = [gcpc EXCEPT ![g] = "delete"]
  /\ UNCHANGED <<files, tables, reqs, old, lapsed, entries, victim, faults>>

Stop(g) ==
  /\ gcpc' = [gcpc EXCEPT ![g] = "idle"]
  /\ old' = [old EXCEPT ![g] = {}]
  /\ lapsed' = [lapsed EXCEPT ![g] = {}]
  /\ unused' = [unused EXCEPT ![g] = {}]
  /\ entries' = [entries EXCEPT ![g] = {}]
  /\ victim' = [victim EXCEPT ![g] = {}]

(* Rows selected for deletion that content references.                     *)
Referenced_Mutant(g) == {}

Referenced(g) == unused[g] \cap (refs \cup (prev \ Expired(g)))

(* The deletes and COMMIT.  A row that was referenced since the query is   *)
(* refused by the foreign key (RESTRICT); a deleted row stays locked until *)
(* COMMIT, so that no reference can come in between.                       *)
GcDelete(g) ==
  /\ gcpc[g] = "delete"
  /\ Referenced(g) = {}
  /\ rows' = rows \ unused[g]
  /\ prev' = prev \ Expired(g)
  /\ lapsed' = [lapsed EXCEPT ![g] = {}]  \* of no use from here on
  /\ gcpc' = [gcpc EXCEPT ![g] = "unlink"]
  /\ UNCHANGED <<files, refs, reqs, old, unused, entries, victim, faults>>

GcRefused(g) ==
  /\ gcpc[g] = "delete"
  /\ Referenced(g) # {}
  /\ Stop(g)
  /\ UNCHANGED <<files, tables, reqs, faults>>

(* Remove the files of the deleted rows; one already gone is no error.     *)
GcUnlink(g) ==
  /\ gcpc[g] = "unlink"
  /\ \E k \in unused[g] :
       /\ dir' = dir \ {k}
       /\ unused' = [unused EXCEPT ![g] = @ \ {k}]
  /\ UNCHANGED <<temp, age, tables, reqs, gcpc, old, lapsed, entries, victim, faults>>

GcUnlinked(g) ==
  /\ gcpc[g] = "unlink"
  /\ unused[g] = {}
  /\ gcpc' = [gcpc EXCEPT ![g] = "temp"]
  /\ UNCHANGED <<files, tables, reqs, old, lapsed, unused, entries, victim, faults>>

(* CollectTemporary takes the mutex, so that no staging file is in use.    *)
CollectTemporary(g) ==
  /\ gcpc[g] = "temp"
  /\ StorageMuFree
  /\ gcpc' = [gcpc EXCEPT ![g] = "sweep"]
  /\ UNCHANGED <<files, tables, reqs, old, lapsed, unused, entries, victim, faults>>

SweepTemporary_Mutant(g) ==  \* the database is asked about each file under the mutex
  /\ gcpc[g] = "sweep" /\ ConnFree
  /\ temp' = temp \ old[g]
  /\ gcpc' = [gcpc EXCEPT ![g] = "scan"]
  /\ UNCHANGED <<dir, age, tables, reqs, old, lapsed, unused, entries, victim, faults>>

(* It removes the old staging files and releases the mutex.                *)
SweepTemporary(g) ==
  /\ gcpc[g] = "sweep"
  /\ temp' = temp \ old[g]
  /\ gcpc' = [gcpc EXCEPT ![g] = "scan"]
  /\ UNCHANGED <<dir, age, tables, reqs, old, lapsed, unused, entries, victim, faults>>

(* A scan that leaves the orphans out.                                     *)
GcScan_Mutant(g) ==
  /\ gcpc[g] = "scan"
  /\ entries' = [entries EXCEPT ![g] = dir \cap rows]
  /\ gcpc' = [gcpc EXCEPT ![g] = "count"]
  /\ UNCHANGED <<files, tables, reqs, old, lapsed, unused, victim, faults>>

(* ReadDir: every file, young ones too.                                    *)
GcScan(g) ==
  /\ gcpc[g] = "scan"
  /\ entries' = [entries EXCEPT ![g] = dir]
  /\ gcpc' = [gcpc EXCEPT ![g] = "count"]
  /\ UNCHANGED <<files, tables, reqs, old, lapsed, unused, victim, faults>>

(* An entry whose file has vanished since ReadDir makes Info fail and ends *)
(* the collection, however young the file was.                             *)
GcVanished(g) ==
  /\ gcpc[g] = "count"
  /\ entries[g] \ dir # {}
  /\ Stop(g)
  /\ UNCHANGED <<files, tables, reqs, faults>>

(* Info finds a file that is not older than the cutoff.                    *)
GcSkip(g) ==
  /\ gcpc[g] = "count"
  /\ \E k \in (entries[g] \cap dir) \ old[g] : entries' = [entries EXCEPT ![g] = @ \ {k}]
  /\ UNCHANGED <<files, tables, reqs, gcpc, old, lapsed, unused, victim, faults>>

(* Count the committed rows with this key.  On SQLite the query waits for  *)
(* the connection, that is for the end of every open transaction.          *)
GcCount(g) ==
  /\ gcpc[g] = "count"
  /\ ConnFree
  /\ \E k \in entries[g] \cap dir \cap old[g] :
       /\ entries' = [entries EXCEPT ![g] = @ \ {k}]
       /\ IF k \in rows
          THEN UNCHANGED <<gcpc, victim>>
          ELSE /\ victim' = [victim EXCEPT ![g] = {k}]
               /\ gcpc' = [gcpc EXCEPT ![g] = "remove"]
  /\ UNCHANGED <<files, tables, reqs, old, lapsed, unused, faults>>

GcRemove(g) ==
  /\ gcpc[g] = "remove"
  /\ dir' = dir \ victim[g]
  /\ victim' = [victim EXCEPT ![g] = {}]
  /\ gcpc' = [gcpc EXCEPT ![g] = "count"]
  /\ UNCHANGED <<temp, age, tables, reqs, old, lapsed, unused, entries, faults>>

GcDone(g) ==
  /\ gcpc[g] = "count"
  /\ entries[g] = {}
  /\ Stop(g)
  /\ UNCHANGED <<files, tables, reqs, faults>>

(* An I/O or database error, or a cancelled context, ends the collection   *)
(* wherever it is; CollectTemporary may have removed a part by then.       *)
GcError(g) ==
  /\ gcpc[g] # "idle"
  /\ Fault
  /\ \E gone \in SUBSET (temp \cap old[g]) :
       /\ gone # {} => gcpc[g] = "sweep"
       /\ temp' = temp \ gone
  /\ Stop(g)
  /\ UNCHANGED <<dir, age, tables, reqs>>

-----------------------------------------------------------------------------
(* The environment.                                                        *)

(* The process dies and is restarted: transactions roll back, files stay.  *)
Crash ==
  /\ Fault
  /\ pc' = [r \in Req |-> "idle"]
  /\ staged' = [r \in Req |-> {}] /\ created' = [r \in Req |-> {}]
  /\ gcpc' = [g \in Collector |-> "idle"]
  /\ old' = [g \in Collector |-> {}] /\ lapsed' = [g \in Collector |-> {}]
  /\ unused' = [g \in Collector |-> {}] /\ entries' = [g \in Collector |-> {}]
  /\ victim' = [g \in Collector |-> {}]
  /\ UNCHANGED <<files, tables>>

(* On PostgreSQL nothing but the grace period keeps the collector from the *)
(* files of an open transaction: unless SlowTx, a transaction ends before  *)
(* a file it has written is older than Grace.  SQLite needs no assumption. *)
Timely ==
  \/ SingleConn \/ SlowTx
  \/ \A r \in Req : InTx(r) => \A k \in staged[r] \cup created[r] : age[k] < Grace

Older(n) == IF n < MaxAge THEN n + 1 ELSE n

Tick ==
  /\ Timely
  /\ age' = [k \in Key |-> IF k \in dir \cup temp THEN Older(age[k]) ELSE 0]
  /\ UNCHANGED <<dir, temp, tables, reqs, gcs, faults>>

-----------------------------------------------------------------------------

SaveStep(r) ==
  StartSave(r) \/ RefuseSave(r) \/ AdmitSave(r) \/ FinishSave(r) \/ FailSave(r)

EndStep(r) ==
  \/ CommitContent(r) \/ CommitPreview(r) \/ CommitUnacked(r)
  \/ Abort(r) \/ Compensate(r) \/ CompensateDone(r)

RequestStep(r) == Begin(r) \/ CallSave(r) \/ SaveStep(r) \/ EndStep(r)

CollectStep(g) ==
  \/ GcCutoff(g) \/ GcSelect(g) \/ GcDelete(g) \/ GcRefused(g)
  \/ GcUnlink(g) \/ GcUnlinked(g) \/ CollectTemporary(g) \/ SweepTemporary(g)
  \/ GcScan(g) \/ GcVanished(g) \/ GcSkip(g) \/ GcCount(g) \/ GcRemove(g) \/ GcDone(g)

Next ==
  \/ \E r \in Req : RequestStep(r)
  \/ \E g \in Collector : CollectStep(g) \/ GcError(g)
  \/ DeleteTest \/ StalePDFWrite \/ Crash \/ Tick

Spec == Init /\ [][Next]_vars

(* Fairness.  Requests and their compensations end, time passes, and the   *)
(* collector is run again and again ("Run the admin GC operation           *)
(* periodically").  Whoever waits for storageMu or for the connection gets *)
(* it in the end: sync.Mutex and database/sql serve waiters in order.      *)
Fairness ==
  /\ WF_vars(Tick)
  /\ \A r \in Req : WF_vars(EndStep(r)) /\ SF_vars(SaveStep(r))
  /\ \A g \in Collector : SF_vars(CollectStep(g))

FairSpec == Spec /\ Fairness

-----------------------------------------------------------------------------
(* Properties.                                                             *)

(* Every committed row names a file that is there, whatever requests,      *)
(* compensations, collectors and crashes interleave (Save, fileTransaction *)
(* and Collect write the file first and delete it last).                   *)
RowsHaveFiles == rows \subseteq dir

(* What a revision, a test or a retained preview references is neither     *)
(* unlinked nor deleted by a collector, even when the reference comes back *)
(* between the collector's query and its deletes.                          *)
ContentReadable == refs \cup prev \subseteq rows \cap dir

(* The staging file of a running Save is not collected, however old it is  *)
(* ("active temporary uploads cannot be removed").                         *)
ActiveUploadSurvives == \A r \in Req : staged[r] \subseteq temp

(* The files of a transaction that may still commit are all there: neither *)
(* the collector nor another request's compensation takes one away.        *)
PendingFilesSurvive == \A r \in Req : InTx(r) => created[r] \subseteq dir

(* The files never exceed MAX_STORAGE_BYTES: between the sum over the      *)
(* directory and the rename no other upload adds a file, because Save      *)
(* keeps storageMu, though files are removed outside of it.                *)
QuotaRespected == MaxTotal > 0 => UsedBytes <= MaxTotal

(* "A commit is a single DB transaction; failed operations compensate new  *)
(* files", and the collector "removes generated files/metadata             *)
(* unreferenced by any revision, test or retained preview"                 *)
(* (HTTP_API.md:122-127): although Save, COMMIT, the compensation and      *)
(* Collect are many steps on two stores, the artifacts that have a row and *)
(* a file change as in ArtifactCatalogue, all those of a transaction at    *)
(* once, and never from under a reference.                                 *)
Catalogue == INSTANCE ArtifactCatalogue WITH stored <- rows \cap dir, used <- refs \cup prev
CatalogueRefined == Catalogue!Spec

Garbage(k) ==
  \/ k \in dir \cup temp /\ k \notin rows /\ \A r \in Req : k \notin staged[r] \cup created[r]
  \/ k \in rows \ refs

(* No failed transaction has files left to remove.                         *)
Calm == \A r \in Req : pc[r] = "compensating" => created[r] = {}

(* Whatever a crash, a failed compensation or a replacement leaves behind  *)
(* (orphan file, staging file, unreferenced row, expired preview) is       *)
(* collected in the end, unless it is referenced again.  Transactions must *)
(* not fail for ever after they have saved a file: each may make a file    *)
(* vanish under the collector's scan, which ends that collection.          *)
GarbageCollected == <>[]Calm => \A k \in Key : Garbage(k) ~> ~Garbage(k)

(* Every file transaction ends: a request waits for storageMu with the     *)
(* database connection in its hand, also on SQLite's only one, while the   *)
(* collector has the mutex.                                                *)
UploadsEnd == \A r \in Req : InTx(r) ~> ~InTx(r)

-----------------------------------------------------------------------------
(* The inductive invariants of the proofs.                                 *)

(* Save excludes itself, and nobody outside Save has a staging file.       *)
SavesAlone ==
  /\ \A r, s \in Req : InSave(r) /\ InSave(s) => r = s
  /\ \A r \in Req : ~InSave(r) => staged[r] = {}

(* While a collector has the mutex no request is inside Save.              *)
SweepsAlone == \A g \in Collector, r \in Req : gcpc[g] = "sweep" => ~InSave(r)

UploadInv == TypeOK /\ SavesAlone /\ SweepsAlone /\ ActiveUploadSurvives

(* Only a running request has created files.                               *)
RequestShape == \A r \in Req : pc[r] = "idle" => created[r] = {}

(* What a request has written is not committed, what it is writing is not  *)
(* yet in the directory, and no two requests share a key.                  *)
Uncommitted ==
  \A r \in Req : /\ (staged[r] \cup created[r]) \cap rows = {}
                 /\ staged[r] \cap dir = {}

Unshared ==
  \A r, s \in Req : r # s =>
    (staged[r] \cup created[r]) \cap (staged[s] \cup created[s]) = {}

(* A collector deletes only files older than its cutoff.                   *)
CollectorShape ==
  \A g \in Collector : /\ unused[g] \cup victim[g] \subseteq old[g]
                       /\ gcpc[g] = "idle" => unused[g] \cup entries[g] \cup victim[g] = {}
                       /\ gcpc[g] # "delete" => unused[g] \cap rows = {}
                       /\ victim[g] \cap rows = {}

(* What a collector is about to unlink belongs to no transaction that can  *)
(* still commit.                                                           *)
CollectorApart ==
  \A g \in Collector, r \in Req :
    /\ unused[g] \cap (staged[r] \cup created[r]) = {}
    /\ (entries[g] \cup victim[g]) \cap staged[r] = {}
    /\ InTx(r) => victim[g] \cap created[r] = {}

(* On PostgreSQL a file of an open transaction is within the grace period. *)
WithinGrace ==
  ~SingleConn => \A r \in Req : InTx(r) => \A k \in staged[r] \cup created[r] :
                    age[k] <= Grace /\ \A g \in Collector : k \notin old[g]

ReferencesHaveRows == refs \cup prev \subseteq rows

IInv ==
  /\ UploadInv /\ RequestShape /\ Uncommitted /\ Unshared
  /\ CollectorShape /\ CollectorApart /\ WithinGrace
  /\ RowsHaveFiles /\ ReferencesHaveRows /\ PendingFilesSurvive

(* For the quota: the directory is finite, a Save stages one file, and     *)
(* what the sum has admitted still fits until the rename.                  *)
FilesFinite ==
  /\ IsFiniteSet(dir)
  /\ \A r \in Req : staged[r] = {} \/ \E k \in Key : staged[r] = {k}

AdmittedFits == \A r \in Req : pc[r] = "admitted" => \A k \in staged[r] : WithinQuota(k)

QuotaInv == UploadInv /\ FilesFinite /\ AdmittedFits /\ QuotaRespected
=============================================================================
