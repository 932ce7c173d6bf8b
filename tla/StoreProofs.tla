----------------------------- MODULE StoreProofs -----------------------------
(***************************************************************************)
(* The content store for all sets of hashes, imports and files: a          *)
(* committed external row has its blob (BlobPresent), by the inductive     *)
(* invariant LockInv, and BlobStore implements ContentStore.  The merge    *)
(* that finds what a purge removes is right for sorted arrays of any       *)
(* length over any hashes.                                                 *)
(***************************************************************************)
EXTENDS BlobStore, SortedDifference, TLAPS

(* The initial state satisfies the inductive invariant. *)
LEMMA InitLockInv == Init => LockInv
<1> SUFFICES ASSUME Init PROVE LockInv
  OBVIOUS
<1>1. TypeOK
  BY DEF Init, TypeOK, RowStates, ImportStates, FileStates, InTx, Steps,
         LockKinds, JobKinds
<1>2. External = {}
  BY DEF Init, External
<1> QED
  BY <1>1, <1>2, LockAssumption
  DEF Init, LockInv, BlobPresent, Exclusive, PurgeIsSafe, DecisionHolds, InTx, LockKinds

(* Every step of every action keeps it. *)
LEMMA NextLockInv == LockInv /\ [Next]_vars => LockInv'
<1> SUFFICES ASSUME LockInv, [Next]_vars PROVE LockInv'
  OBVIOUS
<1> USE OwnerAssumption, JobAssumption, LockAssumption, CrashAssumption
    DEF LockInv, TypeOK, BlobPresent, Exclusive, PurgeIsSafe, DecisionHolds,
        External, RowStates, ImportStates, FileStates, InTx, Steps,
        LockKinds, JobKinds, disk, worker, main
<1>1. ASSUME NEW f \in Files, FileStep(f) PROVE LockInv'
  <2>1. CASE ListFile(f)
    BY <2>1 DEF ListFile
  <2>2. CASE StartSmall(f)
    BY <2>2 DEF StartSmall
  <2>3. CASE StartLarge(f)
    BY <2>3 DEF StartLarge
  <2>4. CASE StoreSmall(f)
    BY <2>4 DEF StoreSmall
  <2>5. CASE FinishCopy(f)
    BY <2>5 DEF FinishCopy
  <2>6. CASE BeginStore(f)
    BY <2>6 DEF BeginStore
  <2>7. CASE RenameBlob(f)
    BY <2>7 DEF RenameBlob
  <2>8. CASE DropStaged(f)
    BY <2>8 DEF DropStaged
  <2>9. CASE CommitStore(f)
    BY <2>9 DEF CommitStore
  <2>10. CASE RollbackStore(f)
    BY <2>10 DEF RollbackStore
  <2>11. CASE FailFile(f)
    BY <2>11 DEF FailFile
  <2> QED
    BY <1>1, <2>1, <2>2, <2>3, <2>4, <2>5, <2>6, <2>7, <2>8, <2>9, <2>10, <2>11
    DEF FileStep
<1>2. ASSUME NEW im \in Imports, StartImport(im) \/ ImportStep(im) \/ DetachTree(im)
      PROVE  LockInv'
  <2>1. CASE StartImport(im)
    BY <2>1 DEF StartImport
  <2>2. CASE FinishReap(im)
    BY <2>2 DEF FinishReap
  <2>3. CASE FailReap(im)
    BY <2>3 DEF FailReap
  <2>4. CASE RemoveStaged(im)
    BY <2>4 DEF RemoveStaged
  <2>5. CASE RemoveStageDir(im)
    BY <2>5 DEF RemoveStageDir
  <2>6. CASE InsertTree(im)
    <3>1. TreeHashes(im) \subseteq Hash
      BY DEF TreeHashes, FilesOf
    <3> QED
      BY <2>6, <3>1 DEF InsertTree
  <2>7. CASE FailTree(im)
    BY <2>7 DEF FailTree
  <2>8. CASE DetachTree(im)
    BY <2>8 DEF DetachTree
  <2> QED
    BY <1>2, <2>1, <2>2, <2>3, <2>4, <2>5, <2>6, <2>7, <2>8 DEF ImportStep
<1>3. ASSUME StartupStep PROVE LockInv'
  <2>1. CASE SkipStartup
    BY <2>1 DEF SkipStartup
  <2>2. CASE DeleteContent
    BY <2>2 DEF DeleteContent
  <2>3. ASSUME NEW im \in Imports, DetachAtStartup(im) PROVE LockInv'
    BY <2>3 DEF DetachAtStartup
  <2> QED
    BY <1>3, <2>1, <2>2, <2>3 DEF StartupStep
<1>4. ASSUME CleanupStep PROVE LockInv'
  <2>1. CASE Vacuum
    BY <2>1 DEF Vacuum
  <2>2. CASE BeginPurge
    BY <2>2 DEF BeginPurge
  <2>3. CASE CommitPurge
    BY <2>3 DEF CommitPurge
  <2>4. CASE EndCleanup
    BY <2>4 DEF EndCleanup
  <2>5. ASSUME NEW D \in SUBSET pending \ {{}}, ScanDirectory(D) PROVE LockInv'
    BY <2>5 DEF ScanDirectory
  <2>6. ASSUME NEW C \in SUBSET pending \ {{}}, DeleteChunk(C) PROVE LockInv'
    BY <2>6 DEF DeleteChunk
  <2>7. ASSUME NEW h \in doomed, UnlinkBlob(h) PROVE LockInv'
    BY <2>7 DEF UnlinkBlob
  <2>8. ASSUME NEW h \in doomed, UnlinkFails(h) PROVE LockInv'
    BY <2>8 DEF UnlinkFails
  <2> QED
    BY <1>4, <2>1, <2>2, <2>3, <2>4, <2>5, <2>6, <2>7, <2>8 DEF CleanupStep
<1>5. CASE Crash
  BY <1>5 DEF Crash
<1>6. CASE UNCHANGED vars
  BY <1>6 DEF vars
<1> QED
  BY <1>1, <1>2, <1>3, <1>4, <1>5, <1>6 DEF Next

(* The inductive invariant holds in every behaviour. *)
THEOREM LockInvHolds == Spec => []LockInv
<1> QED
  BY InitLockInv, NextLockInv, PTL DEF Spec

(* Every variable keeps its type. *)
THEOREM TypeCorrect == Spec => []TypeOK
<1>1. LockInv => TypeOK
  BY DEF LockInv
<1> QED
  BY <1>1, LockInvHolds, PTL

(* A committed row without data always has its blob on disk. *)
THEOREM BlobAlwaysPresent == Spec => []BlobPresent
<1>1. LockInv => BlobPresent
  BY DEF LockInv
<1> QED
  BY <1>1, LockInvHolds, PTL

-----------------------------------------------------------------------------
(* Turn taking. *)

(* The initial state satisfies it: nothing has been imported. *)
LEMMA InitTurnInv == Init => TurnInv
  BY OwnerAssumption, JobAssumption DEF Init, TurnInv, Serial, JobKinds

(* Every step keeps it: the only steps that delete rows are those of the   *)
(* cleanup jobs, and none of these runs while an import does.              *)
LEMMA NextTurnInv == LockInv /\ TurnInv /\ [Next]_vars => TurnInv'
<1> SUFFICES ASSUME LockInv, TurnInv, [Next]_vars PROVE TurnInv'
  OBVIOUS
<1>0. TypeOK
  BY DEF LockInv
<1> USE <1>0, OwnerAssumption, JobAssumption
    DEF TypeOK, TurnInv, Serial, RowStates, ImportStates, FileStates, InTx,
        JobKinds, disk, worker, main
<1>1. ASSUME NEW f \in Files, FileStep(f) PROVE TurnInv'
  <2>1. CASE ListFile(f)
    BY <2>1 DEF ListFile
  <2>2. CASE StartSmall(f)
    BY <2>2 DEF StartSmall
  <2>3. CASE StartLarge(f)
    BY <2>3 DEF StartLarge
  <2>4. CASE StoreSmall(f)
    BY <2>4 DEF StoreSmall
  <2>5. CASE FinishCopy(f)
    BY <2>5 DEF FinishCopy
  <2>6. CASE BeginStore(f)
    BY <2>6 DEF BeginStore
  <2>7. CASE RenameBlob(f)
    BY <2>7 DEF RenameBlob
  <2>8. CASE DropStaged(f)
    BY <2>8 DEF DropStaged
  <2>9. CASE CommitStore(f)
    BY <2>9 DEF CommitStore, LockInv, DecisionHolds
  <2>10. CASE RollbackStore(f)
    BY <2>10 DEF RollbackStore
  <2>11. CASE FailFile(f)
    BY <2>11 DEF FailFile
  <2> QED
    BY <1>1, <2>1, <2>2, <2>3, <2>4, <2>5, <2>6, <2>7, <2>8, <2>9, <2>10, <2>11
    DEF FileStep
<1>2. ASSUME NEW im \in Imports, StartImport(im) \/ ImportStep(im) \/ DetachTree(im)
      PROVE  TurnInv'
  <2>1. CASE StartImport(im)
    BY <2>1 DEF StartImport
  <2>2. CASE FinishReap(im)
    BY <2>2 DEF FinishReap
  <2>3. CASE FailReap(im)
    BY <2>3 DEF FailReap
  <2>4. CASE RemoveStaged(im)
    BY <2>4 DEF RemoveStaged
  <2>5. CASE RemoveStageDir(im)
    BY <2>5 DEF RemoveStageDir
  <2>6. CASE InsertTree(im)
    BY <2>6 DEF InsertTree
  <2>7. CASE FailTree(im)
    BY <2>7 DEF FailTree
  <2>8. CASE DetachTree(im)
    BY <2>8 DEF DetachTree
  <2> QED
    BY <1>2, <2>1, <2>2, <2>3, <2>4, <2>5, <2>6, <2>7, <2>8 DEF ImportStep
<1>3. ASSUME StartupStep PROVE TurnInv'
  <2>1. CASE SkipStartup
    BY <2>1 DEF SkipStartup
  <2>2. CASE DeleteContent
    BY <2>2 DEF DeleteContent
  <2>3. ASSUME NEW im \in Imports, DetachAtStartup(im) PROVE TurnInv'
    BY <2>3 DEF DetachAtStartup
  <2> QED
    BY <1>3, <2>1, <2>2, <2>3 DEF StartupStep
<1>4. ASSUME CleanupStep PROVE TurnInv'
  <2>1. CASE Vacuum
    BY <2>1 DEF Vacuum
  <2>2. CASE BeginPurge
    BY <2>2 DEF BeginPurge
  <2>3. CASE CommitPurge
    BY <2>3 DEF CommitPurge
  <2>4. CASE EndCleanup
    BY <2>4 DEF EndCleanup
  <2>5. ASSUME NEW D \in SUBSET pending \ {{}}, ScanDirectory(D) PROVE TurnInv'
    BY <2>5 DEF ScanDirectory
  <2>6. ASSUME NEW C \in SUBSET pending \ {{}}, DeleteChunk(C) PROVE TurnInv'
    BY <2>6 DEF DeleteChunk
  <2>7. ASSUME NEW h \in doomed, UnlinkBlob(h) PROVE TurnInv'
    BY <2>7 DEF UnlinkBlob
  <2>8. ASSUME NEW h \in doomed, UnlinkFails(h) PROVE TurnInv'
    BY <2>8 DEF UnlinkFails
  <2> QED
    BY <1>4, <2>1, <2>2, <2>3, <2>4, <2>5, <2>6, <2>7, <2>8 DEF CleanupStep
<1>5. CASE Crash
  BY <1>5 DEF Crash
<1>6. CASE UNCHANGED vars
  BY <1>6 DEF vars
<1> QED
  BY <1>1, <1>2, <1>3, <1>4, <1>5, <1>6 DEF Next

(* An import never finds that the content of a file it has stored was      *)
(* collected.                                                              *)
THEOREM StoredContentAlwaysKept == Spec => []StoredContentKept
<1>1. LockInv /\ TurnInv => StoredContentKept
  BY OwnerAssumption
  DEF LockInv, TypeOK, TurnInv, RowStates, StoredContentKept, TreeHashes, FilesOf,
      BlobPresent, Readable, External
<1>2. Spec => []TurnInv
  BY InitTurnInv, NextTurnInv, LockInvHolds, PTL DEF Spec
<1> QED
  BY <1>1, <1>2, LockInvHolds, PTL

-----------------------------------------------------------------------------
(* The refinement of ContentStore. *)

(* Readable content is what has a row, and every step changes it as        *)
(* ContentStore allows, or not at all.                                     *)
LEMMA StepRefines ==
  LockInv /\ [Next]_vars => [Contents!Next]_(Contents!vars)
<1> SUFFICES ASSUME LockInv, [Next]_vars PROVE [Contents!Next]_(Contents!vars)
  OBVIOUS
<1>0. TypeOK /\ BlobPresent
  BY DEF LockInv
<1>a. HasRow = Readable
  BY <1>0 DEF TypeOK, BlobPresent, HasRow, Readable, External, RowStates
<1>b. ASSUME UNCHANGED <<row, blobs, refs>> PROVE UNCHANGED Contents!vars
  BY <1>b DEF Contents!vars, Readable
<1>c. ASSUME UNCHANGED <<row, refs>>, NEW h \in Hash, blobs' = blobs \cup {h}
      PROVE UNCHANGED Contents!vars
  BY <1>0, <1>c DEF Contents!vars, Readable, BlobPresent, External, TypeOK
<1>d. ASSUME NEW G \in SUBSET Hash, G \cap Referenced = {}, UNCHANGED <<refs, blobs>>,
             row' = [h \in Hash |-> IF h \in G THEN "none" ELSE row[h]]
      PROVE Contents!Next
  <2>1. Readable' = Readable \ G
    BY <1>0, <1>d DEF Readable, TypeOK
  <2>2. Contents!Collect(G)
    BY <1>d, <2>1 DEF Contents!Collect, Contents!Referenced, Referenced
  <2> QED
    BY <2>2 DEF Contents!Next
<1>e. ASSUME NEW im \in Imports, refs' = [refs EXCEPT ![im] = {}], UNCHANGED <<row, blobs>>
      PROVE Contents!Next
  <2>1. refs' = [k \in Imports |-> IF k \in {im} THEN {} ELSE refs[k]]
    BY <1>0, <1>e DEF TypeOK
  <2>2. Contents!Detach({im})
    BY <1>e, <2>1 DEF Contents!Detach, Readable
  <2>3. {im} \in SUBSET Imports
    OBVIOUS
  <2> QED
    BY <2>2, <2>3 DEF Contents!Next
<1>1. ASSUME NEW f \in Files, FileStep(f) PROVE [Contents!Next]_(Contents!vars)
  <2>h. hash[f] \in Hash
    BY <1>0 DEF TypeOK
  <2>1. CASE ListFile(f) \/ StartSmall(f) \/ StartLarge(f) \/ FinishCopy(f)
             \/ BeginStore(f) \/ DropStaged(f) \/ RollbackStore(f) \/ FailFile(f)
    BY <2>1, <1>b DEF ListFile, StartSmall, StartLarge, FinishCopy, BeginStore,
                      DropStaged, RollbackStore, FailFile, disk
  <2>2. CASE StoreSmall(f)
    <3>1. Readable' = Readable \cup {hash[f]}
      BY <2>2, <2>h, <1>0
      DEF StoreSmall, Readable, TypeOK, RowStates, BlobPresent, External
    <3> QED
      BY <2>2, <2>h, <3>1 DEF StoreSmall, Contents!Next, Contents!Put
  <2>3. CASE RenameBlob(f)
    BY <2>3, <2>h, <1>c DEF RenameBlob
  <2>4. CASE CommitStore(f)
    <3>1. CASE file[f] = "dropped"
      BY <2>4, <3>1, <1>b DEF CommitStore
    <3>2. CASE file[f] = "moved"
      <4>1. hash[f] \in blobs
        BY <3>2 DEF LockInv, DecisionHolds
      <4>2. Readable' = Readable \cup {hash[f]}
        BY <2>4, <2>h, <3>2, <4>1, <1>0 DEF CommitStore, Readable, TypeOK
      <4> QED
        BY <2>4, <2>h, <4>2 DEF CommitStore, Contents!Next, Contents!Put
    <3> QED
      BY <2>4, <3>1, <3>2 DEF CommitStore
  <2> QED
    BY <1>1, <2>1, <2>2, <2>3, <2>4 DEF FileStep
<1>2. ASSUME NEW im \in Imports, StartImport(im) \/ ImportStep(im) \/ DetachTree(im)
      PROVE [Contents!Next]_(Contents!vars)
  <2>1. CASE StartImport(im) \/ FinishReap(im) \/ FailReap(im) \/ RemoveStaged(im)
             \/ RemoveStageDir(im) \/ FailTree(im)
    BY <2>1, <1>b DEF StartImport, FinishReap, FailReap, RemoveStaged,
                      RemoveStageDir, FailTree, disk
  <2>2. CASE InsertTree(im)
    <3>1. TreeHashes(im) \in SUBSET Hash /\ TreeHashes(im) \subseteq Readable
      BY <2>2, <1>0, <1>a DEF InsertTree, TreeHashes, FilesOf, TypeOK
    <3>2. Readable' = Readable
      BY <2>2 DEF InsertTree, Readable
    <3>3. Contents!Attach(im, TreeHashes(im))
      BY <2>2, <3>1, <3>2 DEF InsertTree, Contents!Attach
    <3> QED
      BY <3>1, <3>3 DEF Contents!Next
  <2>3. CASE DetachTree(im)
    BY <2>3, <1>e DEF DetachTree
  <2> QED
    BY <1>2, <2>1, <2>2, <2>3 DEF ImportStep
<1>3. ASSUME StartupStep PROVE [Contents!Next]_(Contents!vars)
  <2>1. CASE SkipStartup
    BY <2>1, <1>b DEF SkipStartup, disk
  <2>2. CASE DeleteContent
    <3>1. row' = [h \in Hash |-> IF h \in Hash \ Referenced THEN "none" ELSE row[h]]
      BY <2>2 DEF DeleteContent
    <3> QED
      BY <2>2, <3>1, <1>d DEF DeleteContent
  <2>3. ASSUME NEW im \in Imports, DetachAtStartup(im)
        PROVE [Contents!Next]_(Contents!vars)
    BY <2>3, <1>e DEF DetachAtStartup
  <2> QED
    BY <1>3, <2>1, <2>2, <2>3 DEF StartupStep
<1>4. ASSUME CleanupStep PROVE [Contents!Next]_(Contents!vars)
  <2>1. CASE Vacuum \/ BeginPurge \/ CommitPurge \/ EndCleanup
    BY <2>1, <1>b DEF Vacuum, BeginPurge, CommitPurge, EndCleanup, disk
  <2>2. ASSUME NEW D \in SUBSET pending \ {{}}, ScanDirectory(D)
        PROVE [Contents!Next]_(Contents!vars)
    BY <2>2, <1>b DEF ScanDirectory, disk
  <2>3. ASSUME NEW C \in SUBSET pending \ {{}}, DeleteChunk(C)
        PROVE [Contents!Next]_(Contents!vars)
    <3>1. C \ Referenced \in SUBSET Hash
      BY <1>0 DEF TypeOK
    <3> QED
      BY <2>3, <3>1, <1>d DEF DeleteChunk
  <2>4. ASSUME NEW h \in doomed, UnlinkBlob(h)
        PROVE [Contents!Next]_(Contents!vars)
    <3>1. row[h] # "external"
      BY <1>0 DEF LockInv, PurgeIsSafe, External, TypeOK
    <3>2. Readable' = Readable
      BY <2>4, <3>1 DEF UnlinkBlob, Readable
    <3> QED
      BY <2>4, <3>2 DEF UnlinkBlob, Contents!vars
  <2>5. ASSUME NEW h \in doomed, UnlinkFails(h)
        PROVE [Contents!Next]_(Contents!vars)
    BY <2>5, <1>b DEF UnlinkFails, disk
  <2> QED
    BY <1>4, <2>1, <2>2, <2>3, <2>4, <2>5 DEF CleanupStep
<1>5. CASE Crash
  BY <1>5, <1>b DEF Crash, disk
<1>6. CASE UNCHANGED vars
  BY <1>6, <1>b DEF vars
<1> QED
  BY <1>1, <1>2, <1>3, <1>4, <1>5, <1>6 DEF Next

(* The store implements ContentStore: trees appear over readable content   *)
(* only, and content that is referred to stays readable.                   *)
THEOREM BlobStoreRefines == Spec => ImplementsContentStore
<1>1. Init => Contents!Init
  BY DEF Init, Contents!Init, Readable
<1> QED
  BY <1>1, StepRefines, LockInvHolds, PTL DEF Spec, ImplementsContentStore, Contents!Spec

(* Every file of an imported tree can always be read: ContentStore promises *)
(* it, and the store implements ContentStore.                              *)
THEOREM FilesAlwaysReadable == Spec => []FilesReadable
<1>1. Contents!Init => FilesReadable
  BY DEF Contents!Init, FilesReadable, Contents!ReferencedIsReadable,
         Contents!Referenced
<1>2. FilesReadable /\ [Contents!Next]_<<Readable, refs>> => FilesReadable'
  <2> SUFFICES ASSUME FilesReadable, [Contents!Next]_<<Readable, refs>>
               PROVE  FilesReadable'
    OBVIOUS
  <2> USE DEF FilesReadable, Contents!ReferencedIsReadable, Contents!Referenced
  <2>1. ASSUME NEW h \in Hash, Contents!Put(h)
        PROVE  FilesReadable'
    BY <2>1 DEF Contents!Put
  <2>2. ASSUME NEW im \in Imports, NEW H \in SUBSET Hash, Contents!Attach(im, H)
        PROVE  FilesReadable'
    BY <2>2 DEF Contents!Attach
  <2>3. ASSUME NEW I \in SUBSET Imports, Contents!Detach(I)
        PROVE  FilesReadable'
    BY <2>3 DEF Contents!Detach
  <2>4. ASSUME NEW G \in SUBSET Hash, Contents!Collect(G)
        PROVE  FilesReadable'
    BY <2>4 DEF Contents!Collect
  <2>5. CASE UNCHANGED <<Readable, refs>>
    BY <2>5
  <2> QED
    BY <2>1, <2>2, <2>3, <2>4, <2>5 DEF Contents!Next
<1> QED
  BY <1>1, <1>2, BlobStoreRefines, PTL
     DEF ImplementsContentStore, Contents!Spec, Contents!vars

-----------------------------------------------------------------------------
(* The collection of a startup.                                            *)

(* The initial state satisfies its invariant: nothing is being processed. *)
LEMMA InitSweepInv == Init => SweepInv
BY JobAssumption DEF Init, SweepInv, JobKinds

(* Every step keeps it. *)
LEMMA NextSweepInv ==
  LockInv /\ TurnInv /\ FilesReadable /\ SweepInv /\ [Next]_vars => SweepInv'
<1> SUFFICES ASSUME LockInv, TurnInv, FilesReadable, SweepInv, [Next]_vars
             PROVE  SweepInv'
  OBVIOUS
<1>0. /\ TypeOK /\ Serial
      /\ step = "unlinking" <=> lock = "purge"
      /\ doomed # {} => step = "unlinking"
  BY DEF LockInv, TurnInv, Exclusive, PurgeIsSafe
<1>r. Referenced \subseteq HasRow
  <2>1. Referenced \subseteq Readable
    BY DEF FilesReadable, Contents!ReferencedIsReadable, Contents!Referenced, Referenced
  <2> QED
    BY <2>1 DEF Readable, HasRow
<1>a. ASSUME UNCHANGED <<row, refs, blobs, job, step, pending, batch, doomed, skipped>>,
             job \in {"startup", "content"} =>
               \A f \in Files : file'[f] \in {"idle", "stored", "failed"}
      PROVE  SweepInv'
  BY <1>a DEF SweepInv, HasRow, Referenced, External
<1>b. ASSUME job' \notin {"startup", "content"}, step' = "idle" <=> job' # "node",
             step' # "purge" => batch' = {}
      PROVE  SweepInv'
  BY <1>b DEF SweepInv
<1>1. ASSUME NEW f \in Files, FileStep(f) PROVE SweepInv'
  <2>1. /\ job' = job /\ step' = step /\ pending' = pending /\ batch' = batch
        /\ doomed' = doomed /\ skipped' = skipped
    BY <1>1 DEF FileStep, ListFile, StartSmall, StartLarge, StoreSmall, FinishCopy, BeginStore,
                RenameBlob, DropStaged, CommitStore, RollbackStore, FailFile, main
  <2>2. CASE job \in {"startup", "content"}
    <3>1. file[f] \in {"idle", "stored", "failed"}
      BY <2>2 DEF SweepInv
    <3>2. ListFile(f)
      BY <1>1, <3>1
      DEF FileStep, StartSmall, StartLarge, StoreSmall, FinishCopy, BeginStore,
          RenameBlob, DropStaged, CommitStore, RollbackStore, FailFile, InTx
    <3>3. job = Owner[f] /\ Owner[f] \in Imports
      BY <1>0, <3>2, OwnerAssumption DEF ListFile, Serial
    <3> QED
      BY <2>2, <3>3, JobAssumption DEF JobKinds
  <2>3. CASE job \notin {"startup", "content"}
    BY <2>1, <2>3 DEF SweepInv
  <2> QED
    BY <2>2, <2>3
<1>2. ASSUME NEW im \in Imports, StartImport(im) \/ ImportStep(im) \/ DetachTree(im)
      PROVE  SweepInv'
  <2>1. job \in {im, "none"} /\ im \notin {"none", "startup", "content", "node"}
    BY <1>0, <1>2, JobAssumption
    DEF Serial, StartImport, ImportStep, DetachTree, FinishReap, FailReap, RemoveStaged,
        RemoveStageDir, InsertTree, FailTree, JobKinds
  <2>2. step = "idle" /\ batch = {}
    BY <2>1 DEF SweepInv
  <2>3. /\ job' \in {im, "none", "node"} /\ batch' = {}
        /\ step' = IF job' = "node" THEN "chunk" ELSE "idle"
    BY <1>2, <2>1, <2>2
    DEF StartImport, ImportStep, DetachTree, FinishReap, FailReap, RemoveStaged,
        RemoveStageDir, InsertTree, FailTree, main
  <2> QED
    BY <1>b, <2>1, <2>3
<1>3. ASSUME StartupStep PROVE SweepInv'
  <2>0. job = "startup" /\ step = "idle" /\ batch = {}
    BY <1>3 DEF StartupStep, SkipStartup, DeleteContent, DetachAtStartup, SweepInv
  <2>1. CASE SkipStartup
    BY <1>b, <2>0, <2>1 DEF SkipStartup
  <2>2. CASE DeleteContent
    <3>1. /\ job' = "content" /\ step' \in {"chunk", "vacuum"} /\ pending' = Hash
          /\ UNCHANGED <<refs, blobs, batch, doomed, skipped, file>>
      BY <2>2 DEF DeleteContent, worker
    <3>2. HasRow' = Referenced'
      <4>1. HasRow' = HasRow \cap Referenced
        BY <1>0, <2>2 DEF DeleteContent, HasRow, TypeOK
      <4> QED
        BY <1>r, <3>1, <4>1 DEF Referenced
    <3>3. blobs' \subseteq pending'
      BY <1>0, <3>1 DEF TypeOK
    <3> QED
      BY <2>0, <3>1, <3>2, <3>3 DEF SweepInv
  <2>3. ASSUME NEW im \in Imports, DetachAtStartup(im) PROVE SweepInv'
    BY <2>0, <2>3 DEF DetachAtStartup, main, worker, SweepInv
  <2> QED
    BY <1>3, <2>1, <2>2, <2>3 DEF StartupStep
<1>4. ASSUME CleanupStep PROVE SweepInv'
  <2>1. CASE Vacuum
    BY <2>1 DEF Vacuum, disk, worker, SweepInv, HasRow, Referenced, External
  <2>2. CASE BeginPurge
    BY <1>0, <2>2 DEF BeginPurge, disk, worker, SweepInv, HasRow, Referenced, External
  <2>3. CASE CommitPurge
    BY <2>3 DEF CommitPurge, disk, worker, SweepInv, HasRow, Referenced, External
  <2>4. CASE EndCleanup
    BY <1>b, <2>4 DEF EndCleanup
  <2>5. ASSUME NEW D \in SUBSET pending \ {{}}, ScanDirectory(D) PROVE SweepInv'
    <3>1. batch = {} /\ batch' = D \cap blobs /\ pending' = pending \ D
      BY <2>5 DEF ScanDirectory, SweepInv
    <3> QED
      BY <2>5, <3>1 DEF ScanDirectory, disk, worker, SweepInv, HasRow, Referenced, External
  <2>6. ASSUME NEW C \in SUBSET pending \ {{}}, DeleteChunk(C) PROVE SweepInv'
    BY <1>b, <2>6 DEF DeleteChunk
  <2>7. ASSUME NEW h \in doomed, UnlinkBlob(h) PROVE SweepInv'
    BY <2>7 DEF UnlinkBlob, worker, SweepInv, HasRow, Referenced, External
  <2>8. ASSUME NEW h \in doomed, UnlinkFails(h) PROVE SweepInv'
    BY <2>8 DEF UnlinkFails, disk, worker, SweepInv, HasRow, Referenced, External
  <2> QED
    BY <1>4, <2>1, <2>2, <2>3, <2>4, <2>5, <2>6, <2>7, <2>8 DEF CleanupStep
<1>5. CASE Crash
  BY <1>0, <1>5 DEF Crash, SweepInv, TypeOK
<1>6. CASE UNCHANGED vars
  BY <1>6, <1>a DEF vars, SweepInv
<1> QED
  BY <1>1, <1>2, <1>3, <1>4, <1>5, <1>6 DEF Next

(* When the collection of a startup has seen every directory, rows and     *)
(* blobs are those the trees refer to, but for unlinks that failed         *)
(* (DbfsContentCleanupJob.mts).                                            *)
THEOREM SweepIsComplete == Spec => []SweepComplete
<1>1. LockInv /\ SweepInv => SweepComplete
  BY DEF LockInv, SweepInv, SweepComplete, Exclusive, PurgeIsSafe
<1>2. Spec => []TurnInv
  BY InitTurnInv, NextTurnInv, LockInvHolds, PTL DEF Spec
<1>3. Spec => []SweepInv
  BY <1>2, InitSweepInv, NextSweepInv, LockInvHolds, FilesAlwaysReadable, PTL DEF Spec
<1> QED
  BY <1>1, <1>3, LockInvHolds, PTL

-----------------------------------------------------------------------------
(* The invariant of the loop holds before it. *)
LEMMA InitMergeInv == MergeInit => MergeInv
<1> SUFFICES ASSUME MergeInit PROVE MergeInv
  OBVIOUS
<1> USE DEF MergeInit, Begin
<1>1. MergeTypeOK
  BY DEF MergeTypeOK
<1>2. Elements(<<>>) = {} /\ Sorted(<<>>)
  BY DEF Elements, Sorted
<1>3. Elements(result) = {data[k] : k \in 1 .. i - 1} \ Elements(exclude)
  BY <1>2
<1>4. pc # "loop" => i > Len(data) \/ j > Len(exclude) \/ exclude = <<>>
  BY <1>1 DEF MergeTypeOK
<1> QED
  BY <1>1, <1>2, <1>3, <1>4 DEF MergeInv

(* What is appended to result keeps it sorted, and is one more element. *)
LEMMA AppendSorted ==
  ASSUME NEW s \in Seq(Value), NEW v \in Value, Sorted(s),
         \A w \in Elements(s) : w < v
  PROVE  /\ Append(s, v) \in Seq(Value)
         /\ Elements(Append(s, v)) = Elements(s) \cup {v}
         /\ Sorted(Append(s, v))
<1> DEFINE t == Append(s, v)
<1>1. /\ t \in Seq(Value) /\ DOMAIN s = 1 .. Len(s) /\ Len(s) \in Nat
      /\ DOMAIN t = 1 .. Len(s) + 1
      /\ \A k \in 1 .. Len(s) : t[k] = s[k]
      /\ t[Len(s) + 1] = v
  OBVIOUS
<1> HIDE DEF t
<1>2. \A k \in DOMAIN t : k \in DOMAIN s \/ k = Len(s) + 1
  BY <1>1
<1>3. Elements(t) = Elements(s) \cup {v}
  BY <1>1, <1>2 DEF Elements
<1>4. ASSUME NEW k \in DOMAIN t, NEW l \in DOMAIN t, k < l PROVE t[k] < t[l]
  <2>1. k \in DOMAIN s /\ t[k] = s[k]
    BY <1>1, <1>2, <1>4
  <2>2. CASE l \in DOMAIN s
    BY <1>1, <1>4, <2>1, <2>2 DEF Sorted
  <2>3. CASE l = Len(s) + 1
    BY <1>1, <2>1, <2>3 DEF Elements
  <2> QED
    BY <1>2, <2>2, <2>3
<1> QED
  BY <1>1, <1>3, <1>4 DEF t, Sorted

(* Passing over the current value of data. *)
LEMMA PassedOver ==
  ASSUME MergeTypeOK, i <= Len(data)
  PROVE  /\ {data[k] : k \in 1 .. i} = {data[k] : k \in 1 .. i - 1} \cup {data[i]}
         /\ data[i] \in Value
<1>1. i \in Nat /\ i >= 1 /\ 1 .. i = 1 .. i - 1 \cup {i} /\ i \in DOMAIN data
  BY DEF MergeTypeOK
<1> QED
  BY <1>1 DEF MergeTypeOK

(* A value of data that is smaller than the rest of exclude, and greater   *)
(* than what has been passed over, is appended.                            *)
LEMMA KeepKeeps ==
  ASSUME MergeInv, i <= Len(data), data[i] \notin Elements(exclude),
         result' = Append(result, data[i]), i' = i + 1,
         UNCHANGED <<data, exclude>>
  PROVE  /\ result' \in Seq(Value) /\ Sorted(result')
         /\ Elements(result') = {data'[k] : k \in 1 .. i' - 1} \ Elements(exclude')
<1>1. /\ {data[k] : k \in 1 .. i} = {data[k] : k \in 1 .. i - 1} \cup {data[i]}
      /\ data[i] \in Value
  BY PassedOver DEF MergeInv
<1>2. i \in Nat /\ i' - 1 = i /\ DOMAIN data = 1 .. Len(data) /\ Len(data) \in Nat
  BY DEF MergeInv, MergeTypeOK
<1>3. \A w \in Elements(result) : w < data[i]
  <2> SUFFICES ASSUME NEW k \in 1 .. i - 1 PROVE data[k] < data[i]
    BY DEF MergeInv
  <2> QED
    BY <1>2 DEF MergeInv, Sorted
<1>4. /\ result' \in Seq(Value) /\ Sorted(result')
      /\ Elements(result') = Elements(result) \cup {data[i]}
  BY <1>1, <1>3, AppendSorted DEF MergeInv, MergeTypeOK
<1> QED
  BY <1>1, <1>2, <1>4 DEF MergeInv

(* Every turn of the loop keeps its invariant. *)
LEMMA NextMergeInv == MergeInv /\ [MergeNext]_mergeVars => MergeInv'
<1> SUFFICES ASSUME MergeInv, [MergeNext]_mergeVars PROVE MergeInv'
  OBVIOUS
<1>1. /\ Len(data) \in Int /\ Len(exclude) \in Int
      /\ i \in Int /\ 1 <= i /\ i <= Len(data) + 1
      /\ j \in Int /\ 1 <= j /\ j <= Len(exclude) + 1
  BY DEF MergeInv, MergeTypeOK
<1>8. DOMAIN data = 1 .. Len(data) /\ DOMAIN exclude = 1 .. Len(exclude)
  BY DEF MergeInv, MergeTypeOK
<1>10. data \in Seq(Value) /\ exclude \in Seq(Value) /\ result \in Seq(Value)
  BY DEF MergeInv, MergeTypeOK
<1>2. /\ \A k \in 1 .. Len(data) : data[k] \in Int
      /\ \A k \in 1 .. Len(exclude) : exclude[k] \in Int
  <2>1. \A k \in DOMAIN data : data[k] \in Value
    BY DEF MergeInv, MergeTypeOK
  <2>2. \A k \in DOMAIN exclude : exclude[k] \in Value
    BY DEF MergeInv, MergeTypeOK
  <2> QED
    BY <1>8, <2>1, <2>2, ValueAssumption
<1>9. /\ \A k, l \in 1 .. Len(data) : k < l => data[k] < data[l]
      /\ \A k, l \in 1 .. Len(exclude) : k < l => exclude[k] < exclude[l]
  BY <1>8 DEF MergeInv, Sorted
<1>3. ASSUME pc = "loop", Keep, UNCHANGED <<data, exclude>> PROVE MergeInv'
  <2>1. i <= Len(data) /\ j <= Len(exclude)
    BY <1>3 DEF MergeInv, MergeTypeOK
  <2>2. \A k \in 1 .. j - 1 : exclude[k] < data[i]
    BY <2>1 DEF MergeInv
  <2>3. \A k \in 1 .. Len(exclude) : exclude[k] # data[i]
    BY <1>1, <1>2, <1>9, <1>3, <2>1, <2>2 DEF Keep
  <2>4. data[i] \notin Elements(exclude)
    BY <1>8, <2>3 DEF Elements
  <2>5. /\ result' \in Seq(Value) /\ Sorted(result')
        /\ Elements(result') = {data'[k] : k \in 1 .. i' - 1} \ Elements(exclude')
    BY <1>3, <2>1, <2>4, KeepKeeps DEF Keep
  <2>6. MergeTypeOK'
    BY <1>1, <1>3, <1>10, <2>1, <2>5 DEF Keep, MergeTypeOK
  <2>7. i' <= Len(data') => \A k \in 1 .. j' - 1 : exclude'[k] < data'[i']
    BY <1>1, <1>2, <1>9, <1>3, <2>1, <2>2 DEF Keep
  <2>8. pc' # "loop" => i' > Len(data')
    BY <1>1, <1>3, <2>1 DEF Keep
  <2> QED
    BY <1>3, <2>5, <2>6, <2>7, <2>8 DEF MergeInv
<1>4. ASSUME pc = "loop", Match, UNCHANGED <<data, exclude>> PROVE MergeInv'
  <2>1. i <= Len(data) /\ j <= Len(exclude)
    BY <1>4 DEF MergeInv, MergeTypeOK
  <2>2. \A k \in 1 .. j - 1 : exclude[k] < data[i]
    BY <2>1 DEF MergeInv
  <2>3. data[i] \in Elements(exclude)
    <3>1. j \in DOMAIN exclude
      BY <1>1, <1>8, <2>1
    <3> QED
      BY <1>4, <3>1 DEF Elements, Match
  <2>4. {data[k] : k \in 1 .. i} = {data[k] : k \in 1 .. i - 1} \cup {data[i]}
    BY <2>1, PassedOver DEF MergeInv
  <2>5. Elements(result') = {data'[k] : k \in 1 .. i' - 1} \ Elements(exclude')
    <3>1. i' - 1 = i
      BY <1>1, <1>4 DEF Match
    <3> QED
      BY <1>4, <2>3, <2>4, <3>1 DEF MergeInv, Match
  <2>6. MergeTypeOK'
    BY <1>1, <1>4, <2>1 DEF Match, MergeTypeOK, MergeInv
  <2>7. i' <= Len(data') => \A k \in 1 .. j' - 1 : exclude'[k] < data'[i']
    <3> SUFFICES ASSUME i' <= Len(data'), NEW k \in 1 .. j' - 1
                 PROVE  exclude'[k] < data'[i']
      OBVIOUS
    <3>1. i' = i + 1 /\ j' = j + 1 /\ data[i] < data[i + 1] /\ data[i] = exclude[j]
      BY <1>1, <1>9, <1>4, <2>1 DEF Match
    <3>2. k = j \/ k \in 1 .. j - 1
      BY <1>1, <3>1
    <3>3. /\ exclude' = exclude /\ data' = data
          /\ exclude[k] \in Int /\ data[i] \in Int /\ data[i + 1] \in Int
      BY <1>1, <1>2, <1>4, <2>1, <3>1
    <3>4. exclude[k] <= data[i]
      BY <2>2, <3>1, <3>2, <3>3
    <3> QED
      BY <3>1, <3>3, <3>4
  <2>8. pc' # "loop" => i' > Len(data') \/ j' > Len(exclude')
    BY <1>1, <1>4, <2>1 DEF Match
  <2> QED
    BY <1>4, <2>5, <2>6, <2>7, <2>8 DEF MergeInv, Match
<1>5. ASSUME pc = "loop", Skip, UNCHANGED <<data, exclude>> PROVE MergeInv'
  <2>1. i <= Len(data) /\ j <= Len(exclude)
    BY <1>5 DEF MergeInv, MergeTypeOK
  <2>2. MergeTypeOK'
    BY <1>1, <1>5, <2>1 DEF Skip, MergeTypeOK, MergeInv
  <2>3. \A k \in 1 .. j' - 1 : exclude'[k] < data'[i']
    BY <1>1, <1>5, <2>1 DEF Skip, MergeInv
  <2>4. pc' # "loop" => j' > Len(exclude')
    BY <1>1, <1>5, <2>1 DEF Skip
  <2> QED
    BY <1>5, <2>2, <2>3, <2>4 DEF MergeInv, Skip
<1>6. ASSUME Rest PROVE MergeInv'
  <2>1. CASE i <= Len(data)
    <3>1. /\ \A k \in 1 .. j - 1 : exclude[k] < data[i]
          /\ j > Len(exclude) \/ exclude = <<>>
      BY <1>1, <1>6, <2>1 DEF Rest, MergeInv
    <3>2. \A k \in 1 .. Len(exclude) : exclude[k] < data[i]
      <4>1. CASE exclude = <<>>
        BY <4>1
      <4>2. CASE j > Len(exclude)
        BY <1>1, <3>1, <4>2
      <4> QED
        BY <3>1, <4>1, <4>2
    <3>3. \A k \in 1 .. Len(exclude) : exclude[k] # data[i]
      BY <1>1, <1>2, <2>1, <3>2
    <3>4. data[i] \notin Elements(exclude)
      BY <1>8, <3>3 DEF Elements
    <3>5. /\ i' = i + 1 /\ pc' = "rest" /\ UNCHANGED <<data, exclude, j>>
          /\ result' = Append(result, data[i])
      BY <1>6, <2>1 DEF Rest
    <3>6. /\ result' \in Seq(Value) /\ Sorted(result')
          /\ Elements(result') = {data'[k] : k \in 1 .. i' - 1} \ Elements(exclude')
      BY <2>1, <3>4, <3>5, KeepKeeps
    <3>7. MergeTypeOK'
      BY <1>1, <1>10, <2>1, <3>5, <3>6 DEF MergeTypeOK
    <3>8. i' <= Len(data') => \A k \in 1 .. j' - 1 : exclude'[k] < data'[i']
      <4> SUFFICES ASSUME i + 1 <= Len(data), NEW k \in 1 .. j - 1
                   PROVE  exclude[k] < data[i + 1]
        BY <3>5
      <4>1. exclude[k] < data[i] /\ data[i] < data[i + 1]
        BY <1>1, <1>9, <2>1, <3>1
      <4>2. exclude[k] \in Int /\ data[i] \in Int /\ data[i + 1] \in Int
        BY <1>1, <1>2, <2>1
      <4> QED
        BY <4>1, <4>2
    <3>9. j' > Len(exclude') \/ exclude' = <<>>
      BY <3>1, <3>5
    <3> QED
      BY <3>5, <3>6, <3>7, <3>8, <3>9 DEF MergeInv
  <2>2. CASE i > Len(data)
    BY <1>1, <1>6, <2>2 DEF Rest, MergeInv, MergeTypeOK
  <2> QED
    BY <1>1, <2>1, <2>2
<1>7. CASE UNCHANGED mergeVars
  BY <1>7 DEF mergeVars, MergeInv, MergeTypeOK
<1> QED
  BY <1>3, <1>4, <1>5, <1>6, <1>7 DEF MergeNext, Loop

(* The invariant of the loop. *)
THEOREM MergeInvHolds == MergeSpec => []MergeInv
  BY InitMergeInv, NextMergeInv, PTL DEF MergeSpec

(* sortedDifferenceBy returns the difference of the two arrays, in order.  *)
THEOREM MergeIsDifference == MergeSpec => []IsDifference
<1>1. MergeInv => IsDifference
  <2> SUFFICES ASSUME MergeInv, pc = "done"
               PROVE  /\ Elements(result) = Elements(data) \ Elements(exclude)
                      /\ Sorted(result)
    BY DEF IsDifference
  <2>1. i - 1 = Len(data) /\ DOMAIN data = 1 .. Len(data)
    BY DEF MergeInv, MergeTypeOK
  <2> QED
    BY <2>1 DEF MergeInv, Elements
<1> QED
  BY <1>1, MergeInvHolds, PTL
=============================================================================
