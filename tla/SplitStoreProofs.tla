-------------------------- MODULE SplitStoreProofs --------------------------
(***************************************************************************)
(* Proofs about SplitStore, for any number of files, keys, writers, group  *)
(* size and fault bound, and about SplitStoreShutdown.  NoDanglingMap is   *)
(* not inductive: the strengthening says who holds the gate (Held, which   *)
(* survives a shutdown) and what the holder has established under it       *)
(* (Knows, which a detached delete may undo).                              *)
(***************************************************************************)
EXTENDS SplitStore, SplitStoreShutdown, TLAPS

\* The gate has the holder whose code is inside the critical section.
GateHeld ==
    /\ \A w \in Writers : pc[w] \in HoldingPCs <=> gate = w
    /\ gcPc \in {"recheck", "delete"} <=> gate = Collector

\* A batch past the gate is of one corpus key.
BatchKnows == \A w \in Writers : pc[w] \in HoldingPCs => OneCorpus(batch[w])

\* What a writer is about to add is not stored.
AddsMissing == \A w \in Writers : pc[w] = "add" =>
                  \A k \in newContent[w] : rows[k] = 0

\* What a writer knows at "add": exactly the missing keys are to be added.
AddKnows == \A w \in Writers : pc[w] = "add" =>
               newContent[w] = {k \in BatchKeys(batch[w]) : rows[k] = 0}

\* What a writer knows at "map": every key it maps has its content.
MapKnows == \A w \in Writers : pc[w] = "map" =>
               \A k \in BatchKeys(batch[w]) : rows[k] > 0

\* What the collector knows at "delete": no map row uses an orphan.
DeleteKnows == gcPc = "delete" => \A f \in Files : fileMap[f] \notin orphans

Held == /\ TypeOK
        /\ GateHeld
        /\ BatchKnows
        /\ AddsMissing
        /\ NoDuplicateContent
        /\ ContentEmbedded

Knows == AddKnows /\ MapKnows /\ DeleteKnows

\* The inductive invariant of a daemon that is not shut down.
IInv == Held /\ Knows /\ NoDanglingMap

\* A step leaves no file without the content it has.
FilesKept == \A f \in Files : HasContent(f) => HasContent(f)'

-----------------------------------------------------------------------------
\* The keys of a batch are keys, and a mapped file's key is among them.
LEMMA BatchKeysFacts ==
    ASSUME NEW b \in Batches
    PROVE  /\ BatchKeys(b) \in SUBSET Keys
           /\ \A f \in Files : b[f] # NoKey => b[f] \in BatchKeys(b)
BY DEF Batches, BatchKeys

LEMMA InitHeld == Init => Held /\ Knows /\ NoDanglingMap
<1> SUFFICES ASSUME Init PROVE Held /\ Knows /\ NoDanglingMap
  OBVIOUS
<1> USE StoreAssumption DEF Init
<1>1. TypeOK
  BY DEF TypeOK, Batches, EmptyBatch, WriterPCs, GcPCs
<1>2. GateHeld /\ BatchKnows /\ AddsMissing
  BY DEF GateHeld, BatchKnows, AddsMissing, HoldingPCs
<1>3. Knows
  BY DEF Knows, AddKnows, MapKnows, DeleteKnows
<1>4. NoDanglingMap /\ NoDuplicateContent /\ ContentEmbedded
  BY DEF NoDanglingMap, HasContent, NoDuplicateContent, ContentEmbedded, EmptyBatch
<1> QED
  BY <1>1, <1>2, <1>3, <1>4 DEF Held

\* Steps that leave both tables alone.
LEMMA TablesAlone ==
    ASSUME Held, UNCHANGED disk
    PROVE  NoDuplicateContent' /\ ContentEmbedded' /\ FilesKept
BY DEF Held, disk, NoDuplicateContent, ContentEmbedded, FilesKept, HasContent

\* Leaving commit_batch, by return or by error.
LEMMA WriterDoneKeeps ==
    ASSUME Held, NEW w \in Writers, WriterDone(w),
           UNCHANGED <<disk, gc>>, faults' \in 0..MaxFaults
    PROVE  Held' /\ (Knows => Knows' /\ FilesKept)
<1> USE StoreAssumption DEF Held, WriterDone, disk, gc
<1>1. TypeOK'
  BY DEF TypeOK, Batches, EmptyBatch, WriterPCs
<1>2. GateHeld'
  BY DEF TypeOK, GateHeld, HoldingPCs
<1>3. BatchKnows' /\ AddsMissing'
  BY DEF TypeOK, HoldingPCs, BatchKnows, AddsMissing
<1>4. Knows => Knows'
  BY DEF TypeOK, Knows, AddKnows, MapKnows, DeleteKnows
<1> QED
  BY <1>1, <1>2, <1>3, <1>4, TablesAlone

\* Leaving delete_orphan_content.
LEMMA GcDoneKeeps ==
    ASSUME Held, GcDone, UNCHANGED <<disk, writer>>, faults' \in 0..MaxFaults
    PROVE  Held' /\ (Knows => Knows' /\ FilesKept)
<1> USE StoreAssumption DEF Held, GcDone, disk, writer
<1>1. TypeOK'
  BY DEF TypeOK, GcPCs
<1>2. GateHeld'
  BY DEF TypeOK, GateHeld
<1>3. BatchKnows' /\ AddsMissing'
  BY DEF BatchKnows, AddsMissing
<1>4. Knows => Knows'
  BY DEF Knows, AddKnows, MapKnows, DeleteKnows
<1> QED
  BY <1>1, <1>2, <1>3, <1>4, TablesAlone

LEMMA PrepareBatchKeeps ==
    ASSUME Held, NEW w \in Writers, PrepareBatch(w)
    PROVE  Held' /\ (Knows => Knows' /\ FilesKept)
<1> USE StoreAssumption DEF Held, PrepareBatch, disk, gc
<1>1. TypeOK'
  <2>1. PICK b \in Offered :
           /\ batch' = [batch EXCEPT ![w] = b]
           /\ embedded' = [embedded EXCEPT ![w] =
                  select_new_content(b, stored_content_keys(BatchKeys(b)))]
    OBVIOUS
  <2> b \in Batches
    BY DEF Batches
  <2>2. select_new_content(b, stored_content_keys(BatchKeys(b))) \in SUBSET Keys
    BY BatchKeysFacts DEF select_new_content
  <2> HIDE DEF select_new_content
  <2> QED
    BY <2>1, <2>2 DEF TypeOK, WriterPCs
<1>2. GateHeld'
  BY DEF TypeOK, GateHeld, HoldingPCs
<1>3. BatchKnows' /\ AddsMissing'
  BY DEF TypeOK, HoldingPCs, BatchKnows, AddsMissing
<1>4. Knows => Knows'
  BY DEF TypeOK, Knows, AddKnows, MapKnows, DeleteKnows
<1> QED
  BY <1>1, <1>2, <1>3, <1>4, TablesAlone

LEMMA LockGateKeeps ==
    ASSUME Held, NEW w \in Writers, LockGate(w)
    PROVE  Held' /\ (Knows => Knows' /\ FilesKept)
<1> USE StoreAssumption DEF Held, LockGate, disk, gc
<1>1. TypeOK'
  BY DEF TypeOK, WriterPCs
<1>2. GateHeld'
  BY DEF TypeOK, GateHeld, HoldingPCs
<1>3. BatchKnows' /\ AddsMissing'
  BY DEF TypeOK, HoldingPCs, BatchKnows, AddsMissing
<1>4. Knows => Knows'
  BY DEF TypeOK, Knows, AddKnows, MapKnows, DeleteKnows
<1> QED
  BY <1>1, <1>2, <1>3, <1>4, TablesAlone

\* The recheck under the gate establishes what "add" and "map" rely on.
LEMMA RecheckStoredKeeps ==
    ASSUME Held, NEW w \in Writers, RecheckStored(w)
    PROVE  Held' /\ (Knows => Knows' /\ FilesKept)
<1> DEFINE new == select_new_content(batch[w], stored_content_keys(BatchKeys(batch[w])))
<1> USE StoreAssumption DEF Held, RecheckStored, disk, gc
<1>0. batch[w] \in Batches
  BY DEF TypeOK
<1>1. new \in SUBSET Keys /\ new = {k \in BatchKeys(batch[w]) : rows[k] = 0}
  BY <1>0, BatchKeysFacts DEF TypeOK, select_new_content, stored_content_keys
<1>2. /\ newContent' = [newContent EXCEPT ![w] = new]
      /\ pc' = [pc EXCEPT ![w] = IF new = {} THEN "map" ELSE "add"]
  OBVIOUS
<1> HIDE DEF new
<1>3. TypeOK'
  BY <1>1, <1>2 DEF TypeOK, WriterPCs
<1>4. GateHeld'
  BY <1>2 DEF TypeOK, GateHeld, HoldingPCs
<1>5. BatchKnows' /\ AddsMissing'
  BY <1>1, <1>2 DEF TypeOK, HoldingPCs, BatchKnows, AddsMissing
<1>6. ASSUME Knows PROVE AddKnows' /\ DeleteKnows'
  BY <1>1, <1>2, <1>6 DEF TypeOK, Knows, AddKnows, DeleteKnows
<1>7. ASSUME Knows PROVE MapKnows'
  <2> SUFFICES ASSUME NEW v \in Writers, pc'[v] = "map", NEW k \in BatchKeys(batch[v])
               PROVE  rows[k] > 0
    BY DEF MapKnows
  <2>1. CASE v = w
    BY <2>1, <1>0, <1>1, <1>2, BatchKeysFacts DEF TypeOK
  <2>2. CASE v # w
    BY <2>2, <1>2, <1>7 DEF TypeOK, Knows, MapKnows
  <2> QED
    BY <2>1, <2>2
<1> QED
  BY <1>3, <1>4, <1>5, <1>6, <1>7, TablesAlone DEF Knows

\* Adding the missing keys leaves one copy of each, with its vectors; other
\* writers are not at "map" or "add" and the collector is not at "delete".
LEMMA WriteContentKeeps ==
    ASSUME Held, NEW w \in Writers, WriteContent(w)
    PROVE  Held' /\ (Knows => Knows' /\ FilesKept)
<1> USE StoreAssumption DEF Held, WriteContent, gc
<1>0. batch[w] \in Batches /\ newContent[w] \in SUBSET Keys
  BY DEF TypeOK
<1>1. TypeOK'
  BY <1>0 DEF TypeOK, WriterPCs
<1>2. GateHeld'
  BY DEF TypeOK, GateHeld, HoldingPCs
<1>3. \A v \in Writers : v # w => pc'[v] = pc[v] /\ pc[v] \notin HoldingPCs
  BY DEF TypeOK, GateHeld, HoldingPCs
<1>4. BatchKnows' /\ AddsMissing'
  BY <1>3 DEF TypeOK, BatchKnows, AddsMissing, HoldingPCs
<1>5. NoDuplicateContent'
  BY DEF TypeOK, NoDuplicateContent, AddsMissing
<1>6. ContentEmbedded'
  BY DEF TypeOK, ContentEmbedded
<1>7. AddKnows' /\ (DeleteKnows => DeleteKnows')
  BY <1>3 DEF TypeOK, AddKnows, DeleteKnows, HoldingPCs
<1>8. ASSUME Knows PROVE MapKnows'
  <2> SUFFICES ASSUME NEW v \in Writers, pc'[v] = "map", NEW k \in BatchKeys(batch[v])
               PROVE  rows'[k] > 0
    BY DEF MapKnows
  <2>1. v = w
    BY <1>3 DEF HoldingPCs
  <2>2. k \in Keys
    BY <2>1, <1>0, BatchKeysFacts
  <2> QED
    BY <2>1, <2>2, <1>8 DEF TypeOK, Knows, AddKnows
<1>9. FilesKept
  BY DEF TypeOK, FilesKept, HasContent, Batches
<1> QED
  BY <1>1, <1>2, <1>4, <1>5, <1>6, <1>7, <1>8, <1>9 DEF Knows

\* Mapping keys whose content exists dangles nothing, and the gate keeps the
\* collector from being between its recheck and its delete.
LEMMA WriteFileMapKeeps ==
    ASSUME Held, NEW w \in Writers, WriteFileMap(w)
    PROVE  Held' /\ (Knows => Knows' /\ FilesKept)
<1> USE StoreAssumption DEF Held, WriteFileMap, gc
<1>0. batch[w] \in Batches
  BY DEF TypeOK
<1>1. TypeOK'
  BY <1>0 DEF TypeOK, WriterPCs, Batches, EmptyBatch
<1>2. GateHeld'
  BY DEF TypeOK, GateHeld, HoldingPCs
<1>3. BatchKnows' /\ AddsMissing'
  BY DEF TypeOK, HoldingPCs, BatchKnows, OneCorpus, EmptyBatch, AddsMissing
<1>4. NoDuplicateContent' /\ ContentEmbedded'
  BY DEF NoDuplicateContent, ContentEmbedded
<1>5. Knows => Knows'
  BY DEF TypeOK, GateHeld, HoldingPCs, Knows, AddKnows, MapKnows, DeleteKnows
<1>6. Knows => FilesKept
  BY <1>0, BatchKeysFacts DEF TypeOK, FilesKept, HasContent, Knows, MapKnows
<1> QED
  BY <1>1, <1>2, <1>3, <1>4, <1>5, <1>6

\* Removing map rows, which takes no gate, disturbs nobody's knowledge.
LEMMA UnmapKeeps ==
    ASSUME Held, fileMap' \in Batches,
           \A f \in Files : fileMap'[f] \in {fileMap[f], NoKey},
           UNCHANGED <<rows, vectored, gate, writer, gc, faults>>
    PROVE  Held' /\ (Knows => Knows' /\ FilesKept)
<1> USE StoreAssumption DEF Held, writer, gc
<1>1. TypeOK'
  BY DEF TypeOK
<1>2. GateHeld' /\ BatchKnows' /\ AddsMissing'
  BY DEF GateHeld, BatchKnows, AddsMissing
<1>3. NoDuplicateContent' /\ ContentEmbedded'
  BY DEF NoDuplicateContent, ContentEmbedded
<1>4. Knows => Knows'
  BY DEF TypeOK, Knows, AddKnows, MapKnows, DeleteKnows
<1>5. FilesKept
  BY DEF FilesKept, HasContent
<1> QED
  BY <1>1, <1>2, <1>3, <1>4, <1>5

\* The collector's steps that touch neither table.
LEMMA GcReadKeeps ==
    ASSUME Held, ScanStored \/ ScanReferenced \/ GcLockGate \/ RecheckGroup
    PROVE  Held' /\ (Knows => Knows' /\ FilesKept)
<1> USE StoreAssumption DEF Held, disk, writer,
        ScanStored, ScanReferenced, GcLockGate, RecheckGroup
<1>1. TypeOK'
  BY DEF TypeOK, GcPCs
<1>2. GateHeld'
  BY DEF TypeOK, GateHeld
<1>3. BatchKnows' /\ AddsMissing'
  BY DEF BatchKnows, AddsMissing
<1>4. Knows => Knows'
  BY DEF TypeOK, Knows, AddKnows, MapKnows, DeleteKnows, mapped_keys
<1> QED
  BY <1>1, <1>2, <1>3, <1>4, TablesAlone

\* Dropping content takes copies and vectors together.
LEMMA DropContentKeeps ==
    ASSUME Held, NEW keys \in SUBSET Keys, DropContent(keys)
    PROVE  /\ rows' \in [Keys -> Nat] /\ vectored' \in SUBSET Keys
           /\ NoDuplicateContent' /\ ContentEmbedded'
           /\ \A k \in Keys : rows[k] = 0 => rows'[k] = 0
BY DEF Held, TypeOK, DropContent, NoDuplicateContent, ContentEmbedded

\* The delete removes content that no map row uses and no writer counts on.
LEMMA DeleteOrphansKeeps ==
    ASSUME Held, DeleteOrphans
    PROVE  Held' /\ (Knows => Knows' /\ FilesKept)
<1> USE StoreAssumption DEF Held, DeleteOrphans, writer
<1>0. orphans \in SUBSET Keys
  BY DEF TypeOK
<1>1. TypeOK' /\ NoDuplicateContent' /\ ContentEmbedded'
  BY <1>0, DropContentKeeps DEF TypeOK, GcPCs
<1>2. GateHeld'
  BY DEF GateHeld
<1>3. BatchKnows' /\ AddsMissing'
  BY DEF GateHeld, HoldingPCs, BatchKnows, AddsMissing
<1>4. Knows => Knows'
  BY DEF GateHeld, HoldingPCs, Knows, AddKnows, MapKnows, DeleteKnows
<1>5. Knows => FilesKept
  BY DEF DropContent, TypeOK, Batches, FilesKept, HasContent, Knows, DeleteKnows
<1> QED
  BY <1>1, <1>2, <1>3, <1>4, <1>5

\* A new process knows nothing and needs to: only the tables survive.
LEMMA CrashKeeps ==
    ASSUME Held, Crash
    PROVE  Held' /\ Knows' /\ FilesKept
<1> USE StoreAssumption DEF Held, Crash, disk
<1>1. TypeOK'
  BY DEF TypeOK, Batches, EmptyBatch, WriterPCs, GcPCs
<1>2. GateHeld' /\ BatchKnows' /\ AddsMissing'
  BY DEF GateHeld, BatchKnows, AddsMissing, HoldingPCs
<1>3. Knows'
  BY DEF Knows, AddKnows, MapKnows, DeleteKnows
<1> QED
  BY <1>1, <1>2, <1>3, TablesAlone

\* Every step of a live daemon keeps what holds of the store; with what its
\* tasks know it keeps that too, and the content of every file.
LEMMA RunStepKeeps ==
    ASSUME Held, RunStep
    PROVE  Held' /\ (Knows => Knows' /\ FilesKept)
<1> DEFINE Keeps == Held' /\ (Knows => Knows' /\ FilesKept)
<1> SUFFICES Keeps
  OBVIOUS
<1>0. faults \in 0..MaxFaults /\ MaxFaults \in Nat /\ fileMap \in Batches
  BY StoreAssumption DEF Held, TypeOK
<1>1. ASSUME NEW w \in Writers, PrepareBatch(w) PROVE Keeps
  BY <1>1, PrepareBatchKeeps
<1>2. ASSUME NEW w \in Writers, LockGate(w) PROVE Keeps
  BY <1>2, LockGateKeeps
<1>3. ASSUME NEW w \in Writers, RejectMixedBatch(w) \/ RefreshIndexes(w) PROVE Keeps
  BY <1>0, <1>3, WriterDoneKeeps DEF RejectMixedBatch, RefreshIndexes
<1>4. ASSUME NEW w \in Writers, RecheckStored(w) PROVE Keeps
  BY <1>4, RecheckStoredKeeps
<1>5. ASSUME NEW w \in Writers, WriteContent(w) PROVE Keeps
  BY <1>5, WriteContentKeeps
<1>6. ASSUME NEW w \in Writers, WriteFileMap(w) PROVE Keeps
  BY <1>6, WriteFileMapKeeps
<1>7. ASSUME NEW w \in Writers, FailBatch(w) PROVE Keeps
  <2>1. faults' \in 0..MaxFaults
    BY <1>0, <1>7 DEF FailBatch
  <2> QED
    BY <1>7, <2>1, WriterDoneKeeps DEF FailBatch
<1>8. ASSUME NEW f \in Files, delete_file(f) PROVE Keeps
  <2>1. fileMap' \in Batches /\ \A g \in Files : fileMap'[g] \in {fileMap[g], NoKey}
    BY <1>0, <1>8 DEF delete_file, Batches
  <2> QED
    BY <1>8, <2>1, UnmapKeeps DEF delete_file
<1>9. ASSUME NEW r \in Roots, delete_root(r) PROVE Keeps
  <2>1. fileMap' \in Batches /\ \A g \in Files : fileMap'[g] \in {fileMap[g], NoKey}
    BY <1>0, <1>9 DEF delete_root, Batches
  <2> QED
    BY <1>9, <2>1, UnmapKeeps DEF delete_root
<1>10. ASSUME ScanStored \/ ScanReferenced \/ GcLockGate \/ RecheckGroup PROVE Keeps
  BY <1>10, GcReadKeeps
<1>11. CASE DeleteOrphans
  BY <1>11, DeleteOrphansKeeps
<1>12. CASE GcFinish
  BY <1>0, <1>12, GcDoneKeeps DEF GcFinish
<1>13. CASE GcFail
  <2>1. faults' \in 0..MaxFaults
    BY <1>0, <1>13 DEF GcFail
  <2> QED
    BY <1>13, <2>1, GcDoneKeeps DEF GcFail
<1> HIDE DEF Keeps
<1> QED
  BY <1>1, <1>2, <1>3, <1>4, <1>5, <1>6, <1>7, <1>8, <1>9, <1>10, <1>11, <1>12,
     <1>13 DEF RunStep, CommitStep, CollectStep

LEMMA StutterKeeps ==
    ASSUME Held, UNCHANGED vars
    PROVE  Held' /\ (Knows => Knows') /\ FilesKept
BY DEF Held, Knows, vars, disk, writer, gc, TypeOK, GateHeld, BatchKnows, AddsMissing,
       AddKnows, MapKnows, DeleteKnows, NoDuplicateContent, ContentEmbedded,
       FilesKept, HasContent

\* Every step of the specification keeps the inductive invariant.
LEMMA NextIInv == IInv /\ [Next]_vars => IInv'
<1> SUFFICES ASSUME IInv, [Next]_vars PROVE IInv'
  OBVIOUS
<1>1. Held' /\ Knows' /\ FilesKept
  BY RunStepKeeps, CrashKeeps, StutterKeeps DEF IInv, Next
<1> QED
  BY <1>1 DEF IInv, NoDanglingMap, FilesKept, HasContent

-----------------------------------------------------------------------------
\* The inductive invariant holds in every reachable state.
THEOREM Invariance == Spec => []IInv
<1>1. Init => IInv
  BY InitHeld DEF IInv
<1> QED
  BY <1>1, NextIInv, PTL DEF Spec

\* Type correctness of the store, its writers and its collector.
THEOREM TypeCorrect == Spec => []TypeOK
<1>1. IInv => TypeOK
  BY DEF IInv, Held
<1> QED
  BY <1>1, Invariance, PTL

\* For every number of files, keys and writers: while the daemon is not being
\* shut down, no map row ever points at missing content, whatever fails.
THEOREM NeverDangling == Spec => []NoDanglingMap
<1>1. IInv => NoDanglingMap
  BY DEF IInv
<1> QED
  BY <1>1, Invariance, PTL

\* Content is stored at most once per key.
THEOREM NeverDuplicated == Spec => []NoDuplicateContent
<1>1. IInv => NoDuplicateContent
  BY DEF IInv, Held
<1> QED
  BY <1>1, Invariance, PTL

\* Stored content always carries its vectors.
THEOREM AlwaysEmbedded == Spec => []ContentEmbedded
<1>1. IInv => ContentEmbedded
  BY DEF IInv, Held
<1> QED
  BY <1>1, Invariance, PTL

-----------------------------------------------------------------------------
(* Refinement of SearchIndex.                                              *)

\* Since nothing dangles, what a search can return is the file map itself.
LEMMA VisibleIsMap == ASSUME IInv PROVE Visible = fileMap
BY DEF IInv, Held, TypeOK, Batches, NoDanglingMap, HasContent, Visible

LEMMA VisibleIsMapNext == ASSUME IInv' PROVE Visible' = fileMap'
BY DEF IInv, Held, TypeOK, Batches, NoDanglingMap, HasContent, Visible

\* A step of the store is one step of the abstract index or none: only the
\* map merge and the map deletes show.
LEMMA StepRefines == IInv /\ [Next]_vars => [Abstract!Next]_Visible
<1> SUFFICES ASSUME IInv, [Next]_vars PROVE [Abstract!Next]_Visible
  OBVIOUS
<1>0. IInv' /\ Visible = fileMap /\ Visible' = fileMap'
  BY NextIInv, VisibleIsMap, VisibleIsMapNext
<1>1. ASSUME NEW w \in Writers, WriteFileMap(w) PROVE Abstract!Next
  <2>1. batch[w] \in Batches /\ OneCorpus(batch[w])
    BY <1>1 DEF WriteFileMap, IInv, Held, TypeOK, BatchKnows, HoldingPCs
  <2>2. Abstract!Publish(batch[w])
    BY <1>0, <1>1, <2>1 DEF Abstract!Publish, WriteFileMap, OneCorpus
  <2> QED
    BY <2>1, <2>2 DEF Abstract!Next, Batches
<1>2. ASSUME NEW f \in Files, delete_file(f) PROVE Abstract!Next
  BY <1>0, <1>2 DEF delete_file, Abstract!Next, Abstract!Remove
<1>3. ASSUME NEW r \in Roots, delete_root(r) PROVE Abstract!Next \/ UNCHANGED Visible
  <2>1. CASE \E f \in Files : RootOf[CorpusOf[f]] = r
    BY <1>0, <1>3, <2>1 DEF delete_root, Abstract!Next, Abstract!RemoveRoot
  <2>2. CASE ~\E f \in Files : RootOf[CorpusOf[f]] = r
    <3>1. fileMap \in [Files -> Keys \cup {NoKey}]
      BY DEF IInv, Held, TypeOK, Batches
    <3> QED
      BY <1>0, <1>3, <2>2, <3>1 DEF delete_root
  <2> QED
    BY <2>1, <2>2
<1>4. ASSUME UNCHANGED fileMap PROVE UNCHANGED Visible
  BY <1>0, <1>4
<1>5. ASSUME NEW w \in Writers,
             \/ PrepareBatch(w) \/ LockGate(w) \/ FailBatch(w)
             \/ RejectMixedBatch(w) \/ RecheckStored(w)
             \/ WriteContent(w) \/ RefreshIndexes(w)
      PROVE  UNCHANGED fileMap
  BY <1>5 DEF PrepareBatch, LockGate, FailBatch, RejectMixedBatch, RecheckStored,
              WriteContent, RefreshIndexes, disk
<1>6. ASSUME GcLockGate \/ CollectStep \/ GcFail \/ Crash \/ UNCHANGED vars
      PROVE  UNCHANGED fileMap
  BY <1>6 DEF GcLockGate, CollectStep, ScanStored, ScanReferenced, RecheckGroup,
              DeleteOrphans, GcFinish, GcFail, Crash, vars, disk
<1> QED
  BY <1>1, <1>2, <1>3, <1>4, <1>5, <1>6 DEF Next, RunStep, CommitStep

\* The split store implements the abstract index: a batch is visible at once
\* or not at all, and collecting content is invisible.
THEOREM Refinement == Spec => ImplementsSearchIndex
<1>1. Init => Abstract!Init
  <2> SUFFICES ASSUME Init PROVE Visible = [f \in Files |-> NoKey]
    BY DEF Abstract!Init
  <2> QED
    BY DEF Init, Visible, EmptyBatch
<1> QED
  BY <1>1, StepRefines, Invariance, PTL DEF Spec, Abstract!Spec, ImplementsSearchIndex
-----------------------------------------------------------------------------
(* Shutdown: the maintenance task may be aborted while its delete goes on.  *)

\* The store is held together whatever the shutdown cuts off; its tasks know
\* what they rely on until the shutdown begins.
ShutdownInv ==
    /\ Held
    /\ stopping \in BOOLEAN
    /\ detached \in SUBSET Keys
    /\ ~stopping => Knows /\ detached = {}

\* The delete that outlived its caller takes away what a writer at "map"
\* counts on, but no writer adds what is stored because of it.
LEMMA DetachedDeleteKeeps == ASSUME ShutdownInv, DetachedDelete PROVE Held'
<1> USE StoreAssumption DEF ShutdownInv, Held, DetachedDelete, writer, gc
<1>1. TypeOK' /\ NoDuplicateContent' /\ ContentEmbedded'
  BY DropContentKeeps DEF TypeOK
<1>2. GateHeld' /\ BatchKnows'
  BY DEF GateHeld, BatchKnows
<1>3. AddsMissing'
  BY DropContentKeeps DEF TypeOK, AddsMissing
<1> QED
  BY <1>1, <1>2, <1>3

\* Every step keeps that, and before the shutdown the content of every file.
LEMMA ShutdownStep ==
    ASSUME ShutdownInv, [ShutdownNext]_shutdownVars
    PROVE  ShutdownInv' /\ (~stopping => FilesKept)
<1> DEFINE Keeps == ShutdownInv' /\ (~stopping => FilesKept)
<1> SUFFICES Keeps
  OBVIOUS
<1>1. CASE CancelToken
  BY <1>1, StutterKeeps DEF CancelToken, ShutdownInv
<1>2. CASE AbortMaintenance
  <2>1. Held'
    BY <1>2, GcDoneKeeps DEF AbortMaintenance, ShutdownInv, Held, TypeOK
  <2> QED
    BY <1>2, <2>1 DEF AbortMaintenance, ShutdownInv, Held, TypeOK
<1>3. CASE DetachedDelete
  BY <1>3, DetachedDeleteKeeps DEF DetachedDelete, ShutdownInv
<1>4. CASE RunStep /\ UNCHANGED <<stopping, detached>>
  BY <1>4, RunStepKeeps DEF ShutdownInv
<1>5. CASE Crash /\ stopping' = FALSE /\ detached' = {}
  BY <1>5, CrashKeeps DEF ShutdownInv
<1>6. CASE UNCHANGED shutdownVars
  BY <1>6, StutterKeeps DEF shutdownVars, ShutdownInv
<1> HIDE DEF Keeps
<1> QED
  BY <1>1, <1>2, <1>3, <1>4, <1>5, <1>6 DEF ShutdownNext, OtherStep

\* What holds of the store in every state of a daemon that may be shut down.
THEOREM ShutdownInvariance == ShutdownSpec => []ShutdownInv
<1>1. ShutdownInit => ShutdownInv
  BY InitHeld DEF ShutdownInit, ShutdownInv
<1> QED
  BY <1>1, ShutdownStep, PTL DEF ShutdownSpec

\* Also while a daemon shuts down, with its collector aborted at any step and
\* a delete still under way, content is stored at most once per key.
THEOREM NeverDuplicatedInShutdown == ShutdownSpec => []NoDuplicateContent
<1>1. ShutdownInv => NoDuplicateContent
  BY DEF ShutdownInv, Held
<1> QED
  BY <1>1, ShutdownInvariance, PTL

\* And it always carries its vectors.
THEOREM AlwaysEmbeddedInShutdown == ShutdownSpec => []ContentEmbedded
<1>1. ShutdownInv => ContentEmbedded
  BY DEF ShutdownInv, Held
<1> QED
  BY <1>1, ShutdownInvariance, PTL

\* A file loses its content only while a daemon shuts down: neither crashes
\* nor what an earlier shutdown left make a running daemon lose any.
THEOREM LostOnlyInShutdown == ShutdownSpec => OnlyShutdownDangles
<1>1. ShutdownInv /\ [ShutdownNext]_shutdownVars
        => [stopping \/ \A f \in Files : HasContent(f) => HasContent(f)']_shutdownVars
  BY ShutdownStep DEF FilesKept
<1> QED
  BY <1>1, ShutdownInvariance, PTL DEF ShutdownSpec, OnlyShutdownDangles
=============================================================================
