----------------------------- MODULE SplitStore -----------------------------
(***************************************************************************)
(* The split LanceDB store (LanceStore): one content table shared by every *)
(* corpus and keyed by content key, and one file map that says which       *)
(* content key each (corpus, root, file_ref) uses.  A batch writer checks  *)
(* which keys are stored and embeds the others without the write gate,     *)
(* then rechecks, adds the missing content and maps the files under it.    *)
(* The orphan collector scans both tables without the gate, then rechecks  *)
(* and deletes group by group under it.  Map deletes take no gate at all.  *)
(* Every await of the code is a step boundary here; one LanceDB commit is  *)
(* one step.  Embeddings are enabled; a batch holds no chunkless file      *)
(* (run_in_batches filters them out).                                      *)
(***************************************************************************)
EXTENDS Naturals, FiniteSets

CONSTANTS Files, Corpora, Roots,
          CorpusOf,    \* corpus key of a file
          RootOf,      \* canonical root of a corpus key
          Keys, NoKey,
          Offered,     \* the batches the callers hand to commit_batch
          Writers,     \* concurrent commit_batch callers
          Collector,   \* the maintenance task inside delete_orphan_content
          Free,        \* nobody holds the write gate
          GroupSize,   \* KEY_LOOKUP_CHUNK
          MaxFaults    \* bound on failed or aborted operations and crashes

ASSUME StoreAssumption ==
    /\ CorpusOf \in [Files -> Corpora]
    /\ RootOf \in [Corpora -> Roots]
    /\ NoKey \notin Keys
    /\ Offered \subseteq [Files -> Keys \cup {NoKey}]
    /\ Free \notin Writers \cup {Collector}
    /\ Collector \notin Writers
    /\ GroupSize \in Nat \ {0}
    /\ MaxFaults \in Nat

VARIABLES
    rows,        \* content table: copies of each key's content
    vectored,    \* keys whose content rows carry embeddings
    fileMap,     \* file map: the key of each mapped file
    gate,        \* holder of write_gate
    pc, batch, embedded, newContent,      \* per writer
    gcPc, gcStored, candidates, orphans,  \* the collector
    faults

disk   == <<rows, vectored, fileMap>>
writer == <<pc, batch, embedded, newContent>>
gc     == <<gcPc, gcStored, candidates, orphans>>
vars   == <<disk, gate, writer, gc, faults>>

Batches == [Files -> Keys \cup {NoKey}]

EmptyBatch == [f \in Files |-> NoKey]

BatchKeys(b) == {b[f] : f \in Files} \ {NoKey}

OneCorpus(b) == \A f, g \in Files : b[f] # NoKey /\ b[g] # NoKey
                                       => CorpusOf[f] = CorpusOf[g]

WriterPCs == {"idle", "prepared", "recheck", "add", "map", "refresh"}
HoldingPCs == {"recheck", "add", "map", "refresh"}
GcPCs == {"idle", "scanned", "locking", "recheck", "delete"}

TypeOK ==
    /\ rows \in [Keys -> Nat]
    /\ vectored \in SUBSET Keys
    /\ fileMap \in Batches
    /\ gate \in Writers \cup {Collector, Free}
    /\ pc \in [Writers -> WriterPCs]
    /\ batch \in [Writers -> Batches]
    /\ embedded \in [Writers -> SUBSET Keys]
    /\ newContent \in [Writers -> SUBSET Keys]
    /\ gcPc \in GcPCs
    /\ gcStored \in SUBSET Keys
    /\ candidates \in SUBSET Keys
    /\ orphans \in SUBSET Keys
    /\ faults \in 0..MaxFaults

Init ==
    /\ rows = [k \in Keys |-> 0]
    /\ vectored = {}
    /\ fileMap = EmptyBatch
    /\ gate = Free
    /\ pc = [w \in Writers |-> "idle"]
    /\ batch = [w \in Writers |-> EmptyBatch]
    /\ embedded = [w \in Writers |-> {}]
    /\ newContent = [w \in Writers |-> {}]
    /\ gcPc = "idle"
    /\ gcStored = {}
    /\ candidates = {}
    /\ orphans = {}
    /\ faults = 0

-----------------------------------------------------------------------------
(* Batch writers.                                                          *)

stored_content_keys(keys) == {k \in keys : rows[k] > 0}

select_new_content(b, stored) == BatchKeys(b) \ stored

mapped_keys == {fileMap[f] : f \in Files} \ {NoKey}

\* prepare_batch: embeds what the ungated precheck did not find stored.
PrepareBatch(w) ==
    /\ pc[w] = "idle"
    /\ \E b \in Offered :
          /\ b # EmptyBatch
          /\ batch' = [batch EXCEPT ![w] = b]
          /\ embedded' = [embedded EXCEPT ![w] =
                 select_new_content(b, stored_content_keys(BatchKeys(b)))]
    /\ pc' = [pc EXCEPT ![w] = "prepared"]
    /\ UNCHANGED <<disk, gate, newContent, gc, faults>>

\* The writer is back in its caller; the gate guard, if held, is dropped.
WriterDone(w) ==
    /\ pc' = [pc EXCEPT ![w] = "idle"]
    /\ batch' = [batch EXCEPT ![w] = EmptyBatch]
    /\ embedded' = [embedded EXCEPT ![w] = {}]
    /\ newContent' = [newContent EXCEPT ![w] = {}]
    /\ gate' = IF gate = w THEN Free ELSE gate

\* commit_batch refuses a batch that mixes corpus keys.
RejectMixedBatch(w) ==
    /\ pc[w] = "prepared"
    /\ ~OneCorpus(batch[w])
    /\ WriterDone(w)
    /\ UNCHANGED <<disk, gc, faults>>

LockGate(w) ==
    /\ pc[w] = "prepared"
    /\ OneCorpus(batch[w])
    /\ gate = Free
    /\ gate' = w
    /\ pc' = [pc EXCEPT ![w] = "recheck"]
    /\ UNCHANGED <<disk, batch, embedded, newContent, gc, faults>>

\* Mutant: the pre-gate check is trusted instead of the recheck.
RecheckTrustsPrecheck(w) ==
    /\ pc[w] = "recheck"
    /\ newContent' = [newContent EXCEPT ![w] = embedded[w]]
    /\ pc' = [pc EXCEPT ![w] = IF embedded[w] = {} THEN "map" ELSE "add"]
    /\ UNCHANGED <<disk, gate, batch, embedded, gc, faults>>

RecheckStored(w) ==
    /\ pc[w] = "recheck"
    /\ LET new == select_new_content(batch[w], stored_content_keys(BatchKeys(batch[w])))
       IN  /\ newContent' = [newContent EXCEPT ![w] = new]
           /\ pc' = [pc EXCEPT ![w] = IF new = {} THEN "map" ELSE "add"]
    /\ UNCHANGED <<disk, gate, batch, embedded, gc, faults>>

\* Mutant: content collected after the precheck is added without vectors.
WriteContentNoReembed(w) ==
    /\ pc[w] = "add"
    /\ rows' = [k \in Keys |-> IF k \in newContent[w] THEN rows[k] + 1 ELSE rows[k]]
    /\ vectored' = vectored \cup (newContent[w] \cap embedded[w])
    /\ pc' = [pc EXCEPT ![w] = "map"]
    /\ UNCHANGED <<fileMap, gate, batch, embedded, newContent, gc, faults>>

\* write_content: keys without a prepared vector are embedded here, under the
\* gate; the rows of every new key are appended in one commit.  Locals that
\* the code reads no more are cleared.
WriteContent(w) ==
    /\ pc[w] = "add"
    /\ rows' = [k \in Keys |-> IF k \in newContent[w] THEN rows[k] + 1 ELSE rows[k]]
    /\ LET missing == newContent[w] \ embedded[w]
       IN  vectored' = vectored \cup (newContent[w] \cap (embedded[w] \cup missing))
    /\ pc' = [pc EXCEPT ![w] = "map"]
    /\ embedded' = [embedded EXCEPT ![w] = {}]
    /\ newContent' = [newContent EXCEPT ![w] = {}]
    /\ UNCHANGED <<fileMap, gate, batch, gc, faults>>

\* write_file_map: one merge_insert of the whole batch.
WriteFileMap(w) ==
    /\ pc[w] = "map"
    /\ fileMap' = [f \in Files |-> IF batch[w][f] # NoKey THEN batch[w][f]
                                                          ELSE fileMap[f]]
    /\ pc' = [pc EXCEPT ![w] = "refresh"]
    /\ batch' = [batch EXCEPT ![w] = EmptyBatch]
    /\ UNCHANGED <<rows, vectored, gate, embedded, newContent, gc, faults>>

\* refresh_file_indexes and refresh_indexes; commit_batch returns.
RefreshIndexes(w) ==
    /\ pc[w] = "refresh"
    /\ WriterDone(w)
    /\ UNCHANGED <<disk, gc, faults>>

\* An error of any LanceDB call or of the embedder, or the caller's future
\* dropped (drain timeout): what was committed so far stays.
FailBatch(w) ==
    /\ pc[w] # "idle"
    /\ faults < MaxFaults
    /\ faults' = faults + 1
    /\ WriterDone(w)
    /\ UNCHANGED <<disk, gc>>

-----------------------------------------------------------------------------
(* Map deletes.  No gate: one commit on the file map.                      *)

delete_file(f) ==
    /\ fileMap' = [fileMap EXCEPT ![f] = NoKey]
    /\ UNCHANGED <<rows, vectored, gate, writer, gc, faults>>

delete_root(r) ==
    /\ fileMap' = [f \in Files |-> IF RootOf[CorpusOf[f]] = r THEN NoKey ELSE fileMap[f]]
    /\ UNCHANGED <<rows, vectored, gate, writer, gc, faults>>

-----------------------------------------------------------------------------
(* delete_orphan_content.                                                  *)

ScanStored ==
    /\ gcPc = "idle"
    /\ gcStored' = {k \in Keys : rows[k] > 0}
    /\ gcPc' = "scanned"
    /\ UNCHANGED <<disk, gate, writer, candidates, orphans, faults>>

ScanReferenced ==
    /\ gcPc = "scanned"
    /\ candidates' = gcStored \ mapped_keys
    /\ gcPc' = IF candidates' = {} THEN "idle" ELSE "locking"
    /\ gcStored' = {}
    /\ UNCHANGED <<disk, gate, writer, orphans, faults>>

\* The collector returns; its gate guard, if held, is dropped.
GcDone ==
    /\ gcPc' = "idle"
    /\ gate' = IF gate = Collector THEN Free ELSE gate
    /\ gcStored' = {}
    /\ candidates' = {}
    /\ orphans' = {}

\* Mutants: the collector takes no gate; it gives up when the gate is taken.
GcLockGateSkipped ==
    /\ gcPc = "locking"
    /\ gcPc' = "recheck"
    /\ UNCHANGED <<disk, gate, writer, gcStored, candidates, orphans, faults>>

GcTryLockGate ==
    /\ gcPc = "locking"
    /\ IF gate = Free
       THEN /\ gate' = Collector
            /\ gcPc' = "recheck"
            /\ UNCHANGED <<gcStored, candidates, orphans>>
       ELSE GcDone
    /\ UNCHANGED <<disk, writer, faults>>

GcLockGate ==
    /\ gcPc = "locking"
    /\ gate = Free
    /\ gate' = Collector
    /\ gcPc' = "recheck"
    /\ UNCHANGED <<disk, writer, gcStored, candidates, orphans, faults>>

\* The candidates in chunks of GroupSize, the last one shorter.
IsGroup(group) ==
    \/ Cardinality(group) = GroupSize
    \/ group = candidates /\ Cardinality(group) <= GroupSize

\* Mutant: the candidates of the ungated scan are deleted as they are.
RecheckGroupTrustsScan ==
    /\ gcPc = "recheck"
    /\ candidates # {}
    /\ \E group \in SUBSET candidates :
          /\ IsGroup(group)
          /\ candidates' = candidates \ group
          /\ orphans' = group
          /\ gcPc' = "delete"
    /\ UNCHANGED <<disk, gate, writer, gcStored, faults>>

\* The group's keys are looked up in the map again, under the gate; a group
\* with no orphan left is skipped.
RecheckGroup ==
    /\ gcPc = "recheck"
    /\ candidates # {}
    /\ \E group \in SUBSET candidates :
          /\ IsGroup(group)
          /\ candidates' = candidates \ group
          /\ orphans' = group \ mapped_keys
          /\ gcPc' = IF orphans' = {} THEN "recheck" ELSE "delete"
    /\ UNCHANGED <<disk, gate, writer, gcStored, faults>>

DropContent(keys) ==
    /\ rows' = [k \in Keys |-> IF k \in keys THEN 0 ELSE rows[k]]
    /\ vectored' = vectored \ keys

DeleteOrphans ==
    /\ gcPc = "delete"
    /\ DropContent(orphans)
    /\ orphans' = {}
    /\ gcPc' = "recheck"
    /\ UNCHANGED <<fileMap, gate, writer, gcStored, candidates, faults>>

GcFinish ==
    /\ gcPc = "recheck"
    /\ candidates = {}
    /\ GcDone
    /\ UNCHANGED <<disk, writer, faults>>

\* A scan or delete error: the groups deleted so far stay deleted.
GcFail ==
    /\ gcPc # "idle"
    /\ faults < MaxFaults
    /\ faults' = faults + 1
    /\ GcDone
    /\ UNCHANGED <<disk, writer>>

-----------------------------------------------------------------------------
\* The process dies and a new one opens the store: only the tables survive.
Crash ==
    /\ faults < MaxFaults
    /\ faults' = faults + 1
    /\ gate' = Free
    /\ pc' = [w \in Writers |-> "idle"]
    /\ batch' = [w \in Writers |-> EmptyBatch]
    /\ embedded' = [w \in Writers |-> {}]
    /\ newContent' = [w \in Writers |-> {}]
    /\ gcPc' = "idle"
    /\ gcStored' = {} /\ candidates' = {} /\ orphans' = {}
    /\ UNCHANGED disk

CommitStep(w) ==
    \/ RejectMixedBatch(w) \/ RecheckStored(w) \/ WriteContent(w)
    \/ WriteFileMap(w) \/ RefreshIndexes(w)

CollectStep ==
    ScanStored \/ ScanReferenced \/ RecheckGroup \/ DeleteOrphans \/ GcFinish

\* Everything a live daemon does.
RunStep ==
    \/ \E w \in Writers : \/ PrepareBatch(w) \/ LockGate(w)
                          \/ CommitStep(w) \/ FailBatch(w)
    \/ \E f \in Files : delete_file(f)
    \/ \E r \in Roots : delete_root(r)
    \/ GcLockGate \/ CollectStep \/ GcFail

Next == RunStep \/ Crash

\* Tasks that can run do run, and tokio's Mutex hands the gate to its waiters
\* in arrival order, so a waiter is not passed over for ever.  The maintenance
\* loop keeps coming back to the collector.  New batches are not owed.
Fairness ==
    /\ \A w \in Writers : WF_vars(CommitStep(w)) /\ SF_vars(LockGate(w))
    /\ WF_vars(CollectStep) /\ SF_vars(GcLockGate)

Spec == Init /\ [][Next]_vars

FairSpec == Spec /\ Fairness

-----------------------------------------------------------------------------
(* Correctness.                                                            *)

HasContent(f) == fileMap[f] # NoKey => rows[fileMap[f]] > 0

\* A mapped file always has its content: neither the collector's deletes nor
\* a batch that fails between its commits leaves a map row whose content is
\* gone (lance.rs: "this pass never removes content a batch references").
NoDanglingMap == \A f \in Files : HasContent(f)

\* Content is stored once per key, however batches and collections overlap:
\* a second copy would be returned twice by every search.
NoDuplicateContent == \A k \in Keys : rows[k] <= 1

\* Content rows always carry their vectors, also when the pre-gate check saw
\* the content stored and it was collected before the commit.
ContentEmbedded == \A k \in Keys : rows[k] > 0 => k \in vectored

\* Content no map row references any more is eventually removed, although
\* the scan for it runs while writers and deletes change the map.
OrphansCollected ==
    \A k \in Keys : <>[](k \notin mapped_keys) => <>[](rows[k] = 0)

\* What a search of a file can return.
Visible == [f \in Files |-> IF fileMap[f] # NoKey /\ rows[fileMap[f]] > 0
                            THEN fileMap[f] ELSE NoKey]

Abstract == INSTANCE SearchIndex WITH index <- Visible

\* Batches are atomic to searches and collection is invisible to them.
ImplementsSearchIndex == Abstract!Spec
=============================================================================
