------------------------------- MODULE Indexer -------------------------------
(***************************************************************************)
(* How the index follows the files of one corpus.  A pass (catch_up_corpus *)
(* or index_corpus) scans, plans against the stored snapshots and applies  *)
(* the plan, all under the corpus lock; the watcher re-indexes one changed *)
(* file behind its mtime gate; a handler writes a page and indexes the     *)
(* bytes it wrote.  Other programs edit the files at any moment.           *)
(*                                                                         *)
(* Time is the millisecond of an mtime.  Every write of a file stamps it   *)
(* with the clock; several steps and several edits fit in one millisecond. *)
(* The lane inside the corpus lock is in WriteLane, the two tables behind  *)
(* a row in SplitStore.                                                    *)
(***************************************************************************)
EXTENDS Integers, FiniteSets

CONSTANTS
    Files,
    Texts,      \* file contents that give chunks
    BatchSize,  \* DEFAULT_BATCH_SIZE
    MaxTime,    \* bound: milliseconds
    MaxEdits,   \* bound: writes and removals of files
    MaxFaults,  \* bound: failed reads, store calls and lock waits
    None

ASSUME IndexerAssumption ==
    /\ Texts \cap {"empty", "bad"} = {}
    /\ BatchSize \in Nat \ {0}
    /\ MaxTime \in Nat /\ MaxEdits \in Nat /\ MaxFaults \in Nat
    /\ None \notin Int \cup Texts \cup {"empty", "bad"}

VARIABLES
    now,       \* Utc::now().timestamp_millis(), also the clock of the files
    disk,      \* the files: content and mtime
    rows,      \* the file map: FileSnapshot, and who wrote it last
    events,    \* changed paths in the watcher's batch
    lock,      \* holder of the corpus lock
    at,        \* where the pass is
    plan,      \* what is to be done with each file, IndexPlan
    seen,      \* mtimes of the scan
    stamp,     \* indexed_at_ms
    chunk,     \* files of the current batch that prepare_file has taken
    prepared,  \* contents read into the current batch
    job,       \* the watcher and the page handler
    edits, faults,
    quiet,     \* history: nothing changed or failed since the pass began
    kept       \* history: files that had a row when the pass began

pass  == <<at, plan, seen, stamp, chunk, prepared>>
ghost == <<quiet, kept>>
vars  == <<now, disk, rows, events, lock, pass, job, edits, faults, ghost>>

Contents == Texts \cup {"empty", "bad"}
Times    == 0..MaxTime
Workers  == {"watcher", "handler"}

File     == [content : Contents, mtime : Times]
Snapshot == [hash : Texts, mtime : -1..MaxTime, by : {"pass", "file"}]

\* The null value is no row.
ASSUME NoneAssumption == None \notin Snapshot

Plans    == {"todo", "scanned", "skip", "upsert", "check", "rewrite", "delete"}
Job      == [at : {"idle", "gate", "lock", "read", "write", "stat", "prune", "plan"},
             file : Files \cup {None}, bytes : Contents \cup {None},
             mtime : Times \cup {None}]

TypeOK ==
    /\ now \in Times
    /\ disk \in [Files -> File \cup {None}]
    /\ rows \in [Files -> Snapshot \cup {None}]
    /\ events \subseteq Files
    /\ lock \in Workers \cup {"pass", "free"}
    /\ at \in {"idle", "scan", "upsert", "check", "rewrite", "delete"}
    /\ plan \in [Files -> Plans]
    /\ seen \in [Files -> Times \cup {None}]
    /\ stamp \in Times
    /\ chunk \subseteq Files
    /\ prepared \in [Files -> Texts \cup {None}]
    /\ job \in [Workers -> Job]
    /\ edits \in 0..MaxEdits /\ faults \in 0..MaxFaults
    /\ quiet \in BOOLEAN /\ kept \subseteq Files

NoJob == [at |-> "idle", file |-> None, bytes |-> None, mtime |-> None]

NoPass ==
    /\ at' = "idle"
    /\ plan' = [f \in Files |-> "skip"]
    /\ seen' = [f \in Files |-> None]
    /\ stamp' = 0
    /\ chunk' = {} /\ prepared' = [f \in Files |-> None]
    /\ quiet' = FALSE /\ kept' = {}

Init ==
    /\ now = 0
    /\ disk = [f \in Files |-> None]
    /\ rows = [f \in Files |-> None]
    /\ events = {}
    /\ lock = "free"
    /\ at = "idle" /\ plan = [f \in Files |-> "skip"]
    /\ seen = [f \in Files |-> None] /\ stamp = 0
    /\ chunk = {} /\ prepared = [f \in Files |-> None]
    /\ job = [w \in Workers |-> NoJob]
    /\ edits = 0 /\ faults = 0
    /\ quiet = FALSE /\ kept = {}

Exists(f) == disk[f] # None

\* A failed read or store call.
Fault == faults < MaxFaults /\ faults' = faults + 1

-----------------------------------------------------------------------------
(* The file system.                                                        *)

Tick ==
    /\ now < MaxTime /\ now' = now + 1
    /\ UNCHANGED <<disk, rows, events, lock, pass, job, edits, faults, ghost>>

\* The notify backend reports every change to the pump.
Change(f, file) ==
    /\ disk' = [disk EXCEPT ![f] = file]
    /\ events' = events \cup {f}
    /\ quiet' = FALSE
    /\ UNCHANGED <<now, rows, pass, faults, kept>>

\* One more write or removal of a file.
OneEdit == edits < MaxEdits /\ edits' = edits + 1

Edit(f, c) ==
    /\ OneEdit
    /\ Change(f, [content |-> c, mtime |-> now])
    /\ UNCHANGED <<lock, job>>

Remove(f) ==
    /\ OneEdit
    /\ Exists(f) /\ Change(f, None)
    /\ UNCHANGED <<lock, job>>

-----------------------------------------------------------------------------
(* A pass over the corpus: scan, plan, apply.                              *)

\* Mutant: a racy mtime is only one in the future.
smudge_future_mtime(mtime, t) == IF mtime > t THEN mtime - 1 ELSE mtime

\* A file written in the millisecond of its indexing may be written again in
\* it: its row records an mtime that no later check takes for the file's.
smudge_racy_mtime(mtime, t) == IF mtime >= t THEN mtime - 1 ELSE mtime

\* The lock is held from the scan to the end of apply.
BeginPass ==
    /\ at = "idle" /\ lock = "free"
    /\ at' = "scan" /\ lock' = "pass"
    /\ plan' = [f \in Files |-> "todo"]
    /\ quiet' = TRUE /\ kept' = {f \in Files : rows[f] # None}
    /\ UNCHANGED <<now, disk, rows, events, seen, stamp, chunk, prepared, job,
                   edits, faults>>

\* The walk reaches the files one after the other.
Scan(f) ==
    /\ at = "scan" /\ plan[f] = "todo"
    /\ plan' = [plan EXCEPT ![f] = "scanned"]
    /\ seen' = [seen EXCEPT ![f] = IF Exists(f) THEN disk[f].mtime ELSE None]
    /\ UNCHANGED <<now, disk, rows, events, lock, at, stamp, chunk, prepared, job,
                   edits, faults, ghost>>

Scanned == at = "scan" /\ \A f \in Files : plan[f] # "todo"

\* An equal mtime is verified by the content hash.
Verified(f) == IF disk[f].content = rows[f].hash THEN "skip" ELSE "rewrite"

Planned(f) ==
    IF seen[f] = None THEN IF rows[f] = None THEN "skip" ELSE "delete"
    ELSE IF rows[f] = None THEN "upsert"
    ELSE IF rows[f].mtime # seen[f] THEN "check"
    ELSE IF Exists(f) THEN Verified(f)
    ELSE "skip"

\* One file of plan(): the rows it reads are stable under the lock, the file
\* is not.
PlanFile(f) ==
    /\ Scanned /\ plan[f] = "scanned"
    /\ plan' = [plan EXCEPT ![f] = Planned(f)]
    /\ UNCHANGED <<now, disk, rows, events, lock, at, seen, stamp, chunk, prepared,
                   job, edits, faults, ghost>>

\* The hash cannot be read: the file keeps its row and is left alone.
PlanUnreadable(f) ==
    /\ Scanned /\ plan[f] = "scanned"
    /\ seen[f] # None /\ rows[f] # None /\ rows[f].mtime = seen[f]
    /\ Fault
    /\ plan' = [plan EXCEPT ![f] = "skip"]
    /\ quiet' = FALSE
    /\ UNCHANGED <<now, disk, rows, events, lock, at, seen, stamp, chunk, prepared,
                   job, edits, kept>>

\* apply_with_lane takes its time stamp before it reads any file.
StartApply ==
    /\ Scanned /\ \A f \in Files : plan[f] # "scanned"
    /\ at' = "upsert" /\ stamp' = now
    /\ UNCHANGED <<now, disk, rows, events, lock, plan, seen, chunk, prepared, job,
                   edits, faults, ghost>>

\* An error ends the pass; what it has committed stays.
AbortPass ==
    /\ lock' = "free"
    /\ NoPass
    /\ UNCHANGED <<now, disk, rows, events, job, edits>>

\* The phases of apply, in their order: new files, mtimes that moved, files
\* whose hash differs, files that are gone.
Applying == at \in {"upsert", "check", "rewrite", "delete"}
Due(f)   == Applying /\ plan[f] = at
Batching == at \in {"upsert", "rewrite"}

PhaseDone == Applying /\ chunk = {} /\ \A f \in Files : ~Due(f)

NextPhase ==
    /\ PhaseDone /\ at # "delete"
    /\ at' = CASE at = "upsert" -> "check"
               [] at = "check" -> "rewrite"
               [] at = "rewrite" -> "delete"
    /\ UNCHANGED <<now, disk, rows, events, lock, plan, seen, stamp, chunk, prepared, job,
                   edits, faults, ghost>>

\* A handler extracted chunks from the content.
Extracted(c) == c \in Texts

\* Mutant: a file that cannot be extracted counts as empty.
NoChunksOrUnreadable(c) == c \in {"empty", "bad"}

\* Only a file that was extracted and gave no chunks is evicted; one whose
\* extraction failed keeps its last good row.
NoChunks(c) == c = "empty"

\* prepare_file within run_in_batches.  An upsert has no row to evict.
PrepareFile(f) ==
    /\ Batching /\ Due(f) /\ Cardinality(chunk) < BatchSize
    /\ Exists(f)
    /\ plan' = [plan EXCEPT ![f] = "skip"]
    /\ chunk' = chunk \cup {f}
    /\ IF Extracted(disk[f].content)
       THEN prepared' = [prepared EXCEPT ![f] = disk[f].content] /\ UNCHANGED rows
       ELSE /\ UNCHANGED prepared
            /\ rows' = IF NoChunks(disk[f].content)
                       THEN [rows EXCEPT ![f] = None] ELSE rows
    /\ UNCHANGED <<now, disk, events, lock, at, seen, stamp, job, edits, faults, ghost>>

Recorded(f) == smudge_racy_mtime(seen[f], stamp)

\* A batch is written when it is full or its phase has no file left.
CommitBatch ==
    /\ Batching /\ chunk # {}
    /\ Cardinality(chunk) = BatchSize \/ \A f \in Files : ~Due(f)
    /\ rows' = [f \in Files |->
                  IF prepared[f] # None
                  THEN [hash |-> prepared[f], mtime |-> Recorded(f), by |-> "pass"]
                  ELSE rows[f]]
    /\ chunk' = {} /\ prepared' = [f \in Files |-> None]
    /\ UNCHANGED <<now, disk, events, lock, at, plan, seen, stamp, job, edits, faults,
                   ghost>>

\* An mtime that moved is a hint: an equal hash only moves the row's mtime.
CheckHash(f) ==
    /\ at = "check" /\ Due(f)
    /\ Exists(f)
    /\ IF disk[f].content = rows[f].hash
       THEN /\ plan' = [plan EXCEPT ![f] = "skip"]
            /\ rows' = [rows EXCEPT ![f].mtime = Recorded(f), ![f].by = "pass"]
       ELSE plan' = [plan EXCEPT ![f] = "rewrite"] /\ UNCHANGED rows
    /\ UNCHANGED <<now, disk, events, lock, at, seen, stamp, chunk, prepared, job, edits,
                   faults, ghost>>

\* Files gone at the scan lose their row, after all else.
DeleteRow(f) ==
    /\ at = "delete" /\ Due(f)
    /\ plan' = [plan EXCEPT ![f] = "skip"]
    /\ rows' = [rows EXCEPT ![f] = None]
    /\ UNCHANGED <<now, disk, events, lock, at, seen, stamp, chunk, prepared, job, edits,
                   faults, ghost>>

\* Mutant: the pass waits for the file to come back.
ReadVanishedWaits ==
    /\ at \in {"upsert", "check", "rewrite"} /\ Cardinality(chunk) < BatchSize
    /\ \E f \in Files : Due(f) /\ ~Exists(f)
    /\ UNCHANGED vars

\* The file to be read is gone: a hard error.
ReadVanished ==
    /\ at \in {"upsert", "check", "rewrite"} /\ Cardinality(chunk) < BatchSize
    /\ \E f \in Files : Due(f) /\ ~Exists(f)
    /\ AbortPass /\ UNCHANGED faults

\* A read, a store call or the lane fails.
FailPass == at # "idle" /\ Fault /\ AbortPass

EndPass ==
    /\ PhaseDone /\ at = "delete"
    /\ AbortPass /\ UNCHANGED faults

-----------------------------------------------------------------------------
(* One file at a time: the watcher and the page handler.                   *)

Goto(w, place) == job' = [job EXCEPT ![w].at = place]

\* The job is over; its guard is dropped.
JobDone(w) ==
    /\ job' = [job EXCEPT ![w] = NoJob]
    /\ lock' = IF lock = w THEN "free" ELSE lock

\* mtime_matches_last_index, first half: stat the path.
GateStat(f) ==
    /\ job["watcher"].at = "idle" /\ f \in events
    /\ events' = events \ {f}
    /\ job' = [job EXCEPT !["watcher"] =
                 [NoJob EXCEPT !.at = "gate", !.file = f,
                               !.mtime = IF Exists(f) THEN disk[f].mtime ELSE None]]
    /\ UNCHANGED <<now, disk, rows, lock, pass, edits, faults, ghost>>

\* Second half: an event whose mtime is the row's is shed, before any lock.
GateRead ==
    /\ job["watcher"].at = "gate"
    /\ LET row == rows[job["watcher"].file]
       IN  IF row # None /\ row.mtime = job["watcher"].mtime
           THEN JobDone("watcher")
           ELSE Goto("watcher", "lock") /\ UNCHANGED lock
    /\ UNCHANGED <<now, disk, rows, events, pass, edits, faults, ghost>>

\* A request to write a page; its content is text.
Arrive(f, c) ==
    /\ job["handler"].at = "idle" /\ c # "bad" /\ OneEdit
    /\ job' = [job EXCEPT !["handler"] =
                 [NoJob EXCEPT !.at = "lock", !.file = f, !.bytes = c]]
    /\ UNCHANGED <<now, disk, rows, events, lock, pass, faults, ghost>>

LockCorpus(w) ==
    /\ job[w].at = "lock" /\ lock = "free"
    /\ lock' = w
    /\ Goto(w, IF w = "watcher" THEN "read" ELSE "write")
    /\ UNCHANGED <<now, disk, rows, events, pass, edits, faults, ghost>>

\* The mtime and then the bytes of one open file (bytes newer than the mtime
\* only make the row look older); a file that is gone loses its row.
WatcherRead ==
    /\ job["watcher"].at = "read"
    /\ LET f == job["watcher"].file
       IN  IF Exists(f)
           THEN /\ job' = [job EXCEPT !["watcher"].at = "plan",
                                      !["watcher"].bytes = disk[f].content,
                                      !["watcher"].mtime = disk[f].mtime]
                /\ UNCHANGED <<rows, lock>>
           ELSE rows' = [rows EXCEPT ![f] = None] /\ JobDone("watcher")
    /\ UNCHANGED <<now, disk, events, pass, edits, faults, ghost>>

\* An empty page is not indexed: overwriting with it prunes the row, and a
\* new one leaves the index alone.
WritePage ==
    /\ job["handler"].at = "write"
    /\ LET f == job["handler"].file
       IN  /\ Change(f, [content |-> job["handler"].bytes, mtime |-> now])
           /\ \/ job["handler"].bytes # "empty" /\ Goto("handler", "stat") /\ UNCHANGED lock
              \/ job["handler"].bytes = "empty" /\ Goto("handler", "prune") /\ UNCHANGED lock
              \/ job["handler"].bytes = "empty" /\ ~Exists(f) /\ JobDone("handler")
    /\ UNCHANGED edits

\* Without overwrite an existing page is left alone.
RefusePage ==
    /\ job["handler"].at = "write" /\ Exists(job["handler"].file)
    /\ JobDone("handler")
    /\ UNCHANGED <<now, disk, rows, events, pass, edits, faults, ghost>>

PrunePage ==
    /\ job["handler"].at = "prune"
    /\ rows' = [rows EXCEPT ![job["handler"].file] = None]
    /\ JobDone("handler")
    /\ UNCHANGED <<now, disk, events, pass, edits, faults, ghost>>

\* file_mtime: the mtime of the path now, whoever wrote it.
StatPage ==
    /\ job["handler"].at = "stat"
    /\ LET f == job["handler"].file
       IN  IF Exists(f)
           THEN /\ job' = [job EXCEPT !["handler"].at = "plan",
                                      !["handler"].mtime = disk[f].mtime]
                /\ UNCHANGED lock
           ELSE JobDone("handler")
    /\ UNCHANGED <<now, disk, rows, events, pass, edits, faults, ghost>>

\* plan_file_with_content and apply.  The stamp is taken here, after the
\* bytes: no other writer can interleave with the plan, its commit is this
\* step.
IndexFile(w) ==
    /\ job[w].at = "plan"
    /\ LET f == job[w].file
           c == job[w].bytes
           row == [hash |-> c, mtime |-> smudge_racy_mtime(job[w].mtime, now), by |-> "file"]
           same == rows[f] # None /\ rows[f].hash = c /\ rows[f].mtime = job[w].mtime
       IN  rows' = CASE Extracted(c) -> IF same THEN rows ELSE [rows EXCEPT ![f] = row]
                     [] NoChunks(c) -> [rows EXCEPT ![f] = None]
                     [] OTHER -> rows
    /\ JobDone(w)
    /\ UNCHANGED <<now, disk, events, pass, edits, faults, ghost>>

\* The debt gate refuses, a read or the store fails: nothing retries.
FailJob(w) ==
    /\ job[w].at # "idle"
    /\ Fault
    /\ JobDone(w)
    /\ UNCHANGED <<now, disk, rows, events, pass, edits, ghost>>

-----------------------------------------------------------------------------
FileStep(f) == \/ Scan(f) \/ PlanFile(f) \/ PrepareFile(f)
               \/ CheckHash(f) \/ DeleteRow(f)

PassStep == \/ BeginPass \/ StartApply \/ NextPhase \/ CommitBatch \/ ReadVanished \/ EndPass
            \/ \E f \in Files : FileStep(f)

WatcherStep == GateRead \/ WatcherRead \/ IndexFile("watcher")
HandlerStep == \/ WritePage \/ RefusePage \/ PrunePage \/ StatPage
               \/ IndexFile("handler")

Next ==
    \/ Tick
    \/ \E f \in Files : Remove(f) \/ GateStat(f) \/ PlanUnreadable(f)
    \/ \E f \in Files, c \in Contents : Edit(f, c) \/ Arrive(f, c)
    \/ PassStep \/ FailPass
    \/ WatcherStep \/ HandlerStep
    \/ \E w \in Workers : LockCorpus(w) \/ FailJob(w)

\* Passes come again (the reconcile tick); the corpus lock is a FIFO mutex.
Fairness ==
    /\ WF_vars(PassStep) /\ SF_vars(BeginPass)
    /\ WF_vars(WatcherStep) /\ WF_vars(HandlerStep)
    /\ \A w \in Workers : SF_vars(LockCorpus(w))

Spec == Init /\ [][Next]_vars
FairSpec == Spec /\ Fairness

-----------------------------------------------------------------------------
(* Properties.                                                             *)

\* The index says of the file what the file says.  The row of a file that
\* cannot be extracted is its last good one.
Agrees(f) ==
    IF ~Exists(f) \/ disk[f].content = "empty" THEN rows[f] = None
    ELSE disk[f].content = "bad" \/ (rows[f] # None /\ rows[f].hash = disk[f].content)

\* A row a pass wrote or touched never passes for a file it does not describe:
\* when its mtime is the file's, so is its content, whatever was written
\* between the scan, the read and the commit, also within one millisecond.
PassRowsSound ==
    \A f \in Files :
        rows[f] # None /\ Exists(f) /\ rows[f].by = "pass" /\ rows[f].mtime = disk[f].mtime
            => rows[f].hash = disk[f].content

\* A pass that completes while no file changes and nothing fails leaves the
\* index in agreement with the corpus, whatever the rows recorded before, and
\* "a present-but-unreadable file must NEVER evict its last-good rows".
PassConverges ==
    [][at = "delete" /\ at' = "idle" /\ quiet /\ faults' = faults
          => \A f \in Files : /\ Agrees(f)
                              /\ f \in kept /\ Exists(f) /\ disk[f].content = "bad"
                                    => rows[f] # None]_vars

\* Once the files stay as they are, the index comes to agree with them and
\* stays so, although events were shed or lost and jobs and passes failed.
Settles == <>[](\A f \in Files : Agrees(f))
=============================================================================
