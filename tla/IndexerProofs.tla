---------------------------- MODULE IndexerProofs ----------------------------
(***************************************************************************)
(* Proofs about Indexer, for any files, contents, batch size and bounds.   *)
(* PassRowsSound is not inductive: it needs that what a pass records is    *)
(* older than the clock, so that no later edit can carry the same mtime,   *)
(* and that the rows a pass planned with stay as they are under the lock.  *)
(* PassConverges follows from what each phase has already settled for a    *)
(* pass during which no file changes (QInv).                               *)
(***************************************************************************)
EXTENDS Indexer, TLAPS

\* Files and scans carry times of the past, and a file only gets newer.
TimesPast ==
    /\ stamp <= now
    /\ \A f \in Files : Exists(f) => disk[f].mtime <= now
    /\ \A f \in Files : seen[f] # None =>
          /\ seen[f] <= now
          /\ Exists(f) => seen[f] <= disk[f].mtime

\* Who is inside the critical section holds the corpus lock.
LockHeld ==
    /\ at # "idle" => lock = "pass"
    /\ \A w \in Workers : job[w].at \in {"read", "write", "stat", "prune", "plan"} => lock = w

\* What a job has gathered by the time it writes.
JobKnows ==
    /\ \A w \in Workers :
          /\ job[w].at # "idle" => job[w].file \in Files
          /\ job[w].at = "plan" => job[w].bytes \in Contents /\ job[w].mtime \in Times
    /\ job["handler"].at # "idle" => job["handler"].bytes \in Contents

\* What a pass has planned to read was there at the scan, and a row to be
\* checked is there.
PlanKnows ==
    \A f \in Files :
        /\ plan[f] \in {"upsert", "check", "rewrite"} => seen[f] # None
        /\ plan[f] = "check" => rows[f] # None
        /\ plan[f] # "skip" => at # "idle"

\* Content read into a batch describes the file if its row would pass for it.
PreparedSound ==
    \A f \in Files : prepared[f] # None =>
        /\ seen[f] # None /\ at \notin {"idle", "scan"} /\ plan[f] = "skip"
        /\ Exists(f) /\ Recorded(f) = disk[f].mtime => prepared[f] = disk[f].content

\* What a pass has recorded is older than the clock.
RowsPast ==
    \A f \in Files : rows[f] # None /\ rows[f].by = "pass" => rows[f].mtime < now

\* The inductive invariant.
IInv ==
    /\ TypeOK
    /\ TimesPast
    /\ LockHeld
    /\ JobKnows
    /\ PlanKnows
    /\ PreparedSound
    /\ RowsPast
    /\ PassRowsSound

-----------------------------------------------------------------------------
LEMMA InitIInv == Init => IInv
<1> SUFFICES ASSUME Init PROVE IInv
  OBVIOUS
<1> USE IndexerAssumption DEF Init
<1>1. TypeOK
  <2>1. NoJob \in Job /\ 0 \in Times
    BY DEF NoJob, Job, Times
  <2>2. quiet \in BOOLEAN
    OBVIOUS
  <2> QED
    BY <2>1, <2>2 DEF TypeOK, Plans
<1>2. TimesPast /\ LockHeld /\ JobKnows
  BY DEF TimesPast, LockHeld, JobKnows, Exists, NoJob, Workers
<1>3. PlanKnows /\ PreparedSound /\ RowsPast /\ PassRowsSound
  BY DEF PlanKnows, PreparedSound, RowsPast, PassRowsSound
<1> QED
  BY <1>1, <1>2, <1>3 DEF IInv

\* A recorded mtime is older than the clock and not newer than the scan.
LEMMA RecordedPast ==
    ASSUME TypeOK, TimesPast, NEW f \in Files, seen[f] # None
    PROVE  Recorded(f) \in -1..MaxTime /\ Recorded(f) < now
BY IndexerAssumption DEF TypeOK, TimesPast, Recorded, smudge_racy_mtime, Times

-----------------------------------------------------------------------------
(* The file system.                                                        *)

LEMMA TickIInv == ASSUME IInv, Tick PROVE IInv'
<1> USE IndexerAssumption DEF IInv, Tick, pass, ghost
<1>1. TypeOK'
  BY DEF TypeOK, Times
<1>2. TimesPast'
  BY DEF TypeOK, TimesPast, Times, Exists, File
<1>3. LockHeld' /\ JobKnows' /\ PlanKnows'
  BY DEF LockHeld, JobKnows, PlanKnows
<1>4. PreparedSound' /\ PassRowsSound'
  BY DEF PreparedSound, PassRowsSound, Recorded, Exists
<1>5. RowsPast'
  BY DEF TypeOK, RowsPast, Times, Snapshot
<1> QED
  BY <1>1, <1>2, <1>3, <1>4, <1>5

\* A file changes: its new mtime is the clock's.
LEMMA ChangeIInv ==
    ASSUME IInv, NEW f \in Files, NEW file,
           file = None \/ (file \in File /\ file.mtime = now),
           Change(f, file)
    PROVE  /\ disk' \in [Files -> File \cup {None}] /\ events' \subseteq Files
           /\ quiet' \in BOOLEAN
           /\ TimesPast' /\ PlanKnows' /\ PreparedSound' /\ RowsPast' /\ PassRowsSound'
<1> USE IndexerAssumption DEF IInv, Change, pass
<1>1. disk' \in [Files -> File \cup {None}] /\ events' \subseteq Files /\ quiet' \in BOOLEAN
  BY DEF TypeOK
<1>2. TimesPast'
  BY DEF TypeOK, TimesPast, Times, Exists, File
<1>3. PlanKnows' /\ RowsPast'
  BY DEF PlanKnows, RowsPast
<1>4. PreparedSound'
  <2> SUFFICES ASSUME NEW g \in Files, prepared[g] # None,
                      disk'[g] # None, Recorded(g) = disk'[g].mtime
               PROVE  prepared[g] = disk'[g].content
    BY DEF PreparedSound, Recorded, Exists
  <2>1. CASE g = f
    BY <2>1, RecordedPast DEF TypeOK, PreparedSound, Times
  <2>2. CASE g # f
    BY <2>2 DEF TypeOK, PreparedSound, Exists
  <2> QED
    BY <2>1, <2>2
<1>5. PassRowsSound'
  BY DEF TypeOK, PassRowsSound, RowsPast, Exists, Times, Snapshot, File
<1> QED
  BY <1>1, <1>2, <1>3, <1>4, <1>5

LEMMA EditIInv ==
    ASSUME IInv, NEW f \in Files, NEW c \in Contents, Edit(f, c) PROVE IInv'
<1> USE IndexerAssumption DEF IInv, Edit, OneEdit
<1>1. [content |-> c, mtime |-> now] \in File
  BY DEF TypeOK, File
<1>2. /\ disk' \in [Files -> File \cup {None}] /\ events' \subseteq Files /\ quiet' \in BOOLEAN
      /\ TimesPast' /\ PlanKnows' /\ PreparedSound' /\ RowsPast' /\ PassRowsSound'
  BY <1>1, ChangeIInv
<1>3. TypeOK'
  BY <1>2 DEF TypeOK, Change, pass
<1>4. LockHeld' /\ JobKnows'
  BY DEF LockHeld, JobKnows, Change, pass
<1> QED
  BY <1>2, <1>3, <1>4

LEMMA RemoveIInv == ASSUME IInv, NEW f \in Files, Remove(f) PROVE IInv'
<1> USE IndexerAssumption DEF IInv, Remove, OneEdit
<1>2. /\ disk' \in [Files -> File \cup {None}] /\ events' \subseteq Files /\ quiet' \in BOOLEAN
      /\ TimesPast' /\ PlanKnows' /\ PreparedSound' /\ RowsPast' /\ PassRowsSound'
  BY ChangeIInv
<1>3. TypeOK'
  BY <1>2 DEF TypeOK, Change, pass
<1>4. LockHeld' /\ JobKnows'
  BY DEF LockHeld, JobKnows, Change, pass
<1> QED
  BY <1>2, <1>3, <1>4

-----------------------------------------------------------------------------
(* A pass.  Files and clock stay, and so do the jobs.                       *)

\* The parts of the invariant that a step of the pass leaves alone.
LEMMA PassFrame ==
    ASSUME IInv, UNCHANGED <<now, disk, lock, job>>, at # "idle", at' # "idle"
    PROVE  LockHeld' /\ JobKnows'
BY DEF IInv, LockHeld, JobKnows

LEMMA BeginPassIInv == ASSUME IInv, BeginPass PROVE IInv'
<1> USE IndexerAssumption DEF IInv, BeginPass
<1>1. TypeOK'
  BY DEF TypeOK, Plans
<1>2. TimesPast' /\ JobKnows'
  BY DEF TimesPast, JobKnows, Exists
<1>3. LockHeld'
  BY DEF LockHeld, Workers
<1>4. PlanKnows'
  BY DEF TypeOK, PlanKnows
<1>5. PreparedSound' /\ RowsPast' /\ PassRowsSound'
  BY DEF PreparedSound, RowsPast, PassRowsSound, Recorded, Exists
<1> QED
  BY <1>1, <1>2, <1>3, <1>4, <1>5

LEMMA ScanIInv == ASSUME IInv, NEW f \in Files, Scan(f) PROVE IInv'
<1> USE IndexerAssumption DEF IInv, Scan, ghost
<1>1. TypeOK'
  BY DEF TypeOK, Plans, Exists, File
<1>2. TimesPast'
  BY DEF TypeOK, TimesPast, Exists, Times, File
<1>3. LockHeld' /\ JobKnows'
  BY PassFrame
<1>4. PlanKnows'
  BY DEF TypeOK, PlanKnows
<1>5. PreparedSound' /\ RowsPast' /\ PassRowsSound'
  BY DEF TypeOK, PreparedSound, RowsPast, PassRowsSound, Recorded, Exists
<1> QED
  BY <1>1, <1>2, <1>3, <1>4, <1>5

LEMMA PlanFileIInv == ASSUME IInv, NEW f \in Files, PlanFile(f) PROVE IInv'
<1> USE IndexerAssumption DEF IInv, PlanFile, Scanned, ghost
<1>1. /\ Planned(f) \in Plans
      /\ Planned(f) \in {"upsert", "check", "rewrite"} => seen[f] # None
      /\ Planned(f) = "check" => rows[f] # None
  BY DEF Planned, Verified, Plans
<1>2. TypeOK'
  BY <1>1 DEF TypeOK
<1>3. TimesPast'
  BY DEF TimesPast, Exists
<1>4. LockHeld' /\ JobKnows'
  BY PassFrame
<1>5. PlanKnows'
  BY <1>1 DEF TypeOK, PlanKnows
<1>6. PreparedSound' /\ RowsPast' /\ PassRowsSound'
  BY DEF PreparedSound, RowsPast, PassRowsSound, Recorded, Exists
<1> QED
  BY <1>2, <1>3, <1>4, <1>5, <1>6

LEMMA PlanUnreadableIInv == ASSUME IInv, NEW f \in Files, PlanUnreadable(f) PROVE IInv'
<1> USE IndexerAssumption DEF IInv, PlanUnreadable, Scanned, Fault
<1>1. TypeOK'
  <2>1. quiet' \in BOOLEAN
    OBVIOUS
  <2> QED
    BY <2>1 DEF TypeOK, Plans
<1>2. TimesPast'
  BY DEF TimesPast, Exists
<1>3. LockHeld' /\ JobKnows'
  BY PassFrame
<1>4. PlanKnows'
  BY DEF TypeOK, PlanKnows
<1>5. PreparedSound' /\ RowsPast' /\ PassRowsSound'
  BY DEF PreparedSound, RowsPast, PassRowsSound, Recorded, Exists
<1> QED
  BY <1>1, <1>2, <1>3, <1>4, <1>5

\* Nothing is prepared before apply starts: its stamp changes what a batch
\* would record.
LEMMA StartApplyIInv == ASSUME IInv, StartApply PROVE IInv'
<1> USE IndexerAssumption DEF IInv, StartApply, Scanned, ghost
<1>1. TypeOK'
  BY DEF TypeOK
<1>2. TimesPast'
  BY DEF TypeOK, TimesPast, Exists, Times
<1>3. LockHeld' /\ JobKnows'
  BY PassFrame
<1>4. PlanKnows'
  BY DEF PlanKnows
<1>5. PreparedSound' /\ RowsPast' /\ PassRowsSound'
  BY DEF PreparedSound, RowsPast, PassRowsSound, Exists
<1> QED
  BY <1>1, <1>2, <1>3, <1>4, <1>5

LEMMA NextPhaseIInv == ASSUME IInv, NextPhase PROVE IInv'
<1> USE IndexerAssumption DEF IInv, NextPhase, PhaseDone, Applying, ghost
<1>1. at' \in {"check", "rewrite", "delete"}
  OBVIOUS
<1>2. TypeOK'
  BY <1>1 DEF TypeOK
<1>3. TimesPast'
  BY DEF TimesPast, Exists
<1>4. LockHeld' /\ JobKnows'
  BY <1>1, PassFrame
<1>5. PlanKnows'
  BY <1>1 DEF PlanKnows
<1>6. PreparedSound' /\ RowsPast' /\ PassRowsSound'
  BY <1>1 DEF PreparedSound, RowsPast, PassRowsSound, Recorded, Exists
<1> QED
  BY <1>2, <1>3, <1>4, <1>5, <1>6

LEMMA PrepareFileIInv == ASSUME IInv, NEW f \in Files, PrepareFile(f) PROVE IInv'
<1> USE IndexerAssumption DEF IInv, PrepareFile, Batching, Due, ghost
<1>1. TypeOK'
  BY DEF TypeOK, Plans, Extracted
<1>2. TimesPast'
  BY DEF TimesPast, Exists
<1>3. LockHeld' /\ JobKnows'
  BY PassFrame
<1>4. PlanKnows'
  BY DEF TypeOK, PlanKnows
<1>5. PreparedSound'
  BY DEF TypeOK, PreparedSound, PlanKnows, Recorded, Exists
<1>6. RowsPast' /\ PassRowsSound'
  BY DEF TypeOK, RowsPast, PassRowsSound, Exists
<1> QED
  BY <1>1, <1>2, <1>3, <1>4, <1>5, <1>6

LEMMA CommitBatchIInv == ASSUME IInv, CommitBatch PROVE IInv'
<1> USE IndexerAssumption DEF IInv, CommitBatch, Batching, ghost
<1>1. \A f \in Files : prepared[f] # None =>
         /\ Recorded(f) \in -1..MaxTime /\ Recorded(f) < now
         /\ prepared[f] \in Texts
  BY RecordedPast DEF TypeOK, PreparedSound
<1>2. TypeOK'
  BY <1>1 DEF TypeOK, Snapshot
<1>3. TimesPast'
  BY DEF TimesPast, Exists
<1>4. LockHeld' /\ JobKnows'
  BY PassFrame
<1>5. PlanKnows'
  BY DEF TypeOK, PlanKnows, PreparedSound
<1>6. PreparedSound'
  BY DEF PreparedSound
<1>7. RowsPast'
  BY <1>1 DEF TypeOK, RowsPast
<1>8. PassRowsSound'
  BY <1>1 DEF TypeOK, PassRowsSound, PreparedSound, Exists
<1> QED
  BY <1>2, <1>3, <1>4, <1>5, <1>6, <1>7, <1>8

LEMMA CheckHashIInv == ASSUME IInv, NEW f \in Files, CheckHash(f) PROVE IInv'
<1> USE IndexerAssumption DEF IInv, CheckHash, Due, ghost
<1>1. /\ rows[f] \in Snapshot /\ seen[f] # None
      /\ Recorded(f) \in -1..MaxTime /\ Recorded(f) < now
  BY RecordedPast DEF TypeOK, PlanKnows
<1>2. TypeOK'
  BY <1>1 DEF TypeOK, Plans, Snapshot
<1>3. TimesPast'
  BY DEF TimesPast, Exists
<1>4. LockHeld' /\ JobKnows'
  BY PassFrame
<1>5. PlanKnows'
  BY <1>1 DEF TypeOK, PlanKnows, Snapshot
<1>6. PreparedSound'
  BY DEF TypeOK, PreparedSound, Recorded, Exists
<1>7. RowsPast'
  BY <1>1 DEF TypeOK, RowsPast, Snapshot
<1>8. PassRowsSound'
  BY <1>1 DEF TypeOK, PassRowsSound, Exists, Snapshot
<1> QED
  BY <1>2, <1>3, <1>4, <1>5, <1>6, <1>7, <1>8

LEMMA DeleteRowIInv == ASSUME IInv, NEW f \in Files, DeleteRow(f) PROVE IInv'
<1> USE IndexerAssumption DEF IInv, DeleteRow, Due, ghost
<1>1. TypeOK'
  BY DEF TypeOK, Plans
<1>2. TimesPast'
  BY DEF TimesPast, Exists
<1>3. LockHeld' /\ JobKnows'
  BY PassFrame
<1>4. PlanKnows'
  BY DEF TypeOK, PlanKnows
<1>5. PreparedSound'
  BY DEF PreparedSound, Recorded, Exists
<1>6. RowsPast' /\ PassRowsSound'
  BY DEF TypeOK, RowsPast, PassRowsSound, Exists
<1> QED
  BY <1>1, <1>2, <1>3, <1>4, <1>5, <1>6

\* A pass that ends, well or not, forgets its plan.
LEMMA AbortPassIInv ==
    ASSUME IInv, at # "idle", AbortPass, UNCHANGED faults \/ Fault
    PROVE  IInv'
<1> USE IndexerAssumption DEF IInv, AbortPass, NoPass, Fault
<1>1. TypeOK'
  <2>1. quiet' \in BOOLEAN
    OBVIOUS
  <2> QED
    BY <2>1 DEF TypeOK, Plans, Times
<1>2. TimesPast' /\ JobKnows'
  BY DEF TypeOK, TimesPast, JobKnows, Exists, Times
<1>3. LockHeld'
  BY DEF LockHeld, Workers
<1>4. PlanKnows'
  BY DEF PlanKnows
<1>5. PreparedSound' /\ RowsPast' /\ PassRowsSound'
  BY DEF PreparedSound, RowsPast, PassRowsSound, Exists
<1> QED
  BY <1>1, <1>2, <1>3, <1>4, <1>5

-----------------------------------------------------------------------------
(* The watcher and the page handler.  The pass does not move.               *)

\* A job that ends gives the lock back if it has it.
LEMMA JobDoneIInv ==
    ASSUME IInv, NEW w \in Workers, JobDone(w), UNCHANGED at
    PROVE  /\ job' \in [Workers -> Job] /\ lock' \in Workers \cup {"pass", "free"}
           /\ LockHeld' /\ JobKnows'
<1> USE IndexerAssumption DEF IInv, JobDone
<1>1. NoJob \in Job /\ NoJob.at = "idle"
  BY DEF NoJob, Job
<1>2. \A v \in Workers : job'[v] = IF v = w THEN NoJob ELSE job[v]
  BY DEF TypeOK
<1>3. job' \in [Workers -> Job] /\ lock' \in Workers \cup {"pass", "free"}
  BY <1>1 DEF TypeOK
<1>4. LockHeld'
  BY <1>1, <1>2 DEF TypeOK, LockHeld, Workers
<1>5. JobKnows'
  BY <1>1, <1>2 DEF TypeOK, JobKnows, Workers
<1> QED
  BY <1>3, <1>4, <1>5

\* What depends only on clock, files, rows and pass.
LEMMA JobFrame ==
    ASSUME IInv, UNCHANGED <<now, disk, rows, pass>>
    PROVE  TimesPast' /\ PlanKnows' /\ PreparedSound' /\ RowsPast' /\ PassRowsSound'
BY DEF IInv, pass, TimesPast, PlanKnows, PreparedSound, RowsPast, PassRowsSound,
       Recorded, Exists

LEMMA GateStatIInv == ASSUME IInv, NEW f \in Files, GateStat(f) PROVE IInv'
<1> USE IndexerAssumption DEF IInv, GateStat
<1> DEFINE m == IF Exists(f) THEN disk[f].mtime ELSE None
           j == [NoJob EXCEPT !.at = "gate", !.file = f, !.mtime = m]
<1>1. m \in Times \cup {None}
  BY DEF TypeOK, Exists, File
<1> HIDE DEF m
<1>2. j \in Job /\ j.at = "gate" /\ j.file = f
  BY <1>1 DEF NoJob, Job
<1>3. \A v \in Workers : job'[v] = IF v = "watcher" THEN j ELSE job[v]
  BY DEF TypeOK, Workers, m
<1> HIDE DEF j
<1>4. TypeOK'
  BY <1>2 DEF TypeOK, pass, ghost, Workers, j, m
<1>5. LockHeld' /\ JobKnows'
  BY <1>2, <1>3 DEF TypeOK, LockHeld, JobKnows, Workers, pass
<1> QED
  BY <1>4, <1>5, JobFrame

LEMMA GateReadIInv == ASSUME IInv, GateRead PROVE IInv'
<1> USE IndexerAssumption DEF IInv, GateRead
<1>1. CASE JobDone("watcher")
  BY <1>1, JobDoneIInv, JobFrame DEF TypeOK, pass, ghost, Workers
<1>2. CASE Goto("watcher", "lock") /\ UNCHANGED lock
  <2>1. TypeOK'
    BY <1>2 DEF TypeOK, pass, ghost, Workers, Goto, Job
  <2>2. LockHeld' /\ JobKnows'
    BY <1>2 DEF TypeOK, LockHeld, JobKnows, Workers, pass, Goto, Job
  <2> QED
    BY <2>1, <2>2, JobFrame
<1> QED
  BY <1>1, <1>2

LEMMA ArriveIInv ==
    ASSUME IInv, NEW f \in Files, NEW c \in Contents, Arrive(f, c) PROVE IInv'
<1> USE IndexerAssumption DEF IInv, Arrive, OneEdit
<1> DEFINE j == [NoJob EXCEPT !.at = "lock", !.file = f, !.bytes = c]
<1>1. j \in Job /\ j.at = "lock" /\ j.file = f /\ j.bytes = c
  BY DEF NoJob, Job
<1>2. \A v \in Workers : job'[v] = IF v = "handler" THEN j ELSE job[v]
  BY DEF TypeOK, Workers
<1> HIDE DEF j
<1>3. TypeOK'
  BY <1>1 DEF TypeOK, pass, ghost, Workers, j
<1>4. LockHeld' /\ JobKnows'
  BY <1>1, <1>2 DEF TypeOK, LockHeld, JobKnows, Workers, pass
<1> QED
  BY <1>3, <1>4, JobFrame

LEMMA LockCorpusIInv == ASSUME IInv, NEW w \in Workers, LockCorpus(w) PROVE IInv'
<1> USE IndexerAssumption DEF IInv, LockCorpus, Goto
<1>1. TypeOK'
  BY DEF TypeOK, pass, ghost, Workers, Job
<1>2. LockHeld'
  BY DEF TypeOK, LockHeld, Workers, pass, Job
<1>3. JobKnows'
  BY DEF TypeOK, JobKnows, Workers, Job
<1> QED
  BY <1>1, <1>2, <1>3, JobFrame

LEMMA WritePageIInv == ASSUME IInv, WritePage PROVE IInv'
<1> USE IndexerAssumption DEF IInv
<1> DEFINE f == job["handler"].file
           file == [content |-> job["handler"].bytes, mtime |-> now]
<1>1. f \in Files /\ file \in File /\ file.mtime = now
  BY DEF WritePage, TypeOK, JobKnows, File, Workers
<1>2. Change(f, file) /\ UNCHANGED edits
  BY DEF WritePage
<1>3. \/ JobDone("handler")
      \/ UNCHANGED lock /\ \E place \in {"stat", "prune"} : Goto("handler", place)
  BY DEF WritePage
<1> HIDE DEF f, file
<1>4. /\ disk' \in [Files -> File \cup {None}] /\ events' \subseteq Files /\ quiet' \in BOOLEAN
      /\ TimesPast' /\ PlanKnows' /\ PreparedSound' /\ RowsPast' /\ PassRowsSound'
  BY <1>1, <1>2, ChangeIInv
<1>5. /\ job' \in [Workers -> Job] /\ lock' \in Workers \cup {"pass", "free"}
      /\ LockHeld' /\ JobKnows'
  <2>1. CASE JobDone("handler")
    BY <1>2, <2>1, JobDoneIInv DEF Change, pass, Workers
  <2>2. ASSUME UNCHANGED lock, NEW place \in {"stat", "prune"}, Goto("handler", place)
        PROVE  /\ job' \in [Workers -> Job] /\ lock' \in Workers \cup {"pass", "free"}
               /\ LockHeld' /\ JobKnows'
    <3>1. job["handler"].at = "write"
      BY DEF WritePage
    <3>2. job' \in [Workers -> Job]
      BY <2>2 DEF Goto, TypeOK, Workers, Job
    <3>3. LockHeld' /\ JobKnows'
      BY <1>2, <2>2, <3>1 DEF Goto, TypeOK, LockHeld, JobKnows, Change, pass, Workers, Job
    <3> QED
      BY <2>2, <3>2, <3>3 DEF TypeOK
  <2> QED
    BY <1>3, <2>1, <2>2
<1> QED
  BY <1>2, <1>4, <1>5 DEF TypeOK, Change, pass

LEMMA RefusePageIInv == ASSUME IInv, RefusePage PROVE IInv'
<1>1. /\ job' \in [Workers -> Job] /\ lock' \in Workers \cup {"pass", "free"}
      /\ LockHeld' /\ JobKnows'
  BY JobDoneIInv DEF RefusePage, pass, Workers
<1> QED
  BY <1>1, JobFrame DEF IInv, RefusePage, TypeOK, pass, ghost

LEMMA StatPageIInv == ASSUME IInv, StatPage PROVE IInv'
<1> USE IndexerAssumption DEF IInv, StatPage
<1> DEFINE f == job["handler"].file
<1>1. f \in Files
  BY DEF JobKnows, Workers
<1>2. CASE JobDone("handler")
  BY <1>2, JobDoneIInv, JobFrame DEF TypeOK, pass, ghost, Workers
<1>3. CASE /\ Exists(f) /\ UNCHANGED lock
           /\ job' = [job EXCEPT !["handler"].at = "plan", !["handler"].mtime = disk[f].mtime]
  <2>1. disk[f].mtime \in Times
    BY <1>1, <1>3 DEF TypeOK, Exists, File
  <2>2. TypeOK'
    BY <1>3, <2>1 DEF TypeOK, pass, ghost, Workers, Job
  <2>3. LockHeld' /\ JobKnows'
    BY <1>3, <2>1 DEF TypeOK, LockHeld, JobKnows, Workers, pass, Job
  <2> QED
    BY <2>2, <2>3, JobFrame
<1> QED
  BY <1>2, <1>3

\* A job under the lock changes one row: no pass is running, and the new row
\* is not a pass's.
LEMMA RowChange ==
    ASSUME IInv, NEW w \in Workers, lock = w, NEW f \in Files, NEW row,
           row = None \/ (row \in Snapshot /\ row.by = "file"),
           rows' = [rows EXCEPT ![f] = row],
           UNCHANGED <<now, disk, pass>>
    PROVE  /\ rows' \in [Files -> Snapshot \cup {None}]
           /\ TimesPast' /\ PlanKnows' /\ PreparedSound' /\ RowsPast' /\ PassRowsSound'
<1> USE IndexerAssumption DEF IInv, pass
<1>1. at = "idle"
  BY DEF LockHeld, Workers
<1>2. rows' \in [Files -> Snapshot \cup {None}]
  BY DEF TypeOK
<1>3. TimesPast'
  BY DEF TimesPast, Exists
<1>4. PlanKnows' /\ PreparedSound'
  BY <1>1 DEF PlanKnows, PreparedSound
<1>5. RowsPast' /\ PassRowsSound'
  BY DEF TypeOK, RowsPast, PassRowsSound, Exists
<1> QED
  BY <1>2, <1>3, <1>4, <1>5

LEMMA PrunePageIInv == ASSUME IInv, PrunePage PROVE IInv'
<1>1. job["handler"].file \in Files /\ lock = "handler"
  BY DEF IInv, PrunePage, JobKnows, LockHeld, Workers
<1>2. /\ rows' \in [Files -> Snapshot \cup {None}]
      /\ TimesPast' /\ PlanKnows' /\ PreparedSound' /\ RowsPast' /\ PassRowsSound'
  BY <1>1, RowChange DEF PrunePage, Workers
<1>3. /\ job' \in [Workers -> Job] /\ lock' \in Workers \cup {"pass", "free"}
      /\ LockHeld' /\ JobKnows'
  BY JobDoneIInv DEF PrunePage, pass, Workers
<1> QED
  BY <1>2, <1>3 DEF IInv, PrunePage, TypeOK, pass, ghost

\* A job with the bytes and the mtime of its file.
LEMMA GatheredJob ==
    ASSUME NEW j \in Job, NEW c \in Contents, NEW m \in Times
    PROVE  [j EXCEPT !.at = "plan", !.bytes = c, !.mtime = m] \in Job
BY DEF Job

LEMMA WatcherReadIInv == ASSUME IInv, WatcherRead PROVE IInv'
<1> USE IndexerAssumption DEF IInv, WatcherRead
<1> DEFINE f == job["watcher"].file
<1>1. f \in Files /\ lock = "watcher"
  BY DEF JobKnows, LockHeld, Workers
<1>2. CASE /\ Exists(f) /\ UNCHANGED <<rows, lock>>
           /\ job' = [job EXCEPT !["watcher"].at = "plan",
                                 !["watcher"].bytes = disk[f].content,
                                 !["watcher"].mtime = disk[f].mtime]
  <2>1. disk[f].mtime \in Times /\ disk[f].content \in Contents
    BY <1>1, <1>2 DEF TypeOK, Exists, File
  <2> DEFINE j == [job["watcher"] EXCEPT !.at = "plan", !.bytes = disk[f].content,
                                         !.mtime = disk[f].mtime]
  <2>2. job["watcher"] \in Job
    BY DEF TypeOK, Workers
  <2>3. j \in Job
    BY <2>1, <2>2, GatheredJob
  <2>4. job' = [job EXCEPT !["watcher"] = j]
    BY <1>2 DEF TypeOK, Workers, Job
  <2> HIDE DEF j
  <2>5. job' \in [Workers -> Job]
    BY <2>3, <2>4 DEF TypeOK
  <2>6. TypeOK'
    BY <1>2, <2>5 DEF TypeOK, pass, ghost
  <2>7. LockHeld' /\ JobKnows'
    BY <1>2, <2>1 DEF TypeOK, LockHeld, JobKnows, Workers, pass, Job
  <2> QED
    BY <1>2, <2>6, <2>7, JobFrame
<1>3. CASE rows' = [rows EXCEPT ![f] = None] /\ JobDone("watcher")
  <2>1. /\ rows' \in [Files -> Snapshot \cup {None}]
        /\ TimesPast' /\ PlanKnows' /\ PreparedSound' /\ RowsPast' /\ PassRowsSound'
    BY <1>1, <1>3, RowChange DEF Workers
  <2>2. /\ job' \in [Workers -> Job] /\ lock' \in Workers \cup {"pass", "free"}
        /\ LockHeld' /\ JobKnows'
    BY <1>3, JobDoneIInv DEF Workers, pass
  <2> QED
    BY <2>1, <2>2 DEF TypeOK, pass, ghost
<1> QED
  BY <1>2, <1>3

LEMMA IndexFileIInv == ASSUME IInv, NEW w \in Workers, IndexFile(w) PROVE IInv'
<1> USE IndexerAssumption DEF IInv
<1> DEFINE f == job[w].file
           row == [hash |-> job[w].bytes, mtime |-> smudge_racy_mtime(job[w].mtime, now),
                   by |-> "file"]
<1>1. f \in Files /\ lock = w
  BY DEF IndexFile, JobKnows, LockHeld, Workers
<1>2. /\ job' \in [Workers -> Job] /\ lock' \in Workers \cup {"pass", "free"}
      /\ LockHeld' /\ JobKnows'
  BY JobDoneIInv DEF IndexFile, pass
<1>3. job[w].bytes \in Texts => row \in Snapshot /\ row.by = "file"
  BY DEF IndexFile, TypeOK, JobKnows, Snapshot, smudge_racy_mtime, Times
<1>4. \/ UNCHANGED rows
      \/ rows' = [rows EXCEPT ![f] = None]
      \/ job[w].bytes \in Texts /\ rows' = [rows EXCEPT ![f] = row]
  BY DEF IndexFile, Extracted, NoChunks
<1> HIDE DEF row, f
<1>5. /\ rows' \in [Files -> Snapshot \cup {None}]
      /\ TimesPast' /\ PlanKnows' /\ PreparedSound' /\ RowsPast' /\ PassRowsSound'
  <2>1. CASE UNCHANGED rows
    BY <2>1, JobFrame DEF IndexFile, TypeOK
  <2>2. CASE rows' = [rows EXCEPT ![f] = None]
    BY <2>2, <1>1, RowChange DEF IndexFile
  <2>3. CASE job[w].bytes \in Texts /\ rows' = [rows EXCEPT ![f] = row]
    BY <2>3, <1>1, <1>3, RowChange DEF IndexFile
  <2> QED
    BY <1>4, <2>1, <2>2, <2>3
<1> QED
  BY <1>2, <1>5 DEF IndexFile, TypeOK, pass, ghost

LEMMA FailJobIInv == ASSUME IInv, NEW w \in Workers, FailJob(w) PROVE IInv'
<1>1. /\ job' \in [Workers -> Job] /\ lock' \in Workers \cup {"pass", "free"}
      /\ LockHeld' /\ JobKnows'
  BY JobDoneIInv DEF FailJob, pass
<1> QED
  BY <1>1, JobFrame, IndexerAssumption DEF IInv, FailJob, Fault, TypeOK, pass, ghost

-----------------------------------------------------------------------------
LEMMA NextIInv == IInv /\ [Next]_vars => IInv'
<1> SUFFICES ASSUME IInv, [Next]_vars PROVE IInv'
  OBVIOUS
<1>1. CASE Tick
  BY <1>1, TickIInv
<1>2. ASSUME NEW f \in Files, Remove(f) \/ GateStat(f) \/ PlanUnreadable(f) PROVE IInv'
  BY <1>2, RemoveIInv, GateStatIInv, PlanUnreadableIInv
<1>3. ASSUME NEW f \in Files, NEW c \in Contents, Edit(f, c) \/ Arrive(f, c) PROVE IInv'
  BY <1>3, EditIInv, ArriveIInv
<1>4. CASE PassStep
  <2>1. ASSUME NEW f \in Files, FileStep(f) PROVE IInv'
    BY <2>1, ScanIInv, PlanFileIInv, PrepareFileIInv, CheckHashIInv, DeleteRowIInv
       DEF FileStep
  <2>2. CASE ReadVanished
    BY <2>2, AbortPassIInv DEF ReadVanished
  <2>3. CASE EndPass
    BY <2>3, AbortPassIInv DEF EndPass
  <2>4. CASE BeginPass \/ StartApply \/ NextPhase \/ CommitBatch
    BY <2>4, BeginPassIInv, StartApplyIInv, NextPhaseIInv, CommitBatchIInv
  <2> QED
    BY <1>4, <2>1, <2>2, <2>3, <2>4 DEF PassStep
<1>5. CASE FailPass
  BY <1>5, AbortPassIInv DEF FailPass
<1>6. CASE WatcherStep \/ HandlerStep
  BY <1>6, GateReadIInv, WatcherReadIInv, WritePageIInv, RefusePageIInv, PrunePageIInv,
     StatPageIInv, IndexFileIInv
     DEF WatcherStep, HandlerStep, Workers
<1>7. ASSUME NEW w \in Workers, LockCorpus(w) \/ FailJob(w) PROVE IInv'
  BY <1>7, LockCorpusIInv, FailJobIInv
<1>8. CASE UNCHANGED vars
  <2>1. TypeOK' /\ LockHeld' /\ JobKnows'
    BY <1>8 DEF IInv, vars, pass, ghost, TypeOK, LockHeld, JobKnows
  <2> QED
    BY <1>8, <2>1, JobFrame DEF IInv, vars
<1> QED
  BY <1>1, <1>2, <1>3, <1>4, <1>5, <1>6, <1>7, <1>8 DEF Next

\* The inductive invariant holds of every behaviour.
THEOREM Invariance == Spec => []IInv
BY InitIInv, NextIInv, PTL DEF Spec

\* Type correctness: only extracted text becomes a row, and every recorded
\* mtime is a time or the one before the first.
THEOREM TypeCorrect == Spec => []TypeOK
<1>1. IInv => TypeOK
  BY DEF IInv
<1> QED
  BY <1>1, Invariance, PTL

\* A row written by a pass never passes for a file it does not describe
\* (smudge_racy_mtime and the order of stamp and reads in apply_with_lane),
\* for any number of files, edits and milliseconds.
THEOREM PassRowsAlwaysSound == Spec => []PassRowsSound
<1>1. IInv => PassRowsSound
  BY DEF IInv
<1> QED
  BY <1>1, Invariance, PTL

-----------------------------------------------------------------------------
(* A pass that nothing disturbs.                                           *)

\* A file waits for its phase, and what is prepared is in the batch.
PhaseOrder ==
    \A f \in Files :
        /\ plan[f] \in {"todo", "scanned"} => at = "scan"
        /\ plan[f] = "upsert" => at \in {"scan", "upsert"}
        /\ plan[f] = "check" => at \in {"scan", "upsert", "check"}
        /\ plan[f] = "rewrite" => at \in {"scan", "upsert", "check", "rewrite"}
        /\ prepared[f] # None => f \in chunk

\* What PassConverges asks of one file.
Converged(f) ==
    /\ Agrees(f)
    /\ f \in kept /\ Exists(f) /\ disk[f].content = "bad" => rows[f] # None

\* What the pass has decided about a file, while its scan is still true.
OnTrack(f) ==
    /\ plan[f] # "todo" => seen[f] = IF Exists(f) THEN disk[f].mtime ELSE None
    /\ plan[f] \in {"todo", "scanned", "upsert"} => (f \in kept <=> rows[f] # None)
    /\ plan[f] = "upsert" => Exists(f) /\ rows[f] = None
    /\ plan[f] \in {"check", "rewrite"} => Exists(f) /\ rows[f] # None
    /\ plan[f] = "delete" => ~Exists(f)
    /\ plan[f] = "skip" /\ prepared[f] = None => Converged(f)
    /\ prepared[f] # None => Exists(f) /\ prepared[f] = disk[f].content

QuietPass == quiet => at # "idle" /\ \A f \in Files : OnTrack(f)

QInv == PhaseOrder /\ QuietPass

LEMMA InitQInv == Init => QInv
BY DEF Init, QInv, PhaseOrder, QuietPass

\* Steps of the clock and of the jobs that leave files, rows and pass alone.
LEMMA QuietFrame ==
    ASSUME QInv, UNCHANGED <<disk, rows, pass, ghost>>
    PROVE  QInv'
BY DEF QInv, PhaseOrder, QuietPass, OnTrack, Converged, Agrees, Exists, pass, ghost

\* A change of a file ends the quiet; the plan is not touched.
LEMMA QuietChange ==
    ASSUME QInv, NEW f, NEW file, Change(f, file)
    PROVE  QInv'
BY DEF QInv, PhaseOrder, QuietPass, Change, pass

\* No job changes a row while a pass runs: it would hold the corpus lock.
LEMMA QuietJob ==
    ASSUME IInv, QInv, NEW w \in Workers, lock = w, UNCHANGED <<pass, ghost>>
    PROVE  QInv'
BY DEF IInv, LockHeld, QInv, PhaseOrder, QuietPass, pass, ghost, Workers

LEMMA BeginPassQInv == ASSUME IInv, QInv, BeginPass PROVE QInv'
<1> USE DEF IInv, BeginPass
<1>1. \A f \in Files : plan'[f] = "todo" /\ prepared'[f] = None
  BY DEF PreparedSound
<1>2. PhaseOrder'
  BY <1>1 DEF PhaseOrder
<1>3. QuietPass'
  BY <1>1 DEF QuietPass, OnTrack
<1> QED
  BY <1>2, <1>3 DEF QInv

\* A step that moves the plan of one file: that file has to be on track after
\* it, the others stay where they were.
LEMMA QuietFileStep ==
    ASSUME QInv, NEW f \in Files,
           UNCHANGED <<disk, ghost>>, at' = at, at # "idle",
           \A g \in Files \ {f} :
              /\ plan'[g] = plan[g] /\ seen'[g] = seen[g]
              /\ rows'[g] = rows[g] /\ prepared'[g] = prepared[g],
           chunk \subseteq chunk',
           /\ plan'[f] \in {"todo", "scanned"} => at = "scan"
           /\ plan'[f] = "upsert" => at \in {"scan", "upsert"}
           /\ plan'[f] = "check" => at \in {"scan", "upsert", "check"}
           /\ plan'[f] = "rewrite" => at \in {"scan", "upsert", "check", "rewrite"}
           /\ prepared'[f] # None => f \in chunk',
           quiet => OnTrack(f)'
    PROVE  QInv'
<1>1. PhaseOrder'
  BY DEF QInv, PhaseOrder
<1>2. QuietPass'
  <2> SUFFICES ASSUME quiet, NEW g \in Files PROVE OnTrack(g)'
    BY DEF QuietPass, ghost
  <2>1. CASE g = f
    BY <2>1
  <2>2. CASE g # f
    BY <2>2 DEF QInv, QuietPass, OnTrack, Converged, Agrees, Exists, ghost
  <2> QED
    BY <2>1, <2>2
<1> QED
  BY <1>1, <1>2 DEF QInv

LEMMA ScanQInv == ASSUME IInv, QInv, NEW f \in Files, Scan(f) PROVE QInv'
<1> USE DEF Scan
<1>1. /\ plan'[f] = "scanned" /\ seen'[f] = IF Exists(f) THEN disk[f].mtime ELSE None
      /\ prepared[f] = None
  BY DEF IInv, TypeOK, PreparedSound
<1>2. quiet => OnTrack(f)'
  BY <1>1 DEF QInv, QuietPass, OnTrack, Exists, ghost
<1>3. \A g \in Files \ {f} : plan'[g] = plan[g] /\ seen'[g] = seen[g]
  BY DEF IInv, TypeOK
<1> QED
  BY <1>1, <1>2, <1>3, QuietFileStep

LEMMA PlanFileQInv == ASSUME IInv, QInv, NEW f \in Files, PlanFile(f) PROVE QInv'
<1> USE DEF PlanFile, Scanned
<1>1. plan'[f] = Planned(f) /\ prepared[f] = None
  BY DEF IInv, TypeOK, PreparedSound
<1>2. Planned(f) \in {"skip", "delete", "upsert", "check", "rewrite"}
  BY DEF Planned, Verified
<1>3. ASSUME quiet PROVE OnTrack(f)'
  <2>1. /\ seen[f] = IF Exists(f) THEN disk[f].mtime ELSE None
        /\ f \in kept <=> rows[f] # None
    BY <1>3 DEF QInv, QuietPass, OnTrack
  <2>2. Exists(f) => seen[f] # None
    BY <2>1, IndexerAssumption DEF IInv, TypeOK, Exists, File, Times
  <2>3. rows[f] # None => rows[f].hash \in Texts
    BY DEF IInv, TypeOK, Snapshot
  <2>4. Planned(f) = "skip" => Converged(f)
    BY <2>1, <2>2, <2>3, IndexerAssumption DEF Planned, Verified, Converged, Agrees, Exists
  <2>5. Planned(f) \in {"upsert", "check", "rewrite"} => Exists(f)
    BY <2>1 DEF Planned, Verified
  <2>6. Planned(f) \in {"check", "rewrite"} => rows[f] # None
    BY DEF Planned, Verified
  <2>7. Planned(f) = "upsert" => rows[f] = None
    BY DEF Planned, Verified
  <2>8. Planned(f) = "delete" => ~Exists(f)
    BY <2>2 DEF Planned, Verified
  <2> QED
    BY <1>1, <1>2, <2>1, <2>4, <2>5, <2>6, <2>7, <2>8
       DEF OnTrack, Converged, Agrees, Exists, ghost
<1>4. \A g \in Files \ {f} : plan'[g] = plan[g]
  BY DEF IInv, TypeOK
<1> QED
  BY <1>1, <1>2, <1>3, <1>4, QuietFileStep

LEMMA PlanUnreadableQInv ==
    ASSUME IInv, QInv, NEW f \in Files, PlanUnreadable(f) PROVE QInv'
BY DEF IInv, TypeOK, QInv, PhaseOrder, QuietPass, PlanUnreadable

\* The phases change only when no file waits for the one that ends.
LEMMA PhaseQInv == ASSUME IInv, QInv, StartApply \/ NextPhase PROVE QInv'
<1>1. /\ \A f \in Files : plan[f] \notin {"todo", "scanned"}
      /\ UNCHANGED <<disk, rows, plan, seen, chunk, prepared, ghost>>
      /\ at' \in {"upsert", "check", "rewrite", "delete"}
      /\ \/ at = "scan" /\ at' = "upsert"
         \/ /\ \A f \in Files : plan[f] # at
            /\ \/ at = "upsert" /\ at' = "check"
               \/ at = "check" /\ at' = "rewrite"
               \/ at = "rewrite" /\ at' = "delete"
  <2>1. CASE StartApply
    BY <2>1 DEF StartApply, Scanned
  <2>2. CASE NextPhase
    BY <2>2 DEF NextPhase, PhaseDone, Due, Applying, QInv, PhaseOrder
  <2> QED
    BY <2>1, <2>2
<1>2. PhaseOrder'
  BY <1>1 DEF QInv, PhaseOrder
<1>3. QuietPass'
  BY <1>1 DEF QInv, QuietPass, OnTrack, Converged, Agrees, Exists, ghost
<1> QED
  BY <1>2, <1>3 DEF QInv

LEMMA PrepareFileQInv == ASSUME IInv, QInv, NEW f \in Files, PrepareFile(f) PROVE QInv'
<1> USE DEF PrepareFile, Batching, Due
<1>1. plan'[f] = "skip" /\ f \in chunk' /\ prepared[f] = None
  BY DEF IInv, TypeOK, PreparedSound
<1>2. /\ disk[f].content \in Contents
      /\ \/ /\ disk[f].content \in Texts
            /\ prepared'[f] = disk[f].content /\ rows'[f] = rows[f]
         \/ disk[f].content = "empty" /\ prepared'[f] = None /\ rows'[f] = None
         \/ disk[f].content = "bad" /\ prepared'[f] = None /\ rows'[f] = rows[f]
  BY <1>1 DEF IInv, TypeOK, Exists, File, Contents, Extracted, NoChunks
<1>3. ASSUME quiet PROVE OnTrack(f)'
  <2>1. /\ seen[f] = IF Exists(f) THEN disk[f].mtime ELSE None
        /\ plan[f] = "upsert" => ~(f \in kept)
        /\ plan[f] = "rewrite" => rows[f] # None
    BY <1>3 DEF QInv, QuietPass, OnTrack
  <2>2. prepared'[f] = None => Converged(f)'
    BY <1>2, <2>1, IndexerAssumption
       DEF Converged, Agrees, Exists, ghost, Contents
  <2>3. prepared'[f] # None => Exists(f) /\ prepared'[f] = disk[f].content
    BY <1>2
  <2> QED
    BY <1>1, <2>1, <2>2, <2>3 DEF OnTrack, Exists
<1>4. \A g \in Files \ {f} :
         plan'[g] = plan[g] /\ rows'[g] = rows[g] /\ prepared'[g] = prepared[g]
  BY DEF IInv, TypeOK
<1>5. QED
  BY <1>1, <1>3, <1>4, QuietFileStep

\* What was prepared becomes the row, whatever it was before.
LEMMA CommitBatchQInv == ASSUME IInv, QInv, CommitBatch PROVE QInv'
<1> USE DEF CommitBatch, Batching
<1>1. PhaseOrder'
  BY DEF QInv, PhaseOrder
<1>2. QuietPass'
  <2> SUFFICES ASSUME quiet, NEW f \in Files PROVE OnTrack(f)'
    BY DEF QuietPass, ghost
  <2>1. OnTrack(f)
    BY DEF QInv, QuietPass
  <2>2. prepared'[f] = None
    OBVIOUS
  <2>3. CASE prepared[f] = None
    <3>1. rows'[f] = rows[f]
      BY <2>3
    <3> QED
      BY <2>1, <2>2, <2>3, <3>1 DEF OnTrack, Converged, Agrees, Exists, ghost
  <2>4. CASE prepared[f] # None
    <3>1. /\ rows'[f] = [hash |-> prepared[f], mtime |-> Recorded(f), by |-> "pass"]
          /\ plan[f] = "skip" /\ prepared[f] \in Texts
      BY <2>4 DEF IInv, TypeOK, PreparedSound
    <3>2. rows'[f] \in [hash : Texts, mtime : Int, by : {"pass"}] /\ rows'[f].hash = prepared[f]
      BY <2>4, <3>1, RecordedPast DEF IInv, PreparedSound
    <3>3. rows'[f] # None
      BY <2>4, <3>1, RecordedPast, NoneAssumption DEF IInv, PreparedSound, Snapshot
    <3>4. Converged(f)'
      BY <2>1, <2>4, <3>1, <3>2, <3>3, IndexerAssumption
         DEF OnTrack, Converged, Agrees, Exists, ghost
    <3> QED
      BY <2>1, <2>2, <3>1, <3>4 DEF OnTrack, Exists, ghost
  <2> QED
    BY <2>3, <2>4
<1> QED
  BY <1>1, <1>2 DEF QInv

LEMMA CheckHashQInv == ASSUME IInv, QInv, NEW f \in Files, CheckHash(f) PROVE QInv'
<1> USE DEF CheckHash, Due
<1>1. /\ rows[f] \in Snapshot /\ prepared[f] = None
      /\ rows[f].hash \in Texts
  BY DEF IInv, TypeOK, PlanKnows, PreparedSound, Snapshot
<1>2. \/ /\ plan'[f] = "skip" /\ disk[f].content = rows[f].hash
         /\ rows'[f].hash = rows[f].hash /\ rows'[f] # None
      \/ plan'[f] = "rewrite" /\ rows'[f] = rows[f]
  <2>1. CASE disk[f].content = rows[f].hash
    <3>1. rows'[f] = [rows[f] EXCEPT !.mtime = Recorded(f), !.by = "pass"] /\ plan'[f] = "skip"
      BY <2>1, <1>1 DEF IInv, TypeOK, Snapshot
    <3>2. Recorded(f) \in -1..MaxTime
      BY RecordedPast DEF IInv, PlanKnows
    <3>3. rows'[f] \in Snapshot /\ rows'[f].hash = rows[f].hash
      BY <1>1, <3>1, <3>2 DEF Snapshot
    <3> QED
      BY <2>1, <3>1, <3>3, NoneAssumption
  <2>2. CASE disk[f].content # rows[f].hash
    BY <2>2 DEF IInv, TypeOK
  <2> QED
    BY <2>1, <2>2
<1>3. ASSUME quiet PROVE OnTrack(f)'
  <2>1. /\ seen[f] = IF Exists(f) THEN disk[f].mtime ELSE None
        /\ rows[f] # None
    BY <1>3 DEF QInv, QuietPass, OnTrack
  <2>2. plan'[f] = "skip" => Converged(f)'
    BY <1>1, <1>2, IndexerAssumption DEF Converged, Agrees, Exists, ghost
  <2> QED
    BY <1>1, <1>2, <2>1, <2>2 DEF OnTrack, Exists, ghost
<1>4. \A g \in Files \ {f} : plan'[g] = plan[g] /\ rows'[g] = rows[g]
  BY DEF IInv, TypeOK
<1> QED
  BY <1>1, <1>2, <1>3, <1>4, QuietFileStep

LEMMA DeleteRowQInv == ASSUME IInv, QInv, NEW f \in Files, DeleteRow(f) PROVE QInv'
<1> USE DEF DeleteRow, Due
<1>1. plan'[f] = "skip" /\ rows'[f] = None
  BY DEF IInv, TypeOK
<1>2. \A g \in Files \ {f} : plan'[g] = plan[g] /\ rows'[g] = rows[g]
  BY DEF IInv, TypeOK
<1>3. quiet => OnTrack(f)'
  BY <1>1 DEF QInv, QuietPass, OnTrack, Converged, Agrees, Exists, ghost
<1>4. prepared[f] # None => f \in chunk
  BY DEF QInv, PhaseOrder
<1> QED
  BY <1>1, <1>2, <1>3, <1>4, QuietFileStep

\* No pass, no promise.
LEMMA AbortPassQInv == ASSUME QInv, AbortPass PROVE QInv'
BY DEF QInv, PhaseOrder, QuietPass, AbortPass, NoPass

LEMMA NextQInv == ASSUME IInv, QInv, [Next]_vars PROVE QInv'
<1>1. CASE Tick
  BY <1>1, QuietFrame DEF Tick
<1>2. ASSUME NEW f \in Files, Remove(f) \/ GateStat(f) \/ PlanUnreadable(f) PROVE QInv'
  BY <1>2, QuietChange, QuietFrame, PlanUnreadableQInv DEF Remove, GateStat
<1>3. ASSUME NEW f \in Files, NEW c \in Contents, Edit(f, c) \/ Arrive(f, c) PROVE QInv'
  BY <1>3, QuietChange, QuietFrame DEF Edit, Arrive
<1>4. CASE PassStep
  <2>1. ASSUME NEW f \in Files, FileStep(f) PROVE QInv'
    BY <2>1, ScanQInv, PlanFileQInv, PrepareFileQInv, CheckHashQInv, DeleteRowQInv
       DEF FileStep
  <2>2. CASE ReadVanished \/ EndPass
    BY <2>2, AbortPassQInv DEF ReadVanished, EndPass
  <2>3. CASE BeginPass \/ StartApply \/ NextPhase \/ CommitBatch
    BY <2>3, BeginPassQInv, PhaseQInv, CommitBatchQInv
  <2> QED
    BY <1>4, <2>1, <2>2, <2>3 DEF PassStep
<1>5. CASE FailPass
  BY <1>5, AbortPassQInv DEF FailPass
<1>6. CASE WatcherStep \/ HandlerStep
  <2>1. CASE WritePage
    BY <2>1, QuietChange DEF WritePage
  <2>2. CASE GateRead \/ RefusePage \/ StatPage
    BY <2>2, QuietFrame DEF GateRead, RefusePage, StatPage
  <2>3. CASE WatcherRead
    BY <2>3, QuietJob DEF WatcherRead, IInv, LockHeld, Workers
  <2>4. CASE PrunePage
    BY <2>4, QuietJob DEF PrunePage, IInv, LockHeld, Workers
  <2>5. ASSUME NEW w \in Workers, IndexFile(w) PROVE QInv'
    BY <2>5, QuietJob DEF IndexFile, IInv, LockHeld
  <2> QED
    BY <1>6, <2>1, <2>2, <2>3, <2>4, <2>5 DEF WatcherStep, HandlerStep, Workers
<1>7. ASSUME NEW w \in Workers, LockCorpus(w) \/ FailJob(w) PROVE QInv'
  BY <1>7, QuietFrame DEF LockCorpus, FailJob
<1>8. CASE UNCHANGED vars
  BY <1>8, QuietFrame DEF vars
<1> QED
  BY <1>1, <1>2, <1>3, <1>4, <1>5, <1>6, <1>7, <1>8 DEF Next

\* Where a pass ends without a fault every file has been dealt with.
LEMMA EndConverges ==
    ASSUME IInv, QInv, [Next]_vars,
           at = "delete", at' = "idle", quiet, faults' = faults
    PROVE  \A f \in Files : Converged(f)
<1>1. EndPass
  <2>1. at' # at
    OBVIOUS
  <2>2. ~FailPass
    BY DEF FailPass, Fault, IInv, TypeOK
  <2>3. \A f \in Files : ~FileStep(f)
    BY <2>1 DEF FileStep, Scan, PlanFile, PrepareFile, CheckHash, DeleteRow
  <2>4. ~BeginPass /\ ~StartApply /\ ~NextPhase /\ ~CommitBatch /\ ~ReadVanished
    BY <2>1 DEF BeginPass, StartApply, Scanned, NextPhase, CommitBatch, ReadVanished
  <2>5. \A f \in Files : ~Remove(f) /\ ~GateStat(f) /\ ~PlanUnreadable(f)
    BY <2>1 DEF Remove, Change, GateStat, PlanUnreadable, pass
  <2>6. \A f \in Files, c \in Contents : ~Edit(f, c) /\ ~Arrive(f, c)
    BY <2>1 DEF Edit, Change, Arrive, pass
  <2>7. ~WatcherStep /\ ~HandlerStep
    BY <2>1 DEF WatcherStep, HandlerStep, GateRead, WatcherRead, IndexFile, WritePage,
                RefusePage, PrunePage, StatPage, Change, pass
  <2>8. \A w \in Workers : ~LockCorpus(w) /\ ~FailJob(w)
    BY <2>1 DEF LockCorpus, FailJob, pass
  <2>9. ~Tick /\ ~UNCHANGED vars
    BY <2>1 DEF Tick, vars, pass
  <2> QED
    BY <2>2, <2>3, <2>4, <2>5, <2>6, <2>7, <2>8, <2>9 DEF Next, PassStep
<1>2. chunk = {} /\ \A f \in Files : plan[f] # "delete"
  BY <1>1 DEF EndPass, PhaseDone, Due, Applying
<1>3. \A f \in Files : plan[f] = "skip" /\ prepared[f] = None
  BY <1>2 DEF QInv, PhaseOrder, IInv, TypeOK, Plans
<1> QED
  BY <1>3 DEF QInv, QuietPass, OnTrack

\* A pass that completes undisturbed leaves the index in agreement with the
\* corpus and evicts no row of a file it could not extract (plan and the
\* phases of apply_with_lane), for any number of files and any batch size.
THEOREM PassAlwaysConverges == Spec => PassConverges
<1>1. IInv /\ QInv /\ [Next]_vars => QInv'
  BY NextQInv
<1>2. IInv /\ QInv /\ [Next]_vars =>
         [at = "delete" /\ at' = "idle" /\ quiet /\ faults' = faults
            => \A f \in Files : /\ Agrees(f)
                                /\ f \in kept /\ Exists(f) /\ disk[f].content = "bad"
                                      => rows[f] # None]_vars
  BY EndConverges DEF Converged
<1> QED
  BY <1>1, <1>2, InitQInv, Invariance, PTL DEF Spec, PassConverges
=============================================================================
