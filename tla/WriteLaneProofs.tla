--------------------------- MODULE WriteLaneProofs ---------------------------
(***************************************************************************)
(* Proofs about WriteLane, for any writers, lock keys, thresholds and      *)
(* bounds.  NoWaitOnDebt and NeverRefusedUnmaintained are not inductive:   *)
(* the strengthening says that nobody owns a lock before the gate and that *)
(* nobody blocks on debt without a maintenance loop.                       *)
(***************************************************************************)
EXTENDS WriteLane, TLAPS

\* A writer that has not passed the debt gate owns no corpus lock.
LocksAfterGate ==
    \A p \in Writers :
       pc[p] \in {"idle", "gate", "delay", "blocked", "refused"} =>
          \A k \in Keys : owner[k] # p

\* Without a maintenance loop nobody blocks on Hard debt.
NoBlockUnmaintained == ~enabled => \A p \in Writers : pc[p] # "blocked"

\* The inductive invariant.
IInv ==
    /\ TypeOK
    /\ WriteProtected
    /\ LocksAfterGate
    /\ NoBlockUnmaintained
    /\ NeverRefusedUnmaintained

-----------------------------------------------------------------------------
LEMMA InitIInv == Init => IInv
<1> SUFFICES ASSUME Init PROVE IInv
  OBVIOUS
<1> USE LaneAssumption DEF Init, IInv
<1>1. TypeOK
  <2>1. mpc \in {"sleep", "stopped"} /\ hardForced \in BOOLEAN /\ runGc \in BOOLEAN
    OBVIOUS
  <2>2. fresh \in BOOLEAN /\ shutdown \in BOOLEAN
    OBVIOUS
  <2> QED
    BY <2>1, <2>2 DEF TypeOK, Levels
<1>2. WriteProtected /\ LocksAfterGate
  BY DEF WriteProtected, LocksAfterGate
<1>3. NoBlockUnmaintained /\ NeverRefusedUnmaintained
  BY DEF NoBlockUnmaintained, NeverRefusedUnmaintained
<1> QED
  BY <1>1, <1>2, <1>3

\* Debt stays within its bound when a write adds to it.
LEMMA StoreGrowsType == ASSUME TypeOK, StoreGrows PROVE debt' \in 0..MaxDebt
BY LaneAssumption DEF TypeOK, StoreGrows

\* A debt observation records a level.
LEMMA RefreshType ==
    ASSUME TypeOK, NEW readable \in BOOLEAN, refresh_observed(readable)
    PROVE  debt' \in 0..MaxDebt /\ observed' \in Levels /\ fresh' \in BOOLEAN
BY DEF TypeOK, refresh_observed, classify, Levels

\* The locals of a pass are in range when it begins and when it ends.
LEMMA PassType ==
    /\ \A to \in {"sleep", "refresh", "stopped"} : EndPass(to) =>
          /\ mpc' \in {"sleep", "refresh", "stopped"} /\ pace' \in {"Full", "Paced"}
          /\ hardForced' \in BOOLEAN /\ runGc' \in BOOLEAN /\ deferred' \in 0..DeferBound
    /\ \A elevated \in BOOLEAN : forced_pace(elevated) \in {"Full", "Paced"}
    /\ \A p \in {"Full", "Paced"}, hard \in BOOLEAN :
          BeginPass(p, hard) =>
             /\ mpc' = "lane" /\ pace' \in {"Full", "Paced"}
             /\ hardForced' \in BOOLEAN /\ runGc' \in BOOLEAN /\ deferred' \in 0..DeferBound
<1>1. 0 \in 0..DeferBound
  BY LaneAssumption
<1> QED
  BY <1>1, Zenon DEF EndPass, BeginPass, forced_pace

LEMMA ArriveIInv ==
    ASSUME IInv, NEW p \in Writers, Arrive(p)
    PROVE  IInv'
<1> USE LaneAssumption DEF IInv, Arrive, Go, gate, maint
<1>1. TypeOK'
  BY DEF TypeOK, Levels
<1>2. WriteProtected'
  BY DEF TypeOK, WriteProtected, Owned
<1>3. LocksAfterGate'
  BY DEF TypeOK, WriteProtected, LocksAfterGate
<1>4. NoBlockUnmaintained' /\ NeverRefusedUnmaintained'
  BY DEF TypeOK, NoBlockUnmaintained, NeverRefusedUnmaintained
<1> QED
  BY <1>1, <1>2, <1>3, <1>4

LEMMA ProbeIInv ==
    ASSUME IInv, NEW p \in Writers, NEW readable \in BOOLEAN, Probe(p, readable)
    PROVE  IInv'
<1> USE LaneAssumption DEF IInv, Probe, Go, gate, maint, probe, observed_level, classify, refresh_observed, Levels
<1>1. TypeOK'
  BY RefreshType DEF TypeOK, Levels
<1>2. WriteProtected'
  BY DEF TypeOK, WriteProtected, Owned
<1>3. LocksAfterGate'
  BY DEF TypeOK, WriteProtected, LocksAfterGate
<1>4. NoBlockUnmaintained' /\ NeverRefusedUnmaintained'
  BY DEF TypeOK, NoBlockUnmaintained, NeverRefusedUnmaintained
<1> QED
  BY <1>1, <1>2, <1>3, <1>4

LEMMA SoftDelayIInv ==
    ASSUME IInv, NEW p \in Writers, SoftDelay(p)
    PROVE  IInv'
<1> USE LaneAssumption DEF IInv, SoftDelay, Go, gate, maint
<1>1. TypeOK'
  BY DEF TypeOK, Levels
<1>2. WriteProtected'
  BY DEF TypeOK, WriteProtected, Owned
<1>3. LocksAfterGate'
  BY DEF TypeOK, WriteProtected, LocksAfterGate
<1>4. NoBlockUnmaintained' /\ NeverRefusedUnmaintained'
  BY DEF TypeOK, NoBlockUnmaintained, NeverRefusedUnmaintained
<1> QED
  BY <1>1, <1>2, <1>3, <1>4

LEMMA RefuseIInv ==
    ASSUME IInv, NEW p \in Writers, Refuse(p)
    PROVE  IInv'
<1> USE LaneAssumption DEF IInv, Refuse, Go, gate, maint
<1>1. TypeOK'
  BY DEF TypeOK, Levels
<1>2. WriteProtected'
  BY DEF TypeOK, WriteProtected, Owned
<1>3. LocksAfterGate'
  BY DEF TypeOK, WriteProtected, LocksAfterGate
<1>4. NoBlockUnmaintained' /\ NeverRefusedUnmaintained'
  BY DEF TypeOK, NoBlockUnmaintained, NeverRefusedUnmaintained
<1> QED
  BY <1>1, <1>2, <1>3, <1>4

LEMMA ReplyIInv ==
    ASSUME IInv, NEW p \in Writers, Reply(p)
    PROVE  IInv'
<1> USE LaneAssumption DEF IInv, Reply, Go, gate, maint
<1>1. TypeOK'
  BY DEF TypeOK, Levels
<1>2. WriteProtected'
  BY DEF TypeOK, WriteProtected, Owned
<1>3. LocksAfterGate'
  BY DEF TypeOK, WriteProtected, LocksAfterGate
<1>4. NoBlockUnmaintained' /\ NeverRefusedUnmaintained'
  BY DEF TypeOK, NoBlockUnmaintained, NeverRefusedUnmaintained
<1> QED
  BY <1>1, <1>2, <1>3, <1>4

LEMMA PlanCatchUpIInv ==
    ASSUME IInv, NEW p \in Writers, PlanCatchUp(p)
    PROVE  IInv'
<1> USE LaneAssumption DEF IInv, PlanCatchUp, Go, gate, maint, Unlocked
<1>1. TypeOK'
  BY DEF TypeOK, Levels
<1>2. WriteProtected'
  <2>1. CASE pc' = [pc EXCEPT ![p] = "lane"] /\ UNCHANGED owner
    BY <2>1 DEF TypeOK, WriteProtected, Owned
  <2>2. CASE pc' = [pc EXCEPT ![p] = "idle"] /\ owner' = Unlocked(p)
    BY <2>2 DEF TypeOK, WriteProtected, Owned
  <2> QED
    BY <2>1, <2>2
<1>3. LocksAfterGate'
  BY DEF TypeOK, WriteProtected, LocksAfterGate
<1>4. NoBlockUnmaintained' /\ NeverRefusedUnmaintained'
  BY DEF TypeOK, NoBlockUnmaintained, NeverRefusedUnmaintained
<1> QED
  BY <1>1, <1>2, <1>3, <1>4

LEMMA CancelCatchUpIInv ==
    ASSUME IInv, NEW p \in Writers, CancelCatchUp(p)
    PROVE  IInv'
<1> USE LaneAssumption DEF IInv, CancelCatchUp, Go, gate, maint, Unlocked
<1>1. TypeOK'
  BY DEF TypeOK, Levels
<1>2. WriteProtected'
  BY DEF TypeOK, WriteProtected, Owned
<1>3. LocksAfterGate'
  BY DEF TypeOK, WriteProtected, LocksAfterGate
<1>4. NoBlockUnmaintained' /\ NeverRefusedUnmaintained'
  BY DEF TypeOK, NoBlockUnmaintained, NeverRefusedUnmaintained
<1> QED
  BY <1>1, <1>2, <1>3, <1>4

LEMMA lock_corpusIInv ==
    ASSUME IInv, NEW p \in Writers, lock_corpus(p)
    PROVE  IInv'
<1> USE LaneAssumption DEF IInv, gate, maint
<1>1. PICK k \in Missing(p) :
         /\ owner[k] = None
         /\ owner' = [owner EXCEPT ![k] = p]
         /\ pc' = [pc EXCEPT ![p] = IF Missing(p) = {k} THEN AfterLocks(p) ELSE "locking"]
  BY DEF lock_corpus, Go
<1>2. pc[p] = "locking" /\ UNCHANGED <<enabled, polls, lane, gate, maint, shutdown>>
  BY DEF lock_corpus
<1>3. k \in Keys /\ KeysOf[p] \in SUBSET Keys
  BY DEF Missing
<1>4. AfterLocks(p) \in {"lane", "plan"}
  BY DEF AfterLocks
<1>5. TypeOK'
  BY <1>1, <1>2, <1>3, <1>4 DEF TypeOK, Levels
<1>6. WriteProtected'
  <2>1. \A q \in Writers : q # p => pc'[q] = pc[q]
    BY <1>1 DEF TypeOK
  <2>2. \A j \in Keys : owner[j] # None => owner'[j] = owner[j]
    BY <1>1, <1>3 DEF TypeOK
  <2>3. \A q \in Writers : Owned(q) \subseteq Owned(q)'
    BY <2>2 DEF Owned
  <2>4. pc'[p] # "locking" => KeysOf[p] \subseteq Owned(p)'
    <3>1. pc'[p] # "locking" => Missing(p) = {k}
      BY <1>1 DEF TypeOK
    <3>2. owner'[k] = p
      BY <1>1, <1>3 DEF TypeOK
    <3>3. k \in Owned(p)'
      BY <3>2, <1>3 DEF Owned
    <3> QED
      BY <3>1, <3>3, <2>3, <1>3 DEF Missing
  <2>5. pc'[p] # "write"
    BY <1>1, <1>4 DEF TypeOK
  <2> QED
    BY <1>2, <2>1, <2>3, <2>4, <2>5 DEF WriteProtected
<1>7. LocksAfterGate'
  BY <1>1, <1>2, <1>3, <1>4 DEF TypeOK, LocksAfterGate
<1>8. NoBlockUnmaintained' /\ NeverRefusedUnmaintained'
  BY <1>1, <1>2, <1>4 DEF TypeOK, NoBlockUnmaintained, NeverRefusedUnmaintained
<1> QED
  BY <1>5, <1>6, <1>7, <1>8

LEMMA acquire_write_laneIInv ==
    ASSUME IInv, NEW p \in Writers, acquire_write_lane(p)
    PROVE  IInv'
<1> USE LaneAssumption DEF IInv, acquire_write_lane, Go, gate, maint
<1>1. TypeOK'
  BY DEF TypeOK, Levels
<1>2. WriteProtected'
  BY DEF TypeOK, WriteProtected, Owned
<1>3. LocksAfterGate'
  BY DEF TypeOK, WriteProtected, LocksAfterGate
<1>4. NoBlockUnmaintained' /\ NeverRefusedUnmaintained'
  BY DEF TypeOK, NoBlockUnmaintained, NeverRefusedUnmaintained
<1> QED
  BY <1>1, <1>2, <1>3, <1>4

LEMMA WriteBatchIInv ==
    ASSUME IInv, NEW p \in Writers, WriteBatch(p)
    PROVE  IInv'
<1> USE LaneAssumption DEF IInv, WriteBatch, Go, gate, maint
<1>1. TypeOK'
  BY StoreGrowsType DEF TypeOK, Levels
<1>2. WriteProtected'
  BY DEF TypeOK, WriteProtected, Owned
<1>3. LocksAfterGate'
  BY DEF TypeOK, WriteProtected, LocksAfterGate
<1>4. NoBlockUnmaintained' /\ NeverRefusedUnmaintained'
  BY DEF TypeOK, NoBlockUnmaintained, NeverRefusedUnmaintained
<1> QED
  BY <1>1, <1>2, <1>3, <1>4

LEMMA WriteLastIInv ==
    ASSUME IInv, NEW p \in Writers, WriteLast(p)
    PROVE  IInv'
<1> USE LaneAssumption DEF IInv, WriteLast, Go, gate, maint, Unlocked
<1>1. TypeOK'
  BY StoreGrowsType DEF TypeOK, Levels
<1>2. WriteProtected'
  BY DEF TypeOK, WriteProtected, Owned
<1>3. LocksAfterGate'
  BY DEF TypeOK, WriteProtected, LocksAfterGate
<1>4. NoBlockUnmaintained' /\ NeverRefusedUnmaintained'
  BY DEF TypeOK, NoBlockUnmaintained, NeverRefusedUnmaintained
<1> QED
  BY <1>1, <1>2, <1>3, <1>4

LEMMA ExpireRecordIInv ==
    ASSUME IInv, ExpireRecord
    PROVE  IInv'
<1> USE LaneAssumption DEF IInv, ExpireRecord, gate, maint
<1>1. TypeOK'
  BY DEF TypeOK, Levels
<1>2. WriteProtected'
  BY DEF TypeOK, WriteProtected, Owned
<1>3. LocksAfterGate'
  BY DEF TypeOK, WriteProtected, LocksAfterGate
<1>4. NoBlockUnmaintained' /\ NeverRefusedUnmaintained'
  BY DEF TypeOK, NoBlockUnmaintained, NeverRefusedUnmaintained
<1> QED
  BY <1>1, <1>2, <1>3, <1>4

LEMMA EndSleepIInv ==
    ASSUME IInv, EndSleep
    PROVE  IInv'
<1> USE LaneAssumption DEF IInv, EndSleep, Idle, gate, maint
<1>1. TypeOK'
  BY DEF TypeOK, Levels
<1>2. WriteProtected'
  BY DEF TypeOK, WriteProtected, Owned
<1>3. LocksAfterGate'
  BY DEF TypeOK, WriteProtected, LocksAfterGate
<1>4. NoBlockUnmaintained' /\ NeverRefusedUnmaintained'
  BY DEF TypeOK, NoBlockUnmaintained, NeverRefusedUnmaintained
<1> QED
  BY <1>1, <1>2, <1>3, <1>4

LEMMA DeferPassIInv ==
    ASSUME IInv, NEW busy \in BOOLEAN, NEW elevated \in BOOLEAN, DeferPass(busy, elevated)
    PROVE  IInv'
<1> USE LaneAssumption DEF IInv, DeferPass, Idle, gate, maint, Deciding
<1>1. TypeOK'
  BY DEF TypeOK, Levels
<1>2. WriteProtected'
  BY DEF TypeOK, WriteProtected, Owned
<1>3. LocksAfterGate'
  BY DEF TypeOK, WriteProtected, LocksAfterGate
<1>4. NoBlockUnmaintained' /\ NeverRefusedUnmaintained'
  BY DEF TypeOK, NoBlockUnmaintained, NeverRefusedUnmaintained
<1> QED
  BY <1>1, <1>2, <1>3, <1>4

LEMMA StartPassIInv ==
    ASSUME IInv, NEW busy \in BOOLEAN, NEW elevated \in BOOLEAN, StartPass(busy, elevated)
    PROVE  IInv'
<1> USE LaneAssumption DEF IInv, StartPass, Idle, gate, maint, Deciding, BeginPass, forced_pace
<1>1. TypeOK'
  <2>1. /\ mpc' \in {"sleep", "lane", "refresh", "pause", "stopped"} /\ pace' \in {"Full", "Paced"}
        /\ hardForced' \in BOOLEAN /\ runGc' \in BOOLEAN /\ deferred' \in 0..DeferBound
    BY PassType
  <2> HIDE DEF EndPass, BeginPass
  <2> QED
    BY <2>1 DEF TypeOK, Levels
<1>2. WriteProtected'
  BY DEF TypeOK, WriteProtected, Owned
<1>3. LocksAfterGate'
  BY DEF TypeOK, WriteProtected, LocksAfterGate
<1>4. NoBlockUnmaintained' /\ NeverRefusedUnmaintained'
  BY DEF TypeOK, NoBlockUnmaintained, NeverRefusedUnmaintained
<1> QED
  BY <1>1, <1>2, <1>3, <1>4

LEMMA MaintenanceLaneIInv ==
    ASSUME IInv, MaintenanceLane
    PROVE  IInv'
<1> USE LaneAssumption DEF IInv, MaintenanceLane, Idle, gate, maint
<1>1. TypeOK'
  BY DEF TypeOK, Levels
<1>2. WriteProtected'
  BY DEF TypeOK, WriteProtected, Owned
<1>3. LocksAfterGate'
  BY DEF TypeOK, WriteProtected, LocksAfterGate
<1>4. NoBlockUnmaintained' /\ NeverRefusedUnmaintained'
  BY DEF TypeOK, NoBlockUnmaintained, NeverRefusedUnmaintained
<1> QED
  BY <1>1, <1>2, <1>3, <1>4

LEMMA GcDeleteIInv ==
    ASSUME IInv, GcDelete
    PROVE  IInv'
<1> USE LaneAssumption DEF IInv, GcDelete, Idle, gate, maint
<1>1. TypeOK'
  BY StoreGrowsType DEF TypeOK, Levels
<1>2. WriteProtected'
  BY DEF TypeOK, WriteProtected, Owned
<1>3. LocksAfterGate'
  BY DEF TypeOK, WriteProtected, LocksAfterGate
<1>4. NoBlockUnmaintained' /\ NeverRefusedUnmaintained'
  BY DEF TypeOK, NoBlockUnmaintained, NeverRefusedUnmaintained
<1> QED
  BY <1>1, <1>2, <1>3, <1>4

LEMMA GcOrphansIInv ==
    ASSUME IInv, GcOrphans
    PROVE  IInv'
<1> USE LaneAssumption DEF IInv, GcOrphans, Idle, gate, maint
<1>1. TypeOK'
  BY StoreGrowsType DEF TypeOK, Levels
<1>2. WriteProtected'
  BY DEF TypeOK, WriteProtected, Owned
<1>3. LocksAfterGate'
  BY DEF TypeOK, WriteProtected, LocksAfterGate
<1>4. NoBlockUnmaintained' /\ NeverRefusedUnmaintained'
  BY DEF TypeOK, NoBlockUnmaintained, NeverRefusedUnmaintained
<1> QED
  BY <1>1, <1>2, <1>3, <1>4

LEMMA CompactIInv ==
    ASSUME IInv, NEW ok \in BOOLEAN, NEW removed \in 0..MaxDebt, Compact(ok, removed)
    PROVE  IInv'
<1> USE LaneAssumption DEF IInv, Compact, Idle, gate, maint, EndPass
<1>1. TypeOK'
  <2>1. /\ mpc' \in {"sleep", "lane", "refresh", "pause", "stopped"} /\ pace' \in {"Full", "Paced"}
        /\ hardForced' \in BOOLEAN /\ runGc' \in BOOLEAN /\ deferred' \in 0..DeferBound
    BY PassType DEF TypeOK
  <2>2. debt' \in 0..MaxDebt
    BY DEF TypeOK
  <2> HIDE DEF EndPass
  <2> QED
    BY <2>1, <2>2 DEF TypeOK, Levels
<1>2. WriteProtected'
  BY DEF TypeOK, WriteProtected, Owned
<1>3. LocksAfterGate'
  BY DEF TypeOK, WriteProtected, LocksAfterGate
<1>4. NoBlockUnmaintained' /\ NeverRefusedUnmaintained'
  BY DEF TypeOK, NoBlockUnmaintained, NeverRefusedUnmaintained
<1> QED
  BY <1>1, <1>2, <1>3, <1>4

LEMMA EndPauseIInv ==
    ASSUME IInv, EndPause
    PROVE  IInv'
<1> USE LaneAssumption DEF IInv, EndPause, Idle, gate, maint
<1>1. TypeOK'
  BY DEF TypeOK, Levels
<1>2. WriteProtected'
  BY DEF TypeOK, WriteProtected, Owned
<1>3. LocksAfterGate'
  BY DEF TypeOK, WriteProtected, LocksAfterGate
<1>4. NoBlockUnmaintained' /\ NeverRefusedUnmaintained'
  BY DEF TypeOK, NoBlockUnmaintained, NeverRefusedUnmaintained
<1> QED
  BY <1>1, <1>2, <1>3, <1>4

LEMMA RefreshAfterHardIInv ==
    ASSUME IInv, NEW readable \in BOOLEAN, RefreshAfterHard(readable)
    PROVE  IInv'
<1> USE LaneAssumption DEF IInv, RefreshAfterHard, Idle, gate, maint, EndPass
<1>1. TypeOK'
  <2>1. /\ mpc' \in {"sleep", "lane", "refresh", "pause", "stopped"} /\ pace' \in {"Full", "Paced"}
        /\ hardForced' \in BOOLEAN /\ runGc' \in BOOLEAN /\ deferred' \in 0..DeferBound
    BY PassType
  <2>2. debt' \in 0..MaxDebt /\ observed' \in Levels /\ fresh' \in BOOLEAN
    BY RefreshType
  <2> HIDE DEF EndPass
  <2> QED
    BY <2>1, <2>2 DEF TypeOK, Levels
<1>2. WriteProtected'
  BY DEF TypeOK, WriteProtected, Owned
<1>3. LocksAfterGate'
  BY DEF TypeOK, WriteProtected, LocksAfterGate
<1>4. NoBlockUnmaintained' /\ NeverRefusedUnmaintained'
  BY DEF TypeOK, NoBlockUnmaintained, NeverRefusedUnmaintained
<1> QED
  BY <1>1, <1>2, <1>3, <1>4

LEMMA CancelMaintenanceIInv ==
    ASSUME IInv, CancelMaintenance
    PROVE  IInv'
<1> USE LaneAssumption DEF IInv, CancelMaintenance, Idle, gate, maint, EndPass
<1>1. TypeOK'
  <2>1. /\ mpc' \in {"sleep", "lane", "refresh", "pause", "stopped"} /\ pace' \in {"Full", "Paced"}
        /\ hardForced' \in BOOLEAN /\ runGc' \in BOOLEAN /\ deferred' \in 0..DeferBound
    BY PassType
  <2> HIDE DEF EndPass, BeginPass
  <2> QED
    BY <2>1 DEF TypeOK, Levels
<1>2. WriteProtected'
  BY DEF TypeOK, WriteProtected, Owned
<1>3. LocksAfterGate'
  BY DEF TypeOK, WriteProtected, LocksAfterGate
<1>4. NoBlockUnmaintained' /\ NeverRefusedUnmaintained'
  BY DEF TypeOK, NoBlockUnmaintained, NeverRefusedUnmaintained
<1> QED
  BY <1>1, <1>2, <1>3, <1>4

LEMMA ShutdownIInv ==
    ASSUME IInv, Shutdown
    PROVE  IInv'
<1> USE LaneAssumption DEF IInv, Shutdown, gate, maint
<1>1. TypeOK'
  BY DEF TypeOK, Levels
<1>2. WriteProtected'
  BY DEF TypeOK, WriteProtected, Owned
<1>3. LocksAfterGate'
  BY DEF TypeOK, WriteProtected, LocksAfterGate
<1>4. NoBlockUnmaintained' /\ NeverRefusedUnmaintained'
  BY DEF TypeOK, NoBlockUnmaintained, NeverRefusedUnmaintained
<1> QED
  BY <1>1, <1>2, <1>3, <1>4

LEMMA AbortMaintenanceIInv ==
    ASSUME IInv, AbortMaintenance
    PROVE  IInv'
<1> USE LaneAssumption DEF IInv, AbortMaintenance, Idle, gate, maint, EndPass
<1>1. TypeOK'
  <2>1. /\ mpc' \in {"sleep", "lane", "refresh", "pause", "stopped"} /\ pace' \in {"Full", "Paced"}
        /\ hardForced' \in BOOLEAN /\ runGc' \in BOOLEAN /\ deferred' \in 0..DeferBound
    BY PassType
  <2>2. debt' \in 0..MaxDebt
    BY DEF TypeOK
  <2>3. lane' \in Writers \cup {Maintenance, None}
    BY DEF TypeOK
  <2> HIDE DEF EndPass
  <2> QED
    BY <2>1, <2>2, <2>3 DEF TypeOK, Levels
<1>2. WriteProtected'
  BY DEF TypeOK, WriteProtected, Owned
<1>3. LocksAfterGate'
  BY DEF TypeOK, WriteProtected, LocksAfterGate
<1>4. NoBlockUnmaintained' /\ NeverRefusedUnmaintained'
  BY DEF TypeOK, NoBlockUnmaintained, NeverRefusedUnmaintained
<1> QED
  BY <1>1, <1>2, <1>3, <1>4

LEMMA NextIInv == IInv /\ [Next]_vars => IInv'
<1> SUFFICES ASSUME IInv, [Next]_vars PROVE IInv'
  OBVIOUS
<1>1. ASSUME NEW p \in Writers, Arrive(p) PROVE IInv'
  BY <1>1, ArriveIInv
<1>2. ASSUME NEW p \in Writers, NEW readable \in BOOLEAN, Probe(p, readable) PROVE IInv'
  BY <1>2, ProbeIInv
<1>3. ASSUME NEW p \in Writers, SoftDelay(p) PROVE IInv'
  BY <1>3, SoftDelayIInv
<1>4. ASSUME NEW p \in Writers, Refuse(p) PROVE IInv'
  BY <1>4, RefuseIInv
<1>5. ASSUME NEW p \in Writers, Reply(p) PROVE IInv'
  BY <1>5, ReplyIInv
<1>6. ASSUME NEW p \in Writers, PlanCatchUp(p) PROVE IInv'
  BY <1>6, PlanCatchUpIInv
<1>7. ASSUME NEW p \in Writers, CancelCatchUp(p) PROVE IInv'
  BY <1>7, CancelCatchUpIInv
<1>8. ASSUME NEW p \in Writers, lock_corpus(p) PROVE IInv'
  BY <1>8, lock_corpusIInv
<1>9. ASSUME NEW p \in Writers, acquire_write_lane(p) PROVE IInv'
  BY <1>9, acquire_write_laneIInv
<1>10. ASSUME NEW p \in Writers, WriteBatch(p) PROVE IInv'
  BY <1>10, WriteBatchIInv
<1>11. ASSUME NEW p \in Writers, WriteLast(p) PROVE IInv'
  BY <1>11, WriteLastIInv
<1>12. CASE ExpireRecord
  BY <1>12, ExpireRecordIInv
<1>13. CASE EndSleep
  BY <1>13, EndSleepIInv
<1>14. ASSUME NEW busy \in BOOLEAN, NEW elevated \in BOOLEAN, DeferPass(busy, elevated) PROVE IInv'
  BY <1>14, DeferPassIInv
<1>15. ASSUME NEW busy \in BOOLEAN, NEW elevated \in BOOLEAN, StartPass(busy, elevated) PROVE IInv'
  BY <1>15, StartPassIInv
<1>16. CASE MaintenanceLane
  BY <1>16, MaintenanceLaneIInv
<1>17. CASE GcDelete
  BY <1>17, GcDeleteIInv
<1>18. CASE GcOrphans
  BY <1>18, GcOrphansIInv
<1>19. ASSUME NEW ok \in BOOLEAN, NEW removed \in 0..MaxDebt, Compact(ok, removed) PROVE IInv'
  BY <1>19, CompactIInv
<1>20. CASE EndPause
  BY <1>20, EndPauseIInv
<1>21. ASSUME NEW readable \in BOOLEAN, RefreshAfterHard(readable) PROVE IInv'
  BY <1>21, RefreshAfterHardIInv
<1>22. CASE CancelMaintenance
  BY <1>22, CancelMaintenanceIInv
<1>23. CASE Shutdown
  BY <1>23, ShutdownIInv
<1>24. CASE AbortMaintenance
  BY <1>24, AbortMaintenanceIInv
<1>25. CASE UNCHANGED vars
  BY <1>25 DEF IInv, TypeOK, WriteProtected, LocksAfterGate, NoBlockUnmaintained,
     NeverRefusedUnmaintained, Owned, vars, gate, maint
<1> QED
  BY <1>1, <1>2, <1>3, <1>4, <1>5, <1>6, <1>7, <1>8, <1>9, <1>10, <1>11, <1>12, <1>13, <1>14, <1>15, <1>16, <1>17, <1>18, <1>19, <1>20, <1>21, <1>22, <1>23, <1>24, <1>25
     DEF Next, WriterStep, MaintenanceStep

\* The strengthening holds in every reachable state.
THEOREM Invariance == Spec => []IInv
BY InitIInv, NextIInv, PTL DEF Spec

\* Type correctness of the gate, the locks, the lane and the maintenance loop.
THEOREM TypeCorrect == Spec => []TypeOK
<1>1. IInv => TypeOK
  BY DEF IInv
<1> QED
  BY <1>1, Invariance, PTL

\* Nothing writes to the tables without the lane, and no writer plans or
\* writes without every lock key of its corpus (acquire, catch_up_corpus,
\* run_maintenance_tick_with).
THEOREM AlwaysProtected == Spec => []WriteProtected
<1>1. IInv => WriteProtected
  BY DEF IInv
<1> QED
  BY <1>1, Invariance, PTL

\* No mutation waits for a corpus lock whose holder waits for the debt to go
\* down (await_debt_gate before lock_corpus).
THEOREM NeverWaitsOnDebt == Spec => []NoWaitOnDebt
<1>1. IInv => NoWaitOnDebt
  BY LaneAssumption DEF IInv, TypeOK, LocksAfterGate, NoWaitOnDebt, Missing
<1> QED
  BY <1>1, Invariance, PTL

\* With maintenance off no mutation is ever refused for debt
\* (probe_admitting_hard_debt_without_maintenance).
THEOREM NeverRefused == Spec => []NeverRefusedUnmaintained
<1>1. IInv => NeverRefusedUnmaintained
  BY DEF IInv
<1> QED
  BY <1>1, Invariance, PTL
=============================================================================
