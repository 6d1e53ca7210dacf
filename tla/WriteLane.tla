------------------------------ MODULE WriteLane ------------------------------
(***************************************************************************)
(* Who may write, and when: the debt gate in front of every mutation       *)
(* (backpressure.rs, debt.rs), the sorted corpus locks and the one-permit  *)
(* write lane behind it (state.rs), the catch-up passes that hold corpus   *)
(* locks across a scan and take the lane batch by batch (dispatch.rs,      *)
(* watch/mod.rs), and the maintenance loop that pays the debt down in      *)
(* competition with them (maintenance.rs).                                 *)
(*                                                                         *)
(* Debt is one number with two thresholds.  Clocks are left out: a sleep   *)
(* may end at any moment, a deadline is a number of polls or rechecks, and *)
(* client activity and I/O pressure are chosen afresh whenever they are    *)
(* read.                                                                   *)
(***************************************************************************)
EXTENDS Naturals

CONSTANTS
    Mutations,      \* handlers that take the whole MutationGuard
    CatchUps,       \* watcher catch-up tasks, which watch the shutdown token
    BootPasses,     \* the boot catch-up, which does not
    Keys,           \* CorpusKey values, ordered
    KeysOf,         \* lock keys of an operation
    SoftDebt, HardDebt, MaxDebt,
    SliceBudget,    \* paced_slice_budget, at least 1
    MaxPolls,       \* probes within hard_block_wait_secs
    DeferBound,     \* rechecks within defer_bound_secs
    Maintenance, None

Writers == Mutations \cup CatchUps \cup BootPasses

ASSUME LaneAssumption ==
    /\ Keys \subseteq Nat
    /\ KeysOf \in [Writers -> SUBSET Keys] /\ \A p \in Writers : KeysOf[p] # {}
    /\ {SoftDebt, HardDebt, MaxDebt} \subseteq Nat
    /\ 0 < SoftDebt /\ SoftDebt <= HardDebt /\ HardDebt <= MaxDebt
    /\ SliceBudget \in Nat \ {0}
    /\ MaxPolls \in Nat /\ DeferBound \in Nat
    /\ Maintenance \notin Writers /\ None \notin Writers \cup {Maintenance}

VARIABLES
    enabled,     \* maintenance_interval_secs # 0
    pc, polls,   \* of each writer
    owner,       \* corpus_locks: holder of each key
    lane,        \* write_lane: holder of the permit
    debt,        \* what LanceStore::debt would report
    observed,    \* OBSERVED: last recorded level
    fresh,       \* the record is younger than its time to live
    mpc,         \* maintenance_loop
    pace, hardForced, runGc, deferred,
    shutdown

gate  == <<debt, observed, fresh>>
maint == <<mpc, pace, hardForced, runGc, deferred>>
vars  == <<enabled, pc, polls, owner, lane, gate, maint, shutdown>>

Levels == {"Ok", "Soft", "Hard"}

TypeOK ==
    /\ enabled \in BOOLEAN
    /\ pc \in [Writers -> {"idle", "gate", "delay", "blocked", "refused",
                           "locking", "plan", "lane", "write"}]
    /\ polls \in [Writers -> 0..MaxPolls]
    /\ owner \in [Keys -> Writers \cup {None}]
    /\ lane \in Writers \cup {Maintenance, None}
    /\ debt \in 0..MaxDebt /\ observed \in Levels /\ fresh \in BOOLEAN
    /\ mpc \in {"sleep", "due", "recheck", "lane", "delete", "orphans",
                "relane", "compact", "pause", "refresh", "stopped"}
    /\ pace \in {"Full", "Paced"}
    /\ hardForced \in BOOLEAN /\ runGc \in BOOLEAN
    /\ deferred \in 0..DeferBound
    /\ shutdown \in BOOLEAN

Init ==
    /\ enabled \in BOOLEAN
    /\ pc = [p \in Writers |-> "idle"]
    /\ polls = [p \in Writers |-> 0]
    /\ owner = [k \in Keys |-> None]
    /\ lane = None
    /\ debt \in 0..MaxDebt
    /\ observed = "Ok" /\ fresh = FALSE
    /\ mpc = IF enabled THEN "sleep" ELSE "stopped"
    /\ pace = "Full" /\ hardForced = FALSE /\ runGc = FALSE /\ deferred = 0
    /\ shutdown = FALSE

-----------------------------------------------------------------------------
(* The debt gate.                                                          *)

classify == IF debt >= HardDebt THEN "Hard" ELSE IF debt >= SoftDebt THEN "Soft" ELSE "Ok"

\* refresh_observed; a failed read falls open and records nothing.
refresh_observed(readable) ==
    /\ observed' = IF readable THEN classify ELSE observed
    /\ fresh' = (fresh \/ readable)
    /\ UNCHANGED debt

\* The level a probe sees: the fresh record, the store, or Ok when the store
\* cannot be read.
observed_level(readable) ==
    IF fresh THEN observed ELSE IF readable THEN classify ELSE "Ok"

\* probe_admitting_hard_debt_without_maintenance.
probe(level) == IF level = "Hard" /\ ~enabled THEN "Soft" ELSE level

Go(p, to) == pc' = [pc EXCEPT ![p] = to]

\* No catch-up is admitted after shutdown; a request on an open connection,
\* and the next corpus of the boot sweep, may still arrive.
Arrive(p) ==
    /\ pc[p] = "idle" /\ (p \in CatchUps => ~shutdown)
    /\ Go(p, "gate")
    /\ UNCHANGED <<enabled, polls, owner, lane, gate, maint, shutdown>>

\* Mutant: every poll computes the deadline afresh.
ProbeRestartsDeadline(p, readable) ==
    LET level == probe(observed_level(readable)) IN
    /\ \/ /\ pc[p] = "gate"
          /\ Go(p, [Ok |-> "locking", Soft |-> "delay", Hard |-> "blocked"][level])
       \/ /\ pc[p] = "blocked"
          /\ Go(p, IF level = "Hard" THEN "blocked" ELSE "locking")
    /\ IF fresh THEN UNCHANGED gate ELSE refresh_observed(readable)
    /\ UNCHANGED <<enabled, polls, owner, lane, maint, shutdown>>

\* The first probe of the gate, and each later one while it blocks.
Probe(p, readable) ==
    LET level == probe(observed_level(readable)) IN
    /\ \/ /\ pc[p] = "gate"
          /\ Go(p, [Ok |-> "locking", Soft |-> "delay", Hard |-> "blocked"][level])
          /\ UNCHANGED polls
       \/ /\ pc[p] = "blocked" /\ polls[p] < MaxPolls
          /\ Go(p, IF level = "Hard" THEN "blocked" ELSE "locking")
          /\ polls' = [polls EXCEPT ![p] = IF level = "Hard" THEN @ + 1 ELSE 0]
    /\ IF fresh THEN UNCHANGED gate ELSE refresh_observed(readable)
    /\ UNCHANGED <<enabled, owner, lane, maint, shutdown>>

SoftDelay(p) ==
    /\ pc[p] = "delay" /\ Go(p, "locking")
    /\ UNCHANGED <<enabled, polls, owner, lane, gate, maint, shutdown>>

\* The deadline of a Hard block: the operation was never started.
Refuse(p) ==
    /\ pc[p] = "blocked" /\ polls[p] = MaxPolls
    /\ Go(p, "refused") /\ polls' = [polls EXCEPT ![p] = 0]
    /\ UNCHANGED <<enabled, owner, lane, gate, maint, shutdown>>

Reply(p) ==
    /\ pc[p] = "refused" /\ Go(p, "idle")
    /\ UNCHANGED <<enabled, polls, owner, lane, gate, maint, shutdown>>

ExpireRecord ==
    /\ fresh /\ fresh' = FALSE
    /\ UNCHANGED <<enabled, pc, polls, owner, lane, debt, observed, maint, shutdown>>

-----------------------------------------------------------------------------
(* Corpus locks and the write lane.                                        *)

Owned(p) == {k \in Keys : owner[k] = p}
Unlocked(p) == [k \in Keys |-> IF owner[k] = p THEN None ELSE owner[k]]

AfterLocks(p) == IF p \in Mutations THEN "lane" ELSE "plan"

Missing(p) == KeysOf[p] \ Owned(p)

\* lock_corpus sorts the keys, so the least missing one is next.
lock_corpus(p) ==
    /\ pc[p] = "locking"
    /\ \E k \in Missing(p) :
          /\ \A j \in Missing(p) : k <= j
          /\ owner[k] = None
          /\ owner' = [owner EXCEPT ![k] = p]
          /\ Go(p, IF Missing(p) = {k} THEN AfterLocks(p) ELSE "locking")
    /\ UNCHANGED <<enabled, polls, lane, gate, maint, shutdown>>

\* catch_up_corpus scans and plans under the corpus locks; an empty plan, or
\* a failed scan, never touches the lane.
PlanCatchUp(p) ==
    /\ pc[p] = "plan"
    /\ \/ Go(p, "lane") /\ UNCHANGED owner
       \/ Go(p, "idle") /\ owner' = Unlocked(p)
    /\ UNCHANGED <<enabled, polls, lane, gate, maint, shutdown>>

\* A watcher catch-up prefers the shutdown token over the permit.
acquire_write_lane(p) ==
    /\ pc[p] = "lane" /\ ~(p \in CatchUps /\ shutdown)
    /\ lane = None /\ lane' = p
    /\ Go(p, "write")
    /\ UNCHANGED <<enabled, polls, owner, gate, maint, shutdown>>

CancelCatchUp(p) ==
    /\ pc[p] = "lane" /\ p \in CatchUps /\ shutdown
    /\ Go(p, "idle") /\ owner' = Unlocked(p)
    /\ UNCHANGED <<enabled, polls, lane, gate, maint, shutdown>>

\* A write reached the store, or failed: it adds a fragment or nothing.
StoreGrows == debt' \in {debt, IF debt < MaxDebt THEN debt + 1 ELSE debt}

\* A catch-up releases the lane between batches and keeps its corpus locks.
WriteBatch(p) ==
    /\ pc[p] = "write" /\ p \notin Mutations
    /\ StoreGrows /\ lane' = None /\ Go(p, "lane")
    /\ UNCHANGED <<enabled, polls, owner, observed, fresh, maint, shutdown>>

\* The last write: the permit is dropped, then the corpus locks.
WriteLast(p) ==
    /\ pc[p] = "write"
    /\ StoreGrows /\ lane' = None /\ owner' = Unlocked(p) /\ Go(p, "idle")
    /\ UNCHANGED <<enabled, polls, observed, fresh, maint, shutdown>>

-----------------------------------------------------------------------------
(* The maintenance loop.                                                   *)

Idle == UNCHANGED <<enabled, pc, polls, owner, shutdown>>

forced_pace(elevated) == IF elevated THEN "Paced" ELSE "Full"

EndSleep ==
    /\ mpc = "sleep" /\ ~shutdown /\ mpc' = "due"
    /\ Idle /\ UNCHANGED <<lane, gate, pace, hardForced, runGc, deferred>>

BeginPass(p, hard) ==
    /\ mpc' = "lane" /\ pace' = p /\ hardForced' = hard /\ runGc' = TRUE /\ deferred' = 0

\* The locals of a pass end with it.
EndPass(to) ==
    /\ mpc' = to /\ pace' = "Full" /\ hardForced' = FALSE /\ runGc' = FALSE /\ deferred' = 0

\* A pass fell due, or a recheck sleep ended before the shutdown token.
Deciding == mpc = "due" \/ (mpc = "recheck" /\ ~shutdown)

\* Mutant: the wait is measured from the latest recheck.
DeferPassRestarts(busy, elevated) ==
    /\ Deciding /\ (busy \/ elevated) /\ observed # "Hard"
    /\ mpc' = "recheck"
    /\ deferred' = IF deferred < DeferBound THEN deferred + 1 ELSE 0
    /\ Idle /\ UNCHANGED <<lane, gate, pace, hardForced, runGc>>

\* A client is active or I/O pressure is up: the due pass waits.
DeferPass(busy, elevated) ==
    /\ Deciding /\ (busy \/ elevated) /\ observed # "Hard"
    /\ deferred < DeferBound
    /\ mpc' = "recheck" /\ deferred' = deferred + 1
    /\ Idle /\ UNCHANGED <<lane, gate, pace, hardForced, runGc>>

\* The pass starts: forced by Hard debt (tested first when it falls due, and
\* with a standing reason to defer afterwards), forced by the bound, or free.
StartPass(busy, elevated) ==
    /\ \/ /\ mpc = "due" /\ observed = "Hard"
          /\ BeginPass(forced_pace(elevated), TRUE)
       \/ /\ Deciding /\ (busy \/ elevated)
          /\ mpc = "due" => observed # "Hard"
          /\ deferred >= DeferBound \/ observed = "Hard"
          /\ BeginPass(forced_pace(elevated), observed = "Hard")
       \/ /\ Deciding /\ ~busy /\ ~elevated
          /\ mpc = "due" => observed # "Hard"
          /\ BeginPass("Full", FALSE)
    /\ Idle /\ UNCHANGED <<lane, gate>>

\* acquire_maintenance_lane, for the first time in a slice and after the
\* orphan collection, which runs without the lane.
MaintenanceLane ==
    /\ mpc \in {"lane", "relane"} /\ ~shutdown
    /\ lane = None /\ lane' = Maintenance
    /\ mpc' = IF mpc = "lane" /\ runGc THEN "delete" ELSE "compact"
    /\ Idle /\ UNCHANGED <<gate, pace, hardForced, runGc, deferred>>

\* gc_delete; a failure keeps what was deleted and goes on.
GcDelete ==
    /\ mpc = "delete" /\ mpc' = "orphans" /\ lane' = None
    /\ StoreGrows
    /\ Idle /\ UNCHANGED <<observed, fresh, pace, hardForced, runGc, deferred>>

\* Mutant: compaction follows the orphan collection without the lane.
GcOrphansNoLane ==
    /\ mpc = "orphans" /\ mpc' = "compact"
    /\ Idle /\ UNCHANGED <<lane, gate, pace, hardForced, runGc, deferred>>

\* The orphan collection takes the store's own write gate instead.
GcOrphans ==
    /\ mpc = "orphans" /\ mpc' = "relane"
    /\ StoreGrows
    /\ Idle /\ UNCHANGED <<lane, observed, fresh, pace, hardForced, runGc, deferred>>

\* maintain pays some of the debt, also when it fails or is aborted halfway.
\* A paced slice that removed its whole budget is followed by another, which
\* skips the collections.
Compact(ok, removed) ==
    LET again == ok /\ pace = "Paced" /\ removed >= SliceBudget
    IN  /\ mpc = "compact" /\ lane' = None
        /\ removed \in 0..debt /\ debt' = debt - removed
        /\ IF again \/ hardForced
           THEN /\ mpc' = IF again THEN "pause" ELSE "refresh"
                /\ runGc' = FALSE /\ UNCHANGED <<pace, hardForced, deferred>>
           ELSE EndPass("sleep")
        /\ Idle /\ UNCHANGED <<observed, fresh>>

EndPause ==
    /\ mpc = "pause" /\ ~shutdown /\ mpc' = "lane"
    /\ Idle /\ UNCHANGED <<lane, gate, pace, hardForced, runGc, deferred>>

RefreshAfterHard(readable) ==
    /\ mpc = "refresh" /\ EndPass("sleep")
    /\ refresh_observed(readable)
    /\ Idle /\ UNCHANGED lane

Shutdown ==
    /\ ~shutdown /\ shutdown' = TRUE
    /\ UNCHANGED <<enabled, pc, polls, owner, lane, gate, maint>>

\* The loop sees the token wherever it waits; a pass forced by Hard debt still
\* refreshes the observation.
CancelMaintenance ==
    /\ shutdown
    /\ \/ mpc \in {"lane", "relane", "pause"} /\ hardForced /\ EndPass("refresh")
       \/ mpc \in {"lane", "relane", "pause"} /\ ~hardForced /\ EndPass("stopped")
       \/ mpc \in {"sleep", "recheck"} /\ EndPass("stopped")
    /\ Idle /\ UNCHANGED <<lane, gate>>

\* The supervisor aborts the task wherever it is, which drops its permit.
AbortMaintenance ==
    /\ shutdown /\ mpc # "stopped" /\ EndPass("stopped")
    /\ lane' = IF lane = Maintenance THEN None ELSE lane
    /\ debt' \in IF mpc = "compact" THEN 0..debt ELSE {debt}
    /\ Idle /\ UNCHANGED <<observed, fresh>>

-----------------------------------------------------------------------------
WriterStep(p) ==
    \/ \E readable \in BOOLEAN : Probe(p, readable)
    \/ SoftDelay(p) \/ Refuse(p) \/ Reply(p)
    \/ PlanCatchUp(p) \/ CancelCatchUp(p)

MaintenanceStep ==
    \/ EndSleep
    \/ \E busy, elevated \in BOOLEAN : DeferPass(busy, elevated) \/ StartPass(busy, elevated)
    \/ GcDelete \/ GcOrphans
    \/ \E ok \in BOOLEAN, removed \in 0..MaxDebt : Compact(ok, removed)
    \/ EndPause
    \/ \E readable \in BOOLEAN : RefreshAfterHard(readable)
    \/ CancelMaintenance

Next ==
    \/ \E p \in Writers :
          \/ Arrive(p) \/ WriterStep(p)
          \/ lock_corpus(p) \/ acquire_write_lane(p)
          \/ WriteBatch(p) \/ WriteLast(p)
    \/ ExpireRecord
    \/ MaintenanceStep \/ MaintenanceLane
    \/ Shutdown \/ AbortMaintenance

Spec == Init /\ [][Next]_vars

\* The runtime polls every task that can run.  The locks and the semaphore
\* are FIFO, so a waiter is not passed over for ever (SF).  A plan has
\* finitely many batches, so a last one is written (SF).
Fairness ==
    /\ \A p \in Writers :
          /\ WF_vars(WriterStep(p))
          /\ SF_vars(lock_corpus(p)) /\ SF_vars(acquire_write_lane(p))
          /\ SF_vars(WriteLast(p))
    /\ WF_vars(MaintenanceStep) /\ SF_vars(MaintenanceLane)
    /\ WF_vars(AbortMaintenance)

FairSpec == Spec /\ Fairness

-----------------------------------------------------------------------------
(* Properties.                                                             *)

\* Whoever changes the tables holds the lane, and a writer also holds every
\* lock key of its corpus, from its scan to its last batch ("Callers hold the
\* locks of corpus_lock_keys(corpus) across this whole call").
WriteProtected ==
    /\ \A p \in Writers : pc[p] = "write" => lane = p
    /\ mpc \in {"delete", "compact"} => lane = Maintenance
    /\ \A p \in Writers : pc[p] \in {"plan", "lane", "write"} => KeysOf[p] \subseteq Owned(p)

\* "a Hard-debt block never holds a corpus lock that would head-of-line-block
\* an unrelated mutation on the same corpus": nobody waits for a lock whose
\* holder waits for the debt to go down.
NoWaitOnDebt ==
    \A p \in Writers :
       pc[p] = "locking" =>
          \A k \in Missing(p), q \in Writers :
             owner[k] = q => pc[q] \notin {"gate", "delay", "blocked"}

\* Without a maintenance loop nothing would relieve a Hard block, so no
\* mutation is refused for debt.
NeverRefusedUnmaintained == ~enabled => \A p \in Writers : pc[p] # "refused"

\* Every mutation and every catch-up that reaches the gate ends, written or
\* refused: locks, lane, debt and maintenance never wait on each other in a
\* circle, and none starves, also when the daemon shuts down in between.
MutationEnds == \A p \in Writers : pc[p] = "gate" ~> pc[p] \in {"idle", "refused"}

\* "The bound is real, not merely counted": a pass that falls due compacts,
\* however long clients stay active, pressure stays up and writers compete for
\* the lane, unless the daemon stops.
DuePassRuns == mpc = "due" ~> mpc \in {"compact", "stopped"}
=============================================================================
