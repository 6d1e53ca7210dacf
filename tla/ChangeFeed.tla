----------------------------- MODULE ChangeFeed -----------------------------
(***************************************************************************)
(* From a changed file to an up-to-date index: the debouncer thread fills  *)
(* a bounded buffer and wakes the pump (record_pending, build_debouncer),  *)
(* the pump drains it and handles one path after the other (run_pump,      *)
(* process_change_batch, handle_changed_path in watch/mod.rs), and the     *)
(* catch-up passes it admits cover what the events missed.                 *)
(*                                                                         *)
(* Whether an event arrives at all is free: a directory may not be watched *)
(* (WatchInstall).  Queues, groups and slots of catch-up passes are in     *)
(* WatchRegistry; here a registration only has the state of its pass.      *)
(* A file's content is abstracted to: the index has it, or is stale.       *)
(***************************************************************************)
EXTENDS Naturals, FiniteSets, FiniteSetsExt

CONSTANTS
    Reg,          \* registrations, numbered in the order of snapshot_roots
    Corpus,       \* Corpus[r]: registrations of one corpus share its lock
    Path,         \* directory roots, numbered by depth
    File,
    Under,        \* Under[p]: the files below a root
    Allows,       \* Allows[r]: the files r's corpus selects
    Offer,        \* Offer[r]: the root sets r may be registered with
    Booted,       \* registrations of the boot configuration
    MaxPending,   \* MAX_PENDING_PATHS
    MaxEdits,     \* bound on file changes
    MaxRegs,      \* bound on registrations after the boot
    MaxFaults,    \* bound on failed passes, locks and writes and on deaths of the pump
    None

ASSUME FeedAssumption ==
    /\ Path \subseteq Nat /\ Reg \subseteq Nat
    /\ Under \in [Path -> SUBSET File] /\ Allows \in [Reg -> SUBSET File]
    /\ Offer \in [Reg -> SUBSET SUBSET Path]
    /\ Booted \in [Reg -> SUBSET Path]
    /\ MaxPending \in Nat \ {0}
    /\ MaxEdits \in Nat /\ MaxRegs \in Nat /\ MaxFaults \in Nat

VARIABLES
    regs,       \* roots of each registration; {}: not registered
    pass,       \* catch-up state of each registration
    dirty,      \* registrations with pending work
    changed,    \* permit of the registry's `changed`
    moved,      \* the registry's generation differs from last_reconciled
    stale,      \* <<r, f>>: r's rows for f are not those of the file
    plan,       \* files a running pass found to be indexed again
    current,    \* those of them unchanged since the pass read them
    raw,        \* events the debouncer holds back
    telling,    \* the debouncer recorded a batch and is about to wake the pump
    pending, overflow,   \* PendingPaths
    wake,       \* permit of `wake`
    at, roots,  \* the pump: where it is, and PumpState.roots
    batch,      \* drained paths not handled yet
    hand,       \* the path being handled
    edits, registrations, faults,
    missed      \* history: stale pairs no event is owed for

registry == <<regs, pass, dirty, changed, moved>>
index    == <<stale, plan, current>>
feed     == <<raw, telling, pending, overflow, wake>>
pump     == <<at, roots, batch, hand>>
bounds   == <<edits, registrations, faults>>
vars     == <<registry, index, feed, pump, bounds, missed>>

Pairs == Reg \X File
Idle == [stage |-> "idle", file |-> None, reg |-> None, fresh |-> FALSE]

\* "gated": a failed pass waits for the tick; "waits": admitted, before it
\* has the corpus lock.
PassStates == {"done", "queued", "gated", "waits", "runs"}

TypeOK ==
    /\ regs \in [Reg -> SUBSET Path] /\ roots \in [Reg -> SUBSET Path]
    /\ pass \in [Reg -> PassStates] /\ dirty \subseteq Reg
    /\ changed \in BOOLEAN /\ moved \in BOOLEAN
    /\ stale \subseteq Pairs /\ missed \subseteq Pairs
    /\ plan \in [Reg -> SUBSET File] /\ current \in [Reg -> SUBSET File]
    /\ raw \subseteq File /\ telling \in BOOLEAN
    /\ pending \subseteq File /\ Cardinality(pending) <= MaxPending
    /\ overflow \in BOOLEAN /\ wake \in BOOLEAN
    /\ at \in {"down", "parked", "woken", "handling"}
    /\ batch \subseteq File
    /\ hand \in [stage : {"idle", "lock", "write"}, file : File \cup {None},
                 reg : Reg \cup {None}, fresh : BOOLEAN]
    /\ edits \in 0..MaxEdits /\ registrations \in 0..MaxRegs
    /\ faults \in 0..MaxFaults

\* The files r's corpus selects below the given roots.
Scan(r, ps) == UNION {Under[p] : p \in ps} \cap Allows[r]

\* The boot catch-up has indexed the boot corpora.
Init ==
    /\ regs = Booted /\ pass = [r \in Reg |-> "done"] /\ dirty = {}
    /\ changed = FALSE /\ moved = FALSE
    /\ stale = {} /\ missed = {}
    /\ plan = [r \in Reg |-> {}] /\ current = [r \in Reg |-> {}]
    /\ raw = {} /\ telling = FALSE /\ pending = {} /\ overflow = FALSE /\ wake = FALSE
    /\ at = "down" /\ roots = [r \in Reg |-> {}] /\ batch = {} /\ hand = Idle
    /\ edits = 0 /\ registrations = 0 /\ faults = 0

Registered == {r \in Reg : regs[r] # {}}
Signalled == changed' = TRUE /\ moved' = TRUE

\* mark_dirty_locked: a pass that is already due or running stays as it is.
Dirtied(ids) == [r \in Reg |-> IF r \in ids /\ pass[r] = "done" THEN "queued" ELSE pass[r]]

-----------------------------------------------------------------------------
(* Files, registrations and the debouncer thread.                          *)

\* A file is changed, created or deleted; heard: the event reaches the
\* debouncer of a live pump.
Change(f, heard) ==
    LET hit == {<<r, f>> : r \in {x \in Registered : f \in Scan(x, regs[x])}} IN
    /\ edits < MaxEdits /\ edits' = edits + 1
    /\ heard => at # "down"
    /\ stale' = stale \cup hit
    /\ missed' = IF heard THEN missed \ hit ELSE missed \cup hit
    /\ current' = [r \in Reg |-> current[r] \ {f}]
    /\ hand' = [hand EXCEPT !.fresh = @ /\ hand.file # f]
    /\ raw' = IF heard THEN raw \cup {f} ELSE raw
    /\ UNCHANGED <<registry, plan, telling, pending, overflow, wake, at, roots, batch,
                   registrations, faults>>

\* register: the registration starts over with a queued pass, and a pass it
\* had running no longer counts for it.
register(r, ps) ==
    /\ registrations < MaxRegs /\ registrations' = registrations + 1
    /\ ps \in Offer[r] /\ ps # regs[r]
    /\ regs' = [regs EXCEPT ![r] = ps]
    /\ pass' = [pass EXCEPT ![r] = "queued"] /\ dirty' = dirty \ {r}
    /\ stale' = {x \in stale : x[1] # r} \cup ({r} \X Scan(r, ps))
    /\ missed' = {x \in missed : x[1] # r}
    /\ plan' = [plan EXCEPT ![r] = {}] /\ current' = [current EXCEPT ![r] = {}]
    /\ Signalled
    /\ UNCHANGED <<feed, pump, edits, faults>>

\* The paths of a debounced batch the buffer takes in: a full buffer keeps
\* the paths it has and remembers only that some did not fit.
record_pending(ps) ==
    /\ pending' = pending \cup ps /\ Cardinality(pending') <= MaxPending
    /\ overflow' = (overflow \/ raw \ pending' # {})

\* The debouncer calls back with what it collected; which paths fit first is
\* the order of the events.
Debounced ==
    /\ raw # {} /\ ~telling /\ at # "down"
    /\ \E ps \in SUBSET raw :
          /\ ps # raw => Cardinality(pending \cup ps) = MaxPending
          /\ record_pending(ps)
    /\ raw' = {} /\ telling' = TRUE
    /\ UNCHANGED <<registry, index, wake, pump, bounds, missed>>

\* wake.notify_one leaves a permit whether or not the pump waits for it.
notify_one ==
    /\ telling /\ telling' = FALSE /\ wake' = TRUE
    /\ UNCHANGED <<registry, index, raw, pending, overflow, pump, bounds, missed>>

-----------------------------------------------------------------------------
(* The pump's life and its loop.                                           *)

\* reconcile: the snapshot of the roots, then every queued registration whose
\* retry is not gated is admitted to a pass (admit_next_catch_up).
Reconcile(states) ==
    /\ roots' = regs
    /\ pass' = [r \in Reg |-> IF r \in Registered /\ states[r] = "queued" THEN "waits" ELSE states[r]]
    /\ moved' = FALSE

\* A new pump has an empty buffer and reconciles once.
StartPump ==
    /\ at = "down" /\ at' = "parked"
    /\ raw' = {} /\ telling' = FALSE /\ pending' = {} /\ overflow' = FALSE /\ wake' = FALSE
    /\ batch' = {} /\ hand' = Idle
    /\ Reconcile(pass)
    /\ UNCHANGED <<regs, dirty, changed, index, bounds, missed>>

\* The pump panics: what the debouncer, the buffer and the batch held is gone.
\* Running passes go on.
PumpDies ==
    /\ faults < MaxFaults /\ faults' = faults + 1
    /\ at # "down" /\ at' = "down"
    /\ roots' = [r \in Reg |-> {}]
    /\ raw' = {} /\ telling' = FALSE /\ pending' = {} /\ overflow' = FALSE /\ wake' = FALSE
    /\ batch' = {} /\ hand' = Idle
    /\ missed' = stale
    /\ UNCHANGED <<registry, index, edits, registrations>>

\* The arm of the registry's `changed`.
RegistryChanged ==
    /\ at = "parked" /\ changed /\ changed' = FALSE
    /\ Reconcile(pass)
    /\ UNCHANGED <<regs, dirty, index, feed, at, batch, hand, bounds, missed>>

\* Mutant: the tick forgets to lift the gate of failed passes.
mark_reconcile_due_gated ==
    [r \in Reg |-> IF r \in Registered /\ pass[r] = "done" THEN "queued" ELSE pass[r]]

\* mark_reconcile_due_all: every registration is due, a gated retry too.
mark_reconcile_due_all ==
    [r \in Reg |-> IF r \in Registered /\ pass[r] \in {"done", "gated"} THEN "queued" ELSE pass[r]]

\* The reconcile tick; its reload of repository layers is in WatchInstall.
Tick ==
    /\ at = "parked"
    /\ Reconcile(mark_reconcile_due_all) /\ changed' = TRUE
    /\ UNCHANGED <<regs, dirty, index, feed, at, batch, hand, bounds, missed>>

\* The wake arm, with the reconcile that makes up for a missed signal.
Woken ==
    /\ at = "parked" /\ wake /\ wake' = FALSE /\ at' = "woken"
    /\ IF moved THEN Reconcile(pass) ELSE UNCHANGED <<roots, pass, moved>>
    /\ UNCHANGED <<regs, dirty, changed, index, raw, telling, pending, overflow, batch, hand,
                   bounds, missed>>

\* A pass that is running is left alone by mark_reconcile_due_all: of the
\* dropped paths it covers only those it has yet to read.
Uncovered ==
    {x \in stale : /\ pass[x[1]] = "runs" /\ x[1] \notin dirty
                   /\ x[2] \notin current[x[1]] \cup pending}

\* The buffer is taken as a whole; paths it could not hold are made good by
\* passes of all registrations.
Drain ==
    /\ at = "woken" /\ at' = "handling"
    /\ batch' = pending /\ pending' = {} /\ overflow' = FALSE
    /\ IF overflow
       THEN Reconcile(mark_reconcile_due_all) /\ changed' = TRUE
       ELSE UNCHANGED <<roots, pass, moved, changed>>
    /\ missed' = missed \cup (IF overflow THEN Uncovered ELSE {})
    /\ UNCHANGED <<regs, dirty, index, raw, telling, wake, hand, bounds>>

BatchDone ==
    /\ at = "handling" /\ batch = {} /\ hand = Idle /\ at' = "parked"
    /\ UNCHANGED <<registry, index, feed, roots, batch, hand, bounds, missed>>

-----------------------------------------------------------------------------
(* handle_changed_path.                                                    *)

\* The deepest root above f, of the first registration that has it.  Its
\* corpus may not select f: then no broader root claims the event.
Owner(f, rs) ==
    LET above == {x \in Reg \X Path : x[2] \in rs[x[1]] /\ f \in Under[x[2]]}
        deepest == {x \in above : \A y \in above : y[2] <= x[2]}
    IN  CHOOSE x \in deepest : \A y \in deepest : x[1] <= y[1]

owning_corpus(f, rs) ==
    IF \E r \in Reg : \E p \in rs[r] : f \in Under[p]
    THEN LET o == Owner(f, rs) IN IF f \in Allows[o[1]] THEN o ELSE None
    ELSE None

\* Registrations that share the owner's root and corpus.
registrations_for_root(o) ==
    IF o = None THEN {} ELSE {r \in Reg : o[2] \in regs[r] /\ Corpus[r] = Corpus[o[1]]}

\* Mutant: the work is recorded only once the resources are there.
resolve_registration_config_late(matches, ok) ==
    IF matches = {} \/ ~ok THEN UNCHANGED <<pass, dirty, changed, moved>>
    ELSE pass' = Dirtied(matches) /\ dirty' = dirty \cup matches /\ Signalled

\* Every registration that shares the root records the path as pending work,
\* before anything can fail.
resolve_registration_config(matches, ok) ==
    IF matches = {} THEN UNCHANGED <<pass, dirty, changed, moved>>
    ELSE pass' = Dirtied(matches) /\ dirty' = dirty \cup matches /\ Signalled

\* Registrations whose corpus has f without sharing the root the pump found
\* for it: no event is owed to them.
Bystanders(f, matches) ==
    LET now == owning_corpus(f, regs)
        owed == IF roots = regs THEN registrations_for_root(now) ELSE matches
    IN  Registered \ owed

\* The stat-only gate: the stored mtime is the file's.
mtime_matches_last_index(r, f) == <<r, f>> \notin stale

\* One path: its owner, the pending work, the resources, the mtime gate.  A
\* file whose rows are current is shed; with no registration left the rows of
\* a corpus outside the registry are written.
HandlePath(f, ok) ==
    LET matches == registrations_for_root(owning_corpus(f, roots))
        first == Min(matches)
    IN  /\ at = "handling" /\ hand = Idle /\ f \in batch
        /\ batch' = batch \ {f}
        /\ resolve_registration_config(matches, ok)
        /\ faults' = IF ok THEN faults ELSE faults + 1
        /\ ~ok => faults < MaxFaults /\ matches # {}
        /\ hand' = IF ok /\ matches # {} /\ ~mtime_matches_last_index(first, f)
                   THEN [stage |-> "lock", file |-> f, reg |-> first, fresh |-> FALSE] ELSE Idle
        /\ missed' = missed \cup (stale \cap (Bystanders(f, matches) \X {f}))
        /\ UNCHANGED <<regs, index, feed, at, roots, edits, registrations>>

\* The corpus lock: held by a pass from its scan to its end, and by the
\* handler from its read to its write.
CorpusFree(r) ==
    /\ \A x \in Reg : pass[x] = "runs" => Corpus[x] # Corpus[r]
    /\ hand.stage = "write" => Corpus[hand.reg] # Corpus[r]

\* acquire_mutation_guard, then the file is read under the lock.
HandleRead ==
    /\ hand.stage = "lock" /\ CorpusFree(hand.reg)
    /\ hand' = [hand EXCEPT !.stage = "write", !.fresh = TRUE]
    /\ UNCHANGED <<registry, index, feed, at, roots, batch, bounds, missed>>

\* The rows are written, or pruned for a file that is gone.
HandleWrite ==
    /\ hand.stage = "write"
    /\ stale' = IF hand.fresh /\ hand.reg \in Registered THEN stale \ {<<hand.reg, hand.file>>}
                ELSE stale
    /\ hand' = Idle
    /\ UNCHANGED <<registry, plan, current, feed, at, roots, batch, bounds, missed>>

\* The guard, the read or the write fails: only the pending work remains.
HandleFails ==
    /\ hand # Idle /\ faults < MaxFaults /\ faults' = faults + 1
    /\ hand' = Idle
    /\ UNCHANGED <<registry, index, feed, at, roots, batch, edits, registrations, missed>>

-----------------------------------------------------------------------------
(* Catch-up passes.                                                        *)

\* The scan finds the stale files; content changed later is not in the plan.
PassScans(r) ==
    LET found == {f \in File : <<r, f>> \in stale} IN
    /\ pass[r] = "waits" /\ CorpusFree(r)
    /\ pass' = [pass EXCEPT ![r] = "runs"]
    /\ dirty' = dirty
    /\ plan' = [plan EXCEPT ![r] = found] /\ current' = [current EXCEPT ![r] = found]
    /\ UNCHANGED <<regs, changed, moved, stale, feed, pump, bounds, missed>>

\* finish_catch_up after a successful pass; pending work recorded meanwhile
\* queues another one.
PassEnds(r) ==
    /\ pass[r] = "runs"
    /\ stale' = (stale \ ({r} \X current[r])) \cup ({r} \X (plan[r] \ current[r]))
    /\ missed' = missed \ ({r} \X current[r])
    /\ plan' = [plan EXCEPT ![r] = {}] /\ current' = [current EXCEPT ![r] = {}]
    /\ pass' = [pass EXCEPT ![r] = IF r \in dirty THEN "queued" ELSE "done"]
    /\ dirty' = dirty \ {r}
    /\ Signalled
    /\ UNCHANGED <<regs, feed, pump, bounds>>

\* A failed pass is pending again and gated until the tick.
PassFails(r) ==
    /\ pass[r] \in {"waits", "runs"} /\ faults < MaxFaults /\ faults' = faults + 1
    /\ plan' = [plan EXCEPT ![r] = {}] /\ current' = [current EXCEPT ![r] = {}]
    /\ pass' = [pass EXCEPT ![r] = "gated"] /\ dirty' = dirty \cup {r}
    /\ Signalled
    /\ UNCHANGED <<regs, stale, feed, pump, edits, registrations, missed>>

-----------------------------------------------------------------------------
Next ==
    \/ \E f \in File, heard \in BOOLEAN : Change(f, heard)
    \/ \E r \in Reg : \E ps \in Offer[r] : register(r, ps)
    \/ Debounced \/ notify_one
    \/ StartPump \/ PumpDies \/ RegistryChanged \/ Tick
    \/ Woken \/ Drain \/ BatchDone
    \/ \E f \in File, ok \in BOOLEAN : HandlePath(f, ok)
    \/ HandleRead \/ HandleWrite \/ HandleFails
    \/ \E r \in Reg : PassScans(r) \/ PassEnds(r) \/ PassFails(r)

Spec == Init /\ [][Next]_vars

\* The supervisor restarts the pump, and what it does between two rounds of its
\* select! it finishes; the tick fires again and again and select! picks among
\* the ready arms at random; waiters for the corpus lock are served in turn.
PumpStep ==
    \/ StartPump \/ Drain \/ BatchDone \/ HandleWrite
    \/ \E f \in File : HandlePath(f, TRUE)

Fairness ==
    /\ WF_vars(PumpStep) /\ SF_vars(HandleRead) /\ SF_vars(Tick)
    /\ \A r \in Reg : SF_vars(PassScans(r)) /\ WF_vars(PassEnds(r))

FairSpec == Spec /\ Fairness

-----------------------------------------------------------------------------
(* Properties.                                                             *)

\* Once files stop changing, every change is indexed in the end (run_pump's
\* "bounding staleness"): also one whose event never came, was dropped by a
\* full buffer, died with the pump, belongs to the deeper of two roots, or met
\* a failing lock, read, write or pass.
ChangeCovered == []<>(stale = {})

\* The registration will be, or is being, caught up with f.
Due(r, f) ==
    \/ pass[r] \in {"queued", "gated", "waits"}
    \/ pass[r] = "runs" /\ (r \in dirty \/ f \in current[r])

\* The pump was told of what is in the buffer.
PumpTold == wake \/ telling \/ at = "woken"

\* An event that arrived does not wait for the tick, nor for the handler to
\* succeed: while the rows of a changed file are stale the event is on its way
\* to the pump, or a pass is due that will read the file - through coalescing,
\* failures of the handler, a pass running at the same time, and
\* re-registration; and a buffer that holds it has left a permit, also when it
\* was filled while the pump drained or took another arm.  Excepted are paths
\* the full buffer dropped during a pass of their registration that had
\* already read them.
EventRemembered ==
    \A x \in stale \ missed :
       \/ x[2] \in raw \cup batch
       \/ (x[2] \in pending \/ overflow) /\ PumpTold
       \/ Due(x[1], x[2])
=============================================================================
