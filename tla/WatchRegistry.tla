---------------------------- MODULE WatchRegistry ----------------------------
(***************************************************************************)
(* The live-registration ledger of the watcher (watch/registry.rs), the    *)
(* pump that drains it and the catch-up tasks it starts.  Every method     *)
(* holds the registry mutex for its whole body, so each is one step;       *)
(* request handlers, the pump, the catch-up tasks and a cold-start waiter  *)
(* interleave between the steps.                                           *)
(*                                                                         *)
(* A registration is identified by its source and its corpus key; a        *)
(* binding stands for everything register compares: the corpus, its roots  *)
(* and the storage and embedding settings.  The key of a binding's first   *)
(* root can change on disk (a retargeted symlink).  Pending work is kept   *)
(* as "dirty": no decision tells a set of paths from a full root.          *)
(***************************************************************************)
EXTENDS Naturals, FiniteSets, Sequences, SequencesExt

CONSTANTS
    Sources, Baseline,   \* ConfigSource values
    Keys,                \* CorpusKey values: a corpus name and a root
    NameOf,              \* the name of a key
    Bindings,
    BaselineBindings,    \* corpora of the boot configuration
    FirstKey,            \* initial key of a binding's first root
    Extra,               \* keys of a binding's other roots
    Cfg,                 \* storage and embedding settings of a binding
    Offers,              \* which source's configuration may hold which binding
    Layers,              \* corpus lists a repository layer may be reloaded with
    Waited,              \* sources a cold-start request waits for
    CatchUpLimit,        \* effective_catch_up_concurrency
    MaxRuntime,          \* MAX_RUNTIME_REGISTRATIONS
    MaxChanges,          \* bound on configuration changes
    MaxRetargets,        \* bound on retargeted roots
    PumpMayDie,          \* whether the pump task can panic in this instance
    None

ASSUME RegistryAssumption ==
    /\ Baseline \in Sources
    /\ BaselineBindings \subseteq Bindings
    /\ FirstKey \in [Bindings -> Keys]
    /\ Extra \in [Bindings -> SUBSET Keys]
    /\ Offers \subseteq Sources \X Bindings
    /\ Layers \subseteq Seq(Bindings)
    /\ Waited \subseteq Sources
    /\ IsFiniteSet(Sources) /\ IsFiniteSet(Keys)
    /\ None \notin Sources \cup (Sources \X Keys)
    /\ CatchUpLimit \in Nat \ {0}
    /\ PumpMayDie \in BOOLEAN
    /\ MaxRuntime \in Nat /\ MaxChanges \in Nat /\ MaxRetargets \in Nat

\* The corpus name of a binding, the same under all its keys.
CorpusName(b) == NameOf[FirstKey[b]]

\* effective_corpora refuses a configuration that has a corpus name twice.
ASSUME NamesAssumption ==
    /\ \A b, c \in BaselineBindings : CorpusName(b) = CorpusName(c) => b = c
    /\ \A layer \in Layers : \A i, j \in DOMAIN layer :
          CorpusName(layer[i]) = CorpusName(layer[j]) => i = j

Ids == Sources \X Keys
Tasks == 1..CatchUpLimit

VARIABLES
    regs,      \* Inner.regs: its domain is the set of registered ids
    queue,     \* Inner.queue
    active,    \* Inner.active
    task,      \* the id each running catch-up task was spawned for
    signal,    \* the permit of `changed`
    pump,      \* where run_pump is
    link,      \* on disk: current key of a binding's first root
    waiter,    \* wait_first_reconcile
    changes, retargets,
    passOf,    \* history: the task whose pass took this registration
    owed       \* history: ids with an event no successful pass covers

core   == <<regs, queue, active, task, signal, pump>>
bounds == <<changes, retargets>>
ghosts == <<passOf, owed>>
vars   == <<core, link, waiter, bounds, ghosts>>

CatchUpStates == {"Queued", "InFlight", "Done"}

Registration ==
    [binding : Bindings, lockKeys : SUBSET Keys, dirty : BOOLEAN,
     catchUp : CatchUpStates, failed : BOOLEAN, reconciled : BOOLEAN, retry : BOOLEAN]

Group == [leader : Ids, lockKeys : SUBSET Keys, members : Seq(Ids), valid : BOOLEAN]

\* The registry holds only the states its methods create: `NotStarted` is
\* declared in the code and never stored.
TypeOK ==
    /\ DOMAIN regs \subseteq Ids
    /\ \A id \in DOMAIN regs : regs[id] \in Registration
    /\ queue \in Seq(Ids)
    /\ active \in Seq(Group) /\ Len(active) <= CatchUpLimit
    /\ task \in [Tasks -> Ids \cup {None}]
    /\ signal \in BOOLEAN
    /\ pump \in {"down", "parked", "reload", "refresh", "admit"}
    /\ link \in [Bindings -> Keys]
    /\ waiter \in [at : {"idle", "armed", "waiting"}, woken : BOOLEAN,
                   source : Sources \cup {None}]
    /\ changes \in 0..MaxChanges /\ retargets \in 0..MaxRetargets
    /\ passOf \in [Ids -> Tasks \cup {0}]
    /\ owed \subseteq Ids

NoWait == [at |-> "idle", woken |-> FALSE, source |-> None]

Init ==
    /\ regs = [id \in {} |-> None]
    /\ queue = <<>> /\ active = <<>>
    /\ task = [t \in Tasks |-> None]
    /\ signal = FALSE /\ pump = "down"
    /\ link = FirstKey
    /\ waiter = NoWait
    /\ changes = 0 /\ retargets = 0
    /\ passOf = [id \in Ids |-> 0]
    /\ owed = {}

-----------------------------------------------------------------------------
(* Helpers.                                                                *)

Registered == DOMAIN regs

\* SelectSeq for a set, by positions: the entries of s in S, in their order.
Only(s, S) ==
    LET I == {i \in DOMAIN s : s[i] \in S}
    IN  [n \in 1..Cardinality(I) |-> s[CHOOSE i \in I : Cardinality({j \in I : j <= i}) = n]]

corpus_lock_keys(b) == {link[b]} \cup Extra[b]

NewRegistration(b) ==
    [binding |-> b, lockKeys |-> corpus_lock_keys(b), dirty |-> FALSE,
     catchUp |-> "Queued", failed |-> FALSE, reconciled |-> FALSE, retry |-> FALSE]

\* Another source holds the same corpus key with other roots or settings.
binding_conflict(s, b) ==
    \E id \in Registered :
       /\ id[2] = link[b] /\ id[1] # s
       /\ \/ Extra[regs[id].binding] # Extra[b]
          \/ Cfg[regs[id].binding] # Cfg[b]

registration_equivalent(id, b) == id \in Registered /\ regs[id].binding = b

release_admission(ids) ==
    [i \in DOMAIN active |->
       [active[i] EXCEPT !.members = Only(@, Ids \ ids),
                         !.valid = @ /\ active[i].leader \notin ids]]

Unqueue(ids) == Only(queue, Ids \ ids)

RuntimeIds == {id \in Registered : id[1] # Baseline}

\* Mutant: admission ignores the passes that are running.
active_locks_overlap_never(keys) == FALSE

active_locks_overlap(keys) == \E i \in DOMAIN active : active[i].lockKeys \cap keys # {}

\* settled.notify_waiters: only a waiter already enabled is woken.
NotifySettled == waiter' = [waiter EXCEPT !.woken = @ \/ waiter.at # "idle"]

first_reconcile_pending(s) ==
    \E id \in Registered :
       /\ id[1] = s
       /\ ~regs[id].reconciled /\ ~regs[id].failed
       /\ regs[id].catchUp \in {"Queued", "InFlight"}

-----------------------------------------------------------------------------
(* Registration.                                                           *)

\* seed_baseline: the boot catch-up covers it, so it starts Done.
seed_baseline(b) == [NewRegistration(b) EXCEPT !.catchUp = "Done", !.reconciled = TRUE]

\* spawn_corpus_watcher, at boot and when the supervisor restarts a pump that
\* died: missing baseline corpora are seeded, then the pump reconciles once.
StartPump ==
    LET IdOf(b) == <<Baseline, link[b]>>
        new == {b \in BaselineBindings : IdOf(b) \notin Registered}
        seeded == {IdOf(b) : b \in new}
    IN  /\ pump = "down" /\ pump' = "refresh"
        /\ regs' = [i \in Registered \cup seeded |->
                      IF i \in seeded THEN seed_baseline(CHOOSE b \in new : IdOf(b) = i)
                                      ELSE regs[i]]
        /\ signal' = (signal \/ seeded # {})
        /\ UNCHANGED <<queue, active, task, link, waiter, bounds, ghosts>>

\* The pump task panics; the registry and the running passes survive it.
PumpDies ==
    /\ PumpMayDie
    /\ pump # "down" /\ pump' = "down"
    /\ UNCHANGED <<regs, queue, active, task, signal, link, waiter, bounds, ghosts>>

\* register of a new or changed binding; a conflict or a full registry
\* changes nothing.  Obsolete ids of the same corpus name are dropped.
register(s, b) ==
    LET id == <<s, link[b]>>
        obsolete == {o \in Registered : /\ o[1] = s /\ o # id
                                        /\ NameOf[o[2]] = NameOf[id[2]]}
        gone == obsolete \cup {id}
    IN  /\ changes < MaxChanges
        /\ ~registration_equivalent(id, b)
        /\ ~binding_conflict(s, b)
        /\ \/ s = Baseline
           \/ Cardinality(RuntimeIds) < MaxRuntime
           \/ id \in Registered \/ obsolete # {}
        /\ regs' = [i \in (Registered \ obsolete) \cup {id} |->
                      IF i = id THEN NewRegistration(b) ELSE regs[i]]
        /\ queue' = Append(Unqueue(gone), id)
        /\ active' = release_admission(gone)
        /\ signal' = TRUE
        /\ changes' = changes + 1
        /\ passOf' = [i \in Ids |-> IF i \in gone THEN 0 ELSE passOf[i]]
        /\ owed' = owed \ obsolete
        /\ UNCHANGED <<task, pump, link, waiter, retargets>>

\* register of an unchanged binding recomputes the lock keys.
register_unchanged(s, b) ==
    LET id == <<s, link[b]>> IN
    /\ registration_equivalent(id, b)
    /\ regs[id].lockKeys # corpus_lock_keys(b)
    /\ regs' = [regs EXCEPT ![id].lockKeys = corpus_lock_keys(b)]
    /\ UNCHANGED <<queue, active, task, signal, pump, link, waiter, bounds, ghosts>>

\* The body of replace_source, with the corpora of the layer in order.
ReplaceSource(s, bs) ==
    LET IdOf(b) == <<s, link[b]>>
        ids == {IdOf(bs[i]) : i \in DOMAIN bs}
        removed == {id \in Registered : id[1] = s /\ id \notin ids}
        fresh == Only(bs, {b \in Bindings : ~registration_equivalent(IdOf(b), b)})
        freshIds == {IdOf(fresh[i]) : i \in DOMAIN fresh}
        gone == removed \cup freshIds
    IN  /\ pump = "reload"
        /\ changes < MaxChanges
        /\ s # Baseline /\ \E id \in Registered : id[1] = s
        /\ \A i \in DOMAIN bs : ~binding_conflict(s, bs[i])
        /\ regs' = [i \in (Registered \ removed) \cup freshIds |->
                      IF i \in freshIds
                      THEN NewRegistration(CHOOSE b \in ToSet(fresh) : IdOf(b) = i)
                      ELSE IF i \in ids
                      THEN [regs[i] EXCEPT !.lockKeys = corpus_lock_keys(regs[i].binding)]
                      ELSE regs[i]]
        /\ queue' = Unqueue(gone) \o [i \in DOMAIN fresh |-> IdOf(fresh[i])]
        /\ active' = release_admission(gone)
        /\ signal' = TRUE
        /\ changes' = changes + 1
        /\ passOf' = [i \in Ids |-> IF i \in gone THEN 0 ELSE passOf[i]]
        /\ owed' = owed \ removed
        /\ UNCHANGED <<task, pump, link, retargets>>

\* Mutant: waiters are not told that a registration they wait for is gone.
replace_source_silent(s, bs) == ReplaceSource(s, bs) /\ UNCHANGED waiter

replace_source(s, bs) == ReplaceSource(s, bs) /\ NotifySettled

-----------------------------------------------------------------------------
(* File events and the reconcile tick.                                     *)

\* mark_dirty_locked for a sequence of ids; Inner.queue after it.
DueOrder(ids) == queue \o SetToSeq({id \in ids : regs[id].catchUp = "Done"})

Dirtied(r) == [r EXCEPT !.catchUp = IF @ = "Done" THEN "Queued" ELSE @]

\* record_pending, from the pump's batch of changed paths.  The id was
\* looked up under an earlier lock and may be gone.
record_pending(id) ==
    /\ pump = "parked"
    /\ regs' = [i \in Registered |->
                  IF i = id THEN [Dirtied(regs[i]) EXCEPT !.dirty = TRUE] ELSE regs[i]]
    /\ queue' = DueOrder({id} \cap Registered)
    /\ signal' = TRUE
    /\ owed' = owed \cup ({id} \cap Registered)
    /\ UNCHANGED <<active, task, pump, link, waiter, bounds, passOf>>

\* The pump's reconcile tick, which reloads the repository layers first.
StartTick ==
    /\ pump = "parked"
    /\ pump' = "reload"
    /\ UNCHANGED <<regs, queue, active, task, signal, link, waiter, bounds, ghosts>>

\* mark_reconcile_due_all, on the tick or when the event buffer overflowed.
mark_reconcile_due_all ==
    /\ pump = "reload"
    /\ regs' = [i \in Registered |-> [Dirtied(regs[i]) EXCEPT !.retry = FALSE]]
    /\ queue' = DueOrder(Registered)
    /\ signal' = TRUE /\ pump' = "refresh"
    /\ UNCHANGED <<active, task, link, waiter, bounds, ghosts>>

\* The `changed` arm of run_pump consumes the permit and reconciles.
WakePump ==
    /\ pump = "parked" /\ signal
    /\ signal' = FALSE /\ pump' = "refresh"
    /\ UNCHANGED <<regs, queue, active, task, link, waiter, bounds, ghosts>>

\* The generation backstop reconciles before a batch and leaves the permit.
BackstopReconcile ==
    /\ pump = "parked" /\ signal
    /\ pump' = "refresh"
    /\ UNCHANGED <<regs, queue, active, task, signal, link, waiter, bounds, ghosts>>

\* Outside the daemon: the first root of a binding is retargeted, but never
\* so that two registrations of one source come to have one key.
Retarget(b, k) ==
    /\ retargets < MaxRetargets
    /\ \A i, j \in Registered :
          regs[i].binding = b /\ i[1] = j[1] /\ i # j => regs[j].binding # b /\ link[regs[j].binding] # k
    /\ k # link[b] /\ NameOf[k] = NameOf[link[b]]
    /\ link' = [link EXCEPT ![b] = k]
    /\ retargets' = retargets + 1
    /\ UNCHANGED <<core, waiter, changes, ghosts>>

\* Mutant: the queue keeps the old ids.
refresh_roots_keeps_queue ==
    LET stale == {id \in Registered : link[regs[id].binding] # id[2]}
        NewId(id) == <<id[1], link[regs[id].binding]>>
        Moved(id) == IF id \in stale THEN NewId(id) ELSE id
        running == {id \in stale : regs[id].catchUp = "InFlight"}
        Old(id) == IF \E o \in stale : NewId(o) = id
                   THEN CHOOSE o \in stale : NewId(o) = id ELSE id
    IN  /\ pump = "refresh" /\ pump' = "admit"
        /\ regs' = [id \in {Moved(o) : o \in Registered} |->
                      IF Old(id) \in running
                      THEN [regs[Old(id)] EXCEPT !.catchUp = "Queued"]
                      ELSE regs[Old(id)]]
        /\ queue' = queue \o [i \in DOMAIN SetToSeq(running) |-> NewId(SetToSeq(running)[i])]
        /\ active' = release_admission(running)
        /\ passOf' = [id \in Ids |-> IF id \in stale THEN 0 ELSE passOf[id]]
        /\ owed' = {Moved(id) : id \in owed \cap Registered}
        /\ UNCHANGED <<task, signal, link, waiter, bounds>>

\* refresh_roots re-keys registrations whose first root resolves elsewhere.
\* A running one is queued again under its new id; lock keys stay as they
\* were computed at registration.
refresh_roots ==
    LET stale == {id \in Registered : link[regs[id].binding] # id[2]}
        NewId(id) == <<id[1], link[regs[id].binding]>>
        Moved(id) == IF id \in stale THEN NewId(id) ELSE id
        running == {id \in stale : regs[id].catchUp = "InFlight"}
        Old(id) == IF \E o \in stale : NewId(o) = id
                   THEN CHOOSE o \in stale : NewId(o) = id ELSE id
    IN  /\ pump = "refresh" /\ pump' = "admit"
        /\ regs' = [id \in {Moved(o) : o \in Registered} |->
                      IF Old(id) \in running
                      THEN [regs[Old(id)] EXCEPT !.catchUp = "Queued"]
                      ELSE regs[Old(id)]]
        /\ queue' = LET old == queue \o SetToSeq(running)
                    IN  [i \in DOMAIN old |-> IF old[i] \in stale THEN NewId(old[i]) ELSE old[i]]
        /\ active' = release_admission(running)
        /\ passOf' = [id \in Ids |-> IF id \in stale THEN 0 ELSE passOf[id]]
        /\ owed' = {Moved(id) : id \in owed \cap Registered}
        /\ UNCHANGED <<task, signal, link, waiter, bounds>>

-----------------------------------------------------------------------------
(* Admission and completion of catch-up passes.                            *)

Live(id) == id \in Registered /\ regs[id].catchUp = "Queued"

Admissible(id) == Live(id) /\ ~regs[id].retry /\ ~active_locks_overlap(regs[id].lockKeys)

\* What the scan of a queue prefix puts back: the entries it deferred for
\* an overlapping pass in front, the ones gated until the tick at the back.
deferred(prefix) == Only(prefix, {id \in Ids : Live(id) /\ ~regs[id].retry})
gated(prefix) == Only(prefix, {id \in Ids : Live(id) /\ regs[id].retry})

\* Queued registrations of the leader's corpus share its pass.
group_members(leader, rest) ==
    Only(rest, {id \in Ids : /\ Live(id) /\ id[2] = leader[2]
                             /\ regs[id].binding = regs[leader].binding})

begin_next_catch_up(t) ==
    LET n == SelectInSeq(queue, Admissible)
        leader == queue[n]
        prefix == SubSeq(queue, 1, n - 1)
        rest == SubSeq(queue, n + 1, Len(queue))
        members == <<leader>> \o group_members(leader, rest)
    IN  /\ pump = "admit"
        /\ Len(active) < CatchUpLimit
        /\ n # 0
        /\ task[t] = None /\ \A u \in 1..(t - 1) : task[u] # None
        /\ task' = [task EXCEPT ![t] = leader]
        /\ regs' = [id \in Registered |->
                      IF id \in ToSet(members) THEN [regs[id] EXCEPT !.catchUp = "InFlight"]
                                               ELSE regs[id]]
        /\ active' = Append(active, [leader |-> leader, lockKeys |-> regs[leader].lockKeys,
                                     members |-> members, valid |-> TRUE])
        /\ queue' = deferred(prefix) \o Only(rest, Ids \ ToSet(members)) \o gated(prefix)
        /\ passOf' = [id \in Ids |-> IF id \in ToSet(members) THEN t ELSE passOf[id]]
        /\ owed' = owed \ ToSet(members)
        /\ UNCHANGED <<signal, pump, link, waiter, bounds>>

\* begin_next_catch_up returns None: the pump parks.  A scan that found
\* nothing to admit moves the gated entries behind the deferred ones.
NothingToAdmit ==
    /\ pump = "admit"
    /\ \/ Len(active) >= CatchUpLimit /\ UNCHANGED queue
       \/ /\ Len(active) < CatchUpLimit
          /\ SelectInSeq(queue, Admissible) = 0
          /\ queue' = deferred(queue) \o gated(queue)
    /\ pump' = "parked"
    /\ UNCHANGED <<regs, active, task, signal, link, waiter, bounds, ghosts>>

\* Mutant: pending work recorded during the pass is dropped.
SettledForgets(m, leader, ok) ==
    [regs[m] EXCEPT !.reconciled = @ \/ ok \/ m = leader,
                    !.failed = ~ok,
                    !.retry = @ \/ ~ok,
                    !.dirty = ~ok,
                    !.catchUp = IF ok THEN "Done" ELSE "Queued"]

\* A member of a finished pass.  Only the leader gives up its pending work;
\* a failed pass dirties everyone and gates the retry to the tick.
Settled(m, leader, ok) ==
    [regs[m] EXCEPT !.reconciled = @ \/ ok \/ m = leader,
                    !.failed = ~ok,
                    !.retry = @ \/ ~ok,
                    !.dirty = IF ok THEN @ /\ m # leader ELSE TRUE,
                    !.catchUp = IF ok /\ ~regs[m].dirty THEN "Done" ELSE "Queued"]

\* The members finish_catch_up settles, g being the group it removed (0 when
\* no active group has this leader).
FinishedMembers(id, g) ==
    IF g # 0 /\ active[g].members # <<>> THEN active[g].members
    ELSE IF (g = 0 \/ active[g].valid) /\ id \in Registered THEN <<id>>
    ELSE <<>>

\* finish_catch_up by task t; ok is the outcome of the pass.
Finish(t, ok, g) ==
    LET id == task[t]
        members == FinishedMembers(id, g)
        requeued == Only(members, {m \in Registered : Settled(m, id, ok).catchUp = "Queued"})
    IN  /\ regs' = [i \in Registered |-> IF i \in ToSet(members) THEN Settled(i, id, ok)
                                                                 ELSE regs[i]]
        /\ queue' = queue \o requeued
        /\ active' = IF g = 0 THEN active ELSE RemoveAt(active, g)
        /\ task' = [task EXCEPT ![t] = None]
        /\ passOf' = [i \in Ids |-> IF passOf[i] = t THEN 0 ELSE passOf[i]]
        /\ owed' = IF ok THEN owed ELSE owed \cup {i \in Registered : passOf[i] = t}
        /\ IF g = 0 /\ id \notin Registered
           THEN UNCHANGED <<signal, waiter>>
           ELSE signal' = TRUE /\ NotifySettled
        /\ UNCHANGED <<pump, link, bounds>>

finish_catch_up(t, ok) ==
    /\ task[t] # None
    /\ Finish(t, ok, SelectInSeq(active, LAMBDA grp : grp.leader = task[t]))

-----------------------------------------------------------------------------
(* A cold-start ground request waits for its source's first passes.        *)

\* The notification is enabled before the condition is checked.
ArmWait(s) ==
    /\ waiter.at = "idle" /\ s \in Waited
    /\ waiter' = [at |-> "armed", woken |-> FALSE, source |-> s]
    /\ UNCHANGED <<core, link, bounds, ghosts>>

CheckWait ==
    /\ waiter.at = "armed"
    /\ waiter' = IF first_reconcile_pending(waiter.source)
                 THEN [waiter EXCEPT !.at = "waiting"] ELSE NoWait
    /\ UNCHANGED <<core, link, bounds, ghosts>>

\* The notification arrives: the loop arms a new one.
WokenWait ==
    /\ waiter.at = "waiting" /\ waiter.woken
    /\ waiter' = [waiter EXCEPT !.at = "armed", !.woken = FALSE]
    /\ UNCHANGED <<core, link, bounds, ghosts>>

\* The deadline passes.
TimeoutWait ==
    /\ waiter.at = "waiting"
    /\ waiter' = NoWait
    /\ UNCHANGED <<core, link, bounds, ghosts>>

-----------------------------------------------------------------------------
Next ==
    \/ StartPump \/ PumpDies
    \/ \E o \in Offers : register(o[1], o[2]) \/ register_unchanged(o[1], o[2])
    \/ \E s \in Sources, bs \in Layers : replace_source(s, bs)
    \/ \E id \in Ids : record_pending(id)
    \/ StartTick \/ mark_reconcile_due_all
    \/ WakePump \/ BackstopReconcile
    \/ refresh_roots
    \/ \E b \in Bindings, k \in Keys : Retarget(b, k)
    \/ \E t \in Tasks : begin_next_catch_up(t)
    \/ NothingToAdmit
    \/ \E t \in Tasks, ok \in BOOLEAN : finish_catch_up(t, ok)
    \/ \E s \in Waited : ArmWait(s)
    \/ CheckWait \/ WokenWait \/ TimeoutWait

Spec == Init /\ [][Next]_vars

-----------------------------------------------------------------------------
(* Properties.                                                             *)

Occurrences(id) == Cardinality({i \in DOMAIN queue : queue[i] = id})

\* The queue holds every Queued registration exactly once and nothing else
\* (Inner.queue "holds ids that are `Queued`").
QueueExact ==
    \A id \in Ids :
       Occurrences(id) = IF id \in Registered /\ regs[id].catchUp = "Queued" THEN 1 ELSE 0

\* A running catch-up task holds one admission slot, and only such a task does.
SlotsExact == Len(active) = Cardinality({t \in Tasks : task[t] # None})

\* Queue and slots stay exact through re-registration, reload, re-keying,
\* events, ticks and finished passes, also when a registration vanishes during
\* its pass: none is forgotten, none runs twice for one reason, no slot leaks.
AdmissionExact == QueueExact /\ SlotsExact

\* A registration is InFlight exactly while the pass that took it runs, and
\* "two groups never share a `CorpusKey`".  The late finish of a pass whose
\* registration was replaced meanwhile must not settle the new one, and a
\* running pass must not lose its registration.  Stated until a root is
\* retargeted: from then on lock keys may be out of date.
PassOwned ==
    retargets = 0 =>
       /\ \A id \in Ids : (id \in Registered /\ regs[id].catchUp = "InFlight") <=> passOf[id] # 0
       /\ \A a, b \in Registered :
             passOf[a] # 0 /\ passOf[b] # 0 /\ passOf[a] # passOf[b] => a[2] # b[2]

\* A file event recorded for a registration is never forgotten: until a pass
\* that started after it succeeds, the registration is queued, or running
\* with the follow-up recorded as pending, or running a pass that began later.
\* Stated, as PassOwned is, until a root is retargeted.
EventCovered ==
    retargets = 0 => \A id \in owed :
       /\ id \in Registered
       /\ \/ regs[id].catchUp = "Queued"
          \/ regs[id].catchUp = "InFlight" /\ regs[id].dirty

\* A waiter that has gone to sleep is woken when its condition became false:
\* settled has no permit memory, so a settle between check and sleep, or a
\* reload that removed the corpus, must reach a waiter enabled before.
NoLostWakeup ==
    (waiter.at = "waiting" /\ ~first_reconcile_pending(waiter.source)) => waiter.woken
=============================================================================
