---------------------------- MODULE WatchInstall ----------------------------
(***************************************************************************)
(* How the watcher pump keeps the operating system's watches in step with  *)
(* the registry (PumpState and reconcile in watch/mod.rs), and what        *)
(* `daemon status` then says of each registration.                         *)
(*                                                                         *)
(* reconcile snapshots the registry under its lock, then builds and        *)
(* applies a batch of operations while request handlers go on registering, *)
(* directories come and go, native operations fail one by one or the whole *)
(* native stream fails to restart.  A failed operation waits for the next  *)
(* reconcile tick.  Catch-up passes are in WatchRegistry, events in        *)
(* ChangeFeed; the text of an error is left out.                           *)
(***************************************************************************)
EXTENDS Naturals, FiniteSets, Sequences, SequencesExt

CONSTANTS
    Reg,          \* registration ids
    Layer,        \* those of a repository layer, reloaded on every tick
    Path,         \* directories to watch, numbered in the order of sort()
    Offer,        \* Offer[r]: the root sets r's configuration may have
    Booted,       \* the root sets of the boot configuration
    MaxChanges,   \* bound on configuration changes
    MaxDisk,      \* bound on directories appearing or vanishing
    MaxDeaths,    \* bound on deaths of the pump
    BackendMayFail,
    NoMode, Absent

Modes == {"rec", "flat"}
Roots == [path : Path, mode : Modes]

ASSUME InstallAssumption ==
    /\ Layer \subseteq Reg
    /\ Path \subseteq Nat /\ IsFiniteSet(Path)
    /\ Offer \in [Reg -> SUBSET SUBSET Roots]
    /\ Booted \in [Reg -> SUBSET Roots]
    /\ MaxChanges \in Nat /\ MaxDisk \in Nat /\ MaxDeaths \in Nat
    /\ BackendMayFail \in BOOLEAN

VARIABLES
    conf,        \* roots of each registration's corpus; {}: not registered
    regs,        \* Registration.roots
    obs,         \* Registration.observation
    dirs,        \* directories that exist
    native,      \* watches the operating system holds, by path
    stream,      \* the native event stream runs
    at,          \* where the pump is
    retry,       \* why it reconciles: WatchRetry
    built,       \* the roots refresh_roots has built and not yet stored
    snap,        \* the snapshot it reconciles against
    ops,         \* operations not yet submitted
    backend,     \* PumpState.debouncer is Some
    installed, watchRetries, unwatchRetries, degradedBackend,
    changes, churn, deaths,
    lost,        \* history: recorded watches that went void unnoticed
    reset        \* history: ids the registry shows as watched again although
                 \* the pump remembers to have marked them unavailable

registry == <<conf, regs, obs>>
pump     == <<at, retry, built, snap, ops, backend, installed, watchRetries, unwatchRetries,
              degradedBackend>>
books    == <<ops, backend, installed, watchRetries, unwatchRetries, degradedBackend>>
os       == <<dirs, native, stream>>
bounds   == <<changes, churn, deaths>>
WIvars   == <<registry, pump, os, bounds, lost, reset>>

Observations == {"watched", "retrying", "unavailable"}

WITypeOK ==
    /\ conf \in [Reg -> SUBSET Roots] /\ regs \in [Reg -> SUBSET Roots]
    /\ obs \in [Reg -> Observations]
    /\ dirs \subseteq Path
    /\ native \in [Path -> Modes \cup {NoMode}]
    /\ stream \in BOOLEAN /\ backend \in BOOLEAN
    /\ at \in {"down", "parked", "reload", "refresh", "build", "apply"}
    /\ retry \in {"tick", "change"}
    /\ built \in [Reg -> SUBSET Roots] /\ snap \in [Reg -> SUBSET Roots]
    /\ ops \in Seq([kind : {"watch", "unwatch"}, path : Path, mode : Modes \cup {NoMode}])
    /\ installed \in [Path -> Modes \cup {NoMode}]
    /\ watchRetries \in [Path -> Modes \cup {NoMode}]
    /\ unwatchRetries \in [Path -> Modes \cup {NoMode, Absent}]
    /\ degradedBackend \subseteq Reg
    /\ changes \in 0..MaxChanges /\ churn \in 0..MaxDisk /\ deaths \in 0..MaxDeaths
    /\ lost \subseteq Path /\ reset \subseteq Reg

Nowhere == [p \in Path |-> NoMode]

WIInit ==
    /\ conf = Booted /\ regs = Booted /\ built = [r \in Reg |-> {}]
    /\ obs = [r \in Reg |-> "watched"]
    /\ dirs \in SUBSET Path
    /\ native = Nowhere /\ stream = TRUE
    /\ at = "down" /\ retry = "tick" /\ snap = [r \in Reg |-> {}] /\ ops = <<>>
    /\ backend = FALSE /\ installed = Nowhere /\ watchRetries = Nowhere
    /\ unwatchRetries = [p \in Path |-> Absent] /\ degradedBackend = {}
    /\ changes = 0 /\ churn = 0 /\ deaths = 0
    /\ lost = {} /\ reset = {}

-----------------------------------------------------------------------------
(* The registry and the disk, while the pump runs.                         *)

Registered(r) == conf[r] # {}

StartsOver(r) == IF r \in degradedBackend /\ obs'[r] = "watched" THEN reset \cup {r} ELSE reset

\* A changed re-registration keeps the observation "unavailable"; any other
\* observation starts over.
register(r, roots) ==
    /\ changes < MaxChanges /\ changes' = changes + 1
    /\ roots \in Offer[r] /\ <<roots, roots>> # <<conf[r], regs[r]>> /\ roots # {}
    /\ conf' = [conf EXCEPT ![r] = roots]
    /\ regs' = [regs EXCEPT ![r] = roots]
    /\ obs' = [obs EXCEPT ![r] = IF @ = "unavailable" /\ Registered(r) THEN @ ELSE "watched"]
    /\ reset' = StartsOver(r)
    /\ UNCHANGED <<pump, os, churn, deaths, lost>>

\* The corpus of a source is changed or removed; the observation starts over.
replace_source(r, roots) ==
    /\ changes < MaxChanges /\ changes' = changes + 1
    /\ roots \in Offer[r] \cup {{}} /\ <<roots, roots>> # <<conf[r], regs[r]>>
    /\ conf' = [conf EXCEPT ![r] = roots]
    /\ regs' = [regs EXCEPT ![r] = roots]
    /\ obs' = [obs EXCEPT ![r] = "watched"]
    /\ reset' = StartsOver(r)
    /\ UNCHANGED <<pump, os, churn, deaths, lost>>

\* The tick reloads a repository layer.  A file that cannot be read or merged,
\* or that conflicts, keeps its registrations.
reload_repo_layer(r, roots) ==
    at = "reload" /\ r \in Layer /\ Registered(r) /\ replace_source(r, roots)

DirAppears(p) ==
    /\ churn < MaxDisk /\ churn' = churn + 1
    /\ p \notin dirs /\ dirs' = dirs \cup {p}
    /\ UNCHANGED <<registry, pump, native, stream, changes, deaths, lost, reset>>

\* The system drops the watch of a directory that is deleted.
DirVanishes(p) ==
    /\ churn < MaxDisk /\ churn' = churn + 1
    /\ p \in dirs /\ dirs' = dirs \ {p}
    /\ native' = [native EXCEPT ![p] = NoMode]
    /\ lost' = IF installed[p] # NoMode THEN lost \cup {p} ELSE lost
    /\ UNCHANGED <<registry, pump, stream, changes, deaths, reset>>

-----------------------------------------------------------------------------
(* The pump's life and its loop.                                           *)

\* spawn_corpus_watcher_with: a pump starts with no watches, a new debouncer
\* if the backend allows one, and reconciles as on a tick.
StartPump ==
    /\ at = "down" /\ at' = "refresh" /\ retry' = "tick"
    /\ backend' \in IF BackendMayFail THEN BOOLEAN ELSE {TRUE}
    /\ built' = conf /\ snap' = [r \in Reg |-> {}] /\ ops' = <<>>
    /\ installed' = Nowhere /\ watchRetries' = Nowhere
    /\ unwatchRetries' = [p \in Path |-> Absent] /\ degradedBackend' = {}
    /\ stream' = TRUE /\ lost' = {} /\ reset' = {}
    /\ UNCHANGED <<registry, dirs, native, bounds>>

\* The pump task panics: its debouncer and every native watch go with it.
PumpDies ==
    /\ deaths < MaxDeaths /\ deaths' = deaths + 1
    /\ at # "down" /\ at' = "down"
    /\ native' = Nowhere
    /\ UNCHANGED <<registry, retry, built, snap, books, dirs, stream, changes, churn, lost, reset>>

ReconcileTick ==
    /\ at = "parked" /\ at' = "reload"
    /\ UNCHANGED <<registry, retry, built, snap, books, os, bounds, lost, reset>>

\* Mutant: the tick reconciles like a registry change.
ReconcileNoRetry ==
    /\ at \in {"reload", "parked"} /\ retry' = "change"
    /\ at' = "refresh" /\ built' = conf
    /\ UNCHANGED <<registry, snap, books, os, bounds, lost, reset>>

\* reconcile starts: after the reload of a tick, or because the registry
\* changed, its generation moved or the event buffer overflowed.
\* refresh_roots reads the corpora under the lock and builds their roots
\* outside it.
Reconcile ==
    /\ \/ at = "reload" /\ retry' = "tick"
       \/ at = "parked" /\ retry' = "change"
    /\ at' = "refresh" /\ built' = conf
    /\ UNCHANGED <<registry, snap, books, os, bounds, lost, reset>>

\* refresh_roots stores what it built for every id that is still registered,
\* also when its corpus changed meanwhile; then the snapshot is taken.
refresh_roots ==
    LET stored == [r \in Reg |-> IF Registered(r) /\ built[r] # {} THEN built[r] ELSE regs[r]] IN
    /\ at = "refresh" /\ at' = "build"
    /\ regs' = stored
    /\ snap' = [r \in Reg |-> IF Registered(r) THEN stored[r] ELSE {}]
    /\ built' = [r \in Reg |-> {}]
    /\ UNCHANGED <<conf, obs, retry, books, os, bounds, lost, reset>>

-----------------------------------------------------------------------------
(* build_reconcile_ops.                                                    *)

\* Recursive as soon as one registration wants the path recursively.
desired_watches ==
    [p \in Path |->
       LET wanted == {root \in UNION {snap[r] : r \in Reg} : root.path = p}
       IN  IF wanted = {} THEN NoMode
           ELSE IF \E root \in wanted : root.mode = "rec" THEN "rec" ELSE "flat"]

IdsAt(p) == {r \in Reg : \E root \in snap[r] : root.path = p}

retain_watch_retries(desired) ==
    [p \in Path |-> IF watchRetries[p] = desired[p] THEN watchRetries[p] ELSE NoMode]

retain_unwatch_retries(desired) ==
    [p \in Path |-> IF unwatchRetries[p] = desired[p] THEN unwatchRetries[p] ELSE Absent]

\* A set of paths in the order of sort().
Sorted(ps) == CHOOSE s \in [1..Cardinality(ps) -> ps] : \A i, j \in DOMAIN s : i < j => s[i] < s[j]

\* Marks reach only ids that are still registered.
Mark(o, ids, value) == [r \in Reg |-> IF r \in ids /\ Registered(r) THEN value ELSE o[r]]

\* Mutant: a missing root is only noted for retry.
MarkMissingSilent(acc, p) == [acc EXCEPT !.cache = @ \ IdsAt(p)]

\* A wanted path of the loop that gets no operation; acc holds the
\* observations and the ids already marked for the missing backend.
MarkMissing(acc, p) ==
    [acc EXCEPT !.cache = @ \ IdsAt(p), !.obs = Mark(@, IdsAt(p), "retrying")]

\* The path waits for the tick: ids that do not show it yet take over the
\* status of the first that does.
MarkHeld(acc, p) ==
    LET ids == {r \in IdsAt(p) : Registered(r)}
        shown == {r \in ids : acc.obs[r] # "watched"}
        status == IF shown = {} THEN "retrying" ELSE acc.obs[Min(shown)]
    IN  [acc EXCEPT !.obs = Mark(@, ids \ shown, status)]

MarkUnbacked(acc, p) ==
    [acc EXCEPT !.cache = @ \cup IdsAt(p),
                !.obs = Mark(@, IdsAt(p) \ acc.cache, "unavailable")]

build_reconcile_ops ==
    LET desired == desired_watches
        kept == retain_unwatch_retries(desired)
        retries == retain_watch_retries(desired)
        obsolete == {p \in Path : installed[p] # NoMode /\ installed[p] # desired[p]}
        unwatch == {p \in obsolete : backend /\ (retry = "tick" \/ kept[p] # desired[p])}
        todo == {p \in Path : /\ desired[p] # NoMode
                              /\ installed[p] # desired[p] \/ retries[p] = desired[p]}
        held == {p \in todo \cap dirs : retry = "change" /\ retries[p] = desired[p]}
        fresh == (todo \cap dirs) \ held
        MarkPath(acc, p) == IF p \notin dirs THEN MarkMissing(acc, p)
                            ELSE IF p \in held THEN MarkHeld(acc, p)
                            ELSE IF ~backend THEN MarkUnbacked(acc, p)
                            ELSE acc
        live == {r \in Reg : snap[r] # {}}
        marked == FoldLeft(MarkPath, [obs |-> obs, cache |-> degradedBackend \cap live],
                           Sorted(todo))
        Op(kind, ps) == LET order == Sorted(ps)
                        IN  [i \in DOMAIN order |-> [kind |-> kind, path |-> order[i],
                                                     mode |-> desired[order[i]]]]
    IN  /\ at = "build" /\ at' = "apply"
        /\ ops' = IF backend THEN Op("unwatch", unwatch) \o Op("watch", fresh) ELSE <<>>
        /\ obs' = marked.obs /\ degradedBackend' = marked.cache
        /\ watchRetries' = [p \in Path |-> IF p \in todo \ dirs THEN desired[p] ELSE retries[p]]
        /\ installed' = [p \in Path |-> IF p \in obsolete /\ ~backend THEN NoMode ELSE installed[p]]
        /\ unwatchRetries' = [p \in Path |-> IF p \in obsolete /\ ~backend THEN Absent ELSE kept[p]]
        /\ lost' = lost \cup {p \in Path : /\ ~stream \/ native[p] = NoMode
                                           /\ installed[p] # NoMode
                                           /\ watchRetries[p] # NoMode /\ retries[p] = NoMode}
        /\ reset' = reset \cap marked.cache
        /\ UNCHANGED <<conf, regs, retry, built, snap, backend, os, bounds>>

-----------------------------------------------------------------------------
(* apply_reconcile_ops: one native call at a time.                         *)

\* What a sequence of applied operations leaves in a map from path to mode.
Applied(f, done) ==
    [p \in Path |->
       LET mine == {i \in DOMAIN done : done[i].path = p}
       IN  IF mine = {} THEN f[p]
           ELSE IF done[Max(mine)].kind = "watch" THEN done[Max(mine)].mode ELSE NoMode]

Touched(done, kind) == {done[i].path : i \in {j \in DOMAIN done : done[j].kind = kind}}

\* Bookkeeping of applied operations: the retry maps, and the observation of
\* every registration at a path that is now watched.
WatchedNow(o, done) == Mark(o, UNION {IdsAt(p) : p \in Touched(done, "watch")}, "watched")

\* The system refuses to watch a directory that is gone.
Possible(done) == Touched(done, "watch") \subseteq dirs

\* A running stream serves every watch the system still holds.
StillLost(done) == {p \in lost \ {done[i].path : i \in DOMAIN done} : native[p] = NoMode}

\* update_paths applies the whole batch.
ApplyAll ==
    /\ at = "apply" /\ ops # <<>> /\ Possible(ops)
    /\ ops' = <<>> /\ at' = "parked"
    /\ native' = Applied(native, ops) /\ stream' = TRUE
    /\ installed' = Applied(installed, ops)
    /\ watchRetries' = [p \in Path |-> IF p \in Touched(ops, "watch") THEN NoMode ELSE watchRetries[p]]
    /\ unwatchRetries' = [p \in Path |-> IF p \in Touched(ops, "unwatch") THEN Absent
                                         ELSE unwatchRetries[p]]
    /\ obs' = WatchedNow(obs, ops)
    /\ lost' = StillLost(ops)
    /\ UNCHANGED <<conf, regs, retry, built, snap, backend, degradedBackend, dirs, bounds, reset>>

\* Mutant: only the batch is degraded, not every installed root.
degrade_installed_batch(inst) == {p \in Path : inst[p] # NoMode /\ p \in Touched(ops, "watch")}

\* The installed paths whose watches are void once the stream failed.
degrade_installed(inst) == {p \in Path : inst[p] # NoMode}

\* Every path update was applied but the native stream did not restart: no
\* root is observed, and every installed one is re-issued on the next tick.
StreamFails ==
    LET inst == Applied(installed, ops)
        void == degrade_installed(inst)
    IN  /\ at = "apply" /\ ops # <<>> /\ Possible(ops)
        /\ ops' = <<>> /\ at' = "parked"
        /\ native' = Applied(native, ops) /\ stream' = FALSE
        /\ installed' = inst
        /\ watchRetries' = [p \in Path |-> IF p \in void THEN inst[p]
                                           ELSE IF p \in Touched(ops, "watch") THEN NoMode
                                           ELSE watchRetries[p]]
        /\ unwatchRetries' = [p \in Path |-> IF p \in Touched(ops, "unwatch") THEN Absent
                                             ELSE unwatchRetries[p]]
        /\ obs' = Mark(WatchedNow(obs, ops), UNION {IdsAt(p) : p \in void}, "retrying")
        /\ lost' = lost \ void
        /\ UNCHANGED <<conf, regs, retry, built, snap, backend, degradedBackend, dirs, bounds, reset>>

\* Operation i fails: those before it are applied, it is recorded for the next
\* tick, and the rest is submitted again.
OpFails(i) ==
    LET done == SubSeq(ops, 1, i - 1)
        failed == ops[i]
    IN  /\ at = "apply" /\ i \in DOMAIN ops /\ Possible(done)
        /\ ops' = SubSeq(ops, i + 1, Len(ops))
        /\ at' = IF ops' = <<>> THEN "parked" ELSE "apply"
        /\ native' = Applied(native, done) /\ stream' = TRUE
        /\ installed' = Applied(installed, done)
        /\ watchRetries' = [p \in Path |->
             IF p \in Touched(done, "watch") THEN NoMode
             ELSE IF failed.kind = "watch" /\ p = failed.path THEN failed.mode
             ELSE watchRetries[p]]
        /\ unwatchRetries' = [p \in Path |->
             IF p \in Touched(done, "unwatch") THEN Absent
             ELSE IF failed.kind = "unwatch" /\ p = failed.path THEN failed.mode
             ELSE unwatchRetries[p]]
        /\ obs' = IF failed.kind = "watch"
                  THEN Mark(WatchedNow(obs, done), IdsAt(failed.path), "retrying")
                  ELSE WatchedNow(obs, done)
        /\ lost' = StillLost(done)
        /\ UNCHANGED <<conf, regs, retry, built, snap, backend, degradedBackend, dirs, bounds, reset>>

NothingToApply ==
    /\ at = "apply" /\ ops = <<>> /\ at' = "parked"
    /\ UNCHANGED <<registry, retry, built, snap, books, os, bounds, lost, reset>>

-----------------------------------------------------------------------------
Apply == ApplyAll \/ StreamFails \/ NothingToApply \/ \E i \in DOMAIN ops : OpFails(i)

WINext ==
    \/ \E r \in Reg : \E roots \in Offer[r] \cup {{}} : register(r, roots) \/ reload_repo_layer(r, roots)
    \/ \E p \in Path : DirAppears(p) \/ DirVanishes(p)
    \/ StartPump \/ PumpDies \/ ReconcileTick \/ Reconcile
    \/ refresh_roots \/ build_reconcile_ops \/ Apply

WISpec == WIInit /\ [][WINext]_WIvars

\* The supervisor restarts a dead pump; the body of reconcile is synchronous;
\* the interval of the tick fires again and again, and select! picks among its
\* ready arms at random.
WIFairness ==
    /\ WF_WIvars(StartPump) /\ WF_WIvars(at = "reload" /\ Reconcile)
    /\ WF_WIvars(refresh_roots) /\ WF_WIvars(build_reconcile_ops) /\ WF_WIvars(Apply)
    /\ SF_WIvars(ReconcileTick)

WIFairSpec == WISpec /\ WIFairness

-----------------------------------------------------------------------------
(* Properties.                                                             *)

\* The pump's books agree with the operating system.  A native watch is
\* always on record, so it can be removed one day; between two passes a
\* recorded watch without a pending retry is really there, in the recorded
\* mode and on a running stream, whatever partial failures the batches had.
\* Two ways to lose a watch unnoticed are excepted: the directory was deleted,
\* or the stream failed and the retry was discarded while nobody wanted the
\* path.
WatchesAccounted ==
    at # "down" =>
      \A p \in Path :
         /\ native[p] # NoMode => installed[p] # NoMode
         /\ (/\ at \in {"parked", "reload"}
             /\ installed[p] # NoMode /\ watchRetries[p] = NoMode /\ p \notin lost)
               => native[p] = installed[p] /\ stream

Covered(root) ==
    /\ root.path \in dirs /\ stream
    /\ native[root.path] = "rec" \/ native[root.path] = root.mode

\* A registration some root of which no native watch covers.
Unobserved(r) == Registered(r) /\ \E root \in conf[r] : ~Covered(root) /\ root.path \notin lost

\* `daemon status` counts degraded registrations "so degraded watching isn't
\* invisible": a registration does not stay unobserved with the observation
\* Watched, although marks race with re-registrations, one root of several
\* may fail and a retry is held back until the tick.
DegradedShown ==
    \A r \in Reg : []<>(~Unobserved(r) \/ obs[r] # "watched" \/ r \in reset)

\* What the registrations want of p now.
WantedNow(p) ==
    LET modes == {root.mode : root \in {x \in UNION {conf[r] : r \in Reg} : x.path = p}}
    IN  IF modes = {} \/ p \notin dirs THEN NoMode
        ELSE IF "rec" \in modes THEN "rec" ELSE "flat"

\* When whole batches succeed again and again (as long as there are any), the
\* native watches come into step with the registry: every directory that is
\* wanted and exists is watched in the wanted mode and no watch stays behind
\* on another.  No retry is lost when modes, registrations and failures change
\* between two ticks.
WatchesSettle ==
    SF_WIvars(ApplyAll) =>
      \A p \in Path :
         []<>(\/ at = "down" \/ ~backend \/ p \in lost
              \/ native[p] = WantedNow(p) /\ (WantedNow(p) # NoMode => stream))
=============================================================================
