# hallouminate: TLA+ verification

hallouminate is a local search daemon over Markdown and code corpora: one
process per user owns a LanceDB store, indexes the files of configured and
per-repository corpora, watches them for changes, answers ranked searches and
edits a Markdown wiki. This directory models the parts of it whose correctness
depends on the order of steps of several tasks, on failure, or on arithmetic at
a boundary.

## 1. Inventory

| Part | Source | State | Operations | Hard behaviour |
|---|---|---|---|---|
| Split content store | `hallouminate-adapters/src/lance.rs` | content table keyed by content key, file map, write gate, index latches | prepare/commit batch, delete file, delete root, collect orphan content, maintain, scoped search | two tables without a transaction; ungated scans; spawned deletes that outlive their caller |
| Indexer | `hallouminate-domain/src/indexer/*` | none of its own; plans against the map's snapshots | plan, apply, prepare file, derive key | racy mtimes, files changing between plan and apply |
| Locks and debt gate | `backpressure.rs`, `debt.rs`, `state.rs` | debt cache, corpus locks, write lane | await gate, lock corpora, take lane | lock order, blocking writers on Hard debt while maintenance needs the lane |
| Maintenance | `maintenance.rs`, `pressure.rs`, `churn.rs` | defer count, pace | loop, defer, forced pass, paced slices, root GC, orphan GC | starvation by deferral, shutdown in the middle of a pass |
| Watch registry | `watch/registry.rs` | registrations, catch-up queue, active groups | register, refresh roots, replace source, record pending, begin/finish catch-up, tick | admission of lock-compatible groups, retries, stale completions |
| Watcher pump | `watch/mod.rs` | debouncer, installed watches, pending paths | reconcile, admit, process change batch | overflow, failed watches, config reload races |
| Daemon lifecycle | `server.rs`, `lifecycle.rs`, `bootstrap.rs`, `socket.rs`, `client.rs` | instance lock, socket, shutdown token | boot, serve, drain, clean up, stop, ensure running | respawn racing an exiting daemon |
| Supervisor, heartbeat, ladder, watchdog | `supervisor.rs`, `heartbeat.rs`, `ladder.rs`, `watchdog.rs`, `backoff.rs` | panic history, strikes, epochs, trip file | restart with backoff, escalate, detect stalls, boot backoff | crash loops, false trips, backoff that never ends |
| Idle exit and activity clocks | `state.rs`, `server.rs` | last activity, connection counts | touch, enter/leave connection, idle check | exit racing a new connection |
| Request handlers | `dispatch.rs` | none; files on disk and the store | index, add/edit/delete markdown, stats | read-modify-write of files, index failing after the file write |
| Ground requests and corpus scans | `dispatch.rs`, `scan_cache.rs`, `ground/orchestrate.rs` | shared walks, scan and listing permits | walk, list, search, lexical fallback, rerank, mark stale | files, rows and collection moving under a request; walks and models that never return |
| Resources and store opening | `state.rs`, `lance.rs` | per-config resources, ground directories and their backups, `store.lock` | boot, resources_for, move stale store, rebuild, prune backups | several keys and daemons on one directory, a migration cut short, an embedder that comes late |
| Search pipeline | `hallouminate-domain/src/search*`, `ground/*` | none | fuse, phrase, ripgrep, lexical fallback, bucket | pure functions |
| Corpus tools | `hallouminate-domain/src/corpus/*` | files on disk | sandbox, walk, sections, index.md, chunking | path confinement, atomic writes |
| Configuration, CLI, MCP surface | `hallouminate-config`, `hallouminate/src` | none | parse, validate, forward | not concurrent |

Source paths are relative to `src/crates/`; files named without a directory are
under `hallouminate-daemon/src/`.

### How the parts interact

- The daemon process boots through **lifecycle**: it takes the instance lock,
  opens the **store**, starts the pump, maintenance and idle loops under the
  **supervisor**, binds the socket and serves requests in one task each.
- A mutating request passes the **debt gate**, takes its **corpus locks** in key
  order and then the one-permit **write lane**, and calls the **indexer**, which
  writes batches to the store. A catch-up takes the corpus locks for the whole
  pass and the lane batch by batch.
- **Maintenance** takes the lane to compact and collect. It reads client
  activity, I/O pressure and the debt record, and its passes lower the debt that
  the gate reads.
- The **pump** feeds file events to the **watch registry**, which hands back the
  next catch-up that can run beside those already running. Requests register the
  corpora of their repository and may wait for the first catch-up.
- All loops and handlers share one shutdown token. Handlers are drained, the
  maintenance loop is aborted and joined, the pump is detached.

### What makes each part correct

| Part | Properties |
|---|---|
| Store | a mapped file always has its content; one copy per key; rows carry vectors; a batch appears atomically; collection is invisible; unreferenced content goes |
| Store opening | what is open is the store at its path, with its configuration and one owner; a store found there is kept; the rows come back |
| Locks, gate, maintenance | writes happen under lane and locks; nobody waits for debt behind a lock; a daemon without maintenance never refuses; every mutation ends; a due pass runs |
| Watch registry | queue and slots are exact; a pass settles only what it took; no event is forgotten; one pass per corpus key; no waiter sleeps through its wake-up |
| Pump: watches | its books agree with the system, also after partial failures; a registration that is not observed is shown; watches come into step |
| Pump: events | an event that arrived leads to a write or a pass without waiting for the tick; every change is indexed in the end |
| Lifecycle | no handler outlives the lock; no live socket is deleted; a successful `stop` is true; shutdowns and commands end |
| Supervisor, watchdog, backoff | no false trip and no late one; a crash loop escalates; a boot waits out its backoff, and no backoff is for ever |
| Indexer | a pass's row never passes for content it does not describe, also within one millisecond; a quiet pass leaves index and files in agreement and evicts no unreadable file; the index catches up with the files |
| Handlers | edits do not lose each other; a splice keeps the outline; what index and lists lack in the end was reported |
| Ground requests | no file is missed without notice; an unmarked hit is current; every request ends |

## 2. Modules

| Module | Models |
|---|---|
| `SearchIndex` | abstract: what callers of the store see, a map from files to content changed by whole batches and deletes |
| `SplitStore` | `LanceStore`: content table, file map, write gate, any number of writers, the orphan collector, failures, crash |
| `SplitStoreShutdown` | extends `SplitStore` with the abort of the maintenance task at shutdown |
| `StoreOpen` | boot and `resources_for`: stale stores, rebuild, `store.lock`, backups, the embedder |
| `WriteLane` | debt gate, corpus locks, write lane, mutations, catch-ups, the maintenance loop |
| `Indexer` | passes over a corpus, the watcher's mtime gate and single-file reindex, pages written by a handler, edits of other programs |
| `WatchRegistry` | `watch/registry.rs`, the pump's ticks and wake-ups, the cold-start waiter |
| `WatchInstall` | the pump's reconcile: native watches, retries, observations |
| `ChangeFeed` | debouncer, pump and `handle_changed_path`, with the passes that cover what events miss |
| `DaemonLifecycle` | several daemon processes and clients on one socket path and lock file |
| `Supervision` | supervisor, ladder, heartbeats, watchdog, trip file and boot backoff |
| `Section` | the text functions of a page edit and the generated block of an `index.md` |
| `Pages` | `add_markdown`, its batch form and `delete_markdown`, with ancestor `index.md` files and the batched reindex; uses `Section` |
| `Ground` | ground and corpus_stats requests beside edits, indexing and collection |
| `*Proofs` | theorems about the module of the same name; `DaemonProofs` about `DaemonLifecycle`, `Supervision` and `WatchInstall`, `GroundProofs` about `StoreOpen` and `Ground` |
| `MC*`, `*.cfg` | instances for TLC |

Definitions named like the code (`lock_corpus`, `finish_catch_up`,
`delete_root`) are the functions of that name; capitalised actions are the
steps of an async function between two awaits. `PROJECT.json` gives the lines of
each. A definition marked as a mutant in its comment is a plausible bug, used
only to show that a property notices it. In `Supervision`, `WatchInstall` and
`Ground` the initial states, the next-state relation and the specification have a
prefix (`SVInit`, `WINext`, `GRSpec`), only so that one proof module can extend more than one
component.

The modules meet at named interfaces rather than in one product, which TLC could
not explore: a completed pass is one step in `Pages`, `ChangeFeed` and `StoreOpen`
and is taken apart in `Indexer`; a batch is one step there and is taken apart in
`SplitStore`, whose refinement of `SearchIndex` justifies it; whether an event
arrives is free in `ChangeFeed` because `WatchInstall` says when it may not; the
guard of `Pages` is the lock pair of `WriteLane`.

**SplitStore.** `rows[k]` counts the content rows of key `k`, `vectored` the keys
whose rows have vectors, `fileMap[f]` is the map row, `gate` is `write_gate`. A
writer is `PrepareBatch` (the ungated scan of `prepare_batch`), `LockGate`,
`RecheckStored`, `WriteContent`, `WriteFileMap`, `RefreshIndexes`: one action per
table commit, so that `FailBatch` (an error, or the caller dropping the future)
and `Crash` can fall between any two. The collector scans both tables without
the gate, then re-checks and deletes group by group under it. A batch that mixes
corpora is rejected before the gate, as `commit_batch` does. Compaction and index
building change no logical row and are not represented.

**WatchRegistry.** `regs` is the registration map, keyed by source and corpus
key; `queue` and `active` (the running groups, one slot each) are the fields of
`Inner`, `signal` is the permit of `changed`. Each public method runs under one mutex and is one
action. `owed` and `passOf` are history variables: events not yet covered by a
pass that succeeded, and the pass a registration is really part of. Tasks may
finish late, after their registration was replaced. `Retarget` is the file
system: a symlinked root that resolves elsewhere.

**WriteLane.** The writer's `pc` goes from `gate` through `delay`/`blocked`,
`locking`, `plan` and `lane` to `write`; the maintenance loop's `mpc` from
`sleep` through `due`, `lane`, `delete`, `compact` and `pause`. Fragments and
stale versions are one number `debt`; a read of the store may fail, which falls
open; a compaction may pay any amount. Who is active and whether I/O pressure is
up are free choices at each decision.

**Indexer.** `disk` and `rows` are the files and the file map, a file's content being
a text, `empty` (no chunks) or `bad` (extraction fails). A pass is `BeginPass`, a `Scan`
per file, a `PlanFile` per file, `StartApply` (the time stamp) and the four phases of
`apply_with_lane`: upserts and rewrites in batches (`PrepareFile`, `CommitBatch`),
`CheckHash` for moved mtimes, `DeleteRow`. The watcher is `GateStat`, `GateRead` (outside
the lock), `LockCorpus`, `WatcherRead`, `IndexFile`; the handler `LockCorpus`, `WritePage`,
`StatPage`, `IndexFile`. `now` is the millisecond of the clock, and any number of
steps falls into one. `edits` may strike between any two steps. `by`, `quiet` and `kept` are
history: who wrote a row, whether anything changed or failed since the pass began, which files
had a row then. Files are stamped by the clock; copies that keep an old mtime are left out, and
so are several roots, a root that vanishes during the pass, and ancestor index pages.

**DaemonLifecycle.** `socket` is the process whose listener the path leads to,
`flock` the holder of the instance lock; `phase` is a process's place in boot,
service and shutdown; `token` tells whether and why it was cancelled; `peer` and
`stage` are the connection of a client and how far the server has it. Clients run
`use` (connect, probe and replace a daemon of another version, spawn, wait,
call), `stop` or `restart`. A process id is used once; when none is left a spawn
fails, which also is a path of the code. A timeout may strike whenever the code
waits.

**StoreOpen.** A directory has an identity (an inode), `at` says which one lies at
a ground path and `bak` which at the backup paths, so that a rename or a removal
takes the store from under whoever has it open. A boot and a call of
`resources_for` share the steps `check_ground_dir`, `InitModel`, `ClearBackup`,
`Rename`, `Stamp` (these three are `move_stale_store`), `OpenDir`,
`acquire_store_lock`, `OpenTables`, `Finish`; a boot adds the rebuild and its
undoing, a call the build and ground locks and the retry of the embedder. `Fail`
and `Crash` may strike at any step. Model, quantization and embeddings mode are one
configuration. Requests open any key; passes come for the keys in `Watched`, those the
watch registry has admitted and keeps. `Copies` bounds the directories that exist for one
path. `aside`, `cut` and `met` are history: how long ago the store found at the
start was moved, moves that ended before the time stamp, and directories where a daemon
came upon one that another was about to move, moved or rebuilt.

**WatchInstall.** `conf` is what the configuration says, `regs` and `obs` what the
registry holds, `native` and `stream` the operating system, `installed`,
`watchRetries`, `unwatchRetries` and `degradedBackend` the pump's books. A reconcile
is `Reconcile`, `refresh_roots`, `build_reconcile_ops` and one `Apply` per submitted
batch, which succeeds, fails at one operation, or is applied while the stream does
not restart. Registrations, reloads and directories change between any two.

**ChangeFeed.** `raw` is the debouncer's own buffer, `pending` and `overflow` the
shared one, `wake` the permit, `at`, `batch` and `hand` the pump and the path it
handles. `stale` are the files whose rows are out of date for a registration;
`pass` the state of its catch-up. `missed` is history: changes without an event, or
whose event the full buffer dropped during a pass that had already read the file.

**Supervision.** Time is kept as ages and remaining times that stop at the last
value a comparison tells apart; a trip that is decayed for good, whatever the clock does, stays at
`Forgotten`. Instants of a process are monotonic; the trip file
has wall-clock times and the clock may be set back (`SetClockBack`). `Bump`,
`Panic`, `Restart` and `EndMonitor` are a task and its monitor, `Arm`, `PollTasks`,
`RecordTrip`, `Abort` the watchdog thread, `BootRefused`, `Respawn`, `BootProceed`
the next process. The backoff shifts in `Bits`-bit arithmetic and saturates.

**Section, Pages.** A document is a sequence of lines, a line a heading with its
level, a plain line, a link or a marker. `Pages` has one `job` per client:
`TakeGuard`, `ReadPage`, `WritePage` or `UnlinkPage`, `PrunePage` or `EvictPage`,
one `ComposeIndex` and `PutIndex` per directory from the root down, `IndexBatch`.
Each can fail, with the answer the code gives. `serial` is history: the files had
each change been atomic; `rowsTold` and `linksTold` what answers and crashes left
open.

**Ground.** A file's text is the instant it was written at, in half seconds, and
also its mtime. A pass or the watcher stats a file before it reads it (`IndexFile`); a
handler writes a page, or an `index.md` above it (`WritePage`), indexes the bytes it wrote
and takes the mtime then (`page`, `IndexPage`), while other programs may write it again. `by`
and `from` are history: which of the two a row or a hit comes from. `walks` is the scan cache: per corpus the one walk in flight and
who waits for it. A request `Arrive`s, scans and lists each corpus, searches,
greps what the listing does not hold, reranks, marks stale hits and answers. The fallback
may drop a file at the grep or at its window (`dropped`, history). Edits,
indexing, collection and the end of walks are `Background`.

## 3. Runs

| Run | Instance | Shows |
|---|---|---|
| `store` | 2 corpora, 2 keys, 2 writers, the batches of `MCOffered`, groups of 1, 1 fault; 112k states | `NoDanglingMap`, `NoDuplicateContent`, `ContentEmbedded`, `ImplementsSearchIndex`, `OrphansCollected` |
| `store_shutdown_dangling` | 2 files, shutdown | violation of `NoDanglingMap` |
| `store_open` | 2 daemons, 4 callers, a base and a repository directory, 3 keys, 1 fault; 134k | `StoreAtHome`, `OriginalKept`, `Refilled` |
| `lane_progress` | a mutation and a catch-up on the same two keys; 33k | `WriteProtected`, `MutationEnds`, `DuePassRuns` |
| `indexer` | 2 files, 2 texts, batches of 2, 2 edits, 1 failure, 2 milliseconds; 485k | `PassRowsSound`, `PassConverges`, `Settles` |
| `registry` | 2 sources, 2 keys, 3 bindings, 2 slots, 2 changes, pump death, a waiter, 1 retarget; 1.55M | `AdmissionExact`, `PassOwned`, `EventCovered`, `NoLostWakeup` |
| `watch_install` | 2 registrations, 2 directories, 3 changes, 1 disk change, 1 pump death; 120k | `WatchesAccounted`, `DegradedShown`, `WatchesSettle` |
| `change_feed` | 2 registrations, a shared and a nested root, 2 files, a buffer of 1, 2 edits, 1 fault; 129k | `EventRemembered`, `ChangeCovered` |
| `lifecycle` | 2 processes (the first of another version, with a pump and idle exit), a caller and a stopper; 113k | `HandlersUnderLock`, `ListenerReachable`, `StopMeansClosed`, `ShutdownEnds`, `ClientReturns` |
| `supervision` | a monitored loop that may panic and a one-shot task, windows of a few ticks, the clock set back once; 448k | `DetectedInTime`, `NoFalseTrip`, `BackoffHonoured`, `CrashLoopEscalates`, `BootsEventually` |
| `pages` | a page and a subdirectory with a page, 2 clients, 12 kinds of request, 4 requests, 1 fault; 406k | `NoLostUpdate`, `OutlineKept`, `RowsAccounted`, `LinksAccounted` |
| `ground` | a corpus with a file and one that a handler and other programs write, an empty corpus on a file system that may hang, 1 scan permit, a fallback limit of 1; 249k | `NothingMissed`, `HitsHonest`, `RequestEnds` |

### Why the bounds are enough

- *Store.* Every race is between two users of the gate over one key; two writers
  and the collector give all of them. The offered batches map a file, remap it
  together with a second file that shares content, write the other corpus, and mix
  corpora. Groups of one make a collection of two keys take the gate twice.
  `MaxFaults` bounds failures so that the state space stays finite; the theorems
  have no such bound on files, keys or writers. All batches over three files
  (1.57 million states) were checked for safety while developing.
- *Store opening.* Two keys of one directory with different configurations, and two
  daemons with one base directory, are what build lock, ground lock and `store.lock`
  are for. `home` is stale beside a newer `repo`, or missing beside a `repo` that is
  stale and of another configuration; it also has an older backup. A daemon starts
  whenever it likes, also while the other moves or rebuilds the store. Such a meeting uses
  up one of `MaxFaults`, if one is left: the run has one fault, which meetings may follow,
  or any number of meetings and no fault after the first. `Copies = 4` is
  the store found, the backup, and a new store of each of two daemons or of two boots. The
  theorems have no bound on any of these.
- *Registry.* The boot configuration is there from the start and requests register
  one layer; two sources on one corpus name give conflicts, shadowing and shared
  passes; two slots let two groups run; a binding of two roots overlaps both.
  `MaxChanges` bounds events and ticks, enough for an event before, during and
  after a pass. `MaxRuntime = 1` reaches the registration limit. `PassOwned` and
  `EventCovered` are stated until a root is retargeted (section 5 says why). One assumption
  is on the environment: a root is never retargeted so that two registrations of one source
  resolve to one key (section 5 says what happens then). One slot, two retargets and a
  discovered wiki that shadows a corpus of the boot configuration (1.43 million states) were
  checked with the inductive invariant while developing.
- *Lane.* Both writers need the same two keys, so a wrong order could deadlock.
  `SoftDebt = HardDebt = 1` makes every write reach Hard; the Soft delay is still
  taken when maintenance is off. Larger instances (three writers, debt up to 3,
  5.5 million states) were checked for the safety properties while developing.
- *Indexer.* Races are on one file: an edit, an index and another edit of it in one or in two
  milliseconds. The second file gives batches with a file that is fine beside one that is gone,
  empty or unreadable. Larger instances (three edits, 2.1 million states; one
  file over four milliseconds with liveness, 0.9 million) were checked while developing.
- *Watch install.* Two registrations that want one directory in different modes, or a
  second directory too, give every pair of operations in one batch (watch, unwatch,
  change of mode). Three changes let a registration change before, during and after a
  pass. A file root that disappears is a change of the root set.
- *Change feed.* A buffer of one overflows at the second file; the nested root decides
  ownership; two edits let the second fall anywhere in the handling of the first.
  `MaxFaults` counts failures and pump deaths together.
- *Lifecycle.* An exiting process and its successor are two; with one client using
  the daemon while the other stops or restarts it each window of the shutdown
  meets a connection, a probe and a spawn. `MaxConns = 1` makes the permit scarce.
  Deadlock is not checked here because all commands and processes may have
  finished; in the other runs it is.
- *Supervision.* `Cap = 1`, `Window = 2`, `WarnAt = 1` and `ActAt = 2` put two panics over
  the cap and two strikes at the action; `BackoffCap = 3`, `BootCap = 2` and `Bits = 3` are
  reached by the second and third step of each curve; `Decay = 7` and `MaxStored = 2`
  make the trip file forget and drop trips. `Stall = 3` and `Poll = 2` do not divide each
  other, so that the window ends between two polls and `Latency` is longer than `Stall + Poll`.
- *Pages.* Every pair of requests of two clients on a file, a list above it, or a
  list that one edits while the other rewrites it occurs; the third and fourth
  request come back to what the first two left. Clients are symmetric.
- *Ground.* The second corpus is empty: its walks take the only permit and hang. Requests
  come one after another, so that later ones meet the walks of those that gave up.
  `FallbackMax = 1` reaches the limit of the fallback. Two edits of one file, in one and
  in two seconds, were checked on their own (219k) while developing.

### Fairness and assumptions

- *Store*: weak fairness of each writer's and the collector's own steps, strong
  fairness of taking the gate. `write_gate` is a tokio mutex, which queues its
  waiters first in, first out.
- *Store opening*: somebody who wants the daemon starts it (weak); a boot takes its
  steps (weak), a call too, with strong fairness because the mutexes it waits for are
  FIFO. With every reconcile tick a registration gets a pass, which opens its store first:
  the baseline's own, and those the registry admitted. Of other keys nothing is assumed,
  and `Refilled` says nothing of their directories. Failures and
  crashes are bounded. Found directories are long untouched, corpora are not empty,
  and checking and writing `meta.toml` is one step.
- *Lane*: weak fairness of each task's own steps and of the abort; strong fairness of
  `lock_corpus`, `acquire_write_lane` and `MaintenanceLane` for the same reason
  (tokio mutex and semaphore are FIFO), and of `WriteLast`, because a plan is a
  finite list of batches. No fairness of clients going idle or of pressure
  dropping: `DuePassRuns` holds although they never do.
- *Indexer*: weak fairness of the steps of a pass, of the watcher and of the handler; strong
  fairness of beginning a pass and of taking the corpus lock, which is a FIFO mutex. Passes
  come again because every reconcile tick queues all registrations
  (`mark_reconcile_due_all`). Events need no fairness: `Settles` holds although all are lost.
- *Watch install*: weak fairness of the pump's steps, strong fairness of the tick, one of
  several arms of a `select!` that picks at random among the ready ones.
  `WatchesSettle` assumes what it says, that whole batches succeed again and again. An
  `update_paths` error that names an operation is taken to leave the stream running.
- *Change feed*: strong fairness of the tick, of taking the corpus lock and of beginning a
  pass, weak fairness of the pump's own steps. Nothing guarantees an event. A reconcile is
  one step here, the edits of a file have different mtimes, and the pass of a registration
  that was replaced has no effect.
- *Lifecycle*: weak fairness of booting, shutting down and client steps. None for
  handlers and loops: a handler may hang for ever, and the shutdown still ends.
- *Supervision*: time passes, and what is due at an instant happens before the next one;
  processes are respawned. None for tasks: a task may hang, panic or end at any time.
  Only tasks in `Panicky` panic, and the wall clock is set back `MaxBack` times.
- *Pages*: none, its properties are safety. Documents end in a newline, where headings are is
  the parser's business, a needle is a whole line, other programs do not edit the
  wiki, and an index request is a completed pass.
- *Ground*: weak fairness of a request's own steps and timers if the file systems of its
  corpora answer (`Sound`), because it stats hits and reads windows there without a deadline;
  strong fairness of starting a listing, whose semaphore is FIFO, and weak fairness of its
  end for every corpus. A listing reads the store, but resolves the root first under its permit:
  that much even a file system which hangs walks must answer. None for walks and
  reranks: `RequestEnds` holds although they hang, with the threads they run on, of which
  the blocking pool must have more than hang. Every text matches the query, a corpus has
  one root, corpora share no file, and the limits on results are not reached. A
  cross-encoder slot that is busy, failed or poisoned is an outcome of `RerankReturns`.

## 4. What is proved

`tlapm` checks every proof to its leaves. The theorems hold for all values of the
constants that satisfy the named assumptions (`StoreAssumption`,
`LaneAssumption`, `LifecycleAssumption`, `IndexerAssumption`, `FeedAssumption`,
`PagesAssumption`, `RequestsAssumption`, `SectionAssumption`, `OpenAssumption`,
`RegistryAssumption`, `NamesAssumption`, `InstallAssumption`, `SupervisionAssumption`,
`DecayAssumption`, `GroundAssumption`, and `NoneAssumption` and `NothingAssumption`, which keep a value
for "none" apart from the others). Most only type
the constants.
`SupervisionAssumption` has each cap of a backoff not below its floor, within the width of the
integer, and reached before the shift saturates; `DecayAssumption` has the
first boot backoff no longer than a trip is remembered, and two trips kept (the source: an
hour, and 32 trips). The configuration does not enforce that the first backoff is below the hour;
section 5 says what happens beyond it. `NamesAssumption` says what `effective_corpora` enforces (`repository.rs:141`): one
configuration never has a corpus name twice. Those of `Pages` also
say that `ParentDir`, `Chain` and `Order` describe one finite tree of directories and
pages, and that the names of files are not blank lines or markers; those of `ChangeFeed`
number the registrations, whose order decides which one owns a path.
The module of every component states a type invariant, and each is a theorem but that of `WatchInstall`:
what its passes observe comes from a fold over the sorted paths, hence induction over a sequence, and
the proofs need and prove only the part about watches. `NoWaitOnDebt`, `NeverRefusedUnmaintained` and
`OnlyShutdownDangles` are theorems only (TLC agreed with the last one over 1.0M states while it was developed). Every safety invariant and every action property that a passing run checks is
also a theorem.

**SplitStoreProofs**: `TypeCorrect`, `NeverDangling`, `NeverDuplicated`,
`AlwaysEmbedded`, `Refinement`, and for a daemon that may be shut down `NeverDuplicatedInShutdown`,
`AlwaysEmbeddedInShutdown`, `LostOnlyInShutdown` (`OnlyShutdownDangles`). None of the invariants is
inductive: whether a write is safe depends on what its writer learnt earlier. The inductive invariant
adds what each participant knows while it holds the gate, in two halves. `Held` survives a shutdown:
`GateHeld` (the holder is who is inside the critical section), `BatchKnows` (a batch past the gate is of
one corpus), `AddsMissing` (no key to add is stored). `Knows` does not, because the delete of an
aborted collector goes on without the gate: `AddKnows` (the keys to add are all that
are not stored), `MapKnows` (before the map write every key of the batch is stored), `DeleteKnows` (what
the collector is about to delete is not mapped). Each is stable because the others cannot write
without the gate, except map deletes, which only remove references, and the detached delete, which only
removes content: it can leave a map row without content, but never a second copy. `FilesKept` is proved
beside the invariant for each step: no file loses the content it has. It needs `Knows`, so it
holds of a daemon that is not stopping, whether or not an earlier shutdown left files without
content: neither crashes nor such leftovers make a running daemon lose any. In the store without
shutdown `Visible = fileMap` under the invariant, so that `WriteFileMap` is the abstract
`Publish` and every other write stutters.

**WriteLaneProofs**: `TypeCorrect`, `AlwaysProtected`, `NeverWaitsOnDebt`,
`NeverRefused`. The strengthening is `LocksAfterGate` (a writer before the lock phase
owns nothing) and `NoBlockUnmaintained` (nobody is in the Hard block while the loop is off).

**DaemonProofs**, lifecycle: `TypeCorrect`, `AlwaysUnderLock`, `AlwaysReachable`, `StopIsTrue`. The
strengthening relates lock, phase, listener and handlers: `LockPhase` (the holder is
exactly the process between the two lock steps), `ListenPhase` (the listener exists
exactly while a process serves or drains), `HandlerPhase` (so do handled requests),
`AskedBound` (the daemon a `stop` found was bound before).
With them only the lock holder touches the socket path, which gives `ListenerReachable`.
The lemma `Frame` covers the actions that change none of these.

**DaemonProofs**, supervision: `SupervisionTypeCorrect`, `StallDetectedInTime` (`DetectedInTime`), `NeverTripsFalsely`
(`NoFalseTrip`), `BackoffAlwaysHonoured` (`BackoffHonoured`). For the watchdog the invariant
`WatchInv` relates the real silence of a task to what the watchdog believes: a task that moved since
the last poll has been silent for less than that (`SincePoll`); otherwise there is a poll, a whole
number of polls ago (`Rounds`), that last saw it move, its believed silence counts from there and its
real one is at most one poll longer (`SeenAt`). A stall is thus acted on at the first poll at which
the believed silence fills the window, at the latest after `Latency`, and never before the task was
silent that long (the lemma `LatencyCovers` is the arithmetic, with a remainder when a poll
does not divide the window). For the boot backoff `TripInv` says that, as long as the clock was not set back,
the last trip on file is as old as the real one, and if the two last ones fall into the memory of
`Decay`, the one before is there too with its real distance. `PowersGrow` (2^n > n, by counting a set
of subsets) and `CurveGrows` make the `Bits`-bit shift monotonic up to the cap, so that counting
more trips never shortens a wait; the type theorem uses the same curve for restarts
(`QuickTopExists`: the count of quick ends beyond which the delay stays at its cap exists and is at most `Bits + 1`); `RecentEnds` gives the end of what `read_recent_trips` returns.

**DaemonProofs**, watches: `WatchesStayAccounted` (`WatchesAccounted`). The invariant `WatchesInv`
holds at every step of a pass, not only between passes: the system's watch of a path is the recorded
one or none, and the recorded one on a running stream unless a retry is due or the directory was
lost unnoticed (section 5); without a pump or a backend there is none; the operations of a batch
name paths and modes. `SortedEnumerates` says that a batch lists its paths, each once.

**IndexerProofs**: `TypeCorrect`, `PassRowsAlwaysSound`, `PassAlwaysConverges`. `PassRowsSound` is not inductive. It
needs `RowsPast` (what a pass records is older than the clock, so that no later edit can
carry the same mtime; this is where `smudge_racy_mtime` and the stamp taken before any read
enter), `TimesPast` (mtimes and scans are not in the future and a file only gets newer),
`PreparedSound` (the same property for content that is read but not yet committed),
`PlanKnows` (what is to be read was there at the scan), `LockHeld` and `JobKnows` (a job that
writes holds the lock, so that no pass is running). The same argument fails for the
single-file paths, whose bytes are older than the stamp (section 5). `PassConverges` needs
`QInv` beside it: `PhaseOrder` (a phase starts when the work of the one before is done, and what a
pass has in hand belongs to its phase) and `QuietPass` (while nothing changed or failed since the pass
began, each file is on its way: not yet planned, still in the plan it needs, or its row agrees with
it, and a row of an unreadable file is as it was). At the end nothing is in a plan, which leaves
agreement.

**PagesProofs**: `TypeCorrect`, `UpdateKept` (`NoLostUpdate`), `OutlinePreserved`
(`OutlineKept`), `RowsRight` (`RowsAccounted`), `LinksRight` (`LinksAccounted`). The inductive
invariant is `GuardHeld` (a handler past the lock is the holder of the guard, so that at
most one is), `JobsSound` (what a handler has in hand at each step), `NoLostUpdate`, `RowsHeld` and
`ListsHeld`. `JobsSound` has a part for each kind of memory: `ItemSound` (the items still to
do), `TextSound` (the text about to be written is what the files of now make of the
request), `WalkSound` (the `index.md` files still to rewrite go down from parent to child
above the page, and the one above the next exists), `BytesSound` (the bytes still to be
indexed are those on disk), `PruneSound` (a page about to lose its row is gone, or has nothing
to index). `RowsHeld` and
`ListsHeld` say that a row or a list that differs from the disk either was reported or is on the
holder's list of work; with an idle guard nothing is on that list, and the two properties
follow. Each is stable because nobody writes without the guard. The first half of the module is about the
operators: the chain of directories above a page (by least counterexample on
the depth), the text functions of `Section` (what a splice keeps of the outline), and
`compose_index`, whose rows are the children of its directory in the order of `Order`.

**ChangeFeedProofs**: `TypeCorrect`, `EventKept` (`EventRemembered`). An event that has
reached the pump is remembered only by the pass it made due. The strengthening is
`DownEmpty` (a pump that is down has nothing in its buffers, and a batch is only there
while it is handled), `StaleReal` (only files a registration covers are stale for it),
`PlanStale` (what a running pass has planned is still stale, since nobody indexed it
meanwhile) and `WriteAlone` (the handler writes while no pass of that corpus runs, which
is the corpus lock). With them the end of a pass clears only what it read, and the
handler's early returns give up a path only after it was indexed or its pass is due.

**GroundProofs**, store opening: `TypeCorrect`, `StoreAtHomeHolds`, `OriginalKeptHolds`. What a handle
believes of its directory is kept only because of who is not at work there. The
strengthening is in four groups. About processes: `ProcPhase` (what is down has nothing,
what is up has the base store open), `JobShape` (what a call or boot has in hand at each
phase), `RetryKnows`. About who is where: `Exclusive` (ground locks, within a process) and
`MoversApart` (whoever has found a stale store in a directory outside `met` is the only one at
work there, from the check to the end). Nothing is assumed about who starts
daemons or when: one that comes upon another's move puts the directory into `met`, and the
parts about directories, moves and backups are claimed for the others. About directories: `HandlesHome`,
`SoleHolder` (a lock has one owner, a handle or an open about to become one), `LockKnows` (what
`OpenDir` left is there until the lock), `MoverFirst` (nobody has the store open that is about to
be moved); `SoleHolder` holds in `met` too. About backups: `FoundOnce` (only the store found at the start is ever stale, and
it is moved once), `RecentKept` (it is in its backup, young or about to be stamped) and
`InodeHome`. A step changes the disk only under one of these, which the lemmas
`TameKeeps` (steps that leave directories alone) and `MoverStep` (steps of a mover) use once for
most actions.

**GroundProofs**, requests: `RequestsTypeCorrect`, `MarksHonest` (`HitsHonest`), `AnswersComplete` (`NothingMissed`). The
invariant `GInv` has a part about the store (`StoreInv`: rows are texts a file once had and their content
is there; a walk that is over has looked at every file) and three about each request. `HonestIn`:
whatever it has in hand (its listing, its hits, the file it reads) is an earlier or the present text of that
file, with an mtime not later than that text, or, from a handler's page, a later one. `PhasesIn`: a phase starts when the one before is done with every corpus
asked for, and a walk that timed out has left its warning. `TracedIn`: where a file that has not
changed since the request began is at each phase: in the walk or still to be walked, in the listing as
the store has it, among the hits, on the queue to be read, covered by a warning, or dropped by the fallback. The file is in
one of the two passes because the listing it is compared with is the one the search took its scope
from. The proof goes phase by phase, and a background step by what it changes
(`MarksOK` says which marks a step of a request may set).

**WatchRegistryProofs**: `TypeCorrect`, `AdmissionExactHolds`, `PassOwnedHolds`,
`EventCoveredHolds`, `NoLostWakeupHolds`. The last two are inductive beside the rest; the
first two count, and are reached through sets and a bijection. `QueueSet` says that the queue
lists the Queued registrations without repetition, `MembersInFlight` that the members of the
running groups are in flight and in one group each, so that a finished pass queues nothing
that is queued already. `GroupPerTask` pairs running tasks with groups: a pass that finishes
may take another group with the same leader, and then the task whose group that was gets the
one left over. `TwinsSeeded` and `NamesKept` say that two registrations of one source resolve
to one key only while a restarted pump has seeded one of them, which is still Done; this is
why `refresh_roots` never drops or doubles a queued one. Until a retarget `RootsKept` ties keys and lock
keys to bindings, so that groups with different leaders hold different keys, and
`PassMembers` ties `passOf` to the groups. The sequence operators (`Only`, `SubSeq`, `RemoveAt`,
`\o` on sequences without repetition) have lemmas of their own.

**Only model-checked**: all liveness, which needs fairness reasoning outside the
prover's reach (`OrphansCollected`, `MutationEnds`, `DuePassRuns`, `ShutdownEnds`,
`ClientReturns`, `Settles`, `Refilled`, `DegradedShown`, `WatchesSettle`, `ChangeCovered`,
`CrashLoopEscalates`, `BootsEventually`, `RequestEnds`). Two models were written so that they could be
reasoned about: the prover cannot expand `SelectSeq` and its library says nothing of it, so
`WatchRegistry` uses its own `Only`, which selects by positions, and `read_recent_trips` of
`Supervision` takes a stretch of the file, which is sorted by age (TLC checked while developing
that it is, and that the stretch is what the filter selects).

## 5. Where code and text disagree

`store_shutdown_dangling` shows one; `PROJECT.json` quotes both sides. An orphan delete
is spawned and outlives the collector that shutdown aborts. The gate is free while the
delete is in flight; a draining handler maps a key the delete then removes. The file is
unsearchable until its content changes.

The following were found by TLC, in variants of the models that no run keeps:

- *Starvation.* Admission reserves nothing for a deferred registration, so a corpus with
  several roots can wait for ever behind overlapping passes on its roots.
- *Overwritten registration.* `refresh_roots` inserts under the new key without looking
  (`registry.rs:568-578`). When two registrations of one source come to resolve to one key,
  one replaces the other, and the queue keeps an id that is Done, or has one twice; a pending
  event is lost with the state that held it. It takes a root that is retargeted, a pump that
  dies and seeds the corpus at its new root, and a second retarget before the roots are refreshed; or a
  discovered wiki that shadows a corpus of the boot configuration, seeded beside it.
- *Shared key.* After a root is retargeted the registration keeps the lock keys of the old
  root (`registry.rs:573`, against the comment at line 253): two passes run for one corpus
  key, and `finish_catch_up` can take one's outcome for the other's.
- *Index gate.* A single-file reindex takes its bytes (`watch/mod.rs:1606`,
  `dispatch.rs:1876`) before `apply` takes its time stamp (`apply.rs:225`, against
  125-129). An edit in between can carry the recorded mtime unsmudged, and the gate at
  `watch/mod.rs:1578` sheds its event; the next pass verifies the hash and repairs the row.
- *Idle exit.* Work that begins between the idle check and the cancellation
  (`server.rs:260`) is detached with the pump and may write after the lock is dropped
  (`state.rs:1190`).
- *Two daemons, one stale store.* "Every ground dir has exactly one owner" (`lance.rs`,
  `acquire_store_lock`) fails for daemons on different sockets that boot on one stale store:
  check, move and `meta.toml` come before `store.lock`, so that the second can move the
  live store of the first aside or clear its real backup; a boot that is refused the lock
  after its move removes the directory of the other (`remove_partial_store`). Without the
  exception `met` TLC refutes `StoreAtHome` and `OriginalKept` with no fault at all.
- *Overwritten page.* `mark_stale` promises that drift is "never silently hidden", but
  `handle_add_markdown` indexes the bytes it wrote and takes the mtime afterwards
  (`dispatch.rs:1261`, 1337-1341, 1876, 1884). If another program writes the page in between,
  the old text has the new mtime and its hits are not marked, until a pass compares the
  hashes. `HitsHonest` excepts just these hits.
- *Unstamped backup.* A move that ends between rename and time stamp (`state.rs:1502-1512`)
  leaves a backup with an old mtime, which the next open may prune at once; as an error
  it also contradicts "A failed move leaves the stale store in place" (`state.rs:1370`).
- *Overflow during a pass.* A path the full buffer drops while a pass that has already
  read the file is running is not followed up until the tick (`registry.rs:905`).
- *Hidden degradation.* `replace_source` (`registry.rs:699`) starts over as Watched while
  `degraded_backend` keeps the id, and the registration is not shown degraded again
  (`registry.rs:450`, 787).
- *Lost watches.* A directory deleted and created again while installed is not watched
  again; `retain_watch_retries` discards the retry after a stream failure when nobody
  wants the path (`watch/mod.rs:758`).
- *Revived list.* `write_ancestor_indexes` goes from the root down and recreates the
  `index.md` of a directory whose parent was already composed without it.

Observed while reading:

- Registry and pump. `refresh_roots` resolves roots outside the lock and applies them later. `replace_source` does not apply
  `MAX_RUNTIME_REGISTRATIONS`. A registration in its retry gate is still admitted as a member
  of another's group. Paths pending at admission are not drained, so a pass they preceded
  is followed by a second one. A catch-up task that panics never reports, and its slot
  stays taken. A batch built from an old snapshot can leave a registration Degraded although it
  is observed, and `mark_watched` for one root of several overwrites an earlier Degraded, both
  until the next tick. Of different corpora at one directory only the first gets events.
- Indexer. A root unmounted between the check of missing roots and the scan looks empty,
  and the pass deletes its rows until it is back. A file moved away and back while a pass
  runs can lose its row although its event was shed before; the next pass restores it.
- Maintenance. A pass forced by Hard debt is paced under I/O pressure (`maintenance.rs:282`,
  against 337). `state.rs:452` speaks of draining maintenance at shutdown; the
  supervisor aborts it, and the join deadline aborts only the monitor. Churn starts a second
  tick outside the supervisor (`watch/mod.rs:1637`).
- Supervision. The watchdog polls every quarter of the stall window "to keep detection latency within
  ~1.25x" (`server.rs:334`). When the quarter does not divide the window the last poll before its end does not
  count as one, and a stall is found after two more polls instead: a window of 9 s is
  polled every 2 s and may take 12 s, 1.33 times; 41 s may take 60 s. A boot backoff
  floor or cap above an hour (`boot_backoff_floor_secs` has no upper bound) is cut short: after
  `TRIP_DECAY_SECS` the trip is forgotten, and the boot proceeds.
- Lifecycle. `restart` spawns once; the new process can find the lock still held by the
  draining old one and exit, and `restart` then fails.
- Pages. A failed reindex tells the caller to "run `index`", which never rewrites an
  `index.md`. `atomic_write_no_follow` says "Atomically write" (`sandbox.rs:467`), but a new
  page is written in place (`write_new_file`). A store failure after the unlink skips the
  refresh of the lists, and a retry answers "does not exist". Deleting a directory's
  `index.md` leaves the link to it; the first page of a new directory leaves the root's link
  without its gloss. An edit by another program between read and rename is overwritten.
  `index_md.rs:15` says files come first; directories do.
- Ground. A missing text index is called "a transient state during indexing"
  (`has_text_index`), but a crash or failed build in the first batch of a fresh store leaves
  searches empty until new content comes. `mark_stale` compares whole seconds, and for hits of
  several corpora stats a document key that is no path, which is always stale. A failed corpus
  scan drops the fallback with only a log line; with a failed listing a phrase query
  misses unindexed files. A request that joins a running walk may miss files
  created before it came. A file reindexed, with its old content collected, between
  listing and search is in neither pass. The lexical fallback drops a file without a warning or
  a log line when it cannot be opened, is not UTF-8 or matches only past 4 MiB
  (`lexical_fallback.rs:20`, 34, 103, 123-150), and keeps what `rg` found when it failed at
  other files (`ripgrep.rs:212-216`); `NothingMissed` excepts these, as `dropped`. Stats of hits and reads
  of windows have no deadline, unlike walks and the reranker (`dispatch.rs:1763`,
  `lexical_fallback.rs:138`), and a listing resolves its root while it holds its permit
  (`inventory.rs:47-62`): on a file system that hangs, the request hangs, and in the last case
  those of other corpora that wait for the permit.
- Store opening. Concurrent first opens with different configurations can leave the
  `meta.toml` of the one that loses the lock; an open that fails after writing it pins the
  configuration of an empty store. A store opened without a registration (`add_markdown`,
  `dispatch.rs:1140`; `delete_markdown`, 1666; `index`, 927; a registration refused with
  `LimitReached`, `registry.rs:441`) and moved aside as stale stays empty: nobody owes it a pass, unlike the
  base store, which the boot rebuilds, and those of registrations. Of two keys that differ only by a model alias the second
  is refused by the process's own lock.

## 6. Not modelled

- Extraction, chunking, parsing, linting, claim marks, path validation and the walk of the
  file system: pure text processing or reads over third-party crates.
- Ranking, fusion, bucketing and the caps on results: floating point, no state.
- Configuration and repository discovery, the wire format, CLI and MCP front ends:
  neither concurrency nor state.
- Inside modelled parts: index building and compaction in LanceDB, the second maintenance tick
  started by churn, warning texts, the failure coalescer of log lines, the legacy
  sibling socket, peer credentials, symbolic links in a wiki, the pool and poisoning of
  the cross-encoder slot.

More than half of the lines of the source files are unit tests kept in them, and much of the
rest is of the kinds above, so the map covers about an eighth of all lines and a quarter of
those that are not tests; of the code that coordinates
tasks, processes and files (locks, watcher, store, lifecycle, supervision, handlers)
every operation that changes state is an action of a module or named in this section.

## 7. Plan

Done: every module of section 2. Left:

1. The cross-encoder slot (construction, busy, poisoning) as a part of `Ground`, and the
   rank operators of fusion and bucketing against reference definitions.
2. What is proved about `WatchRegistry` after a retarget could go beyond queue and slots.
