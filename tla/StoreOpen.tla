----------------------------- MODULE StoreOpen ------------------------------
(***************************************************************************)
(* How a ground directory gets a store: the boot of the daemon, which      *)
(* moves a store of an older schema aside and rebuilds it in line, and     *)
(* resources_for, with which requests and catch-up passes open the store   *)
(* of their configuration on first use.  Several resource keys may name    *)
(* one directory, several daemons on different sockets one file system;    *)
(* build locks and ground locks order the former, store.lock the latter.   *)
(* Any step can fail, and a daemon can crash between two.                  *)
(*                                                                         *)
(* Metadata check, move and meta.toml come before store.lock, so a second  *)
(* daemon may come to a directory that the first is about to move, moves   *)
(* or rebuilds, and spoil it.  The history variable met holds the          *)
(* directories to which that has happened.                                 *)
(*                                                                         *)
(* A directory has an identity of its own (an inode): a rename or a        *)
(* removal takes it from the path under the feet of whoever has it open.   *)
(* Model, quantization and embeddings mode are one configuration.          *)
(***************************************************************************)
EXTENDS Naturals, FiniteSets

CONSTANTS
    Daemons, Openers,   \* processes; tasks that call resources_for
    DaemonOf, Asks,     \* of a task: its process, the keys it may open
    Dirs, Keys,         \* ground directories; resource keys
    DirOf, ConfigOf,    \* of a key: its directory, its canonical configuration
    Embeds,             \* the keys with embeddings enabled
    Base,               \* the key of the boot configuration
    Watched,            \* the keys that stay in the watch registry
    Current,            \* default_schema_version
    Found,              \* the stores that may lie at the paths at the start
    BackedUp,           \* directories with a backup from an earlier move
    Copies,             \* bound on the directories that exist for one path
    MaxFaults,          \* bound on failed steps, crashes and meetings
    None

Configs == {ConfigOf[k] : k \in Keys}
Metas == [version : Nat, config : Configs]

Threads == Daemons \cup Openers
Process(t) == IF t \in Daemons THEN t ELSE DaemonOf[t]

Older == 0..(Current - 1)

\* <<d, 1>> is what lies at d at the start and <<d, 2>> an older backup, both
\* long untouched.
Inodes == Dirs \X (1..Copies)
Original(d) == <<d, 1>>

Handle == [ino : Inodes, emb : BOOLEAN]

ASSUME OpenAssumption ==
    /\ DaemonOf \in [Openers -> Daemons] /\ Asks \in [Openers -> SUBSET Keys]
    /\ Daemons \cap Openers = {} /\ Threads \cap (Daemons \X Keys) = {}
    /\ DirOf \in [Keys -> Dirs] /\ BackedUp \subseteq Dirs /\ Embeds \subseteq Keys
    /\ Base \in Watched /\ Watched \subseteq Keys
    /\ Current \in Nat \ {0} /\ Copies \in Nat /\ Copies >= 2 /\ MaxFaults \in Nat
    /\ Found \subseteq [Dirs -> Metas \cup {None}]
    /\ None \notin Metas \cup Older \cup Inodes \cup Handle

VARIABLES
    at,         \* the directory at each ground path
    bak,        \* the directories at the paths <ground>.bak-v<n>
    meta,       \* meta.toml of each directory
    full,       \* its rows are those of the files
    aged,       \* its mtime is past STALE_BACKUP_MAX_AGE
    proc,       \* "down", "booting", "up"
    cache,      \* `resources` of each process: handle of each key
    job,        \* where each boot and each call of resources_for is
    faults,
    aside,      \* history: how long ago the store found at the start was moved
    cut,        \* history: directories whose move ended before the stamp
    met         \* history: directories where a daemon came upon another's move

disk == <<at, bak, meta, full, aged>>
vars == <<disk, proc, cache, job, faults, aside, cut, met>>

\* Between taking and dropping the guard of ground_dir_locks, and of
\* resource_build_locks.
GroundPhases == {"check", "model", "clear", "rename", "stamp", "open", "lock",
                 "tables", "rebuild", "remove", "prune"}
BuildPhases == GroundPhases \cup {"retry", "ground"}

Job == [at : BuildPhases \cup {"idle", "build"},
        key : Keys,
        stale : Older \cup {None},     \* version of the store it moves
        emb : BOOLEAN,                  \* it has its embedder
        ino : Inodes \cup {None}]      \* the directory whose store.lock it has

Idle == [at |-> "idle", key |-> Base, stale |-> None, emb |-> FALSE, ino |-> None]

TypeOK ==
    /\ at \in [Dirs -> Inodes \cup {None}]
    /\ bak \in [Dirs -> [Older -> Inodes \cup {None}]]
    /\ meta \in [Inodes -> Metas \cup {None}]
    /\ full \in [Inodes -> BOOLEAN] /\ aged \in [Inodes -> BOOLEAN]
    /\ proc \in [Daemons -> {"down", "booting", "up"}]
    /\ cache \in [Daemons -> [Keys -> Handle \cup {None}]]
    /\ job \in [Threads -> Job]
    /\ faults \in 0..MaxFaults
    /\ aside \in [Dirs -> {"none", "no", "recent", "old"}]
    /\ cut \subseteq Dirs /\ met \subseteq Dirs

Dir(t) == DirOf[job[t].key]
Here(t) == at[Dir(t)]
Phase(t) == job[t].at

\* Who has store.lock of a directory: a handle, or an open about to become one.
Holders(i) == {t \in Threads : job[t].ino = i}
              \cup {x \in Daemons \X Keys : cache[x[1]][x[2]] # None
                                            /\ cache[x[1]][x[2]].ino = i}

OnDisk(i) == \E d \in Dirs : at[d] = i \/ \E v \in Older : bak[d][v] = i
Spare(d) == {i \in Inodes : i[1] = d /\ ~OnDisk(i) /\ Holders(i) = {}}
Unused(d) == CHOOSE i \in Spare(d) : TRUE

Fresh(k) == [version |-> Current, config |-> ConfigOf[k]]

\* meta_check_or_init: an older schema is stale whatever its configuration.
Stale(m)      == m # None /\ m.version < Current
Matches(m, k) == m = None \/ m = Fresh(k)
MetaAt(d)     == IF at[d] = None THEN None ELSE meta[at[d]]

Init ==
    /\ \E found \in Found :
         /\ at = [d \in Dirs |-> IF found[d] = None THEN None ELSE Original(d)]
         /\ bak = [d \in Dirs |-> [v \in Older |->
                     IF d \in BackedUp /\ v = Current - 1 THEN <<d, 2>> ELSE None]]
         /\ meta = [i \in Inodes |-> IF i[2] = 1 THEN found[i[1]] ELSE None]
         /\ aged = [i \in Inodes |-> i[2] \in {1, 2}]
         /\ aside = [d \in Dirs |-> IF found[d] = None THEN "none" ELSE "no"]
    /\ full = [i \in Inodes |-> FALSE]
    /\ proc = [p \in Daemons |-> "down"]
    /\ cache = [p \in Daemons |-> [k \in Keys |-> None]]
    /\ job = [t \in Threads |-> Idle]
    /\ faults = 0 /\ cut = {} /\ met = {}

-----------------------------------------------------------------------------
(* A thread goes on, or ends its call.                                      *)

Goto(t, phase) == job' = [job EXCEPT ![t].at = phase]

\* An error: a call returns it and drops its guards; a boot ends the process,
\* after a rebuild was begun by way of remove_partial_store.
Error(t) ==
    IF t \in Openers
    THEN job' = [job EXCEPT ![t] = Idle] /\ UNCHANGED proc
    ELSE IF job[t].stale # None /\ Phase(t) \in {"open", "lock", "tables", "rebuild"}
         THEN job' = [job EXCEPT ![t].at = "remove", ![t].ino = None] /\ UNCHANGED proc
         ELSE /\ job' = [job EXCEPT ![t] = Idle]
              /\ proc' = [proc EXCEPT ![t] = "down"]

\* A daemon comes to a directory while another moves or rebuilds the store
\* there, or is about to.  This uses up a fault, if one is left.
Meeting(t) ==
    \E u \in Threads :
       /\ Process(u) # Process(t) /\ Dir(u) = Dir(t) /\ Phase(u) \in GroundPhases
       /\ job[u].stale # None \/ Stale(MetaAt(Dir(t)))

Meet(t) ==
    IF Meeting(t)
    THEN /\ met' = met \cup {Dir(t)}
         /\ faults' = IF faults < MaxFaults THEN faults + 1 ELSE faults
    ELSE UNCHANGED <<met, faults>>

StartDaemon(p) ==
    /\ proc[p] = "down"
    /\ proc' = [proc EXCEPT ![p] = "booting"]
    /\ Goto(p, "check")
    /\ Meet(p)
    /\ UNCHANGED <<disk, cache, aside, cut>>

HasModel(p, k) == k \in Embeds => cache[p][k].emb

\* Mutant: the store without its embedder is good enough.
ReadyIfOpen(p, k) == cache[p][k] # None

Ready(p, k) == cache[p][k] # None /\ HasModel(p, k)

\* resources_for: what is cached and has its embedder is returned at once.
Request(o, k) ==
    /\ proc[DaemonOf[o]] = "up" /\ Phase(o) = "idle" /\ ~Ready(DaemonOf[o], k)
    /\ job' = [job EXCEPT ![o].at = "build", ![o].key = k]
    /\ UNCHANGED <<disk, proc, cache, faults, aside, cut, met>>

\* The build lock, and the second look behind it.
LockBuild(o) ==
    LET p == DaemonOf[o]
        k == job[o].key
    IN  /\ Phase(o) = "build"
        /\ \A q \in Openers \ {o} :
              DaemonOf[q] = p /\ job[q].key = k => Phase(q) \notin BuildPhases
        /\ job' = [job EXCEPT ![o] =
                     IF cache[p][k] = None THEN [@ EXCEPT !.at = "ground"]
                     ELSE IF Ready(p, k) THEN Idle
                     ELSE [@ EXCEPT !.at = "retry"]]
        /\ UNCHANGED <<disk, proc, cache, faults, aside, cut, met>>

\* The embedder that failed before is built and installed.
RetryEmbedder(o) ==
    /\ Phase(o) = "retry"
    /\ cache' = [cache EXCEPT ![DaemonOf[o]][job[o].key].emb = TRUE]
    /\ job' = [job EXCEPT ![o] = Idle]
    /\ UNCHANGED <<disk, proc, faults, aside, cut, met>>

\* Mutant: only the build lock of the key is held.
LockGroundNot(o) ==
    /\ Phase(o) = "ground"
    /\ Goto(o, "check") /\ Meet(o)
    /\ UNCHANGED <<disk, proc, cache, aside, cut>>

LockGround(o) ==
    /\ Phase(o) = "ground"
    /\ \A q \in Openers \ {o} :
          DaemonOf[q] = DaemonOf[o] /\ Dir(q) = Dir(o) => Phase(q) \notin GroundPhases
    /\ Goto(o, "check") /\ Meet(o)
    /\ UNCHANGED <<disk, proc, cache, aside, cut>>
-----------------------------------------------------------------------------
(* The steps of an open, of a boot (t a daemon) and of a call (t an opener). *)

\* check_ground_dir: a newer schema and another configuration are refused.
check_ground_dir(t) ==
    LET m == MetaAt(Dir(t))
    IN  /\ Phase(t) = "check"
        /\ IF Stale(m)
           THEN /\ job' = [job EXCEPT ![t].at = "model", ![t].stale = m.version]
                /\ UNCHANGED proc
           ELSE IF Matches(m, job[t].key) THEN Goto(t, "model") /\ UNCHANGED proc
           ELSE Error(t)
        /\ UNCHANGED <<disk, cache, faults, aside, cut, met>>

AfterModel(t) == IF job[t].stale # None THEN "clear" ELSE "open"

\* Embedder, if enabled, and tokenizer.
InitModel(t) ==
    /\ Phase(t) = "model"
    /\ job' = [job EXCEPT ![t].at = AfterModel(t), ![t].emb = job[t].key \in Embeds]
    /\ UNCHANGED <<disk, proc, cache, faults, aside, cut, met>>

\* A boot goes on without an embedder.
BootWithoutEmbedder(p) ==
    /\ Phase(p) = "model" /\ Base \in Embeds /\ faults < MaxFaults
    /\ Goto(p, AfterModel(p))
    /\ faults' = faults + 1
    /\ UNCHANGED <<disk, proc, cache, aside, cut, met>>

\* move_stale_store: an older backup of the same version makes room,
ClearBackup(t) ==
    /\ Phase(t) = "clear"
    /\ bak' = [bak EXCEPT ![Dir(t)][job[t].stale] = None]
    /\ Goto(t, "rename")
    /\ UNCHANGED <<at, meta, full, aged, proc, cache, faults, aside, cut, met>>

\* the directory is renamed, with the mtime it has,
Rename(t) ==
    LET d == Dir(t)
    IN  /\ Phase(t) = "rename"
        /\ IF at[d] = None
           THEN Error(t) /\ UNCHANGED <<at, bak, aside>>
           ELSE /\ bak' = [bak EXCEPT ![d][job[t].stale] = at[d]]
                /\ at' = [at EXCEPT ![d] = None]
                /\ aside' = IF at[d] = Original(d) THEN [aside EXCEPT ![d] = "recent"] ELSE aside
                /\ Goto(t, "stamp") /\ UNCHANGED proc
        /\ UNCHANGED <<meta, full, aged, cache, faults, cut, met>>

\* Mutant: the backup keeps the mtime of the store.
StampNot(t) ==
    /\ Phase(t) = "stamp"
    /\ Goto(t, "open")
    /\ UNCHANGED <<disk, proc, cache, faults, aside, cut, met>>

\* and its mtime set to now.
Stamp(t) ==
    LET i == bak[Dir(t)][job[t].stale]
    IN  /\ Phase(t) = "stamp"
        /\ aged' = IF i = None THEN aged ELSE [aged EXCEPT ![i] = FALSE]
        /\ Goto(t, "open")
        /\ UNCHANGED <<at, bak, meta, full, proc, cache, faults, aside, cut, met>>

\* open_or_create_with_owner: directory and meta.toml, checked or created,
OpenDir(t) ==
    LET d == Dir(t)
        k == job[t].key
        i == IF at[d] = None THEN Unused(d) ELSE at[d]
    IN  /\ Phase(t) = "open" /\ (at[d] # None \/ Spare(d) # {})
        /\ IF at[d] # None /\ ~Matches(meta[i], k)
           THEN Error(t) /\ UNCHANGED disk
           ELSE /\ at' = [at EXCEPT ![d] = i]
                /\ meta' = [meta EXCEPT ![i] = Fresh(k)]
                /\ full' = [full EXCEPT ![i] = at[d] # None /\ @]
                /\ aged' = [aged EXCEPT ![i] = at[d] # None /\ @]
                /\ Goto(t, "lock") /\ UNCHANGED <<bak, proc>>
        /\ UNCHANGED <<cache, faults, aside, cut, met>>

\* then store.lock of the directory that is at the path now,
acquire_store_lock(t) ==
    /\ Phase(t) = "lock" /\ Here(t) # None
    /\ Holders(Here(t)) = {}
    /\ job' = [job EXCEPT ![t].at = "tables", ![t].ino = Here(t)]
    /\ UNCHANGED <<disk, proc, cache, faults, aside, cut, met>>

\* which is refused when the retries are used up, or the directory is gone,
LockRefused(t) ==
    /\ Phase(t) = "lock" /\ (Here(t) = None \/ Holders(Here(t)) # {})
    /\ Error(t)
    /\ UNCHANGED <<disk, cache, faults, aside, cut, met>>

\* and the two tables.  A boot that moved a store then rebuilds it.
OpenTables(t) ==
    /\ Phase(t) = "tables"
    /\ Goto(t, IF t \in Daemons /\ job[t].stale # None THEN "rebuild" ELSE "prune")
    /\ UNCHANGED <<disk, proc, cache, faults, aside, cut, met>>

\* reindex_effective_corpora: a corpus with a missing root is skipped, and
\* without its embedder the store takes no rows.
reindex_effective_corpora(p) ==
    /\ Phase(p) = "rebuild"
    /\ IF Base \in Embeds /\ ~job[p].emb
       THEN Error(p) /\ UNCHANGED full
       ELSE /\ \E complete \in BOOLEAN : full' = [full EXCEPT ![job[p].ino] = complete]
            /\ Goto(p, "prune") /\ UNCHANGED proc
    /\ UNCHANGED <<at, bak, meta, aged, cache, faults, aside, cut, met>>

\* Whatever is at the path goes; this may fail.  The boot has failed.
remove_partial_store(p) ==
    /\ Phase(p) = "remove"
    /\ \/ at' = [at EXCEPT ![Dir(p)] = None] /\ UNCHANGED faults
       \/ faults < MaxFaults /\ faults' = faults + 1 /\ UNCHANGED at
    /\ job' = [job EXCEPT ![p] = Idle]
    /\ proc' = [proc EXCEPT ![p] = "down"]
    /\ UNCHANGED <<bak, meta, full, aged, cache, aside, cut, met>>

\* prune_stale_backups, where each removal may fail; then the handle is cached
\* and the guards are dropped.
Finish(t) ==
    LET d == Dir(t)
        k == job[t].key
    IN  /\ Phase(t) = "prune"
        /\ \E gone \in SUBSET {v \in Older : bak[d][v] # None /\ aged[bak[d][v]]} :
              bak' = [bak EXCEPT ![d] = [v \in Older |-> IF v \in gone THEN None ELSE @[v]]]
        /\ cache' = [cache EXCEPT ![Process(t)][k] = [ino |-> job[t].ino, emb |-> job[t].emb]]
        /\ job' = [job EXCEPT ![t] = Idle]
        /\ proc' = IF t \in Daemons THEN [proc EXCEPT ![t] = "up"] ELSE proc
        /\ UNCHANGED <<at, meta, full, aged, faults, aside, cut, met>>

-----------------------------------------------------------------------------
(* Failures, and what goes on beside the opens.                             *)

Cut(ts) == cut' = cut \cup {Dir(t) : t \in {u \in ts : Phase(u) = "stamp"}}

\* A step that reads or writes fails.  The failure of a retried embedder is
\* only logged.
Fail(t) ==
    /\ Phase(t) \in {"retry", "check", "model", "clear", "rename", "stamp", "open", "lock",
                     "tables", "rebuild"}
    /\ faults < MaxFaults /\ faults' = faults + 1
    /\ Error(t)
    /\ Cut({t})
    /\ UNCHANGED <<disk, cache, aside, met>>

Crash(p) ==
    /\ proc[p] # "down"
    /\ faults < MaxFaults /\ faults' = faults + 1
    /\ proc' = [proc EXCEPT ![p] = "down"]
    /\ cache' = [cache EXCEPT ![p] = [k \in Keys |-> None]]
    /\ job' = [t \in Threads |-> IF Process(t) = p THEN Idle ELSE job[t]]
    /\ Cut({t \in Threads : Process(t) = p})
    /\ UNCHANGED <<disk, aside, met>>

\* A pass over the corpora of a key (Indexer): of the watch registry, or asked
\* for by an index command.
CatchUp(p, k) ==
    /\ cache[p][k] # None /\ HasModel(p, k)
    /\ at[DirOf[k]] # None
    /\ full' = [full EXCEPT ![at[DirOf[k]]] = TRUE]
    /\ UNCHANGED <<at, bak, meta, aged, proc, cache, job, faults, aside, cut, met>>

\* STALE_BACKUP_MAX_AGE passes.
Age ==
    /\ \E d \in Dirs : aside[d] = "recent"
    /\ aged' = [i \in Inodes |-> OnDisk(i)]
    /\ aside' = [d \in Dirs |-> IF aside[d] = "recent" THEN "old" ELSE aside[d]]
    /\ UNCHANGED <<at, bak, meta, full, proc, cache, job, faults, cut, met>>

Step(t) ==
    \/ check_ground_dir(t) \/ InitModel(t)
    \/ ClearBackup(t) \/ Rename(t) \/ Stamp(t)
    \/ OpenDir(t) \/ acquire_store_lock(t) \/ LockRefused(t) \/ OpenTables(t)
    \/ Finish(t)

BootStep(p) == Step(p) \/ reindex_effective_corpora(p) \/ remove_partial_store(p)
CallStep(o) == LockBuild(o) \/ RetryEmbedder(o) \/ LockGround(o) \/ Step(o)

Next ==
    \/ \E p \in Daemons : StartDaemon(p) \/ BootWithoutEmbedder(p) \/ BootStep(p) \/ Crash(p)
    \/ \E o \in Openers : CallStep(o) \/ \E k \in Asks[o] : Request(o, k)
    \/ \E t \in Threads : Fail(t)
    \/ \E p \in Daemons, k \in Keys : CatchUp(p, k)
    \/ Age

Spec == Init /\ [][Next]_vars

(* Somebody who wants the daemon starts it.  Boots and calls take their own  *)
(* steps; the mutexes calls wait for are first in, first out.  With every    *)
(* reconcile tick each registration gets a pass, which calls resources_for   *)
(* first: the baseline's and those the registry has admitted and keeps.      *)
(* Nothing is owed to a store that was opened without a registration.        *)
Fairness ==
    /\ WF_vars(\E p \in Daemons : StartDaemon(p))
    /\ \A p \in Daemons : WF_vars(BootStep(p))
    /\ \A o \in Openers : /\ SF_vars(CallStep(o))
                         /\ \A k \in Asks[o] \cap Watched : WF_vars(Request(o, k))
    /\ WF_vars(\E p \in Daemons, k \in Watched : CatchUp(p, k))

FairSpec == Spec /\ Fairness
-----------------------------------------------------------------------------
\* What a handle, or an open that has the lock, believes of its directory.
AtHome(i, k) == at[DirOf[k]] = i /\ meta[i] = Fresh(k) /\ Cardinality(Holders(i)) = 1

\* "Every ground dir has exactly one owner": a store that is open is the one
\* at its path, has the schema and the configuration it was opened with, and
\* no other handle, although checks, moves and removals of other keys and
\* other daemons work on the same path without its lock.  Excepted are
\* directories where a daemon came upon the move of another.
StoreAtHome ==
    /\ \A p \in Daemons, k \in Keys :
          cache[p][k] # None => AtHome(cache[p][k].ino, k) \/ DirOf[k] \in met
    /\ \A t \in Threads : job[t].ino # None => AtHome(job[t].ino, job[t].key) \/ Dir(t) \in met

\* The store found at the start is never lost: it stays in place when it is
\* refused or its move fails, and else "recoverable until pruned", for the
\* whole retention after it was moved, whatever fails or crashes later.
\* Excepted are moves cut short between rename and stamp, and directories
\* where a daemon came upon the move of another.
OriginalKept ==
    \A d \in Dirs : aside[d] \in {"no", "recent"}
                      => OnDisk(Original(d)) \/ d \in cut \/ d \in met

Filled(d) == at[d] # None /\ full[at[d]]

\* In the end the base directory, and every other that a registration keeps
\* open, holds all rows again: after failed rebuilds, boots without embedder
\* and crashes in the middle, which leave an empty store of the current schema
\* that no check will ever call stale.  Excepted are directories where a
\* daemon came upon the move of another.
Refilled ==
    /\ <>[]Filled(DirOf[Base]) \/ <>(DirOf[Base] \in met)
    /\ \A k \in Watched \ {Base} :
          <>[](\E p \in Daemons : cache[p][k] # None)
             => <>[]Filled(DirOf[k]) \/ <>(DirOf[k] \in met)
=============================================================================
