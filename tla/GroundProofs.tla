---------------------------- MODULE GroundProofs ----------------------------
(***************************************************************************)
(* Proofs about ground directories and ground requests: how a directory    *)
(* gets its store (StoreOpen), and what a request answers from the store   *)
(* and the files (Ground).  The two share no state; each has its own       *)
(* inductive invariant.                                                    *)
(*                                                                         *)
(* StoreOpen, for any daemons, tasks, keys, directories, found stores and  *)
(* bounds.  Neither property is inductive: both need that whoever moves or *)
(* removes a store is alone there from its check to its end.  The ground   *)
(* locks see to it in one process; between two nothing does, and of the    *)
(* directories where it was not so (met) the invariant claims only types   *)
(* and the lock.                                                           *)
(*                                                                         *)
(* Ground, for any files, corpora, requests, offers and bounds.  Neither   *)
(* property is inductive: honesty needs that rows, listings, windows and   *)
(* hits carry an mtime no younger than their text, unless they come from a *)
(* page's writer, and completeness where a quiet file is in every phase of *)
(* the request, or that it was dropped.                                    *)
(***************************************************************************)
EXTENDS StoreOpen, Ground, FiniteSetTheorems, TLAPS

-----------------------------------------------------------------------------
(* StoreOpen.                                                              *)

\* A process that is down has nothing, one that boots has its boot, and one
\* that is up has the store of the boot configuration.
ProcPhase ==
    \A p \in Daemons :
        /\ proc[p] = "down" => job[p] = Idle
        /\ proc[p] = "booting" => Phase(p) \in GroundPhases
        /\ proc[p] = "up" => job[p] = Idle /\ cache[p][Base] # None
        /\ proc[p] # "up" => /\ \A o \in Openers : DaemonOf[o] = p => job[o] = Idle
                             /\ \A k \in Keys : cache[p][k] = None

\* Who retries the embedder has a handle to put it in.
RetryKnows ==
    \A o \in Openers : Phase(o) = "retry" => cache[DaemonOf[o]][job[o].key] # None

\* What a call or a boot can be at each step: a boot is for Base, a call for a
\* key of its task; who moves a store has found it stale.
Shape(t, j) ==
    /\ j.at = "idle" => j = Idle
    /\ IF t \in Daemons THEN j.key = Base ELSE j.at = "idle" \/ j.key \in Asks[t]
    /\ j.at \in {"build", "retry", "ground", "check"} => j.stale = None
    /\ j.at \in {"clear", "rename", "stamp", "remove"} => j.stale # None
    /\ j.at \in {"rebuild", "remove"} => t \in Daemons
    /\ j.ino # None <=> j.at \in {"tables", "rebuild", "prune"}

JobShape == \A t \in Threads : Shape(t, job[t])

\* ground_dir_locks: one at a time in each directory of a process.
Exclusive ==
    \A t, u \in Threads :
        t # u /\ Process(t) = Process(u) /\ Dir(t) = Dir(u)
        => Phase(t) \notin GroundPhases \/ Phase(u) \notin GroundPhases

\* Who has found a store stale, or is about to.
Moving(t) == job[t].stale # None \/ (Phase(t) = "check" /\ Stale(MetaAt(Dir(t))))

\* Whoever has found a stale store is alone in its directory, or has been met.
MoversApart ==
    \A t, u \in Threads :
        t # u /\ Dir(t) = Dir(u) /\ Dir(t) \notin met /\ Moving(t)
        => Phase(u) \notin GroundPhases

\* A handle, or an open that has the lock, is of the directory at its path.
HandlesHome ==
    /\ \A p \in Daemons, k \in Keys : cache[p][k] # None /\ DirOf[k] \notin met =>
         at[DirOf[k]] = cache[p][k].ino /\ meta[cache[p][k].ino] = Fresh(k)
    /\ \A t \in Threads : job[t].ino # None /\ Dir(t) \notin met =>
         Here(t) = job[t].ino /\ meta[job[t].ino] = Fresh(job[t].key)

\* Nobody shares a store.lock.
SoleHolder == \A i \in Inodes : \A x, y \in Holders(i) : x = y

\* Nobody has the store open that a mover is about to move, or has moved.
MoverFirst ==
    \A t \in Threads, p \in Daemons, k \in Keys :
        job[t].stale # None /\ DirOf[k] = Dir(t) /\ Dir(t) \notin met => cache[p][k] = None

\* Between OpenDir and the lock the directory stays what OpenDir left.
LockKnows ==
    \A t \in Threads : Phase(t) = "lock" /\ Dir(t) \notin met =>
        Here(t) # None /\ meta[Here(t)] = Fresh(job[t].key)

\* Directories stay under their ground path.
InodeHome ==
    \A d \in Dirs : /\ at[d] # None => at[d][1] = d
                    /\ \A v \in Older : bak[d][v] # None => bak[d][v][1] = d

\* Before it renames the store.
Unmoved == {"model", "clear", "rename"}

\* Only the store found at the start is ever stale, and it is moved once.
FoundOnce ==
    /\ \A d \in Dirs \ met : aside[d] = "no" => at[d] = Original(d)
    /\ \A d \in Dirs \ met : Stale(MetaAt(d)) => aside[d] = "no"
    /\ \A t \in Threads : job[t].stale # None /\ Dir(t) \notin met =>
         (Phase(t) \in Unmoved <=> aside[Dir(t)] = "no")

\* A store moved recently is in its backup, with the time stamp of the move or
\* about to get it, or its move was cut.
RecentKept ==
    \A d \in Dirs \ (cut \cup met) : aside[d] = "recent" =>
        \E v \in Older :
            /\ bak[d][v] = Original(d)
            /\ \/ ~aged[Original(d)]
               \/ \E t \in Threads : Phase(t) = "stamp" /\ Dir(t) = d /\ job[t].stale = v

IInv ==
    /\ TypeOK /\ ProcPhase /\ RetryKnows /\ JobShape /\ Exclusive /\ MoversApart
    /\ HandlesHome /\ SoleHolder /\ MoverFirst /\ LockKnows
    /\ InodeHome /\ FoundOnce /\ RecentKept

-----------------------------------------------------------------------------
(* What the invariant says of a thread.                                    *)

\* The types of what a thread is at.
LEMMA Known ==
    ASSUME TypeOK, NEW t \in Threads
    PROVE  /\ job[t] \in Job /\ job[t].key \in Keys /\ Dir(t) \in Dirs /\ Process(t) \in Daemons
           /\ Phase(t) \in BuildPhases \cup {"idle", "build"}
           /\ job[t].stale \in Older \cup {None} /\ job[t].ino \in Inodes \cup {None}
           /\ Here(t) \in Inodes \cup {None}
           /\ t \notin Daemons => t \in Openers /\ Process(t) = DaemonOf[t]
           /\ t \in Daemons => t \notin Openers /\ Process(t) = t
<1>1. job[t] \in Job /\ at \in [Dirs -> Inodes \cup {None}]
  BY DEF TypeOK
<1>2. /\ job[t].key \in Keys /\ Phase(t) \in BuildPhases \cup {"idle", "build"}
      /\ job[t].stale \in Older \cup {None} /\ job[t].ino \in Inodes \cup {None}
  BY <1>1 DEF Job, Phase
<1>3. Dir(t) \in Dirs
  BY <1>2, OpenAssumption DEF Dir
<1> QED
  BY <1>1, <1>2, <1>3, OpenAssumption DEF Here, Process, Threads

\* What an open leaves in meta.toml is not stale.
LEMMA FreshLemma == \A k \in Keys : DirOf[k] \in Dirs /\ Fresh(k) \in Metas /\ ~Stale(Fresh(k))
<1>1. \A k \in Keys : Fresh(k) \in Metas
  BY OpenAssumption DEF Fresh, Metas, Configs
<1>2. \A k \in Keys : ~Stale(Fresh(k))
  BY OpenAssumption DEF Fresh, Stale
<1> QED
  BY <1>1, <1>2, OpenAssumption

\* The two kinds of holders of a lock.
LEMMA HolderKinds ==
    ASSUME NEW i
    PROVE  /\ \A t \in Threads : t \in Holders(i) <=> job[t].ino = i
           /\ \A p \in Daemons, k \in Keys :
                <<p, k>> \in Holders(i) <=> cache[p][k] # None /\ cache[p][k].ino = i
           /\ \A x \in Holders(i) : x \in Threads \/ x \in Daemons \X Keys
<1> DEFINE H == {x \in Daemons \X Keys : cache[x[1]][x[2]] # None /\ cache[x[1]][x[2]].ino = i}
           J == {t \in Threads : job[t].ino = i}
<1>1. Holders(i) = J \cup H
  BY DEF Holders
<1>2. \A t \in Threads : t \notin H
  BY OpenAssumption
<1>3. \A p \in Daemons, k \in Keys : <<p, k>> \notin J /\ <<p, k>> \in Daemons \X Keys
  BY OpenAssumption
<1>4. \A p \in Daemons, k \in Keys : <<p, k>> \in H <=> cache[p][k] # None /\ cache[p][k].ino = i
  BY <1>3
<1> QED
  BY <1>1, <1>2, <1>3, <1>4

\* Who is at work belongs to a process that lives; a call belongs to one that
\* is up, and has the base store open.
LEMMA Alive ==
    ASSUME TypeOK, ProcPhase, NEW t \in Threads, Phase(t) # "idle"
    PROVE  /\ proc[Process(t)] # "down"
           /\ t \in Daemons => proc[t] = "booting" /\ Phase(t) \in GroundPhases
           /\ t \notin Daemons => proc[Process(t)] = "up" /\ cache[Process(t)][Base] # None
<1>1. Idle.at = "idle"
  BY DEF Idle
<1>2. proc \in [Daemons -> {"down", "booting", "up"}]
  BY DEF TypeOK
<1>3. CASE t \in Daemons
  BY <1>1, <1>2, <1>3, Known DEF ProcPhase, Phase
<1>4. CASE t \notin Daemons
  BY <1>1, <1>2, <1>4, Known DEF ProcPhase, Phase
<1> QED
  BY <1>3, <1>4

-----------------------------------------------------------------------------
(* What most steps have in common.                                         *)

\* A thread that neither finds a stale store nor changes a directory: it goes
\* on with what it knows, or gives it up.
Tame(t) ==
    /\ job'[t].stale # None =>
         /\ job[t].stale # None /\ job'[t].key = job[t].key
         /\ job'[t].at \in Unmoved <=> Phase(t) \in Unmoved
    /\ job'[t].ino # None => job'[t].ino = job[t].ino /\ job'[t].key = job[t].key
    /\ job'[t].at = "lock" => Phase(t) = "lock" /\ job'[t].key = job[t].key
    /\ Phase(t) = "stamp" /\ Dir(t) \notin cut' => job'[t] = job[t]

\* No handle is new, or of another directory.
NoNewHandle ==
    \A p \in Daemons, k \in Keys :
        cache'[p][k] # None => cache[p][k] # None /\ cache'[p][k].ino = cache[p][k].ino

\* The part of the invariant that is about directories.
DiskPart ==
    /\ HandlesHome /\ SoleHolder /\ MoverFirst /\ LockKnows
    /\ InodeHome /\ FoundOnce /\ RecentKept

\* The part that is about processes and their threads.
JobPart == ProcPhase /\ RetryKnows /\ JobShape /\ Exclusive

\* The invariant is these parts.
LEMMA Parts ==
    /\ IInv <=> TypeOK /\ JobPart /\ MoversApart /\ DiskPart
    /\ TypeOK' /\ JobPart' /\ MoversApart' /\ DiskPart' => IInv'
BY DEF IInv, JobPart, DiskPart

\* Who gives up a lock, or keeps it, shares it with nobody.
LEMMA HoldersKept ==
    ASSUME SoleHolder, NoNewHandle,
           \A t \in Threads : job'[t].ino # None => job'[t].ino = job[t].ino
    PROVE  SoleHolder'
<1> SUFFICES ASSUME NEW i \in Inodes, NEW x \in Holders(i)', NEW y \in Holders(i)' PROVE x = y
  BY DEF SoleHolder
<1>1. \A z \in Holders(i)' : z \in Holders(i)
  <2> SUFFICES ASSUME NEW z \in Holders(i)' PROVE z \in Holders(i)
    OBVIOUS
  <2>1. i # None
    BY OpenAssumption
  <2>2. \/ z \in Threads /\ job'[z].ino = i
        \/ \E p \in Daemons, k \in Keys : z = <<p, k>> /\ cache'[p][k] # None /\ cache'[p][k].ino = i
    BY DEF Holders
  <2>3. CASE z \in Threads /\ job'[z].ino = i
    BY <2>1, <2>3, HolderKinds
  <2>4. ASSUME NEW p \in Daemons, NEW k \in Keys,
               z = <<p, k>>, cache'[p][k] # None, cache'[p][k].ino = i
        PROVE  z \in Holders(i)
    BY <2>4, HolderKinds DEF NoNewHandle
  <2> QED
    BY <2>2, <2>3, <2>4
<1> QED
  BY <1>1 DEF SoleHolder

\* A step that leaves the directories alone.
LEMMA TameKeeps ==
    ASSUME IInv, UNCHANGED <<at, bak, meta, aged, aside>>, cut \subseteq cut', met \subseteq met',
           \A t \in Threads : Tame(t), NoNewHandle
    PROVE  DiskPart'
<1>0. UNCHANGED Older
  OBVIOUS
<1>1. HandlesHome'
  <2>1. \A p \in Daemons, k \in Keys : cache'[p][k] # None /\ DirOf[k] \notin met =>
          at[DirOf[k]] = cache'[p][k].ino /\ meta[cache'[p][k].ino] = Fresh(k)
    BY DEF NoNewHandle, IInv, HandlesHome
  <2>2. \A t \in Threads : job'[t].ino # None /\ DirOf[job'[t].key] \notin met =>
          at[DirOf[job'[t].key]] = job'[t].ino /\ meta[job'[t].ino] = Fresh(job'[t].key)
    BY DEF Tame, IInv, HandlesHome, Here, Dir
  <2> QED
    BY <2>1, <2>2 DEF HandlesHome, Here, Dir, Fresh
<1>2. SoleHolder'
  BY HoldersKept DEF IInv, Tame
<1>3. MoverFirst'
  BY DEF NoNewHandle, Tame, IInv, MoverFirst, Dir
<1>4. LockKnows'
  <2>1. \A t \in Threads : job'[t].at = "lock" => job[t].at = "lock" /\ job'[t].key = job[t].key
    BY DEF Tame, Phase
  <2> QED
    BY <2>1 DEF IInv, LockKnows, Here, Dir, Phase, Fresh
<1>5. InodeHome'
  BY DEF IInv, InodeHome
<1>6. FoundOnce'
  <2>1. \A t \in Threads : job'[t].stale # None =>
          job[t].stale # None /\ job'[t].key = job[t].key /\ (job'[t].at \in Unmoved <=> job[t].at \in Unmoved)
    BY DEF Tame, Phase
  <2> QED
    BY <2>1 DEF IInv, FoundOnce, Dir, Phase, MetaAt
<1>7. RecentKept'
  <2> SUFFICES ASSUME NEW d \in Dirs \ (cut' \cup met'), aside[d] = "recent"
               PROVE  \E v \in Older :
                        /\ bak[d][v] = Original(d)
                        /\ \/ ~aged[Original(d)]
                           \/ \E t \in Threads : Phase(t)' = "stamp" /\ Dir(t)' = d /\ job'[t].stale = v
    BY DEF RecentKept
  <2>1. PICK v \in Older :
            /\ bak[d][v] = Original(d)
            /\ \/ ~aged[Original(d)]
               \/ \E t \in Threads : Phase(t) = "stamp" /\ Dir(t) = d /\ job[t].stale = v
    BY DEF IInv, RecentKept
  <2>2. ASSUME NEW t \in Threads, Phase(t) = "stamp", Dir(t) = d, job[t].stale = v
        PROVE  Phase(t)' = "stamp" /\ Dir(t)' = d /\ job'[t].stale = v
    BY <2>2 DEF Tame, Phase, Dir
  <2> QED
    BY <2>1, <2>2
<1> QED
  BY <1>1, <1>2, <1>3, <1>4, <1>5, <1>6, <1>7 DEF DiskPart

\* A thread that does not change is tame.
LEMMA SameTame == ASSUME NEW t \in Threads, job'[t] = job[t] PROVE Tame(t)
BY DEF Tame, Phase

\* Nor does one that gives up what it has, unless it is in a move.
LEMMA IdleTame ==
    ASSUME NEW t \in Threads, job'[t] = Idle, Phase(t) # "stamp" \/ Dir(t) \in cut'
    PROVE  Tame(t)
BY DEF Tame, Idle

\* Movers are as alone as they were, when nobody comes to a directory.
LEMMA ApartKeeps ==
    ASSUME TypeOK, MoversApart, met \subseteq met',
           \A t \in Threads :
              \/ job'[t] = job[t]
              \/ job'[t].at \notin GroundPhases /\ job'[t].stale = None
              \/ /\ Phase(t) \in GroundPhases /\ job'[t].at # "check" /\ job'[t].key = job[t].key
                 /\ job'[t].stale # None => Moving(t),
           \A d \in Dirs : Stale(MetaAt(d))' => Stale(MetaAt(d))
    PROVE  MoversApart'
<1> SUFFICES ASSUME NEW t \in Threads, NEW u \in Threads, t # u, DirOf[job'[t].key] = DirOf[job'[u].key],
                    DirOf[job'[t].key] \notin met', Moving(t)', job'[u].at \in GroundPhases
             PROVE  FALSE
  BY DEF MoversApart, Dir, Phase
<1>1. Phase(u) \in GroundPhases /\ job'[u].key = job[u].key
  BY DEF Phase
<1>2. Moving(t) /\ job'[t].key = job[t].key
  <2>1. CASE job'[t].stale # None
    BY <2>1 DEF Moving
  <2>2. CASE job'[t].stale = None
    <3>1. job'[t].at = "check" /\ Stale(MetaAt(Dir(t)))'
      BY <2>2 DEF Moving, Phase
    <3>2. job'[t] = job[t] /\ Phase(t) = "check"
      BY <3>1 DEF Phase, GroundPhases
    <3>3. Dir(t)' = Dir(t) /\ Dir(t) \in Dirs
      BY <3>2, Known DEF Dir
    <3>4. Stale(MetaAt(Dir(t)))
      <4> DEFINE d == Dir(t)
      <4>1. d' = d /\ d \in Dirs
        BY <3>3
      <4>2. Stale(MetaAt(d)')
        BY <3>1 DEF Stale
      <4>3. Stale(IF at'[d] = None THEN None ELSE meta'[at'[d]])
        BY <4>1, <4>2 DEF MetaAt
      <4> QED
        BY <4>1, <4>3 DEF MetaAt, Stale
    <3> QED
      BY <3>2, <3>4 DEF Moving
  <2> QED
    BY <2>1, <2>2
<1>3. Dir(t) = Dir(u) /\ Dir(t) \notin met
  BY <1>1, <1>2 DEF Dir
<1> QED
  BY <1>1, <1>2, <1>3 DEF MoversApart

\* A store that nobody touches goes no staler.
LEMMA SameStale == ASSUME UNCHANGED <<at, meta>> PROVE \A d \in Dirs : Stale(MetaAt(d))' => Stale(MetaAt(d))
BY DEF MetaAt, Stale

\* Who comes to a directory is alone there, or meets whoever moves its store.
LEMMA ComesKeeps ==
    ASSUME IInv, UNCHANGED <<at, meta>>, NEW t \in Threads, Meet(t),
           \A u \in Threads \ {t} : job'[u] = job[u],
           \A u \in Threads \ {t} : Process(u) = Process(t) /\ Dir(u) = Dir(t) => Phase(u) \notin GroundPhases,
           job'[t].key = job[t].key, job'[t].stale = None
    PROVE  MoversApart'
<1> SUFFICES ASSUME NEW x \in Threads, NEW y \in Threads, x # y, DirOf[job'[x].key] = DirOf[job'[y].key],
                    DirOf[job'[x].key] \notin met', Moving(x)', job'[y].at \in GroundPhases
             PROVE  FALSE
  BY DEF MoversApart, Dir, Phase
<1>1. Dir(x) = Dir(y) /\ \A u \in Threads : job'[u].key = job[u].key
  BY DEF Dir
<1>2. \A d : MetaAt(d)' = MetaAt(d)
  BY DEF MetaAt
<1>3. met \subseteq met' /\ Dir(x) \notin met'
  BY <1>1 DEF Meet, Dir
<1>4. \A u \in Threads \ {t} : job[u].stale # None => Phase(u) \in GroundPhases
  <2> SUFFICES ASSUME NEW u \in Threads \ {t}, job[u].stale # None PROVE Phase(u) \in GroundPhases
    OBVIOUS
  <2>1. Shape(u, job[u]) /\ Phase(u) \in BuildPhases \cup {"idle", "build"}
    BY Known DEF IInv, JobShape
  <2>2. Phase(u) \notin {"idle", "build", "retry", "ground"}
    BY <2>1 DEF Shape, Idle, Phase
  <2> QED
    BY <2>1, <2>2 DEF BuildPhases
<1>5. Moving(x)' <=> job'[x].stale # None \/ (job'[x].at = "check" /\ Stale(MetaAt(Dir(x))))
  <2>1. Dir(x)' = Dir(x)
    BY <1>1 DEF Dir
  <2>2. MetaAt(Dir(x))' = MetaAt(Dir(x))
    BY <2>1 DEF MetaAt
  <2> QED
    BY <2>2 DEF Moving, Phase
<1>6. CASE x # t /\ y # t
  BY <1>1, <1>3, <1>5, <1>6 DEF IInv, MoversApart, Moving, Phase
<1>7. ASSUME NEW u \in Threads \ {t}, Dir(u) = Dir(t), Dir(t) \notin met', Phase(u) \in GroundPhases,
             job[u].stale # None \/ Stale(MetaAt(Dir(t)))
      PROVE  FALSE
  <2>1. Process(u) # Process(t)
    BY <1>7
  <2>2. Meeting(t)
    BY <1>7, <2>1 DEF Meeting
  <2> QED
    BY <1>7, <2>2 DEF Meet
<1>8. CASE x = t
  BY <1>1, <1>3, <1>5, <1>7, <1>8 DEF Phase
<1>9. CASE y = t
  <2>1. Phase(x) \in GroundPhases /\ (job[x].stale # None \/ Stale(MetaAt(Dir(t))))
    BY <1>1, <1>4, <1>5, <1>9 DEF Phase, GroundPhases
  <2> QED
    BY <1>1, <1>3, <1>7, <1>9, <2>1
<1> QED
  BY <1>6, <1>8, <1>9

\* Coming to a directory uses a fault at most.
LEMMA MeetType ==
    ASSUME TypeOK, NEW t \in Threads, Meet(t)
    PROVE  faults' \in 0..MaxFaults /\ met' \subseteq Dirs /\ met \subseteq met'
<1>1. Dir(t) \in Dirs /\ met \subseteq Dirs /\ faults \in 0..MaxFaults
  BY Known DEF TypeOK
<1>2. \/ UNCHANGED <<met, faults>>
      \/ met' = met \cup {Dir(t)} /\ faults' = IF faults < MaxFaults THEN faults + 1 ELSE faults
  BY DEF Meet
<1> QED
  BY <1>1, <1>2, OpenAssumption

\* A thread at work in its directory goes on there.
LEMMA Within ==
    ASSUME IInv, UNCHANGED <<proc, cache>>, NEW t \in Threads, Phase(t) \in GroundPhases,
           \A u \in Threads \ {t} : job'[u] = job[u],
           job'[t].at \in GroundPhases, job'[t].key = job[t].key, Shape(t, job'[t])
    PROVE  JobPart'
<1>1. Phase(t) # "idle" /\ TypeOK /\ ProcPhase
  BY DEF GroundPhases, IInv
<1>2. ProcPhase'
  <2>1. CASE t \in Daemons
    <3>1. proc[t] = "booting" /\ \A u \in Threads : u # t => job'[u] = job[u]
      BY <1>1, <2>1, Alive
    <3>2. \A o \in Openers : o # t /\ o \in Threads
      BY <2>1, OpenAssumption DEF Threads
    <3>3. \A p \in Daemons : p \in Threads
      BY DEF Threads
    <3> QED
      BY <3>1, <3>2, <3>3 DEF IInv, ProcPhase, Phase
  <2>2. CASE t \notin Daemons
    <3>1. proc[DaemonOf[t]] = "up" /\ t \in Openers
      BY <1>1, <2>2, Alive, Known
    <3>2. \A o \in Openers : o \in Threads
      BY DEF Threads
    <3>3. \A p \in Daemons : p \in Threads /\ p # t
      BY <2>2 DEF Threads
    <3> QED
      BY <3>1, <3>2, <3>3 DEF IInv, ProcPhase, Phase
  <2> QED
    BY <2>1, <2>2
<1>3. JobShape'
  BY DEF IInv, JobShape
<1>4. Exclusive'
  <2>1. \A u \in Threads : Dir(u)' = Dir(u) /\ (Phase(u)' \in GroundPhases => Phase(u) \in GroundPhases)
    BY DEF Dir, Phase
  <2> QED
    BY <2>1 DEF IInv, Exclusive
<1>5. RetryKnows'
  BY DEF IInv, RetryKnows, Phase, GroundPhases, Threads
<1> QED
  BY <1>2, <1>3, <1>4, <1>5 DEF JobPart

\* A call goes on; if it takes the ground lock, it finds it free.
LEMMA CallGoes ==
    ASSUME IInv, TypeOK', UNCHANGED proc, NEW t \in Openers, proc[DaemonOf[t]] = "up",
           \A p \in Daemons, k \in Keys : cache'[p][k] = None <=> cache[p][k] = None,
           \A u \in Threads \ {t} : job'[u] = job[u],
           Shape(t, job'[t]),
           job'[t].at = "retry" => cache[DaemonOf[t]][job'[t].key] # None,
           job'[t].at \in GroundPhases =>
             \A u \in Threads \ {t} :
               Process(u) = Process(t) /\ Dir(u) = DirOf[job'[t].key] => Phase(u) \notin GroundPhases
    PROVE  JobPart'
<1>1. t \in Threads /\ t \notin Daemons
  BY OpenAssumption DEF Threads
<1>2. ProcPhase'
  <2>1. \A o \in Openers : o \in Threads
    BY DEF Threads
  <2>2. \A p \in Daemons : p \in Threads /\ p # t
    BY <1>1 DEF Threads
  <2> QED
    BY <2>1, <2>2, OpenAssumption DEF IInv, ProcPhase, Phase
<1>3. JobShape'
  BY DEF IInv, JobShape
<1>4. Exclusive'
  <2>1. \A u \in Threads \ {t} : Dir(u)' = Dir(u) /\ Phase(u)' = Phase(u)
    BY DEF Dir, Phase
  <2>2. Dir(t)' = DirOf[job'[t].key] /\ Phase(t)' = job'[t].at
    BY DEF Dir, Phase
  <2> QED
    BY <1>1, <2>1, <2>2 DEF IInv, Exclusive
<1>5. RetryKnows'
  <2> SUFFICES ASSUME NEW o \in Openers, job'[o].at = "retry"
               PROVE  cache'[DaemonOf[o]][job'[o].key] # None
    BY DEF RetryKnows, Phase
  <2>1. cache[DaemonOf[o]][job'[o].key] # None /\ o \in Threads
    BY DEF IInv, RetryKnows, Phase, Threads
  <2>2. job'[o].key \in Keys
    BY <2>1, Known DEF TypeOK, Job
  <2> QED
    BY <2>1, <2>2, OpenAssumption
<1> QED
  BY <1>2, <1>3, <1>4, <1>5 DEF JobPart

\* A process ends.
Ends(p) ==
    /\ proc' = [proc EXCEPT ![p] = "down"]
    /\ \A q \in Daemons \ {p} : cache'[q] = cache[q]
    /\ \A k \in Keys : cache'[p][k] = None
    /\ \A t \in Threads : job'[t] = IF Process(t) = p THEN Idle ELSE job[t]

\* Idle is the shape of any thread.
LEMMA IdleShape == Idle \in Job /\ \A t \in Threads : Shape(t, Idle)
<1>1. Idle \in Job
  BY OpenAssumption DEF Idle, Job
<1> QED
  BY <1>1 DEF Idle, Shape

\* Then its threads are idle, and the others are as they were.
LEMMA EndsLemma ==
    ASSUME IInv, NEW p \in Daemons, Ends(p)
    PROVE  JobPart' /\ NoNewHandle
<1>1. proc \in [Daemons -> {"down", "booting", "up"}]
  BY DEF IInv, TypeOK
<1>2. proc' = [proc EXCEPT ![p] = "down"] /\ proc'[p] = "down" /\ \A q \in Daemons \ {p} : proc'[q] = proc[q]
  BY <1>1 DEF Ends
<1>3. \A t \in Threads : job'[t] = IF Process(t) = p THEN Idle ELSE job[t]
  BY DEF Ends
<1>4. \A q \in Daemons : q \in Threads /\ Process(q) = q
  BY DEF Threads, Process
<1>5. \A o \in Openers : o \in Threads /\ Process(o) = DaemonOf[o]
  BY OpenAssumption DEF Threads, Process
<1>6. ProcPhase'
  <2> SUFFICES ASSUME NEW q \in Daemons
               PROVE  /\ proc'[q] = "down" => job'[q] = Idle
                      /\ proc'[q] = "booting" => job'[q].at \in GroundPhases
                      /\ proc'[q] = "up" => job'[q] = Idle /\ cache'[q][Base] # None
                      /\ proc'[q] # "up" => /\ \A o \in Openers : DaemonOf[o] = q => job'[o] = Idle
                                            /\ \A k \in Keys : cache'[q][k] = None
    BY DEF ProcPhase, Phase
  <2>1. CASE q = p
    BY <2>1, <1>2, <1>3, <1>4, <1>5 DEF Ends
  <2>2. CASE q # p
    <3>1. proc'[q] = proc[q] /\ job'[q] = job[q] /\ cache'[q] = cache[q]
      BY <2>2, <1>2, <1>3, <1>4 DEF Ends
    <3>2. \A o \in Openers : DaemonOf[o] = q => job'[o] = job[o]
      BY <2>2, <1>3, <1>5
    <3> QED
      BY <3>1, <3>2 DEF IInv, ProcPhase, Phase
  <2> QED
    BY <2>1, <2>2
<1>7. JobShape'
  BY <1>3, IdleShape DEF IInv, JobShape
<1>8. Exclusive'
  <2>1. \A t \in Threads : Phase(t)' \in GroundPhases => job'[t] = job[t]
    BY <1>3 DEF Phase, Idle, GroundPhases
  <2> QED
    BY <2>1 DEF IInv, Exclusive, Dir, Phase
<1>9. NoNewHandle
  BY DEF Ends, NoNewHandle
<1>10. RetryKnows'
  <2> SUFFICES ASSUME NEW o \in Openers, job'[o].at = "retry"
               PROVE  cache'[DaemonOf[o]][job'[o].key] # None
    BY DEF RetryKnows, Phase
  <2>1. job'[o] = job[o] /\ DaemonOf[o] # p
    BY <1>3, <1>5 DEF Idle
  <2> QED
    BY <2>1, OpenAssumption DEF IInv, RetryKnows, Phase, Ends
<1> QED
  BY <1>6, <1>7, <1>8, <1>9, <1>10 DEF JobPart

-----------------------------------------------------------------------------
(* The steps that leave the directories alone.                             *)

\* The types of processes and jobs after an error.
LEMMA ErrorType ==
    ASSUME TypeOK, NEW t \in Threads, Error(t)
    PROVE  job' \in [Threads -> Job] /\ proc' \in [Daemons -> {"down", "booting", "up"}]
           /\ \A u \in Threads \ {t} : job'[u] = job[u]
<1>1. job \in [Threads -> Job] /\ proc \in [Daemons -> {"down", "booting", "up"}] /\ job[t] \in Job
  BY DEF TypeOK
<1>2. [job[t] EXCEPT !.at = "remove", !.ino = None] \in Job
  BY <1>1 DEF Job, BuildPhases, GroundPhases
<1>3. \/ job' = [job EXCEPT ![t] = Idle]
      \/ job' = [job EXCEPT ![t] = [job[t] EXCEPT !.at = "remove", !.ino = None]]
  BY <1>1 DEF Error
<1>4. proc' = proc \/ proc' = [proc EXCEPT ![t] = "down"]
  BY DEF Error
<1> QED
  BY <1>1, <1>2, <1>3, <1>4, IdleShape

\* An error ends a call, and a boot now or by way of remove_partial_store.
LEMMA ErrorGoes ==
    ASSUME IInv, TypeOK', NEW t \in Threads, Error(t),
           Phase(t) \in {"retry", "check", "model", "clear", "rename", "stamp", "open", "lock",
                         "tables", "rebuild"},
           UNCHANGED <<at, bak, meta, aged, cache, aside, met>>, cut \subseteq cut',
           Phase(t) = "stamp" => Dir(t) \in cut'
    PROVE  IInv'
<1>1. TypeOK /\ ProcPhase /\ JobShape /\ MoversApart
  BY DEF IInv
<1>2. Phase(t) # "idle"
  OBVIOUS
<1>3. job \in [Threads -> Job] /\ proc \in [Daemons -> {"down", "booting", "up"}]
  BY <1>1 DEF TypeOK
<1>4. NoNewHandle
  BY DEF NoNewHandle
<1>5. \A d \in Dirs : Stale(MetaAt(d))' => Stale(MetaAt(d))
  BY SameStale
<1>6. CASE t \in Openers
  <2>1. job' = [job EXCEPT ![t] = Idle] /\ proc' = proc
    BY <1>6 DEF Error
  <2>2. job'[t] = Idle /\ \A u \in Threads \ {t} : job'[u] = job[u]
    BY <2>1, <1>3
  <2>3. JobPart'
    <3>1. proc[DaemonOf[t]] = "up"
      BY <1>1, <1>2, <1>6, Alive, Known, OpenAssumption
    <3>2. Shape(t, job'[t])
      BY <2>2, IdleShape
    <3>3. job'[t].at \notin GroundPhases /\ job'[t].at # "retry"
      BY <2>2 DEF Idle, GroundPhases
    <3> QED
      BY <3>1, <3>2, <3>3, <2>1, <2>2, <1>6, CallGoes
  <2>4. \A u \in Threads : Tame(u)
    BY <2>2, SameTame, IdleTame
  <2>5. DiskPart'
    BY <2>4, <1>4, TameKeeps
  <2>6. MoversApart'
    <3>1. job'[t].at \notin GroundPhases /\ job'[t].stale = None
      BY <2>2 DEF Idle, GroundPhases
    <3> QED
      BY <3>1, <2>2, <1>1, <1>5, ApartKeeps
  <2> QED
    BY <2>3, <2>5, <2>6, Parts
<1>7. CASE t \in Daemons /\ job[t].stale # None /\ Phase(t) \in {"open", "lock", "tables", "rebuild"}
  <2>1. job' = [job EXCEPT ![t].at = "remove", ![t].ino = None] /\ proc' = proc
    BY <1>7, OpenAssumption DEF Error
  <2>2. /\ job'[t].at = "remove" /\ job'[t].ino = None /\ job'[t].stale = job[t].stale
        /\ job'[t].key = job[t].key
        /\ \A u \in Threads \ {t} : job'[u] = job[u]
    <3>1. job[t] \in Job
      BY <1>3
    <3> QED
      BY <2>1, <3>1, <1>3 DEF Job
  <2>3. Shape(t, job'[t])
    BY <2>2, <1>1, <1>7 DEF JobShape, Shape
  <2>4. JobPart'
    <3>1. Phase(t) \in GroundPhases /\ job'[t].at \in GroundPhases
      BY <1>7, <2>2 DEF GroundPhases
    <3> QED
      BY <3>1, <2>1, <2>2, <2>3, Within
  <2>5. \A u \in Threads : Tame(u)
    <3>1. Tame(t)
      BY <2>2, <1>7 DEF Tame, Unmoved
    <3> QED
      BY <3>1, <2>2, SameTame
  <2>6. DiskPart'
    BY <2>5, <1>4, TameKeeps
  <2>7. MoversApart'
    <3>1. Phase(t) \in GroundPhases /\ job'[t].at # "check" /\ Moving(t)
      BY <2>2, <1>7 DEF GroundPhases, Moving
    <3> QED
      BY <3>1, <2>2, <1>1, <1>5, ApartKeeps
  <2> QED
    BY <2>4, <2>6, <2>7, Parts
<1>8. CASE t \in Daemons /\ ~(job[t].stale # None /\ Phase(t) \in {"open", "lock", "tables", "rebuild"})
  <2>1. job' = [job EXCEPT ![t] = Idle] /\ proc' = [proc EXCEPT ![t] = "down"]
    BY <1>8, OpenAssumption DEF Error
  <2>2. Ends(t)
    <3>1. proc[t] = "booting"
      BY <1>1, <1>2, <1>8, Alive
    <3>2. \A k \in Keys : cache[t][k] = None
      BY <3>1, <1>1, <1>8 DEF ProcPhase
    <3>3. \A o \in Openers : DaemonOf[o] = t => job[o] = Idle
      BY <3>1, <1>1, <1>8 DEF ProcPhase
    <3>4. \A u \in Threads : job'[u] = IF Process(u) = t THEN Idle ELSE job[u]
      BY <2>1, <1>1, <1>3, <1>8, <3>3, Known
    <3> QED
      BY <2>1, <3>2, <3>4 DEF Ends
  <2>3. \A u \in Threads \ {t} : job'[u] = job[u]
    BY <2>1, <1>3
  <2>4. \A u \in Threads : Tame(u)
    BY <2>1, <2>3, <1>3, SameTame, IdleTame
  <2>5. DiskPart'
    BY <2>4, <1>4, TameKeeps
  <2>6. JobPart'
    BY <2>2, <1>8, EndsLemma
  <2>7. MoversApart'
    <3>1. job'[t].at \notin GroundPhases /\ job'[t].stale = None
      BY <2>1, <1>3 DEF Idle, GroundPhases
    <3> QED
      BY <3>1, <2>3, <1>1, <1>5, ApartKeeps
  <2> QED
    BY <2>5, <2>6, <2>7, Parts
<1> QED
  BY <1>6, <1>7, <1>8 DEF Threads

\* A thread goes on in its directory and touches nothing there.
LEMMA GoesOn ==
    ASSUME IInv, TypeOK', UNCHANGED <<at, bak, meta, aged, proc, cache, aside, cut, met>>,
           NEW t \in Threads, Phase(t) \in GroundPhases \ {"stamp"},
           \A u \in Threads \ {t} : job'[u] = job[u],
           job'[t].at \in GroundPhases \ {"lock", "check"}, job'[t].key = job[t].key,
           job'[t].stale = job[t].stale, job'[t].ino = job[t].ino,
           job[t].stale # None => (job'[t].at \in Unmoved <=> Phase(t) \in Unmoved),
           Shape(t, job'[t])
    PROVE  IInv'
<1>1. JobPart'
  BY Within DEF GroundPhases
<1>2. \A u \in Threads : Tame(u)
  <2>1. Tame(t)
    BY DEF Tame
  <2> QED
    BY <2>1, SameTame
<1>3. DiskPart'
  BY <1>2, TameKeeps DEF NoNewHandle
<1>4. MoversApart'
  <2>1. job'[t].stale # None => Moving(t)
    BY DEF Moving
  <2> QED
    BY <2>1, SameStale, ApartKeeps DEF IInv
<1> QED
  BY <1>1, <1>3, <1>4, Parts

\* A thread goes to another step and keeps the rest.
LEMMA GotoLemma ==
    ASSUME TypeOK, NEW t \in Threads, NEW x \in BuildPhases \cup {"idle", "build"}, Goto(t, x)
    PROVE  /\ job' \in [Threads -> Job] /\ \A u \in Threads \ {t} : job'[u] = job[u]
           /\ job'[t].at = x /\ job'[t].key = job[t].key /\ job'[t].stale = job[t].stale
           /\ job'[t].ino = job[t].ino /\ job'[t].emb = job[t].emb
<1>1. job \in [Threads -> Job] /\ job[t] \in Job
  BY DEF TypeOK
<1>2. job' = [job EXCEPT ![t] = [job[t] EXCEPT !.at = x]]
  BY <1>1 DEF Goto
<1>3. [job[t] EXCEPT !.at = x] \in Job
  BY <1>1 DEF Job
<1> QED
  BY <1>1, <1>2, <1>3 DEF Job

\* StartDaemon: the boot comes to its directory.
LEMMA StartDaemonKeeps == ASSUME IInv, NEW p \in Daemons, StartDaemon(p) PROVE IInv'
<1>1. /\ proc[p] = "down" /\ proc' = [proc EXCEPT ![p] = "booting"] /\ Goto(p, "check") /\ Meet(p)
      /\ UNCHANGED <<at, bak, meta, full, aged, cache, aside, cut>>
  BY DEF StartDaemon, disk
<1>2. TypeOK /\ ProcPhase /\ JobShape /\ p \in Threads /\ Process(p) = p
  BY DEF IInv, Threads, Process
<1>3. job[p] = Idle
  BY <1>1, <1>2 DEF ProcPhase
<1>4. /\ job' \in [Threads -> Job] /\ \A u \in Threads \ {p} : job'[u] = job[u]
      /\ job'[p].at = "check" /\ job'[p].key = Base /\ job'[p].stale = None /\ job'[p].ino = None
  <2>1. "check" \in BuildPhases
    BY DEF BuildPhases, GroundPhases
  <2> QED
    BY <2>1, <1>1, <1>2, <1>3, GotoLemma DEF Idle
<1>5. proc \in [Daemons -> {"down", "booting", "up"}] /\ proc'[p] = "booting" /\ \A q \in Daemons \ {p} : proc'[q] = proc[q]
  BY <1>1, <1>2 DEF TypeOK
<1>6. TypeOK' /\ met \subseteq met'
  BY <1>1, <1>2, <1>4, MeetType DEF TypeOK
<1>7. Shape(p, job'[p]) /\ job'[p].key = job[p].key
  BY <1>4, <1>3 DEF Shape, Idle
<1>8. \A x \in Threads \ {p} : Process(x) = p => job[x] = Idle /\ Phase(x) \notin GroundPhases
  <2> SUFFICES ASSUME NEW x \in Threads \ {p}, Process(x) = p
               PROVE  job[x] = Idle /\ Phase(x) \notin GroundPhases
    OBVIOUS
  <2>1. job[x] = Idle
    BY <1>1, <1>2, Known DEF ProcPhase
  <2> QED
    BY <2>1 DEF Phase, Idle, GroundPhases
<1>9. JobPart'
  <2>1. ProcPhase'
    <3>1. \A q \in Daemons : q \in Threads
      BY DEF Threads
    <3>2. \A o \in Openers : o \in Threads /\ o # p
      BY OpenAssumption DEF Threads
    <3>3. job'[p].at \in GroundPhases
      BY <1>4 DEF GroundPhases
    <3> QED
      BY <3>1, <3>2, <3>3, <1>1, <1>2, <1>4, <1>5 DEF ProcPhase, Phase
  <2>2. JobShape' /\ RetryKnows'
    BY <1>1, <1>4, <1>2, <1>7, OpenAssumption DEF IInv, JobShape, RetryKnows, Phase, Threads
  <2>3. Exclusive'
    <3> SUFFICES ASSUME NEW t \in Threads, NEW u \in Threads, t # u, Process(t) = Process(u),
                        Phase(t)' \in GroundPhases, Phase(u)' \in GroundPhases, Dir(t)' = Dir(u)'
                 PROVE  FALSE
      BY DEF Exclusive, Process
    <3>1. t # p /\ u # p
      BY <1>2, <1>4, <1>8 DEF Phase
    <3> QED
      BY <3>1, <1>4 DEF IInv, Exclusive, Phase, Dir
  <2> QED
    BY <2>1, <2>2, <2>3 DEF JobPart
<1>10. DiskPart'
  <2>1. Tame(p)
    BY <1>3, <1>4 DEF Tame, Phase, Idle
  <2>2. \A u \in Threads : Tame(u)
    BY <2>1, <1>4, SameTame
  <2> QED
    BY <2>2, <1>1, <1>6, TameKeeps DEF NoNewHandle
<1>11. MoversApart'
  BY <1>1, <1>2, <1>4, <1>7, <1>8, ComesKeeps
<1> QED
  BY <1>6, <1>9, <1>10, <1>11, Parts

\* A call gets ready, comes to its directory, or needs nothing.
LEMMA CallKeeps ==
    ASSUME IInv, TypeOK', NEW o \in Openers, proc[DaemonOf[o]] = "up",
           Phase(o) \notin GroundPhases, MoversApart',
           UNCHANGED <<at, bak, meta, aged, proc, aside, cut>>, met \subseteq met',
           \A p \in Daemons, k \in Keys : cache'[p][k] = None <=> cache[p][k] = None,
           NoNewHandle,
           \A u \in Threads \ {o} : job'[u] = job[u],
           job'[o].at = "retry" => cache[DaemonOf[o]][job'[o].key] # None,
           Shape(o, job'[o]), job'[o].stale = None, job'[o].ino = None, job'[o].at # "lock",
           job'[o].at \in GroundPhases =>
             \A u \in Threads \ {o} :
               Process(u) = Process(o) /\ Dir(u) = DirOf[job'[o].key] => Phase(u) \notin GroundPhases
    PROVE  IInv'
<1>1. JobPart'
  BY CallGoes
<1>2. Tame(o)
  BY DEF Tame, GroundPhases
<1>3. DiskPart'
  BY <1>2, SameTame, TameKeeps
<1> QED
  BY <1>1, <1>3, Parts

\* Request.
LEMMA RequestKeeps ==
    ASSUME IInv, NEW o \in Openers, NEW k \in Asks[o], Request(o, k) PROVE IInv'
<1>1. /\ proc[DaemonOf[o]] = "up" /\ Phase(o) = "idle"
      /\ job' = [job EXCEPT ![o].at = "build", ![o].key = k]
      /\ UNCHANGED <<at, bak, meta, full, aged, proc, cache, faults, aside, cut, met>>
  BY DEF Request, disk
<1>2. TypeOK /\ JobShape /\ o \in Threads /\ k \in Keys /\ o \notin Daemons
  BY OpenAssumption DEF IInv, Threads
<1>3. job[o] = Idle /\ job \in [Threads -> Job]
  BY <1>1, <1>2 DEF JobShape, Shape, Phase, TypeOK
<1>4. /\ job' \in [Threads -> Job] /\ \A u \in Threads \ {o} : job'[u] = job[u]
      /\ job'[o].at = "build" /\ job'[o].key = k /\ job'[o].stale = None /\ job'[o].ino = None
  <2>1. job' = [job EXCEPT ![o] = [Idle EXCEPT !.at = "build", !.key = k]]
    BY <1>1, <1>2, <1>3
  <2>2. [Idle EXCEPT !.at = "build", !.key = k] \in Job
    BY <1>2, IdleShape DEF Job
  <2> QED
    BY <2>1, <2>2, <1>2, <1>3 DEF Idle
<1>5. TypeOK'
  BY <1>1, <1>2, <1>4 DEF TypeOK
<1>6. Shape(o, job'[o]) /\ job'[o].at \notin GroundPhases /\ job'[o].at # "retry" /\ Phase(o) \notin GroundPhases
  BY <1>1, <1>2, <1>4 DEF Shape, GroundPhases
<1>7. MoversApart'
  BY <1>1, <1>2, <1>4, <1>6, SameStale, ApartKeeps DEF IInv
<1> QED
  BY <1>1, <1>4, <1>5, <1>6, <1>7, CallKeeps DEF NoNewHandle

\* LockBuild.
LEMMA LockBuildKeeps == ASSUME IInv, NEW o \in Openers, LockBuild(o) PROVE IInv'
<1> DEFINE p == DaemonOf[o]
           k == job[o].key
<1>1. /\ Phase(o) = "build"
      /\ job' = [job EXCEPT ![o] =
                     IF cache[p][k] = None THEN [@ EXCEPT !.at = "ground"]
                     ELSE IF Ready(p, k) THEN Idle
                     ELSE [@ EXCEPT !.at = "retry"]]
      /\ UNCHANGED <<at, bak, meta, full, aged, proc, cache, faults, aside, cut, met>>
  BY DEF LockBuild, disk
<1>2. TypeOK /\ ProcPhase /\ JobShape /\ o \in Threads /\ o \notin Daemons
  BY OpenAssumption DEF IInv, Threads
<1>3. job \in [Threads -> Job] /\ job[o] \in Job /\ Shape(o, job[o]) /\ job[o].at = "build"
  BY <1>1, <1>2 DEF TypeOK, JobShape, Phase
<1>4. proc[DaemonOf[o]] = "up"
  BY <1>1, <1>2, Alive, Known
<1>5. \/ job' = [job EXCEPT ![o] = [job[o] EXCEPT !.at = "ground"]]
      \/ job' = [job EXCEPT ![o] = Idle]
      \/ job' = [job EXCEPT ![o] = [job[o] EXCEPT !.at = "retry"]] /\ cache[p][k] # None
  BY <1>1, <1>3
<1>6. [job[o] EXCEPT !.at = "ground"] \in Job /\ [job[o] EXCEPT !.at = "retry"] \in Job
  BY <1>3 DEF Job, BuildPhases
<1>7. job' \in [Threads -> Job] /\ \A u \in Threads \ {o} : job'[u] = job[u]
  BY <1>3, <1>5, <1>6, IdleShape
<1>8. TypeOK'
  BY <1>1, <1>2, <1>7 DEF TypeOK
<1>9. Shape(o, job'[o]) /\ job'[o].stale = None /\ job'[o].ino = None
      /\ job'[o].at \notin GroundPhases /\ job'[o].at # "lock" /\ Phase(o) \notin GroundPhases
      /\ (job'[o].at = "retry" => cache[DaemonOf[o]][job'[o].key] # None)
  <2>1. CASE job' = [job EXCEPT ![o] = Idle]
    <3>1. job'[o] = Idle
      BY <2>1, <1>2, <1>3
    <3>2. Shape(o, job'[o])
      BY <3>1, <1>2, IdleShape
    <3> QED
      BY <3>1, <3>2, <1>1 DEF Idle, GroundPhases
  <2>2. ASSUME NEW x \in {"ground", "retry"}, job' = [job EXCEPT ![o] = [job[o] EXCEPT !.at = x]]
        PROVE  Shape(o, job'[o]) /\ job'[o].stale = None /\ job'[o].ino = None /\ job'[o].at = x
               /\ job'[o].key = job[o].key
    <3>1. /\ job'[o].at = x /\ job'[o].key = job[o].key /\ job'[o].stale = job[o].stale
          /\ job'[o].ino = job[o].ino
      BY <2>2, <1>2, <1>3 DEF Job
    <3>2. job[o].key \in Asks[o] /\ job[o].stale = None /\ job[o].ino = None
      BY <1>2, <1>3 DEF Shape
    <3>3. x \in {"ground", "retry"}
      BY <2>2
    <3>4. Shape(o, job'[o])
      BY <3>1, <3>2, <3>3, <1>2 DEF Shape
    <3> QED
      BY <3>1, <3>2, <3>4
  <2> QED
    BY <2>1, <2>2, <1>1, <1>5 DEF GroundPhases
<1>10. MoversApart'
  BY <1>1, <1>2, <1>7, <1>9, SameStale, ApartKeeps DEF IInv
<1> QED
  BY <1>1, <1>4, <1>7, <1>8, <1>9, <1>10, CallKeeps DEF NoNewHandle

\* RetryEmbedder: the handle gets its embedder.
LEMMA RetryEmbedderKeeps == ASSUME IInv, NEW o \in Openers, RetryEmbedder(o) PROVE IInv'
<1> DEFINE p == DaemonOf[o]
           k == job[o].key
<1>1. /\ Phase(o) = "retry" /\ job' = [job EXCEPT ![o] = Idle]
      /\ cache' = [cache EXCEPT ![p][k].emb = TRUE]
      /\ UNCHANGED <<at, bak, meta, full, aged, proc, faults, aside, cut, met>>
  BY DEF RetryEmbedder, disk
<1>2. TypeOK /\ ProcPhase /\ JobShape /\ o \in Threads /\ o \notin Daemons
  BY OpenAssumption DEF IInv, Threads
<1>3. job \in [Threads -> Job] /\ cache \in [Daemons -> [Keys -> Handle \cup {None}]]
  BY <1>2 DEF TypeOK
<1>4. p \in Daemons /\ k \in Keys /\ proc[p] = "up"
  BY <1>1, <1>2, Alive, Known
<1> HIDE DEF p, k
<1>5. job'[o] = Idle /\ job' \in [Threads -> Job] /\ \A u \in Threads \ {o} : job'[u] = job[u]
  BY <1>1, <1>2, <1>3, IdleShape
<1>6. cache[p][k] # None
  BY <1>1 DEF IInv, RetryKnows, p, k
<1>7. cache[p][k] \in Handle
  BY <1>3, <1>4, <1>6
<1>8. cache' = [cache EXCEPT ![p] = [cache[p] EXCEPT ![k] = [cache[p][k] EXCEPT !.emb = TRUE]]]
  BY <1>1, <1>3, <1>4
<1>9. [cache[p][k] EXCEPT !.emb = TRUE] \in Handle /\ [cache[p][k] EXCEPT !.emb = TRUE].ino = cache[p][k].ino
  BY <1>7 DEF Handle
<1>10. /\ cache' \in [Daemons -> [Keys -> Handle \cup {None}]]
       /\ \A q \in Daemons, l \in Keys : q # p \/ l # k => cache'[q][l] = cache[q][l]
       /\ cache'[p][k] \in Handle /\ cache'[p][k].ino = cache[p][k].ino
  BY <1>3, <1>4, <1>8, <1>9
<1>11. cache'[p][k] # None
  BY <1>10, OpenAssumption
<1>12. /\ NoNewHandle
       /\ \A q \in Daemons, l \in Keys : cache'[q][l] = None <=> cache[q][l] = None
  BY <1>6, <1>10, <1>11 DEF NoNewHandle
<1>13. TypeOK'
  BY <1>1, <1>2, <1>5, <1>10 DEF TypeOK
<1>14. Shape(o, job'[o])
  BY <1>2, <1>5, IdleShape
<1>15. /\ job'[o].stale = None /\ job'[o].ino = None /\ job'[o].at = "idle"
       /\ job'[o].at \notin GroundPhases /\ Phase(o) \notin GroundPhases
  BY <1>1, <1>5 DEF Idle, GroundPhases
<1>16. MoversApart'
  BY <1>1, <1>2, <1>5, <1>15, SameStale, ApartKeeps DEF IInv
<1> QED
  BY <1>1, <1>4, <1>5, <1>12, <1>13, <1>14, <1>15, <1>16, CallKeeps DEF p

\* LockGround: behind the ground lock nobody else of the process is at work.
LEMMA LockGroundKeeps == ASSUME IInv, NEW o \in Openers, LockGround(o) PROVE IInv'
<1>1. /\ Phase(o) = "ground" /\ Goto(o, "check") /\ Meet(o)
      /\ \A q \in Openers \ {o} :
            DaemonOf[q] = DaemonOf[o] /\ Dir(q) = Dir(o) => Phase(q) \notin GroundPhases
      /\ UNCHANGED <<at, bak, meta, full, aged, proc, cache, aside, cut>>
  BY DEF LockGround, disk
<1>2. TypeOK /\ ProcPhase /\ JobShape /\ o \in Threads /\ o \notin Daemons
  BY OpenAssumption DEF IInv, Threads
<1>3. proc[DaemonOf[o]] = "up" /\ Shape(o, job[o]) /\ job[o].at = "ground"
  BY <1>1, <1>2, Alive, Known DEF JobShape, Phase
<1>4. /\ job' \in [Threads -> Job] /\ \A u \in Threads \ {o} : job'[u] = job[u]
      /\ job'[o].at = "check" /\ job'[o].key = job[o].key /\ job'[o].stale = job[o].stale
      /\ job'[o].ino = job[o].ino
  <2>1. "check" \in BuildPhases
    BY DEF BuildPhases, GroundPhases
  <2> QED
    BY <2>1, <1>1, <1>2, GotoLemma
<1>5. TypeOK' /\ met \subseteq met'
  BY <1>1, <1>2, <1>4, MeetType DEF TypeOK
<1>6. job[o].stale = None /\ job[o].ino = None /\ job[o].key \in Asks[o] /\ Phase(o) \notin GroundPhases
  BY <1>1, <1>2, <1>3 DEF Shape, GroundPhases
<1>7. Shape(o, job'[o])
  BY <1>2, <1>4, <1>6 DEF Shape
<1>8. \A u \in Threads \ {o} : Process(u) = Process(o) /\ Dir(u) = Dir(o) => Phase(u) \notin GroundPhases
  <2> SUFFICES ASSUME NEW u \in Threads \ {o}, Process(u) = Process(o), Dir(u) = Dir(o)
               PROVE  Phase(u) \notin GroundPhases
    OBVIOUS
  <2>1. CASE u \in Openers
    BY <2>1, <1>1, <1>2, Known
  <2>2. CASE u \in Daemons
    <3>1. job[u] = Idle
      BY <2>2, <1>2, <1>3, Known DEF ProcPhase
    <3> QED
      BY <3>1 DEF Idle, Phase, GroundPhases
  <2> QED
    BY <2>1, <2>2 DEF Threads
<1>9. DirOf[job'[o].key] = Dir(o)
  BY <1>4 DEF Dir
<1>10. MoversApart'
  BY <1>1, <1>2, <1>4, <1>6, <1>8, ComesKeeps
<1> QED
  BY <1>1, <1>3, <1>4, <1>5, <1>6, <1>7, <1>8, <1>9, <1>10, CallKeeps DEF NoNewHandle

\* InitModel: with its embedder, or on to the open.
LEMMA InitModelKeeps ==
    ASSUME IInv, NEW t \in Threads,
           InitModel(t) \/ (t \in Daemons /\ BootWithoutEmbedder(t))
    PROVE  IInv'
<1>1. /\ Phase(t) = "model"
      /\ \/ job' = [job EXCEPT ![t].at = AfterModel(t), ![t].emb = job[t].key \in Embeds] /\ faults' = faults
         \/ Goto(t, AfterModel(t)) /\ faults < MaxFaults /\ faults' = faults + 1
      /\ UNCHANGED <<at, bak, meta, full, aged, proc, cache, aside, cut, met>>
  BY DEF InitModel, BootWithoutEmbedder, disk
<1>2. TypeOK /\ JobShape
  BY DEF IInv
<1>3. job \in [Threads -> Job] /\ job[t] \in Job /\ Shape(t, job[t]) /\ job[t].at = "model"
  BY <1>1, <1>2 DEF TypeOK, JobShape, Phase
<1>4. AfterModel(t) = IF job[t].stale # None THEN "clear" ELSE "open"
  BY DEF AfterModel
<1>5. AfterModel(t) \in {"clear", "open"} /\ AfterModel(t) \in BuildPhases
  BY <1>4 DEF BuildPhases, GroundPhases
<1>6. /\ job' \in [Threads -> Job] /\ \A u \in Threads \ {t} : job'[u] = job[u]
      /\ job'[t].at = AfterModel(t) /\ job'[t].key = job[t].key /\ job'[t].stale = job[t].stale
      /\ job'[t].ino = job[t].ino
  <2>1. CASE Goto(t, AfterModel(t))
    BY <2>1, <1>2, <1>5, GotoLemma
  <2>2. CASE job' = [job EXCEPT ![t].at = AfterModel(t), ![t].emb = job[t].key \in Embeds]
    <3>1. job' = [job EXCEPT ![t] = [job[t] EXCEPT !.at = AfterModel(t), !.emb = job[t].key \in Embeds]]
      BY <2>2, <1>3
    <3>2. [job[t] EXCEPT !.at = AfterModel(t), !.emb = job[t].key \in Embeds] \in Job
      <4> DEFINE b == job[t].key \in Embeds
      <4>1. b \in BOOLEAN
        OBVIOUS
      <4> HIDE DEF b
      <4>2. [job[t] EXCEPT !.at = AfterModel(t), !.emb = b] \in Job
        BY <4>1, <1>3, <1>5 DEF Job
      <4> QED
        BY <4>2 DEF b
    <3> QED
      BY <3>1, <3>2, <1>3 DEF Job
  <2> QED
    BY <2>1, <2>2, <1>1
<1>7. faults' \in 0..MaxFaults
  BY <1>1, <1>2, OpenAssumption DEF TypeOK
<1>8. TypeOK'
  BY <1>1, <1>2, <1>6, <1>7 DEF TypeOK
<1>9. job[t].ino = None
  BY <1>3 DEF Shape
<1>10. Shape(t, job'[t])
  BY <1>3, <1>4, <1>5, <1>6, <1>9 DEF Shape
<1>11. /\ Phase(t) \in GroundPhases \ {"stamp"} /\ job'[t].at \in GroundPhases \ {"lock", "check"}
       /\ job[t].stale # None => (job'[t].at \in Unmoved <=> Phase(t) \in Unmoved)
  BY <1>1, <1>4, <1>5, <1>6 DEF GroundPhases, Unmoved
<1> QED
  BY <1>1, <1>6, <1>8, <1>10, <1>11, GoesOn

\* OpenTables and the rebuild: the lock is kept.
LEMMA OpenTablesKeeps == ASSUME IInv, NEW t \in Threads, OpenTables(t) PROVE IInv'
<1> DEFINE x == IF t \in Daemons /\ job[t].stale # None THEN "rebuild" ELSE "prune"
<1>1. /\ Phase(t) = "tables" /\ Goto(t, x)
      /\ UNCHANGED <<at, bak, meta, full, aged, proc, cache, faults, aside, cut, met>>
  BY DEF OpenTables, disk
<1>2. TypeOK /\ JobShape
  BY DEF IInv
<1>3. job[t] \in Job /\ Shape(t, job[t]) /\ job[t].at = "tables"
  BY <1>1, <1>2 DEF TypeOK, JobShape, Phase
<1>4. x \in {"rebuild", "prune"} /\ x \in BuildPhases /\ (x = "rebuild" => t \in Daemons)
  BY DEF BuildPhases, GroundPhases
<1> HIDE DEF x
<1>5. /\ job' \in [Threads -> Job] /\ \A u \in Threads \ {t} : job'[u] = job[u]
      /\ job'[t].at = x /\ job'[t].key = job[t].key /\ job'[t].stale = job[t].stale
      /\ job'[t].ino = job[t].ino
  BY <1>1, <1>2, <1>4, GotoLemma
<1>6. TypeOK'
  BY <1>1, <1>2, <1>5 DEF TypeOK
<1>7. Shape(t, job'[t])
  BY <1>3, <1>4, <1>5 DEF Shape
<1>8. /\ Phase(t) \in GroundPhases \ {"stamp"} /\ job'[t].at \in GroundPhases \ {"lock", "check"}
      /\ job'[t].at \in Unmoved <=> Phase(t) \in Unmoved
  BY <1>1, <1>4, <1>5 DEF GroundPhases, Unmoved
<1> QED
  BY <1>1, <1>5, <1>6, <1>7, <1>8, GoesOn

\* reindex_effective_corpora: rows are no part of the invariant.
LEMMA RebuildKeeps == ASSUME IInv, NEW p \in Daemons, reindex_effective_corpora(p) PROVE IInv'
<1>1. /\ Phase(p) = "rebuild"
      /\ \/ Error(p) /\ full' = full
         \/ \E complete \in BOOLEAN : full' = [full EXCEPT ![job[p].ino] = complete] /\ Goto(p, "prune") /\ proc' = proc
      /\ UNCHANGED <<at, bak, meta, aged, cache, faults, aside, cut, met>>
  BY DEF reindex_effective_corpora
<1>2. TypeOK /\ JobShape /\ p \in Threads
  BY DEF IInv, Threads
<1>3. CASE Error(p) /\ full' = full
  <2>1. TypeOK'
    BY <1>1, <1>2, <1>3, ErrorType DEF TypeOK
  <2> QED
    BY <2>1, <1>1, <1>2, <1>3, ErrorGoes
<1>4. ASSUME NEW complete \in BOOLEAN, full' = [full EXCEPT ![job[p].ino] = complete], Goto(p, "prune"), proc' = proc
      PROVE  IInv'
  <2>1. job[p] \in Job /\ Shape(p, job[p]) /\ job[p].at = "rebuild"
    BY <1>1, <1>2 DEF TypeOK, JobShape, Phase
  <2>2. /\ job' \in [Threads -> Job] /\ \A u \in Threads \ {p} : job'[u] = job[u]
        /\ job'[p].at = "prune" /\ job'[p].key = job[p].key /\ job'[p].stale = job[p].stale
        /\ job'[p].ino = job[p].ino
    <3>1. "prune" \in BuildPhases
      BY DEF BuildPhases, GroundPhases
    <3> QED
      BY <3>1, <1>2, <1>4, GotoLemma
  <2>3. TypeOK'
    <3>1. full' \in [Inodes -> BOOLEAN]
      BY <1>2, <1>4 DEF TypeOK
    <3> QED
      BY <3>1, <1>1, <1>2, <1>4, <2>2 DEF TypeOK
  <2>4. Shape(p, job'[p])
    BY <2>1, <2>2 DEF Shape
  <2>5. /\ Phase(p) \in GroundPhases \ {"stamp"} /\ job'[p].at \in GroundPhases \ {"lock", "check"}
        /\ job'[p].at \in Unmoved <=> Phase(p) \in Unmoved
    BY <1>1, <2>2 DEF GroundPhases, Unmoved
  <2> QED
    BY <1>1, <1>2, <1>4, <2>2, <2>3, <2>4, <2>5, GoesOn
<1> QED
  BY <1>1, <1>3, <1>4

\* LockRefused.
LEMMA LockRefusedKeeps == ASSUME IInv, NEW t \in Threads, LockRefused(t) PROVE IInv'
<1>1. /\ Phase(t) = "lock" /\ Error(t)
      /\ UNCHANGED <<at, bak, meta, full, aged, cache, faults, aside, cut, met>>
  BY DEF LockRefused, disk
<1>2. TypeOK
  BY DEF IInv
<1>3. TypeOK'
  BY <1>1, <1>2, ErrorType DEF TypeOK
<1> QED
  BY <1>1, <1>3, ErrorGoes

\* Fail: the directory of a move in progress is cut.
LEMMA FailKeeps == ASSUME IInv, NEW t \in Threads, Fail(t) PROVE IInv'
<1>1. /\ Phase(t) \in {"retry", "check", "model", "clear", "rename", "stamp", "open", "lock",
                       "tables", "rebuild"}
      /\ faults < MaxFaults /\ faults' = faults + 1
      /\ Error(t) /\ Cut({t})
      /\ UNCHANGED <<at, bak, meta, full, aged, cache, aside, met>>
  BY DEF Fail, disk
<1>2. TypeOK
  BY DEF IInv
<1>3. /\ cut' = cut \cup {Dir(u) : u \in {v \in {t} : Phase(v) = "stamp"}}
      /\ cut \subseteq cut' /\ cut' \subseteq Dirs
      /\ Phase(t) = "stamp" => Dir(t) \in cut'
  <2>1. Dir(t) \in Dirs /\ cut \subseteq Dirs
    BY <1>2, Known DEF TypeOK
  <2>2. cut' = cut \cup {Dir(u) : u \in {v \in {t} : Phase(v) = "stamp"}}
    BY <1>1 DEF Cut
  <2> QED
    BY <2>1, <2>2
<1>4. faults' \in 0..MaxFaults
  BY <1>1, <1>2, OpenAssumption DEF TypeOK
<1>5. TypeOK'
  BY <1>1, <1>2, <1>3, <1>4, ErrorType DEF TypeOK
<1> QED
  BY <1>1, <1>3, <1>5, ErrorGoes

\* Crash: what the process knew is gone, and its moves are cut.
LEMMA CrashKeeps == ASSUME IInv, NEW p \in Daemons, Crash(p) PROVE IInv'
<1>1. /\ faults < MaxFaults /\ faults' = faults + 1
      /\ proc' = [proc EXCEPT ![p] = "down"]
      /\ cache' = [cache EXCEPT ![p] = [k \in Keys |-> None]]
      /\ job' = [t \in Threads |-> IF Process(t) = p THEN Idle ELSE job[t]]
      /\ cut' = cut \cup {Dir(t) : t \in {u \in {v \in Threads : Process(v) = p} : Phase(u) = "stamp"}}
      /\ UNCHANGED <<at, bak, meta, full, aged, aside, met>>
  BY DEF Crash, Cut, disk
<1>2. TypeOK /\ MoversApart
  BY DEF IInv
<1>3. TypeOK'
  <2>1. \A t \in Threads : Dir(t) \in Dirs
    BY <1>2, Known
  <2>2. cut' \subseteq Dirs
    BY <1>1, <1>2, <2>1 DEF TypeOK
  <2>3. job' \in [Threads -> Job]
    BY <1>1, <1>2, IdleShape DEF TypeOK
  <2>4. proc' \in [Daemons -> {"down", "booting", "up"}]
    BY <1>1, <1>2 DEF TypeOK
  <2>5. cache' \in [Daemons -> [Keys -> Handle \cup {None}]]
    BY <1>1, <1>2 DEF TypeOK
  <2>6. faults' \in 0..MaxFaults
    BY <1>1, <1>2, OpenAssumption DEF TypeOK
  <2> QED
    BY <1>1, <1>2, <2>2, <2>3, <2>4, <2>5, <2>6 DEF TypeOK
<1>4. Ends(p)
  <2>1. cache \in [Daemons -> [Keys -> Handle \cup {None}]]
    BY <1>2 DEF TypeOK
  <2> QED
    BY <1>1, <2>1 DEF Ends
<1>5. JobPart' /\ NoNewHandle
  BY <1>4, EndsLemma
<1>6. \A t \in Threads : Tame(t)
  <2> SUFFICES ASSUME NEW t \in Threads PROVE Tame(t)
    OBVIOUS
  <2>1. CASE Process(t) = p
    <3>1. job'[t] = Idle /\ (Phase(t) # "stamp" \/ Dir(t) \in cut')
      BY <2>1, <1>1
    <3> QED
      BY <3>1, IdleTame
  <2>2. CASE Process(t) # p
    BY <2>2, <1>1, SameTame
  <2> QED
    BY <2>1, <2>2
<1>7. DiskPart'
  BY <1>1, <1>5, <1>6, TameKeeps
<1>8. MoversApart'
  <2>1. \A t \in Threads : job'[t] = job[t] \/ (job'[t].at \notin GroundPhases /\ job'[t].stale = None)
    BY <1>1 DEF Idle, GroundPhases
  <2> QED
    BY <2>1, <1>1, <1>2, SameStale, ApartKeeps
<1> QED
  BY <1>3, <1>5, <1>7, <1>8, Parts

\* CatchUp: rows are no part of the invariant.
LEMMA CatchUpKeeps == ASSUME IInv, NEW p \in Daemons, NEW k \in Keys, CatchUp(p, k) PROVE IInv'
<1>1. /\ full' = [full EXCEPT ![at[DirOf[k]]] = TRUE]
      /\ UNCHANGED <<at, bak, meta, aged, proc, cache, job, faults, aside, cut, met>>
  BY DEF CatchUp
<1>2. full' \in [Inodes -> BOOLEAN] /\ TypeOK
  BY <1>1 DEF IInv, TypeOK
<1>3. TypeOK'
  BY <1>1, <1>2 DEF TypeOK
<1>4. JobPart'
  BY <1>1 DEF IInv, JobPart, ProcPhase, RetryKnows, JobShape, Exclusive, Phase, Dir
<1>5. DiskPart'
  BY <1>1, SameTame, TameKeeps DEF NoNewHandle
<1>6. MoversApart'
  BY <1>1, <1>2, SameStale, ApartKeeps DEF IInv
<1> QED
  BY <1>3, <1>4, <1>5, <1>6, Parts

-----------------------------------------------------------------------------
(* The steps that find, move or remove a store.                            *)

\* Who is in a move is at work, and unmet it has its directory to itself.
LEMMA MoverClear ==
    ASSUME IInv, NEW t \in Threads, job[t].stale # None
    PROVE  /\ Phase(t) \in GroundPhases
           /\ Dir(t) \notin met =>
                /\ \A u \in Threads \ {t} : Dir(u) = Dir(t) =>
                     job[u].ino = None /\ job[u].stale = None /\ Phase(u) \notin GroundPhases
                /\ \A p \in Daemons, k \in Keys : DirOf[k] = Dir(t) => cache[p][k] = None
<1>1. ASSUME NEW u \in Threads, job[u].stale # None PROVE Phase(u) \in GroundPhases
  <2>1. Shape(u, job[u]) /\ Phase(u) \in BuildPhases \cup {"idle", "build"}
    BY Known DEF IInv, JobShape
  <2>2. Phase(u) \notin {"idle", "build", "retry", "ground"}
    BY <1>1, <2>1 DEF Shape, Idle, Phase
  <2> QED
    BY <2>1, <2>2 DEF BuildPhases
<1>2. ASSUME NEW u \in Threads, job[u].ino # None PROVE Phase(u) \in GroundPhases
  BY <1>2 DEF IInv, JobShape, Shape, Phase, GroundPhases
<1>3. Dir(t) \notin met => \A u \in Threads \ {t} : Dir(u) = Dir(t) => Phase(u) \notin GroundPhases
  BY DEF IInv, MoversApart, Moving
<1> QED
  BY <1>1, <1>2, <1>3 DEF IInv, MoverFirst

\* What a mover does in its directory concerns nobody else's store.
LEMMA MoverStep ==
    ASSUME IInv, TypeOK', NEW t \in Threads, job[t].stale # None,
           \A u \in Threads \ {t} : job'[u] = job[u],
           \/ job'[t] = Idle
           \/ job'[t].key = job[t].key /\ job'[t].ino = None /\ job'[t].at \notin {"lock", "check"},
           UNCHANGED <<meta, cache, met>>,
           \A d \in Dirs \ {Dir(t)} : at'[d] = at[d],
           at'[Dir(t)] \in {at[Dir(t)], None}
    PROVE  HandlesHome' /\ SoleHolder' /\ MoverFirst' /\ LockKnows' /\ MoversApart'
<1>1. job'[t].ino = None /\ job'[t].at \notin {"lock", "check"} /\ (job'[t].stale # None => job'[t].key = job[t].key)
  BY DEF Idle
<1>2. Dir(t) \notin met =>
        \A u \in Threads \ {t} : Dir(u) = Dir(t) =>
          job[u].ino = None /\ job[u].stale = None /\ Phase(u) \notin GroundPhases
  BY MoverClear
<1>3. Dir(t) \notin met => \A p \in Daemons, k \in Keys : DirOf[k] = Dir(t) => cache[p][k] = None
  BY MoverClear
<1>4. TypeOK /\ \A u \in Threads : Dir(u) \in Dirs
  BY Known DEF IInv
<1>5. HandlesHome'
  <2>1. ASSUME NEW p \in Daemons, NEW k \in Keys, cache[p][k] # None, DirOf[k] \notin met
        PROVE  at'[DirOf[k]] = cache[p][k].ino /\ meta[cache[p][k].ino] = Fresh(k)
    <3>1. DirOf[k] # Dir(t) /\ DirOf[k] \in Dirs
      BY <2>1, <1>3, OpenAssumption
    <3> QED
      BY <2>1, <3>1 DEF IInv, HandlesHome
  <2>2. ASSUME NEW u \in Threads, job'[u].ino # None, DirOf[job'[u].key] \notin met
        PROVE  at'[DirOf[job'[u].key]] = job'[u].ino /\ meta[job'[u].ino] = Fresh(job'[u].key)
    <3>1. u # t /\ job'[u] = job[u]
      BY <2>2, <1>1
    <3>2. Dir(u) # Dir(t) /\ Dir(u) \notin met
      BY <3>1, <2>2, <1>2 DEF Dir
    <3> QED
      BY <3>1, <3>2, <2>2, <1>4 DEF IInv, HandlesHome, Here, Dir
  <2> QED
    BY <2>1, <2>2 DEF HandlesHome, Here, Dir, Fresh
<1>6. SoleHolder'
  BY <1>1, HoldersKept DEF IInv, NoNewHandle
<1>7. MoverFirst'
  BY <1>1 DEF IInv, MoverFirst, Dir
<1>8. LockKnows'
  <2> SUFFICES ASSUME NEW u \in Threads, job'[u].at = "lock", DirOf[job'[u].key] \notin met
               PROVE  /\ at'[DirOf[job'[u].key]] # None
                      /\ meta[at'[DirOf[job'[u].key]]] = Fresh(job'[u].key)
    BY DEF LockKnows, Here, Dir, Phase, Fresh
  <2>1. u # t /\ job'[u] = job[u] /\ Phase(u) = "lock"
    BY <1>1 DEF Phase
  <2>2. Dir(u) # Dir(t) /\ Dir(u) \notin met
    BY <2>1, <1>2 DEF GroundPhases, Dir
  <2> QED
    BY <2>1, <2>2, <1>4 DEF IInv, LockKnows, Here, Dir
<1>9. MoversApart'
  <2>1. \/ job'[t].at \notin GroundPhases /\ job'[t].stale = None
        \/ Phase(t) \in GroundPhases /\ job'[t].at # "check" /\ job'[t].key = job[t].key /\ Moving(t)
    BY <1>1, MoverClear DEF Moving, Idle, GroundPhases
  <2>2. \A d \in Dirs : Stale(MetaAt(d))' => Stale(MetaAt(d))
    BY DEF Stale, MetaAt
  <2> QED
    BY <2>1, <2>2, ApartKeeps DEF IInv
<1> QED
  BY <1>5, <1>6, <1>7, <1>8, <1>9

\* A mover does not change where directories lie.
LEMMA RecentBeside ==
    ASSUME IInv, NEW t \in Threads, NEW d \in Dirs \ (cut \cup met), d # Dir(t) \/ Phase(t) # "stamp",
           \A u \in Threads \ {t} : job'[u] = job[u],
           bak'[d] = bak[d], aged'[Original(d)] => aged[Original(d)],
           aside[d] = "recent"
    PROVE  \E v \in Older :
             /\ bak'[d][v] = Original(d)
             /\ \/ ~aged'[Original(d)]
                \/ \E u \in Threads : Phase(u)' = "stamp" /\ Dir(u)' = d /\ job'[u].stale = v
<1>1. PICK v \in Older :
            /\ bak[d][v] = Original(d)
            /\ \/ ~aged[Original(d)]
               \/ \E u \in Threads : Phase(u) = "stamp" /\ Dir(u) = d /\ job[u].stale = v
  BY DEF IInv, RecentKept
<1>2. ASSUME NEW u \in Threads, Phase(u) = "stamp", Dir(u) = d, job[u].stale = v
      PROVE  Phase(u)' = "stamp" /\ Dir(u)' = d /\ job'[u].stale = v
  BY <1>2 DEF Phase, Dir
<1> QED
  BY <1>1, <1>2

\* check_ground_dir: what it refuses is an error; who finds a store stale is
\* alone there, or has been met.
LEMMA CheckKeeps == ASSUME IInv, NEW t \in Threads, check_ground_dir(t) PROVE IInv'
<1> DEFINE m == MetaAt(Dir(t))
<1>1. /\ Phase(t) = "check"
      /\ \/ Stale(m) /\ job' = [job EXCEPT ![t].at = "model", ![t].stale = m.version] /\ proc' = proc
         \/ Goto(t, "model") /\ proc' = proc
         \/ Error(t)
      /\ UNCHANGED <<at, bak, meta, full, aged, cache, faults, aside, cut, met>>
  BY DEF check_ground_dir, disk
<1>2. TypeOK /\ JobShape /\ Dir(t) \in Dirs
  BY Known DEF IInv
<1>3. job \in [Threads -> Job] /\ job[t] \in Job /\ Shape(t, job[t]) /\ job[t].at = "check"
  BY <1>1, <1>2 DEF TypeOK, JobShape, Phase
<1>4. job[t].stale = None /\ job[t].ino = None
  BY <1>3 DEF Shape
<1>5. CASE Error(t)
  <2>1. TypeOK'
    BY <1>1, <1>2, <1>5, ErrorType DEF TypeOK
  <2> QED
    BY <2>1, <1>1, <1>5, ErrorGoes
<1>6. CASE Goto(t, "model") /\ proc' = proc
  <2>1. /\ job' \in [Threads -> Job] /\ \A u \in Threads \ {t} : job'[u] = job[u]
        /\ job'[t].at = "model" /\ job'[t].key = job[t].key /\ job'[t].stale = job[t].stale
        /\ job'[t].ino = job[t].ino
    <3>1. "model" \in BuildPhases
      BY DEF BuildPhases, GroundPhases
    <3> QED
      BY <3>1, <1>2, <1>6, GotoLemma
  <2>2. TypeOK'
    BY <1>1, <1>2, <1>6, <2>1 DEF TypeOK
  <2>3. Shape(t, job'[t])
    BY <1>3, <2>1 DEF Shape
  <2>4. Phase(t) \in GroundPhases \ {"stamp"} /\ job'[t].at \in GroundPhases \ {"lock", "check"}
    BY <1>1, <2>1 DEF GroundPhases
  <2> QED
    BY <1>1, <1>4, <1>6, <2>1, <2>2, <2>3, <2>4, GoesOn
<1>7. CASE Stale(m) /\ job' = [job EXCEPT ![t].at = "model", ![t].stale = m.version] /\ proc' = proc
  <2>1. m \in Metas /\ m.version \in Older /\ m.version # None
    <3>1. at[Dir(t)] \in Inodes \cup {None} /\ m # None
      BY <1>2, <1>7 DEF TypeOK, Stale
    <3>2. m \in Metas
      BY <3>1, <1>2 DEF TypeOK, MetaAt
    <3>3. m.version \in Nat /\ m.version < Current
      BY <3>2, <1>7 DEF Metas, Stale
    <3>4. m.version \in Older
      BY <3>3, OpenAssumption DEF Older
    <3> QED
      BY <3>2, <3>4, OpenAssumption
  <2> DEFINE n == m.version
  <2>2. /\ job' \in [Threads -> Job] /\ \A u \in Threads \ {t} : job'[u] = job[u]
        /\ job'[t].at = "model" /\ job'[t].key = job[t].key /\ job'[t].stale = n
        /\ job'[t].ino = job[t].ino
    <3>1. n \in Older
      BY <2>1
    <3>2. job' = [job EXCEPT ![t] = [job[t] EXCEPT !.at = "model", !.stale = n]]
      BY <1>3, <1>7
    <3> HIDE DEF n
    <3>3. [job[t] EXCEPT !.at = "model", !.stale = n] \in Job
      BY <3>1, <1>3 DEF Job, BuildPhases, GroundPhases
    <3> QED
      BY <3>2, <3>3, <1>3 DEF Job
  <2>3. TypeOK'
    BY <1>1, <1>2, <1>7, <2>2 DEF TypeOK
  <2>4. JobPart'
    <3>1. Shape(t, job'[t])
      BY <1>3, <1>4, <2>2 DEF Shape
    <3>2. Phase(t) \in GroundPhases /\ job'[t].at \in GroundPhases
      BY <1>1, <2>2 DEF GroundPhases
    <3> QED
      BY <3>1, <3>2, <1>1, <1>7, <2>2, Within
  <2>5. \A u \in Threads : Dir(u)' = Dir(u) /\ job'[u].ino = job[u].ino
    BY <2>2 DEF Dir
  <2>6. HandlesHome'
    BY <1>1, <2>2, <2>5 DEF IInv, HandlesHome, Here, Fresh, Dir
  <2>7. SoleHolder'
    BY <1>1, <2>5, HoldersKept DEF IInv, NoNewHandle
  <2>8. MoverFirst'
    <3>1. Dir(t) \notin met => \A p \in Daemons, k \in Keys : DirOf[k] = Dir(t) => cache[p][k] = None
      <4> SUFFICES ASSUME NEW p \in Daemons, NEW k \in Keys, DirOf[k] = Dir(t), Dir(t) \notin met,
                          cache[p][k] # None
                   PROVE  FALSE
        OBVIOUS
      <4>1. at[Dir(t)] = cache[p][k].ino /\ meta[at[Dir(t)]] = Fresh(k)
        BY DEF IInv, HandlesHome
      <4>2. m = Fresh(k)
        BY <4>1, <2>1, OpenAssumption DEF MetaAt
      <4> QED
        BY <4>2, <1>7, FreshLemma
    <3>2. \A u \in Threads \ {t} : job'[u].stale = job[u].stale
      BY <2>2
    <3> QED
      BY <3>1, <3>2, <2>5, <1>1 DEF IInv, MoverFirst
  <2>9. LockKnows'
    <3>1. \A u \in Threads : job'[u].at = "lock" => u # t /\ job'[u] = job[u]
      BY <2>2
    <3> QED
      BY <3>1, <2>5, <1>1 DEF IInv, LockKnows, Here, Dir, Phase, Fresh
  <2>10. InodeHome'
    BY <1>1 DEF IInv, InodeHome
  <2>11. FoundOnce'
    <3>1. Dir(t) \notin met => aside[Dir(t)] = "no"
      BY <1>2, <1>7 DEF IInv, FoundOnce
    <3>2. \A u \in Threads : job'[u].stale # None /\ Dir(u) \notin met =>
            (job'[u].at \in Unmoved <=> aside[Dir(u)] = "no")
      BY <3>1, <2>2 DEF IInv, FoundOnce, Unmoved, Phase
    <3> QED
      BY <3>2, <2>5, <1>1 DEF IInv, FoundOnce, MetaAt, Phase
  <2>12. RecentKept'
    <3>1. \A d \in Dirs : d # Dir(t) \/ Phase(t) # "stamp"
      BY <1>1
    <3> QED
      BY <3>1, <1>1, <2>2, RecentBeside DEF RecentKept
  <2>13. MoversApart'
    <3>1. Phase(t) \in GroundPhases /\ job'[t].at # "check" /\ job'[t].key = job[t].key /\ Moving(t)
      BY <1>1, <1>7, <2>2 DEF GroundPhases, Moving
    <3> QED
      BY <3>1, <1>1, <1>2, <2>2, SameStale, ApartKeeps DEF IInv
  <2> QED
    BY <2>3, <2>4, <2>6, <2>7, <2>8, <2>9, <2>10, <2>11, <2>12, <2>13, Parts DEF DiskPart
<1> QED
  BY <1>1, <1>5, <1>6, <1>7

\* ClearBackup: nothing recent lies at the backup, since the store is only
\* about to be moved.
LEMMA ClearBackupKeeps == ASSUME IInv, NEW t \in Threads, ClearBackup(t) PROVE IInv'
<1> DEFINE d == Dir(t)
           n == job[t].stale
<1>1. /\ Phase(t) = "clear" /\ bak' = [bak EXCEPT ![d][n] = None] /\ Goto(t, "rename")
      /\ UNCHANGED <<at, meta, full, aged, proc, cache, faults, aside, cut, met>>
  BY DEF ClearBackup
<1>2. TypeOK /\ d \in Dirs /\ bak \in [Dirs -> [Older -> Inodes \cup {None}]]
  BY Known DEF IInv, TypeOK
<1>3. job[t] \in Job /\ Shape(t, job[t]) /\ job[t].at = "clear"
  BY <1>1, <1>2 DEF IInv, TypeOK, JobShape, Phase
<1>4. n # None /\ n \in Older /\ job[t].ino = None
  BY <1>2, <1>3, Known DEF Shape
<1>5. /\ job' \in [Threads -> Job] /\ \A u \in Threads \ {t} : job'[u] = job[u]
      /\ job'[t].at = "rename" /\ job'[t].key = job[t].key /\ job'[t].stale = job[t].stale
      /\ job'[t].ino = job[t].ino
  <2>1. "rename" \in BuildPhases
    BY DEF BuildPhases, GroundPhases
  <2> QED
    BY <2>1, <1>1, <1>2, GotoLemma
<1>6. /\ bak' \in [Dirs -> [Older -> Inodes \cup {None}]]
      /\ \A e \in Dirs : e # d => bak'[e] = bak[e]
      /\ \A v \in Older : bak'[d][v] = bak[d][v] \/ bak'[d][v] = None
  BY <1>1, <1>2, <1>4
<1>7. TypeOK'
  BY <1>1, <1>2, <1>5, <1>6 DEF TypeOK
<1>8. JobPart'
  <2>1. Shape(t, job'[t])
    BY <1>3, <1>4, <1>5 DEF Shape
  <2>2. Phase(t) \in GroundPhases /\ job'[t].at \in GroundPhases
    BY <1>1, <1>5 DEF GroundPhases
  <2> QED
    BY <2>1, <2>2, <1>1, <1>5, Within
<1>9. HandlesHome' /\ SoleHolder' /\ MoverFirst' /\ LockKnows' /\ MoversApart'
  BY <1>1, <1>4, <1>5, <1>7, MoverStep
<1>10. InodeHome'
  BY <1>1, <1>6 DEF IInv, InodeHome
<1>11. d \notin met => aside[d] = "no"
  BY <1>1, <1>4 DEF IInv, FoundOnce, Unmoved
<1>12. FoundOnce'
  <2>1. \A u \in Threads : /\ Dir(u)' = Dir(u)
                           /\ job'[u].stale # None /\ Dir(u) \notin met => (job'[u].at \in Unmoved <=> aside[Dir(u)] = "no")
    BY <1>1, <1>4, <1>5, <1>11 DEF IInv, FoundOnce, Dir, Unmoved, Phase
  <2> QED
    BY <2>1, <1>1 DEF IInv, FoundOnce, MetaAt, Phase
<1>13. RecentKept'
  <2> SUFFICES ASSUME NEW e \in Dirs \ (cut \cup met), aside[e] = "recent"
               PROVE  \E v \in Older :
                        /\ bak'[e][v] = Original(e)
                        /\ \/ ~aged'[Original(e)]
                           \/ \E u \in Threads : Phase(u)' = "stamp" /\ Dir(u)' = e /\ job'[u].stale = v
    BY <1>1 DEF RecentKept
  <2>1. e # Dir(t) /\ bak'[e] = bak[e]
    BY <1>6, <1>11
  <2> QED
    BY <2>1, <1>1, <1>5, RecentBeside
<1> HIDE DEF d, n
<1> QED
  BY <1>7, <1>8, <1>9, <1>10, <1>12, <1>13, Parts DEF DiskPart

\* Rename: the store found at the start is now in its backup.
LEMMA RenameKeeps == ASSUME IInv, NEW t \in Threads, Rename(t) PROVE IInv'
<1> DEFINE d == Dir(t)
           n == job[t].stale
<1>1. /\ Phase(t) = "rename"
      /\ \/ Error(t) /\ UNCHANGED <<at, bak, aside>>
         \/ /\ at[d] # None
            /\ bak' = [bak EXCEPT ![d][n] = at[d]]
            /\ at' = [at EXCEPT ![d] = None]
            /\ aside' = IF at[d] = Original(d) THEN [aside EXCEPT ![d] = "recent"] ELSE aside
            /\ Goto(t, "stamp") /\ proc' = proc
      /\ UNCHANGED <<meta, full, aged, cache, faults, cut, met>>
  BY DEF Rename
<1>2. TypeOK /\ d \in Dirs /\ bak \in [Dirs -> [Older -> Inodes \cup {None}]]
      /\ at \in [Dirs -> Inodes \cup {None}] /\ aside \in [Dirs -> {"none", "no", "recent", "old"}]
  BY Known DEF IInv, TypeOK
<1>3. CASE Error(t) /\ UNCHANGED <<at, bak, aside>>
  <2>1. TypeOK'
    BY <1>1, <1>2, <1>3, ErrorType DEF TypeOK
  <2> QED
    BY <2>1, <1>1, <1>3, ErrorGoes
<1>4. CASE ~(Error(t) /\ UNCHANGED <<at, bak, aside>>)
  <2>1. job[t] \in Job /\ Shape(t, job[t]) /\ job[t].at = "rename"
    BY <1>1, <1>2 DEF IInv, TypeOK, JobShape, Phase
  <2>2. n # None /\ n \in Older /\ job[t].ino = None
    BY <1>2, <2>1, Known DEF Shape
  <2>3. /\ job' \in [Threads -> Job] /\ \A u \in Threads \ {t} : job'[u] = job[u]
        /\ job'[t].at = "stamp" /\ job'[t].key = job[t].key /\ job'[t].stale = job[t].stale
        /\ job'[t].ino = job[t].ino
    <3>1. "stamp" \in BuildPhases
      BY DEF BuildPhases, GroundPhases
    <3> QED
      BY <3>1, <1>1, <1>2, <1>4, GotoLemma
  <2>4. /\ at[d] \in Inodes /\ at[d][1] = d
        /\ d \notin met => aside[d] = "no" /\ at[d] = Original(d)
    <3>1. d \notin met => aside[d] = "no"
      BY <1>1, <2>2 DEF IInv, FoundOnce, Unmoved
    <3>2. d \notin met => at[d] = Original(d)
      BY <1>2, <3>1 DEF IInv, FoundOnce
    <3>3. at[d] # None /\ at[d] \in Inodes \cup {None}
      BY <1>1, <1>2, <1>4
    <3>4. at[d][1] = d
      BY <1>2, <3>3 DEF IInv, InodeHome
    <3> QED
      BY <3>1, <3>2, <3>3, <3>4
  <2>5. /\ bak' \in [Dirs -> [Older -> Inodes \cup {None}]]
        /\ \A e \in Dirs : e # d => bak'[e] = bak[e]
        /\ \A v \in Older : v # n => bak'[d][v] = bak[d][v]
        /\ bak'[d][n] = at[d]
    <3>1. bak' = [bak EXCEPT ![d] = [bak[d] EXCEPT ![n] = at[d]]]
      BY <1>1, <1>2, <1>4, <2>2
    <3> HIDE DEF d, n
    <3>2. [bak[d] EXCEPT ![n] = at[d]] \in [Older -> Inodes \cup {None}]
      BY <1>2, <2>2, <2>4
    <3> QED
      BY <3>1, <3>2, <1>2, <2>2, <2>4
  <2>6. /\ at' \in [Dirs -> Inodes \cup {None}] /\ at'[d] = None
        /\ \A e \in Dirs : e # d => at'[e] = at[e]
    BY <1>1, <1>2, <1>4
  <2>7. /\ aside' \in [Dirs -> {"none", "no", "recent", "old"}] /\ (d \notin met => aside'[d] = "recent")
        /\ \A e \in Dirs : e # d => aside'[e] = aside[e]
    BY <1>1, <1>2, <1>4, <2>4
  <2>8. TypeOK'
    BY <1>1, <1>2, <1>4, <2>3, <2>5, <2>6, <2>7 DEF TypeOK
  <2>9. JobPart'
    <3>1. Shape(t, job'[t])
      BY <2>1, <2>2, <2>3 DEF Shape
    <3>2. Phase(t) \in GroundPhases /\ job'[t].at \in GroundPhases
      BY <1>1, <2>3 DEF GroundPhases
    <3> QED
      BY <3>1, <3>2, <1>1, <1>4, <2>3, Within
  <2>10. HandlesHome' /\ SoleHolder' /\ MoverFirst' /\ LockKnows' /\ MoversApart'
    BY <1>1, <1>4, <2>2, <2>3, <2>6, <2>8, MoverStep
  <2>11. InodeHome'
    <3>1. \A e \in Dirs : at'[e] # None => at'[e][1] = e
      BY <2>6 DEF IInv, InodeHome
    <3>2. \A e \in Dirs, v \in Older : bak'[e][v] # None => bak'[e][v][1] = e
      BY <2>4, <2>5 DEF IInv, InodeHome
    <3> QED
      BY <3>1, <3>2 DEF InodeHome
  <2>12. FoundOnce'
    <3>1. \A e \in Dirs \ met : aside'[e] = "no" => at'[e] = Original(e)
      BY <2>6, <2>7 DEF IInv, FoundOnce
    <3>2. \A e \in Dirs \ met : Stale(MetaAt(e))' => aside'[e] = "no"
      <4> SUFFICES ASSUME NEW e \in Dirs \ met, Stale(MetaAt(e))' PROVE aside'[e] = "no"
        OBVIOUS
      <4>1. at'[e] # None
        BY DEF Stale, MetaAt
      <4>2. e # d
        BY <4>1, <2>6
      <4>3. MetaAt(e)' = MetaAt(e)
        BY <4>2, <1>1, <2>6 DEF MetaAt
      <4> QED
        BY <4>2, <4>3, <2>7 DEF IInv, FoundOnce
    <3>3. \A u \in Threads \ {t} : job[u].stale # None /\ Dir(u) \notin met => Dir(u) # d /\ Dir(u) \in Dirs
      BY <1>2, <2>2, MoverClear, Known
    <3>4. \A u \in Threads : job'[u].stale # None /\ DirOf[job'[u].key] \notin met =>
            (job'[u].at \in Unmoved <=> aside'[DirOf[job'[u].key]] = "no")
      <4> SUFFICES ASSUME NEW u \in Threads, job'[u].stale # None, DirOf[job'[u].key] \notin met
                   PROVE  job'[u].at \in Unmoved <=> aside'[DirOf[job'[u].key]] = "no"
        OBVIOUS
      <4>1. CASE u = t
        BY <4>1, <2>3, <2>7 DEF Dir, Unmoved
      <4>2. CASE u # t
        <5>1. job'[u] = job[u] /\ Dir(u) # d /\ Dir(u) \in Dirs /\ Dir(u) \notin met
          BY <4>2, <2>3, <3>3 DEF Dir
        <5> QED
          BY <5>1, <2>7 DEF IInv, FoundOnce, Dir, Phase
      <4> QED
        BY <4>1, <4>2
    <3> QED
      BY <3>1, <3>2, <3>4, <1>1 DEF FoundOnce, Dir, Phase, Original
  <2>13. RecentKept'
    <3> SUFFICES ASSUME NEW e \in Dirs \ (cut \cup met), aside'[e] = "recent"
                 PROVE  \E v \in Older :
                          /\ bak'[e][v] = Original(e)
                          /\ \/ ~aged'[Original(e)]
                             \/ \E u \in Threads : Phase(u)' = "stamp" /\ Dir(u)' = e /\ job'[u].stale = v
      BY <1>1 DEF RecentKept
    <3>1. CASE e = d
      <4>1. Phase(t)' = "stamp" /\ Dir(t)' = e /\ job'[t].stale = n
        BY <3>1, <2>3 DEF Phase, Dir
      <4> HIDE DEF n
      <4> QED
        BY <4>1, <3>1, <2>2, <2>4, <2>5
    <3>2. CASE e # d
      BY <3>2, <1>1, <2>3, <2>5, <2>7, RecentBeside
    <3> QED
      BY <3>1, <3>2
  <2> HIDE DEF d, n
  <2> QED
    BY <2>8, <2>9, <2>10, <2>11, <2>12, <2>13, Parts DEF DiskPart
<1> QED
  BY <1>3, <1>4

\* Stamp: the backup is young.
LEMMA StampKeeps == ASSUME IInv, NEW t \in Threads, Stamp(t) PROVE IInv'
<1> DEFINE d == Dir(t)
           i == bak[d][job[t].stale]
<1>1. /\ Phase(t) = "stamp"
      /\ aged' = IF i = None THEN aged ELSE [aged EXCEPT ![i] = FALSE]
      /\ Goto(t, "open")
      /\ UNCHANGED <<at, bak, meta, full, proc, cache, faults, aside, cut, met>>
  BY DEF Stamp
<1>2. TypeOK /\ d \in Dirs /\ bak \in [Dirs -> [Older -> Inodes \cup {None}]]
      /\ aged \in [Inodes -> BOOLEAN]
  BY Known DEF IInv, TypeOK
<1>3. job[t] \in Job /\ Shape(t, job[t]) /\ job[t].at = "stamp"
  BY <1>1, <1>2 DEF IInv, TypeOK, JobShape, Phase
<1>4. job[t].stale # None /\ job[t].stale \in Older /\ job[t].ino = None
  BY <1>2, <1>3, Known DEF Shape
<1>5. /\ job' \in [Threads -> Job] /\ \A u \in Threads \ {t} : job'[u] = job[u]
      /\ job'[t].at = "open" /\ job'[t].key = job[t].key /\ job'[t].stale = job[t].stale
      /\ job'[t].ino = job[t].ino
  <2>1. "open" \in BuildPhases
    BY DEF BuildPhases, GroundPhases
  <2> QED
    BY <2>1, <1>1, <1>2, GotoLemma
<1>6. /\ aged' \in [Inodes -> BOOLEAN]
      /\ \A j \in Inodes : aged'[j] => aged[j]
      /\ i \in Inodes => ~aged'[i]
  <2>1. i \in Inodes \cup {None}
    BY <1>2, <1>4
  <2>2. i \in Inodes => i # None
    BY OpenAssumption
  <2> HIDE DEF i
  <2> QED
    BY <2>1, <2>2, <1>1, <1>2
<1>7. TypeOK'
  BY <1>1, <1>2, <1>5, <1>6 DEF TypeOK
<1>8. JobPart'
  <2>1. Shape(t, job'[t])
    BY <1>3, <1>4, <1>5 DEF Shape
  <2>2. Phase(t) \in GroundPhases /\ job'[t].at \in GroundPhases
    BY <1>1, <1>5 DEF GroundPhases
  <2> QED
    BY <2>1, <2>2, <1>1, <1>5, Within
<1>9. HandlesHome' /\ SoleHolder' /\ MoverFirst' /\ LockKnows' /\ MoversApart'
  BY <1>1, <1>4, <1>5, <1>7, MoverStep
<1>10. InodeHome'
  BY <1>1 DEF IInv, InodeHome
<1>11. FoundOnce'
  <2>1. d \notin met => aside[d] # "no"
    BY <1>1, <1>4 DEF IInv, FoundOnce, Unmoved
  <2>2. \A u \in Threads : /\ Dir(u)' = Dir(u)
                           /\ job'[u].stale # None /\ Dir(u) \notin met => (job'[u].at \in Unmoved <=> aside[Dir(u)] = "no")
    BY <1>1, <1>4, <1>5, <2>1 DEF IInv, FoundOnce, Dir, Unmoved, Phase
  <2> QED
    BY <2>2, <1>1 DEF IInv, FoundOnce, MetaAt, Phase
<1>12. RecentKept'
  <2> SUFFICES ASSUME NEW e \in Dirs \ (cut \cup met), aside[e] = "recent"
               PROVE  \E v \in Older :
                        /\ bak'[e][v] = Original(e)
                        /\ \/ ~aged'[Original(e)]
                           \/ \E u \in Threads : Phase(u)' = "stamp" /\ Dir(u)' = e /\ job'[u].stale = v
    BY <1>1 DEF RecentKept
  <2>0. Original(e) \in Inodes
    BY OpenAssumption DEF Original, Inodes
  <2>1. CASE e # d
    BY <2>0, <2>1, <1>1, <1>5, <1>6, RecentBeside
  <2>2. CASE e = d
    <3>1. PICK v \in Older :
            /\ bak[d][v] = Original(d)
            /\ \/ ~aged[Original(d)]
               \/ \E u \in Threads : Phase(u) = "stamp" /\ Dir(u) = d /\ job[u].stale = v
      BY <2>2 DEF IInv, RecentKept
    <3>2. CASE ~aged[Original(d)]
      BY <3>1, <3>2, <2>0, <2>2, <1>1, <1>6
    <3>3. CASE \E u \in Threads : Phase(u) = "stamp" /\ Dir(u) = d /\ job[u].stale = v
      <4>1. PICK u \in Threads : Phase(u) = "stamp" /\ Dir(u) = d /\ job[u].stale = v
        BY <3>3
      <4>2. u = t
        BY <4>1, <1>4, <2>2, MoverClear DEF GroundPhases
      <4>3. i = Original(d)
        BY <4>1, <4>2, <3>1
      <4> QED
        BY <4>3, <3>1, <2>0, <2>2, <1>1, <1>6
    <3> QED
      BY <3>1, <3>2, <3>3
  <2> QED
    BY <2>1, <2>2
<1> HIDE DEF d, i
<1> QED
  BY <1>7, <1>8, <1>9, <1>10, <1>11, <1>12, Parts DEF DiskPart

-----------------------------------------------------------------------------
(* The steps that open a store.                                            *)

\* A new directory is of its path, and nobody's.
LEMMA UnusedLemma ==
    ASSUME NEW d \in Dirs, Spare(d) # {}
    PROVE  Unused(d) \in Inodes /\ Unused(d)[1] = d
<1>1. Unused(d) \in Spare(d)
  BY DEF Unused
<1> QED
  BY <1>1 DEF Spare

\* OpenDir: a new directory is nobody's, and one that is there stays.
LEMMA OpenDirKeeps == ASSUME IInv, NEW t \in Threads, OpenDir(t) PROVE IInv'
<1> DEFINE d == Dir(t)
           k == job[t].key
           i == IF at[d] = None THEN Unused(d) ELSE at[d]
<1>1. /\ Phase(t) = "open" /\ (at[d] # None \/ Spare(d) # {})
      /\ \/ Error(t) /\ UNCHANGED <<at, bak, meta, full, aged>>
         \/ /\ ~(at[d] # None /\ ~Matches(meta[i], k))
            /\ at' = [at EXCEPT ![d] = i]
            /\ meta' = [meta EXCEPT ![i] = Fresh(k)]
            /\ full' = [full EXCEPT ![i] = at[d] # None /\ full[i]]
            /\ aged' = [aged EXCEPT ![i] = at[d] # None /\ aged[i]]
            /\ Goto(t, "lock") /\ UNCHANGED <<bak, proc>>
      /\ UNCHANGED <<cache, faults, aside, cut, met>>
  BY DEF OpenDir, disk
<1>2. /\ TypeOK /\ d \in Dirs /\ k \in Keys /\ DirOf[k] = d
      /\ at \in [Dirs -> Inodes \cup {None}] /\ meta \in [Inodes -> Metas \cup {None}]
      /\ full \in [Inodes -> BOOLEAN] /\ aged \in [Inodes -> BOOLEAN]
  BY Known DEF IInv, TypeOK, Dir
<1>3. CASE Error(t) /\ UNCHANGED <<at, bak, meta, full, aged>>
  <2>1. TypeOK'
    BY <1>1, <1>2, <1>3, ErrorType DEF TypeOK
  <2> QED
    BY <2>1, <1>1, <1>3, ErrorGoes
<1>4. CASE ~(Error(t) /\ UNCHANGED <<at, bak, meta, full, aged>>)
  <2>1. job[t] \in Job /\ Shape(t, job[t]) /\ job[t].at = "open"
    BY <1>1, <1>2 DEF IInv, TypeOK, JobShape, Phase
  <2>2. job[t].ino = None
    BY <2>1 DEF Shape
  <2>3. /\ job' \in [Threads -> Job] /\ \A u \in Threads \ {t} : job'[u] = job[u]
        /\ job'[t].at = "lock" /\ job'[t].key = job[t].key /\ job'[t].stale = job[t].stale
        /\ job'[t].ino = job[t].ino
    <3>1. "lock" \in BuildPhases
      BY DEF BuildPhases, GroundPhases
    <3> QED
      BY <3>1, <1>1, <1>2, <1>4, GotoLemma
  <2>4. /\ i \in Inodes /\ i # None /\ i[1] = d
        /\ \A e \in Dirs : e # d => at[e] # i
    <3>1. CASE at[d] = None
      <4>1. Unused(d) \in Inodes /\ Unused(d)[1] = d
        BY <3>1, <1>1, <1>2, UnusedLemma
      <4> QED
        BY <3>1, <4>1, <1>2, OpenAssumption DEF IInv, InodeHome
    <3>2. CASE at[d] # None
      BY <3>2, <1>2, OpenAssumption DEF IInv, InodeHome
    <3> QED
      BY <3>1, <3>2
  <2>5. \A l \in Keys : DirOf[l] = d /\ at[d] # None /\ meta[at[d]] = Fresh(l) => Fresh(l) = Fresh(k)
    <3> SUFFICES ASSUME NEW l \in Keys, DirOf[l] = d, at[d] # None, meta[at[d]] = Fresh(l)
                 PROVE  Fresh(l) = Fresh(k)
      OBVIOUS
    <3>1. Matches(Fresh(l), k) /\ Fresh(l) # None
      BY <1>1, <1>4, FreshLemma, OpenAssumption
    <3> QED
      BY <3>1 DEF Matches
  <2> HIDE DEF i
  <2>6. /\ at' \in [Dirs -> Inodes \cup {None}] /\ at'[d] = i
        /\ \A e \in Dirs : e # d => at'[e] = at[e]
        /\ at[d] # None => at'[d] = at[d]
    <3>1. at' = [at EXCEPT ![d] = i] /\ (at[d] # None => i = at[d])
      BY <1>1, <1>4 DEF i
    <3> QED
      BY <3>1, <1>2, <2>4
  <2>7. /\ meta' \in [Inodes -> Metas \cup {None}] /\ meta'[i] = Fresh(k)
        /\ \A j \in Inodes : j # i => meta'[j] = meta[j]
    BY <1>1, <1>2, <1>4, <2>4, FreshLemma
  <2>8. full' \in [Inodes -> BOOLEAN] /\ aged' \in [Inodes -> BOOLEAN]
        /\ \A j \in Inodes : aged'[j] => aged[j]
    <3> DEFINE b == at[d] # None /\ full[i]
               c == at[d] # None /\ aged[i]
    <3>1. b \in BOOLEAN /\ c \in BOOLEAN /\ (c => aged[i])
      OBVIOUS
    <3>2. full' = [full EXCEPT ![i] = b] /\ aged' = [aged EXCEPT ![i] = c]
      BY <1>1, <1>4
    <3> HIDE DEF b, c
    <3>3. full' \in [Inodes -> BOOLEAN] /\ aged' \in [Inodes -> BOOLEAN]
      BY <3>1, <3>2, <1>2
    <3>4. \A j \in Inodes : aged'[j] = IF j = i THEN c ELSE aged[j]
      BY <3>2, <1>2
    <3> QED
      BY <3>1, <3>3, <3>4
  <2>9. TypeOK'
    BY <1>1, <1>2, <1>4, <2>3, <2>6, <2>7, <2>8 DEF TypeOK
  <2>10. JobPart'
    <3>1. Shape(t, job'[t])
      BY <2>1, <2>2, <2>3 DEF Shape
    <3>2. Phase(t) \in GroundPhases /\ job'[t].at \in GroundPhases
      BY <1>1, <2>3 DEF GroundPhases
    <3> QED
      BY <3>1, <3>2, <1>1, <1>4, <2>3, Within
  <2>11. \A u \in Threads : Dir(u)' = Dir(u) /\ job'[u].ino = job[u].ino /\ job'[u].key = job[u].key
                            /\ job'[u].stale = job[u].stale /\ Dir(u) \in Dirs
    BY <1>2, <2>3, Known DEF Dir
  <2>12. /\ ~Stale(MetaAt(d)')
         /\ \A e \in Dirs : Stale(IF at'[e] = None THEN None ELSE meta'[at'[e]]) => e # d /\ Stale(MetaAt(e))
    <3>1. ~Stale(IF at'[d] = None THEN None ELSE meta'[at'[d]])
      BY <1>2, <2>4, <2>6, <2>7, FreshLemma
    <3>2. ASSUME NEW e \in Dirs, e # d
          PROVE  (IF at'[e] = None THEN None ELSE meta'[at'[e]]) = MetaAt(e)
      BY <3>2, <1>2, <2>4, <2>6, <2>7 DEF MetaAt
    <3>3. d' = d
      BY <2>11
    <3> QED
      BY <3>1, <3>2, <3>3 DEF MetaAt
  <2>13. HandlesHome'
    <3>1. ASSUME NEW j \in Inodes, NEW l \in Keys, at[DirOf[l]] = j, meta[j] = Fresh(l)
          PROVE  at'[DirOf[l]] = j /\ meta'[j] = Fresh(l)
      <4>0. DirOf[l] \in Dirs /\ j # None
        BY OpenAssumption
      <4>1. CASE DirOf[l] = d
        BY <4>0, <4>1, <3>1, <2>5, <2>6, <2>7
      <4>2. CASE DirOf[l] # d
        BY <4>0, <4>2, <3>1, <2>4, <2>6, <2>7
      <4> QED
        BY <4>1, <4>2
    <3>2. ASSUME NEW p \in Daemons, NEW l \in Keys, cache[p][l] # None, DirOf[l] \notin met
          PROVE  at'[DirOf[l]] = cache[p][l].ino /\ meta'[cache[p][l].ino] = Fresh(l)
      <4>1. cache[p][l].ino \in Inodes
        BY <1>2, <3>2 DEF TypeOK, Handle
      <4> QED
        BY <4>1, <3>1, <3>2 DEF IInv, HandlesHome
    <3>3. ASSUME NEW u \in Threads, job[u].ino # None, DirOf[job[u].key] \notin met
          PROVE  at'[DirOf[job[u].key]] = job[u].ino /\ meta'[job[u].ino] = Fresh(job[u].key)
      <4>1. job[u].ino \in Inodes /\ job[u].key \in Keys
        BY <1>2, <3>3, Known
      <4> QED
        BY <4>1, <3>1, <3>3 DEF IInv, HandlesHome, Here, Dir
    <3> QED
      BY <3>2, <3>3, <1>1, <2>11 DEF HandlesHome, Here, Dir, Fresh
  <2>14. SoleHolder'
    BY <1>1, <2>11, HoldersKept DEF IInv, NoNewHandle
  <2>15. MoverFirst'
    BY <1>1, <2>11 DEF IInv, MoverFirst
  <2>16. LockKnows'
    <3> SUFFICES ASSUME NEW u \in Threads, job'[u].at = "lock", Dir(u) \notin met
                 PROVE  at'[Dir(u)] # None /\ meta'[at'[Dir(u)]] = Fresh(job[u].key)
      BY <1>1, <2>11 DEF LockKnows, Here, Phase, Fresh
    <3>1. CASE u = t
      BY <3>1, <2>4, <2>6, <2>7
    <3>2. CASE u # t
      <4>1. Phase(u) = "lock"
        BY <3>2, <2>3 DEF Phase
      <4>2. at[Dir(u)] # None /\ meta[at[Dir(u)]] = Fresh(job[u].key) /\ job[u].key \in Keys
        BY <4>1, <1>2, Known DEF IInv, LockKnows, Here
      <4>3. CASE Dir(u) = d
        BY <4>2, <4>3, <2>4, <2>5, <2>6, <2>7 DEF Dir
      <4>4. CASE Dir(u) # d
        <5>1. at'[Dir(u)] = at[Dir(u)] /\ at[Dir(u)] # i /\ at[Dir(u)] \in Inodes
          BY <4>2, <4>4, <1>2, <2>4, <2>6, <2>11
        <5> QED
          BY <5>1, <4>2, <2>7
      <4> QED
        BY <4>3, <4>4
    <3> QED
      BY <3>1, <3>2
  <2>17. InodeHome'
    BY <1>1, <1>4, <2>4, <2>6 DEF IInv, InodeHome
  <2>18. FoundOnce'
    <3>1. \A e \in Dirs \ met : aside[e] = "no" => at'[e] = Original(e)
      <4>1. \A e \in Dirs : Original(e) \in Inodes /\ Original(e) # None
        BY OpenAssumption DEF Original, Inodes
      <4>2. d \notin met /\ aside[d] = "no" => at[d] # None
        BY <4>1, <1>2 DEF IInv, FoundOnce
      <4> QED
        BY <4>2, <2>6 DEF IInv, FoundOnce
    <3>2. \A u \in Threads : job[u].stale # None /\ Dir(u) \notin met => (job'[u].at \in Unmoved <=> aside[Dir(u)] = "no")
      BY <2>1, <2>3 DEF IInv, FoundOnce, Phase, Unmoved
    <3>3. \A e \in Dirs \ met : Stale(IF at'[e] = None THEN None ELSE meta'[at'[e]]) => aside[e] = "no"
      BY <2>12 DEF IInv, FoundOnce
    <3> QED
      BY <3>1, <3>2, <3>3, <1>1, <2>11 DEF FoundOnce, MetaAt, Phase, Original
  <2>19. RecentKept'
    <3>1. \A e \in Dirs : Original(e) \in Inodes
      BY OpenAssumption DEF Original, Inodes
    <3>2. Phase(t) # "stamp" /\ bak' = bak
      BY <1>1, <1>4
    <3> SUFFICES ASSUME NEW e \in Dirs \ (cut \cup met), aside[e] = "recent"
                 PROVE  \E v \in Older :
                          /\ bak'[e][v] = Original(e)
                          /\ \/ ~aged'[Original(e)]
                             \/ \E u \in Threads : Phase(u)' = "stamp" /\ Dir(u)' = e /\ job'[u].stale = v
      BY <1>1 DEF RecentKept
    <3>3. aged'[Original(e)] => aged[Original(e)]
      BY <3>1, <2>8
    <3> QED
      BY <3>2, <3>3, <2>3, RecentBeside
  <2>20. MoversApart'
    <3>1. \A e \in Dirs : Stale(MetaAt(e))' => Stale(MetaAt(e))
      BY <2>12 DEF MetaAt, Stale
    <3>2. Phase(t) \in GroundPhases /\ job'[t].at # "check" /\ (job'[t].stale # None => Moving(t))
      BY <1>1, <2>3 DEF GroundPhases, Moving
    <3> QED
      BY <3>1, <3>2, <1>1, <1>2, <2>3, ApartKeeps DEF IInv
  <2> QED
    BY <2>9, <2>10, <2>13, <2>14, <2>15, <2>16, <2>17, <2>18, <2>19, <2>20, Parts DEF DiskPart
<1> QED
  BY <1>3, <1>4

\* acquire_store_lock: of a directory nobody has locked, with the meta.toml of
\* the open.
LEMMA AcquireKeeps == ASSUME IInv, NEW t \in Threads, acquire_store_lock(t) PROVE IInv'
<1> DEFINE i == Here(t)
<1>1. /\ Phase(t) = "lock" /\ i # None /\ Holders(i) = {}
      /\ job' = [job EXCEPT ![t].at = "tables", ![t].ino = i]
      /\ UNCHANGED <<at, bak, meta, full, aged, proc, cache, faults, aside, cut, met>>
  BY DEF acquire_store_lock, disk
<1>2. TypeOK /\ i \in Inodes
  BY <1>1, Known DEF IInv
<1>3. job \in [Threads -> Job] /\ job[t] \in Job /\ Shape(t, job[t]) /\ job[t].at = "lock"
  BY <1>1, <1>2 DEF IInv, TypeOK, JobShape, Phase
<1> HIDE DEF i
<1>4. /\ job' \in [Threads -> Job] /\ \A u \in Threads \ {t} : job'[u] = job[u]
      /\ job'[t].at = "tables" /\ job'[t].key = job[t].key /\ job'[t].stale = job[t].stale
      /\ job'[t].ino = i
  <2>1. job' = [job EXCEPT ![t] = [job[t] EXCEPT !.at = "tables", !.ino = i]]
    BY <1>1, <1>3
  <2>2. [job[t] EXCEPT !.at = "tables", !.ino = i] \in Job
    BY <1>2, <1>3 DEF Job, BuildPhases, GroundPhases
  <2> QED
    BY <2>1, <2>2, <1>3 DEF Job
<1>5. TypeOK'
  BY <1>1, <1>2, <1>4 DEF TypeOK
<1>6. JobPart'
  <2>1. Shape(t, job'[t])
    BY <1>1, <1>3, <1>4 DEF Shape
  <2>2. Phase(t) \in GroundPhases /\ job'[t].at \in GroundPhases
    BY <1>1, <1>4 DEF GroundPhases
  <2> QED
    BY <2>1, <2>2, <1>1, <1>4, Within
<1>7. \A u \in Threads : Dir(u)' = Dir(u) /\ job'[u].key = job[u].key /\ job'[u].stale = job[u].stale
  BY <1>4 DEF Dir
<1>8. HandlesHome'
  <2>1. \A u \in Threads : job'[u].ino # None /\ Dir(u) \notin met =>
          at[Dir(u)] = job'[u].ino /\ meta[job'[u].ino] = Fresh(job[u].key)
    <3>1. Dir(t) \notin met => at[Dir(t)] = i /\ meta[i] = Fresh(job[t].key)
      BY <1>1 DEF IInv, LockKnows, Here, i
    <3> QED
      BY <3>1, <1>4 DEF IInv, HandlesHome, Here
  <2> QED
    BY <2>1, <1>1, <1>7 DEF IInv, HandlesHome, Here, Fresh
<1>9. SoleHolder'
  <2> SUFFICES ASSUME NEW j \in Inodes, NEW x \in Holders(j)', NEW y \in Holders(j)' PROVE x = y
    BY DEF SoleHolder
  <2>1. \A z \in Holders(j)' : (z = t /\ j = i) \/ z \in Holders(j)
    <3> SUFFICES ASSUME NEW z \in Holders(j)' PROVE (z = t /\ j = i) \/ z \in Holders(j)
      OBVIOUS
    <3>1. \/ z \in Threads /\ job'[z].ino = j
          \/ \E p \in Daemons, k \in Keys : z = <<p, k>> /\ cache'[p][k] # None /\ cache'[p][k].ino = j
      BY DEF Holders
    <3> QED
      BY <3>1, <1>1, <1>4, HolderKinds
  <2>2. CASE j = i
    BY <2>1, <2>2, <1>1
  <2>3. CASE j # i
    BY <2>1, <2>3 DEF IInv, SoleHolder
  <2> QED
    BY <2>2, <2>3
<1>10. MoverFirst'
  BY <1>1, <1>7 DEF IInv, MoverFirst
<1>11. LockKnows'
  <2>1. \A u \in Threads : job'[u].at = "lock" => u # t /\ job'[u] = job[u]
    BY <1>4
  <2> QED
    BY <2>1, <1>1, <1>7 DEF IInv, LockKnows, Here, Phase, Fresh
<1>12. InodeHome'
  BY <1>1 DEF IInv, InodeHome
<1>13. FoundOnce'
  <2>1. \A u \in Threads : job[u].stale # None /\ Dir(u) \notin met => (job'[u].at \in Unmoved <=> aside[Dir(u)] = "no")
    BY <1>3, <1>4 DEF IInv, FoundOnce, Phase, Unmoved
  <2> QED
    BY <2>1, <1>1, <1>7 DEF IInv, FoundOnce, MetaAt, Phase
<1>14. RecentKept'
  <2> SUFFICES ASSUME NEW e \in Dirs \ (cut \cup met), aside[e] = "recent"
               PROVE  \E v \in Older :
                        /\ bak'[e][v] = Original(e)
                        /\ \/ ~aged'[Original(e)]
                           \/ \E u \in Threads : Phase(u)' = "stamp" /\ Dir(u)' = e /\ job'[u].stale = v
    BY <1>1 DEF RecentKept
  <2> QED
    BY <1>1, <1>4, RecentBeside
<1>15. MoversApart'
  <2>1. Phase(t) \in GroundPhases /\ job'[t].at # "check" /\ (job'[t].stale # None => Moving(t))
    BY <1>1, <1>4 DEF GroundPhases, Moving
  <2> QED
    BY <2>1, <1>1, <1>2, <1>4, SameStale, ApartKeeps DEF IInv
<1> QED
  BY <1>5, <1>6, <1>8, <1>9, <1>10, <1>11, <1>12, <1>13, <1>14, <1>15, Parts DEF DiskPart

\* Finish: the open hands its lock over to the handle, and prunes no backup
\* that is young.
LEMMA FinishKeeps == ASSUME IInv, NEW t \in Threads, Finish(t) PROVE IInv'
<1> DEFINE d == Dir(t)
           k == job[t].key
           p == Process(t)
           h == [ino |-> job[t].ino, emb |-> job[t].emb]
<1>1. PICK gone \in SUBSET {v \in Older : bak[d][v] # None /\ aged[bak[d][v]]} :
        bak' = [bak EXCEPT ![d] = [v \in Older |-> IF v \in gone THEN None ELSE @[v]]]
  BY DEF Finish
<1>2. /\ Phase(t) = "prune"
      /\ cache' = [cache EXCEPT ![p][k] = h]
      /\ job' = [job EXCEPT ![t] = Idle]
      /\ proc' = IF t \in Daemons THEN [proc EXCEPT ![t] = "up"] ELSE proc
      /\ UNCHANGED <<at, meta, full, aged, faults, aside, cut, met>>
  BY DEF Finish
<1>3. /\ TypeOK /\ ProcPhase /\ d \in Dirs /\ k \in Keys /\ p \in Daemons /\ DirOf[k] = d
      /\ bak \in [Dirs -> [Older -> Inodes \cup {None}]]
      /\ cache \in [Daemons -> [Keys -> Handle \cup {None}]]
      /\ job \in [Threads -> Job] /\ proc \in [Daemons -> {"down", "booting", "up"}]
  BY Known DEF IInv, TypeOK, Dir
<1>4. job[t] \in Job /\ Shape(t, job[t]) /\ job[t].at = "prune"
  BY <1>2, <1>3 DEF IInv, JobShape, Phase
<1>5. job[t].ino # None /\ job[t].ino \in Inodes /\ job[t].emb \in BOOLEAN
  BY <1>3, <1>4, Known DEF Shape, Job
<1>6. d \notin met => at[d] = job[t].ino /\ meta[job[t].ino] = Fresh(k)
  BY <1>5 DEF IInv, HandlesHome, Here
<1>7. h \in Handle /\ h # None /\ h.ino = job[t].ino
  BY <1>5, OpenAssumption DEF Handle
<1>8. job'[t] = Idle /\ job' \in [Threads -> Job] /\ \A u \in Threads \ {t} : job'[u] = job[u]
  BY <1>2, <1>3, IdleShape
<1>9. /\ proc' \in [Daemons -> {"down", "booting", "up"}] /\ proc'[p] = "up"
      /\ \A q \in Daemons : q # p => proc'[q] = proc[q]
      /\ proc[p] # "down"
      /\ t \in Daemons => p = t /\ proc[t] = "booting"
      /\ t \notin Daemons => proc[p] = "up"
  <2>1. Phase(t) # "idle"
    BY <1>2
  <2> QED
    BY <2>1, <1>2, <1>3, Alive, Known
<1> HIDE DEF h, p
<1>10. /\ cache' \in [Daemons -> [Keys -> Handle \cup {None}]] /\ cache'[p][k] = h
       /\ \A q \in Daemons, l \in Keys : q # p \/ l # k => cache'[q][l] = cache[q][l]
  <2>1. cache' = [cache EXCEPT ![p] = [cache[p] EXCEPT ![k] = h]]
    BY <1>2, <1>3
  <2> HIDE DEF d, k
  <2>2. [cache[p] EXCEPT ![k] = h] \in [Keys -> Handle \cup {None}]
    BY <1>3, <1>7
  <2> QED
    BY <2>1, <2>2, <1>3
<1>11. /\ bak' \in [Dirs -> [Older -> Inodes \cup {None}]]
       /\ \A e \in Dirs : e # d => bak'[e] = bak[e]
       /\ \A v \in Older : bak'[d][v] = IF v \in gone THEN None ELSE bak[d][v]
  <2> DEFINE g == [v \in Older |-> IF v \in gone THEN None ELSE bak[d][v]]
  <2>1. g \in [Older -> Inodes \cup {None}] /\ bak' = [bak EXCEPT ![d] = g]
    BY <1>1, <1>3
  <2>2. \A v \in Older : g[v] = IF v \in gone THEN None ELSE bak[d][v]
    OBVIOUS
  <2> HIDE DEF g, d
  <2> QED
    BY <2>1, <2>2, <1>3
<1>12. TypeOK'
  BY <1>2, <1>3, <1>8, <1>9, <1>10, <1>11 DEF TypeOK
<1>13. JobPart'
  <2>1. ProcPhase'
    <3> SUFFICES ASSUME NEW q \in Daemons
                 PROVE  /\ proc'[q] = "down" => job'[q] = Idle
                        /\ proc'[q] = "booting" => job'[q].at \in GroundPhases
                        /\ proc'[q] = "up" => job'[q] = Idle /\ cache'[q][Base] # None
                        /\ proc'[q] # "up" => /\ \A o \in Openers : DaemonOf[o] = q => job'[o] = Idle
                                              /\ \A l \in Keys : cache'[q][l] = None
      BY DEF ProcPhase, Phase
    <3>0. q \in Threads /\ \A o \in Openers : o \in Threads /\ o \notin Daemons
      BY OpenAssumption DEF Threads
    <3>1. CASE q = p
      <4>1. job'[q] = Idle
        <5>1. CASE t \in Daemons
          BY <5>1, <3>1, <1>8, <1>9
        <5>2. CASE t \notin Daemons
          BY <5>2, <3>0, <3>1, <1>3, <1>8, <1>9 DEF ProcPhase
        <5> QED
          BY <5>1, <5>2
      <4>2. cache'[q][Base] # None
        <5>1. CASE t \in Daemons
          <6>1. k = Base
            BY <5>1, <1>4 DEF Shape
          <6> QED
            BY <6>1, <3>1, <1>7, <1>10
        <5>2. CASE t \notin Daemons
          <6>1. cache[q][Base] # None /\ Base \in Keys
            BY <5>2, <3>1, <1>3, <1>9, OpenAssumption DEF ProcPhase
          <6>2. cache'[q][Base] = cache[q][Base] \/ cache'[q][Base] = h
            BY <6>1, <3>1, <1>10
          <6> QED
            BY <6>1, <6>2, <1>7
        <5> QED
          BY <5>1, <5>2
      <4> QED
        BY <4>1, <4>2, <3>1, <1>9
    <3>2. CASE q # p
      <4>1. q # t
        BY <3>2, <1>9
      <4>2. \A o \in Openers : DaemonOf[o] = q => o # t
        BY <3>0, <3>2, <1>3, Known DEF p
      <4>3. job'[q] = job[q] /\ proc'[q] = proc[q] /\ \A l \in Keys : cache'[q][l] = cache[q][l]
        BY <4>1, <3>0, <3>2, <1>8, <1>9, <1>10
      <4>4. \A o \in Openers : DaemonOf[o] = q => job'[o] = job[o]
        BY <4>2, <3>0, <1>8
      <4> QED
        BY <4>3, <4>4, <1>3, OpenAssumption DEF ProcPhase, Phase
    <3> QED
      BY <3>1, <3>2
  <2>2. RetryKnows'
    <3> SUFFICES ASSUME NEW o \in Openers, job'[o].at = "retry"
                 PROVE  cache'[DaemonOf[o]][job'[o].key] # None
      BY DEF RetryKnows, Phase
    <3>1. o # t /\ job'[o] = job[o] /\ o \in Threads
      BY <1>8 DEF Idle, Threads
    <3>2. cache[DaemonOf[o]][job[o].key] # None /\ DaemonOf[o] \in Daemons /\ job[o].key \in Keys
      BY <3>1, <1>3, Known, OpenAssumption DEF IInv, RetryKnows, Phase
    <3>3. \/ cache'[DaemonOf[o]][job[o].key] = cache[DaemonOf[o]][job[o].key]
          \/ cache'[DaemonOf[o]][job[o].key] = h
      BY <3>2, <1>10
    <3> QED
      BY <3>1, <3>2, <3>3, <1>7
  <2>3. JobShape'
    BY <1>8, IdleShape DEF IInv, JobShape
  <2>4. Exclusive'
    <3>1. \A u \in Threads : Phase(u)' \in GroundPhases => u # t /\ job'[u] = job[u]
      BY <1>8 DEF Phase, Idle, GroundPhases
    <3> QED
      BY <3>1 DEF IInv, Exclusive, Dir, Phase
  <2> QED
    BY <2>1, <2>2, <2>3, <2>4 DEF JobPart
<1>14. \A u \in Threads \ {t} : Dir(u) = d /\ d \notin met => job[u].stale = None
  <2> SUFFICES ASSUME NEW u \in Threads \ {t}, Dir(u) = d, d \notin met, job[u].stale # None PROVE FALSE
    OBVIOUS
  <2> QED
    BY <1>2, MoverClear DEF GroundPhases
<1>15. \A u \in Threads : job'[u].stale # None \/ job'[u].ino # None \/ job'[u].at = "lock"
                          => u # t /\ job'[u] = job[u]
  BY <1>8 DEF Idle
<1>16. HandlesHome'
  <2>1. ASSUME NEW q \in Daemons, NEW l \in Keys, cache'[q][l] # None, DirOf[l] \notin met
        PROVE  at[DirOf[l]] = cache'[q][l].ino /\ meta[cache'[q][l].ino] = Fresh(l)
    <3>1. CASE q = p /\ l = k
      <4>1. cache'[q][l] = h
        BY <3>1, <1>10
      <4> QED
        BY <4>1, <3>1, <2>1, <1>3, <1>6, <1>7
    <3>2. CASE ~(q = p /\ l = k)
      BY <3>2, <2>1, <1>10 DEF IInv, HandlesHome
    <3> QED
      BY <3>1, <3>2
  <2>2. \A u \in Threads : job'[u].ino # None /\ DirOf[job'[u].key] \notin met =>
          at[DirOf[job'[u].key]] = job'[u].ino /\ meta[job'[u].ino] = Fresh(job'[u].key)
    BY <1>15 DEF IInv, HandlesHome, Here, Dir
  <2> QED
    BY <2>1, <2>2, <1>2 DEF HandlesHome, Here, Dir, Fresh
<1>17. SoleHolder'
  <2> SUFFICES ASSUME NEW j \in Inodes, NEW x \in Holders(j)', NEW y \in Holders(j)' PROVE x = y
    BY DEF SoleHolder
  <2>1. \A z \in Holders(j)' : (z = <<p, k>> /\ j = job[t].ino) \/ (z \in Holders(j) /\ z # t)
    <3> SUFFICES ASSUME NEW z \in Holders(j)'
                 PROVE  (z = <<p, k>> /\ j = job[t].ino) \/ (z \in Holders(j) /\ z # t)
      OBVIOUS
    <3>0. j # None
      BY OpenAssumption
    <3>1. \/ z \in Threads /\ job'[z].ino = j
          \/ \E q \in Daemons, l \in Keys : z = <<q, l>> /\ cache'[q][l] # None /\ cache'[q][l].ino = j
      BY DEF Holders
    <3>2. CASE z \in Threads /\ job'[z].ino = j
      BY <3>0, <3>2, <1>15, HolderKinds
    <3>3. ASSUME NEW q \in Daemons, NEW l \in Keys,
                 z = <<q, l>>, cache'[q][l] # None, cache'[q][l].ino = j
          PROVE  (z = <<p, k>> /\ j = job[t].ino) \/ (z \in Holders(j) /\ z # t)
      <4>1. CASE q = p /\ l = k
        BY <4>1, <3>3, <1>7, <1>10
      <4>2. CASE ~(q = p /\ l = k)
        <5>1. z \in Holders(j)
          BY <4>2, <3>3, <1>10, HolderKinds
        <5>2. z # t
          BY <3>3, OpenAssumption
        <5> QED
          BY <5>1, <5>2
      <4> QED
        BY <4>1, <4>2
    <3> QED
      BY <3>1, <3>2, <3>3
  <2>2. \A z \in Holders(job[t].ino) : z = t
    <3>1. t \in Holders(job[t].ino)
      BY HolderKinds
    <3> QED
      BY <3>1, <1>5 DEF IInv, SoleHolder
  <2>3. CASE j = job[t].ino
    BY <2>1, <2>2, <2>3
  <2>4. CASE j # job[t].ino
    BY <2>1, <2>4 DEF IInv, SoleHolder
  <2> QED
    BY <2>3, <2>4
<1>18. MoverFirst'
  <2> SUFFICES ASSUME NEW u \in Threads, NEW q \in Daemons, NEW l \in Keys,
                      job'[u].stale # None, DirOf[l] = DirOf[job'[u].key], DirOf[l] \notin met
               PROVE  cache'[q][l] = None
    BY <1>2 DEF MoverFirst, Dir
  <2>1. u # t /\ job'[u] = job[u]
    BY <1>15
  <2>2. Dir(u) # d /\ Dir(u) \notin met
    BY <2>1, <1>14 DEF Dir
  <2>3. l # k
    BY <2>1, <2>2, <1>3 DEF Dir
  <2> QED
    BY <2>1, <2>2, <2>3, <1>10 DEF IInv, MoverFirst, Dir
<1>19. LockKnows'
  <2> SUFFICES ASSUME NEW u \in Threads, job'[u].at = "lock", DirOf[job'[u].key] \notin met
               PROVE  /\ at[DirOf[job'[u].key]] # None
                      /\ meta[at[DirOf[job'[u].key]]] = Fresh(job'[u].key)
    BY <1>2 DEF LockKnows, Here, Dir, Phase, Fresh
  <2>1. job'[u] = job[u]
    BY <1>15
  <2> QED
    BY <2>1 DEF IInv, LockKnows, Here, Dir, Phase
<1>20. InodeHome'
  BY <1>2, <1>11 DEF IInv, InodeHome
<1>21. FoundOnce'
  <2>1. \A u \in Threads : job'[u].stale # None /\ DirOf[job'[u].key] \notin met =>
          (job'[u].at \in Unmoved <=> aside[DirOf[job'[u].key]] = "no")
    BY <1>15 DEF IInv, FoundOnce, Phase, Dir
  <2> QED
    BY <2>1, <1>2 DEF IInv, FoundOnce, MetaAt, Phase, Dir
<1>22. RecentKept'
  <2> SUFFICES ASSUME NEW e \in Dirs \ (cut \cup met), aside[e] = "recent"
               PROVE  \E v \in Older :
                        /\ bak'[e][v] = Original(e)
                        /\ \/ ~aged'[Original(e)]
                           \/ \E u \in Threads : Phase(u)' = "stamp" /\ Dir(u)' = e /\ job'[u].stale = v
    BY <1>2 DEF RecentKept
  <2>1. CASE e # d
    BY <2>1, <1>2, <1>8, <1>11, RecentBeside
  <2>2. CASE e = d
    <3>1. PICK v \in Older :
            /\ bak[d][v] = Original(d)
            /\ \/ ~aged[Original(d)]
               \/ \E u \in Threads : Phase(u) = "stamp" /\ Dir(u) = d /\ job[u].stale = v
      BY <2>2 DEF IInv, RecentKept
    <3>2. ASSUME NEW u \in Threads, Phase(u) = "stamp", Dir(u) = d, job[u].stale = v PROVE FALSE
      <4>1. u # t /\ v # None
        BY <3>2, <1>2, OpenAssumption
      <4> QED
        BY <4>1, <3>2, <2>2, <1>14
    <3>3. ~aged[Original(d)]
      BY <3>1, <3>2
    <3>4. v \notin gone
      BY <3>1, <3>3
    <3> QED
      BY <3>1, <3>3, <3>4, <2>2, <1>2, <1>11
  <2> QED
    BY <2>1, <2>2
<1>23. MoversApart'
  <2>1. job'[t].at \notin GroundPhases /\ job'[t].stale = None
    BY <1>8 DEF Idle, GroundPhases
  <2> QED
    BY <2>1, <1>2, <1>3, <1>8, SameStale, ApartKeeps DEF IInv
<1> QED
  BY <1>12, <1>13, <1>16, <1>17, <1>18, <1>19, <1>20, <1>21, <1>22, <1>23, Parts DEF DiskPart

\* remove_partial_store: the boot that had moved the store ends.
LEMMA RemoveKeeps == ASSUME IInv, NEW p \in Daemons, remove_partial_store(p) PROVE IInv'
<1> DEFINE d == Dir(p)
<1>1. /\ Phase(p) = "remove"
      /\ at' = [at EXCEPT ![d] = None] \/ at' = at
      /\ faults' = faults \/ (faults < MaxFaults /\ faults' = faults + 1)
      /\ job' = [job EXCEPT ![p] = Idle] /\ proc' = [proc EXCEPT ![p] = "down"]
      /\ UNCHANGED <<bak, meta, full, aged, cache, aside, cut, met>>
  BY DEF remove_partial_store
<1>2. /\ TypeOK /\ ProcPhase /\ p \in Threads /\ d \in Dirs /\ Process(p) = p
      /\ at \in [Dirs -> Inodes \cup {None}] /\ job \in [Threads -> Job]
      /\ proc \in [Daemons -> {"down", "booting", "up"}] /\ faults \in 0..MaxFaults
  BY Known DEF IInv, TypeOK, Threads
<1>3. job[p].stale # None /\ job[p].at = "remove" /\ proc[p] = "booting"
  <2>1. Shape(p, job[p]) /\ job[p].at = "remove"
    BY <1>1, <1>2 DEF IInv, JobShape, Phase
  <2> QED
    BY <1>1, <1>2, <2>1, Alive DEF Shape
<1>4. job'[p] = Idle /\ job' \in [Threads -> Job] /\ \A u \in Threads \ {p} : job'[u] = job[u]
  BY <1>1, <1>2, IdleShape
<1>5. /\ at' \in [Dirs -> Inodes \cup {None}] /\ at'[d] \in {at[d], None}
      /\ \A e \in Dirs \ {d} : at'[e] = at[e]
  BY <1>1, <1>2
<1>6. TypeOK'
  <2>1. faults' \in 0..MaxFaults
    BY <1>1, <1>2, OpenAssumption
  <2> QED
    BY <2>1, <1>1, <1>2, <1>4, <1>5 DEF TypeOK
<1>7. Ends(p)
  <2>1. \A k \in Keys : cache[p][k] = None
    BY <1>2, <1>3 DEF ProcPhase
  <2>2. \A t \in Threads : job'[t] = IF Process(t) = p THEN Idle ELSE job[t]
    <3> SUFFICES ASSUME NEW t \in Threads, t # p
                 PROVE  job[t] = IF Process(t) = p THEN Idle ELSE job[t]
      BY <1>2, <1>4
    <3>1. CASE t \in Daemons
      BY <3>1, <1>2, Known
    <3>2. CASE t \notin Daemons
      BY <3>2, <1>2, <1>3, Known DEF ProcPhase
    <3> QED
      BY <3>1, <3>2
  <2> QED
    BY <2>1, <2>2, <1>1 DEF Ends
<1>8. JobPart'
  BY <1>7, EndsLemma
<1>9. job'[p].stale = None /\ job'[p].ino = None /\ job'[p].at = "idle"
  BY <1>4 DEF Idle
<1>10. HandlesHome' /\ SoleHolder' /\ MoverFirst' /\ LockKnows' /\ MoversApart'
  BY <1>1, <1>2, <1>3, <1>4, <1>5, <1>6, MoverStep
<1>11. InodeHome'
  BY <1>1, <1>5 DEF IInv, InodeHome
<1>12. d \notin met => aside[d] # "no"
  BY <1>2, <1>3 DEF IInv, FoundOnce, Unmoved, Phase
<1>13. FoundOnce'
  <2>1. \A e \in Dirs \ met : aside[e] = "no" => at'[e] = Original(e)
    BY <1>5, <1>12 DEF IInv, FoundOnce
  <2>2. \A e \in Dirs : Stale(MetaAt(e))' => Stale(MetaAt(e))
    BY <1>1, <1>5 DEF Stale, MetaAt
  <2>3. \A u \in Threads : job'[u].stale # None /\ DirOf[job'[u].key] \notin met =>
          (job'[u].at \in Unmoved <=> aside[DirOf[job'[u].key]] = "no")
    BY <1>4, <1>9 DEF IInv, FoundOnce, Phase, Dir
  <2> QED
    BY <2>1, <2>2, <2>3, <1>1 DEF IInv, FoundOnce, Phase, Dir, Original
<1>14. RecentKept'
  <2> SUFFICES ASSUME NEW e \in Dirs \ (cut \cup met), aside[e] = "recent"
               PROVE  \E v \in Older :
                        /\ bak'[e][v] = Original(e)
                        /\ \/ ~aged'[Original(e)]
                           \/ \E u \in Threads : Phase(u)' = "stamp" /\ Dir(u)' = e /\ job'[u].stale = v
    BY <1>1 DEF RecentKept
  <2> QED
    BY <1>1, <1>2, <1>4, RecentBeside
<1> HIDE DEF d
<1> QED
  BY <1>6, <1>8, <1>10, <1>11, <1>13, <1>14, Parts DEF DiskPart

\* Age: what was moved recently no longer is.
LEMMA AgeKeeps == ASSUME IInv, Age PROVE IInv'
<1>1. /\ aged' = [i \in Inodes |-> OnDisk(i)]
      /\ aside' = [d \in Dirs |-> IF aside[d] = "recent" THEN "old" ELSE aside[d]]
      /\ UNCHANGED <<at, bak, meta, full, proc, cache, job, faults, cut, met>>
  BY DEF Age
<1>2. TypeOK /\ aside \in [Dirs -> {"none", "no", "recent", "old"}]
  BY DEF IInv, TypeOK
<1>3. \A d \in Dirs : (aside'[d] = "no" <=> aside[d] = "no") /\ aside'[d] # "recent"
  BY <1>1, <1>2
<1>4. aside' \in [Dirs -> {"none", "no", "recent", "old"}]
  BY <1>1, <1>2
<1>5. aged' \in [Inodes -> BOOLEAN]
  BY <1>1 DEF OnDisk
<1>6. TypeOK'
  BY <1>1, <1>2, <1>4, <1>5 DEF TypeOK
<1>7. ProcPhase' /\ RetryKnows' /\ JobShape' /\ Exclusive'
  BY <1>1 DEF IInv, ProcPhase, RetryKnows, JobShape, Exclusive, Phase, Dir
<1>8. MoversApart'
  BY <1>1, <1>2, SameStale, ApartKeeps DEF IInv
<1>9. HandlesHome' /\ MoverFirst' /\ LockKnows' /\ InodeHome'
  BY <1>1 DEF IInv, HandlesHome, MoverFirst, LockKnows, InodeHome, Here, Dir, Phase, Fresh
<1>10. SoleHolder'
  BY <1>1 DEF IInv, SoleHolder, Holders
<1>11. FoundOnce'
  <2>1. \A t \in Threads : Dir(t) \in Dirs
    BY <1>2, Known
  <2> QED
    BY <2>1, <1>1, <1>3 DEF IInv, FoundOnce, MetaAt, Phase, Dir
<1>12. RecentKept'
  BY <1>3 DEF RecentKept
<1> QED
  BY <1>6, <1>7, <1>8, <1>9, <1>10, <1>11, <1>12 DEF IInv

\* No step at all.
LEMMA StutterKeeps == ASSUME IInv, UNCHANGED vars PROVE IInv'
<1>1. UNCHANGED <<at, bak, meta, full, aged, proc, cache, job, faults, aside, cut, met>>
  BY DEF vars, disk
<1>2. TypeOK' /\ ProcPhase' /\ RetryKnows' /\ JobShape' /\ Exclusive'
  BY <1>1 DEF IInv, TypeOK, ProcPhase, RetryKnows, JobShape, Exclusive, Phase, Dir
<1>3. MoversApart'
  BY <1>1, SameStale, ApartKeeps DEF IInv
<1>4. HandlesHome' /\ MoverFirst' /\ LockKnows' /\ InodeHome'
  BY <1>1 DEF IInv, HandlesHome, MoverFirst, LockKnows, InodeHome, Here, Dir, Phase, Fresh
<1>5. SoleHolder'
  BY <1>1 DEF IInv, SoleHolder, Holders
<1>6. FoundOnce' /\ RecentKept'
  BY <1>1 DEF IInv, FoundOnce, RecentKept, MetaAt, Phase, Dir
<1> QED
  BY <1>2, <1>3, <1>4, <1>5, <1>6 DEF IInv

-----------------------------------------------------------------------------
(* The invariant holds from the start.                                     *)

\* At the start nobody is at work.
LEMMA InitHolds == Init => IInv
<1> SUFFICES ASSUME Init PROVE IInv
  OBVIOUS
<1>1. PICK found \in Found :
        /\ at = [d \in Dirs |-> IF found[d] = None THEN None ELSE Original(d)]
        /\ bak = [d \in Dirs |-> [v \in Older |->
                    IF d \in BackedUp /\ v = Current - 1 THEN <<d, 2>> ELSE None]]
        /\ meta = [i \in Inodes |-> IF i[2] = 1 THEN found[i[1]] ELSE None]
        /\ aged = [i \in Inodes |-> i[2] \in {1, 2}]
        /\ aside = [d \in Dirs |-> IF found[d] = None THEN "none" ELSE "no"]
  BY DEF Init
<1>2. /\ full = [i \in Inodes |-> FALSE]
      /\ proc = [p \in Daemons |-> "down"]
      /\ cache = [p \in Daemons |-> [k \in Keys |-> None]]
      /\ job = [t \in Threads |-> Idle]
      /\ faults = 0 /\ cut = {} /\ met = {}
  BY DEF Init
<1>3. \A d \in Dirs : found[d] \in Metas \cup {None}
  BY <1>1, OpenAssumption
<1>4. \A d \in Dirs : /\ Original(d) \in Inodes /\ <<d, 2>> \in Inodes
                      /\ Original(d)[1] = d /\ Original(d)[2] = 1 /\ <<d, 2>>[1] = d
  <2>1. 1 \in 1..Copies /\ 2 \in 1..Copies
    BY OpenAssumption
  <2> QED
    BY <2>1 DEF Original, Inodes
<1>5. \A i \in Inodes : i[1] \in Dirs
  BY DEF Inodes
<1>6. \A d \in Dirs : MetaAt(d) = found[d]
  <2> SUFFICES ASSUME NEW d \in Dirs PROVE MetaAt(d) = found[d]
    OBVIOUS
  <2>1. CASE found[d] = None
    BY <2>1, <1>1 DEF MetaAt
  <2>2. CASE found[d] # None
    <3>1. at[d] = Original(d) /\ Original(d) # None
      BY <2>2, <1>1, <1>4, OpenAssumption
    <3>2. meta[Original(d)] = found[d]
      BY <1>1, <1>4
    <3> QED
      BY <3>1, <3>2 DEF MetaAt
  <2> QED
    BY <2>1, <2>2
<1>7. \A t \in Threads : /\ job[t] = Idle /\ Phase(t) = "idle"
                         /\ job[t].stale = None /\ job[t].ino = None
  BY <1>2 DEF Idle, Phase
<1>8. TypeOK
  <2>1. at \in [Dirs -> Inodes \cup {None}]
    BY <1>1, <1>4
  <2>2. bak \in [Dirs -> [Older -> Inodes \cup {None}]]
    BY <1>1, <1>4
  <2>3. meta \in [Inodes -> Metas \cup {None}]
    BY <1>1, <1>3, <1>5
  <2>4. full \in [Inodes -> BOOLEAN] /\ aged \in [Inodes -> BOOLEAN]
    BY <1>1, <1>2
  <2>5. proc \in [Daemons -> {"down", "booting", "up"}]
        /\ cache \in [Daemons -> [Keys -> Handle \cup {None}]]
    BY <1>2
  <2>6. job \in [Threads -> Job]
    BY <1>2, IdleShape
  <2>7. faults \in 0..MaxFaults
    BY <1>2, OpenAssumption
  <2>8. aside \in [Dirs -> {"none", "no", "recent", "old"}] /\ cut \subseteq Dirs /\ met \subseteq Dirs
    BY <1>1, <1>2
  <2> QED
    BY <2>1, <2>2, <2>3, <2>4, <2>5, <2>6, <2>7, <2>8 DEF TypeOK
<1>9. ProcPhase
  <2>1. \A p \in Daemons : p \in Threads /\ proc[p] = "down" /\ \A k \in Keys : cache[p][k] = None
    BY <1>2 DEF Threads
  <2>2. \A o \in Openers : o \in Threads
    BY DEF Threads
  <2> QED
    BY <2>1, <2>2, <1>7 DEF ProcPhase
<1>10. RetryKnows /\ JobShape /\ Exclusive
  <2>1. \A o \in Openers : o \in Threads
    BY DEF Threads
  <2> QED
    BY <2>1, <1>7, IdleShape DEF RetryKnows, JobShape, Exclusive, GroundPhases
<1>11. MoversApart
  BY <1>7 DEF MoversApart, Moving
<1>12. HandlesHome /\ MoverFirst
  BY <1>2, <1>7 DEF HandlesHome, MoverFirst
<1>13. SoleHolder
  <2> SUFFICES ASSUME NEW i \in Inodes, NEW x \in Holders(i) PROVE FALSE
    BY DEF SoleHolder
  <2>1. i # None
    BY OpenAssumption
  <2>2. \/ x \in Threads /\ job[x].ino = i
        \/ \E p \in Daemons, k \in Keys : x = <<p, k>> /\ cache[p][k] # None /\ cache[p][k].ino = i
    BY DEF Holders
  <2> QED
    BY <2>1, <2>2, <1>2, <1>7
<1>14. LockKnows
  BY <1>7 DEF LockKnows
<1>15. InodeHome
  BY <1>1, <1>4 DEF InodeHome
<1>16. FoundOnce
  <2>1. \A d \in Dirs : aside[d] = "no" => at[d] = Original(d)
    BY <1>1
  <2>2. \A d \in Dirs : Stale(MetaAt(d)) => aside[d] = "no"
    BY <1>1, <1>6 DEF Stale
  <2> QED
    BY <2>1, <2>2, <1>7 DEF FoundOnce
<1>17. RecentKept
  BY <1>1 DEF RecentKept
<1> QED
  BY <1>8, <1>9, <1>10, <1>11, <1>12, <1>13, <1>14, <1>15, <1>16, <1>17 DEF IInv

-----------------------------------------------------------------------------
(* The theorems.                                                           *)

\* Every step keeps the invariant.
LEMMA StepKeeps == IInv /\ [Next]_vars => IInv'
<1> SUFFICES ASSUME IInv, [Next]_vars PROVE IInv'
  OBVIOUS
<1>1. ASSUME NEW t \in Threads, Step(t) PROVE IInv'
  BY <1>1, CheckKeeps, InitModelKeeps, ClearBackupKeeps, RenameKeeps, StampKeeps, OpenDirKeeps,
     AcquireKeeps, LockRefusedKeeps, OpenTablesKeeps, FinishKeeps DEF Step
<1>2. ASSUME NEW p \in Daemons,
             StartDaemon(p) \/ BootWithoutEmbedder(p) \/ BootStep(p) \/ Crash(p)
      PROVE  IInv'
  <2>1. p \in Threads
    BY DEF Threads
  <2> QED
    BY <1>1, <1>2, <2>1, StartDaemonKeeps, InitModelKeeps, RebuildKeeps, RemoveKeeps, CrashKeeps
    DEF BootStep
<1>3. ASSUME NEW o \in Openers, CallStep(o) PROVE IInv'
  <2>1. o \in Threads
    BY DEF Threads
  <2> QED
    BY <1>1, <1>3, <2>1, LockBuildKeeps, RetryEmbedderKeeps, LockGroundKeeps DEF CallStep
<1>4. ASSUME NEW o \in Openers, NEW k \in Asks[o], Request(o, k) PROVE IInv'
  BY <1>4, RequestKeeps
<1>5. ASSUME NEW t \in Threads, Fail(t) PROVE IInv'
  BY <1>5, FailKeeps
<1>6. ASSUME NEW p \in Daemons, NEW k \in Keys, CatchUp(p, k) PROVE IInv'
  BY <1>6, CatchUpKeeps
<1>7. CASE Age
  BY <1>7, AgeKeeps
<1>8. CASE UNCHANGED vars
  BY <1>8, StutterKeeps
<1> QED
  BY <1>2, <1>3, <1>4, <1>5, <1>6, <1>7, <1>8 DEF Next

\* In every reachable state.
THEOREM Invariance == Spec => []IInv
BY InitHolds, StepKeeps, PTL DEF Spec

\* Every variable keeps its type: directories of their ground paths, handles
\* whose directory exists, jobs of the phases of an open.
THEOREM TypeCorrect == Spec => []TypeOK
<1>1. IInv => TypeOK
  BY DEF IInv
<1> QED
  BY <1>1, Invariance, PTL

\* A store that is open, by a handle or an open that has its lock, is the one
\* at its path, of its schema and configuration, and has one owner; except in
\* a directory where a daemon came upon the move of another (met).
THEOREM StoreAtHomeHolds == Spec => []StoreAtHome
<1>1. IInv => StoreAtHome
  <2> SUFFICES ASSUME IInv PROVE StoreAtHome
    OBVIOUS
  <2>1. ASSUME NEW i \in Inodes, NEW x \in Holders(i) PROVE Cardinality(Holders(i)) = 1
    <3>1. Holders(i) = {x}
      BY <2>1 DEF IInv, SoleHolder
    <3> QED
      BY <3>1, FS_Singleton
  <2>2. ASSUME NEW p \in Daemons, NEW k \in Keys, cache[p][k] # None, DirOf[k] \notin met
        PROVE  AtHome(cache[p][k].ino, k)
    <3>1. cache[p][k] \in Handle
      BY <2>2 DEF IInv, TypeOK
    <3>2. cache[p][k].ino \in Inodes /\ <<p, k>> \in Holders(cache[p][k].ino)
      BY <2>2, <3>1, HolderKinds DEF Handle
    <3> QED
      BY <2>1, <2>2, <3>2 DEF IInv, HandlesHome, AtHome
  <2>3. ASSUME NEW t \in Threads, job[t].ino # None, Dir(t) \notin met
        PROVE  AtHome(job[t].ino, job[t].key)
    <3>1. job[t].ino \in Inodes /\ t \in Holders(job[t].ino)
      BY <2>3, Known, HolderKinds DEF IInv
    <3> QED
      BY <2>1, <2>3, <3>1 DEF IInv, HandlesHome, AtHome, Here, Dir
  <2> QED
    BY <2>2, <2>3 DEF StoreAtHome
<1> QED
  BY <1>1, Invariance, PTL

\* The store found at the start stays in place when it is refused or its move
\* fails, and is kept in a backup for the retention after it was moved; except
\* where a move ended between rename and stamp (cut), or a daemon came upon the
\* move of another (met).
THEOREM OriginalKeptHolds == Spec => []OriginalKept
<1>1. IInv => OriginalKept
  BY DEF IInv, FoundOnce, RecentKept, OriginalKept, OnDisk
<1> QED
  BY <1>1, Invariance, PTL

-----------------------------------------------------------------------------
(* Ground: the inductive invariant.                                        *)

\* A text that f had at some time; the file, when it is there, is no older.
\* It is shown with an mtime no younger than it, unless a page's writer took
\* the mtime.
Old(f, text, mtime, from) ==
    /\ mtime <= text \/ from = "page"
    /\ text <= now
    /\ written[f] # Nothing => text <= written[f]

\* Rows are old texts, their content is there, a walk that is over has
\* looked at every file.
StoreInv ==
    /\ \A f \in Files : written[f] # Nothing => written[f] <= now
    /\ \A f \in Files : page[f] # Nothing => Old(f, page[f], page[f], "page")
    /\ \A f \in Files : fileMap[f] # Nothing => /\ Old(f, fileMap[f].key, fileMap[f].mtime, fileMap[f].by)
                                                /\ fileMap[f].key \in content
    /\ \A c \in Corpora : walks[c].at = "files" => walks[c].todo = {}

\* The progress x of a request: what it shows or is about to show is old text.
HonestIn(x) ==
    /\ \A f \in Files : x.scope[f] # Nothing => Old(f, x.scope[f].key, x.scope[f].mtime, x.scope[f].by)
    /\ \A f \in Files : x.hits[f] # Nothing => Old(f, x.hits[f].text, x.hits[f].mtime, x.hits[f].from)
    /\ x.opened # Nothing => Old(x.opened[1], x.opened[2], x.opened[2], "grep")

Served == {"search", "rerank", "mark"}

\* Only the corpora asked for are touched, and each phase starts when the one
\* before it is done with all of them.
PhasesIn(x) ==
    /\ x.at = "idle" => x.corpora = {}
    /\ x.at \in {"idle", "inventory"} => /\ \A c \in Corpora : x.searched[c] = "no"
                                         /\ x.queue = {} /\ x.opened = Nothing
    /\ \A c \in Corpora \ x.corpora :
          x.walked[c] = "no" /\ x.listed[c] = "no" /\ x.searched[c] = "no"
    /\ x.at \in Served =>
          /\ x.kind # "stats"
          /\ \A c \in x.corpora : /\ x.walked[c] \in {"files", "failed", "timeout"}
                                  /\ x.listed[c] \in {"known", "failed"}
                                  /\ x.walked[c] = "timeout" => <<c, "scan">> \in x.warnings
    /\ x.at \in {"rerank", "mark"} => /\ x.queue = {} /\ x.opened = Nothing
                                      /\ \A c \in x.corpora : x.searched[c] = "done"

\* Accounted, of a request's progress.
AccountedIn(x, f) ==
    LET c == CorpusOf[f] IN
    \/ x.hits[f] # Nothing \/ f \in x.dropped
    \/ fileMap[f] # Nothing /\ c \in x.blind
    \/ /\ fileMap[f] = Nothing
       /\ \/ <<c, "scan">> \in x.warnings \/ x.walked[c] = "failed"
          \/ <<c, IF x.kind = "ranked" THEN "fallback" ELSE "coverage">> \in x.warnings
          \/ x.kind = "phrase" /\ x.listed[c] = "failed"

\* Where a quiet file is in each phase: before the walk, in what it has found
\* or still has to look at; in the listing, as the store has it; after the
\* search of its corpus accounted for, unless it waits to be read or is read.
TracedIn(x, f) ==
    LET c == CorpusOf[f] IN
    /\ written[f] # Nothing /\ c \in x.corpora
    /\ x.walked[c] = "waiting" /\ walks[c].at \in {"running", "files"}
         => f \in walks[c].todo \cup walks[c].found
    /\ x.walked[c] = "files" /\ x.searched[c] = "no" => f \in x.found
    /\ x.listed[c] = "known" /\ x.searched[c] = "no" => x.scope[f] = fileMap[f]
    /\ (/\ x.at \in Served /\ x.walked[c] = "files" /\ x.listed[c] = "known"
        /\ fileMap[f] = Nothing) => <<c, "coverage">> \in x.warnings
    /\ x.searched[c] = "grep"
         => \/ AccountedIn(x, f)
            \/ f \in x.queue /\ fileMap[f] = Nothing /\ x.kind = "ranked"
    /\ x.searched[c] = "done"
         => \/ AccountedIn(x, f) \/ f \in x.queue
            \/ x.opened # Nothing /\ x.opened[1] = f
    /\ x.opened # Nothing /\ x.opened[1] = f => x.opened[2] = written[f]

Good(x) == HonestIn(x) /\ PhasesIn(x) /\ \A f \in x.quiet : TracedIn(x, f)

GInv == GRTypeOK /\ StoreInv /\ \A r \in Requests : Good(req[r])

\* The hits that become marked as up to date on the way from w to x are.
MarksOK(w, x) ==
    \A f \in Files :
       w.hits[f] # Nothing /\ w.hits[f].stale = Nothing
       /\ x.hits[f] # Nothing /\ x.hits[f].stale = FALSE
          => \/ written[f] # Nothing /\ Second(written[f]) = Second(w.hits[f].text)
             \/ w.hits[f].from = "page" /\ w.hits[f].mtime > w.hits[f].text

GStep == GInv' /\ \A r \in Requests : MarksOK(req[r], req'[r])

LEMMA MarksKept == ASSUME NEW w, NEW x, x.hits = w.hits PROVE MarksOK(w, x)
  BY NothingAssumption DEF MarksOK

LEMMA NoRequestIn == NoRequest \in Progress
  BY DEF NoRequest, Progress, Kinds, NoFiles

LEMMA NoRequestGood == Good(NoRequest) /\ \A w : MarksOK(w, NoRequest)
  <1>1. HonestIn(NoRequest)
    BY DEF NoRequest, HonestIn, NoFiles
  <1>2. PhasesIn(NoRequest)
    BY DEF NoRequest, PhasesIn, Served
  <1>3. NoRequest.quiet = {} /\ NoRequest.hits = NoFiles
    BY DEF NoRequest
  <1> QED
    BY <1>1, <1>2, <1>3 DEF Good, MarksOK, NoFiles

LEMMA GInvInit == GRInit => GInv
  <1> SUFFICES ASSUME GRInit PROVE GInv
    OBVIOUS
  <1>1. \A r \in Requests : req[r] = NoRequest
    BY DEF GRInit
  <1>2. GRTypeOK
    <2>1. req \in [Requests -> Progress]
      BY NoRequestIn DEF GRInit
    <2>2. now \in Times /\ written \in [Files -> Times \cup {Nothing}]
      BY GroundAssumption DEF GRInit, Times
    <2>3. walks \in [Corpora -> [at : {"none", "queued", "running", "files", "failed"},
                                 todo : SUBSET Files, found : SUBSET Files]]
      BY DEF GRInit, NoWalk
    <2> QED
      BY <2>1, <2>2, <2>3 DEF GRTypeOK, GRInit, NoFiles
  <1>3. StoreInv
    BY GroundAssumption DEF GRInit, StoreInv, NoFiles, NoWalk
  <1> QED
    BY <1>1, <1>2, <1>3, NoRequestGood DEF GInv

\* A step that changes one request only.
LEMMA OneRequest ==
    ASSUME GInv, UNCHANGED <<now, written, page, store, walks>>,
           NEW r \in Requests, NEW x \in Progress, req' = [req EXCEPT ![r] = x],
           Good(x), MarksOK(req[r], x)
    PROVE  GStep
  <1>1. req \in [Requests -> Progress]
    BY DEF GInv, GRTypeOK
  <1>2. req' \in [Requests -> Progress] /\ req'[r] = x
        /\ \A s \in Requests : s # r => req'[s] = req[s]
    BY <1>1
  <1>3. /\ now' = now /\ written' = written /\ page' = page /\ fileMap' = fileMap /\ content' = content
        /\ built' = built /\ walks' = walks
    BY DEF store
  <1>4. GRTypeOK'
    BY <1>2, <1>3 DEF GInv, GRTypeOK
  <1>5. StoreInv'
    BY <1>3 DEF GInv, StoreInv, Old
  <1>7. \A s \in Requests : Good(req'[s])
    BY <1>2 DEF GInv
  <1>8. ASSUME NEW s \in Requests PROVE Good(req[s])'
    <2>1. Good(req'[s])
      BY <1>7
    <2> QED
      BY <1>3, <2>1 DEF Good, HonestIn, Old, PhasesIn, TracedIn, AccountedIn
  <1>9. \A s \in Requests : MarksOK(req[s], req'[s])
    BY <1>2, MarksKept
  <1> QED
    BY <1>4, <1>5, <1>8, <1>9 DEF GInv, GStep

-----------------------------------------------------------------------------
(* The steps of a request; w is its progress before, x after the step.     *)

LEMMA RequestAt == ASSUME GInv, NEW r \in Requests PROVE req[r] \in Progress /\ Good(req[r])
  BY DEF GInv, GRTypeOK

\* What accounts for a file goes on to do so.
LEMMA AccountedGrows ==
    ASSUME NEW w, NEW x, NEW f, AccountedIn(w, f),
           w.hits[f] # Nothing => x.hits[f] # Nothing,
           w.blind \subseteq x.blind, w.dropped \subseteq x.dropped, w.warnings \subseteq x.warnings,
           x.kind = w.kind, x.walked = w.walked, x.listed = w.listed
    PROVE  AccountedIn(x, f)
  BY DEF AccountedIn

LEMMA ArriveStep == ASSUME GInv, NEW r \in Requests, Arrive(r) PROVE GStep
  <1> PICK o \in Offers[r] :
        req' = [req EXCEPT ![r].at = "inventory", ![r].kind = o[1], ![r].corpora = o[2],
                           ![r].quiet = {f \in Files : CorpusOf[f] \in o[2] /\ written[f] # Nothing}]
    BY DEF Arrive
  <1> DEFINE w == req[r]
             x == [w EXCEPT !.at = "inventory", !.kind = o[1], !.corpora = o[2],
                            !.quiet = {f \in Files : CorpusOf[f] \in o[2] /\ written[f] # Nothing}]
  <1>1. w \in Progress /\ Good(w)
    BY RequestAt
  <1>2. req' = [req EXCEPT ![r] = x]
    BY DEF GInv, GRTypeOK
  <1>3. w.at = "idle" /\ UNCHANGED <<now, written, page, store, walks>>
    BY DEF Arrive
  <1>4. o[1] \in Kinds /\ o[2] \in SUBSET Corpora
    BY GroundAssumption DEF GroundAssumption
  <1> HIDE DEF w
  <1>5. /\ x \in Progress
        /\ x.at = "inventory" /\ x.corpora = o[2] /\ x.walked = w.walked /\ x.listed = w.listed
        /\ x.searched = w.searched /\ x.scope = w.scope /\ x.queue = w.queue
        /\ x.opened = w.opened /\ x.hits = w.hits
        /\ x.quiet = {f \in Files : CorpusOf[f] \in o[2] /\ written[f] # Nothing}
    BY <1>1, <1>4 DEF Progress
  <1> HIDE DEF x
  <1>6. w.corpora = {} /\ w.queue = {} /\ w.opened = Nothing
        /\ \A c \in Corpora : w.walked[c] = "no" /\ w.listed[c] = "no" /\ w.searched[c] = "no"
    BY <1>1, <1>3 DEF Good, PhasesIn
  <1>7. HonestIn(x)
    BY <1>1, <1>5 DEF Good, HonestIn
  <1>8. PhasesIn(x)
    BY <1>5, <1>6 DEF PhasesIn, Served
  <1>9. \A f \in x.quiet : TracedIn(x, f)
    BY <1>4, <1>5, <1>6 DEF TracedIn
  <1> QED
    BY <1>2, <1>3, <1>5, <1>7, <1>8, <1>9, OneRequest, MarksKept DEF Good, w

LEMMA WalkTimeoutStep ==
    ASSUME GInv, NEW r \in Requests, NEW c \in Corpora, WalkTimeout(r, c) PROVE GStep
  <1> DEFINE w == req[r]
             x == [w EXCEPT !.walked[c] = "timeout"]
  <1>1. w \in Progress /\ Good(w)
    BY RequestAt
  <1>2. req' = [req EXCEPT ![r] = x]
    BY DEF GInv, GRTypeOK, WalkTimeout
  <1>3. w.walked[c] = "waiting" /\ UNCHANGED <<now, written, page, store, walks>>
    BY DEF WalkTimeout
  <1> HIDE DEF w
  <1>5. /\ x \in Progress
        /\ x.at = w.at /\ x.kind = w.kind /\ x.corpora = w.corpora
        /\ x.walked = [w.walked EXCEPT ![c] = "timeout"]
        /\ x.listed = w.listed /\ x.searched = w.searched /\ x.found = w.found
        /\ x.scope = w.scope /\ x.queue = w.queue /\ x.opened = w.opened /\ x.hits = w.hits
        /\ x.warnings = w.warnings /\ x.blind = w.blind /\ x.dropped = w.dropped /\ x.quiet = w.quiet
    BY <1>1 DEF Progress
  <1> HIDE DEF x
  <1>6. w.at \notin Served
    BY <1>1, <1>3 DEF Good, PhasesIn
  <1>7. HonestIn(x)
    BY <1>1, <1>5 DEF Good, HonestIn
  <1>8. PhasesIn(x)
    <2>1. c \in w.corpora
      BY <1>1, <1>3 DEF Good, PhasesIn
    <2>2. \A d \in Corpora : d # c => x.walked[d] = w.walked[d]
      BY <1>1, <1>5 DEF Progress
    <2> QED
      BY <1>1, <1>5, <1>6, <2>1, <2>2 DEF Good, PhasesIn, Served
  <1>9. ASSUME NEW f \in x.quiet PROVE TracedIn(x, f)
    <2>1. TracedIn(w, f) /\ f \in Files
      BY <1>1, <1>5 DEF Good, Progress
    <2>2. CorpusOf[f] \in Corpora
      BY <2>1, GroundAssumption DEF GroundAssumption
    <2>3. x.walked[CorpusOf[f]] \in {"timeout", w.walked[CorpusOf[f]]}
      BY <1>1, <1>5, <2>2 DEF Progress
    <2>4. x.searched[CorpusOf[f]] = "no"
      BY <1>1, <1>5, <1>6, <2>2 DEF Good, PhasesIn, Served, Progress
    <2> QED
      BY <1>5, <1>6, <2>1, <2>3, <2>4 DEF TracedIn
  <1> QED
    BY <1>2, <1>3, <1>5, <1>7, <1>8, <1>9, OneRequest, MarksKept DEF Good, w

LEMMA StartListingStep ==
    ASSUME GInv, NEW r \in Requests, NEW c \in Corpora, StartListing(r, c) PROVE GStep
  <1> DEFINE w == req[r]
             x == [w EXCEPT !.listed[c] = "reading"]
  <1>1. w \in Progress /\ Good(w)
    BY RequestAt
  <1>2. req' = [req EXCEPT ![r] = x]
    BY DEF GInv, GRTypeOK, StartListing
  <1>3. /\ w.at = "inventory" /\ c \in w.corpora /\ w.listed[c] = "no"
        /\ UNCHANGED <<now, written, page, store, walks>>
    BY DEF StartListing, InInventory
  <1> HIDE DEF w
  <1>5. /\ x \in Progress
        /\ x.at = w.at /\ x.kind = w.kind /\ x.corpora = w.corpora
        /\ x.listed = [w.listed EXCEPT ![c] = "reading"]
        /\ x.walked = w.walked /\ x.searched = w.searched /\ x.found = w.found
        /\ x.scope = w.scope /\ x.queue = w.queue /\ x.opened = w.opened /\ x.hits = w.hits
        /\ x.warnings = w.warnings /\ x.blind = w.blind /\ x.dropped = w.dropped /\ x.quiet = w.quiet
    BY <1>1 DEF Progress
  <1> HIDE DEF x
  <1>7. HonestIn(x)
    BY <1>1, <1>5 DEF Good, HonestIn
  <1>8. PhasesIn(x)
    <2>2. \A d \in Corpora : d # c => x.listed[d] = w.listed[d]
      BY <1>1, <1>5 DEF Progress
    <2> QED
      BY <1>1, <1>3, <1>5, <2>2 DEF Good, PhasesIn, Served
  <1>9. ASSUME NEW f \in x.quiet PROVE TracedIn(x, f)
    <2>1. TracedIn(w, f) /\ f \in Files
      BY <1>1, <1>5 DEF Good, Progress
    <2>2. CorpusOf[f] \in Corpora
      BY <2>1, GroundAssumption DEF GroundAssumption
    <2>3. x.listed[CorpusOf[f]] \in {"reading", w.listed[CorpusOf[f]]}
      BY <1>1, <1>5, <2>2 DEF Progress
    <2>4. x.searched[CorpusOf[f]] = "no"
      BY <1>1, <1>3, <1>5, <2>2 DEF Good, PhasesIn
    <2> QED
      BY <1>3, <1>5, <2>1, <2>3, <2>4 DEF TracedIn, Served
  <1> QED
    BY <1>2, <1>3, <1>5, <1>7, <1>8, <1>9, OneRequest, MarksKept DEF Good, w

LEMMA EndListingStep ==
    ASSUME GInv, NEW r \in Requests, NEW c \in Corpora, EndListing(r, c) PROVE GStep
  <1> DEFINE w == req[r]
             known == [w EXCEPT !.listed[c] = "known",
                                !.scope = [f \in Files |-> IF CorpusOf[f] = c THEN fileMap[f]
                                                                              ELSE @[f]]]
             failed == [w EXCEPT !.listed[c] = "failed"]
  <1>1. w \in Progress /\ Good(w)
    BY RequestAt
  <1>2. PICK x \in {known, failed} : req' = [req EXCEPT ![r] = x]
    BY DEF GInv, GRTypeOK, EndListing
  <1>3. w.listed[c] = "reading" /\ UNCHANGED <<now, written, page, store, walks>>
    BY DEF EndListing
  <1>4. fileMap \in [Files -> Rows \cup {Nothing}]
    BY DEF GInv, GRTypeOK
  <1> HIDE DEF w
  <1>5. /\ x \in Progress
        /\ x.at = w.at /\ x.kind = w.kind /\ x.corpora = w.corpora
        /\ x.walked = w.walked /\ x.searched = w.searched /\ x.found = w.found
        /\ x.queue = w.queue /\ x.opened = w.opened /\ x.hits = w.hits
        /\ x.warnings = w.warnings /\ x.blind = w.blind /\ x.dropped = w.dropped /\ x.quiet = w.quiet
        /\ x.listed \in [Corpora -> {"no", "reading", "known", "failed"}]
        /\ \A d \in Corpora : d # c => x.listed[d] = w.listed[d]
        /\ x.listed[c] \in {"known", "failed"}
        /\ \A f \in Files : x.scope[f] = IF CorpusOf[f] = c /\ x.listed[c] = "known"
                                         THEN fileMap[f] ELSE w.scope[f]
    <2>1. CASE x = known
      BY <1>1, <1>4, <2>1 DEF Progress
    <2>2. CASE x = failed
      BY <1>1, <2>2 DEF Progress
    <2> QED
      BY <2>1, <2>2
  <1> HIDE DEF known, failed
  <1>6. w.at \notin Served /\ c \in w.corpora
    BY <1>1, <1>3 DEF Good, PhasesIn
  <1>7. HonestIn(x)
    BY <1>1, <1>5 DEF Good, HonestIn, GInv, StoreInv
  <1>8. PhasesIn(x)
    BY <1>1, <1>5, <1>6 DEF Good, PhasesIn, Served
  <1>9. ASSUME NEW f \in x.quiet PROVE TracedIn(x, f)
    <2>1. TracedIn(w, f) /\ f \in Files
      BY <1>1, <1>5 DEF Good, Progress
    <2>2. CorpusOf[f] \in Corpora
      BY <2>1, GroundAssumption DEF GroundAssumption
    <2>4. x.searched[CorpusOf[f]] = "no"
      BY <1>1, <1>5, <1>6, <2>2 DEF Good, PhasesIn, Served, Progress
    <2>5. x.listed[CorpusOf[f]] = "known" => x.scope[f] = fileMap[f]
      BY <1>5, <2>1, <2>2, <2>4 DEF TracedIn
    <2> QED
      BY <1>5, <1>6, <2>1, <2>4, <2>5 DEF TracedIn, Served
  <1> QED
    BY <1>2, <1>3, <1>5, <1>7, <1>8, <1>9, OneRequest, MarksKept DEF Good, w

\* A request that ends.
LEMMA EndsStep ==
    ASSUME GInv, NEW r \in Requests, req' = [req EXCEPT ![r] = NoRequest],
           UNCHANGED <<now, written, page, store, walks>>
    PROVE  GStep
  BY NoRequestIn, NoRequestGood, OneRequest

LEMMA InventoriedStep == ASSUME GInv, NEW r \in Requests, Inventoried(r) PROVE GStep
  <1> DEFINE w == req[r]
             x == [w EXCEPT !.at = "search", !.warnings = InventoryWarnings(r)]
  <1>1. w \in Progress /\ Good(w)
    BY RequestAt
  <1>2. UNCHANGED <<now, written, page, store, walks>>
    BY DEF Inventoried
  <1>3. \/ req' = [req EXCEPT ![r] = NoRequest]
        \/ req' = [req EXCEPT ![r] = x] /\ w.kind # "stats"
    BY DEF GInv, GRTypeOK, Inventoried
  <1>4. /\ w.at = "inventory"
        /\ \A c \in w.corpora : /\ w.walked[c] \in {"files", "failed", "timeout"}
                                /\ w.listed[c] \in {"known", "failed"}
    BY DEF Inventoried
  <1> DEFINE noted == InventoryWarnings(r)
  <1>5. \A c \in w.corpora : /\ w.walked[c] = "timeout" => <<c, "scan">> \in noted
                             /\ (/\ w.walked[c] = "files" /\ w.listed[c] = "known"
                                 /\ \E f \in w.found : CorpusOf[f] = c /\ w.scope[f] = Nothing)
                                   => <<c, "coverage">> \in noted
    <2>1. w.found \subseteq Files
      BY <1>1 DEF Progress
    <2> QED
      BY <2>1 DEF InventoryWarnings, Counted, Unindexed, Scanned, FilesOf
  <1>6. noted \subseteq Corpora \X {"scan", "coverage", "fallback"}
    <2>1. w.corpora \subseteq Corpora
      BY <1>1 DEF Progress
    <2> QED
      BY <2>1 DEF InventoryWarnings
  <1>7. CASE req' = [req EXCEPT ![r] = NoRequest]
    BY <1>2, <1>7, EndsStep
  <1>8. CASE req' = [req EXCEPT ![r] = x] /\ w.kind # "stats"
    <2> HIDE DEF w, noted
    <2>5. /\ x \in Progress
          /\ x.at = "search" /\ x.kind = w.kind /\ x.corpora = w.corpora /\ x.walked = w.walked
          /\ x.listed = w.listed /\ x.searched = w.searched /\ x.found = w.found
          /\ x.scope = w.scope /\ x.queue = w.queue /\ x.opened = w.opened /\ x.hits = w.hits
          /\ x.warnings = noted /\ x.blind = w.blind /\ x.dropped = w.dropped /\ x.quiet = w.quiet
      BY <1>1, <1>6 DEF Progress, noted
    <2> HIDE DEF x
    <2>7. HonestIn(x)
      BY <1>1, <2>5 DEF Good, HonestIn
    <2>8. PhasesIn(x)
      <3>1. \A c \in Corpora \ w.corpora :
               w.walked[c] = "no" /\ w.listed[c] = "no" /\ w.searched[c] = "no"
        BY <1>1 DEF Good, PhasesIn
      <3>2. \A c \in w.corpora : w.walked[c] = "timeout" => <<c, "scan">> \in noted
        BY <1>5
      <3> QED
        BY <1>4, <1>8, <2>5, <3>1, <3>2 DEF PhasesIn, Served
    <2>9. ASSUME NEW f \in x.quiet PROVE TracedIn(x, f)
      <3>1. TracedIn(w, f) /\ f \in Files
        BY <1>1, <2>5 DEF Good, Progress
      <3>2. CorpusOf[f] \in w.corpora /\ w.corpora \subseteq Corpora
        BY <1>1, <3>1 DEF TracedIn, Progress
      <3>3. w.searched[CorpusOf[f]] = "no"
        BY <1>1, <1>4, <3>2 DEF Good, PhasesIn
      <3>4. w.walked[CorpusOf[f]] # "waiting"
        BY <1>4, <3>2
      <3>5. /\ w.walked[CorpusOf[f]] = "files" => f \in w.found
            /\ w.listed[CorpusOf[f]] = "known" => w.scope[f] = fileMap[f]
        BY <3>1, <3>3 DEF TracedIn
      <3>6. (/\ w.walked[CorpusOf[f]] = "files" /\ w.listed[CorpusOf[f]] = "known"
             /\ fileMap[f] = Nothing) => <<CorpusOf[f], "coverage">> \in noted
        BY <1>5, <3>2, <3>5
      <3> QED
        BY <2>5, <3>1, <3>3, <3>4, <3>6 DEF TracedIn
    <2> QED
      BY <1>2, <1>8, <2>5, <2>7, <2>8, <2>9, OneRequest, MarksKept DEF Good, w
  <1> QED
    BY <1>3, <1>7, <1>8

LEMMA GrepFallbackStep ==
    ASSUME GInv, NEW r \in Requests, NEW c \in Corpora, GrepFallback(r, c) PROVE GStep
  <1> DEFINE w == req[r]
             candidates == w.queue \cap FilesOf(c)
             x(matched, lost, notices) == [w EXCEPT !.searched[c] = "done",
                                                    !.queue = (@ \ candidates) \cup matched,
                                                    !.dropped = @ \cup lost,
                                                    !.warnings = @ \cup notices]
             Left(matched, lost, notices) ==
                /\ req' = [req EXCEPT ![r] = x(matched, lost, notices)]
                /\ \/ <<c, "fallback">> \in notices
                   \/ \A f \in candidates : written[f] # Nothing => f \in matched \cup lost
  <1>1. w \in Progress /\ Good(w)
    BY RequestAt
  <1>2. w.searched[c] = "grep" /\ UNCHANGED <<now, written, page, store, walks>>
    BY DEF GrepFallback
  <1>3. PICK matched \in SUBSET candidates, lost \in SUBSET candidates,
             notices \in SUBSET {<<c, "fallback">>} : Left(matched, lost, notices)
    <2> DEFINE Done(matched, lost, notices) ==
                  req' = [req EXCEPT ![r].searched[c] = "done",
                                     ![r].queue = (@ \ candidates) \cup matched,
                                     ![r].dropped = @ \cup lost,
                                     ![r].warnings = @ \cup notices]
               Present(kept) == {f \in kept : written[f] # Nothing}
    <2>1. ASSUME NEW matched, NEW lost, NEW notices, Done(matched, lost, notices)
          PROVE  req' = [req EXCEPT ![r] = x(matched, lost, notices)]
      BY <2>1 DEF GInv, GRTypeOK
    <2>2. \/ Done({}, {}, {<<c, "fallback">>})
          \/ \E kept \in SUBSET candidates : \E lost \in SUBSET Present(kept) :
               \/ kept = candidates /\ Done(Present(kept) \ lost, lost, {})
               \/ Done(Present(kept) \ lost, lost, {<<c, "fallback">>})
      BY DEF GrepFallback
    <2>3. {} \in SUBSET candidates /\ {} \in SUBSET {<<c, "fallback">>}
          /\ {<<c, "fallback">>} \in SUBSET {<<c, "fallback">>}
      OBVIOUS
    <2> HIDE DEF x, Done, w
    <2>4. CASE Done({}, {}, {<<c, "fallback">>})
      <3>1. Left({}, {}, {<<c, "fallback">>})
        BY <2>1, <2>4
      <3> QED
        BY <2>3, <3>1
    <2>5. ASSUME NEW kept \in SUBSET candidates, NEW lost \in SUBSET Present(kept),
                 kept = candidates, Done(Present(kept) \ lost, lost, {})
          PROVE  Left(Present(kept) \ lost, lost, {})
      BY <2>1, <2>5
    <2>6. ASSUME NEW kept \in SUBSET candidates, NEW lost \in SUBSET Present(kept),
                 Done(Present(kept) \ lost, lost, {<<c, "fallback">>})
          PROVE  Left(Present(kept) \ lost, lost, {<<c, "fallback">>})
      BY <2>1, <2>6
    <2>7. ASSUME NEW kept \in SUBSET candidates, NEW lost \in SUBSET Present(kept)
          PROVE  Present(kept) \ lost \in SUBSET candidates /\ lost \in SUBSET candidates
      OBVIOUS
    <2> HIDE DEF Left, Present, candidates
    <2>8. ASSUME NEW kept \in SUBSET candidates, NEW lost \in SUBSET Present(kept),
                 NEW notices \in SUBSET {<<c, "fallback">>},
                 Left(Present(kept) \ lost, lost, notices)
          PROVE  \E matched \in SUBSET candidates, gone \in SUBSET candidates,
                    noted \in SUBSET {<<c, "fallback">>} : Left(matched, gone, noted)
      <3>1. Present(kept) \ lost \in SUBSET candidates /\ lost \in SUBSET candidates
        BY <2>7
      <3> QED
        BY <2>8, <3>1, Zenon
    <2>9. ASSUME NEW kept \in SUBSET candidates, NEW lost \in SUBSET Present(kept),
                 \/ kept = candidates /\ Done(Present(kept) \ lost, lost, {})
                 \/ Done(Present(kept) \ lost, lost, {<<c, "fallback">>})
          PROVE  \E matched \in SUBSET candidates, gone \in SUBSET candidates,
                    noted \in SUBSET {<<c, "fallback">>} : Left(matched, gone, noted)
      <3>1. CASE kept = candidates /\ Done(Present(kept) \ lost, lost, {})
        <4>1. Left(Present(kept) \ lost, lost, {})
          BY <2>5, <3>1
        <4> QED
          BY <2>3, <2>8, <4>1, Zenon
      <3>2. CASE Done(Present(kept) \ lost, lost, {<<c, "fallback">>})
        <4>1. Left(Present(kept) \ lost, lost, {<<c, "fallback">>})
          BY <2>6, <3>2
        <4> QED
          BY <2>3, <2>8, <4>1, Zenon
      <3> QED
        BY <2>9, <3>1, <3>2
    <2> QED
      BY <2>2, <2>4, <2>9, Zenon
  <1> DEFINE y == x(matched, lost, notices)
  <1>4. /\ candidates = {f \in w.queue : f \in Files /\ CorpusOf[f] = c}
        /\ matched \subseteq Files /\ lost \subseteq Files
        /\ notices \subseteq Corpora \X {"scan", "coverage", "fallback"}
    BY DEF FilesOf
  <1> HIDE DEF w, candidates
  <1>5. /\ y \in Progress
        /\ y.at = w.at /\ y.kind = w.kind /\ y.corpora = w.corpora /\ y.walked = w.walked
        /\ y.listed = w.listed /\ y.found = w.found /\ y.scope = w.scope
        /\ y.searched = [w.searched EXCEPT ![c] = "done"]
        /\ y.queue = (w.queue \ candidates) \cup matched
        /\ y.opened = w.opened /\ y.hits = w.hits
        /\ y.warnings = w.warnings \cup notices /\ y.blind = w.blind
        /\ y.dropped = w.dropped \cup lost /\ y.quiet = w.quiet
    BY <1>1, <1>4 DEF Progress
  <1>6. req' = [req EXCEPT ![r] = y]
    BY <1>3
  <1> HIDE DEF x, y
  <1>7. HonestIn(y)
    BY <1>1, <1>5 DEF Good, HonestIn
  <1>8. PhasesIn(y)
    <2>1. w.at \notin {"idle", "inventory"} /\ c \in w.corpora
      BY <1>1, <1>2 DEF Good, PhasesIn
    <2>2. w.at \notin {"rerank", "mark"}
      BY <1>1, <1>2, <2>1 DEF Good, PhasesIn
    <2>3. \A d \in Corpora : d # c => y.searched[d] = w.searched[d]
      BY <1>1, <1>5 DEF Progress
    <2>4. \A d : <<d, "scan">> \in w.warnings => <<d, "scan">> \in y.warnings
      BY <1>5
    <2> QED
      BY <1>1, <1>5, <2>1, <2>2, <2>3, <2>4 DEF Good, PhasesIn, Served
  <1>9. ASSUME NEW f \in y.quiet PROVE TracedIn(y, f)
    <2> DEFINE d == CorpusOf[f]
    <2>1. TracedIn(w, f) /\ f \in Files /\ written[f] # Nothing
      BY <1>1, <1>5 DEF Good, Progress, TracedIn
    <2>2. d \in Corpora
      BY <2>1, GroundAssumption DEF GroundAssumption
    <2>3. AccountedIn(w, f) => AccountedIn(y, f)
      BY <1>5, AccountedGrows
    <2>4. CASE d = c
      <3>1. w.searched[d] = "grep" /\ y.searched[d] = "done"
        BY <1>1, <1>2, <1>5, <2>4 DEF Progress
      <3>2. AccountedIn(w, f) \/ (f \in w.queue /\ fileMap[f] = Nothing /\ w.kind = "ranked")
        BY <2>1, <3>1 DEF TracedIn
      <3>3. ASSUME f \in w.queue, fileMap[f] = Nothing, w.kind = "ranked"
            PROVE  AccountedIn(y, f) \/ f \in y.queue
        <4>1. CASE <<c, "fallback">> \in notices
          BY <1>5, <2>4, <3>3, <4>1 DEF AccountedIn
        <4>2. CASE \A g \in candidates : written[g] # Nothing => g \in matched \cup lost
          <5>1. f \in matched \cup lost
            BY <1>4, <2>1, <2>4, <3>3, <4>2
          <5> QED
            BY <1>5, <5>1 DEF AccountedIn
        <4> QED
          BY <1>3, <4>1, <4>2
      <3>4. AccountedIn(y, f) \/ f \in y.queue
        BY <2>3, <3>2, <3>3
      <3>5. <<d, "coverage">> \in w.warnings => <<d, "coverage">> \in y.warnings
        BY <1>5
      <3> QED
        BY <1>5, <2>1, <3>1, <3>4, <3>5 DEF TracedIn
    <2>5. CASE d # c
      <3>1. y.searched[d] = w.searched[d]
        BY <1>1, <1>5, <2>2, <2>5 DEF Progress
      <3>2. f \in y.queue <=> f \in w.queue
        BY <1>4, <1>5, <2>5
      <3>5. <<d, "coverage">> \in w.warnings => <<d, "coverage">> \in y.warnings
        BY <1>5
      <3> QED
        BY <1>5, <2>1, <2>3, <3>1, <3>2, <3>5 DEF TracedIn
    <2> QED
      BY <2>4, <2>5
  <1>10. MarksOK(req[r], y)
    BY <1>5, MarksKept DEF w
  <1> QED
    BY <1>2, <1>5, <1>6, <1>7, <1>8, <1>9, <1>10, OneRequest DEF Good

\* A quiet file whose corpus is searched is a hit, a candidate of the
\* fallback or accounted for.
LEMMA SearchedOrHeld ==
    ASSUME GInv, NEW r \in Requests, NEW c \in Corpora, req[r].at = "search",
           c \in req[r].corpora, req[r].searched[c] = "no",
           NEW x, x.hits = [f \in Files |-> IF f \in Retrieved(r, c)
                                            THEN IndexHit(Scope(r, c)[f]) ELSE req[r].hits[f]],
           x.walked = req[r].walked, x.listed = req[r].listed, x.kind = req[r].kind,
           req[r].warnings \subseteq x.warnings,
           req[r].kind = "ranked" /\ req[r].listed[c] = "failed" => <<c, "fallback">> \in x.warnings,
           ~built => c \in x.blind,
           NEW f \in req[r].quiet, CorpusOf[f] = c
    PROVE  \/ AccountedIn(x, f)
           \/ f \in unindexed_candidates(r, c) /\ fileMap[f] = Nothing /\ req[r].kind = "ranked"
  <1> DEFINE w == req[r]
  <1>1. w \in Progress /\ Good(w)
    BY RequestAt
  <1>2. f \in Files /\ TracedIn(w, f) /\ f \in FilesOf(c)
    BY <1>1 DEF Good, Progress, FilesOf
  <1>3. /\ w.walked[c] \in {"files", "failed", "timeout"} /\ w.listed[c] \in {"known", "failed"}
        /\ w.walked[c] = "timeout" => <<c, "scan">> \in w.warnings
        /\ w.kind \in {"ranked", "phrase"}
    BY <1>1 DEF Good, PhasesIn, Served, Progress, Kinds
  <1>4. /\ w.walked[c] = "files" => f \in w.found
        /\ w.listed[c] = "known" => w.scope[f] = fileMap[f]
        /\ w.walked[c] = "files" /\ w.listed[c] = "known" /\ fileMap[f] = Nothing
             => <<c, "coverage">> \in w.warnings
    BY <1>2 DEF TracedIn, Served
  <1>5. CASE fileMap[f] # Nothing
    <2>1. Scope(r, c)[f] = fileMap[f]
      BY <1>4 DEF Scope
    <2>2. fileMap[f].key \in content /\ fileMap[f] \in Rows
      BY <1>2, <1>5 DEF GInv, StoreInv, GRTypeOK
    <2>3. CASE built
      <3>1. f \in Retrieved(r, c)
        BY <1>2, <1>5, <2>1, <2>2, <2>3 DEF Retrieved
      <3>2. x.hits[f] = IndexHit(fileMap[f])
        BY <1>2, <2>1, <3>1
      <3>3. IndexHit(fileMap[f]) \in Hits
        BY <2>2 DEF IndexHit, Hits, Rows
      <3> QED
        BY <3>2, <3>3, NothingAssumption DEF AccountedIn
    <2>4. CASE ~built
      BY <1>5, <2>4 DEF AccountedIn
    <2> QED
      BY <2>3, <2>4
  <1>6. CASE fileMap[f] = Nothing
    <2>1. CASE w.walked[c] # "files"
      BY <1>3, <1>6, <2>1 DEF AccountedIn
    <2>2. CASE w.walked[c] = "files" /\ w.listed[c] = "failed"
      BY <1>3, <1>6, <2>2 DEF AccountedIn
    <2>3. CASE w.walked[c] = "files" /\ w.listed[c] = "known" /\ w.kind = "phrase"
      BY <1>4, <1>6, <2>3 DEF AccountedIn
    <2>4. CASE w.walked[c] = "files" /\ w.listed[c] = "known" /\ w.kind = "ranked"
      <3>1. f \in Scanned(r, c) /\ w.scope[f] = Nothing
        BY <1>2, <1>4, <1>6, <2>4 DEF Scanned
      <3>2. f \in Unindexed(r, c)
        BY <3>1 DEF Unindexed
      <3>3. f \in eligible(r, c)
        BY <2>4, <3>1, <3>2 DEF eligible
      <3> QED
        BY <1>6, <2>4, <3>1, <3>3 DEF unindexed_candidates
    <2> QED
      BY <1>3, <2>1, <2>2, <2>3, <2>4
  <1> QED
    BY <1>5, <1>6

LEMMA RetrieveSignalsStep ==
    ASSUME GInv, NEW r \in Requests, NEW c \in Corpora, RetrieveSignals(r, c) PROVE GStep
  <1> DEFINE w == req[r]
             candidates == unindexed_candidates(r, c)
             next == IF candidates = {} THEN "done" ELSE "grep"
             hits == [f \in Files |-> IF f \in Retrieved(r, c)
                                      THEN IndexHit(Scope(r, c)[f]) ELSE w.hits[f]]
             noted == IF w.kind = "ranked" /\ w.listed[c] = "failed"
                      THEN w.warnings \cup {<<c, "fallback">>} ELSE w.warnings
             blind == IF built THEN w.blind ELSE w.blind \cup {c}
             searched == [w.searched EXCEPT ![c] = next]
             queue == w.queue \cup candidates
             found == w.found \ FilesOf(c)
             scope == [f \in Files |-> IF f \in FilesOf(c) THEN Nothing ELSE w.scope[f]]
             x == [w EXCEPT !.searched = searched, !.queue = queue, !.found = found,
                            !.scope = scope, !.hits = hits, !.warnings = noted, !.blind = blind]
  <1>1. w \in Progress /\ Good(w)
    BY RequestAt
  <1>2. /\ w.at = "search" /\ c \in w.corpora /\ w.searched[c] = "no"
        /\ UNCHANGED <<now, written, page, store, walks>>
    BY DEF RetrieveSignals
  <1>3. req' = [req EXCEPT ![r] = NoRequest] \/ req' = [req EXCEPT ![r] = x]
    BY DEF GInv, GRTypeOK, RetrieveSignals
  <1>4. ASSUME NEW f \in Files, f \in Retrieved(r, c)
        PROVE  /\ IndexHit(Scope(r, c)[f]) \in Hits
               /\ IndexHit(Scope(r, c)[f]).stale = Nothing
               /\ Old(f, IndexHit(Scope(r, c)[f]).text, IndexHit(Scope(r, c)[f]).mtime,
                      IndexHit(Scope(r, c)[f]).from)
    <2> DEFINE row == Scope(r, c)[f]
    <2>1. row \in {w.scope[f], fileMap[f]} /\ row # Nothing
      BY <1>4 DEF Scope, Retrieved
    <2>2. row \in Rows
      BY <1>1, <2>1 DEF GInv, GRTypeOK, Progress
    <2>3. Old(f, row.key, row.mtime, row.by)
      BY <1>1, <2>1 DEF Good, HonestIn, GInv, StoreInv
    <2> QED
      BY <2>2, <2>3 DEF IndexHit, Hits, Rows
  <1>5. /\ candidates \subseteq FilesOf(c) /\ FilesOf(c) \subseteq Files
        /\ hits \in [Files -> Hits \cup {Nothing}]
    <2>1. FilesOf(c) \subseteq Files
      BY DEF FilesOf
    <2>2. candidates \subseteq FilesOf(c)
      BY DEF unindexed_candidates, eligible, Scanned
    <2>3. w.hits \in [Files -> Hits \cup {Nothing}]
      BY <1>1 DEF Progress
    <2>4. hits \in [Files -> Hits \cup {Nothing}]
      BY <1>4, <2>3
    <2> QED
      BY <2>1, <2>2, <2>4
  <1>6. /\ noted \subseteq Corpora \X {"scan", "coverage", "fallback"}
        /\ blind \subseteq Corpora /\ w.warnings \subseteq noted /\ w.blind \subseteq blind
        /\ searched \in [Corpora -> {"no", "grep", "done"}]
        /\ scope \in [Files -> Rows \cup {Nothing}]
        /\ queue \subseteq Files /\ found \subseteq Files
    BY <1>1, <1>5 DEF Progress
  <1>7. CASE req' = [req EXCEPT ![r] = NoRequest]
    BY <1>2, <1>7, EndsStep
  <1>8. CASE req' = [req EXCEPT ![r] = x]
    <2>0. /\ next \in {"done", "grep"} /\ (next = "done" => candidates = {})
          /\ ~built => c \in blind
          /\ w.kind = "ranked" /\ w.listed[c] = "failed" => <<c, "fallback">> \in noted
      OBVIOUS
    <2>1. hits = [f \in Files |-> IF f \in Retrieved(r, c)
                                  THEN IndexHit(Scope(r, c)[f]) ELSE w.hits[f]]
      OBVIOUS
    <2> HIDE DEF w, candidates, next, hits, noted, blind, searched, queue, found, scope
    <2>2. /\ x \in Progress
          /\ x.at = w.at /\ x.kind = w.kind /\ x.corpora = w.corpora /\ x.walked = w.walked
          /\ x.listed = w.listed /\ x.found = found /\ x.searched = searched
          /\ x.queue = queue /\ x.scope = scope /\ x.opened = w.opened /\ x.hits = hits
          /\ x.warnings = noted /\ x.blind = blind /\ x.dropped = w.dropped /\ x.quiet = w.quiet
      BY <1>1, <1>5, <1>6 DEF Progress
    <2> HIDE DEF x
    <2> USE DEF searched, queue, found, scope
    <2>3. HonestIn(x)
      <3>1. \A f \in Files : x.scope[f] # Nothing => x.scope[f] = w.scope[f]
        BY <2>2
      <3>2. \A f \in Files : x.hits[f] # Nothing => Old(f, x.hits[f].text, x.hits[f].mtime, x.hits[f].from)
        BY <1>1, <1>4, <2>1, <2>2 DEF Good, HonestIn
      <3> QED
        BY <1>1, <2>2, <3>1, <3>2 DEF Good, HonestIn
    <2>4. PhasesIn(x)
      <3>1. \A d \in Corpora : d # c => x.searched[d] = w.searched[d]
        BY <1>1, <2>2 DEF Progress
      <3>2. \A d : <<d, "scan">> \in w.warnings => <<d, "scan">> \in x.warnings
        BY <1>6, <2>2
      <3> QED
        BY <1>1, <1>2, <2>2, <3>1, <3>2 DEF Good, PhasesIn, Served
    <2>5. ASSUME NEW f \in x.quiet PROVE TracedIn(x, f)
      <3> DEFINE d == CorpusOf[f]
      <3>1. TracedIn(w, f) /\ f \in Files
        BY <1>1, <2>2 DEF Good, Progress
      <3>2. d \in Corpora
        BY <3>1, GroundAssumption DEF GroundAssumption
      <3>3. <<d, "coverage">> \in w.warnings => <<d, "coverage">> \in x.warnings
        BY <1>6, <2>2
      <3>4. CASE d = c
        <4>1. x.searched[d] = next
          BY <1>1, <2>2, <3>4 DEF Progress
        <4>2. \/ AccountedIn(x, f)
              \/ f \in candidates /\ fileMap[f] = Nothing /\ w.kind = "ranked"
          BY <1>2, <1>6, <2>0, <2>1, <2>2, <3>4, SearchedOrHeld DEF w, candidates
        <4>3. \/ AccountedIn(x, f)
              \/ next # "done" /\ f \in x.queue /\ fileMap[f] = Nothing /\ x.kind = "ranked"
          BY <2>0, <2>2, <4>2
        <4>4. x.searched[d] \in {"done", "grep"} /\ (x.searched[d] = "done" => next = "done")
          BY <2>0, <4>1
        <4>5. /\ written[f] # Nothing /\ d \in x.corpora
              /\ x.walked[d] = "waiting" /\ walks[d].at \in {"running", "files"}
                   => f \in walks[d].todo \cup walks[d].found
              /\ (/\ x.at \in Served /\ x.walked[d] = "files" /\ x.listed[d] = "known"
                  /\ fileMap[f] = Nothing) => <<d, "coverage">> \in x.warnings
              /\ x.opened # Nothing /\ x.opened[1] = f => x.opened[2] = written[f]
          BY <2>2, <3>1, <3>3 DEF TracedIn
        <4> QED
          BY <4>3, <4>4, <4>5 DEF TracedIn
      <3>5. CASE d # c
        <4>1. x.searched[d] = w.searched[d]
          BY <1>1, <2>2, <3>2, <3>5 DEF Progress
        <4>2. f \notin FilesOf(c)
          BY <3>5 DEF FilesOf
        <4>3. x.hits[f] = w.hits[f]
          <5>1. f \notin Retrieved(r, c)
            BY <4>2 DEF Retrieved
          <5> QED
            BY <2>1, <2>2, <3>1, <5>1
        <4>4. AccountedIn(w, f) => AccountedIn(x, f)
          BY <1>6, <2>2, <4>3, AccountedGrows
        <4>5. /\ f \in x.found <=> f \in w.found
              /\ f \in x.queue <=> f \in w.queue
              /\ x.scope[f] = w.scope[f]
          BY <1>5, <2>2, <3>1, <4>2
        <4> QED
          BY <2>2, <3>1, <3>3, <4>1, <4>4, <4>5 DEF TracedIn
      <3> QED
        BY <3>4, <3>5
    <2>6. MarksOK(w, x)
      <3>1. \A f \in Files : x.hits[f] = w.hits[f] \/ x.hits[f].stale = Nothing
        BY <1>4, <2>1, <2>2
      <3> QED
        BY <3>1, NothingAssumption DEF MarksOK
    <2> QED
      BY <1>2, <1>8, <2>2, <2>3, <2>4, <2>5, <2>6, OneRequest DEF Good, w
  <1> QED
    BY <1>3, <1>7, <1>8

LEMMA OpenWindowStep ==
    ASSUME GInv, NEW r \in Requests, NEW g \in Files, OpenWindow(r, g) PROVE GStep
  <1> DEFINE w == req[r]
             seen == IF written[g] = Nothing THEN Nothing ELSE <<g, written[g]>>
             x == [w EXCEPT !.queue = @ \ {g}, !.opened = seen]
  <1>1. w \in Progress /\ Good(w)
    BY RequestAt
  <1>2. /\ g \in w.queue /\ w.searched[CorpusOf[g]] = "done" /\ w.opened = Nothing
        /\ UNCHANGED <<now, written, page, store, walks>>
    BY DEF OpenWindow
  <1>3. req' = [req EXCEPT ![r] = x]
    BY DEF GInv, GRTypeOK, OpenWindow
  <1>4. /\ seen \in (Files \X Times) \cup {Nothing}
        /\ seen # Nothing => seen[1] = g /\ seen[2] = written[g] /\ Old(g, written[g], written[g], "grep")
        /\ written[g] # Nothing => seen # Nothing
    <2>1. written[g] \in Times \cup {Nothing} /\ (written[g] # Nothing => written[g] <= now)
      BY DEF GInv, GRTypeOK, StoreInv
    <2>2. CASE written[g] = Nothing
      BY <2>2
    <2>3. CASE written[g] # Nothing
      <3>1. seen = <<g, written[g]>> /\ seen \in Files \X Times /\ written[g] \in Int
        BY <2>1, <2>3 DEF Times
      <3> HIDE DEF seen
      <3>2. seen # Nothing
        BY <3>1, NothingAssumption
      <3>3. Old(g, written[g], written[g], "grep")
        BY <2>1, <2>3, <3>1 DEF Old
      <3> QED
        BY <3>1, <3>2, <3>3
    <2> QED
      BY <2>2, <2>3
  <1> HIDE DEF w, seen
  <1>5. /\ x \in Progress
        /\ x.at = w.at /\ x.kind = w.kind /\ x.corpora = w.corpora /\ x.walked = w.walked
        /\ x.listed = w.listed /\ x.searched = w.searched /\ x.found = w.found
        /\ x.scope = w.scope /\ x.queue = w.queue \ {g} /\ x.opened = seen /\ x.hits = w.hits
        /\ x.warnings = w.warnings /\ x.blind = w.blind /\ x.dropped = w.dropped /\ x.quiet = w.quiet
    BY <1>1, <1>4 DEF Progress
  <1> HIDE DEF x
  <1>6. w.at = "search"
    <2>1. w.at \notin {"idle", "inventory"} /\ w.at \notin {"rerank", "mark"}
      BY <1>1, <1>2 DEF Good, PhasesIn
    <2> QED
      BY <1>1, <2>1 DEF Progress
  <1>7. HonestIn(x)
    BY <1>1, <1>4, <1>5 DEF Good, HonestIn
  <1>8. PhasesIn(x)
    BY <1>1, <1>5, <1>6 DEF Good, PhasesIn, Served
  <1>9. ASSUME NEW f \in x.quiet PROVE TracedIn(x, f)
    <2>1. TracedIn(w, f) /\ f \in Files /\ written[f] # Nothing
      BY <1>1, <1>5 DEF Good, Progress, TracedIn
    <2>2. AccountedIn(x, f) <=> AccountedIn(w, f)
      BY <1>5 DEF AccountedIn
    <2>3. CASE f = g
      BY <1>2, <1>4, <1>5, <2>1, <2>2, <2>3 DEF TracedIn
    <2>4. CASE f # g
      BY <1>2, <1>4, <1>5, <2>1, <2>2, <2>4 DEF TracedIn
    <2> QED
      BY <2>3, <2>4
  <1> QED
    BY <1>2, <1>3, <1>5, <1>7, <1>8, <1>9, OneRequest, MarksKept DEF Good, w

LEMMA ReadWindowStep == ASSUME GInv, NEW r \in Requests, ReadWindow(r) PROVE GStep
  <1> DEFINE w == req[r]
             g == w.opened[1]
             t == w.opened[2]
  <1>1. w \in Progress /\ Good(w) /\ w.opened # Nothing
    BY RequestAt DEF ReadWindow
  <1>2. g \in Files /\ t \in Times /\ Old(g, t, t, "grep")
    BY <1>1 DEF Progress, Good, HonestIn
  <1>3. PICK h \in Windows(t, written[g]) \cup {Nothing} :
           req' = [req EXCEPT ![r].hits[g] = h, ![r].opened = Nothing,
                              ![r].dropped = IF h = Nothing THEN @ \cup {g} ELSE @]
    BY DEF ReadWindow
  <1>4. UNCHANGED <<now, written, page, store, walks>>
    BY DEF ReadWindow
  <1> DEFINE x == [w EXCEPT !.hits[g] = h, !.opened = Nothing,
                            !.dropped = IF h = Nothing THEN @ \cup {g} ELSE @]
  <1>5. req' = [req EXCEPT ![r] = x]
    BY <1>3 DEF GInv, GRTypeOK
  <1>6. h = Nothing \/ (h \in Hits /\ h.stale = Nothing /\ Old(g, h.text, h.mtime, h.from))
    <2>1. written[g] \in Times \cup {Nothing} /\ (written[g] # Nothing => written[g] <= now)
      BY <1>2 DEF GInv, GRTypeOK, StoreInv
    <2>2. ASSUME h \in Windows(t, written[g])
          PROVE  h \in Hits /\ h.stale = Nothing /\ Old(g, h.text, h.mtime, h.from)
      <3>1. PICK v \in {t, written[g]} \ {Nothing} :
               h = [text |-> v, mtime |-> t, from |-> "grep", stale |-> Nothing]
        BY <2>2 DEF Windows
      <3>2. /\ v \in Times /\ h \in Hits /\ h.text = v /\ h.mtime = t /\ h.stale = Nothing
            /\ h.from = "grep"
        BY <1>2, <2>1, <3>1 DEF Hits
      <3>3. Old(g, v, t, "grep")
        BY <1>2, <2>1, <3>1 DEF Old, Times
      <3> QED
        BY <3>2, <3>3
    <2>3. h \in Hits => h # Nothing
      BY NothingAssumption
    <2> QED
      BY <1>3, <2>2, <2>3
  <1> HIDE DEF w, g, t
  <1>7. /\ x \in Progress
        /\ x.at = w.at /\ x.kind = w.kind /\ x.corpora = w.corpora /\ x.walked = w.walked
        /\ x.listed = w.listed /\ x.searched = w.searched /\ x.found = w.found
        /\ x.scope = w.scope /\ x.queue = w.queue /\ x.opened = Nothing
        /\ x.hits = [w.hits EXCEPT ![g] = h]
        /\ x.warnings = w.warnings /\ x.blind = w.blind /\ x.quiet = w.quiet
        /\ x.dropped = IF h = Nothing THEN w.dropped \cup {g} ELSE w.dropped
    BY <1>1, <1>2, <1>6 DEF Progress
  <1> HIDE DEF x
  <1>8. /\ x.hits[g] = h
        /\ \A f \in Files : f # g => x.hits[f] = w.hits[f]
    BY <1>1, <1>2, <1>7 DEF Progress
  <1>9. HonestIn(x)
    BY <1>1, <1>6, <1>7, <1>8 DEF Good, HonestIn
  <1>10. PhasesIn(x)
    BY <1>1, <1>7 DEF Good, PhasesIn
  <1>11. ASSUME NEW f \in x.quiet PROVE TracedIn(x, f)
    <2>1. TracedIn(w, f) /\ f \in Files
      BY <1>1, <1>7 DEF Good, Progress
    <2>2. CASE f = g
      <3>1. x.hits[f] # Nothing \/ f \in x.dropped
        BY <1>7, <1>8, <2>2
      <3>2. AccountedIn(x, f)
        BY <3>1 DEF AccountedIn
      <3> QED
        BY <1>7, <2>1, <3>2 DEF TracedIn
    <2>3. CASE f # g
      <3>1. AccountedIn(w, f) => AccountedIn(x, f)
        BY <1>7, <1>8, <2>1, <2>3, AccountedGrows
      <3>2. w.opened[1] # f
        BY <2>3 DEF g
      <3> QED
        BY <1>7, <2>1, <3>1, <3>2 DEF TracedIn
    <2> QED
      BY <2>2, <2>3
  <1>12. MarksOK(w, x)
    <2>1. \A f \in Files : x.hits[f] # Nothing => x.hits[f] = w.hits[f] \/ x.hits[f].stale = Nothing
      BY <1>6, <1>8
    <2> QED
      BY <2>1, NothingAssumption DEF MarksOK
  <1> QED
    BY <1>4, <1>5, <1>7, <1>9, <1>10, <1>11, <1>12, OneRequest DEF Good, w

\* A phase ends when every corpus is searched and no match is left to read.
LEMMA PhaseStep ==
    ASSUME GInv, NEW r \in Requests, NEW next \in {"rerank", "mark"},
           req' = [req EXCEPT ![r].at = next], UNCHANGED <<now, written, page, store, walks>>,
           \/ Searched(r)
           \/ req[r].at = "rerank"
    PROVE  GStep
  <1> DEFINE w == req[r]
             x == [w EXCEPT !.at = next]
  <1>1. w \in Progress /\ Good(w)
    BY RequestAt
  <1>2. req' = [req EXCEPT ![r] = x]
    BY DEF GInv, GRTypeOK
  <1>3. /\ w.at \in Served /\ w.queue = {} /\ w.opened = Nothing
        /\ \A c \in w.corpora : w.searched[c] = "done"
    BY <1>1 DEF Searched, Good, PhasesIn, Served
  <1> HIDE DEF w
  <1>4. /\ x \in Progress
        /\ x.at = next /\ x.kind = w.kind /\ x.corpora = w.corpora /\ x.walked = w.walked
        /\ x.listed = w.listed /\ x.searched = w.searched /\ x.found = w.found
        /\ x.scope = w.scope /\ x.queue = w.queue /\ x.opened = w.opened /\ x.hits = w.hits
        /\ x.warnings = w.warnings /\ x.blind = w.blind /\ x.dropped = w.dropped /\ x.quiet = w.quiet
    BY <1>1 DEF Progress
  <1> HIDE DEF x
  <1>5. HonestIn(x)
    BY <1>1, <1>4 DEF Good, HonestIn
  <1>6. PhasesIn(x)
    BY <1>1, <1>3, <1>4 DEF Good, PhasesIn, Served
  <1>7. ASSUME NEW f \in x.quiet PROVE TracedIn(x, f)
    <2>1. TracedIn(w, f)
      BY <1>1, <1>4 DEF Good
    <2>2. AccountedIn(x, f) <=> AccountedIn(w, f)
      BY <1>4 DEF AccountedIn
    <2> QED
      BY <1>3, <1>4, <2>1, <2>2 DEF TracedIn
  <1> QED
    BY <1>2, <1>4, <1>5, <1>6, <1>7, OneRequest, MarksKept DEF Good, w

\* Hits of old are marked, each truthfully or as stale.
Marked(old, hits) ==
    \A f \in Files :
       \/ hits[f] = old[f]
       \/ /\ old[f] # Nothing /\ hits[f] # Nothing
          /\ hits[f].text = old[f].text /\ hits[f].mtime = old[f].mtime
          /\ hits[f].from = old[f].from
          /\ hits[f].stale = FALSE
               => \/ written[f] # Nothing /\ Second(written[f]) = Second(old[f].text)
                  \/ old[f].from = "page" /\ old[f].mtime > old[f].text

\* A step of the marking.
LEMMA MarkStep ==
    ASSUME GInv, NEW r \in Requests, UNCHANGED <<now, written, page, store, walks>>,
           NEW hits \in [Files -> Hits \cup {Nothing}],
           req' = [req EXCEPT ![r] = [req[r] EXCEPT !.hits = hits]],
           Marked(req[r].hits, hits)
    PROVE  GStep
  <1> DEFINE w == req[r]
             x == [w EXCEPT !.hits = hits]
  <1>1. w \in Progress /\ Good(w)
    BY RequestAt
  <1> HIDE DEF w
  <1>2. /\ x \in Progress
        /\ x.at = w.at /\ x.kind = w.kind /\ x.corpora = w.corpora /\ x.walked = w.walked
        /\ x.listed = w.listed /\ x.searched = w.searched /\ x.found = w.found
        /\ x.scope = w.scope /\ x.queue = w.queue /\ x.opened = w.opened /\ x.hits = hits
        /\ x.warnings = w.warnings /\ x.blind = w.blind /\ x.dropped = w.dropped /\ x.quiet = w.quiet
    BY <1>1 DEF Progress
  <1>3. req' = [req EXCEPT ![r] = x]
    BY DEF w
  <1> HIDE DEF x
  <1>4. HonestIn(x)
    BY <1>1, <1>2 DEF Good, HonestIn, Marked, w
  <1>5. PhasesIn(x)
    BY <1>1, <1>2 DEF Good, PhasesIn
  <1>6. ASSUME NEW f \in x.quiet PROVE TracedIn(x, f)
    <2>1. TracedIn(w, f) /\ f \in Files
      BY <1>1, <1>2 DEF Good, Progress
    <2>2. w.hits[f] # Nothing => x.hits[f] # Nothing
      BY <1>2, <2>1 DEF Marked, w
    <2>3. AccountedIn(w, f) => AccountedIn(x, f)
      BY <1>2, <2>2, AccountedGrows
    <2> QED
      BY <1>2, <2>1, <2>3 DEF TracedIn
  <1>7. MarksOK(w, x)
    BY <1>2, NothingAssumption DEF MarksOK, Marked, w
  <1> QED
    BY <1>2, <1>3, <1>4, <1>5, <1>6, <1>7, OneRequest DEF Good, w

\* Seconds are monotonic, so a file that is not a second newer than the mtime
\* of a hit still holds its text, up to writes within that second.
LEMMA SecondTruth ==
    ASSUME NEW m \in Nat, NEW t \in Nat, NEW v \in Nat, m <= t, t <= v, ~(Second(v) > Second(m))
    PROVE  Second(v) = Second(t)
  BY DEF Second

LEMMA MarkFileStep ==
    ASSUME GInv, NEW r \in Requests, NEW g \in Files, MarkFile(r, g) PROVE GStep
  <1> DEFINE w == req[r]
             stale == written[g] = Nothing \/ Second(written[g]) > Second(w.hits[g].mtime)
             hits == [w.hits EXCEPT ![g].stale = stale]
  <1>1. w \in Progress /\ Good(w)
    BY RequestAt
  <1>2. w.hits[g] # Nothing /\ UNCHANGED <<now, written, page, store, walks>>
    BY DEF MarkFile
  <1>3. w.hits \in [Files -> Hits \cup {Nothing}] /\ w.hits[g] \in Hits
    BY <1>1, <1>2 DEF Progress
  <1>4. req' = [req EXCEPT ![r].hits[g].stale = stale]
    BY DEF MarkFile
  <1>5. stale \in BOOLEAN
    OBVIOUS
  <1>6. ~stale => \/ written[g] # Nothing /\ Second(written[g]) = Second(w.hits[g].text)
                  \/ w.hits[g].from = "page" /\ w.hits[g].mtime > w.hits[g].text
    <2> SUFFICES ASSUME ~stale, ~(w.hits[g].from = "page" /\ w.hits[g].mtime > w.hits[g].text)
                 PROVE  Second(written[g]) = Second(w.hits[g].text)
      OBVIOUS
    <2>1. Old(g, w.hits[g].text, w.hits[g].mtime, w.hits[g].from)
      BY <1>1, <1>2 DEF Good, HonestIn
    <2>2. written[g] \in Nat /\ w.hits[g].text \in Nat /\ w.hits[g].mtime \in Nat
      BY <1>3 DEF GInv, GRTypeOK, Times, Hits
    <2>3. w.hits[g].mtime <= w.hits[g].text /\ w.hits[g].text <= written[g]
      BY <2>1, <2>2 DEF Old
    <2> QED
      BY <2>2, <2>3, SecondTruth
  <1> HIDE DEF stale
  <1>7. req' = [req EXCEPT ![r] = [w EXCEPT !.hits = hits]]
    BY <1>4 DEF GInv, GRTypeOK
  <1>8. /\ hits \in [Files -> Hits \cup {Nothing}] /\ hits[g] \in Hits
        /\ hits[g].text = w.hits[g].text /\ hits[g].mtime = w.hits[g].mtime
        /\ hits[g].from = w.hits[g].from /\ hits[g].stale = stale
        /\ \A f \in Files : f # g => hits[f] = w.hits[f]
    BY <1>3, <1>5 DEF Hits
  <1>9. hits[g] # Nothing
    BY <1>8, NothingAssumption
  <1> HIDE DEF hits
  <1>10. Marked(w.hits, hits)
    BY <1>2, <1>5, <1>6, <1>8, <1>9 DEF Marked
  <1> QED
    BY <1>2, <1>7, <1>8, <1>10, MarkStep

LEMMA MarkAllStep == ASSUME GInv, NEW r \in Requests, MarkAll(r) PROVE GStep
  <1> DEFINE w == req[r]
             hits == [f \in Files |-> IF w.hits[f] = Nothing THEN Nothing
                                      ELSE [w.hits[f] EXCEPT !.stale = TRUE]]
  <1>1. w \in Progress
    BY RequestAt
  <1>2. UNCHANGED <<now, written, page, store, walks>>
    BY DEF MarkAll
  <1>3. req' = [req EXCEPT ![r] = [w EXCEPT !.hits = hits]]
    BY DEF MarkAll, GInv, GRTypeOK
  <1>4. \A f \in Files : w.hits[f] \in Hits \cup {Nothing}
    BY <1>1 DEF Progress
  <1>5. \A f \in Files : w.hits[f] # Nothing =>
           /\ hits[f] \in Hits /\ hits[f].text = w.hits[f].text
           /\ hits[f].mtime = w.hits[f].mtime /\ hits[f].from = w.hits[f].from
           /\ hits[f].stale = TRUE
    BY <1>4 DEF Hits
  <1>6. /\ hits \in [Files -> Hits \cup {Nothing}]
        /\ \A f \in Files : w.hits[f] = Nothing => hits[f] = w.hits[f]
    BY <1>5
  <1> HIDE DEF hits
  <1>7. \A f \in Files : w.hits[f] # Nothing => hits[f] # Nothing
    BY <1>5, NothingAssumption
  <1>8. Marked(w.hits, hits)
    BY <1>5, <1>6, <1>7 DEF Marked
  <1> QED
    BY <1>2, <1>3, <1>6, <1>8, MarkStep

-----------------------------------------------------------------------------
(* Files, store and walks.                                                 *)

WalkStates == [at : {"none", "queued", "running", "files", "failed"},
               todo : SUBSET Files, found : SUBSET Files]

\* A file is written or reindexed: it is quiet for no request any more.
LEMMA TouchedStep ==
    ASSUME GInv, NEW g \in Files, Touched(g), walks' = walks, StoreInv',
           page' \in [Files -> Times \cup {Nothing}],
           now' \in Times, written' \in [Files -> Times \cup {Nothing}],
           fileMap' \in [Files -> Rows \cup {Nothing}], content' \in SUBSET Times, built' = built,
           now <= now', written'[g] \in {written[g], now', Nothing},
           \A f \in Files : f # g => written'[f] = written[f] /\ fileMap'[f] = fileMap[f]
    PROVE  GStep
  <1>1. ASSUME NEW s \in Requests
        PROVE  LET w == req[s]
                   x == req'[s]
               IN  /\ w \in Progress /\ x \in Progress /\ x.quiet = w.quiet \ {g}
                   /\ x.at = w.at /\ x.kind = w.kind /\ x.corpora = w.corpora
                   /\ x.walked = w.walked /\ x.listed = w.listed /\ x.searched = w.searched
                   /\ x.found = w.found /\ x.scope = w.scope /\ x.queue = w.queue
                   /\ x.opened = w.opened /\ x.hits = w.hits
                   /\ x.warnings = w.warnings /\ x.blind = w.blind /\ x.dropped = w.dropped
    <2> DEFINE w == req[s]
    <2>1. w \in Progress
      BY DEF GInv, GRTypeOK
    <2>2. req'[s] = [w EXCEPT !.quiet = @ \ {g}]
      BY DEF Touched
    <2> HIDE DEF w
    <2> DEFINE x == [w EXCEPT !.quiet = @ \ {g}]
    <2>3. /\ x \in Progress /\ x.quiet = w.quiet \ {g}
          /\ x.at = w.at /\ x.kind = w.kind /\ x.corpora = w.corpora
          /\ x.walked = w.walked /\ x.listed = w.listed /\ x.searched = w.searched
          /\ x.found = w.found /\ x.scope = w.scope /\ x.queue = w.queue
          /\ x.opened = w.opened /\ x.hits = w.hits
          /\ x.warnings = w.warnings /\ x.blind = w.blind /\ x.dropped = w.dropped
      BY <2>1 DEF Progress
    <2>4. req'[s] = x
      BY <2>2
    <2> HIDE DEF x
    <2> QED
      BY <2>1, <2>3, <2>4 DEF w
  <1>2. req' \in [Requests -> Progress]
    BY <1>1 DEF Touched
  <1>3. GRTypeOK'
    BY <1>2 DEF GInv, GRTypeOK
  <1>4. ASSUME NEW s \in Requests PROVE Good(req[s])'
    <2> DEFINE w == req[s]
               x == req'[s]
    <2>1. /\ w \in Progress /\ x \in Progress /\ x.quiet = w.quiet \ {g}
          /\ x.at = w.at /\ x.kind = w.kind /\ x.corpora = w.corpora
          /\ x.walked = w.walked /\ x.listed = w.listed /\ x.searched = w.searched
          /\ x.found = w.found /\ x.scope = w.scope /\ x.queue = w.queue
          /\ x.opened = w.opened /\ x.hits = w.hits
          /\ x.warnings = w.warnings /\ x.blind = w.blind /\ x.dropped = w.dropped
      BY <1>1
    <2>2. HonestIn(w) /\ PhasesIn(w) /\ \A f \in w.quiet : TracedIn(w, f)
      BY DEF GInv, Good
    <2>3. ASSUME NEW f \in Files, NEW text \in Times, NEW mtime, NEW from, Old(f, text, mtime, from)
          PROVE  /\ mtime <= text \/ from = "page"
                 /\ text <= now'
                 /\ written'[f] # Nothing => text <= written'[f]
      <3>1. now \in Nat /\ now' \in Nat /\ text \in Nat
        BY DEF GInv, GRTypeOK, Times
      <3> QED
        BY <2>3, <3>1 DEF Old
    <2>4. HonestIn(req[s])'
      <3>1. \A f \in Files : x.scope[f] # Nothing =>
               /\ x.scope[f].key \in Times /\ Old(f, x.scope[f].key, x.scope[f].mtime, x.scope[f].by)
        BY <2>1, <2>2 DEF HonestIn, Progress, Rows
      <3>2. \A f \in Files : x.hits[f] # Nothing =>
               /\ x.hits[f].text \in Times /\ Old(f, x.hits[f].text, x.hits[f].mtime, x.hits[f].from)
        BY <2>1, <2>2 DEF HonestIn, Progress, Hits
      <3>3. x.opened # Nothing => /\ x.opened[1] \in Files /\ x.opened[2] \in Times
                                  /\ Old(x.opened[1], x.opened[2], x.opened[2], "grep")
        BY <2>1, <2>2 DEF HonestIn, Progress
      <3> HIDE DEF w, x
      <3>4. /\ \A f \in Files : x.scope[f] # Nothing =>
                 /\ x.scope[f].mtime <= x.scope[f].key \/ x.scope[f].by = "page"
                 /\ x.scope[f].key <= now'
                 /\ written'[f] # Nothing => x.scope[f].key <= written'[f]
            /\ \A f \in Files : x.hits[f] # Nothing =>
                 /\ x.hits[f].mtime <= x.hits[f].text \/ x.hits[f].from = "page"
                 /\ x.hits[f].text <= now'
                 /\ written'[f] # Nothing => x.hits[f].text <= written'[f]
            /\ x.opened # Nothing =>
                 /\ x.opened[2] <= x.opened[2]
                 /\ x.opened[2] <= now'
                 /\ written'[x.opened[1]] # Nothing => x.opened[2] <= written'[x.opened[1]]
        BY <2>3, <3>1, <3>2, <3>3
      <3> QED
        BY <3>4 DEF HonestIn, Old, x
    <2>5. PhasesIn(req[s])'
      BY <2>1, <2>2 DEF PhasesIn
    <2>6. ASSUME NEW f \in x.quiet PROVE TracedIn(req[s], f)'
      <3>1. f # g /\ f \in Files /\ TracedIn(w, f)
        BY <2>1, <2>2 DEF Progress
      <3>2. written'[f] = written[f] /\ fileMap'[f] = fileMap[f]
        BY <3>1
      <3>3. AccountedIn(req[s], f)' <=> AccountedIn(w, f)
        BY <2>1, <3>2 DEF AccountedIn
      <3> QED
        BY <2>1, <3>1, <3>2, <3>3 DEF TracedIn
    <2> QED
      BY <2>4, <2>5, <2>6 DEF Good
  <1>5. \A s \in Requests : MarksOK(req[s], req'[s])
    BY <1>1, MarksKept
  <1> QED
    BY <1>3, <1>4, <1>5 DEF GInv, GStep

\* A step that changes no request and no file, neither on disk nor in the map.
LEMMA StoreStep ==
    ASSUME GInv, UNCHANGED <<now, written, fileMap, req>>,
           GRTypeOK', StoreInv',
           \A c \in Corpora : walks'[c].at \in {"running", "files"}
                              /\ walks[c].at \in {"running", "files"}
                                => \A f \in Files : f \in walks[c].todo \cup walks[c].found
                                                      /\ written[f] # Nothing
                                      => f \in walks'[c].todo \cup walks'[c].found,
           \A c \in Corpora : walks'[c].at \in {"running", "files"}
                              /\ walks[c].at \notin {"running", "files"}
                                => FilesOf(c) \subseteq walks'[c].todo
    PROVE  GStep
  <1>1. \A s \in Requests : HonestIn(req[s])' /\ PhasesIn(req[s])'
    BY DEF GInv, Good, HonestIn, PhasesIn, Old
  <1>2. ASSUME NEW s \in Requests, NEW f \in req[s].quiet PROVE TracedIn(req[s], f)'
    <2> DEFINE c == CorpusOf[f]
    <2>1. TracedIn(req[s], f) /\ f \in Files
      BY DEF GInv, GRTypeOK, Good, Progress
    <2>2. c \in Corpora /\ f \in FilesOf(c)
      BY <2>1, GroundAssumption DEF GroundAssumption, FilesOf
    <2>3. req[s].walked[c] = "waiting" /\ walks'[c].at \in {"running", "files"}
            => f \in walks'[c].todo \cup walks'[c].found
      <3>1. CASE walks[c].at \in {"running", "files"}
        BY <2>1, <2>2, <3>1 DEF TracedIn
      <3>2. CASE walks[c].at \notin {"running", "files"}
        BY <2>2, <3>2
      <3> QED
        BY <3>1, <3>2
    <2>4. AccountedIn(req[s], f)' <=> AccountedIn(req[s], f)
      BY DEF AccountedIn
    <2> QED
      BY <2>1, <2>3, <2>4 DEF TracedIn
  <1>3. \A s \in Requests : Good(req[s])'
    BY <1>1, <1>2 DEF Good
  <1>4. \A s \in Requests : MarksOK(req[s], req'[s])
    BY MarksKept
  <1> QED
    BY <1>3, <1>4 DEF GInv, GStep

\* No walk changes.
LEMMA WalksKept ==
    ASSUME walks' = walks
    PROVE  /\ \A c \in Corpora : walks'[c].at \in {"running", "files"}
                                 /\ walks[c].at \in {"running", "files"}
                                 => \A f \in Files : f \in walks[c].todo \cup walks[c].found
                                                       /\ written[f] # Nothing
                                       => f \in walks'[c].todo \cup walks'[c].found
           /\ \A c \in Corpora : walks'[c].at \in {"running", "files"}
                                 /\ walks[c].at \notin {"running", "files"}
                                 => FilesOf(c) \subseteq walks'[c].todo
  OBVIOUS

\* A row is committed, of a text the file had, for the page pending or not.
LEMMA CommitStep ==
    ASSUME GInv, NEW g \in Files, NEW t \in Times, NEW writer \in {"pass", "page"},
           written[g] # Nothing, t <= written[g], writer = "page" \/ t = written[g],
           Commit(g, t, 0..written[g], writer),
           UNCHANGED <<now, written, built, walks>>, page' \in [Files -> Times \cup {Nothing}],
           \A f \in Files : page'[f] \in {page[f], Nothing}
    PROVE  GStep
  <1>1. PICK m \in 0..written[g] :
           fileMap' = [fileMap EXCEPT ![g] = [key |-> t, mtime |-> m, by |-> writer]]
    BY DEF Commit
  <1>2. content' = content \cup {t} /\ Touched(g)
    BY DEF Commit
  <1>3. /\ now \in Times /\ now <= now /\ written[g] \in Times /\ written[g] <= now /\ m \in Times
        /\ m <= t \/ writer = "page"
        /\ t <= now
    BY GroundAssumption DEF GInv, GRTypeOK, StoreInv, Times, GroundAssumption
  <1>4. /\ written \in [Files -> Times \cup {Nothing}]
        /\ fileMap \in [Files -> Rows \cup {Nothing}]
    BY DEF GInv, GRTypeOK
  <1> DEFINE row == [key |-> t, mtime |-> m, by |-> writer]
  <1>5. row \in Rows /\ row.key = t /\ row.mtime = m /\ row.by = writer
    BY <1>3 DEF Rows
  <1> HIDE DEF row
  <1>6. fileMap' = [fileMap EXCEPT ![g] = row]
    BY <1>1 DEF row
  <1>7. /\ fileMap' \in [Files -> Rows \cup {Nothing}] /\ fileMap'[g] = row
        /\ \A f \in Files : f # g => fileMap'[f] = fileMap[f]
    BY <1>4, <1>5, <1>6
  <1>8. StoreInv'
    BY <1>2, <1>3, <1>5, <1>7 DEF GInv, StoreInv, Old
  <1>9. content' \in SUBSET Times
    BY <1>2 DEF GInv, GRTypeOK
  <1> QED
    BY <1>2, <1>3, <1>4, <1>7, <1>8, <1>9, TouchedStep

LEMMA IndexFileStep == ASSUME GInv, NEW g \in Files, IndexFile(g) PROVE GStep
  <1>1. /\ written[g] # Nothing /\ Commit(g, written[g], 0..written[g], "pass")
        /\ UNCHANGED <<now, written, built, walks>> /\ page' = page
    BY DEF IndexFile
  <1>2. written[g] \in Times /\ written[g] <= written[g] /\ page \in [Files -> Times \cup {Nothing}]
    BY <1>1 DEF GInv, GRTypeOK, Times
  <1> QED
    BY <1>1, <1>2, CommitStep

\* A file is written: by another program, or as a page still to be indexed.
LEMMA WrittenStep ==
    ASSUME GInv, NEW g \in Files, now' \in Times, now <= now',
           NEW v \in {now', Nothing}, written' = [written EXCEPT ![g] = v],
           page' \in [Files -> Times \cup {Nothing}], page'[g] \in {page[g], now'},
           \A f \in Files : f # g => page'[f] = page[f],
           Touched(g), UNCHANGED <<store, walks>>
    PROVE  GStep
  <1>1. now \in Nat /\ now' \in Nat /\ v \in Times \cup {Nothing}
    BY DEF GInv, GRTypeOK, Times
  <1>2. fileMap' = fileMap /\ content' = content /\ built' = built /\ walks' = walks
    BY DEF store
  <1>4. /\ written \in [Files -> Times \cup {Nothing}] /\ page \in [Files -> Times \cup {Nothing}]
        /\ fileMap \in [Files -> Rows \cup {Nothing}]
    BY DEF GInv, GRTypeOK
  <1>5. /\ written' \in [Files -> Times \cup {Nothing}]
        /\ written'[g] \in {now', Nothing}
        /\ \A f \in Files : f # g => written'[f] = written[f]
    BY <1>1, <1>4
  <1>6. StoreInv'
    <2>1. \A f \in Files : written'[f] # Nothing => written'[f] <= now'
      BY <1>1, <1>4, <1>5 DEF GInv, StoreInv, Times
    <2>2. ASSUME NEW f \in Files, NEW text \in Times, NEW mtime, NEW from, Old(f, text, mtime, from)
          PROVE  Old(f, text, mtime, from)'
      <3>1. text \in Nat
        BY DEF Times
      <3> QED
        BY <1>1, <1>5, <2>2, <3>1 DEF Old
    <2>3. ASSUME NEW f \in Files, fileMap[f] # Nothing
          PROVE  Old(f, fileMap[f].key, fileMap[f].mtime, fileMap[f].by)' /\ fileMap[f].key \in content
      <3>1. fileMap[f].key \in Times
        BY <1>4, <2>3 DEF Rows
      <3>2. /\ Old(f, fileMap[f].key, fileMap[f].mtime, fileMap[f].by)
            /\ fileMap[f].key \in content
        BY <2>3 DEF GInv, StoreInv
      <3>3. /\ fileMap[f].mtime <= fileMap[f].key \/ fileMap[f].by = "page"
            /\ fileMap[f].key <= now' /\ (written'[f] # Nothing => fileMap[f].key <= written'[f])
        BY <2>2, <3>1, <3>2 DEF Old
      <3> QED
        BY <1>2, <3>2, <3>3 DEF Old
    <2>4. ASSUME NEW f \in Files, page'[f] # Nothing
          PROVE  page'[f] <= now' /\ (written'[f] # Nothing => page'[f] <= written'[f])
      <3>1. CASE page'[f] = page[f]
        <4>1. page[f] \in Times /\ Old(f, page[f], page[f], "page")
          BY <1>4, <2>4, <3>1 DEF GInv, StoreInv
        <4> QED
          BY <2>2, <3>1, <4>1 DEF Old
      <3>2. CASE f = g /\ page'[f] = now'
        BY <1>1, <1>5, <3>2
      <3> QED
        BY <3>1, <3>2
    <2>5. \A f \in Files : page'[f] # Nothing => Old(f, page[f], page[f], "page")'
      BY <2>4 DEF Old
    <2>6. \A c \in Corpora : walks'[c].at = "files" => walks'[c].todo = {}
      BY <1>2 DEF GInv, StoreInv
    <2> QED
      BY <1>2, <2>1, <2>3, <2>5, <2>6 DEF StoreInv
  <1>7. content' \in SUBSET Times
    BY <1>2 DEF GInv, GRTypeOK
  <1> QED
    BY <1>2, <1>4, <1>5, <1>6, <1>7, TouchedStep

LEMMA EditStep == ASSUME GInv, NEW g \in Files, Edit(g) PROVE GStep
  <1>1. PICK v \in {now', Nothing} : written' = [written EXCEPT ![g] = v]
    BY DEF Edit
  <1>2. now < MaxTime /\ now' = now + 1 /\ Touched(g) /\ UNCHANGED <<page, store, walks>>
    BY DEF Edit
  <1>3. now' \in Times /\ now <= now' /\ page \in [Files -> Times \cup {Nothing}]
    BY <1>2, GroundAssumption DEF GInv, GRTypeOK, Times, GroundAssumption
  <1> QED
    BY <1>1, <1>2, <1>3, WrittenStep

LEMMA WritePageStep == ASSUME GInv, NEW g \in Files, WritePage(g) PROVE GStep
  <1>1. /\ now' \in {now, now + 1} \cap Times /\ written' = [written EXCEPT ![g] = now']
        /\ page' = [page EXCEPT ![g] = now'] /\ Touched(g) /\ UNCHANGED <<store, walks>>
    BY DEF WritePage
  <1>2. now \in Int /\ page \in [Files -> Times \cup {Nothing}]
    BY DEF GInv, GRTypeOK, Times
  <1>3. /\ now' \in Times /\ now <= now' /\ page' \in [Files -> Times \cup {Nothing}]
        /\ page'[g] = now' /\ \A f \in Files : f # g => page'[f] = page[f]
    BY <1>1, <1>2
  <1> QED
    BY <1>1, <1>3, WrittenStep

LEMMA IndexPageStep == ASSUME GInv, NEW g \in Files, IndexPage(g) PROVE GStep
  <1>1. /\ page[g] # Nothing /\ page' = [page EXCEPT ![g] = Nothing]
        /\ UNCHANGED <<now, written, built, walks>>
    BY DEF IndexPage
  <1>2. page \in [Files -> Times \cup {Nothing}]
    BY DEF GInv, GRTypeOK
  <1>3. /\ page' \in [Files -> Times \cup {Nothing}]
        /\ \A f \in Files : page'[f] \in {page[f], Nothing}
    BY <1>1, <1>2
  <1>4. CASE written[g] # Nothing /\ Commit(g, page[g], 0..written[g], "page")
    <2>1. page[g] \in Times /\ page[g] <= written[g]
      BY <1>1, <1>2, <1>4 DEF GInv, StoreInv, Old
    <2> QED
      BY <1>1, <1>3, <1>4, <2>1, CommitStep
  <1>5. CASE UNCHANGED <<fileMap, content, req>>
    <2>1. GRTypeOK'
      BY <1>1, <1>3, <1>5 DEF GInv, GRTypeOK
    <2>2. StoreInv'
      BY <1>1, <1>3, <1>5 DEF GInv, StoreInv, Old
    <2> QED
      BY <1>1, <1>5, <2>1, <2>2, WalksKept, StoreStep
  <1> QED
    BY <1>4, <1>5 DEF IndexPage

LEMMA RemoveRowStep == ASSUME GInv, NEW g \in Files, RemoveRow(g) PROVE GStep
  <1>1. /\ fileMap' = [fileMap EXCEPT ![g] = Nothing]
        /\ now' = now /\ written' = written /\ page' = page /\ content' = content
        /\ built' = built /\ walks' = walks /\ Touched(g)
    BY DEF RemoveRow
  <1>2. /\ now \in Times /\ now <= now
    BY DEF GInv, GRTypeOK, Times
  <1>3. /\ written \in [Files -> Times \cup {Nothing}]
        /\ fileMap \in [Files -> Rows \cup {Nothing}] /\ content \in SUBSET Times
        /\ page \in [Files -> Times \cup {Nothing}]
    BY DEF GInv, GRTypeOK
  <1>4. /\ fileMap' \in [Files -> Rows \cup {Nothing}] /\ fileMap'[g] = Nothing
        /\ \A f \in Files : f # g => fileMap'[f] = fileMap[f]
    BY <1>1, <1>3
  <1>5. StoreInv'
    BY <1>1, <1>4 DEF GInv, StoreInv, Old
  <1> QED
    BY <1>1, <1>2, <1>3, <1>4, <1>5, TouchedStep

LEMMA EnsureIndexesStep == ASSUME GInv, EnsureIndexes PROVE GStep
  <1>1. /\ UNCHANGED <<now, written, page, fileMap, content, walks, req>> /\ built' = TRUE
    BY DEF EnsureIndexes
  <1>2. GRTypeOK'
    BY <1>1 DEF GInv, GRTypeOK
  <1>3. StoreInv'
    BY <1>1 DEF GInv, StoreInv, Old
  <1> QED
    BY <1>1, <1>2, <1>3, WalksKept, StoreStep

LEMMA CollectOrphansStep == ASSUME GInv, CollectOrphans PROVE GStep
  <1>1. /\ UNCHANGED <<now, written, page, fileMap, built, walks, req>>
        /\ content' = {fileMap[f].key : f \in {g \in Files : fileMap[g] # Nothing}}
    BY DEF CollectOrphans
  <1>2. \A f \in Files : fileMap[f] # Nothing => fileMap[f].key \in Times
    BY DEF GInv, GRTypeOK, Rows
  <1>3. content' \in SUBSET Times
    BY <1>1, <1>2
  <1>4. GRTypeOK'
    BY <1>1, <1>3 DEF GInv, GRTypeOK
  <1>5. \A f \in Files : fileMap[f] # Nothing => fileMap[f].key \in content'
    BY <1>1
  <1>6. StoreInv'
    BY <1>1, <1>5 DEF GInv, StoreInv, Old
  <1> QED
    BY <1>1, <1>4, <1>6, WalksKept, StoreStep

\* A step of one walk that leaves requests and store alone.
LEMMA WalkStep ==
    ASSUME GInv, NEW c \in Corpora, NEW k \in WalkStates, walks' = [walks EXCEPT ![c] = k],
           UNCHANGED <<now, written, page, store, req>>,
           k.at = "files" => k.todo = {},
           k.at \in {"running", "files"} /\ walks[c].at \in {"running", "files"}
             => \A f \in Files : f \in walks[c].todo \cup walks[c].found /\ written[f] # Nothing
                                 => f \in k.todo \cup k.found,
           k.at \in {"running", "files"} /\ walks[c].at \notin {"running", "files"}
             => FilesOf(c) \subseteq k.todo
    PROVE  GStep
  <1>1. walks \in [Corpora -> WalkStates]
    BY DEF GInv, GRTypeOK, WalkStates
  <1>2. /\ walks' \in [Corpora -> WalkStates] /\ walks'[c] = k
        /\ \A d \in Corpora : d # c => walks'[d] = walks[d]
    BY <1>1
  <1>3. UNCHANGED <<now, written, page, fileMap, content, built, req>>
    BY DEF store
  <1>4. GRTypeOK'
    BY <1>2, <1>3 DEF GInv, GRTypeOK, WalkStates
  <1>5. StoreInv'
    BY <1>2, <1>3 DEF GInv, StoreInv, Old
  <1>6. \A d \in Corpora : walks'[d].at \in {"running", "files"}
                           /\ walks[d].at \in {"running", "files"}
                             => \A f \in Files : f \in walks[d].todo \cup walks[d].found
                                                   /\ written[f] # Nothing
                                   => f \in walks'[d].todo \cup walks'[d].found
    BY <1>2
  <1>7. \A d \in Corpora : walks'[d].at \in {"running", "files"}
                           /\ walks[d].at \notin {"running", "files"}
                             => FilesOf(d) \subseteq walks'[d].todo
    BY <1>2
  <1> QED
    BY <1>3, <1>4, <1>5, <1>6, <1>7, StoreStep

LEMMA StartScanStep == ASSUME GInv, NEW c \in Corpora, StartScan(c) PROVE GStep
  <1> DEFINE k == [at |-> "running", todo |-> FilesOf(c), found |-> {}]
  <1>1. /\ walks[c].at = "queued" /\ walks' = [walks EXCEPT ![c] = k]
        /\ UNCHANGED <<now, written, page, store, req>>
    BY DEF StartScan
  <1>2. /\ k \in WalkStates /\ k.at = "running" /\ k.todo = FilesOf(c)
    BY DEF WalkStates, FilesOf
  <1> HIDE DEF k
  <1> QED
    BY <1>1, <1>2, WalkStep

LEMMA ScanFileStep ==
    ASSUME GInv, NEW c \in Corpora, NEW g \in Files, ScanFile(c, g) PROVE GStep
  <1> DEFINE k == [walks[c] EXCEPT !.todo = @ \ {g},
                                   !.found = IF written[g] = Nothing THEN @ ELSE @ \cup {g}]
  <1>1. walks \in [Corpora -> WalkStates] /\ walks[c] \in WalkStates
    BY DEF GInv, GRTypeOK, WalkStates
  <1>2. /\ walks' = [walks EXCEPT ![c] = k] /\ g \in walks[c].todo
        /\ UNCHANGED <<now, written, page, store, req>>
    BY <1>1 DEF ScanFile, WalkStates
  <1>3. /\ k \in WalkStates /\ k.at = walks[c].at /\ k.todo = walks[c].todo \ {g}
        /\ k.found = IF written[g] = Nothing THEN walks[c].found ELSE walks[c].found \cup {g}
    BY <1>1 DEF WalkStates
  <1> HIDE DEF k
  <1>4. walks[c].at # "files"
    BY <1>2 DEF GInv, StoreInv
  <1> QED
    BY <1>2, <1>3, <1>4, WalkStep

LEMMA EndScanStep == ASSUME GInv, NEW c \in Corpora, EndScan(c) PROVE GStep
  <1>1. walks \in [Corpora -> WalkStates] /\ walks[c] \in WalkStates
    BY DEF GInv, GRTypeOK, WalkStates
  <1>2. walks[c].at = "running" /\ UNCHANGED <<now, written, page, store, req>>
    BY DEF EndScan
  <1>3. CASE walks[c].todo = {} /\ walks' = [walks EXCEPT ![c].at = "files"]
    <2> DEFINE k == [walks[c] EXCEPT !.at = "files"]
    <2>1. walks' = [walks EXCEPT ![c] = k]
      BY <1>1, <1>3
    <2>2. k \in WalkStates /\ k.at = "files" /\ k.todo = walks[c].todo /\ k.found = walks[c].found
      BY <1>1 DEF WalkStates
    <2> HIDE DEF k
    <2> QED
      BY <1>2, <1>3, <2>1, <2>2, WalkStep
  <1>4. CASE walks' = [walks EXCEPT ![c] = [NoWalk EXCEPT !.at = "failed"]]
    <2> DEFINE k == [NoWalk EXCEPT !.at = "failed"]
    <2>1. k \in WalkStates /\ k.at = "failed"
      BY DEF NoWalk, WalkStates
    <2>2. walks' = [walks EXCEPT ![c] = k]
      BY <1>4
    <2> HIDE DEF k
    <2> QED
      BY <1>2, <2>1, <2>2, WalkStep
  <1> QED
    BY <1>3, <1>4 DEF EndScan



\* A walk changes together with what requests know of it: the store and the
\* files are left alone, and no request's hits.
LEMMA WalkAndRequests ==
    ASSUME GInv, NEW c \in Corpora, NEW k \in WalkStates, walks' = [walks EXCEPT ![c] = k],
           UNCHANGED <<now, written, page, store>>, k.at = "files" => k.todo = {},
           req' \in [Requests -> Progress],
           \A s \in Requests : Good(req[s])' /\ req'[s].hits = req[s].hits
    PROVE  GStep
  <1>1. walks \in [Corpora -> WalkStates]
    BY DEF GInv, GRTypeOK, WalkStates
  <1>2. /\ walks' \in [Corpora -> WalkStates] /\ walks'[c] = k
        /\ \A d \in Corpora : d # c => walks'[d] = walks[d]
    BY <1>1
  <1>3. UNCHANGED <<now, written, page, fileMap, content, built>>
    BY DEF store
  <1>4. GRTypeOK'
    BY <1>2, <1>3 DEF GInv, GRTypeOK, WalkStates
  <1>5. StoreInv'
    BY <1>2, <1>3 DEF GInv, StoreInv, Old
  <1>6. \A s \in Requests : MarksOK(req[s], req'[s])
    BY MarksKept
  <1> QED
    BY <1>4, <1>5, <1>6 DEF GInv, GStep

LEMMA EndWalkStep == ASSUME GInv, NEW c \in Corpora, EndWalk(c) PROVE GStep
  <1>1. /\ walks[c].at \in {"files", "failed"} /\ walks' = [walks EXCEPT ![c] = NoWalk]
        /\ UNCHANGED <<now, written, page, store>>
        /\ UNCHANGED <<now, written, page, fileMap, content, built>>
    BY DEF EndWalk, store
  <1>2. walks \in [Corpora -> WalkStates] /\ walks[c] \in WalkStates
    BY DEF GInv, GRTypeOK, WalkStates
  <1>3. NoWalk \in WalkStates /\ NoWalk.at = "none"
    BY DEF NoWalk, WalkStates
  <1>4. walks'[c].at = "none" /\ \A d \in Corpora : d # c => walks'[d] = walks[d]
    BY <1>1, <1>2, <1>3
  <1>5. ASSUME NEW s \in Requests
        PROVE  /\ req'[s] \in Progress /\ Good(req[s])' /\ req'[s].hits = req[s].hits
    <2> DEFINE w == req[s]
               x == req'[s]
    <2>1. w \in Progress /\ Good(w)
      BY RequestAt
    <2>2. CASE w.walked[c] # "waiting"
      <3>1. x = w
        BY <2>2 DEF EndWalk
      <3>2. HonestIn(req[s])' /\ PhasesIn(req[s])'
        BY <1>1, <2>1, <3>1 DEF Good, HonestIn, PhasesIn, Old
      <3>3. ASSUME NEW f \in x.quiet PROVE TracedIn(req[s], f)'
        <4>1. TracedIn(w, f)
          BY <2>1, <3>1, <3>3 DEF Good
        <4>2. CorpusOf[f] \in Corpora
          BY <2>1, <4>1 DEF Progress, TracedIn
        <4> QED
          BY <1>1, <1>4, <2>2, <3>1, <4>1, <4>2 DEF TracedIn, AccountedIn
      <3> QED
        BY <2>1, <3>1, <3>2, <3>3 DEF Good
    <2>3. CASE w.walked[c] = "waiting"
      <3>1. x = [w EXCEPT !.walked[c] = walks[c].at, !.found = @ \cup walks[c].found]
        BY <2>3 DEF EndWalk
      <3> HIDE DEF w
      <3>2. /\ [w EXCEPT !.walked[c] = walks[c].at, !.found = @ \cup walks[c].found] \in Progress
        BY <1>1, <1>2, <2>1 DEF Progress, WalkStates
      <3>3. /\ x \in Progress
            /\ x.at = w.at /\ x.kind = w.kind /\ x.corpora = w.corpora
            /\ x.walked = [w.walked EXCEPT ![c] = walks[c].at]
            /\ x.listed = w.listed /\ x.searched = w.searched
            /\ x.found = w.found \cup walks[c].found
            /\ x.scope = w.scope /\ x.queue = w.queue /\ x.opened = w.opened /\ x.hits = w.hits
            /\ x.warnings = w.warnings /\ x.blind = w.blind /\ x.dropped = w.dropped /\ x.quiet = w.quiet
        BY <2>1, <3>1, <3>2 DEF Progress
      <3>4. /\ x.walked[c] = walks[c].at
            /\ \A d \in Corpora : d # c => x.walked[d] = w.walked[d]
        BY <2>1, <3>3 DEF Progress
      <3>5. w.at \notin Served /\ c \in w.corpora
        BY <2>1, <2>3 DEF Good, PhasesIn
      <3>6. HonestIn(req[s])'
        BY <1>1, <2>1, <3>3 DEF Good, HonestIn, Old
      <3>7. PhasesIn(x)
        BY <2>1, <3>3, <3>4, <3>5 DEF Good, PhasesIn, Served
      <3>8. PhasesIn(req[s])'
        BY <3>7 DEF PhasesIn
      <3>9. ASSUME NEW f \in x.quiet PROVE TracedIn(req[s], f)'
        <4> DEFINE d == CorpusOf[f]
        <4>1. TracedIn(w, f) /\ f \in Files
          BY <2>1, <3>3 DEF Good, Progress
        <4>2. d \in Corpora
          BY <4>1, GroundAssumption DEF GroundAssumption
        <4>3. x.searched[d] = "no"
          BY <2>1, <3>3, <3>5, <4>2 DEF Good, PhasesIn, Served, Progress
        <4>4. x.walked[d] = "files" => f \in x.found
          <5>1. CASE d = c
            <6>1. walks[c].at = "files" => f \in walks[c].todo \cup walks[c].found
              BY <2>3, <4>1, <5>1 DEF TracedIn
            <6>2. walks[c].at = "files" => walks[c].todo = {}
              BY DEF GInv, StoreInv
            <6> QED
              BY <3>3, <3>4, <5>1, <6>1, <6>2
          <5>2. CASE d # c
            BY <3>3, <3>4, <4>1, <4>2, <4>3, <5>2 DEF TracedIn
          <5> QED
            BY <5>1, <5>2
        <4>5. x.walked[d] = "waiting" /\ walks'[d].at \in {"running", "files"}
                => f \in walks'[d].todo \cup walks'[d].found
          BY <1>4, <3>4, <4>1, <4>2 DEF TracedIn
        <4> QED
          BY <1>1, <3>3, <3>5, <4>1, <4>3, <4>4, <4>5 DEF TracedIn
      <3> QED
        BY <3>3, <3>6, <3>8, <3>9 DEF Good, w
    <2> QED
      BY <2>2, <2>3
  <1>6. req' \in [Requests -> Progress]
    BY <1>5 DEF EndWalk
  <1> QED
    BY <1>1, <1>3, <1>5, <1>6, WalkAndRequests

LEMMA JoinOrStartStep ==
    ASSUME GInv, NEW r \in Requests, NEW c \in Corpora, JoinOrStart(r, c) PROVE GStep
  <1> DEFINE k == IF walks[c].at # "none" THEN walks[c] ELSE [walks[c] EXCEPT !.at = "queued"]
             w == req[r]
             x == [w EXCEPT !.walked[c] = "waiting", !.quiet = @ \ Late(c)]
  <1>1. walks \in [Corpora -> WalkStates] /\ walks[c] \in WalkStates
    BY DEF GInv, GRTypeOK, WalkStates
  <1>2. /\ w.at = "inventory" /\ c \in w.corpora /\ w.walked[c] = "no"
        /\ walks' = [walks EXCEPT ![c] = k]
        /\ UNCHANGED <<now, written, page, store>>
        /\ UNCHANGED <<now, written, page, fileMap, content, built>>
    BY <1>1 DEF JoinOrStart, InInventory, store
  <1>3. k \in WalkStates /\ (k.at \in {"running", "files"} => k = walks[c])
    BY <1>1 DEF WalkStates
  <1> HIDE DEF k
  <1>4. /\ walks'[c] = k /\ \A d \in Corpora : d # c => walks'[d] = walks[d]
    BY <1>1, <1>2
  <1>5. req \in [Requests -> Progress] /\ req' = [req EXCEPT ![r] = x]
    BY DEF GInv, GRTypeOK, JoinOrStart
  <1>6. \A d \in Corpora : walks'[d].at \in {"running", "files"} => walks'[d] = walks[d]
    BY <1>3, <1>4
  <1>7. w \in Progress /\ Good(w)
    BY RequestAt
  <1>8. req'[r] = x /\ \A s \in Requests : s # r => req'[s] = req[s]
    BY <1>5
  <1> HIDE DEF w
  <1>9. /\ x \in Progress
        /\ x.at = w.at /\ x.kind = w.kind /\ x.corpora = w.corpora
        /\ x.walked = [w.walked EXCEPT ![c] = "waiting"]
        /\ x.listed = w.listed /\ x.searched = w.searched /\ x.found = w.found
        /\ x.scope = w.scope /\ x.queue = w.queue /\ x.opened = w.opened /\ x.hits = w.hits
        /\ x.warnings = w.warnings /\ x.blind = w.blind /\ x.dropped = w.dropped /\ x.quiet = w.quiet \ Late(c)
    BY <1>7 DEF Progress
  <1> HIDE DEF x
  <1>10. \A d \in Corpora : d # c => x.walked[d] = w.walked[d]
    BY <1>7, <1>9 DEF Progress
  <1>11. x.walked[c] = "waiting"
    BY <1>7, <1>9 DEF Progress
  <1>12. Good(req[r])'
    <2>1. HonestIn(req[r])'
      BY <1>2, <1>7, <1>8, <1>9 DEF Good, HonestIn, Old
    <2>2. PhasesIn(x)
      BY <1>2, <1>7, <1>9, <1>10, <1>11 DEF Good, PhasesIn, Served
    <2>3. PhasesIn(req[r])'
      BY <1>8, <2>2 DEF PhasesIn
    <2>4. ASSUME NEW f \in x.quiet PROVE TracedIn(req[r], f)'
      <3> DEFINE d == CorpusOf[f]
      <3>1. TracedIn(w, f) /\ f \in Files /\ f \notin Late(c)
        BY <1>7, <1>9 DEF Good, Progress
      <3>2. d \in Corpora /\ f \in FilesOf(d)
        BY <3>1, GroundAssumption DEF GroundAssumption, FilesOf
      <3>3. x.searched[d] = "no"
        BY <1>2, <1>7, <1>9, <3>2 DEF Good, PhasesIn
      <3>4. x.walked[d] = "waiting" /\ walks'[d].at \in {"running", "files"}
              => f \in walks'[d].todo \cup walks'[d].found
        <4>1. CASE d = c
          BY <1>6, <3>1, <3>2, <4>1 DEF Late
        <4>2. CASE d # c
          BY <1>6, <1>10, <3>1, <3>2, <4>2 DEF TracedIn
        <4> QED
          BY <4>1, <4>2
      <3>5. x.walked[d] = "files" => f \in x.found
        BY <1>9, <1>10, <1>11, <3>1, <3>2, <3>3 DEF TracedIn
      <3> QED
        BY <1>2, <1>8, <1>9, <3>1, <3>3, <3>4, <3>5 DEF TracedIn, Served
    <2> QED
      BY <1>8, <2>1, <2>3, <2>4 DEF Good
  <1>13. ASSUME NEW s \in Requests, s # r PROVE Good(req[s])'
    <2>1. req'[s] = req[s] /\ Good(req[s]) /\ req[s] \in Progress
      BY <1>8, <1>13, RequestAt
    <2>2. HonestIn(req[s])' /\ PhasesIn(req[s])'
      BY <1>2, <2>1 DEF Good, HonestIn, PhasesIn, Old
    <2>3. ASSUME NEW f \in req'[s].quiet PROVE TracedIn(req[s], f)'
      <3>1. TracedIn(req[s], f) /\ f \in Files
        BY <2>1, <2>3 DEF Good, Progress
      <3>2. CorpusOf[f] \in Corpora
        BY <3>1, GroundAssumption DEF GroundAssumption
      <3> QED
        BY <1>2, <1>6, <2>1, <3>1, <3>2 DEF TracedIn, AccountedIn
    <2> QED
      BY <2>1, <2>2, <2>3 DEF Good
  <1>14. req' \in [Requests -> Progress]
    BY <1>5, <1>9
  <1>15. \A s \in Requests : req'[s].hits = req[s].hits
    BY <1>8, <1>9 DEF w
  <1>16. k.at = "files" => k.todo = {}
    BY <1>3 DEF GInv, StoreInv
  <1> QED
    BY <1>2, <1>3, <1>12, <1>13, <1>14, <1>15, <1>16, WalkAndRequests



LEMMA StutterStep == ASSUME GInv, UNCHANGED GRvars PROVE GStep
  <1>1. /\ UNCHANGED <<now, written, page, store, walks, req>>
        /\ UNCHANGED <<now, written, page, fileMap, content, built, walks, req>>
    BY DEF GRvars, store
  <1>2. GRTypeOK' /\ StoreInv'
    BY <1>1 DEF GInv, GRTypeOK, StoreInv, Old
  <1> QED
    BY <1>1, <1>2, WalksKept, StoreStep

LEMMA RequestStepGood == ASSUME GInv, NEW r \in Requests, RequestStep(r) PROVE GStep
  <1>1. ASSUME NEW c \in Corpora, JoinOrStart(r, c) \/ WalkTimeout(r, c) PROVE GStep
    BY <1>1, JoinOrStartStep, WalkTimeoutStep
  <1>2. ASSUME NEW c \in Corpora, EndListing(r, c) PROVE GStep
    BY <1>2, EndListingStep
  <1>3. ASSUME NEW c \in Corpora, RetrieveSignals(r, c) \/ GrepFallback(r, c) PROVE GStep
    BY <1>3, RetrieveSignalsStep, GrepFallbackStep
  <1>4. CASE Inventoried(r) \/ ReadWindow(r)
    BY <1>4, InventoriedStep, ReadWindowStep
  <1>5. CASE EndSearch(r)
    <2>1. PICK next \in {"rerank", "mark"} : req' = [req EXCEPT ![r].at = next]
      BY <1>5 DEF EndSearch
    <2> QED
      BY <1>5, <2>1, PhaseStep DEF EndSearch
  <1>6. CASE RerankTimeout(r)
    BY <1>6, PhaseStep DEF RerankTimeout
  <1>7. ASSUME NEW f \in Files, OpenWindow(r, f) \/ MarkFile(r, f) PROVE GStep
    BY <1>7, OpenWindowStep, MarkFileStep
  <1>8. CASE MarkAll(r)
    BY <1>8, MarkAllStep
  <1>9. CASE Answer(r)
    BY <1>9, EndsStep DEF Answer
  <1> QED
    BY <1>1, <1>2, <1>3, <1>4, <1>5, <1>6, <1>7, <1>8, <1>9 DEF RequestStep

LEMMA BackgroundGood == ASSUME GInv, Background PROVE GStep
  <1>1. ASSUME NEW f \in Files, Edit(f) \/ IndexFile(f) \/ WritePage(f) \/ IndexPage(f) \/ RemoveRow(f)
        PROVE  GStep
    BY <1>1, EditStep, IndexFileStep, WritePageStep, IndexPageStep, RemoveRowStep
  <1>2. CASE EnsureIndexes \/ CollectOrphans
    BY <1>2, EnsureIndexesStep, CollectOrphansStep
  <1>3. ASSUME NEW c \in Corpora, StartScan(c) \/ EndScan(c) \/ EndWalk(c) PROVE GStep
    BY <1>3, StartScanStep, EndScanStep, EndWalkStep
  <1>4. ASSUME NEW c \in Corpora, NEW f \in Files, ScanFile(c, f) PROVE GStep
    BY <1>4, ScanFileStep
  <1>5. ASSUME NEW r \in Requests, RerankReturns(r) PROVE GStep
    BY <1>5, PhaseStep DEF RerankReturns
  <1> QED
    BY <1>1, <1>2, <1>3, <1>4, <1>5 DEF Background

LEMMA GInvStep == GInv /\ [GRNext]_GRvars => GStep
  <1> SUFFICES ASSUME GInv, [GRNext]_GRvars PROVE GStep
    OBVIOUS
  <1>1. CASE UNCHANGED GRvars
    BY <1>1, StutterStep
  <1>2. CASE GRNext
    <2>1. ASSUME NEW r \in Requests, Arrive(r) \/ RequestStep(r) PROVE GStep
      BY <2>1, ArriveStep, RequestStepGood
    <2>2. ASSUME NEW r \in Requests, NEW c \in Corpora, StartListing(r, c) PROVE GStep
      BY <2>2, StartListingStep
    <2>3. CASE Background
      BY <2>3, BackgroundGood
    <2> QED
      BY <1>2, <2>1, <2>2, <2>3 DEF GRNext
  <1> QED
    BY <1>1, <1>2

\* When the request can answer, every corpus is searched and nothing waits to
\* be read: what was traced so far is accounted for.
LEMMA NothingLost ==
    ASSUME GInv, NEW r \in Requests, Answering(r), NEW f \in req[r].quiet
    PROVE  Accounted(r, f)
  <1>1. Good(req[r]) /\ req[r].at = "mark"
    BY DEF GInv, Answering
  <1>2. TracedIn(req[r], f)
    BY <1>1 DEF Good
  <1>3. /\ req[r].queue = {} /\ req[r].opened = Nothing
        /\ req[r].searched[CorpusOf[f]] = "done"
    BY <1>1, <1>2 DEF Good, PhasesIn, TracedIn
  <1>4. AccountedIn(req[r], f)
    BY <1>2, <1>3 DEF TracedIn
  <1> QED
    BY <1>4 DEF AccountedIn, Accounted

\* handle_ground: the files, the rows, the shared walks and what each request
\* has in hand (listing, hits, queue, warnings) stay within their types.
THEOREM RequestsTypeCorrect == GRSpec => []GRTypeOK
  <1>1. GInv /\ [GRNext]_GRvars => GInv'
    BY GInvStep DEF GStep
  <1>2. GInv => GRTypeOK
    BY DEF GInv
  <1> QED
    BY <1>1, <1>2, GInvInit, PTL DEF GRSpec

\* mark_stale: a hit that is marked as up to date shows what the file says, up
\* to writes within the same second.  Rows of passes and windows carry an mtime
\* that was taken no later than their text (scan before read; open, stat,
\* read), so a file whose second is not past that of the mtime still holds the
\* text.  index_files_batched stats after the write: of its rows this is said
\* only when nobody wrote in between.
THEOREM MarksHonest == GRSpec => HitsHonest
  <1>1. GInv /\ [GRNext]_GRvars =>
          [\A r \in Requests, f \in Files :
              LET h == req[r].hits[f]
                  g == req'[r].hits[f]
              IN h # Nothing /\ h.stale = Nothing /\ g # Nothing /\ g.stale = FALSE
                 => \/ written[f] # Nothing /\ Second(written[f]) = Second(h.text)
                    \/ h.from = "page" /\ h.mtime > h.text]_GRvars
    BY GInvStep DEF GStep, MarksOK
  <1>2. GInv /\ [GRNext]_GRvars => GInv'
    BY GInvStep DEF GStep
  <1> QED
    BY <1>1, <1>2, GInvInit, PTL DEF GRSpec, HitsHonest

\* corpus_inventory, search_root_ranked and lexical_fallback_search: a file
\* that was there all along and was not reindexed meanwhile is found by the
\* search of the listing or by the fallback over the walk, or the answer says
\* that files were left out.
THEOREM AnswersComplete == GRSpec => NothingMissed
  <1>1. GInv => [\A r \in Requests : Answering(r) /\ req'[r].at = "idle"
                    => \A f \in req[r].quiet : Accounted(r, f)]_GRvars
    BY NothingLost
  <1>2. GInv /\ [GRNext]_GRvars => GInv'
    BY GInvStep DEF GStep
  <1> QED
    BY <1>1, <1>2, GInvInit, PTL DEF GRSpec, NothingMissed
=============================================================================
