----------------------------- MODULE DaemonProofs -----------------------------
(***************************************************************************)
(* Proofs about the daemon process and two of the loops that live in it,   *)
(* in three parts that share no state.                                     *)
(*                                                                         *)
(* DaemonLifecycle, for any processes, clients, commands, loops and number *)
(* of handlers: the properties rest on one fact: between taking the        *)
(* instance lock and dropping it a process is the only one that touches    *)
(* the socket path.                                                        *)
(*                                                                         *)
(* Supervision, for any tasks and windows: the stall tracker's clock and   *)
(* the task's own silence are related through the poll that last saw the   *)
(* task move; the trip file tells the real time of the last two trips.     *)
(*                                                                         *)
(* WatchInstall, for any registrations, paths and roots: the system's      *)
(* watch of a path is the recorded one or none, whatever part of a batch   *)
(* failed.                                                                 *)
(***************************************************************************)
EXTENDS DaemonLifecycle, Supervision, WatchInstall, FiniteSetTheorems, FunctionTheorems,
        WellFoundedInduction, TLAPS

Serving == {"accepting", "draining", "aborting"}
Held    == {"opening", "clearing", "binding", "joining", "unlinking", "releasing"}
              \cup Serving
Before  == {"unspawned", "locking", "opening", "clearing", "binding"}

\* The lock is held exactly by the process between the two lock steps.
LockPhase == \A d \in Daemons : phase[d] \in Held <=> flock = d

\* The listener exists exactly while the process serves.
ListenPhase == \A d \in Daemons : listening[d] <=> phase[d] \in Serving

\* Requests are handled only while the process serves.
HandlerPhase ==
    \A d \in Daemons, q \in Calls :
        peer[q] = d /\ stage[q] = "handling" => phase[d] \in Serving

\* A daemon that was asked to stop has bound its socket before.
AskedBound == \A c \in Clients : asked[c] # None => phase[asked[c]] \notin Before

\* The inductive invariant.
IInv ==
    /\ TypeOK
    /\ LockPhase
    /\ ListenPhase
    /\ HandlerPhase
    /\ AskedBound
    /\ ListenerReachable
    /\ StopMeansClosed

-----------------------------------------------------------------------------
(* Type correctness *)

LEMMA InitIInv == Init => IInv
<1> SUFFICES ASSUME Init PROVE IInv
  OBVIOUS
<1> USE LifecycleAssumption DEF Init, IInv
<1>1. TypeOK
  BY DEF TypeOK, Running, Up, InFlight, Finished
<1>2. LockPhase /\ ListenPhase /\ HandlerPhase
  BY DEF LockPhase, ListenPhase, HandlerPhase, Held, Serving
<1>3. AskedBound /\ ListenerReachable /\ StopMeansClosed
  BY DEF AskedBound, ListenerReachable, StopMeansClosed
<1> QED
  BY <1>1, <1>2, <1>3

\* A request of a client is one of the calls.
LEMMA CallsOfClient ==
    ASSUME NEW c \in Clients
    PROVE  <<c, "work">> \in Calls /\ StopCall(c) \in Calls
BY DEF Calls, Purposes, StopCall

LEMMA BootType ==
    ASSUME TypeOK, NEW d \in Daemons, BootStep(d)
    PROVE  TypeOK'
<1> USE LifecycleAssumption DEF TypeOK, disk, process, calls, client, Running, Up, Goto, Cancel
<1>1. CASE RefuseBoot(d)
  BY <1>1 DEF RefuseBoot
<1>2. CASE AcquireSingleInstance(d)
  BY <1>2 DEF AcquireSingleInstance
<1>3. CASE OpenState(d)
  <2>1. flock' \in Daemons \cup {None}
    BY <1>3 DEF OpenState
  <2>2. phase' \in [Daemons -> Running \cup {"unspawned", "exited"}]
    BY <1>3 DEF OpenState
  <2> QED
    BY <1>3, <2>1, <2>2 DEF OpenState
<1>4. CASE RemoveStaleSocket(d)
  BY <1>4 DEF RemoveStaleSocket
<1>5. CASE Bind(d)
  BY <1>5 DEF Bind
<1>6. CASE BindFails(d)
  BY <1>6 DEF BindFails
<1> QED
  BY <1>1, <1>2, <1>3, <1>4, <1>5, <1>6 DEF BootStep

LEMMA ServeType ==
    ASSUME TypeOK, NEW d \in Daemons, ServeStep(d)
    PROVE  TypeOK'
<1> USE LifecycleAssumption DEF TypeOK, disk, process, calls, client, InFlight, Cancel
<1>1. ASSUME NEW q \in Calls, Accept(d, q) \/ Permit(d, q) \/ DropConnection(d, q)
      PROVE  TypeOK'
  BY <1>1 DEF Accept, Permit, DropConnection
<1>2. ASSUME NEW q \in Calls, HandleConnection(d, q)
      PROVE  TypeOK'
  <2>1. token' \in [Daemons -> {"live", "idle", "told"}]
    <3>1. CASE q[2] = "work"
      BY <1>2, <3>1 DEF HandleConnection
    <3>2. CASE q[2] # "work"
      <4>1. token' = [token EXCEPT ![d] = IF token[d] = "live" THEN "told" ELSE token[d]]
        BY <1>2, <3>2, Zenon DEF HandleConnection
      <4> QED
        BY <4>1
    <3> QED
      BY <3>1, <3>2
  <2>2. stage' \in [Calls -> InFlight \cup {"none", "answered", "reset"}]
    BY <1>2 DEF HandleConnection
  <2> QED
    BY <1>2, <2>1, <2>2 DEF HandleConnection
<1>3. ASSUME NEW k \in Background, BeginPass(d, k) \/ EndPass(d, k) \/ StopLoop(d, k)
      PROVE  TypeOK'
  <2>1. PICK v \in {"off", "idle", "writing"} : bg' = [bg EXCEPT ![d][k] = v]
    BY <1>3 DEF BeginPass, EndPass, StopLoop
  <2>2. bg' \in [Daemons -> [Background -> {"off", "idle", "writing"}]]
    BY <2>1
  <2> QED
    BY <1>3, <2>2 DEF BeginPass, EndPass, StopLoop
<1>4. ASSUME IdleCheck(d) \/ IdleCancel(d) \/ Signal(d)
      PROVE  TypeOK'
  <2>1. firing' \in [Daemons -> BOOLEAN]
    BY <1>4, Zenon DEF IdleCheck, IdleCancel, Signal
  <2>2. token' \in [Daemons -> {"live", "idle", "told"}]
    BY <1>4 DEF IdleCheck, IdleCancel, Signal
  <2> QED
    BY <1>4, <2>1, <2>2 DEF IdleCheck, IdleCancel, Signal
<1> QED
  BY <1>1, <1>2, <1>3, <1>4 DEF ServeStep

LEMMA ShutdownType ==
    ASSUME TypeOK, NEW d \in Daemons, ShutdownStep(d) \/ Crash(d)
    PROVE  TypeOK'
<1> USE LifecycleAssumption DEF TypeOK, disk, process, calls, client, Running, Up, Goto, Cancel, InFlight, Hangup
<1>1. CASE StopAccepting(d)
  BY <1>1 DEF StopAccepting
<1>2. CASE DrainDeadline(d)
  BY <1>2 DEF DrainDeadline
<1>3. CASE CloseListener(d)
  BY <1>3 DEF CloseListener
<1>4. CASE JoinMaintenance(d)
  BY <1>4 DEF JoinMaintenance
<1>5. CASE RemoveSocket(d)
  BY <1>5 DEF RemoveSocket
<1>6. CASE DropLock(d)
  BY <1>6 DEF DropLock
<1>7. CASE Exit(d)
  BY <1>7 DEF Exit
<1>8. CASE Crash(d)
  BY <1>8 DEF Crash
<1>9. ASSUME NEW q \in Calls, AbortHandler(d, q)
      PROVE  TypeOK'
  BY <1>9 DEF AbortHandler
<1> QED
  BY <1>1, <1>2, <1>3, <1>4, <1>5, <1>6, <1>7, <1>8, <1>9 DEF ShutdownStep

LEMMA ClientType ==
    ASSUME TypeOK, NEW c \in Clients,
           ClientStep(c) \/ \E o \in Commands[c] : Begin(c, o)
    PROVE  TypeOK'
<1> USE LifecycleAssumption, CallsOfClient
    DEF TypeOK, disk, process, calls, client, Running, Move, Finished, InFlight, Dial, Ensured
<1>1. CASE ConnectOrSpawn(c)
  BY <1>1 DEF ConnectOrSpawn
<1>2. CASE ProbeRunningDaemon(c)
  BY <1>2 DEF ProbeRunningDaemon
<1>3. CASE FindDaemon(c)
  <2>1. PICK p \in {"done", "probe", "spawn", "ask"} : cpc' = [cpc EXCEPT ![c] = p]
    BY <1>3 DEF FindDaemon
  <2>2. PICK d \in Daemons \cup {None} : asked' = [asked EXCEPT ![c] = d]
    BY <1>3 DEF FindDaemon
  <2> QED
    BY <1>3, <2>1, <2>2 DEF FindDaemon
<1>4. CASE AskShutdown(c)
  <2>1. PICK p \in {"poll", "asked"} : cpc' = [cpc EXCEPT ![c] = p]
    BY <1>4 DEF AskShutdown
  <2>2. peer' \in [Calls -> Daemons \cup {None}]
    <3>1. peer' = peer \/ \E d \in Daemons : peer' = [peer EXCEPT ![StopCall(c)] = d]
      BY <1>4 DEF AskShutdown
    <3> QED
      BY <3>1
  <2>3. stage' \in [Calls -> InFlight \cup {"none", "answered", "reset"}]
    BY <1>4 DEF AskShutdown
  <2> QED
    BY <1>4, <2>1, <2>2, <2>3 DEF AskShutdown
<1>5. CASE ShutdownCallEnds(c)
  BY <1>5 DEF ShutdownCallEnds
<1>6. CASE PollStopped(c)
  <2>1. PICK p \in {"done", "probe", "spawn", "failed"} : cpc' = [cpc EXCEPT ![c] = p]
    BY <1>6 DEF PollStopped
  <2> QED
    BY <1>6, <2>1 DEF PollStopped
<1>7. CASE SpawnDaemon(c)
  <2>1. PICK p \in {"wait", "failed"} : cpc' = [cpc EXCEPT ![c] = p]
    BY <1>7 DEF SpawnDaemon
  <2>2. phase' \in [Daemons -> Running \cup {"unspawned", "exited"}]
    <3>1. phase' = phase \/ \E d \in Daemons : phase' = [phase EXCEPT ![d] = "locking"]
      BY <1>7 DEF SpawnDaemon, Goto
    <3> QED
      BY <3>1
  <2> QED
    BY <1>7, <2>1, <2>2 DEF SpawnDaemon
<1>8. CASE WaitForDaemonSocket(c)
  BY <1>8 DEF WaitForDaemonSocket
<1>9. CASE Reconnect(c)
  BY <1>9 DEF Reconnect
<1>10. CASE CallRaw(c)
  <2>1. PICK p \in {"failed", "called"} : cpc' = [cpc EXCEPT ![c] = p]
    BY <1>10 DEF CallRaw
  <2>2. peer' \in [Calls -> Daemons \cup {None}]
    <3>1. peer' = peer \/ \E d \in Daemons : peer' = [peer EXCEPT ![<<c, "work">>] = d]
      BY <1>10 DEF CallRaw
    <3> QED
      BY <3>1
  <2>3. stage' \in [Calls -> InFlight \cup {"none", "answered", "reset"}]
    BY <1>10 DEF CallRaw
  <2> QED
    BY <1>10, <2>1, <2>2, <2>3 DEF CallRaw
<1>11. CASE CallEnds(c)
  BY <1>11 DEF CallEnds
<1>12. ASSUME NEW o \in Commands[c], Begin(c, o)
       PROVE  TypeOK'
  BY <1>12 DEF Begin
<1> QED
  BY <1>1, <1>2, <1>3, <1>4, <1>5, <1>6, <1>7, <1>8, <1>9, <1>10, <1>11, <1>12 DEF ClientStep

-----------------------------------------------------------------------------
(* The invariant *)

Waiting == {"ask", "asked", "poll", "failed"}

\* Steps that leave lock, socket and listener alone, move no process in or
\* out of the lock or of service, put no request into a handler and bring no
\* client out of a stop.
LEMMA Frame ==
    ASSUME IInv, TypeOK',
           flock' = flock, socket' = socket, listening' = listening, asked' = asked,
           \A d \in Daemons :
               /\ phase'[d] \in Held <=> phase[d] \in Held
               /\ phase'[d] \in Serving <=> phase[d] \in Serving
               /\ phase'[d] \in Before => phase[d] \in Before,
           \A q \in Calls : stage'[q] = "handling" =>
               stage[q] = "handling" /\ peer'[q] = peer[q],
           \A c \in Clients : cpc'[c] \notin Waiting => cpc[c] \notin Waiting
    PROVE  IInv'
<1>1. LockPhase' /\ ListenPhase'
  BY DEF IInv, LockPhase, ListenPhase
<1>2. HandlerPhase'
  BY DEF IInv, HandlerPhase
<1>3. AskedBound'
  BY DEF IInv, AskedBound, TypeOK
<1>4. ListenerReachable'
  BY DEF IInv, ListenerReachable
<1>5. StopMeansClosed'
  BY DEF IInv, StopMeansClosed, TypeOK, Waiting
<1> QED
  BY <1>1, <1>2, <1>3, <1>4, <1>5 DEF IInv

\* Two processes are never both between the two lock steps.
LEMMA LockExcludes ==
    ASSUME IInv, NEW d \in Daemons, NEW e \in Daemons,
           phase[d] \in Held, phase[e] \in Held
    PROVE  d = e
BY DEF IInv, LockPhase

\* Nobody else serves while a process is between the two lock steps.
LEMMA NobodyElseListens ==
    ASSUME IInv, NEW d \in Daemons, NEW e \in Daemons,
           phase[d] \in Held, listening[e]
    PROVE  d = e
<1>1. phase[e] \in Held
  BY DEF IInv, ListenPhase, Held
<1> QED
  BY <1>1, LockExcludes

LEMMA AcquireSingleInstanceIInv ==
    ASSUME IInv, NEW d \in Daemons, AcquireSingleInstance(d)
    PROVE  IInv'
<1> USE LifecycleAssumption DEF AcquireSingleInstance, Goto, Held, Serving, Before
<1>1. TypeOK'
  BY BootType DEF IInv, BootStep
<1>2. LockPhase' /\ ListenPhase'
  <2>1. CASE flock = None /\ flock' = d /\ Goto(d, "opening")
    BY <2>1 DEF IInv, TypeOK, LockPhase, ListenPhase
  <2>2. CASE flock # None /\ UNCHANGED flock /\ Goto(d, "exited")
    BY <2>2 DEF IInv, TypeOK, LockPhase, ListenPhase
  <2> QED
    BY <2>1, <2>2
<1>3. HandlerPhase'
  BY DEF IInv, TypeOK, HandlerPhase, LockPhase, calls, HandledBy
<1>4. AskedBound'
  BY DEF IInv, TypeOK, AskedBound, client
<1>5. ListenerReachable'
  BY NobodyElseListens DEF IInv, TypeOK, ListenPhase, ListenerReachable
<1>6. StopMeansClosed'
  BY DEF IInv, TypeOK, StopMeansClosed, AskedBound, client
<1> QED
  BY <1>1, <1>2, <1>3, <1>4, <1>5, <1>6 DEF IInv

LEMMA OpenStateIInv ==
    ASSUME IInv, NEW d \in Daemons, OpenState(d)
    PROVE  IInv'
<1> USE LifecycleAssumption DEF OpenState, Goto, Held, Serving, Before
<1>1. TypeOK'
  BY BootType DEF IInv, BootStep
<1>2. LockPhase' /\ ListenPhase'
  <2>1. CASE Goto(d, "clearing") /\ UNCHANGED flock
    BY <2>1 DEF IInv, TypeOK, LockPhase, ListenPhase
  <2>2. CASE Goto(d, "exited") /\ flock' = None
    BY <2>2 DEF IInv, TypeOK, LockPhase, ListenPhase
  <2> QED
    BY <2>1, <2>2
<1>3. HandlerPhase'
  BY DEF IInv, TypeOK, HandlerPhase, LockPhase, calls, HandledBy
<1>4. AskedBound'
  BY DEF IInv, TypeOK, AskedBound, client
<1>5. ListenerReachable'
  BY NobodyElseListens DEF IInv, TypeOK, ListenPhase, ListenerReachable
<1>6. StopMeansClosed'
  BY DEF IInv, TypeOK, StopMeansClosed, AskedBound, client
<1> QED
  BY <1>1, <1>2, <1>3, <1>4, <1>5, <1>6 DEF IInv

LEMMA RemoveStaleSocketIInv ==
    ASSUME IInv, NEW d \in Daemons, RemoveStaleSocket(d)
    PROVE  IInv'
<1> USE LifecycleAssumption DEF RemoveStaleSocket, Goto, Held, Serving, Before
<1>1. TypeOK'
  BY BootType DEF IInv, BootStep
<1>2. LockPhase' /\ ListenPhase'
  BY DEF IInv, TypeOK, LockPhase, ListenPhase
<1>3. HandlerPhase'
  BY DEF IInv, TypeOK, HandlerPhase, LockPhase, calls, HandledBy
<1>4. AskedBound'
  BY DEF IInv, TypeOK, AskedBound, client
<1>5. ListenerReachable'
  BY NobodyElseListens DEF IInv, TypeOK, ListenPhase, ListenerReachable
<1>6. StopMeansClosed'
  BY DEF IInv, TypeOK, StopMeansClosed, AskedBound, client
<1> QED
  BY <1>1, <1>2, <1>3, <1>4, <1>5, <1>6 DEF IInv

LEMMA BindIInv ==
    ASSUME IInv, NEW d \in Daemons, Bind(d)
    PROVE  IInv'
<1> USE LifecycleAssumption DEF Bind, Goto, Held, Serving, Before
<1>1. TypeOK'
  BY BootType DEF IInv, BootStep
<1>2. LockPhase' /\ ListenPhase'
  BY DEF IInv, TypeOK, LockPhase, ListenPhase
<1>3. HandlerPhase'
  BY DEF IInv, TypeOK, HandlerPhase, LockPhase, calls, HandledBy
<1>4. AskedBound'
  BY DEF IInv, TypeOK, AskedBound, client
<1>5. ListenerReachable'
  BY NobodyElseListens DEF IInv, TypeOK, ListenPhase, ListenerReachable
<1>6. StopMeansClosed'
  BY DEF IInv, TypeOK, StopMeansClosed, AskedBound, client
<1> QED
  BY <1>1, <1>2, <1>3, <1>4, <1>5, <1>6 DEF IInv

LEMMA BindFailsIInv ==
    ASSUME IInv, NEW d \in Daemons, BindFails(d)
    PROVE  IInv'
<1> USE LifecycleAssumption DEF BindFails, Goto, Held, Serving, Before
<1>1. TypeOK'
  BY BootType DEF IInv, BootStep
<1>2. LockPhase' /\ ListenPhase'
  BY DEF IInv, TypeOK, LockPhase, ListenPhase
<1>3. HandlerPhase'
  BY DEF IInv, TypeOK, HandlerPhase, LockPhase, calls, HandledBy
<1>4. AskedBound'
  BY DEF IInv, TypeOK, AskedBound, client
<1>5. ListenerReachable'
  BY NobodyElseListens DEF IInv, TypeOK, ListenPhase, ListenerReachable
<1>6. StopMeansClosed'
  BY DEF IInv, TypeOK, StopMeansClosed, AskedBound, client
<1> QED
  BY <1>1, <1>2, <1>3, <1>4, <1>5, <1>6 DEF IInv

LEMMA CloseListenerIInv ==
    ASSUME IInv, NEW d \in Daemons, CloseListener(d)
    PROVE  IInv'
<1> USE LifecycleAssumption DEF CloseListener, Goto, Held, Serving, Before, disk, Hangup, Drained
<1>1. TypeOK'
  BY ShutdownType DEF IInv, ShutdownStep
<1>2. LockPhase' /\ ListenPhase'
  BY DEF IInv, TypeOK, LockPhase, ListenPhase
<1>3. HandlerPhase'
  BY DEF IInv, TypeOK, HandlerPhase, LockPhase, calls, HandledBy
<1>4. AskedBound'
  BY DEF IInv, TypeOK, AskedBound, client
<1>5. ListenerReachable'
  BY NobodyElseListens DEF IInv, TypeOK, ListenPhase, ListenerReachable
<1>6. StopMeansClosed'
  BY DEF IInv, TypeOK, StopMeansClosed, AskedBound, client
<1> QED
  BY <1>1, <1>2, <1>3, <1>4, <1>5, <1>6 DEF IInv

LEMMA RemoveSocketIInv ==
    ASSUME IInv, NEW d \in Daemons, RemoveSocket(d)
    PROVE  IInv'
<1> USE LifecycleAssumption DEF RemoveSocket, Goto, Held, Serving, Before
<1>1. TypeOK'
  BY ShutdownType DEF IInv, ShutdownStep
<1>2. LockPhase' /\ ListenPhase'
  BY DEF IInv, TypeOK, LockPhase, ListenPhase
<1>3. HandlerPhase'
  BY DEF IInv, TypeOK, HandlerPhase, LockPhase, calls, HandledBy
<1>4. AskedBound'
  BY DEF IInv, TypeOK, AskedBound, client
<1>5. ListenerReachable'
  BY NobodyElseListens DEF IInv, TypeOK, ListenPhase, ListenerReachable
<1>6. StopMeansClosed'
  BY DEF IInv, TypeOK, StopMeansClosed, AskedBound, client
<1> QED
  BY <1>1, <1>2, <1>3, <1>4, <1>5, <1>6 DEF IInv

LEMMA DropLockIInv ==
    ASSUME IInv, NEW d \in Daemons, DropLock(d)
    PROVE  IInv'
<1> USE LifecycleAssumption DEF DropLock, Goto, Held, Serving, Before
<1>1. TypeOK'
  BY ShutdownType DEF IInv, ShutdownStep
<1>2. LockPhase' /\ ListenPhase'
  BY DEF IInv, TypeOK, LockPhase, ListenPhase
<1>3. HandlerPhase'
  BY DEF IInv, TypeOK, HandlerPhase, LockPhase, calls, HandledBy
<1>4. AskedBound'
  BY DEF IInv, TypeOK, AskedBound, client
<1>5. ListenerReachable'
  BY NobodyElseListens DEF IInv, TypeOK, ListenPhase, ListenerReachable
<1>6. StopMeansClosed'
  BY DEF IInv, TypeOK, StopMeansClosed, AskedBound, client
<1> QED
  BY <1>1, <1>2, <1>3, <1>4, <1>5, <1>6 DEF IInv

LEMMA CrashIInv ==
    ASSUME IInv, NEW d \in Daemons, Crash(d)
    PROVE  IInv'
<1> USE LifecycleAssumption DEF Crash, Goto, Held, Serving, Before, Hangup, InFlight, Running, Up
<1>1. TypeOK'
  BY ShutdownType DEF IInv, ShutdownStep
<1>2. LockPhase' /\ ListenPhase'
  BY DEF IInv, TypeOK, LockPhase, ListenPhase
<1>3. HandlerPhase'
  BY DEF IInv, TypeOK, HandlerPhase, LockPhase, calls, HandledBy
<1>4. AskedBound'
  BY DEF IInv, TypeOK, AskedBound, client
<1>5. ListenerReachable'
  BY NobodyElseListens DEF IInv, TypeOK, ListenPhase, ListenerReachable
<1>6. StopMeansClosed'
  BY DEF IInv, TypeOK, StopMeansClosed, AskedBound, client
<1> QED
  BY <1>1, <1>2, <1>3, <1>4, <1>5, <1>6 DEF IInv

LEMMA PermitIInv ==
    ASSUME IInv, NEW d \in Daemons, NEW q \in Calls, Permit(d, q)
    PROVE  IInv'
<1> USE LifecycleAssumption DEF Permit, disk, process, client
<1>1. TypeOK'
  BY ServeType DEF IInv, ServeStep
<1>2. LockPhase' /\ ListenPhase' /\ AskedBound'
  BY DEF IInv, LockPhase, ListenPhase, AskedBound
<1>3. HandlerPhase'
  BY DEF IInv, TypeOK, HandlerPhase, Serving
<1>4. ListenerReachable' /\ StopMeansClosed'
  BY DEF IInv, ListenerReachable, StopMeansClosed
<1> QED
  BY <1>1, <1>2, <1>3, <1>4 DEF IInv

\* When the path refuses connections, nobody listens at all.
LEMMA UnreachableSilent ==
    ASSUME IInv, Unreachable, NEW d \in Daemons
    PROVE  ~listening[d]
BY DEF IInv, ListenerReachable, Unreachable, Reachable

LEMMA FindDaemonIInv ==
    ASSUME IInv, NEW c \in Clients, FindDaemon(c)
    PROVE  IInv'
<1> USE LifecycleAssumption DEF FindDaemon, Move, disk, process, calls
<1>1. TypeOK'
  BY ClientType DEF IInv, ClientStep
<1>2. LockPhase' /\ ListenPhase' /\ HandlerPhase'
  BY DEF IInv, LockPhase, ListenPhase, HandlerPhase
<1>3. AskedBound'
  <2>1. CASE Unreachable /\ asked' = [asked EXCEPT ![c] = None]
    BY <2>1 DEF IInv, TypeOK, AskedBound
  <2>2. ASSUME NEW d \in Daemons, Reachable(d), asked' = [asked EXCEPT ![c] = d]
        PROVE  AskedBound'
    <3>1. phase[d] \notin Before
      BY <2>2 DEF IInv, ListenPhase, Reachable, Serving, Before
    <3> QED
      BY <2>2, <3>1 DEF IInv, TypeOK, AskedBound
  <2> QED
    BY <2>1, <2>2
<1>4. ListenerReachable'
  BY DEF IInv, ListenerReachable
<1>5. StopMeansClosed'
  <2>1. CASE Unreachable /\ asked' = [asked EXCEPT ![c] = None]
    BY <2>1, UnreachableSilent DEF IInv, TypeOK, StopMeansClosed
  <2>2. CASE cpc' = [cpc EXCEPT ![c] = "ask"] /\ \E d \in Daemons : asked' = [asked EXCEPT ![c] = d]
    BY <2>2 DEF IInv, TypeOK, StopMeansClosed
  <2> QED
    BY <2>1, <2>2
<1> QED
  BY <1>1, <1>2, <1>3, <1>4, <1>5 DEF IInv

LEMMA PollStoppedIInv ==
    ASSUME IInv, NEW c \in Clients, PollStopped(c)
    PROVE  IInv'
<1> USE LifecycleAssumption DEF PollStopped, Move, disk, process, calls
<1>1. TypeOK'
  BY ClientType DEF IInv, ClientStep
<1>2. LockPhase' /\ ListenPhase' /\ HandlerPhase' /\ AskedBound' /\ ListenerReachable'
  BY DEF IInv, LockPhase, ListenPhase, HandlerPhase, AskedBound, ListenerReachable
<1>3. StopMeansClosed'
  <2>1. CASE Unreachable
    BY <2>1, UnreachableSilent DEF IInv, TypeOK, StopMeansClosed
  <2>2. CASE ~Unreachable
    BY <2>2 DEF IInv, TypeOK, StopMeansClosed
  <2> QED
    BY <2>1, <2>2
<1> QED
  BY <1>1, <1>2, <1>3 DEF IInv

LEMMA BootIInv ==
    ASSUME IInv, NEW d \in Daemons, BootStep(d)
    PROVE  IInv'
<1>1. CASE RefuseBoot(d)
  <2>1. TypeOK'
    BY BootType DEF IInv
  <2> QED
    BY <1>1, <2>1, Frame
    DEF RefuseBoot, Goto, Held, Serving, Before, IInv, TypeOK, disk, calls, client
<1> QED
  BY <1>1, AcquireSingleInstanceIInv, OpenStateIInv, RemoveStaleSocketIInv, BindIInv,
     BindFailsIInv DEF BootStep

LEMMA ServeIInv ==
    ASSUME IInv, NEW d \in Daemons, ServeStep(d)
    PROVE  IInv'
<1>1. TypeOK'
  BY ServeType DEF IInv
<1>2. ASSUME NEW q \in Calls, Accept(d, q) \/ DropConnection(d, q)
      PROVE  IInv'
  BY <1>1, <1>2, Frame DEF Accept, DropConnection, IInv, TypeOK, disk, process, client
<1>3. ASSUME NEW q \in Calls, HandleConnection(d, q)
      PROVE  IInv'
  BY <1>1, <1>3, Frame DEF HandleConnection, IInv, TypeOK, disk, client
<1>4. ASSUME NEW k \in Background, BeginPass(d, k) \/ EndPass(d, k) \/ StopLoop(d, k)
      PROVE  IInv'
  BY <1>1, <1>4, Frame DEF BeginPass, EndPass, StopLoop, disk, calls, client
<1>5. CASE IdleCheck(d) \/ IdleCancel(d) \/ Signal(d)
  BY <1>1, <1>5, Frame DEF IdleCheck, IdleCancel, Signal, disk, calls, client
<1> QED
  BY <1>2, <1>3, <1>4, <1>5, PermitIInv DEF ServeStep

LEMMA ShutdownIInv ==
    ASSUME IInv, NEW d \in Daemons, ShutdownStep(d)
    PROVE  IInv'
<1> USE DEF Goto, Held, Serving, Before, disk, process, calls, client
<1>1. TypeOK'
  BY ShutdownType DEF IInv
<1>2. CASE StopAccepting(d)
  BY <1>1, <1>2, Frame DEF StopAccepting, Hangup, IInv, TypeOK
<1>3. CASE DrainDeadline(d)
  BY <1>1, <1>3, Frame DEF DrainDeadline, IInv, TypeOK
<1>4. ASSUME NEW q \in Calls, AbortHandler(d, q)
      PROVE  IInv'
  BY <1>1, <1>4, Frame DEF AbortHandler, IInv, TypeOK
<1>5. CASE JoinMaintenance(d)
  BY <1>1, <1>5, Frame DEF JoinMaintenance, IInv, TypeOK
<1>6. CASE Exit(d)
  BY <1>1, <1>6, Frame DEF Exit, IInv, TypeOK
<1> QED
  BY <1>2, <1>3, <1>4, <1>5, <1>6, CloseListenerIInv, RemoveSocketIInv, DropLockIInv
  DEF ShutdownStep

LEMMA ClientIInv ==
    ASSUME IInv, NEW c \in Clients,
           ClientStep(c) \/ \E o \in Commands[c] : Begin(c, o)
    PROVE  IInv'
<1> USE DEF Move, Waiting, disk, process, calls
<1>1. TypeOK'
  BY ClientType DEF IInv
<1>2. CASE ConnectOrSpawn(c)
  BY <1>1, <1>2, Frame DEF ConnectOrSpawn, IInv, TypeOK
<1>3. CASE ProbeRunningDaemon(c)
  BY <1>1, <1>3, Frame DEF ProbeRunningDaemon, IInv, TypeOK
<1>4. CASE AskShutdown(c)
  BY <1>1, <1>4, Frame, CallsOfClient DEF AskShutdown, Dial, IInv, TypeOK
<1>5. CASE ShutdownCallEnds(c)
  BY <1>1, <1>5, Frame DEF ShutdownCallEnds, IInv, TypeOK
<1>6. CASE SpawnDaemon(c)
  BY <1>1, <1>6, Frame DEF SpawnDaemon, Goto, Held, Serving, Before, IInv, TypeOK
<1>7. CASE WaitForDaemonSocket(c)
  BY <1>1, <1>7, Frame DEF WaitForDaemonSocket, IInv, TypeOK
<1>8. CASE Reconnect(c)
  BY <1>1, <1>8, Frame DEF Reconnect, IInv, TypeOK
<1>9. CASE CallRaw(c)
  <2>1. \A q \in Calls : stage'[q] = "handling" => stage[q] = "handling" /\ peer'[q] = peer[q]
    BY <1>9, CallsOfClient DEF CallRaw, Dial, IInv, TypeOK
  <2>2. \A e \in Clients : cpc'[e] \notin Waiting => cpc[e] \notin Waiting
    BY <1>9 DEF CallRaw, IInv, TypeOK
  <2> QED
    BY <1>1, <1>9, <2>1, <2>2, Frame DEF CallRaw
<1>10. CASE CallEnds(c)
  BY <1>1, <1>10, Frame DEF CallEnds, IInv, TypeOK
<1>11. ASSUME NEW o \in Commands[c], Begin(c, o)
       PROVE  IInv'
  BY <1>1, <1>11, Frame DEF Begin, IInv, TypeOK
<1> QED
  BY <1>2, <1>3, <1>4, <1>5, <1>6, <1>7, <1>8, <1>9, <1>10, <1>11, FindDaemonIInv,
     PollStoppedIInv DEF ClientStep

LEMMA NextIInv == IInv /\ [Next]_vars => IInv'
<1> SUFFICES ASSUME IInv, [Next]_vars PROVE IInv'
  OBVIOUS
<1>1. CASE UNCHANGED vars
  <2>1. TypeOK'
    BY <1>1 DEF IInv, TypeOK, vars, disk, process, calls, client
  <2> QED
    BY <1>1, <2>1, Frame DEF vars, disk, process, calls, client
<1>2. ASSUME NEW d \in Daemons,
             BootStep(d) \/ ServeStep(d) \/ ShutdownStep(d) \/ Crash(d)
      PROVE  IInv'
  BY <1>2, BootIInv, ServeIInv, ShutdownIInv, CrashIInv
<1>3. ASSUME NEW c \in Clients, ClientStep(c) \/ \E o \in Commands[c] : Begin(c, o)
      PROVE  IInv'
  BY <1>3, ClientIInv
<1> QED
  BY <1>1, <1>2, <1>3 DEF Next

-----------------------------------------------------------------------------
(* Theorems *)

\* The inductive invariant holds in every reachable state of the daemon
\* processes and their clients.
THEOREM Invariance == Spec => []IInv
<1>1. Init => IInv
  BY InitIInv
<1>2. IInv /\ [Next]_vars => IInv'
  BY NextIInv
<1> QED
  BY <1>1, <1>2, PTL DEF Spec

\* Type correctness of the daemon processes, the files they share and their
\* clients.
THEOREM TypeCorrect == Spec => []TypeOK
<1>1. IInv => TypeOK
  BY DEF IInv
<1> QED
  BY <1>1, Invariance, PTL

\* No request is handled by a process that has dropped the instance lock:
\* the drain of drain_handlers, with or without its deadline, is over before
\* cleanup runs.
THEOREM AlwaysUnderLock == Spec => []HandlersUnderLock
<1>1. IInv => HandlersUnderLock
  BY DEF IInv, HandlerPhase, LockPhase, Held, HandlersUnderLock, HandledBy
<1> QED
  BY <1>1, Invariance, PTL

\* A listening daemon can always be dialled at the socket path, whatever
\* other processes boot, exit or crash beside it.
THEOREM AlwaysReachable == Spec => []ListenerReachable
<1>1. IInv => ListenerReachable
  BY DEF IInv
<1> QED
  BY <1>1, Invariance, PTL

\* A stop that reported success has ended the service of the daemon it found.
THEOREM StopIsTrue == Spec => []StopMeansClosed
<1>1. IInv => StopMeansClosed
  BY DEF IInv
<1> QED
  BY <1>1, Invariance, PTL

-----------------------------------------------------------------------------
(* The watchdog.  Between two polls the age of the last poll is            *)
(* Poll - pollIn.  A task that has not bumped since was last seen to move  *)
(* at an earlier poll, a whole number of polls ago, and bumped at most one *)
(* poll before that one.  DetectedInTime follows because a poll that finds *)
(* the stall window used up ends the watch.                                *)

\* The ages at which polls happen, counted from a poll.
Rounds == {n * Poll : n \in Nat}

SincePoll == Poll - pollIn

\* The watchdog's clocks; they run only in a process that is alive.
ClocksOK ==
    /\ proc \in {"down", "refused", "up", "draining"}
    /\ wd \in {"off", "arming", "watching", "tripping", "aborting", "stopped"}
    /\ wd # "off" => Alive
    /\ pollIn \in 0 .. Poll
    /\ fresh \in [Task -> BOOLEAN]
    /\ quiet \in [Task -> 0 .. Stall]
    /\ silence \in [Task -> 0 .. Latency + 1]

\* m is the age, at the last poll, of the poll that last saw the task move.
SeenAt(t, m) ==
    /\ m < Stall
    /\ quiet[t] = Lesser(m + SincePoll, Stall)
    /\ quiet[t] <= silence[t]
    /\ silence[t] <= m + SincePoll + Poll

Followed(t) ==
    /\ fresh[t] => silence[t] <= SincePoll
    /\ ~ fresh[t] => \E m \in Rounds : SeenAt(t, m)

WatchInv ==
    /\ ClocksOK
    /\ wd = "watching" => \A t \in Monitored : Followed(t)

\* The stall window is covered by a whole number of polls, and one more poll
\* may pass before the first of them: that is the latency.
LEMMA LatencyCovers ==
    /\ Latency \in Nat /\ Latency >= Stall + Poll /\ 0 \in Rounds
    /\ \A m \in Rounds : /\ m \in Nat /\ m + Poll \in Rounds
                         /\ m < Stall => m + Poll + Poll <= Latency
<1> USE SupervisionAssumption
<1>1. Stall \in Nat \ {0} /\ Poll \in Nat \ {0}
  OBVIOUS
<1> DEFINE a == Stall + Poll - 1
           q == a \div Poll
<1>2. q \in Int /\ a = Poll * q + (a % Poll) /\ a % Poll \in 0 .. Poll - 1
  BY <1>1
<1>3. Poll * q >= Stall
  BY <1>1, <1>2
<1>4. q \in Nat
  BY <1>1, <1>2, <1>3, Z3
<1>5. Latency = Poll * q + Poll
  BY DEF Latency
<1> HIDE DEF q, a
<1>6. Latency \in Nat /\ Latency >= Stall + Poll
  BY <1>1, <1>3, <1>4, <1>5
<1>7. 0 \in Rounds
  <2>1. 0 = 0 * Poll
    BY <1>1
  <2> QED
    BY <2>1 DEF Rounds
<1>8. ASSUME NEW m \in Rounds
      PROVE  /\ m \in Nat /\ m + Poll \in Rounds
             /\ m < Stall => m + Poll + Poll <= Latency
  <2>1. PICK n \in Nat : m = n * Poll
    BY DEF Rounds
  <2>2. m \in Nat /\ m + Poll = (n + 1) * Poll
    BY <1>1, <2>1
  <2>3. m + Poll \in Rounds
    BY <2>2 DEF Rounds
  <2>4. ASSUME m < Stall PROVE m + Poll <= Poll * q
    <3>1. n * Poll < q * Poll
      BY <1>1, <1>3, <1>4, <2>1, <2>4
    <3>2. n < q
      <4> SUFFICES ASSUME n >= q PROVE FALSE
        BY <1>4
      <4>1. n * Poll >= q * Poll
        BY <1>1, <1>4
      <4> QED
        BY <1>1, <1>4, <3>1, <4>1
    <3>3. (n + 1) * Poll <= q * Poll
      BY <1>1, <1>4, <3>2
    <3> QED
      BY <1>1, <1>4, <2>2, <3>3
  <2> QED
    BY <1>1, <1>4, <1>5, <2>2, <2>3, <2>4
<1> QED
  BY <1>6, <1>7, <1>8

\* A fresh task and an unseen one are both within the latency.
LEMMA FollowedInTime ==
    ASSUME ClocksOK, NEW t \in Task, Followed(t)
    PROVE  silence[t] <= Latency
<1> USE SupervisionAssumption, LatencyCovers
<1>1. /\ silence[t] \in Nat /\ pollIn \in 0 .. Poll /\ Poll \in Nat /\ Stall \in Nat
      /\ fresh[t] \in BOOLEAN
  BY DEF ClocksOK
<1>2. CASE fresh[t]
  BY <1>1, <1>2 DEF Followed, SincePoll
<1>3. CASE ~ fresh[t]
  <2>1. PICK m \in Rounds : SeenAt(t, m)
    BY <1>3 DEF Followed
  <2> QED
    BY <1>1, <2>1 DEF SeenAt, SincePoll
<1> QED
  BY <1>2, <1>3

LEMMA InitWatchInv == SVInit => WatchInv
BY SupervisionAssumption, LatencyCovers
   DEF SVInit, WatchInv, ClocksOK, Zero, Fresh0, Alive

\* Steps that leave the watchdog alone.
LEMMA WatchFrame ==
    ASSUME WatchInv, UNCHANGED <<wd, pollIn, fresh, quiet, silence>>,
           proc' = proc \/ (wd = "off" /\ proc' \in {"down", "refused", "up"})
                        \/ (proc' = "draining" /\ proc = "up")
    PROVE  WatchInv'
BY DEF WatchInv, ClocksOK, Alive, Followed, SeenAt, SincePoll

LEMMA GoneWatchInv == ASSUME WatchInv, Gone("down") PROVE WatchInv'
BY SupervisionAssumption, LatencyCovers DEF Gone, WatchInv, ClocksOK, Zero, Fresh0

LEMMA BootWatchInv == ASSUME WatchInv, BootProceed PROVE WatchInv'
BY DEF BootProceed, WatchInv, ClocksOK, Alive

\* A bump resets the silence, whatever the watchdog has seen.
LEMMA BumpWatchInv == ASSUME WatchInv, NEW t \in Task, Bump(t) PROVE WatchInv'
<1> USE SupervisionAssumption, LatencyCovers DEF Bump
<1>1. ClocksOK'
  BY DEF WatchInv, ClocksOK, Alive
<1>2. ASSUME wd = "watching", NEW u \in Monitored PROVE Followed(u)'
  <2>1. /\ fresh'[u] = IF u = t THEN TRUE ELSE fresh[u]
        /\ silence'[u] = IF u = t THEN 0 ELSE silence[u]
        /\ quiet' = quiet /\ pollIn' = pollIn
    BY <1>2 DEF WatchInv, ClocksOK
  <2>2. pollIn \in 0 .. Poll /\ Poll \in Nat
    BY DEF WatchInv, ClocksOK
  <2>3. CASE u = t
    BY ONLY <2>1, <2>2, <2>3 DEF Followed, SincePoll
  <2>4. CASE u # t
    <3>1. Followed(u)
      BY <1>2 DEF WatchInv
    <3> QED
      BY ONLY <2>1, <2>4, <3>1 DEF Followed, SeenAt, SincePoll
  <2> QED
    BY <2>3, <2>4
<1> QED
  BY <1>1, <1>2 DEF WatchInv

\* A watchdog that starts watching has seen every task move.
LEMMA ArmWatchInv == ASSUME WatchInv, Arm PROVE WatchInv'
<1> USE SupervisionAssumption, LatencyCovers DEF Arm
<1>1. Poll \in Nat \ {0} /\ Stall \in Nat \ {0} /\ pollIn' = Poll
  OBVIOUS
<1>2. ClocksOK'
  <2>1. /\ Zero \in [Task -> 0 .. Stall] /\ Zero \in [Task -> 0 .. Latency + 1]
        /\ Fresh0 \in [Task -> BOOLEAN]
    BY <1>1 DEF Zero, Fresh0
  <2>4. /\ quiet' \in [Task -> 0 .. Stall] /\ fresh' \in [Task -> BOOLEAN]
        /\ silence' \in [Task -> 0 .. Latency + 1]
    BY <2>1 DEF WatchInv, ClocksOK
  <2>2. pollIn' \in 0 .. Poll
    BY <1>1
  <2>3. /\ proc' \in {"down", "refused", "up", "draining"} /\ Alive'
        /\ wd' \in {"off", "arming", "watching", "tripping", "aborting", "stopped"}
    BY DEF WatchInv, ClocksOK, Alive
  <2> QED
    BY <2>2, <2>3, <2>4 DEF ClocksOK
<1>3. ASSUME wd' = "watching", NEW u \in Monitored PROVE Followed(u)'
  <2>1. fresh'[u] = FALSE /\ quiet'[u] = 0 /\ silence'[u] = 0
    BY <1>3 DEF Zero, Fresh0
  <2>2. SeenAt(u, 0)' /\ 0 \in Rounds
    BY <1>1, <2>1 DEF SeenAt, SincePoll, Lesser
  <2> QED
    BY <2>1, <2>2 DEF Followed
<1> QED
  BY <1>2, <1>3 DEF WatchInv

\* A poll that finds nothing stalled starts the next round.
LEMMA PollWatchInv == ASSUME WatchInv, PollTasks PROVE WatchInv'
<1> USE SupervisionAssumption, LatencyCovers
<1>1. /\ Poll \in Nat \ {0} /\ Stall \in Nat \ {0} /\ pollIn = 0 /\ wd = "watching"
      /\ UNCHANGED silence
      /\ fresh' = Fresh0
      /\ quiet' = [t \in Task |-> IF fresh[t] THEN 0 ELSE quiet[t]]
      /\ wd' = "watching" => stalled = {} /\ pollIn' = Poll
      /\ pollIn' \in {0, Poll} /\ wd' \in {"watching", "tripping"} /\ UNCHANGED proc
  BY DEF PollTasks
<1>2. ClocksOK'
  <2>1. quiet' \in [Task -> 0 .. Stall] /\ fresh' \in [Task -> BOOLEAN]
    BY <1>1 DEF WatchInv, ClocksOK, Fresh0
  <2>2. pollIn' \in 0 .. Poll /\ silence' \in [Task -> 0 .. Latency + 1]
    BY <1>1 DEF WatchInv, ClocksOK
  <2>3. /\ proc' \in {"down", "refused", "up", "draining"} /\ Alive'
        /\ wd' \in {"off", "arming", "watching", "tripping", "aborting", "stopped"}
    BY <1>1 DEF WatchInv, ClocksOK, Alive
  <2> QED
    BY <2>1, <2>2, <2>3 DEF ClocksOK
<1>3. ASSUME wd' = "watching", NEW u \in Monitored PROVE Followed(u)'
  <2>1. /\ fresh'[u] = FALSE /\ quiet'[u] = IF fresh[u] THEN 0 ELSE quiet[u]
        /\ silence'[u] = silence[u] /\ silence[u] \in Nat /\ quiet[u] \in Nat
        /\ fresh[u] \in BOOLEAN
    BY <1>1 DEF Fresh0, WatchInv, ClocksOK
  <2>2. CASE fresh[u]
    <3>1. silence[u] <= Poll
      BY <1>1, <2>2 DEF WatchInv, Followed, SincePoll
    <3>2. SeenAt(u, 0)'
      BY <1>1, <1>3, <2>1, <2>2, <3>1 DEF SeenAt, SincePoll, Lesser
    <3> QED
      BY <2>1, <3>2 DEF Followed
  <2>3. CASE ~ fresh[u]
    <3>1. quiet[u] < Stall
      BY <1>1, <1>3, <2>1, <2>3 DEF stalled
    <3>2. PICK m \in Rounds : SeenAt(u, m)
      BY <1>1, <2>3 DEF WatchInv, Followed
    <3>3. m \in Nat /\ quiet[u] = m + Poll
      BY <1>1, <3>1, <3>2 DEF SeenAt, SincePoll, Lesser
    <3>4. SeenAt(u, m + Poll)'
      BY <1>1, <1>3, <2>1, <2>3, <3>1, <3>2, <3>3 DEF SeenAt, SincePoll, Lesser
    <3> QED
      BY <2>1, <3>2, <3>4 DEF Followed
  <2> QED
    BY <2>1, <2>2, <2>3
<1> QED
  BY <1>2, <1>3 DEF WatchInv

\* No time passes while a poll or a trip is due.
LEMMA TickWatchInv == ASSUME WatchInv, Tick PROVE WatchInv'
<1> USE SupervisionAssumption, LatencyCovers
<1>1. /\ Poll \in Nat \ {0} /\ Stall \in Nat \ {0}
      /\ UNCHANGED <<proc, wd, fresh>>
      /\ pollIn' = IF wd \in {"arming", "watching"} THEN pollIn - 1 ELSE pollIn
      /\ wd \in {"arming", "watching"} => pollIn # 0
      /\ quiet' = [t \in Task |-> IF wd = "watching" /\ t \in Monitored
                                  THEN Lesser(quiet[t] + 1, Stall) ELSE quiet[t]]
      /\ silence' = [t \in Task |-> IF wd = "watching" /\ t \in Monitored
                                    THEN Lesser(silence[t] + 1, Latency + 1) ELSE silence[t]]
  BY DEF Tick, Due, WatchInv, ClocksOK
<1>2. ClocksOK'
  BY <1>1 DEF WatchInv, ClocksOK, Alive, Lesser
<1>3. ASSUME wd = "watching", NEW u \in Monitored PROVE Followed(u)'
  <2>1. /\ fresh'[u] = fresh[u] /\ fresh[u] \in BOOLEAN
        /\ quiet'[u] = Lesser(quiet[u] + 1, Stall)
        /\ silence'[u] = Lesser(silence[u] + 1, Latency + 1)
        /\ silence[u] \in Nat /\ quiet[u] \in Nat
        /\ pollIn \in 0 .. Poll /\ pollIn' = pollIn - 1
        /\ Followed(u)
    BY <1>1, <1>3 DEF WatchInv, ClocksOK
  <2>2. CASE fresh[u]
    BY <1>1, <2>1, <2>2 DEF Followed, SincePoll, Lesser
  <2>3. CASE ~ fresh[u]
    <3>1. PICK m \in Rounds : SeenAt(u, m)
      BY <2>1, <2>3 DEF Followed
    <3>2. SeenAt(u, m)'
      BY <1>1, <2>1, <3>1 DEF SeenAt, SincePoll, Lesser
    <3> QED
      BY <2>1, <2>3, <3>2 DEF Followed
  <2> QED
    BY <2>1, <2>2, <2>3
<1> QED
  BY <1>1, <1>2, <1>3 DEF WatchInv

LEMMA NextWatchInv == WatchInv /\ [SVNext]_SVvars => WatchInv'
<1> SUFFICES ASSUME WatchInv, [SVNext]_SVvars PROVE WatchInv'
  OBVIOUS
<1>1. CASE BootRefused \/ Respawn
  <2>1. wd = "off"
    BY <1>1 DEF BootRefused, Respawn, WatchInv, ClocksOK, Alive
  <2> QED
    BY <1>1, <2>1, WatchFrame DEF BootRefused, Respawn, watchdog
<1>2. CASE BootProceed
  BY <1>2, BootWatchInv
<1>3. ASSUME NEW t \in Task, Bump(t) PROVE WatchInv'
  BY <1>3, BumpWatchInv
<1>4. ASSUME NEW t \in Task, Finish(t) \/ Panic(t) \/ Restart(t) \/ EndMonitor(t)
      PROVE WatchInv'
  BY <1>4, WatchFrame DEF Finish, Panic, Restart, EndMonitor, watchdog
<1>5. CASE Shutdown
  BY <1>5, WatchFrame DEF Shutdown, watchdog
<1>6. CASE DrainEnds \/ Kill \/ Abort
  BY <1>6, GoneWatchInv DEF DrainEnds, Kill, Abort
<1>7. CASE Arm
  BY <1>7, ArmWatchInv
<1>8. CASE PollTasks
  BY <1>8, PollWatchInv
<1>9. CASE RecordTrip \/ StopWatchdog
  BY <1>9, SupervisionAssumption DEF RecordTrip, StopWatchdog, WatchInv, ClocksOK, Alive
<1>10. CASE Tick
  BY <1>10, TickWatchInv
<1>11. CASE SetClockBack
  BY <1>11, WatchFrame DEF SetClockBack, watchdog
<1>12. CASE UNCHANGED SVvars
  BY <1>12, WatchFrame DEF SVvars, watchdog
<1> QED
  BY <1>1, <1>2, <1>3, <1>4, <1>5, <1>6, <1>7, <1>8, <1>9, <1>10, <1>11, <1>12 DEF SVNext

\* While the watchdog watches, no monitored task has been silent for longer
\* than the polls that cover the stall window and one poll more, whatever
\* panics, restarts and bumps come between the polls (StallTracker).
THEOREM StallDetectedInTime == SVSpec => []DetectedInTime
<1>1. WatchInv => DetectedInTime
  BY FollowedInTime, SupervisionAssumption DEF WatchInv, DetectedInTime
<1> QED
  BY <1>1, InitWatchInv, NextWatchInv, PTL DEF SVSpec

\* A task that is found stalled has been silent for the whole window.
LEMMA TripJustified ==
    ASSUME WatchInv, [SVNext]_SVvars, wd = "watching", wd' = "tripping"
    PROVE  \E t \in Monitored : silence[t] >= Stall
<1>1. PollTasks
  <2>1. ~ (\E t \in Task : Bump(t) \/ Finish(t) \/ Panic(t) \/ Restart(t) \/ EndMonitor(t))
    BY DEF Bump, Finish, Panic, Restart, EndMonitor, watchdog
  <2>2. ~ (BootRefused \/ Respawn \/ BootProceed \/ Shutdown \/ SetClockBack)
    BY DEF BootRefused, Respawn, BootProceed, Shutdown, SetClockBack, watchdog
  <2>3. ~ (DrainEnds \/ Kill \/ Abort \/ Arm \/ RecordTrip \/ StopWatchdog \/ Tick)
    BY DEF DrainEnds, Kill, Abort, Gone, Arm, RecordTrip, StopWatchdog, Tick
  <2> QED
    BY <2>1, <2>2, <2>3 DEF SVNext, SVvars, watchdog
<1>2. PICK t \in Monitored : ~ fresh[t] /\ quiet[t] >= Stall
  BY <1>1 DEF PollTasks, stalled
<1>3. PICK m \in Rounds : SeenAt(t, m)
  BY <1>2 DEF WatchInv, Followed
<1>4. quiet[t] \in Int /\ silence[t] \in Int /\ Stall \in Int
  BY <1>2, SupervisionAssumption, LatencyCovers DEF WatchInv, ClocksOK
<1> QED
  BY <1>2, <1>3, <1>4 DEF SeenAt

\* The watchdog decides to trip only when some monitored task has been silent
\* for the whole stall window: its own clock never runs ahead of the task's
\* silence, for any number of tasks and any poll (stalled_tasks).
THEOREM NeverTripsFalsely == SVSpec => NoFalseTrip
<1>1. WatchInv /\ [SVNext]_SVvars =>
         [wd = "watching" /\ wd' = "tripping"
            => \E t \in Monitored : silence[t] >= Stall]_SVvars
  BY TripJustified
<1> QED
  BY <1>1, InitWatchInv, NextWatchInv, PTL DEF SVSpec, NoFalseTrip

-----------------------------------------------------------------------------
(* Supervision: the backoff of a boot.                                     *)

\* Powers of two, counted as subsets.
LEMMA PowersGrow ==
    ASSUME NEW m \in Nat, NEW n \in Nat, m <= n
    PROVE  2^m \in Nat /\ 2^n \in Nat /\ 2^m <= 2^n
<1>1. ASSUME NEW k \in Nat
      PROVE  /\ IsFiniteSet(1 .. k) /\ Cardinality(1 .. k) = k
             /\ IsFiniteSet(SUBSET (1 .. k)) /\ Cardinality(SUBSET (1 .. k)) = 2^k
  <2>1. IsFiniteSet(1 .. k) /\ Cardinality(1 .. k) = k
    BY FS_Interval
  <2> QED
    BY <2>1, FS_SUBSET
<1>2. SUBSET (1 .. m) \subseteq SUBSET (1 .. n)
  OBVIOUS
<1>3. Cardinality(SUBSET (1 .. m)) <= Cardinality(SUBSET (1 .. n))
  BY <1>1, <1>2, FS_Subset
<1>4. 2^m \in Nat /\ 2^n \in Nat
  BY <1>1, FS_CardinalityType
<1> QED
  BY <1>1, <1>3, <1>4

LEMMA ProductGrows ==
    ASSUME NEW x \in Nat, NEW a \in Nat, NEW b \in Nat, a <= b PROVE x * a <= x * b
  OBVIOUS

\* The numbers of the boot backoff.
LEMMA BootNumbers ==
    /\ BootFloor \in Nat /\ BootCap \in Nat /\ Bits \in Nat /\ Decay \in Nat
    /\ 1 <= Bits /\ BootFloor <= BootCap /\ BootCap <= 2^Bits - 1 /\ 2^Bits \in Nat
    /\ MaxStored \in Nat /\ 2 <= MaxStored /\ MaxBack \in Nat /\ BootFloor <= Decay
<1>1. /\ BootFloor \in Nat \ {0} /\ BootCap \in Nat \ {0} /\ Bits \in Nat \ {0}
      /\ Decay \in Nat \ {0} /\ MaxStored \in Nat \ {0}
  BY SupervisionAssumption DEF SupervisionAssumption
<1>2. BootCap \in 0 .. 2^Bits - 1 /\ BootFloor <= BootCap /\ MaxBack \in Nat
  BY SupervisionAssumption DEF SupervisionAssumption
<1>3. 2^Bits \in Nat
  BY <1>1, PowersGrow
<1> QED
  BY <1>1, <1>2, <1>3, DecayAssumption DEF DecayAssumption

\* A curve never falls, starts at its floor and stays below its cap.
LEMMA CurveGrows ==
    ASSUME NEW floor \in Nat, NEW cap \in Nat, floor <= cap, cap <= 2^Bits - 1,
           NEW m \in Nat \ {0}, NEW n \in Nat, m <= n
    PROVE  /\ Backoff(floor, cap, m) \in Nat
           /\ Backoff(floor, cap, m) <= Backoff(floor, cap, n)
           /\ floor <= Backoff(floor, cap, m) /\ Backoff(floor, cap, m) <= cap
<1> DEFINE j == Lesser(m - 1, Bits - 1)
           k == Lesser(n - 1, Bits - 1)
<1>1. j \in Nat /\ k \in Nat /\ 0 <= j /\ j <= k
  BY BootNumbers DEF Lesser
<1> HIDE DEF j, k
<1>2. 2^0 = 1 /\ 0 \in Nat
  OBVIOUS
<1>3. 2^j \in Nat /\ 2^k \in Nat /\ 1 <= 2^j /\ 2^j <= 2^k
  BY <1>1, <1>2, PowersGrow
<1> DEFINE a == 2^j
           b == 2^k
           top == 2^Bits
<1>4. a \in Nat /\ b \in Nat /\ 1 <= a /\ a <= b /\ top \in Nat /\ cap <= top - 1
  BY <1>3, BootNumbers
<1>5. /\ Backoff(floor, cap, m) = Lesser(Lesser(floor * a, top - 1), cap)
      /\ Backoff(floor, cap, n) = Lesser(Lesser(floor * b, top - 1), cap)
  BY DEF Backoff, j, k
<1> HIDE DEF a, b, top
<1> DEFINE x == floor * a
           y == floor * b
<1>6. floor * 1 = floor /\ floor * 1 <= x /\ x <= y /\ x \in Nat /\ y \in Nat
  BY <1>4, ProductGrows
<1> HIDE DEF x, y
<1>7. /\ Backoff(floor, cap, m) = Lesser(Lesser(x, top - 1), cap)
      /\ Backoff(floor, cap, n) = Lesser(Lesser(y, top - 1), cap)
  BY <1>5 DEF x, y
<1> QED
  BY <1>4, <1>6, <1>7 DEF Lesser

\* The curve of the boots.
LEMMA BackoffGrows ==
    ASSUME NEW m \in Nat \ {0}, NEW n \in Nat, m <= n
    PROVE  /\ Backoff(BootFloor, BootCap, m) \in Nat
           /\ Backoff(BootFloor, BootCap, m) <= Backoff(BootFloor, BootCap, n)
           /\ BootFloor <= Backoff(BootFloor, BootCap, m)
BY BootNumbers, CurveGrows

-----------------------------------------------------------------------------
(* Supervision: the trip file.                                             *)

\* As long as the clock was not set back the file tells real time: its last
\* trip is the last one, and the one before it is the one before.
TripInv ==
    /\ back \in Nat /\ gap \in Nat /\ sinceTrip \in 0 .. Decay + 1
    /\ back = 0 =>
         /\ trips \in Seq(Int)
         /\ \A i \in DOMAIN trips : 0 <= trips[i]
         /\ trips = <<>> => sinceTrip = Decay + 1
         /\ trips # <<>> => sinceTrip = Lesser(trips[Len(trips)], Decay + 1)
         /\ gap + sinceTrip <= Decay =>
              Len(trips) >= 2 /\ trips[Len(trips) - 1] = gap + sinceTrip

LEMMA InitTripInv == SVInit => TripInv
BY BootNumbers DEF SVInit, TripInv

LEMMA NewestEnds ==
    ASSUME NEW s \in Seq(Int), NEW n \in Nat, 2 <= n
    PROVE  /\ newest(s, n) \in Seq(Int) /\ Len(newest(s, n)) = Lesser(Len(s), n)
           /\ \A i \in DOMAIN newest(s, n) : \E j \in DOMAIN s : newest(s, n)[i] = s[j]
           /\ Len(s) >= 1 => newest(s, n)[Len(newest(s, n))] = s[Len(s)]
           /\ Len(s) >= 2 => newest(s, n)[Len(newest(s, n)) - 1] = s[Len(s) - 1]
<1>1. Len(s) \in Nat
  OBVIOUS
<1>2. CASE Len(s) <= n
  BY <1>1, <1>2 DEF newest, Lesser
<1>3. CASE Len(s) > n
  <2> DEFINE first == Len(s) - n + 1
             t == SubSeq(s, first, Len(s))
  <2>1. first \in 1 .. Len(s) /\ Len(s) - first + 1 = n
    BY <1>1, <1>3
  <2> HIDE DEF first
  <2>2. /\ t \in Seq(Int) /\ Len(t) = n
        /\ \A i \in 1 .. n : t[i] = s[first + i - 1] /\ first + i - 1 \in 1 .. Len(s)
    <3>1. t \in Seq(Int) /\ Len(t) = n
      BY <1>1, <2>1
    <3>2. ASSUME NEW i \in 1 .. n PROVE t[i] = s[first + i - 1] /\ first + i - 1 \in 1 .. Len(s)
      <4>1. i \in 1 .. (Len(s) - first + 1)
        BY <2>1
      <4>2. first + i - 1 \in 1 .. Len(s)
        BY ONLY <1>1, <2>1, i \in 1 .. n, n \in Nat
      <4> QED
        BY <1>1, <2>1, <4>1, <4>2
    <3> QED
      BY <3>1, <3>2
  <2>3. newest(s, n) = t
    BY <1>1, <1>3 DEF newest, first
  <2> HIDE DEF t
  <2>4. t[n] = s[Len(s)] /\ t[n - 1] = s[Len(s) - 1]
    <3>1. n \in 1 .. n /\ n - 1 \in 1 .. n
      OBVIOUS
    <3>2. first + n - 1 = Len(s) /\ first + (n - 1) - 1 = Len(s) - 1
      BY <1>1 DEF first
    <3>3. t[n] = s[first + n - 1] /\ t[n - 1] = s[first + (n - 1) - 1]
      BY <2>2, <3>1
    <3> QED
      BY <3>2, <3>3
  <2>5. /\ newest(s, n) \in Seq(Int) /\ Len(newest(s, n)) = n /\ Lesser(Len(s), n) = n
        /\ DOMAIN newest(s, n) = 1 .. n
    BY <1>1, <1>3, <2>2, <2>3 DEF Lesser
  <2>6. ASSUME NEW i \in 1 .. n PROVE \E j \in DOMAIN s : newest(s, n)[i] = s[j]
    <3>0. DOMAIN s = 1 .. Len(s)
      OBVIOUS
    <3>1. t[i] = s[first + i - 1] /\ first + i - 1 \in 1 .. Len(s)
      BY ONLY <2>2, i \in 1 .. n
    <3>2. first + i - 1 \in DOMAIN s /\ newest(s, n)[i] = s[first + i - 1]
      BY ONLY <2>3, <3>0, <3>1
    <3> QED
      BY <3>2
  <2> QED
    BY <2>3, <2>4, <2>5, <2>6
<1> QED
  BY <1>1, <1>2, <1>3

\* What a boot reads while the clock was not set back.
LEMMA RecentEnds ==
    ASSUME TripInv, back = 0
    PROVE  LET recent == read_recent_trips
               n == Len(trips)
               k == Len(recent)
           IN  /\ recent \in Seq(Int) /\ \A i \in DOMAIN recent : 0 <= recent[i]
               /\ n >= 1 /\ trips[n] <= Decay => k >= 1 /\ recent[k] = trips[n]
               /\ n >= 2 /\ trips[n] <= Decay /\ trips[n - 1] <= Decay => k >= 2
<1> DEFINE n == Len(trips)
           D == {i \in DOMAIN trips : trips[i] > Decay}
           F == {i \in DOMAIN trips : trips[i] < 0}
           d == Cardinality(D)
           kept == SubSeq(trips, d + 1, n)
<1>1. /\ trips \in Seq(Int) /\ n \in Nat /\ DOMAIN trips = 1 .. n
      /\ \A i \in 1 .. n : trips[i] \in Int /\ 0 <= trips[i]
  BY DEF TripInv
<1>2. F = {}
  BY <1>1
<1>3. Cardinality(F) = 0
  BY <1>2, FS_EmptySet
<1>4. \A m \in Nat : D \subseteq 1 .. m => d \in Nat /\ d <= m
  <2> SUFFICES ASSUME NEW m \in Nat, D \subseteq 1 .. m PROVE d \in Nat /\ d <= m
    OBVIOUS
  <2>1. IsFiniteSet(1 .. m) /\ Cardinality(1 .. m) = m
    BY FS_Interval
  <2> QED
    BY <2>1, FS_Subset, FS_CardinalityType
<1>5. d \in Nat /\ d <= n
  <2>1. D \subseteq 1 .. n
    BY <1>1
  <2> QED
    BY <1>1, <1>4, <2>1
<1>6. ASSUME n >= 1, trips[n] <= Decay PROVE d <= n - 1
  <2>1. D \subseteq 1 .. (n - 1) /\ n - 1 \in Nat
    BY <1>1, <1>6, BootNumbers
  <2> QED
    BY <1>4, <2>1
<1>7. ASSUME n >= 2, trips[n] <= Decay, trips[n - 1] <= Decay PROVE d <= n - 2
  <2>1. D \subseteq 1 .. (n - 2) /\ n - 2 \in Nat
    <3>1. \A i \in D : i \in 1 .. n /\ i # n /\ i # n - 1
      BY <1>1, <1>7, BootNumbers
    <3> HIDE DEF D
    <3> QED
      BY <1>1, <1>7, <3>1
  <2> QED
    BY <1>4, <2>1
<1>8. read_recent_trips = newest(kept, MaxStored)
  <2>1. Len(trips) - Cardinality(F) = n
    BY <1>1, <1>3
  <2> QED
    BY <2>1 DEF read_recent_trips
<1> HIDE DEF D, F, d, n
<1>9. /\ kept \in Seq(Int) /\ Len(kept) = n - d
      /\ \A i \in 1 .. (n - d) : kept[i] = trips[d + i] /\ d + i \in 1 .. n
  BY <1>1, <1>5
<1> HIDE DEF kept
<1>10. \A i \in DOMAIN kept : 0 <= kept[i]
  BY <1>1, <1>5, <1>9
<1>11. n - d >= 1 => kept[Len(kept)] = trips[n]
  BY <1>1, <1>5, <1>9
<1> DEFINE recent == newest(kept, MaxStored)
<1>12. /\ recent \in Seq(Int) /\ Len(recent) = Lesser(n - d, MaxStored)
       /\ \A i \in DOMAIN recent : \E j \in DOMAIN kept : recent[i] = kept[j]
       /\ n - d >= 1 => recent[Len(recent)] = kept[Len(kept)]
  BY <1>9, BootNumbers, NewestEnds
<1> HIDE DEF recent
<1>13. \A i \in DOMAIN recent : 0 <= recent[i]
  BY <1>10, <1>12
<1>14. n - d >= 1 => Len(recent) >= 1 /\ recent[Len(recent)] = trips[n]
  BY <1>1, <1>5, <1>11, <1>12, BootNumbers DEF Lesser
<1>15. n - d >= 2 => Len(recent) >= 2
  BY <1>1, <1>5, <1>12, BootNumbers DEF Lesser
<1>16. n >= 1 /\ trips[n] <= Decay => n - d >= 1
  BY <1>1, <1>5, <1>6
<1>17. n >= 2 /\ trips[n] <= Decay /\ trips[n - 1] <= Decay => n - d >= 2
  BY <1>1, <1>5, <1>7
<1> QED
  BY <1>8, <1>12, <1>13, <1>14, <1>15, <1>16, <1>17 DEF recent, n

LEMMA TripFrame == ASSUME TripInv, UNCHANGED bootfile PROVE TripInv'
BY DEF TripInv, bootfile

LEMMA RecordTripInv == ASSUME TripInv, RecordTrip PROVE TripInv'
<1>1. CASE UNCHANGED <<trips, gap, sinceTrip>>
  BY <1>1 DEF RecordTrip, TripInv
<1>2. CASE trips' = record_trip /\ gap' = sinceTrip /\ sinceTrip' = 0
  <2>1. back' = back
    BY DEF RecordTrip
  <2>2. /\ back = 0 => trips \in Seq(Int)
        /\ back \in Nat /\ gap \in Nat /\ sinceTrip \in 0 .. Decay + 1
    BY DEF TripInv
  <2>3. CASE back = 0
    <3> DEFINE recent == read_recent_trips
               k == Len(recent)
               n == Len(trips)
               s == Append(recent, 0)
    <3>1. /\ recent \in Seq(Int) /\ \A i \in DOMAIN recent : 0 <= recent[i]
          /\ n >= 1 /\ trips[n] <= Decay => k >= 1 /\ recent[k] = trips[n]
      BY <2>3, RecentEnds
    <3>2. n \in Nat /\ (n >= 1 <=> trips # <<>>) /\ (n >= 1 => trips[n] \in Int)
      BY <2>2, <2>3
    <3>3. sinceTrip <= Decay => n >= 1 /\ trips[n] = sinceTrip
      BY <2>2, <2>3, <3>2, BootNumbers DEF TripInv, Lesser
    <3> HIDE DEF recent, n
    <3>4. /\ s \in Seq(Int) /\ Len(s) = k + 1 /\ k \in Nat /\ s[k + 1] = 0
          /\ \A i \in DOMAIN s : 0 <= s[i]
          /\ k >= 1 => s[k] = recent[k]
      BY <3>1
    <3>5. trips' = newest(s, MaxStored)
      BY <1>2 DEF record_trip, recent
    <3> HIDE DEF s, k
    <3>6. /\ trips' \in Seq(Int) /\ Len(trips') = Lesser(k + 1, MaxStored)
          /\ \A i \in DOMAIN trips' : 0 <= trips'[i]
          /\ trips'[Len(trips')] = 0
          /\ k >= 1 => trips'[Len(trips') - 1] = recent[k]
      <4> DEFINE t == newest(s, MaxStored)
      <4>1. /\ t \in Seq(Int) /\ Len(t) = Lesser(Len(s), MaxStored)
            /\ \A i \in DOMAIN t : \E j \in DOMAIN s : t[i] = s[j]
            /\ Len(s) >= 1 => t[Len(t)] = s[Len(s)]
            /\ Len(s) >= 2 => t[Len(t) - 1] = s[Len(s) - 1]
        BY <3>4, BootNumbers, NewestEnds
      <4> HIDE DEF t
      <4>2. \A i \in DOMAIN t : 0 <= t[i]
        BY <3>4, <4>1
      <4>3. t[Len(t)] = 0 /\ (k >= 1 => t[Len(t) - 1] = recent[k])
        <5>1. Len(s) >= 1 /\ Len(s) - 1 = k /\ (k >= 1 => Len(s) >= 2)
          BY <3>4
        <5> QED
          BY <3>4, <4>1, <5>1
      <4> QED
        BY <3>4, <3>5, <4>1, <4>2, <4>3 DEF t
    <3>7. Len(trips') >= 1 /\ (k >= 1 => Len(trips') >= 2)
      BY <3>4, <3>6, BootNumbers DEF Lesser
    <3>8. trips' # <<>> /\ Lesser(0, Decay + 1) = 0
      BY <3>7, BootNumbers DEF Lesser
    <3>9. sinceTrip + 0 <= Decay =>
            Len(trips') >= 2 /\ trips'[Len(trips') - 1] = sinceTrip + 0
      BY <2>2, <3>1, <3>3, <3>6, <3>7 DEF k, n
    <3> QED
      BY <1>2, <2>1, <2>2, <2>3, <3>6, <3>8, <3>9, BootNumbers DEF TripInv
  <2>4. CASE back # 0
    BY <1>2, <2>1, <2>2, <2>4, BootNumbers DEF TripInv
  <2> QED
    BY <2>3, <2>4
<1> QED
  BY <1>1, <1>2 DEF RecordTrip

LEMMA TickTripInv == ASSUME TripInv, Tick PROVE TripInv'
<1>1. /\ trips' = [i \in 1 .. Len(trips) |-> Lesser(trips[i] + 1, Forgotten)]
      /\ sinceTrip' = Lesser(sinceTrip + 1, Decay + 1)
      /\ gap' = (IF gap + sinceTrip' > Decay THEN Decay + 1 ELSE gap) /\ back' = back
  BY DEF Tick
<1>2. back \in Nat /\ gap \in Nat /\ sinceTrip \in 0 .. Decay + 1
  BY DEF TripInv
<1>3. gap' \in Nat /\ sinceTrip' \in 0 .. Decay + 1
  BY <1>1, <1>2, BootNumbers DEF Lesser
<1>4. CASE back # 0
  BY <1>1, <1>2, <1>3, <1>4 DEF TripInv
<1>5. CASE back = 0
  <2> DEFINE n == Len(trips)
  <2>1. /\ trips \in Seq(Int) /\ n \in Nat /\ DOMAIN trips = 1 .. n
        /\ \A i \in 1 .. n : trips[i] \in Int /\ 0 <= trips[i]
        /\ trips = <<>> => sinceTrip = Decay + 1
        /\ trips # <<>> => sinceTrip = Lesser(trips[n], Decay + 1)
        /\ gap + sinceTrip <= Decay => n >= 2 /\ trips[n - 1] = gap + sinceTrip
    BY <1>5 DEF TripInv
  <2>2. Forgotten \in Nat /\ Decay + 1 <= Forgotten
    BY BootNumbers DEF Forgotten
  <2>3. \A i \in 1 .. n : Lesser(trips[i] + 1, Forgotten) \in Int /\ 0 <= Lesser(trips[i] + 1, Forgotten)
    BY <2>1, <2>2 DEF Lesser
  <2>4. /\ trips' \in Seq(Int) /\ Len(trips') = n /\ DOMAIN trips' = 1 .. n
        /\ \A i \in 1 .. n : trips'[i] = Lesser(trips[i] + 1, Forgotten)
    BY <1>1, <2>1, <2>3
  <2>5. trips' = <<>> <=> trips = <<>>
    BY <2>1, <2>4
  <2>6. trips' = <<>> => sinceTrip' = Decay + 1
    BY <1>1, <2>1, <2>5, BootNumbers DEF Lesser
  <2> HIDE DEF n
  <2>7. ASSUME trips # <<>> PROVE sinceTrip' = Lesser(trips'[n], Decay + 1)
    <3>1. n \in 1 .. n /\ trips[n] \in Int
      BY <2>1, <2>7 DEF n
    <3>2. trips'[n] = Lesser(trips[n] + 1, Forgotten)
      BY <2>4, <3>1
    <3> QED
      BY <1>1, <2>1, <2>2, <2>7, <3>1, <3>2, BootNumbers DEF Lesser
  <2>8. ASSUME gap' + sinceTrip' <= Decay PROVE n >= 2 /\ trips'[n - 1] = gap' + sinceTrip'
    <3>1. /\ gap' = gap /\ sinceTrip' = sinceTrip + 1 /\ gap + sinceTrip <= Decay
          /\ gap + sinceTrip + 1 <= Decay
      BY <1>1, <1>2, <1>3, <2>8, BootNumbers DEF Lesser
    <3>2. n >= 2 /\ n - 1 \in 1 .. n /\ trips[n - 1] = gap + sinceTrip
      BY <2>1, <3>1
    <3>3. trips'[n - 1] = Lesser(trips[n - 1] + 1, Forgotten)
      BY <2>4, <3>2
    <3> QED
      BY <1>2, <2>2, <3>1, <3>2, <3>3, BootNumbers DEF Lesser
  <2> QED
    BY <1>1, <1>2, <1>3, <2>1, <2>3, <2>4, <2>5, <2>6, <2>7, <2>8 DEF TripInv
<1> QED
  BY <1>4, <1>5

LEMMA NextTripInv == TripInv /\ [SVNext]_SVvars => TripInv'
<1> SUFFICES ASSUME TripInv, [SVNext]_SVvars PROVE TripInv'
  OBVIOUS
<1>1. CASE UNCHANGED bootfile
  BY <1>1, TripFrame
<1>2. CASE RecordTrip
  BY <1>2, RecordTripInv
<1>3. CASE Tick
  BY <1>3, TickTripInv
<1>4. CASE SetClockBack
  BY <1>4 DEF SetClockBack, TripInv
<1>5. CASE UNCHANGED SVvars
  BY <1>1, <1>5 DEF SVvars
<1>6. ASSUME NEW t \in Task, Bump(t) \/ Finish(t) \/ Panic(t) \/ Restart(t) \/ EndMonitor(t)
      PROVE  UNCHANGED bootfile
  BY <1>6 DEF Bump, Finish, Panic, Restart, EndMonitor
<1>7. CASE BootRefused \/ Respawn \/ BootProceed \/ Shutdown \/ DrainEnds \/ Kill
           \/ Arm \/ PollTasks \/ Abort \/ StopWatchdog
  BY <1>1, <1>7 DEF BootRefused, Respawn, BootProceed, Shutdown, DrainEnds, Kill,
     Arm, PollTasks, Abort, StopWatchdog
<1> QED
  BY <1>1, <1>2, <1>3, <1>4, <1>5, <1>6, <1>7 DEF SVNext

\* Only a boot that proceeds brings a process up.
LEMMA UpByBoot ==
    ASSUME [SVNext]_SVvars, proc = "down", proc' = "up" PROVE BootProceed
<1>1. ~ (\E t \in Task : Bump(t) \/ Finish(t) \/ Panic(t) \/ Restart(t) \/ EndMonitor(t))
  BY DEF Bump, Finish, Panic, Restart, EndMonitor
<1> QED
  BY <1>1 DEF SVNext, SVvars, BootRefused, Respawn, Shutdown, DrainEnds, Kill, Gone,
     Arm, PollTasks, RecordTrip, Abort, StopWatchdog, Tick, SetClockBack

LEMMA BootWaits ==
    ASSUME TripInv, BootProceed, back = 0
    PROVE  /\ sinceTrip >= BootFloor
           /\ gap + sinceTrip <= Decay => sinceTrip >= Backoff(BootFloor, BootCap, 2)
<1> DEFINE n == Len(trips)
           recent == read_recent_trips
           k == Len(recent)
<1>1. /\ recent \in Seq(Int)
      /\ n >= 1 /\ trips[n] <= Decay => k >= 1 /\ recent[k] = trips[n]
      /\ n >= 2 /\ trips[n] <= Decay /\ trips[n - 1] <= Decay => k >= 2
  BY RecentEnds
<1>2. /\ trips \in Seq(Int) /\ n \in Nat /\ gap \in Nat /\ sinceTrip \in 0 .. Decay + 1
      /\ \A i \in 1 .. n : trips[i] \in Int
      /\ sinceTrip <= Decay => n >= 1 /\ trips[n] = sinceTrip
      /\ gap + sinceTrip <= Decay => n >= 2 /\ trips[n - 1] <= Decay /\ sinceTrip <= Decay
  BY BootNumbers DEF TripInv, Lesser
<1>3. k \in Nat /\ (recent = <<>> <=> k = 0)
  BY <1>1
<1>4. retry_after = 0
  BY DEF BootProceed
<1>5. ASSUME k >= 1, recent[k] = sinceTrip
      PROVE  sinceTrip >= Backoff(BootFloor, BootCap, k)
  <2>1. Backoff(BootFloor, BootCap, k) \in Nat
    BY <1>3, <1>5, BackoffGrows
  <2>2. recent # <<>>
    BY <1>3, <1>5
  <2> DEFINE wait == Backoff(BootFloor, BootCap, k)
  <2>3. 0 = IF recent = <<>> \/ recent[k] >= wait THEN 0 ELSE wait - recent[k]
    BY <1>4 DEF retry_after, backoff_secs
  <2> HIDE DEF recent, k, wait
  <2> QED
    BY <1>2, <1>5, <2>1, <2>2, <2>3 DEF wait
<1> HIDE DEF recent, n, k
<1>6. CASE sinceTrip <= Decay
  <2>1. k >= 1 /\ sinceTrip >= Backoff(BootFloor, BootCap, k)
    BY <1>1, <1>2, <1>5, <1>6
  <2>2. /\ Backoff(BootFloor, BootCap, k) \in Nat
        /\ BootFloor <= Backoff(BootFloor, BootCap, k)
    BY <1>3, <2>1, BackoffGrows
  <2>3. sinceTrip >= BootFloor
    BY <1>2, <2>1, <2>2, BootNumbers
  <2>4. ASSUME gap + sinceTrip <= Decay PROVE sinceTrip >= Backoff(BootFloor, BootCap, 2)
    <3>1. k >= 2
      BY <1>1, <1>2, <2>4
    <3>2. /\ Backoff(BootFloor, BootCap, 2) \in Nat
          /\ Backoff(BootFloor, BootCap, 2) <= Backoff(BootFloor, BootCap, k)
      BY <1>3, <3>1, BackoffGrows
    <3> QED
      BY <1>2, <2>1, <2>2, <3>2
  <2> QED
    BY <2>3, <2>4
<1>7. CASE ~ (sinceTrip <= Decay)
  BY <1>2, <1>7, BootNumbers
<1> QED
  BY <1>6, <1>7

\* record_trip, check_boot_backoff: a boot that proceeds has waited out, since
\* the last recorded trip, the backoff floor, and the next step of the curve
\* when the trip before it is remembered too, through any number of stalls,
\* crashes and refused boots, as long as the wall clock is not set back.
THEOREM BackoffAlwaysHonoured == SVSpec => BackoffHonoured
<1>1. TripInv /\ [SVNext]_SVvars =>
        [proc = "down" /\ proc' = "up" /\ back = 0
           => /\ sinceTrip >= BootFloor
              /\ gap + sinceTrip <= Decay => sinceTrip >= Backoff(BootFloor, BootCap, 2)]_SVvars
  BY UpByBoot, BootWaits
<1> QED
  BY <1>1, InitTripInv, NextTripInv, PTL DEF SVSpec, BackoffHonoured

-----------------------------------------------------------------------------
(* Supervision: types.                                                     *)

\* A set of numbers that is not empty has a smallest one.
LEMMA LeastNumber == ASSUME NEW T \in SUBSET Nat, T # {} PROVE \E x \in T : \A y \in T : x <= y
<1> DEFINE R == OpToRel(<, Nat)
<1>1. PICK x \in T : \A y \in T : <<y, x>> \notin R
  BY NatLessThanWellFounded, WFMin, Zenon
<1>2. \A y \in T : ~(y < x)
  BY <1>1 DEF OpToRel
<1> QED
  BY <1>2

\* The numbers of the restarts.
LEMMA RestartNumbers ==
    /\ BackoffFloor \in Nat \ {0} /\ BackoffCap \in Nat \ {0} /\ BackoffFloor <= BackoffCap
    /\ BackoffCap <= 2^Bits - 1 /\ 2^Bits \in Nat /\ Bits \in Nat \ {0}
    /\ ActAt \in Nat \ {0} /\ Window \in Nat \ {0}
<1>1. BackoffCap \in 0 .. 2^Bits - 1
  BY SupervisionAssumption DEF SupervisionAssumption
<1>2. /\ BackoffFloor \in Nat \ {0} /\ BackoffCap \in Nat \ {0} /\ BackoffFloor <= BackoffCap
      /\ Bits \in Nat \ {0} /\ ActAt \in Nat \ {0} /\ Window \in Nat \ {0}
  BY SupervisionAssumption DEF SupervisionAssumption
<1> QED
  BY <1>1, <1>2, BootNumbers

\* The curve of the restarts becomes flat, so that there is a first step from
\* which it is.
LEMMA QuickTopExists == QuickTop \in 1 .. Bits + 1
<1> DEFINE B(n) == Backoff(BackoffFloor, BackoffCap, n)
           T == {n \in 1 .. Bits + 1 : B(n) = B(Bits + 1)}
<1>0. Bits \in Nat \ {0} /\ Bits + 1 \in 1 .. Bits + 1
  BY RestartNumbers
<1>1. \A m, n \in 1 .. Bits + 1 : m <= n => B(m) \in Nat /\ B(n) \in Nat /\ B(m) <= B(n)
  <2> SUFFICES ASSUME NEW m \in 1 .. Bits + 1, NEW n \in 1 .. Bits + 1, m <= n
               PROVE  B(m) \in Nat /\ B(n) \in Nat /\ B(m) <= B(n)
    OBVIOUS
  <2>1. m \in Nat \ {0} /\ n \in Nat \ {0} /\ n <= n
    BY <1>0
  <2> QED
    BY <2>1, RestartNumbers, CurveGrows
<1> HIDE DEF B
<1>2. PICK n \in T : \A y \in T : n <= y
  <2>1. T \in SUBSET Nat /\ T # {}
    BY <1>0
  <2> QED
    BY <2>1, LeastNumber
<1>3. n \in 1 .. Bits + 1 /\ B(n) = B(Bits + 1)
  BY <1>2
<1>4. \A m \in n .. Bits + 1 : B(m) = B(n)
  <2> SUFFICES ASSUME NEW m \in n .. Bits + 1 PROVE B(m) = B(n)
    OBVIOUS
  <2>1. m \in 1 .. Bits + 1 /\ n <= m /\ m <= Bits + 1
    BY <1>0, <1>3
  <2>2. B(n) <= B(m) /\ B(m) <= B(Bits + 1) /\ B(m) \in Nat /\ B(n) \in Nat
    BY <1>0, <1>1, <1>3, <2>1
  <2> QED
    BY <1>3, <2>2
<1>5. \A k \in 1 .. n - 1 : B(k) # B(n)
  BY <1>0, <1>2, <1>3
<1> QED
  BY <1>3, <1>4, <1>5 DEF QuickTop, B

LEMMA StretchTyped ==
    ASSUME NEW S, NEW s \in Seq(S), NEW a \in Nat \ {0}, NEW b \in Int, b <= Len(s)
    PROVE  SubSeq(s, a, b) \in Seq(S)
<1>1. CASE a <= b
  BY <1>1
<1>2. CASE ~ (a <= b)
  BY <1>2
<1> QED
  BY <1>1, <1>2

LEMMA NewestTyped ==
    ASSUME NEW S, NEW s \in Seq(S), NEW n \in Nat
    PROVE  newest(s, n) \in Seq(S) /\ Len(newest(s, n)) <= n
<1>1. CASE Len(s) <= n
  BY <1>1 DEF newest
<1>2. CASE Len(s) > n
  <2>1. /\ Len(s) - n + 1 \in Nat \ {0} /\ Len(s) \in Int /\ Len(s) - n + 1 <= Len(s) + 1
        /\ Len(s) - (Len(s) - n + 1) + 1 = n
    BY <1>2
  <2>2. newest(s, n) = SubSeq(s, Len(s) - n + 1, Len(s))
    BY <1>2 DEF newest
  <2>3. SubSeq(s, Len(s) - n + 1, Len(s)) \in Seq(S)
    BY <2>1, StretchTyped
  <2>4. Len(SubSeq(s, Len(s) - n + 1, Len(s))) <= n
    BY <1>2, <2>1
  <2> QED
    BY <2>2, <2>3, <2>4
<1> QED
  BY <1>1, <1>2

LEMMA RecordTyped ==
    ASSUME NEW S, 0 \in S, trips \in Seq(S)
    PROVE  record_trip \in Seq(S) /\ Len(record_trip) <= MaxStored
<1> DEFINE decayed == Cardinality({i \in DOMAIN trips : trips[i] > Decay})
           future  == Cardinality({i \in DOMAIN trips : trips[i] < 0})
<1>1. Len(trips) \in Nat /\ DOMAIN trips = 1 .. Len(trips)
  OBVIOUS
<1>2. decayed \in Nat /\ future \in Nat
  <2>1. IsFiniteSet(1 .. Len(trips))
    BY <1>1, FS_Interval
  <2> QED
    BY <1>1, <2>1, FS_Subset, FS_CardinalityType
<1> DEFINE kept == SubSeq(trips, decayed + 1, Len(trips) - future)
<1>3. kept \in Seq(S)
  <2>1. decayed + 1 \in Nat \ {0} /\ Len(trips) - future \in Int /\ Len(trips) - future <= Len(trips)
    BY <1>1, <1>2
  <2> HIDE DEF decayed, future
  <2> QED
    BY <2>1, StretchTyped
<1>4. read_recent_trips = newest(kept, MaxStored)
  BY DEF read_recent_trips
<1> HIDE DEF kept
<1>5. read_recent_trips \in Seq(S)
  BY <1>3, <1>4, NewestTyped, BootNumbers
<1>6. Append(read_recent_trips, 0) \in Seq(S)
  BY <1>5
<1> QED
  BY <1>6, NewestTyped, BootNumbers DEF record_trip

\* A clock set back moves no trip further into the future than it was moved.
Ages == (0 - back) .. Forgotten

ProcOK ==
    /\ proc \in {"down", "refused", "up", "draining"}
    /\ wd # "off" => Alive

MonitorsOK ==
    /\ life \in [Task -> {"none", "running", "backoff", "ended"}]
    /\ uptime \in [Task -> 0 .. Window]
    /\ panics \in [Task -> SUBSET (0 .. Window)]
    /\ quick \in [Task -> 0 .. QuickTop]
    /\ strikes \in [Task -> 0 .. ActAt]
    /\ delay \in [Task -> 0 .. BackoffCap]
    /\ escalated \in [Task -> BOOLEAN]

WatchdogOK ==
    /\ beaten \in [Task -> BOOLEAN] /\ fresh \in [Task -> BOOLEAN]
    /\ wd \in {"off", "arming", "watching", "tripping", "aborting", "stopped"}
    /\ pollIn \in 0 .. Poll
    /\ quiet \in [Task -> 0 .. Stall]
    /\ silence \in [Task -> 0 .. Latency + 1]

TripsOK ==
    /\ trips \in Seq((0 - MaxBack) .. Forgotten) /\ Len(trips) <= MaxStored
    /\ trips \in Seq(Ages)
    /\ back \in 0 .. MaxBack
    /\ gap \in 0 .. Decay + 1
    /\ sinceTrip \in 0 .. Decay + 1

TypeInv == ProcOK /\ MonitorsOK /\ WatchdogOK /\ TripsOK

LEMMA MonitorsFrame == ASSUME MonitorsOK, UNCHANGED monitors PROVE MonitorsOK'
BY DEF MonitorsOK, monitors

LEMMA WatchdogFrame == ASSUME WatchdogOK, UNCHANGED watchdog PROVE WatchdogOK'
BY DEF WatchdogOK, watchdog

LEMMA TripsFrame == ASSUME TripsOK, UNCHANGED bootfile PROVE TripsOK'
<1>1. UNCHANGED <<trips, back, gap, sinceTrip>>
  BY DEF bootfile
<1>2. Ages' = Ages
  BY <1>1 DEF Ages
<1> QED
  BY <1>1, <1>2 DEF TripsOK

\* The bounds are numbers, and zero is within each.
LEMMA TypeNumbers ==
    /\ Window \in Nat /\ QuickTop \in Nat /\ ActAt \in Nat /\ BackoffCap \in Nat
    /\ Poll \in Nat /\ Stall \in Nat /\ Latency + 1 \in Nat
<1>1. QuickTop \in Nat /\ Latency + 1 \in Nat
  BY QuickTopExists, RestartNumbers, LatencyCovers
<1> QED
  BY <1>1, RestartNumbers, SupervisionAssumption

LEMMA ZeroTyped ==
    /\ Zero \in [Task -> 0 .. Window] /\ Zero \in [Task -> 0 .. QuickTop]
    /\ Zero \in [Task -> 0 .. ActAt] /\ Zero \in [Task -> 0 .. BackoffCap]
    /\ Zero \in [Task -> 0 .. Stall] /\ Zero \in [Task -> 0 .. Latency + 1]
    /\ Fresh0 \in [Task -> BOOLEAN]
<1> DEFINE top == Latency + 1
<1>1. top \in Nat
  BY TypeNumbers
<1> HIDE DEF top
<1>2. ASSUME NEW n \in Nat PROVE Zero \in [Task -> 0 .. n]
  BY <1>2 DEF Zero
<1>3. Zero \in [Task -> 0 .. top]
  BY <1>1, <1>2
<1> QED
  BY <1>2, <1>3, TypeNumbers DEF Fresh0, top

LEMMA InitTypeInv == SVInit => TypeInv
<1> SUFFICES ASSUME SVInit PROVE TypeInv
  OBVIOUS
<1>1. ProcOK
  BY DEF SVInit, ProcOK
<1>2. MonitorsOK
  BY ZeroTyped DEF SVInit, MonitorsOK, Fresh0
<1>3. WatchdogOK
  BY ZeroTyped, TypeNumbers DEF SVInit, WatchdogOK
<1>4. TripsOK
  <2>1. trips = <<>> /\ MaxStored \in Nat
    BY BootNumbers DEF SVInit
  <2>2. /\ trips \in Seq(Ages) /\ trips \in Seq((0 - MaxBack) .. Forgotten)
        /\ Len(trips) <= MaxStored
    BY ONLY <2>1
  <2> QED
    BY <2>2, BootNumbers DEF SVInit, TripsOK
<1> QED
  BY <1>1, <1>2, <1>3, <1>4 DEF TypeInv

\* Steps of the boot and of the process.
LEMMA ProcessTypeInv ==
    ASSUME TypeInv, BootRefused \/ Respawn \/ BootProceed \/ Shutdown \/ DrainEnds \/ Kill \/ Abort
    PROVE  TypeInv'
<1>1. TripsOK'
  BY TripsFrame DEF TypeInv, BootRefused, Respawn, BootProceed, Shutdown, DrainEnds, Kill, Abort
<1>2. CASE BootRefused \/ Respawn
  <2>1. ProcOK'
    BY <1>2 DEF BootRefused, Respawn, TypeInv, ProcOK, watchdog, Alive
  <2> QED
    BY <1>1, <1>2, <2>1, MonitorsFrame, WatchdogFrame DEF TypeInv, BootRefused, Respawn
<1>3. CASE BootProceed
  <2>1. ProcOK'
    BY <1>3 DEF BootProceed, ProcOK, Alive
  <2>2. MonitorsOK'
    BY <1>3, ZeroTyped DEF BootProceed, TypeInv, MonitorsOK
  <2>3. WatchdogOK'
    BY <1>3, ZeroTyped, TypeNumbers DEF BootProceed, TypeInv, WatchdogOK
  <2> QED
    BY <1>1, <2>1, <2>2, <2>3 DEF TypeInv
<1>4. CASE Shutdown
  <2>1. ProcOK'
    BY <1>4 DEF Shutdown, TypeInv, ProcOK, Alive
  <2>2. MonitorsOK'
    BY <1>4, MonitorsFrame DEF Shutdown, TypeInv, MonitorsOK
  <2>3. WatchdogOK'
    BY <1>4, WatchdogFrame DEF Shutdown, TypeInv, WatchdogOK
  <2> QED
    BY <1>1, <2>1, <2>2, <2>3 DEF TypeInv
<1>5. CASE DrainEnds \/ Kill \/ Abort
  <2>1. Gone("down")
    BY <1>5 DEF DrainEnds, Kill, Abort
  <2>2. ProcOK'
    BY <2>1 DEF Gone, ProcOK
  <2>3. MonitorsOK'
    BY <2>1, ZeroTyped DEF Gone, MonitorsOK
  <2>4. WatchdogOK'
    BY <2>1, ZeroTyped, TypeNumbers DEF Gone, WatchdogOK
  <2> QED
    BY <1>1, <2>2, <2>3, <2>4 DEF TypeInv
<1> QED
  BY <1>2, <1>3, <1>4, <1>5

\* Steps of a task and its monitor that count nothing.
LEMMA TaskTypeInv ==
    ASSUME TypeInv, NEW t \in Task, Bump(t) \/ Finish(t) \/ Restart(t) \/ EndMonitor(t)
    PROVE  TypeInv'
<1>1. TripsOK'
  BY TripsFrame DEF TypeInv, Bump, Finish, Restart, EndMonitor
<1>2. ProcOK'
  BY DEF TypeInv, ProcOK, Alive, Bump, Finish, Restart, EndMonitor, watchdog
<1>3. CASE Bump(t)
  <2>1. WatchdogOK'
    <3> DEFINE top == Latency + 1
    <3>1. silence \in [Task -> 0 .. top] /\ top \in Nat
      BY TypeNumbers DEF TypeInv, WatchdogOK
    <3>2. silence' = [silence EXCEPT ![t] = 0]
      BY <1>3 DEF Bump
    <3> HIDE DEF top
    <3>3. silence' \in [Task -> 0 .. top]
      BY <3>1, <3>2
    <3> QED
      BY <1>3, <3>3 DEF Bump, TypeInv, WatchdogOK, top
  <2> QED
    BY <1>1, <1>2, <1>3, <2>1, MonitorsFrame DEF TypeInv, Bump
<1>4. CASE Finish(t) \/ Restart(t) \/ EndMonitor(t)
  <2>1. MonitorsOK'
    BY <1>4, TypeNumbers DEF Finish, Restart, EndMonitor, TypeInv, MonitorsOK
  <2>2. UNCHANGED watchdog
    BY <1>4 DEF Finish, Restart, EndMonitor
  <2> QED
    BY <1>1, <1>2, <2>1, <2>2, WatchdogFrame DEF TypeInv
<1> QED
  BY <1>3, <1>4

\* A panic counts within its bounds, and its delay is on the curve.
LEMMA PanicTypeInv == ASSUME TypeInv, NEW t \in Task, Panic(t) PROVE TypeInv'
<1> DEFINE steps == quick_panics(t)
<1>1. /\ QuickTop \in Nat \ {0} /\ quick[t] \in Nat /\ strikes[t] \in 0 .. ActAt
      /\ panics[t] \in SUBSET (0 .. Window)
  BY QuickTopExists, RestartNumbers DEF TypeInv, MonitorsOK
<1>2. steps \in 1 .. QuickTop
  BY <1>1 DEF quick_panics, Lesser
<1>3. strike(t) \in 0 .. ActAt
  BY <1>1, RestartNumbers DEF strike, Lesser
<1>4. recent_panics(t) \in SUBSET (0 .. Window)
  BY <1>1, RestartNumbers DEF recent_panics
<1> HIDE DEF steps
<1>5. Backoff(BackoffFloor, BackoffCap, steps) \in 0 .. BackoffCap
  <2>1. steps \in Nat \ {0} /\ steps <= steps
    BY <1>1, <1>2
  <2> QED
    BY <2>1, RestartNumbers, CurveGrows
<1>6. (IF over(t) THEN BackoffCap ELSE Backoff(BackoffFloor, BackoffCap, steps)) \in 0 .. BackoffCap
  BY <1>5, RestartNumbers
<1>7. /\ quick' \in [Task -> 0 .. QuickTop] /\ strikes' \in [Task -> 0 .. ActAt]
      /\ panics' \in [Task -> SUBSET (0 .. Window)] /\ delay' \in [Task -> 0 .. BackoffCap]
  BY <1>1, <1>2, <1>3, <1>4, <1>6 DEF Panic, TypeInv, MonitorsOK, steps
<1>8. MonitorsOK'
  BY <1>7 DEF Panic, TypeInv, MonitorsOK
<1>9. ProcOK'
  BY DEF Panic, TypeInv, ProcOK, Alive, watchdog
<1> QED
  BY <1>8, <1>9, WatchdogFrame, TripsFrame DEF Panic, TypeInv

\* The watchdog's own steps.
LEMMA WatchdogTypeInv ==
    ASSUME TypeInv, Arm \/ PollTasks \/ StopWatchdog
    PROVE  TypeInv'
<1>1. ProcOK'
  BY DEF Arm, PollTasks, StopWatchdog, TypeInv, ProcOK, Alive
<1>2. WatchdogOK'
  <2>1. CASE Arm
    BY <2>1, ZeroTyped, TypeNumbers DEF Arm, TypeInv, WatchdogOK
  <2>2. CASE PollTasks
    <3>1. quiet' \in [Task -> 0 .. Stall] /\ pollIn' \in 0 .. Poll
      BY <2>2, TypeNumbers DEF PollTasks, TypeInv, WatchdogOK
    <3> QED
      BY <2>2, <3>1, ZeroTyped DEF PollTasks, TypeInv, WatchdogOK
  <2>3. CASE StopWatchdog
    BY <2>3, TypeNumbers DEF StopWatchdog, TypeInv, WatchdogOK
  <2> QED
    BY <2>1, <2>2, <2>3
<1>3. UNCHANGED monitors /\ UNCHANGED bootfile
  BY DEF Arm, PollTasks, StopWatchdog
<1> QED
  BY <1>1, <1>2, <1>3, MonitorsFrame, TripsFrame DEF TypeInv

LEMMA RecordTypeInv == ASSUME TypeInv, RecordTrip PROVE TypeInv'
<1> DEFINE R == (0 - MaxBack) .. Forgotten
<1>1. /\ trips \in Seq(Ages) /\ 0 \in Ages /\ trips \in Seq(R) /\ 0 \in R
      /\ UNCHANGED back
  BY BootNumbers DEF TypeInv, TripsOK, Ages, Forgotten, RecordTrip
<1> HIDE DEF R
<1>2. record_trip \in Seq(Ages) /\ record_trip \in Seq(R) /\ Len(record_trip) <= MaxStored
  BY <1>1, RecordTyped
<1>3. trips' \in Seq(Ages) /\ trips' \in Seq(R) /\ Len(trips') <= MaxStored
  BY <1>1, <1>2 DEF RecordTrip, TypeInv, TripsOK
<1>4. gap' \in 0 .. Decay + 1 /\ sinceTrip' \in 0 .. Decay + 1
  BY BootNumbers DEF RecordTrip, TypeInv, TripsOK
<1>5. Ages' = Ages
  BY <1>1 DEF Ages
<1>6. TripsOK'
  BY <1>1, <1>3, <1>4, <1>5 DEF TypeInv, TripsOK, R
<1>7. ProcOK' /\ WatchdogOK'
  BY DEF RecordTrip, TypeInv, ProcOK, WatchdogOK, Alive
<1> QED
  BY <1>6, <1>7, MonitorsFrame DEF RecordTrip, TypeInv

\* What is due at once happens before time moves, so that no remaining time
\* falls below zero; the ages stop at their last value.
LEMMA TickTypeInv == ASSUME TypeInv, Tick PROVE TypeInv'
<1>1. uptime' \in [Task -> 0 .. Window]
  <2> SUFFICES ASSUME NEW t \in Task
               PROVE  (IF life[t] = "running" /\ t \in Panicky
                       THEN Lesser(uptime[t] + 1, Window) ELSE uptime[t]) \in 0 .. Window
    BY DEF Tick
  <2>1. uptime[t] \in 0 .. Window
    BY DEF TypeInv, MonitorsOK
  <2> QED
    BY <2>1, TypeNumbers DEF Lesser
<1>2. panics' \in [Task -> SUBSET (0 .. Window)]
  <2> SUFFICES ASSUME NEW t \in Task
               PROVE  {a + 1 : a \in {b \in panics[t] : b < Window}} \in SUBSET (0 .. Window)
    BY DEF Tick
  <2>1. panics[t] \in SUBSET (0 .. Window)
    BY DEF TypeInv, MonitorsOK
  <2> QED
    BY <2>1, TypeNumbers
<1>3. delay' \in [Task -> 0 .. BackoffCap]
  <2> SUFFICES ASSUME NEW t \in Task
               PROVE  (IF life[t] = "backoff" THEN delay[t] - 1 ELSE delay[t]) \in 0 .. BackoffCap
    BY DEF Tick
  <2>1. delay[t] \in 0 .. BackoffCap /\ (life[t] = "backoff" => delay[t] # 0)
    BY DEF TypeInv, MonitorsOK, Tick, Due
  <2> QED
    BY <2>1, TypeNumbers
<1>4. MonitorsOK'
  BY <1>1, <1>2, <1>3 DEF Tick, TypeInv, MonitorsOK
<1>5. pollIn' \in 0 .. Poll
  <2>1. pollIn \in 0 .. Poll /\ (wd # "off" => Alive)
    BY DEF TypeInv, ProcOK, WatchdogOK
  <2> QED
    BY <2>1, TypeNumbers DEF Tick, Due
<1>6. quiet' \in [Task -> 0 .. Stall]
  <2>1. quiet \in [Task -> 0 .. Stall]
    BY DEF TypeInv, WatchdogOK
  <2> QED
    BY <2>1, TypeNumbers DEF Tick, Lesser
<1>7. silence' \in [Task -> 0 .. Latency + 1]
  <2> DEFINE top == Latency + 1
  <2>1. top \in Nat /\ silence \in [Task -> 0 .. top]
    BY TypeNumbers DEF TypeInv, WatchdogOK
  <2>2. silence' = [t \in Task |-> IF wd = "watching" /\ t \in Monitored
                                 THEN Lesser(silence[t] + 1, top) ELSE silence[t]]
    BY DEF Tick
  <2> HIDE DEF top
  <2>3. silence' \in [Task -> 0 .. top]
    BY <2>1, <2>2 DEF Lesser
  <2> QED
    BY <2>3 DEF top
<1>8. ProcOK' /\ WatchdogOK'
  BY <1>5, <1>6, <1>7 DEF Tick, TypeInv, ProcOK, WatchdogOK, Alive
<1>9. gap' \in 0 .. Decay + 1 /\ sinceTrip' \in 0 .. Decay + 1
  <2>1. gap \in 0 .. Decay + 1 /\ sinceTrip \in 0 .. Decay + 1
    BY DEF TypeInv, TripsOK
  <2> QED
    BY <2>1, BootNumbers DEF Tick, Lesser
<1>10. /\ trips' \in Seq((0 - MaxBack) .. Forgotten) /\ Len(trips') <= MaxStored
       /\ trips' \in Seq(Ages') /\ back' \in 0 .. MaxBack
  <2>1. /\ back \in 0 .. MaxBack /\ MaxBack \in Nat /\ back' = back /\ Forgotten \in Nat
        /\ trips \in Seq(Ages) /\ Len(trips) <= MaxStored /\ Len(trips) \in Nat
        /\ \A i \in 1 .. Len(trips) : trips[i] \in Ages
    BY BootNumbers DEF Tick, TypeInv, TripsOK, Forgotten
  <2>2. trips' = [i \in 1 .. Len(trips) |-> Lesser(trips[i] + 1, Forgotten)]
    BY DEF Tick
  <2>3. \A i \in 1 .. Len(trips) : /\ Lesser(trips[i] + 1, Forgotten) \in Ages
                                   /\ Lesser(trips[i] + 1, Forgotten) \in (0 - MaxBack) .. Forgotten
    BY <2>1 DEF Ages, Lesser
  <2>4. Ages' = Ages
    BY <2>1 DEF Ages
  <2> HIDE DEF Ages
  <2> QED
    BY <2>1, <2>2, <2>3, <2>4
<1> QED
  BY <1>4, <1>8, <1>9, <1>10 DEF TypeInv, TripsOK

LEMMA ClockBackTypeInv == ASSUME TypeInv, SetClockBack PROVE TypeInv'
<1>1. /\ back \in 0 .. MaxBack /\ MaxBack \in Nat /\ back' = back + 1 /\ back' \in 0 .. MaxBack
      /\ trips \in Seq(Ages) /\ Len(trips) <= MaxStored /\ Len(trips) \in Nat
      /\ \A i \in 1 .. Len(trips) : trips[i] \in Ages
      /\ trips' = [i \in 1 .. Len(trips) |-> trips[i] - 1] /\ Forgotten \in Nat
  BY BootNumbers DEF SetClockBack, TypeInv, TripsOK, Forgotten
<1>2. \A i \in 1 .. Len(trips) : trips[i] - 1 \in Ages' /\ trips[i] - 1 \in (0 - MaxBack) .. Forgotten
  BY <1>1 DEF Ages
<1> DEFINE S == Ages'
<1>3. \A i \in 1 .. Len(trips) : trips[i] - 1 \in S
  BY <1>2
<1> HIDE DEF S
<1>4. trips' \in Seq(S) /\ trips' \in Seq((0 - MaxBack) .. Forgotten) /\ Len(trips') <= MaxStored
  BY <1>1, <1>2, <1>3
<1>5. TripsOK'
  BY <1>1, <1>4 DEF SetClockBack, TypeInv, TripsOK, S
<1>6. ProcOK'
  BY DEF SetClockBack, TypeInv, ProcOK, watchdog, Alive
<1> QED
  BY <1>5, <1>6, MonitorsFrame, WatchdogFrame DEF SetClockBack, TypeInv

LEMMA NextTypeInv == TypeInv /\ [SVNext]_SVvars => TypeInv'
<1> SUFFICES ASSUME TypeInv, [SVNext]_SVvars PROVE TypeInv'
  OBVIOUS
<1>1. CASE UNCHANGED SVvars
  <2>1. ProcOK'
    BY <1>1 DEF SVvars, TypeInv, ProcOK, watchdog, Alive
  <2> QED
    BY <1>1, <2>1, MonitorsFrame, WatchdogFrame, TripsFrame DEF SVvars, TypeInv
<1> QED
  BY <1>1, ProcessTypeInv, TaskTypeInv, PanicTypeInv, WatchdogTypeInv, RecordTypeInv,
     TickTypeInv, ClockBackTypeInv DEF SVNext

\* Counters, delays and the trip file stay within their bounds: a restart never
\* waits longer than the cap, the ladder never counts past its action, and
\* the file never holds more than MAX_STORED_TRIPS, for any number of panics,
\* trips and changes of the clock.
THEOREM SupervisionTypeCorrect == SVSpec => []SVTypeOK
<1>1. TypeInv => SVTypeOK
  BY DEF TypeInv, ProcOK, MonitorsOK, WatchdogOK, TripsOK, SVTypeOK
<1> QED
  BY <1>1, InitTypeInv, NextTypeInv, PTL DEF SVSpec

-----------------------------------------------------------------------------
(* The native watches.  Batches are applied in the order of sort().        *)
(***************************************************************************)
(* The enumeration that sort() yields exists: the i-th element is the one  *)
(* with i elements up to it.                                               *)
(***************************************************************************)
LEMMA SortedEnumerates ==
    ASSUME NEW ps \in SUBSET Nat, IsFiniteSet(ps)
    PROVE  /\ Sorted(ps) \in [1..Cardinality(ps) -> ps]
           /\ \A i, j \in 1..Cardinality(ps) : i < j => Sorted(ps)[i] < Sorted(ps)[j]
  <1> DEFINE n == Cardinality(ps)
             upTo(p) == {q \in ps : q <= p}
             rank == [p \in ps |-> Cardinality(upTo(p))]
  <1>1. n \in Nat /\ \A p \in ps : p \in Int
    <2>1. n \in Nat
      BY FS_CardinalityType
    <2> QED
      BY <2>1
  <1>2. ASSUME NEW p \in ps
        PROVE  IsFiniteSet(upTo(p)) /\ Cardinality(upTo(p)) \in 1..n
    <2>1. upTo(p) \in SUBSET ps /\ p \in upTo(p)
      OBVIOUS
    <2>2. IsFiniteSet(upTo(p)) /\ Cardinality(upTo(p)) <= n
      BY <2>1, FS_Subset
    <2>3. Cardinality(upTo(p)) \in Nat /\ Cardinality(upTo(p)) # 0
      BY <2>1, <2>2, FS_CardinalityType, FS_EmptySet
    <2> QED
      BY <1>1, <2>2, <2>3
  <1>3. ASSUME NEW p \in ps, NEW q \in ps, p < q
        PROVE  Cardinality(upTo(p)) < Cardinality(upTo(q))
    <2>0. p \in Int /\ q \in Int /\ ~(q <= p)
      BY <1>1, <1>3
    <2>1. upTo(p) \in SUBSET upTo(q) /\ q \in upTo(q) /\ q \notin upTo(p)
      <3>1. \A x \in ps : x <= p => x <= q
        BY <1>1, <1>3
      <3>2. q <= q
        BY <2>0
      <3>3. upTo(p) \subseteq upTo(q)
        BY <3>1
      <3> QED
        BY <2>0, <3>2, <3>3
    <2>2. /\ Cardinality(upTo(p)) <= Cardinality(upTo(q))
          /\ Cardinality(upTo(q)) # Cardinality(upTo(p))
      BY <1>2, <2>1, FS_Subset
    <2> QED
      BY <1>1, <1>2, <2>2
  <1>4. rank \in [ps -> 1..n]
    BY <1>2
  <1>5. \A p, q \in ps : p < q => rank[p] < rank[q]
    BY <1>3
  <1> HIDE DEF rank
  <1>6. rank \in Injection(ps, 1..n)
    <2>1. ASSUME NEW p \in ps, NEW q \in ps, rank[p] = rank[q]
          PROVE  p = q
      <3>1. rank[p] \in Int /\ rank[q] \in Int
        BY <1>1, <1>4
      <3>2. p < q \/ q < p \/ p = q
        OBVIOUS
      <3> QED
        BY <1>5, <2>1, <3>1, <3>2
    <2> QED
      BY <1>4, <2>1 DEF Injection, IsInjective
  <1>7. IsFiniteSet(1..n) /\ Cardinality(1..n) = n
    <2>1. 1 \in Int /\ n \in Int
      BY <1>1
    <2> QED
      BY <1>1, <2>1, FS_Interval
  <1>8. rank \in Surjection(ps, 1..n)
    BY <1>6, <1>7, FS_Injection
  <1> DEFINE s == [i \in 1..n |-> CHOOSE p \in ps : rank[p] = i]
  <1>9. \A i \in 1..n : s[i] \in ps /\ rank[s[i]] = i
    BY <1>8 DEF Surjection
  <1>10. s \in [1..n -> ps]
    BY <1>9
  <1> HIDE DEF s
  <1>11. ASSUME NEW i \in 1..n, NEW j \in 1..n, i < j
         PROVE  s[i] < s[j]
    <2>1. s[i] \in ps /\ s[j] \in ps /\ rank[s[i]] = i /\ rank[s[j]] = j
      BY <1>9
    <2>2. i \in Int /\ j \in Int /\ s[i] \in Int /\ s[j] \in Int
      <3>1. i \in Int /\ j \in Int
        BY <1>1
      <3> QED
        BY <1>1, <2>1, <3>1, Zenon
    <2>3. ~(s[j] < s[i])
      <3>1. s[j] < s[i] => j < i
        BY <1>5, <2>1
      <3> QED
        BY <1>11, <2>2, <3>1
    <2>4. s[i] # s[j]
      BY <1>11, <2>1, <2>2
    <2> QED
      BY <2>2, <2>3, <2>4
  <1>12. \E t \in [1..n -> ps] : \A i, j \in DOMAIN t : i < j => t[i] < t[j]
    BY <1>10, <1>11
  <1> QED
    BY <1>12 DEF Sorted

-----------------------------------------------------------------------------
(* A batch: an operation that watches names the mode to watch in.          *)
BatchOp ==
    {o \in [kind : {"watch", "unwatch"}, path : Path, mode : Modes \cup {NoMode}] :
        o.kind = "watch" => o.mode # NoMode}

\* Outside a pump, and without a backend, the system holds no watch.  In a
\* pump the system's watch of a path is the recorded one or none; it is the
\* recorded one, on a running stream, unless a retry is due or the loss is
\* one of the two that stay unnoticed.  Without a backend no batch is built.
WatchesInv ==
    /\ native = [p \in Path |-> native[p]]
    /\ ops \in Seq(BatchOp)
    /\ at = "down" \/ ~backend => \A p \in Path : native[p] = NoMode
    /\ at # "down" /\ ~backend => ops = <<>>
    /\ at # "down" =>
         \A p \in Path :
            /\ native[p] \in {NoMode, installed[p]}
            /\ installed[p] # NoMode /\ watchRetries[p] = NoMode /\ p \notin lost
                 => native[p] = installed[p] /\ stream

LEMMA WatchesInvInit == WIInit => WatchesInv
  BY DEF WIInit, WatchesInv, Nowhere

LEMMA WatchesInvStutter ==
    ASSUME WatchesInv, native' = native, ops' = ops, at' # "down", at # "down",
           backend' = backend, installed' = installed, watchRetries' = watchRetries,
           lost' = lost, stream' = stream
    PROVE  WatchesInv'
  BY DEF WatchesInv

LEMMA SortedOps ==
    ASSUME NEW ps \in SUBSET Path, NEW kind, NEW desired,
           \A p \in ps : [kind |-> kind, path |-> p, mode |-> desired[p]] \in BatchOp
    PROVE  [i \in DOMAIN Sorted(ps) |-> [kind |-> kind, path |-> Sorted(ps)[i],
                                         mode |-> desired[Sorted(ps)[i]]]] \in Seq(BatchOp)
  <1>1. ps \in SUBSET Nat /\ IsFiniteSet(ps) /\ Cardinality(ps) \in Nat
    BY InstallAssumption, FS_Subset, FS_CardinalityType DEF InstallAssumption
  <1> DEFINE s == Sorted(ps)
             n == Cardinality(ps)
             opAt(p) == [kind |-> kind, path |-> p, mode |-> desired[p]]
  <1>2. s \in [1..n -> ps]
    BY <1>1, SortedEnumerates
  <1>3. n \in Nat /\ \A p \in ps : opAt(p) \in BatchOp
    BY <1>1
  <1> HIDE DEF s, n, opAt
  <1>4. [i \in DOMAIN s |-> opAt(s[i])] \in [1..n -> BatchOp]
    BY <1>2, <1>3
  <1>5. [i \in DOMAIN s |-> opAt(s[i])] \in Seq(BatchOp)
    BY ONLY <1>3, <1>4
  <1> QED
    BY <1>5 DEF s, opAt

\* The paths of a batch's operations.
PathsOf(done) == {done[i].path : i \in DOMAIN done}

\* What a batch leaves of a path depends on the batch alone.
LEMMA AppliedTouched ==
    ASSUME NEW f, NEW g, NEW done, NEW p \in Path, p \in PathsOf(done)
    PROVE  Applied(f, done)[p] = Applied(g, done)[p]
  <1> DEFINE mine == {i \in DOMAIN done : done[i].path = p}
  <1>1. mine # {}
    BY DEF PathsOf
  <1> QED
    BY <1>1 DEF Applied

LEMMA AppliedUntouched ==
    ASSUME NEW f, NEW done, NEW p \in Path, p \notin PathsOf(done)
    PROVE  Applied(f, done)[p] = f[p]
  <1> DEFINE mine == {i \in DOMAIN done : done[i].path = p}
  <1>1. mine = {}
    BY DEF PathsOf
  <1> QED
    BY <1>1 DEF Applied

LEMMA WatchesInvBuild == WatchesInv /\ build_reconcile_ops => WatchesInv'
  <1> SUFFICES ASSUME WatchesInv, build_reconcile_ops PROVE WatchesInv'
    OBVIOUS
  <1> DEFINE desired == desired_watches
             kept == retain_unwatch_retries(desired)
             retries == retain_watch_retries(desired)
             obsolete == {p \in Path : installed[p] # NoMode /\ installed[p] # desired[p]}
             unwatch == {p \in obsolete : backend /\ (retry = "tick" \/ kept[p] # desired[p])}
             todo == {p \in Path : /\ desired[p] # NoMode
                                   /\ installed[p] # desired[p] \/ retries[p] = desired[p]}
             held == {p \in todo \cap dirs : retry = "change" /\ retries[p] = desired[p]}
             newly == (todo \cap dirs) \ held
             Op(kind, ps) == [i \in DOMAIN Sorted(ps) |->
                                [kind |-> kind, path |-> Sorted(ps)[i],
                                 mode |-> desired[Sorted(ps)[i]]]]
  <1>1. /\ at = "build" /\ at' = "apply" /\ native' = native /\ stream' = stream
        /\ backend' = backend
        /\ ops' = IF backend THEN Op("unwatch", unwatch) \o Op("watch", newly) ELSE <<>>
    BY DEF build_reconcile_ops, os
  <1>2. /\ watchRetries' = [p \in Path |-> IF p \in todo \ dirs THEN desired[p] ELSE retries[p]]
        /\ installed' = [p \in Path |-> IF p \in obsolete /\ ~backend THEN NoMode ELSE installed[p]]
        /\ lost' = lost \cup {p \in Path : /\ ~stream \/ native[p] = NoMode
                                           /\ installed[p] # NoMode
                                           /\ watchRetries[p] # NoMode /\ retries[p] = NoMode}
    BY DEF build_reconcile_ops
  <1>3. \A p \in Path : retries[p] = IF watchRetries[p] = desired[p] THEN watchRetries[p] ELSE NoMode
    BY DEF retain_watch_retries
  <1>4. \A p \in Path : desired[p] \in Modes \cup {NoMode}
    BY DEF desired_watches, Modes
  <1>5. ops' \in Seq(BatchOp)
    <2>1. unwatch \in SUBSET Path /\ newly \in SUBSET Path
      OBVIOUS
    <2>2. \A p \in unwatch : [kind |-> "unwatch", path |-> p, mode |-> desired[p]] \in BatchOp
      BY <1>4, <2>1 DEF BatchOp
    <2>3. \A p \in newly : [kind |-> "watch", path |-> p, mode |-> desired[p]] \in BatchOp
      BY <1>4, <2>1 DEF BatchOp
    <2> HIDE DEF desired, unwatch, newly
    <2>4. Op("unwatch", unwatch) \in Seq(BatchOp)
      BY <2>1, <2>2, SortedOps
    <2>5. Op("watch", newly) \in Seq(BatchOp)
      BY <2>1, <2>3, SortedOps
    <2> HIDE DEF Op
    <2> QED
      BY <1>1, <2>4, <2>5
  <1> HIDE DEF desired, retries, kept, unwatch, newly, held, Op
  <1>6. ASSUME NEW p \in Path
        PROVE  /\ native'[p] \in {NoMode, installed'[p]}
               /\ installed'[p] # NoMode /\ watchRetries'[p] = NoMode /\ p \notin lost'
                    => native'[p] = installed'[p] /\ stream'
    <2>1. native[p] \in {NoMode, installed[p]}
      BY <1>1 DEF WatchesInv
    <2>2. ~backend => native[p] = NoMode
      BY DEF WatchesInv
    <2>3. installed[p] # NoMode /\ watchRetries[p] = NoMode /\ p \notin lost
            => native[p] = installed[p] /\ stream
      BY <1>1 DEF WatchesInv
    <2>4. installed'[p] = IF p \in obsolete /\ ~backend THEN NoMode ELSE installed[p]
      BY <1>2
    <2>5. watchRetries'[p] = NoMode => retries[p] = NoMode
      BY <1>2
    <2>6. p \notin lost' => /\ p \notin lost
                            /\ \/ stream /\ native[p] # NoMode
                               \/ installed[p] = NoMode
                               \/ watchRetries[p] = NoMode
                               \/ retries[p] # NoMode
      BY <1>2
    <2> HIDE DEF obsolete, todo
    <2> QED
      BY <1>1, <2>1, <2>2, <2>3, <2>4, <2>5, <2>6
  <1>7. native' = [p \in Path |-> native'[p]]
    BY <1>1 DEF WatchesInv
  <1>8. \A p \in Path : ~backend' => native'[p] = NoMode
    BY <1>1 DEF WatchesInv
  <1>9. ~backend' => ops' = <<>>
    BY <1>1
  <1> QED
    BY <1>1, <1>5, <1>6, <1>7, <1>8, <1>9 DEF WatchesInv

\* A batch was applied, as a whole or up to a failure.
LEMMA WatchesInvApplied ==
    ASSUME WatchesInv, NEW done, NEW rest \in Seq(BatchOp),
           at = "apply", ops # <<>>, at' # "down", ops' = rest, backend' = backend,
           native' = Applied(native, done), installed' = Applied(installed, done),
           \A p \in Path :
              installed'[p] # NoMode /\ watchRetries'[p] = NoMode /\ p \notin lost' =>
                /\ stream'
                /\ \/ p \in PathsOf(done)
                   \/ watchRetries[p] = NoMode /\ p \notin StillLost(done)
    PROVE  WatchesInv'
  <1>1. backend
    BY DEF WatchesInv
  <1>2. native' = [p \in Path |-> native'[p]]
    BY DEF Applied
  <1>3. ASSUME NEW p \in Path
        PROVE  /\ native'[p] \in {NoMode, installed'[p]}
               /\ installed'[p] # NoMode /\ watchRetries'[p] = NoMode /\ p \notin lost'
                    => native'[p] = installed'[p] /\ stream'
    <2> DEFINE touched == p \in PathsOf(done)
    <2>1. /\ touched => native'[p] = installed'[p]
          /\ ~touched => native'[p] = native[p] /\ installed'[p] = installed[p]
      <3>1. touched => Applied(native, done)[p] = Applied(installed, done)[p]
        BY AppliedTouched
      <3>2. ~touched => Applied(native, done)[p] = native[p]
        BY AppliedUntouched
      <3>3. ~touched => Applied(installed, done)[p] = installed[p]
        BY AppliedUntouched
      <3> QED
        BY <3>1, <3>2, <3>3
    <2>2. native[p] \in {NoMode, installed[p]}
      BY DEF WatchesInv
    <2>3. installed[p] # NoMode /\ watchRetries[p] = NoMode /\ p \notin lost
            => native[p] = installed[p]
      BY DEF WatchesInv
    <2>4. p \notin StillLost(done) /\ ~touched => p \notin lost \/ native[p] # NoMode
      BY DEF StillLost, PathsOf
    <2>5. installed'[p] # NoMode /\ watchRetries'[p] = NoMode /\ p \notin lost' =>
            /\ stream'
            /\ touched \/ (watchRetries[p] = NoMode /\ p \notin StillLost(done))
      OBVIOUS
    <2> HIDE DEF touched
    <2> QED
      BY <2>1, <2>2, <2>3, <2>4, <2>5
  <1> QED
    BY <1>1, <1>2, <1>3 DEF WatchesInv

LEMMA WatchesInvApply == WatchesInv /\ Apply => WatchesInv'
  <1> SUFFICES ASSUME WatchesInv, Apply PROVE WatchesInv'
    OBVIOUS
  <1>1. CASE ApplyAll
    <2>1. \A p \in Path : watchRetries'[p] = IF p \in Touched(ops, "watch") THEN NoMode ELSE watchRetries[p]
      BY <1>1 DEF ApplyAll
    <2>2. Touched(ops, "watch") \subseteq PathsOf(ops)
      BY DEF Touched, PathsOf
    <2>3. <<>> \in Seq(BatchOp)
      OBVIOUS
    <2>4. /\ at = "apply" /\ ops # <<>> /\ at' # "down" /\ ops' = <<>> /\ backend' = backend
          /\ native' = Applied(native, ops) /\ installed' = Applied(installed, ops)
          /\ stream' = TRUE /\ lost' = StillLost(ops)
      BY <1>1 DEF ApplyAll
    <2>5. \A p \in Path :
            installed'[p] # NoMode /\ watchRetries'[p] = NoMode /\ p \notin lost' =>
                /\ stream'
                /\ \/ p \in PathsOf(ops)
                   \/ watchRetries[p] = NoMode /\ p \notin StillLost(ops)
      BY <2>1, <2>2, <2>4
    <2> QED
      BY <2>3, <2>4, <2>5, WatchesInvApplied
  <1>2. CASE StreamFails
    <2> DEFINE inst == Applied(installed, ops)
    <2>1. \A p \in Path : p \in degrade_installed(inst) => watchRetries'[p] = inst[p]
      BY <1>2 DEF StreamFails
    <2>3. <<>> \in Seq(BatchOp)
      OBVIOUS
    <2>4. /\ at = "apply" /\ ops # <<>> /\ at' # "down" /\ ops' = <<>> /\ backend' = backend
          /\ native' = Applied(native, ops) /\ installed' = inst
      BY <1>2 DEF StreamFails
    <2>5. \A p \in Path : installed'[p] # NoMode => watchRetries'[p] # NoMode
      BY <2>1, <2>4 DEF degrade_installed
    <2> QED
      BY <2>3, <2>4, <2>5, WatchesInvApplied
  <1>3. ASSUME NEW i \in DOMAIN ops, OpFails(i)
        PROVE  WatchesInv'
    <2> DEFINE done == SubSeq(ops, 1, i - 1)
               failed == ops[i]
               rest == SubSeq(ops, i + 1, Len(ops))
    <2>0. ops \in Seq(BatchOp) /\ ops # <<>>
      BY DEF WatchesInv
    <2>1. rest \in Seq(BatchOp) /\ failed \in BatchOp
      BY <2>0
    <2>2. /\ at = "apply" /\ at' # "down" /\ ops' = rest /\ backend' = backend
          /\ native' = Applied(native, done) /\ installed' = Applied(installed, done)
          /\ stream' = TRUE /\ lost' = StillLost(done)
      BY <1>3 DEF OpFails
    <2>3. \A p \in Path :
            watchRetries'[p] = IF p \in Touched(done, "watch") THEN NoMode
                               ELSE IF failed.kind = "watch" /\ p = failed.path THEN failed.mode
                               ELSE watchRetries[p]
      BY <1>3 DEF OpFails
    <2>4. Touched(done, "watch") \subseteq PathsOf(done)
      BY DEF Touched, PathsOf
    <2>5. failed.kind = "watch" => failed.mode # NoMode
      BY <2>1 DEF BatchOp
    <2> HIDE DEF done, failed, rest
    <2>6. \A p \in Path :
            installed'[p] # NoMode /\ watchRetries'[p] = NoMode /\ p \notin lost' =>
                /\ stream'
                /\ \/ p \in PathsOf(done)
                   \/ watchRetries[p] = NoMode /\ p \notin StillLost(done)
      BY <2>2, <2>3, <2>4, <2>5
    <2> QED
      BY <2>0, <2>1, <2>2, <2>6, WatchesInvApplied
  <1>4. CASE NothingToApply
    <2>1. /\ native' = native /\ ops' = ops /\ at' # "down" /\ at # "down" /\ backend' = backend
          /\ installed' = installed /\ watchRetries' = watchRetries /\ lost' = lost
          /\ stream' = stream
      BY <1>4 DEF NothingToApply, books, os
    <2> QED
      BY <2>1, WatchesInvStutter
  <1> QED
    BY <1>1, <1>2, <1>3, <1>4 DEF Apply

LEMMA WatchesInvNext == WatchesInv /\ [WINext]_WIvars => WatchesInv'
  <1> SUFFICES ASSUME WatchesInv, [WINext]_WIvars PROVE WatchesInv'
    OBVIOUS
  <1>1. ASSUME native' = native, ops' = ops, at' = at, backend' = backend,
               installed' = installed, watchRetries' = watchRetries, lost' = lost,
               stream' = stream
        PROVE  WatchesInv'
    BY <1>1 DEF WatchesInv
  <1>2. CASE UNCHANGED WIvars
    BY <1>1, <1>2 DEF WIvars, pump, os
  <1>3. ASSUME NEW r \in Reg, NEW roots, register(r, roots) \/ replace_source(r, roots)
        PROVE  WatchesInv'
    BY <1>1, <1>3 DEF register, replace_source, pump, os
  <1>4. ASSUME NEW p \in Path, DirAppears(p)
        PROVE  WatchesInv'
    BY <1>1, <1>4 DEF DirAppears, pump
  <1>5. ASSUME NEW p \in Path, DirVanishes(p)
        PROVE  WatchesInv'
    <2>1. /\ ops' = ops /\ at' = at /\ backend' = backend /\ installed' = installed
          /\ watchRetries' = watchRetries /\ stream' = stream
          /\ native' = [native EXCEPT ![p] = NoMode]
          /\ lost' = IF installed[p] # NoMode THEN lost \cup {p} ELSE lost
      BY <1>5 DEF DirVanishes, pump
    <2>2. \A q \in Path : native'[q] = IF q = p THEN NoMode ELSE native[q]
      BY <2>1 DEF WatchesInv
    <2>3. native' = [q \in Path |-> native'[q]]
      BY <2>1 DEF WatchesInv
    <2> QED
      BY <2>1, <2>2, <2>3 DEF WatchesInv
  <1>6. CASE StartPump
    BY <1>6 DEF StartPump, WatchesInv, Nowhere
  <1>7. CASE PumpDies
    BY <1>7 DEF PumpDies, WatchesInv, Nowhere, books
  <1>8. CASE ReconcileTick \/ Reconcile \/ refresh_roots
    <2>1. /\ native' = native /\ ops' = ops /\ at' # "down" /\ at # "down" /\ backend' = backend
          /\ installed' = installed /\ watchRetries' = watchRetries /\ lost' = lost
          /\ stream' = stream
      BY <1>8 DEF ReconcileTick, Reconcile, refresh_roots, books, os
    <2> QED
      BY <2>1, WatchesInvStutter
  <1>9. CASE build_reconcile_ops
    BY <1>9, WatchesInvBuild
  <1>10. CASE Apply
    BY <1>10, WatchesInvApply
  <1> QED
    BY <1>2, <1>3, <1>4, <1>5, <1>6, <1>7, <1>8, <1>9, <1>10 DEF WINext, reload_repo_layer

\* The pump's books agree with the operating system at every step of every
\* pass: whatever operations of a batch fail, whatever directories go and
\* registrations come meanwhile, a native watch is on record and a recorded
\* watch is there unless its retry is due.
THEOREM WatchesStayAccounted == WISpec => []WatchesAccounted
  <1>1. WatchesInv => WatchesAccounted
    BY DEF WatchesInv, WatchesAccounted
  <1> QED
    BY <1>1, WatchesInvInit, WatchesInvNext, PTL DEF WISpec
=============================================================================
