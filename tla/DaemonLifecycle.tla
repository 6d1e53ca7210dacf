--------------------------- MODULE DaemonLifecycle ---------------------------
(***************************************************************************)
(* Daemon processes and the clients that find, start and stop them         *)
(* (server.rs, lifecycle.rs, bootstrap.rs, client.rs, supervisor.rs).      *)
(*                                                                         *)
(* One socket path and the lock file beside it are shared by all           *)
(* processes.  A client dials the path; whoever wants a daemon and finds   *)
(* none spawns one and polls.  A daemon takes the lock, opens the store,   *)
(* binds, serves, and on its shutdown token drains, removes the socket and *)
(* drops the lock.  Beside the handlers it runs background loops that      *)
(* write to the store.                                                     *)
(*                                                                         *)
(* Clocks are left out: a timeout or deadline may strike whenever the code *)
(* is waiting.  The socket of an older release (the sibling path) is not   *)
(* modelled.                                                               *)
(***************************************************************************)
EXTENDS Naturals, FiniteSets

CONSTANTS
    Daemons,        \* process ids, each used once
    Clients,
    Commands,       \* what each client may be told: "use", "stop", "restart"
    Skewed,         \* daemons of another version than the clients
    Started,        \* background loops a daemon's configuration starts
    IdleExit,       \* daemons with idle_exit_secs # 0
    Struck,         \* bound: daemons that may get a signal or crash
    MaxConns,       \* MAX_CONCURRENT_CONNECTIONS
    None

(* The purposes for which a client opens a connection that carries a       *)
(* request: its own request, the Shutdown of `stop`, and the Shutdown sent *)
(* to a daemon of another version.                                         *)
Purposes == {"work", "stop", "skew"}
Calls    == Clients \X Purposes

(* The loops that write to the store.  The supervisor's monitor aborts the *)
(* task of the first two; of the pump it only aborts a wrapper, which      *)
(* detaches the pump and its catch-up tasks.                               *)
Aborted    == {"boot", "maintenance"}
Background == Aborted \cup {"pump"}

ASSUME LifecycleAssumption ==
    /\ None \notin Daemons
    /\ Skewed \subseteq Daemons
    /\ Commands \in [Clients -> SUBSET {"use", "stop", "restart"}]
    /\ Started \in [Daemons -> SUBSET Background]
    /\ IdleExit \subseteq Daemons /\ Struck \subseteq Daemons
    /\ MaxConns \in Nat \ {0}

VARIABLES
    socket,      \* daemon whose bind made the socket file, None: no file
    flock,       \* holder of the instance lock
    phase,       \* of each daemon process
    listening,   \* its listener accepts connections into the backlog
    token,       \* its shutdown token: live, or cancelled first by idle exit or not
    firing,      \* idle exit has passed its check and not yet cancelled
    bg,          \* state of each background loop
    peer, stage, \* of each call: the daemon dialled and how far it got
    cpc,         \* client control point
    op,          \* what the client was asked to do
    after,       \* where `stop` returns to
    asked        \* daemon that answered the probe of the latest stop

disk    == <<socket, flock>>
process == <<phase, listening, token, firing, bg>>
calls   == <<peer, stage>>
client  == <<cpc, op, after, asked>>
vars    == <<disk, process, calls, client>>

Up       == {"binding", "accepting", "draining", "aborting", "joining",
             "unlinking", "releasing", "exiting"}
Running  == {"locking", "opening", "clearing"} \cup Up
InFlight == {"backlog", "accepted", "handling"}
Finished == {"done", "failed"}

TypeOK ==
    /\ socket \in Daemons \cup {None} /\ flock \in Daemons \cup {None}
    /\ phase \in [Daemons -> Running \cup {"unspawned", "exited"}]
    /\ listening \in [Daemons -> BOOLEAN]
    /\ token \in [Daemons -> {"live", "idle", "told"}]
    /\ firing \in [Daemons -> BOOLEAN]
    /\ bg \in [Daemons -> [Background -> {"off", "idle", "writing"}]]
    /\ peer \in [Calls -> Daemons \cup {None}]
    /\ stage \in [Calls -> InFlight \cup {"none", "answered", "reset"}]
    /\ cpc \in [Clients -> {"idle", "connect", "probe", "find", "ask", "asked",
                            "poll", "spawn", "wait", "reconnect", "call",
                            "called"} \cup Finished]
    /\ op \in [Clients -> {"none", "use", "stop", "restart"}]
    /\ after \in [Clients -> {"done", "probe", "spawn"}]
    /\ asked \in [Clients -> Daemons \cup {None}]

Init ==
    /\ socket = None /\ flock = None
    /\ phase = [d \in Daemons |-> "unspawned"]
    /\ listening = [d \in Daemons |-> FALSE]
    /\ token = [d \in Daemons |-> "live"]
    /\ firing = [d \in Daemons |-> FALSE]
    /\ bg = [d \in Daemons |-> [k \in Background |-> "off"]]
    /\ peer = [q \in Calls |-> None]
    /\ stage = [q \in Calls |-> "none"]
    /\ cpc = [c \in Clients |-> "idle"]
    /\ op = [c \in Clients |-> "none"]
    /\ after = [c \in Clients |-> "done"]
    /\ asked = [c \in Clients |-> None]

-----------------------------------------------------------------------------
(* Boot *)

Goto(d, p) == phase' = [phase EXCEPT ![d] = p]

Cancelled(d) == token[d] # "live"
Cancel(d, why) == token' = [token EXCEPT ![d] = IF @ = "live" THEN why ELSE @]

(* The calls of daemon d that end without an answer when stages S end. *)
Hangup(d, S) ==
    stage' = [q \in Calls |-> IF peer[q] = d /\ stage[q] \in S
                              THEN "reset" ELSE stage[q]]

(* The trip history says to back off, or the socket directory is unusable. *)
RefuseBoot(d) ==
    /\ phase[d] = "locking"
    /\ Goto(d, "exited")
    /\ UNCHANGED <<disk, listening, token, firing, bg, calls, client>>

AcquireSingleInstance(d) ==
    /\ phase[d] = "locking"
    /\ \/ flock = None /\ flock' = d /\ Goto(d, "opening")
       \/ flock # None /\ UNCHANGED flock /\ Goto(d, "exited")
    /\ UNCHANGED <<socket, listening, token, firing, bg, calls, client>>

(* An error drops the lock with the stack frame. *)
OpenState(d) ==
    /\ phase[d] = "opening"
    /\ \/ Goto(d, "clearing") /\ UNCHANGED flock
       \/ Goto(d, "exited") /\ flock' = None
    /\ UNCHANGED <<socket, listening, token, firing, bg, calls, client>>

(* Removal of a stale socket may fail and is only logged; then the loops start. *)
RemoveStaleSocket(d) ==
    /\ phase[d] = "clearing"
    /\ Goto(d, "binding")
    /\ socket' \in {None, socket}
    /\ bg' = [bg EXCEPT ![d] =
               [k \in Background |-> IF k \notin Started[d] THEN "off"
                                    ELSE IF k = "boot" THEN "writing" ELSE "idle"]]
    /\ UNCHANGED <<flock, listening, token, firing, calls, client>>

Bind(d) ==
    /\ phase[d] = "binding" /\ socket = None
    /\ Goto(d, "accepting")
    /\ socket' = d
    /\ listening' = [listening EXCEPT ![d] = TRUE]
    /\ UNCHANGED <<flock, token, firing, bg, calls, client>>

(* The path is taken, or the permissions of the new socket cannot be set. *)
BindFails(d) ==
    /\ phase[d] = "binding"
    /\ Goto(d, "joining")
    /\ socket' = IF socket = None THEN d ELSE socket
    /\ Cancel(d, "told")
    /\ UNCHANGED <<flock, listening, firing, bg, calls, client>>

-----------------------------------------------------------------------------
(* Service *)

HandledBy(d) == {q \in Calls : peer[q] = d /\ stage[q] = "handling"}

(* The accept loop holds one connection at a time until it has a permit; *)
(* it may still take one after the token is cancelled.                   *)
Accept(d, q) ==
    /\ phase[d] = "accepting"
    /\ peer[q] = d /\ stage[q] = "backlog"
    /\ \A r \in Calls : ~(peer[r] = d /\ stage[r] = "accepted")
    /\ stage' = [stage EXCEPT ![q] = "accepted"]
    /\ UNCHANGED <<disk, process, peer, client>>

Permit(d, q) ==
    /\ phase[d] = "accepting"
    /\ peer[q] = d /\ stage[q] = "accepted"
    /\ Cardinality(HandledBy(d)) < MaxConns
    /\ stage' = [stage EXCEPT ![q] = "handling"]
    /\ UNCHANGED <<disk, process, peer, client>>

(* A handler answers; Shutdown cancels the token first. *)
HandleConnection(d, q) ==
    /\ q \in HandledBy(d)
    /\ stage' = [stage EXCEPT ![q] = "answered"]
    /\ IF q[2] = "work" THEN UNCHANGED token ELSE Cancel(d, "told")
    /\ UNCHANGED <<disk, phase, listening, firing, bg, peer, client>>

(* The request never arrives in time, or its answer cannot be written. *)
DropConnection(d, q) ==
    /\ q \in HandledBy(d)
    /\ stage' = [stage EXCEPT ![q] = "reset"]
    /\ UNCHANGED <<disk, process, peer, client>>

(* A background loop begins a pass that writes; all of them hold an        *)
(* activity guard while they do.                                           *)
BeginPass(d, k) ==
    /\ bg[d][k] = "idle"
    /\ bg' = [bg EXCEPT ![d][k] = "writing"]
    /\ UNCHANGED <<disk, phase, listening, token, firing, calls, client>>

EndPass(d, k) ==
    /\ bg[d][k] = "writing"
    /\ bg' = [bg EXCEPT ![d][k] = IF k = "boot" THEN "off" ELSE "idle"]
    /\ UNCHANGED <<disk, phase, listening, token, firing, calls, client>>

(* On the token every loop ends when it is idle; an aborted one also in    *)
(* the middle of a pass, at its next await.                                *)
StopLoop(d, k) ==
    /\ Cancelled(d)
    /\ bg[d][k] = "idle" \/ (bg[d][k] = "writing" /\ k \in Aborted)
    /\ bg' = [bg EXCEPT ![d][k] = "off"]
    /\ UNCHANGED <<disk, phase, listening, token, firing, calls, client>>

(* should_idle_exit: no guard is held and the window, at least a second    *)
(* after the loops start, has passed ...                                   *)
IdleCheck(d) ==
    /\ d \in IdleExit /\ phase[d] = "accepting" /\ ~Cancelled(d) /\ ~firing[d]
    /\ HandledBy(d) = {} /\ \A k \in Background : bg[d][k] # "writing"
    /\ firing' = [firing EXCEPT ![d] = TRUE]
    /\ UNCHANGED <<disk, phase, listening, token, bg, calls, client>>

(* ... and the token is cancelled some instants later. *)
IdleCancel(d) ==
    /\ phase[d] \in Up /\ firing[d]
    /\ firing' = [firing EXCEPT ![d] = FALSE]
    /\ Cancel(d, "idle")
    /\ UNCHANGED <<disk, phase, listening, bg, calls, client>>

(* SIGINT or SIGTERM, once the handlers are installed. *)
Signal(d) ==
    /\ d \in Struck /\ phase[d] \in Up /\ ~Cancelled(d)
    /\ Cancel(d, "told")
    /\ UNCHANGED <<disk, phase, listening, firing, bg, calls, client>>

-----------------------------------------------------------------------------
(* Shutdown *)

(* The accept loop breaks; a connection still without a permit is closed. *)
StopAccepting(d) ==
    /\ phase[d] = "accepting" /\ Cancelled(d)
    /\ Goto(d, "draining")
    /\ Hangup(d, {"accepted"})
    /\ UNCHANGED <<disk, listening, token, firing, bg, peer, client>>

\* Mutant: the drain waits for the handlers without a deadline.
DrainForever(d) == FALSE

(* After SHUTDOWN_DRAIN_TIMEOUT the remaining handlers are aborted ... *)
DrainDeadline(d) ==
    /\ phase[d] = "draining"
    /\ Goto(d, "aborting")
    /\ UNCHANGED <<disk, listening, token, firing, bg, calls, client>>

(* ... each ends at its next await, and all of them are joined. *)
AbortHandler(d, q) ==
    /\ phase[d] = "aborting" /\ q \in HandledBy(d)
    /\ stage' = [stage EXCEPT ![q] = "reset"]
    /\ UNCHANGED <<disk, process, peer, client>>

\* Mutant: the handlers are left running, as before the JoinSet.
DrainSkipped(d) == TRUE

(* No handler is left: serve_on_listener returns and drops the listener    *)
(* with its backlog.                                                       *)
Drained(d) == HandledBy(d) = {}

CloseListener(d) ==
    /\ phase[d] \in {"draining", "aborting"} /\ Drained(d)
    /\ Goto(d, "joining")
    /\ listening' = [listening EXCEPT ![d] = FALSE]
    /\ Cancel(d, "told")
    /\ Hangup(d, {"backlog"})
    /\ UNCHANGED <<disk, firing, bg, peer, client>>

(* The monitor of the maintenance loop ends with the loop, or the deadline *)
(* passes and the monitor is dropped, whatever the loop is doing.          *)
JoinMaintenance(d) ==
    /\ phase[d] = "joining"
    /\ Goto(d, "unlinking")
    /\ UNCHANGED <<disk, listening, token, firing, bg, calls, client>>

\* Mutant: the lock is dropped first and the socket removed after it.
RemoveSocketLast(d) ==
    \/ /\ phase[d] = "unlinking"
       /\ Goto(d, "releasing")
       /\ flock' = None
       /\ UNCHANGED <<socket, listening, token, firing, bg, calls, client>>
    \/ /\ phase[d] = "releasing"
       /\ Goto(d, "exiting")
       /\ socket' = None
       /\ UNCHANGED <<flock, listening, token, firing, bg, calls, client>>

RemoveSocket(d) ==
    /\ phase[d] = "unlinking"
    /\ Goto(d, "releasing")
    /\ socket' = None
    /\ UNCHANGED <<flock, listening, token, firing, bg, calls, client>>

DropLock(d) ==
    /\ phase[d] = "releasing"
    /\ Goto(d, "exiting")
    /\ flock' = None
    /\ UNCHANGED <<socket, listening, token, firing, bg, calls, client>>

(* main returns and the runtime takes every task with it. *)
Exit(d) ==
    /\ phase[d] = "exiting"
    /\ Goto(d, "exited")
    /\ bg' = [bg EXCEPT ![d] = [k \in Background |-> "off"]]
    /\ firing' = [firing EXCEPT ![d] = FALSE]
    /\ UNCHANGED <<disk, listening, token, calls, client>>

(* A watchdog trip, a kill, or a signal before the handlers are installed: *)
(* the system closes the lock and the sockets, and the socket file stays.  *)
Crash(d) ==
    /\ d \in Struck /\ phase[d] \in Running
    /\ Goto(d, "exited")
    /\ flock' = IF flock = d THEN None ELSE flock
    /\ listening' = [listening EXCEPT ![d] = FALSE]
    /\ bg' = [bg EXCEPT ![d] = [k \in Background |-> "off"]]
    /\ firing' = [firing EXCEPT ![d] = FALSE]
    /\ Hangup(d, InFlight)
    /\ UNCHANGED <<socket, token, peer, client>>

-----------------------------------------------------------------------------
(* Clients *)

Reachable(d) == socket = d /\ listening[d]
Unreachable  == \A d \in Daemons : ~Reachable(d)

Move(c, p) == cpc' = [cpc EXCEPT ![c] = p]

(* A request on the way to daemon d, waiting in its backlog. *)
Dial(q, d) ==
    /\ peer' = [peer EXCEPT ![q] = d]
    /\ stage' = [stage EXCEPT ![q] = "backlog"]

(* A tool call, `daemon stop` or `daemon restart`. *)
Begin(c, o) ==
    /\ cpc[c] = "idle"
    /\ op' = [op EXCEPT ![c] = o]
    /\ Move(c, IF o = "use" THEN "connect" ELSE "find")
    /\ after' = [after EXCEPT ![c] = IF o = "restart" THEN "probe" ELSE "done"]
    /\ UNCHANGED <<disk, process, calls, asked>>

ConnectOrSpawn(c) ==
    /\ cpc[c] = "connect"
    /\ Move(c, IF Unreachable THEN "probe" ELSE "call")
    /\ UNCHANGED <<disk, process, calls, op, after, asked>>

(* ensure_daemon_running returns to its caller. *)
Ensured(c) == IF op[c] = "use" THEN "reconnect" ELSE "done"

(* A daemon that answers the Ping with another version, or not at all, is  *)
(* stopped first.                                                          *)
ProbeRunningDaemon(c) ==
    /\ cpc[c] = "probe"
    /\ \/ Unreachable /\ Move(c, "spawn") /\ UNCHANGED after
       \/ \E d \in Daemons \ Skewed :
            /\ Reachable(d) /\ phase[d] = "accepting"
            /\ Move(c, Ensured(c)) /\ UNCHANGED after
       \/ ~Unreachable /\ Move(c, "find") /\ after' = [after EXCEPT ![c] = "spawn"]
    /\ UNCHANGED <<disk, process, calls, op, asked>>

(* stop: nothing to stop, or a daemon to ask. *)
FindDaemon(c) ==
    /\ cpc[c] = "find"
    /\ \/ /\ Unreachable /\ Move(c, after[c])
          /\ asked' = [asked EXCEPT ![c] = None]
       \/ \E d \in Daemons :
            /\ Reachable(d) /\ Move(c, "ask")
            /\ asked' = [asked EXCEPT ![c] = d]
    /\ UNCHANGED <<disk, process, calls, op, after>>

StopCall(c) == <<c, IF after[c] = "spawn" THEN "skew" ELSE "stop">>

(* The Shutdown request; a failure to send it is ignored. *)
AskShutdown(c) ==
    /\ cpc[c] = "ask"
    /\ \/ Unreachable /\ Move(c, "poll") /\ UNCHANGED calls
       \/ \E d \in Daemons : Reachable(d) /\ Dial(StopCall(c), d) /\ Move(c, "asked")
    /\ UNCHANGED <<disk, process, op, after, asked>>

(* The answer, the end of the connection, or the timeout. *)
ShutdownCallEnds(c) ==
    /\ cpc[c] = "asked"
    /\ Move(c, "poll")
    /\ UNCHANGED <<disk, process, calls, op, after, asked>>

\* Mutant: stop trusts the answer to its request and does not poll.
PollSkipped(c) ==
    /\ cpc[c] = "poll"
    /\ Move(c, after[c])
    /\ UNCHANGED <<disk, process, calls, op, after, asked>>

(* The socket is gone or refuses, or STOP_TIMEOUT passes first. *)
PollStopped(c) ==
    /\ cpc[c] = "poll"
    /\ \/ Unreachable /\ Move(c, after[c])
       \/ ~Unreachable /\ Move(c, "failed")
    /\ UNCHANGED <<disk, process, calls, op, after, asked>>

(* A detached process; the log file or the executable may be unusable. *)
SpawnDaemon(c) ==
    /\ cpc[c] = "spawn"
    /\ \/ \E d \in Daemons :
            phase[d] = "unspawned" /\ Goto(d, "locking") /\ Move(c, "wait")
       \/ UNCHANGED phase /\ Move(c, "failed")
    /\ UNCHANGED <<disk, listening, token, firing, bg, calls, op, after, asked>>

(* Whichever daemon answers will do; else the connection budget runs out. *)
WaitForDaemonSocket(c) ==
    /\ cpc[c] = "wait"
    /\ Move(c, IF Unreachable THEN "failed" ELSE Ensured(c))
    /\ UNCHANGED <<disk, process, calls, op, after, asked>>

Reconnect(c) ==
    /\ cpc[c] = "reconnect"
    /\ Move(c, IF Unreachable THEN "failed" ELSE "call")
    /\ UNCHANGED <<disk, process, calls, op, after, asked>>

CallRaw(c) ==
    /\ cpc[c] = "call"
    /\ \/ Unreachable /\ Move(c, "failed") /\ UNCHANGED calls
       \/ \E d \in Daemons : Reachable(d) /\ Dial(<<c, "work">>, d) /\ Move(c, "called")
    /\ UNCHANGED <<disk, process, op, after, asked>>

\* Mutant: a request without a deadline waits for the end of its connection.
CallUnbounded(c) ==
    /\ cpc[c] = "called" /\ stage[<<c, "work">>] \notin InFlight
    /\ Move(c, IF stage[<<c, "work">>] = "answered" THEN "done" ELSE "failed")
    /\ UNCHANGED <<disk, process, calls, op, after, asked>>

(* Answer, end of file, or the deadline of the request class: the daemon   *)
(* goes on with a request whose client has left.                           *)
CallEnds(c) ==
    /\ cpc[c] = "called"
    /\ Move(c, IF stage[<<c, "work">>] = "answered" THEN "done" ELSE "failed")
    /\ UNCHANGED <<disk, process, calls, op, after, asked>>

-----------------------------------------------------------------------------
BootStep(d) ==
    \/ RefuseBoot(d) \/ AcquireSingleInstance(d) \/ OpenState(d)
    \/ RemoveStaleSocket(d) \/ Bind(d) \/ BindFails(d)

ServeStep(d) ==
    \/ \E q \in Calls : \/ Accept(d, q) \/ Permit(d, q)
                         \/ HandleConnection(d, q) \/ DropConnection(d, q)
    \/ \E k \in Background : BeginPass(d, k) \/ EndPass(d, k) \/ StopLoop(d, k)
    \/ IdleCheck(d) \/ IdleCancel(d) \/ Signal(d)

ShutdownStep(d) ==
    \/ StopAccepting(d) \/ DrainDeadline(d)
    \/ \E q \in Calls : AbortHandler(d, q)
    \/ CloseListener(d) \/ JoinMaintenance(d) \/ RemoveSocket(d)
    \/ DropLock(d) \/ Exit(d)

ClientStep(c) ==
    \/ ConnectOrSpawn(c) \/ ProbeRunningDaemon(c) \/ FindDaemon(c)
    \/ AskShutdown(c) \/ ShutdownCallEnds(c) \/ PollStopped(c)
    \/ SpawnDaemon(c) \/ WaitForDaemonSocket(c) \/ Reconnect(c)
    \/ CallRaw(c) \/ CallEnds(c)

Next ==
    \/ \E d \in Daemons : BootStep(d) \/ ServeStep(d) \/ ShutdownStep(d) \/ Crash(d)
    \/ \E c \in Clients : ClientStep(c) \/ \E o \in Commands[c] : Begin(c, o)

Spec == Init /\ [][Next]_vars

Fairness ==
    /\ \A d \in Daemons : WF_vars(BootStep(d)) /\ WF_vars(ShutdownStep(d))
    /\ \A c \in Clients : WF_vars(ClientStep(c))

FairSpec == Spec /\ Fairness

-----------------------------------------------------------------------------
(* Properties *)

(* A request is never being handled by a process that no longer holds the  *)
(* instance lock: drain_handlers joins every handler, aborted ones too,    *)
(* before cleanup drops the lock, so no successor opens the store beside a *)
(* running mutation.                                                       *)
HandlersUnderLock ==
    \A d \in Daemons : HandledBy(d) # {} => flock = d

(* A daemon that listens can be dialled: neither the cleanup of an exiting *)
(* daemon nor the stale-socket removal of a booting one deletes the socket *)
(* another process has bound.                                              *)
ListenerReachable ==
    \A d \in Daemons : listening[d] => socket = d

(* Once `stop` has returned success, the daemon that answered its probe no *)
(* longer listens, even if a successor has come up on the same path.       *)
StopMeansClosed ==
    \A c \in Clients :
        asked[c] # None /\ cpc[c] \notin {"ask", "asked", "poll", "failed"}
            => ~listening[asked[c]]

(* The shutdown of a daemon ends, wedged handlers and loops included: the  *)
(* drain deadline aborts what does not finish.                             *)
ShutdownEnds ==
    \A d \in Daemons : Cancelled(d) ~> phase[d] = "exited"

(* Every command returns to its user: each wait on a daemon that may never *)
(* answer, come up or go away has a deadline.                              *)
ClientReturns ==
    \A c \in Clients : cpc[c] # "idle" ~> cpc[c] \in Finished
=============================================================================
