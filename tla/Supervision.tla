---------------------------- MODULE Supervision ----------------------------
(***************************************************************************)
(* How the daemon survives its own tasks: the supervisor that restarts a   *)
(* panicked task with backoff and escalates a crash loop (supervisor.rs,   *)
(* ladder.rs, backoff.rs), the heartbeats and the watchdog thread that     *)
(* aborts a stalled process (heartbeat.rs, watchdog.rs, server.rs), and    *)
(* the boot check that makes the next process wait (watchdog.rs).          *)
(*                                                                         *)
(* Time is discrete and kept as ages and remaining times, which stop at    *)
(* the last value any comparison tells apart.  Instants of one process use *)
(* the monotonic clock; the trip file uses the wall clock, which can be    *)
(* set back.                                                               *)
(***************************************************************************)
EXTENDS Integers, Sequences, FiniteSets

CONSTANTS
    Task,                        \* the supervised loops
    Monitored,                   \* candidates of spawn_watchdog_when_armed
    OneShot,                     \* CatchUp, which may exit normally
    Panicky,                     \* bound: the tasks that may panic
    Cap, Window,                 \* restart_intensity_cap, .._window_secs
    WarnAt, ActAt,               \* the supervisor's ladder
    BackoffFloor, BackoffCap,
    Stall, Poll,                 \* watchdog_stall_secs, and its poll
    BootFloor, BootCap,          \* boot_backoff_floor_secs, .._cap_secs
    Decay, MaxStored,            \* TRIP_DECAY_SECS, MAX_STORED_TRIPS
    Bits,                        \* width of the integers of the backoff curve
    MaxBack                      \* bound: ticks the wall clock is set back

ASSUME SupervisionAssumption ==
    /\ Monitored \subseteq Task /\ OneShot \subseteq Task \ Monitored
    /\ Panicky \subseteq Task
    /\ {Cap, Window, WarnAt, ActAt, BackoffFloor, BackoffCap, Stall, Poll,
        BootFloor, BootCap, Decay, MaxStored, Bits} \subseteq Nat \ {0}
    /\ WarnAt <= ActAt /\ BackoffFloor <= BackoffCap /\ BootFloor <= BootCap
    /\ BackoffCap <= BackoffFloor * 2^(Bits - 1) /\ BootCap <= BootFloor * 2^(Bits - 1)
    /\ {BackoffCap, BootCap} \subseteq 0 .. 2^Bits - 1
    /\ MaxBack \in Nat

\* A trip is remembered longer than the first backoff lasts, with the one
\* before it (the constants' comments: an hour, 32 trips).
ASSUME DecayAssumption == BootFloor <= Decay /\ MaxStored >= 2

VARIABLES
    proc,       \* the process: "down", "refused", "up", "draining"
    life,      \* of each monitor: "none", "running", "backoff", "ended"
    uptime,     \* since a task that may panic was started, up to Window
    panics,     \* ages of recent_panics
    quick,      \* consecutive_quick_panics, up to where the curve is flat
    strikes,    \* escalation_strikes, up to ActAt
    delay,      \* what is left of the backoff sleep
    escalated,  \* the hook has been called for this task
    beaten,     \* the task's epoch is above 0
    fresh,      \* the task's epoch differs from the watchdog's last_epoch
    wd,         \* "off", "arming", "watching", "tripping", "aborting", "stopped"
    pollIn,     \* until the next poll
    quiet,      \* since last_progress, up to Stall
    silence,    \* history: since the task's own last bump while watched
    trips,      \* the trip file: ages, oldest first; negative in the future
    back,       \* how often the wall clock was set back
    gap,        \* history: real time between the last two recorded trips
    sinceTrip   \* history: real time since the last recorded trip

monitors == <<life, uptime, panics, quick, strikes, delay, escalated>>
watchdog == <<beaten, fresh, wd, pollIn, quiet, silence>>
bootfile == <<trips, back, gap, sinceTrip>>
SVvars == <<proc, monitors, watchdog, bootfile>>

Lesser(a, b) == IF a <= b THEN a ELSE b

(* exponential_backoff_secs: the shift stops at the top bit, the product    *)
(* saturates, the result never exceeds the cap.                             *)
Backoff(floor, cap, steps) ==
    IF steps = 0 THEN 0
    ELSE LET shift == 2^Lesser(steps - 1, Bits - 1)
         IN Lesser(Lesser(floor * shift, 2^Bits - 1), cap)

(* The first step count from which the curve is flat.                       *)
QuickTop == CHOOSE n \in 1 .. Bits + 1 :
    /\ \A m \in n .. Bits + 1 : Backoff(BackoffFloor, BackoffCap, m)
                                 = Backoff(BackoffFloor, BackoffCap, n)
    /\ \A k \in 1 .. n - 1 : Backoff(BackoffFloor, BackoffCap, k)
                              # Backoff(BackoffFloor, BackoffCap, n)

evaluate(count) ==
    IF count >= ActAt THEN "action" ELSE IF count >= WarnAt THEN "warn" ELSE "nothing"

\* The polls that cover the stall window, and one more: a task may have bumped
\* just before the poll that last saw it move.
Latency == Poll * ((Stall + Poll - 1) \div Poll) + Poll

\* The age of a trip that no clock set back makes recent again.
Forgotten == Decay + MaxBack + 1

Fresh0 == [t \in Task |-> FALSE]
Zero == [t \in Task |-> 0]

SVTypeOK ==
    /\ proc \in {"down", "refused", "up", "draining"}
    /\ life \in [Task -> {"none", "running", "backoff", "ended"}]
    /\ uptime \in [Task -> 0 .. Window]
    /\ panics \in [Task -> SUBSET (0 .. Window)]
    /\ quick \in [Task -> 0 .. QuickTop]
    /\ strikes \in [Task -> 0 .. ActAt]
    /\ delay \in [Task -> 0 .. BackoffCap]
    /\ escalated \in [Task -> BOOLEAN]
    /\ beaten \in [Task -> BOOLEAN] /\ fresh \in [Task -> BOOLEAN]
    /\ wd \in {"off", "arming", "watching", "tripping", "aborting", "stopped"}
    /\ pollIn \in 0 .. Poll
    /\ quiet \in [Task -> 0 .. Stall]
    /\ silence \in [Task -> 0 .. Latency + 1]
    /\ trips \in Seq((0 - MaxBack) .. Forgotten) /\ Len(trips) <= MaxStored
    /\ back \in 0 .. MaxBack
    /\ gap \in 0 .. Decay + 1
    /\ sinceTrip \in 0 .. Decay + 1
-----------------------------------------------------------------------------
SVInit ==
    /\ proc = "down"
    /\ life = [t \in Task |-> "none"]
    /\ uptime = Zero /\ quick = Zero /\ strikes = Zero /\ delay = Zero
    /\ panics = [t \in Task |-> {}]
    /\ escalated = Fresh0 /\ beaten = Fresh0 /\ fresh = Fresh0
    /\ wd = "off" /\ pollIn = 0 /\ quiet = Zero /\ silence = Zero
    /\ trips = <<>> /\ back = 0
    /\ gap = Decay + 1 /\ sinceTrip = Decay + 1

(* The process is gone: nothing but the trip file survives.                 *)
Gone(p) ==
    /\ proc' = p
    /\ life' = [t \in Task |-> "none"]
    /\ uptime' = Zero /\ quick' = Zero /\ strikes' = Zero /\ delay' = Zero
    /\ panics' = [t \in Task |-> {}]
    /\ escalated' = Fresh0 /\ beaten' = Fresh0 /\ fresh' = Fresh0
    /\ wd' = "off" /\ pollIn' = 0 /\ quiet' = Zero /\ silence' = Zero
-----------------------------------------------------------------------------
(* The trip file and the boot check.                                        *)

newest(s, n) == IF Len(s) <= n THEN s ELSE SubSeq(s, Len(s) - n + 1, Len(s))

(* read_recent_trips: decayed and future trips are ignored.  The file holds  *)
(* the oldest first (record_trip appends to what is not in the future), so   *)
(* that what is left is one stretch of it.                                   *)
read_recent_trips ==
    LET decayed == Cardinality({i \in DOMAIN trips : trips[i] > Decay})
        future  == Cardinality({i \in DOMAIN trips : trips[i] < 0})
    IN newest(SubSeq(trips, decayed + 1, Len(trips) - future), MaxStored)

record_trip == newest(Append(read_recent_trips, 0), MaxStored)

(* trip_snapshot: the floor the recent trips impose.                        *)
backoff_secs == Backoff(BootFloor, BootCap, Len(read_recent_trips))

\* Mutant: the wait is measured from the oldest recent trip.
retry_after_oldest ==
    LET recent == read_recent_trips
    IN IF recent = <<>> \/ recent[1] >= backoff_secs THEN 0
       ELSE backoff_secs - recent[1]

(* check_boot_backoff: what is left to wait; 0 means Proceed.               *)
retry_after ==
    LET recent == read_recent_trips
        age == recent[Len(recent)]
    IN IF recent = <<>> \/ age >= backoff_secs THEN 0 ELSE backoff_secs - age

\* Mutant: a refused boot counts as another trip.
BootRefusedRecords ==
    /\ proc = "down" /\ retry_after > 0
    /\ proc' = "refused"
    /\ trips' = record_trip
    /\ UNCHANGED <<monitors, watchdog, back, gap, sinceTrip>>

BootRefused ==
    /\ proc = "down" /\ retry_after > 0
    /\ proc' = "refused"
    /\ UNCHANGED <<monitors, watchdog, bootfile>>

(* The next client use spawns the daemon again.                             *)
Respawn ==
    /\ proc = "refused"
    /\ proc' = "down"
    /\ UNCHANGED <<monitors, watchdog, bootfile>>

BootProceed ==
    /\ proc = "down" /\ retry_after = 0
    /\ proc' = "up"
    /\ life' = [t \in Task |-> "running"]
    /\ wd' = IF Monitored = {} THEN "off" ELSE "arming"
    /\ UNCHANGED <<uptime, panics, quick, strikes, delay, escalated, beaten, fresh,
                   pollIn, quiet, silence, bootfile>>
-----------------------------------------------------------------------------
(* The supervisor.                                                          *)

Looping(t) == proc \in {"up", "draining"} /\ life[t] = "running"

(* A supervised loop completes a pass.                                      *)
Bump(t) ==
    /\ Looping(t) /\ t \in Monitored
    /\ beaten' = [beaten EXCEPT ![t] = TRUE]
    /\ fresh' = [fresh EXCEPT ![t] = TRUE]
    /\ silence' = [silence EXCEPT ![t] = 0]
    /\ UNCHANGED <<proc, monitors, wd, pollIn, quiet, bootfile>>

Finish(t) ==
    /\ Looping(t) /\ t \in OneShot
    /\ life' = [life EXCEPT ![t] = "ended"]
    /\ UNCHANGED <<proc, uptime, panics, quick, strikes, delay, escalated,
                   watchdog, bootfile>>

healthy(t) == uptime[t] >= Window

(* retain keeps t iff now - t <= window; panics are at least the backoff    *)
(* floor apart, so their ages differ.                                       *)
recent_panics(t) == {a \in panics[t] : a <= Window} \cup {0}

\* Mutant: the escalation is not sticky.
over_counting_only(t) == Cardinality(recent_panics(t)) > Cap

over(t) ==
    \/ Cardinality(recent_panics(t)) > Cap
    \/ ~ healthy(t) /\ strikes[t] > 0

strike(t) ==
    LET kept == IF healthy(t) THEN 0 ELSE strikes[t]
    IN IF over(t) THEN Lesser(kept + 1, ActAt) ELSE kept

quick_panics(t) ==
    Lesser((IF healthy(t) THEN 0 ELSE quick[t]) + 1, QuickTop)

Panic(t) ==
    /\ Looping(t) /\ t \in Panicky
    /\ life' = [life EXCEPT ![t] = "backoff"]
    /\ quick' = [quick EXCEPT ![t] = quick_panics(t)]
    /\ panics' = [panics EXCEPT ![t] = recent_panics(t)]
    /\ strikes' = [strikes EXCEPT ![t] = strike(t)]
    /\ escalated' = [escalated EXCEPT ![t] =
                        @ \/ (over(t) /\ evaluate(strike(t)) = "action")]
    /\ delay' = [delay EXCEPT ![t] =
                    IF over(t) THEN BackoffCap
                    ELSE Backoff(BackoffFloor, BackoffCap, quick_panics(t))]
    /\ UNCHANGED <<proc, uptime, watchdog, bootfile>>

\* Mutant: a restart counts as progress of the task.
RestartBumps(t) ==
    /\ proc \in {"up", "draining"}
    /\ life[t] = "backoff" /\ delay[t] = 0
    /\ life' = [life EXCEPT ![t] = "running"]
    /\ uptime' = [uptime EXCEPT ![t] = 0]
    /\ beaten' = [beaten EXCEPT ![t] = TRUE] /\ fresh' = [fresh EXCEPT ![t] = TRUE]
    /\ UNCHANGED <<proc, panics, quick, strikes, delay, escalated, wd, pollIn,
                   quiet, silence, bootfile>>

Restart(t) ==
    /\ proc \in {"up", "draining"}
    /\ life[t] = "backoff" /\ delay[t] = 0
    /\ life' = [life EXCEPT ![t] = "running"]
    /\ uptime' = [uptime EXCEPT ![t] = 0]
    /\ UNCHANGED <<proc, panics, quick, strikes, delay, escalated, watchdog, bootfile>>

(* The token ends the task, or the sleep before its restart.                *)
EndMonitor(t) ==
    /\ proc = "draining" /\ life[t] \in {"running", "backoff"}
    /\ life' = [life EXCEPT ![t] = "ended"]
    /\ UNCHANGED <<proc, uptime, panics, quick, strikes, delay, escalated,
                   watchdog, bootfile>>

Shutdown ==
    /\ proc = "up"
    /\ proc' = "draining"
    /\ UNCHANGED <<monitors, watchdog, bootfile>>

(* The drained process returns from main, or is killed at any moment.       *)
DrainEnds ==
    /\ proc = "draining"
    /\ Gone("down")
    /\ UNCHANGED bootfile

Kill ==
    /\ proc = "up"
    /\ Gone("down")
    /\ UNCHANGED bootfile
-----------------------------------------------------------------------------
(* The watchdog.                                                            *)

Alive == proc \in {"up", "draining"}

Arm ==
    /\ Alive /\ wd = "arming" /\ pollIn = 0
    /\ IF \A t \in Monitored : beaten[t]
       THEN /\ wd' = "watching"
            /\ fresh' = Fresh0
            /\ quiet' = Zero /\ silence' = Zero
       ELSE UNCHANGED <<wd, fresh, quiet, silence>>
    /\ pollIn' = Poll
    /\ UNCHANGED <<proc, monitors, beaten, bootfile>>

(* stalled_tasks, as one poll computes it.                                  *)
stalled == {t \in Monitored : ~ fresh[t] /\ quiet[t] >= Stall}

\* Mutant: a moved epoch is noted but last_progress is not.
PollTasksKeepsProgress ==
    /\ Alive /\ wd = "watching" /\ pollIn = 0
    /\ fresh' = Fresh0 /\ quiet' = quiet
    /\ IF stalled = {} THEN pollIn' = Poll /\ wd' = wd
                       ELSE pollIn' = pollIn /\ wd' = "tripping"
    /\ UNCHANGED <<proc, monitors, beaten, silence, bootfile>>

PollTasks ==
    /\ Alive /\ wd = "watching" /\ pollIn = 0
    /\ quiet' = [t \in Task |-> IF fresh[t] THEN 0 ELSE quiet[t]]
    /\ fresh' = Fresh0
    /\ IF stalled = {} THEN pollIn' = Poll /\ wd' = wd
                       ELSE pollIn' = pollIn /\ wd' = "tripping"
    /\ UNCHANGED <<proc, monitors, beaten, silence, bootfile>>

RecordTrip ==
    /\ Alive /\ wd = "tripping"
    /\ wd' = "aborting"
    /\ \/ /\ trips' = record_trip
          /\ gap' = sinceTrip /\ sinceTrip' = 0
       \/ UNCHANGED <<trips, gap, sinceTrip>>      \* not persisted
    /\ UNCHANGED <<proc, monitors, beaten, fresh, pollIn, quiet, silence, back>>

Abort ==
    /\ Alive /\ wd = "aborting"
    /\ Gone("down")
    /\ UNCHANGED bootfile

(* Watchdog::stop joins the thread: a trip under way is not called off.     *)
StopWatchdog ==
    /\ proc = "draining" /\ wd \in {"arming", "watching"}
    /\ wd' = "stopped" /\ pollIn' = 0
    /\ UNCHANGED <<proc, monitors, beaten, fresh, quiet, silence, bootfile>>
-----------------------------------------------------------------------------
(* Sleeps and polls that are due happen before time moves on.               *)
Due ==
    \/ Alive /\ wd \in {"arming", "watching"} /\ pollIn = 0
    \/ Alive /\ wd \in {"tripping", "aborting"}
    \/ \E t \in Task : life[t] = "backoff" /\ delay[t] = 0

Tick ==
    /\ ~ Due
    /\ uptime' = [t \in Task |-> IF life[t] = "running" /\ t \in Panicky
                                 THEN Lesser(uptime[t] + 1, Window) ELSE uptime[t]]
    /\ panics' = [t \in Task |-> {a + 1 : a \in {b \in panics[t] : b < Window}}]
    /\ delay' = [t \in Task |-> IF life[t] = "backoff" THEN delay[t] - 1 ELSE delay[t]]
    /\ pollIn' = IF wd \in {"arming", "watching"} THEN pollIn - 1 ELSE pollIn
    /\ quiet' = [t \in Task |-> IF wd = "watching" /\ t \in Monitored
                                THEN Lesser(quiet[t] + 1, Stall) ELSE quiet[t]]
    /\ silence' = [t \in Task |-> IF wd = "watching" /\ t \in Monitored
                                  THEN Lesser(silence[t] + 1, Latency + 1) ELSE silence[t]]
    /\ trips' = [i \in 1 .. Len(trips) |-> Lesser(trips[i] + 1, Forgotten)]
    /\ sinceTrip' = Lesser(sinceTrip + 1, Decay + 1)
    /\ gap' = IF gap + sinceTrip' > Decay THEN Decay + 1 ELSE gap
    /\ UNCHANGED <<proc, life, quick, strikes, escalated, beaten, fresh, wd, back>>

(* The wall clock is set back one tick.                                     *)
SetClockBack ==
    /\ back < MaxBack
    /\ back' = back + 1
    /\ trips' = [i \in 1 .. Len(trips) |-> trips[i] - 1]
    /\ UNCHANGED <<proc, monitors, watchdog, gap, sinceTrip>>

SVNext ==
    \/ BootRefused \/ Respawn \/ BootProceed
    \/ \E t \in Task : Bump(t) \/ Finish(t) \/ Panic(t) \/ Restart(t) \/ EndMonitor(t)
    \/ Shutdown \/ DrainEnds \/ Kill
    \/ Arm \/ PollTasks \/ RecordTrip \/ Abort \/ StopWatchdog
    \/ Tick \/ SetClockBack

SVSpec == SVInit /\ [][SVNext]_SVvars

(* Sleeps end, the watchdog thread is scheduled, a shutdown completes, and  *)
(* someone keeps starting the daemon.                                       *)
SVFairness ==
    /\ WF_SVvars(Tick)
    /\ WF_SVvars(BootRefused) /\ WF_SVvars(Respawn) /\ WF_SVvars(BootProceed)
    /\ \A t \in Task : WF_SVvars(Restart(t))
    /\ WF_SVvars(Arm) /\ WF_SVvars(PollTasks) /\ WF_SVvars(RecordTrip) /\ WF_SVvars(Abort)
    /\ WF_SVvars(DrainEnds)

SVFairSpec == SVSpec /\ SVFairness
-----------------------------------------------------------------------------
(* No healthy task is shot: the watchdog decides to trip only when some     *)
(* monitored task has not bumped for the whole stall window (stalled_tasks, *)
(* spawn_watchdog_when_armed: a slow first cycle cannot false-trip).        *)
NoFalseTrip ==
    [][wd = "watching" /\ wd' = "tripping"
       => \E t \in Monitored : silence[t] >= Stall]_SVvars

(* A stalled task is found at the last poll of Latency, also when it is     *)
(* silent because it panics at every restart: the supervisor "deliberately  *)
(* does not bump the heartbeat registry on restart".  When Poll divides     *)
(* Stall that is one poll more than the stall window.                       *)
DetectedInTime ==
    wd = "watching" => \A t \in Monitored : silence[t] <= Latency

(* A crash loop that was once over the cap reaches the ladder's action,     *)
(* whatever the cool-down does to the count inside the window ("once        *)
(* escalated, stay escalated").                                             *)
CrashLoopEscalates ==
    \A t \in Task :
        (<>[](strikes[t] > 0) /\ []<>(life[t] = "backoff")) => <>escalated[t]

(* A boot that proceeds has waited out, in real time, the backoff that the  *)
(* last recorded trip imposes, and the next step of the curve when the trip *)
(* before it is not forgotten yet, unless the wall clock was set back       *)
(* (record_trip, check_boot_backoff; through crashes and refused boots).    *)
BackoffHonoured ==
    [][proc = "down" /\ proc' = "up" /\ back = 0
       => /\ sinceTrip >= BootFloor
          /\ gap + sinceTrip <= Decay => sinceTrip >= Backoff(BootFloor, BootCap, 2)]_SVvars

(* "The daemon NEVER refuses to start permanently": whatever the trip file  *)
(* says and the clock does, a process that is asked for comes up.           *)
BootsEventually == proc \in {"down", "refused"} ~> proc = "up"
=============================================================================
