------------------------- MODULE SplitStoreShutdown -------------------------
(***************************************************************************)
(* The split store while the daemon shuts down.  Cancelling the shutdown   *)
(* token makes the supervisor's monitor abort the maintenance task at the  *)
(* await it is at, while connection handlers and catch-up tasks go on for  *)
(* the drain period.  The abort drops the collector's gate guard; a delete *)
(* that supervise_scan has already spawned is not dropped with it.         *)
(***************************************************************************)
EXTENDS SplitStore

VARIABLES stopping,  \* the shutdown token is cancelled
          detached   \* keys of an orphan delete whose caller is gone

shutdownVars == <<vars, stopping, detached>>

ShutdownInit == Init /\ stopping = FALSE /\ detached = {}

\* SIGTERM, idle exit or the shutdown request.
CancelToken ==
    /\ ~stopping
    /\ stopping' = TRUE
    /\ UNCHANGED <<vars, detached>>

\* The monitor's select: abort the task and await it.
AbortMaintenance ==
    /\ stopping
    /\ gcPc # "idle"
    /\ detached' = IF gcPc = "delete" THEN detached \cup orphans ELSE detached
    /\ GcDone
    /\ UNCHANGED <<disk, writer, faults, stopping>>

\* The spawned delete runs to completion.
DetachedDelete ==
    /\ detached # {}
    /\ DropContent(detached)
    /\ detached' = {}
    /\ UNCHANGED <<fileMap, gate, writer, gc, faults, stopping>>

\* Everything else; a stopping daemon starts no further collection.
OtherStep ==
    \/ /\ RunStep
       /\ stopping /\ gcPc = "idle" => gcPc' = "idle"
       /\ UNCHANGED <<stopping, detached>>
    \/ Crash /\ stopping' = FALSE /\ detached' = {}

ShutdownNext == CancelToken \/ AbortMaintenance \/ DetachedDelete \/ OtherStep

ShutdownSpec == ShutdownInit /\ [][ShutdownNext]_shutdownVars

-----------------------------------------------------------------------------
\* A map row comes to point at missing content only while a daemon shuts down:
\* neither a crash nor what an earlier shutdown left dangling makes a running
\* daemon's collections and batches lose the content of a file.
OnlyShutdownDangles ==
    [][stopping \/ \A f \in Files : HasContent(f) => HasContent(f)']_shutdownVars
=============================================================================
