-------------------------- MODULE MCDaemonLifecycle --------------------------
(* Instances of DaemonLifecycle: a caller and a stopper, and two processes, *)
(* so that an exiting daemon and its successor meet both.  The first        *)
(* process is of another version and has the background work.               *)
EXTENDS DaemonLifecycle

CONSTANTS c1, c2, d1, d2

MCCommands == [c \in Clients |-> IF c = c1 THEN {"use"} ELSE {"stop", "restart"}]
MCStarted  == [d \in Daemons |-> IF d = d1 THEN {"pump"} ELSE {}]
=============================================================================
