-------------------------------- MODULE Timers --------------------------------
(***************************************************************************)
(* threading.Timer, as the command handlers use it.  A program counter p   *)
(* maps every thread to where it is; a timer's thread is "unarmed" until   *)
(* the timer is started, waits while it is "armed", and has gone past its  *)
(* last look at the cancelling event once it is "fired".                   *)
(***************************************************************************)

(* Timer.start() *)
Started(p, id) == [p EXCEPT ![id] = "armed"]

(***************************************************************************)
(* Timer.cancel() of the popped timer b, or no timer: it stops a timer     *)
(* that still waits, and comes too late for one that has fired.            *)
(***************************************************************************)
Cancelled(p, b) ==
    IF b \in DOMAIN p /\ p[b] = "armed" THEN [p EXCEPT ![b] = "cancelled"] ELSE p
===============================================================================
