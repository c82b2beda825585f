-------------------------- MODULE MCTimerClock ---------------------------
(* TimerClock with a short period: its parameters are in the .cfg files. *)
EXTENDS TimerClock
==========================================================================
