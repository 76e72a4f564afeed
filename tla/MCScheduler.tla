---------------------------- MODULE MCScheduler ----------------------------
(***************************************************************************)
(* Scheduler for TLC, with ticks in every window; the behaviours in which  *)
(* none is hit are among the others.                                       *)
(***************************************************************************)
EXTENDS Scheduler

MCWindows == AllWindows
=============================================================================
