----------------------------- MODULE EloopTimerMC ----------------------------
(***************************************************************************)
(* Small instances of EloopTimer.                                          *)
(***************************************************************************)
EXTENDS EloopTimer
=============================================================================
