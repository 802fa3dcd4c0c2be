------------------------------ MODULE WpaEventMC -----------------------------
(***************************************************************************)
(* Small instances of WpaEvent.                                            *)
(***************************************************************************)
EXTENDS WpaEvent
=============================================================================
