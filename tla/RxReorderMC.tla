----------------------------- MODULE RxReorderMC -----------------------------
(***************************************************************************)
(* Small instances of RxReorder.                                           *)
(***************************************************************************)
EXTENDS RxReorder
=============================================================================
