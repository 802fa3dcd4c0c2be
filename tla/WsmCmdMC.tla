------------------------------- MODULE WsmCmdMC ------------------------------
(***************************************************************************)
(* Small instances of WsmCmd.                                              *)
(***************************************************************************)
EXTENDS WsmCmd
=============================================================================
