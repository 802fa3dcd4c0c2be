------------------------------- MODULE SdioTxMC ------------------------------
(***************************************************************************)
(* Small instances of SdioTx.                                              *)
(***************************************************************************)
EXTENDS SdioTx
=============================================================================
