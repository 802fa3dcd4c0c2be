------------------------------ MODULE ConnectMC ------------------------------
(***************************************************************************)
(* Connect for TLC: a table of four works, as many as there are to         *)
(* register when the other interface is an access point.                   *)
(***************************************************************************)
EXTENDS Connect

MCWorks == {"event", "scan", "join", "apscan"}
MCModes == {"open", "wpa"}
=============================================================================
