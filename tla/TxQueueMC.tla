------------------------------ MODULE TxQueueMC ------------------------------
(***************************************************************************)
(* Small instances of TxQueue.  Buffers are interchangeable.               *)
(***************************************************************************)
EXTENDS TxQueue, TLC

SkbSymmetry == Permutations(Skbs)
=============================================================================
