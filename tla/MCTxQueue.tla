------------------------------ MODULE MCTxQueue ------------------------------
(***************************************************************************)
(* TxQueue for TLC: the NBLs are interchangeable.                          *)
(***************************************************************************)
EXTENDS TxQueue, TLC

Symmetry == Permutations(Nbls)
=============================================================================
