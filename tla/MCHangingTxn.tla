---------------------------- MODULE MCHangingTxn ----------------------------
(***************************************************************************)
(* Small instances of HangingTxn: two partitions that one producer can have  *)
(* in a transaction, or two producers on one partition.                      *)
(***************************************************************************)
EXTENDS HangingTxn, TLC

CONSTANTS p1, p2, q1, q2

Symmetry == Permutations(Partitions) \union Permutations(Producers)
=============================================================================
