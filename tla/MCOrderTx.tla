----------------------------- MODULE MCOrderTx -----------------------------
(* Instances of OrderTx for TLC.                                           *)
EXTENDS OrderTx

Symmetry == Permutations(Txs)

=============================================================================
