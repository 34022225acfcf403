-------------------------- MODULE MCOrderPayments --------------------------
(* An instance of OrderPayments for TLC.                                   *)
EXTENDS OrderPayments

Symmetry == Permutations(Txs) \cup Permutations(Payments)

\* Bound: of two requests under way one pays in the order's currency.
OneConverts == \E t \in Txs : intent'[t].row.rate = Null

PaymentsRun == PaymentsInit /\ [][PaymentsNext /\ OneConverts]_paymentVars

=============================================================================
