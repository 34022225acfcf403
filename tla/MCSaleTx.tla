------------------------------ MODULE MCSaleTx ------------------------------
(* An instance of SaleTx for TLC.                                          *)
EXTENDS SaleTx

\* Two deliveries of untagged stock, which all variants share; the one ordered
\* later arrived first, so batches and lots come in opposite orders.
TwoLots == (<<1, Untagged>> :> 2 @@ <<2, Untagged>> :> 2)
TwoEach == [r \in Rows |-> 2]
ArrivedLater == [k \in Slots |-> 3 - k[1]]
OrderedFirst == [k \in Slots |-> k[1]]

Symmetry == Permutations(Sales) \cup Permutations(Txs) \cup Permutations(Variants)

=============================================================================
