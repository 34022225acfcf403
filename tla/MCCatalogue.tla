---------------------------- MODULE MCCatalogue ----------------------------
(* Small instances of Catalogue. *)
EXTENDS Pricing

CONSTANTS t1, t2, va, vb

TwoTxs == {t1, t2}
TwoVariants == {va, vb}
TwoPrices == {2, 3}
OneCost == {7}
ThreeMargins == {20, 60, 100}

SomeSymmetry == Permutations(TwoTxs) \cup Permutations(TwoVariants)

=============================================================================
