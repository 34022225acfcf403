----------------------------- MODULE MCTreasury -----------------------------
(* A small instance of FxRates, Cashflow and Advice together.              *)
EXTENDS Advice, TLC

CONSTANTS r1, r2

TwoRequests == {r1, r2}
TwoQuotes == {100, 110}
OneAmount == {120}

SomeSymmetry == Permutations(TwoRequests)

=============================================================================
