----------------------------- MODULE MCImportJob ----------------------------
(* Instances of ImportJob for TLC.                                         *)
EXTENDS ImportJob

CONSTANTS rice, lamp

OpeningUnits  == [p \in {rice} |-> 2]
BoughtUnits   == [p \in {rice, lamp} |-> 1]
AdjustedUnits == [p \in {rice, lamp} |-> IF p = rice THEN -2 ELSE 0]
SaleOfRice    == << [product |-> rice, quantity |-> 1] >>

Symmetry == Permutations(Txs)

=============================================================================
