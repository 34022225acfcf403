---------------------------- MODULE MCBulkUpload ----------------------------
(* Instances of BulkUpload for TLC.                                        *)
EXTENDS BulkUpload

CONSTANTS shirt, shoe

Stocked == [p \in Products |-> IF p = shirt THEN 2 ELSE 1]

\* Files that take the products in opposite orders, want the same unit, or
\* hold a bad row.
MixedFiles ==
    { <<shirt, shoe, Invalid>>, <<shoe, shirt, shirt>>, <<Invalid>>, <<shoe>> }

\* Two files that wait for each other.
OppositeFiles == { <<shirt, shoe>>, <<shoe, shirt, Invalid>> }

Symmetry == Permutations(Txs)

=============================================================================
