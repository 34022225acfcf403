---------------------------- MODULE MCStockLedger ----------------------------
(* An instance of StockLedger for TLC, in two scopes: two orders with two   *)
(* delivery dates, and one order with everything that moves stock or cost.  *)
EXTENDS StockLedger, TLC

CONSTANT small                \* a variant of the product

VARIABLE scope

SaleSymmetry == Permutations(Sales)

\* Line lists of orders for an untagged product and for one variant.
OneVariantLines ==
    {(Untagged :> 1 @@ small :> 1), (Untagged :> 2 @@ small :> 0)}

UpDown == {-1, 1}

LastOrder == CHOOSE o \in Orders : \A p \in Orders : p <= o

ScopedInit ==
    /\ Init
    /\ scope \in {"quantities", "amounts"}
    /\ IF scope = "quantities" THEN onHand[Untagged] = 0
       ELSE ordered[<<LastOrder, small>>] = 0

\* A bound on what is explored in each scope, not a property of the code.
WithinScope ==
    IF scope = "quantities"
    THEN /\ UNCHANGED <<returned, manual>>
         /\ \A k \in Slots : batch'[k].landed <= 1
    ELSE \A k \in Lines(LastOrder) :
            /\ UNCHANGED <<status[LastOrder], ordered[k]>>
            /\ \A o \in Orders : receivedAt'[o] <= 1
            /\ \A slot \in Slots : slot[2] # Untagged => batch'[slot].landed <= 1

ScopedNext == Next /\ WithinScope /\ UNCHANGED scope

ScopedSpec == ScopedInit /\ [][ScopedNext]_<<vars, scope>>

=============================================================================
