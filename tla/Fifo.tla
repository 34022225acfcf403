-------------------------------- MODULE Fifo --------------------------------
(***************************************************************************)
(* First-in-first-out consumption of stock lots, as fifo_deduct()          *)
(* (InventoryBatch.quantity_remaining) and _deduct_lot_units()             *)
(* (OrderLineItem.units_remaining) both do it: walk the rows that still    *)
(* hold units from the oldest to the newest and take what is needed from   *)
(* each; when the rows run out, the rest of the quantity stays uncovered   *)
(* and is only logged.                                                     *)
(*                                                                         *)
(* Both queries sort on a DATE, so rows of equal age come in any order;    *)
(* Allocations is therefore a set: every outcome the walk can have.        *)
(***************************************************************************)
EXTENDS Integers, Functions

LesserOf(m, n) == IF m <= n THEN m ELSE n

\* The definitions named ...Bug are plausible mistakes in the definition that
\* follows; they only serve to show that the properties can fail.
AllocationsBugAnyOrder(avail, age, quantity) ==
    { take \in [DOMAIN avail -> 0..quantity] :
        /\ \A k \in DOMAIN avail : take[k] <= avail[k]
        /\ SumFunction(take) = LesserOf(quantity, SumFunction(avail)) }

(***************************************************************************)
(* The ways to take `quantity` units from lots holding `avail` units (a    *)
(* function on the eligible lots), where age[k] < age[l] says that lot k   *)
(* is older than lot l:                                                    *)
(*   - no lot gives more than it holds, and the total is the quantity or   *)
(*     everything there is;                                                *)
(*   - a lot gives units only after every older lot is exhausted;          *)
(*   - of two lots that give units at least one is exhausted (the walk     *)
(*     leaves at most one lot partly used).                                *)
(***************************************************************************)
Allocations(avail, age, quantity) ==
    { take \in [DOMAIN avail -> 0..quantity] :
        /\ \A k \in DOMAIN avail : take[k] <= avail[k]
        /\ SumFunction(take) = LesserOf(quantity, SumFunction(avail))
        /\ \A k, l \in DOMAIN avail :
              take[l] > 0 /\ age[k] < age[l] => take[k] = avail[k]
        /\ \A k, l \in DOMAIN avail :
              k # l /\ take[k] > 0 /\ take[l] > 0
                 => take[k] = avail[k] \/ take[l] = avail[l] }

=============================================================================
