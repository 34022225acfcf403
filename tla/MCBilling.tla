----------------------------- MODULE MCBilling -----------------------------
(* Instances of Billing for TLC.                                           *)
EXTENDS Billing

CONSTANTS e1, e2, e3

InOrder == <<e1, e2, e3>>
ThreeEvents == {e1, e2, e3}

Rank(k) ==
    CASE k = "charge.success" -> 1 [] k = "subscription.create" -> 2
      [] k = "invoice.payment_failed" -> 3 [] k = "subscription.disable" -> 4
      [] OTHER -> 5

\* Events only differ by their type: one order of the types stands for all (a
\* SYMMETRY would not be sound for liveness).
KindsInOrder == \A n \in 1..2 : Rank(kind[InOrder[n]]) <= Rank(kind[InOrder[n + 1]])

\* Twice or more only events that start or clear the clock.
Repeated == {"charge.success", "invoice.payment_failed"}
FewRepeated == \A d, e \in Events : kind[d] = kind[e] => d = e \/ kind[d] \in Repeated

FewInit == Init /\ KindsInOrder /\ FewRepeated

OrderedSpec == FewInit /\ [][Next]_vars /\ Fairness

=============================================================================
