---------------------------- MODULE StockAccount ----------------------------
(***************************************************************************)
(* What the services promise about stock, however they get there: the      *)
(* on-hand figure of a stock row is an account.  It changes only together  *)
(* with the booking of what moved, by as much as was booked, and no        *)
(* booking takes it below zero.  SaleTx and BulkUpload implement it.       *)
(***************************************************************************)
EXTENDS Integers

CONSTANT Accounts      \* the stock rows

VARIABLES
    onHand,            \* row -> units on hand
    booked             \* row -> sum of the movements booked

vars == <<onHand, booked>>

Init ==
    /\ onHand \in [Accounts -> Nat]
    /\ booked = onHand

\* One transaction books movements on some rows.
Book ==
    /\ \A r \in Accounts :
          /\ onHand'[r] - onHand[r] = booked'[r] - booked[r]
          /\ onHand'[r] \in Nat
    /\ onHand' = [r \in Accounts |-> onHand'[r]]
    /\ booked' = [r \in Accounts |-> booked'[r]]

Spec == Init /\ [][Book]_vars

=============================================================================
