------------------------------ MODULE Pricing ------------------------------
(***************************************************************************)
(* pricing/service.py over the product of Catalogue: margin targets and    *)
(* category defaults, price suggestions from lots, orders and plain costs, *)
(* elasticity, product mix and saved scenarios.  A request of this module  *)
(* is one step: it writes rows of its own only, and reads the product.     *)
(*                                                                         *)
(* The product is in category "sub", whose parent is "top"; another product*)
(* is in "top".  Margins are whole percents and amounts whole units, where *)
(* the code keeps six decimals.                                            *)
(***************************************************************************)
EXTENDS Catalogue

CONSTANTS
    Costs,         \* costs of lots
    Margins,       \* percents requests ask for
    FxRate,        \* naira per dollar, the live rate
    MaxSaved,      \* MAX_SAVED_SCENARIOS
    MaxAsked       \* bound on this module's requests

ASSUME PricingAssumption ==
       /\ Costs \subseteq Nat \ {0} /\ FxRate \in Nat \ {0} /\ MaxSaved \in Nat \ {0} /\ MaxAsked \in Nat
       /\ Margins \subseteq 0..100

VARIABLES
    shop,          \* the rows of this module
    answer,        \* the last suggestion given
    asked          \* requests of this module so far

pricingVars == <<shop, answer, asked>>

None == -1
Categories == {"sub", "top"}
Scopes == {"product"} \cup Categories
NoAnswer == [path |-> "none"]

targets == shop.targets            \* the MarginTarget rows
defaults == shop.defaults          \* category -> default_margin_pct or None
lot == shop.lot                    \* the one lot in stock
coefficients == shop.coefficients  \* the product's DemandElasticity row
revenue == shop.revenue            \* category -> revenue of the period
mix == shop.mix                    \* category -> its ProductMixTarget or None
scenarios == shop.scenarios        \* a user's saved scenarios, oldest first

PricingInit ==
    /\ Init
    /\ \E cost \in Costs, dollars \in BOOLEAN :
          shop = [targets |-> {}, defaults |-> [c \in Categories |-> None],
                  lot |-> [units |-> 2, cost |-> cost, dollars |-> dollars, ngn |-> None],
                  coefficients |-> [elasticity |-> None, fx |-> None],
                  revenue |-> [c \in Categories |-> 0], mix |-> [c \in Categories |-> None],
                  scenarios |-> <<>>]
    /\ answer = NoAnswer
    /\ asked = 0

Store(row, value) == shop' = [shop EXCEPT ![row] = value] /\ answer' = NoAnswer

------------------------------------------------------------------------------
(* Decimal division, rounded to a whole unit.                              *)
HalfUp(a, b) == (2 * a + b) \div (2 * b)

HalfEven(a, b) ==
    LET q == a \div b
        r == a % b
    IN  IF 2 * r < b \/ (2 * r = b /\ q % 2 = 0) THEN q ELSE q + 1

Greater(a, b) == IF a >= b THEN a ELSE b

\* The definitions named ...Bug are plausible mistakes in the definition that
\* follows; they only serve to show that the properties can fail.
PickedBugByPriority(all) ==
    {r \in all : \A s \in all : s.priority <= r.priority}

Specific(all) == {r \in all : r.scope = "product"}

\* The rows _pick_margin_target() may return: the product's own before its
\* categories', the highest priority among those; ties come in any order.
Picked(all) ==
    LET specific == Specific(all)
        candidates == IF specific # {} THEN specific ELSE all
    IN {r \in candidates : \A s \in candidates : s.priority <= r.priority}

\* _resolve_target_margin() and _resolve_min_margin() read the same row.
Policies ==
    IF targets # {} THEN {[target |-> r.target, min |-> r.min] : r \in Picked(targets)}
    ELSE {[target |-> CASE defaults.sub # None -> defaults.sub
                        [] defaults.top # None -> defaults.top
                        [] OTHER -> 40,
           min |-> None]}

FlooredBugUnused(price, cost, min) == price

\* _apply_min_margin_floor()
Floored(price, cost, min) ==
    IF min \in {None, 100} THEN price
    ELSE Greater(price, HalfUp(100 * cost, 100 - min))

\* unit_cost_ngn where it is known, the live rate for what was bought in dollars.
LotCost(l) ==
    IF l.ngn # None THEN l.ngn ELSE IF l.dollars THEN l.cost * FxRate ELSE l.cost

Answer(path, cost, price, min) ==
    answer' = [path |-> path, cost |-> cost, price |-> price, min |-> min]

\* compute_suggestion(): the caller's margin before the policy's, the policy's
\* minimum in any case, and nothing at or below cost.  A target of 100% makes
\* the division fail, which changes nothing either.
Suggest ==
    \E policy \in Policies, margin \in {None} \cup (Margins \ {0, 100}) :
       LET target == IF margin = None THEN policy.target ELSE margin
           cost == HalfEven(LotCost(lot) * lot.units, lot.units)
           price == Floored(HalfEven(100 * cost, 100 - target), cost, policy.min)
       IN /\ lot.units > 0
          /\ target # 100
          /\ price > cost
          /\ Answer("lots", cost, price, policy.min)
          /\ UNCHANGED shop

\* suggest_prices_for_order(): the line's own cost plus its share of the
\* logistics; no suggestion for a target of 100%.
SuggestForOrder ==
    \E policy \in Policies, logistics \in 0..1 :
       LET cost == LotCost(lot) + logistics
       IN /\ policy.target # 100
          /\ Answer("order", cost, Floored(HalfUp(100 * cost, 100 - policy.target),
                                           cost, policy.min), policy.min)
          /\ UNCHANGED shop

\* get_selling_price_suggestion() from the product's cost or one given.
SuggestFromCost ==
    \E given \in Costs \cup {None}, rate \in {1, FxRate}, min \in Margins \ {0, 100} :
       LET cost == rate * (IF given = None THEN db[Product].cost ELSE given)
       IN /\ Answer("cost", cost, HalfEven(100 * cost, 100 - min), min)
          /\ UNCHANGED shop

\* calculate_price_elasticity_impact() refuses a price at or below cost (E5).
JudgePrice ==
    \E price \in Prices :
       /\ price > db[Product].cost
       /\ Answer("elasticity", db[Product].cost, price, None)
       /\ UNCHANGED shop

------------------------------------------------------------------------------
(* Configuration.                                                          *)
SetTarget ==
    \E scope \in Scopes, target \in Margins, min \in Margins, priority \in 1..2 :
       Store("targets", targets \cup {[scope |-> scope, target |-> target, min |-> min,
                                       priority |-> priority]})

DeleteTarget == \E r \in targets : Store("targets", targets \ {r})

SetDefault ==
    \E c \in Categories, pct \in (Margins \ {0, 100}) \cup {None} :
       Store("defaults", [defaults EXCEPT ![c] = pct])

\* update_elasticity_config() leaves the FX sensitivity it was not given.
Configure ==
    \E value \in {50, 200}, fx \in {None, 10} :
       Store("coefficients", [elasticity |-> value,
                              fx |-> IF fx = None THEN coefficients.fx ELSE fx])

\* The lot's order is delivered (its naira cost is fixed), or sales use it up.
Deliver == lot.ngn = None /\ \E cost \in Costs : Store("lot", [lot EXCEPT !.ngn = cost])
UseLot == lot.units > 0 /\ Store("lot", [lot EXCEPT !.units = @ - 1])

Save ==
    LET kept == IF Len(scenarios) >= MaxSaved
                THEN SubSeq(scenarios, Len(scenarios) - MaxSaved + 2, Len(scenarios))
                ELSE scenarios
    IN Store("scenarios", Append(kept, asked))

------------------------------------------------------------------------------
(* Product mix.                                                            *)

\* upsert_mix_targets(): the shares given add up to 100; a category left out
\* keeps its row.
SetMix ==
    \E shares \in {[sub |-> 100], [top |-> 100], [sub |-> 50, top |-> 50]} :
       Store("mix", Over(shares, mix))

Total == revenue.sub + revenue.top

\* get_mix_status(): actual share less target, for categories with revenue or a
\* target.
Variance(c) ==
    (IF Total = 0 THEN 0 ELSE (100 * revenue[c]) \div Total)
       - (IF mix[c] = None THEN 0 ELSE mix[c])
Drifted == {c \in Categories : /\ revenue[c] > 0 \/ mix[c] # None
                               /\ Variance(c) > 5 \/ Variance(c) < -5}

\* check_mix_drift_alert(): the recommendation it inserts has no business, which the
\* table requires, so the request is rolled back.
CheckDrift == Drifted # {} /\ UNCHANGED shop /\ answer' = NoAnswer

Sell == \E c \in Categories : revenue[c] = 0 /\ Store("revenue", [revenue EXCEPT ![c] = 1])

------------------------------------------------------------------------------
PricingRequest ==
    \/ Suggest \/ SuggestForOrder \/ SuggestFromCost \/ JudgePrice
    \/ SetTarget \/ DeleteTarget \/ SetDefault \/ Configure
    \/ Deliver \/ UseLot \/ Sell \/ Save \/ SetMix \/ CheckDrift

\* A behaviour has requests of one of the two modules only: those of this one
\* read no more of Catalogue than a price and a cost, and every pair is initial.
PricingNext ==
    \/ asked = 0 /\ Next /\ UNCHANGED pricingVars
    \/ /\ requests = 0 /\ asked < MaxAsked
       /\ PricingRequest
       /\ asked' = asked + 1
       /\ UNCHANGED vars

PricingSpec == PricingInit /\ [][PricingNext]_<<vars, pricingVars>>

------------------------------------------------------------------------------
\* Whichever path a price suggestion takes, it is not below cost, and it keeps
\* the minimum margin of the policy that applies (up to rounding), whatever
\* margin the caller or a category default asks for.
SuggestionsKeepMargin ==
    answer # NoAnswer =>
       /\ answer.price >= answer.cost
       /\ answer.min \notin {None, 100} =>
             2 * answer.price * (100 - answer.min) + (100 - answer.min)
                >= 200 * answer.cost

\* Settings of its categories never change what is suggested for a product with
\* a margin target of its own.
OwnTargetWins ==
    [][Specific(targets) # {} /\ Specific(targets') = Specific(targets) => Policies' = Policies]_shop

=============================================================================
