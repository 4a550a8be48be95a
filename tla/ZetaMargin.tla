----------------------------- MODULE ZetaMargin -----------------------------
(***************************************************************************)
(* Margin requirements as zeta-cpi computes them for a margin account      *)
(* (zeta_utils.rs, zeta_account.rs), over the life of orders that its      *)
(* proxies place and cancel (zeta-cpi lib.rs) and that get filled, while   *)
(* oracle and mark prices move.  The book-keeping of orders and fills is   *)
(* the Zeta program's, which is not in this repository: it is what the     *)
(* fields of Position say, and free where they say nothing.                *)
(***************************************************************************)
EXTENDS Integers, FiniteSets, Functions

CONSTANTS
  Percent,            \* NATIVE_PRECISION_DENOMINATOR, 100%
  Lot,                \* POSITION_PRECISION_DENOMINATOR
  Precision,          \* PLATFORM_PRECISION, digits of a native price
  MarginParameters,   \* ZetaGroup.margin_parameters
  Products,           \* indices into products, positions and mark_prices
  Listings,           \* bound: what a product may be
  Quotes,             \* bound: what the Pyth account may hold
  Marks,              \* bound: mark prices
  Costs,              \* bound: cost_of_trades
  Sizes,              \* bound: order and fill sizes
  MaxSize,            \* bound: orders open, or positions, on one product
  Word,               \* 2^64: u64 is below Word, i64 below half of it
  Balances            \* bound: MarginAccount.balance

Sides == {"Bid", "Ask"}
Options == {"Call", "Put"}
Kinds == Options \cup {"Future", "Uninitialized"}
Phases == {"initial", "maintenance"}
Percentages == {"future", "mark_long", "spot_long", "spot_short", "dynamic_short"}

ASSUME MarginAssumption ==
  /\ IsFiniteSet(Products)
  /\ Percent \in Nat \ {0} /\ Lot \in Nat \ {0} /\ Precision \in Nat
  /\ MarginParameters.percentage \in [Phases -> [Percentages -> Nat]]
  /\ MarginParameters.option_short_put_cap_percentage \in Nat
  /\ Listings \subseteq [kind : Kinds, is_set : BOOLEAN, strike : Nat]
  /\ Quotes \subseteq [price : Int, expo : Int]
  /\ Marks \subseteq Nat /\ Costs \subseteq Nat /\ Sizes \subseteq Nat
  /\ Word \in Nat \ {0} /\ Balances \subseteq Nat

VARIABLES
  products,      \* ZetaGroup.products
  quote,         \* the Pyth aggregate price and exponent
  mark_prices,   \* Greeks.mark_prices
  positions      \* MarginAccount.positions

marginVars == <<products, quote, mark_prices, positions>>

NoPosition ==
  [position |-> 0, cost_of_trades |-> 0, closing_orders |-> 0,
   opening_orders |-> [side \in Sides |-> 0]]

MarginInit ==
  /\ products \in [Products -> Listings]
  /\ quote \in Quotes
  /\ mark_prices \in [Products -> Marks]
  /\ positions = [p \in Products |-> NoPosition]

-----------------------------------------------------------------------------
(* Prices *)

Least(x, y) == IF x < y THEN x ELSE y
Greatest(x, y) == IF x > y THEN x ELSE y

\* Fault: a quote is taken to have the platform's precision.
AnyScale == quote.price

\* 10u128.pow(n)
PowerOfTen[n \in Nat] == IF n = 0 THEN 1 ELSE 10 * PowerOfTen[n - 1]

\* get_native_oracle_price, of a quote that converts
spot == (quote.price * PowerOfTen[Precision]) \div PowerOfTen[-quote.expo]

\* A negative price becomes a u128 too large to scale, a positive exponent does
\* not convert to u32, and a large price does not convert to u64: each panics.
QuoteConverts == quote.price >= 0 /\ quote.expo <= 0 /\ spot < Word

-----------------------------------------------------------------------------
(* Margin of one lot.  get_initial_margin_per_lot and                       *)
(* get_maintenance_margin_per_lot differ in their percentages only.         *)

\* Fault: calls and puts are exchanged.
OtmExchanged(s, strike, kind) ==
  CASE kind = "Put"  -> Greatest(strike - s, 0)
    [] kind = "Call" -> Greatest(s - strike, 0)

get_otm_amount(s, strike, kind) ==
  CASE kind = "Call" -> Greatest(strike - s, 0)
    [] kind = "Put"  -> Greatest(s - strike, 0)

Percentage(phase, name) == MarginParameters.percentage[phase][name]

\* Fault: the out-of-the-money percentage is rounded up.
OtmRoundedUp(s, otm, dynamic, floor) ==
  Greatest(dynamic - (otm * Percent + s - 1) \div s, floor)

\* The percentage of spot a short option needs: a dynamic one, less what the
\* option is out of the money (0 if that is more), and a floor.
ShortPercentage(s, otm, dynamic, floor) ==
  Greatest(dynamic - (otm * Percent) \div s, floor)

\* A percentage of spot, and for a short put no more than the cap.
Capped(kind, strike, margin) ==
  IF kind = "Put"
  THEN Least(margin,
             (strike * MarginParameters.option_short_put_cap_percentage) \div Percent)
  ELSE margin

short_option_margin(phase, s, strike, kind) ==
  LET margin_pct == ShortPercentage(s, get_otm_amount(s, strike, kind),
                                    Percentage(phase, "dynamic_short"),
                                    Percentage(phase, "spot_short"))
  IN Capped(kind, strike, (margin_pct * s) \div Percent)

long_option_margin(phase, s, mark) ==
  Least((s * Percentage(phase, "spot_long")) \div Percent,
        (mark * Percentage(phase, "mark_long")) \div Percent)

margin_per_lot(phase, s, mark, product, side) ==
  CASE product.kind = "Future" -> (s * Percentage(phase, "future")) \div Percent
    [] product.kind \in Options /\ side = "Bid" -> long_option_margin(phase, s, mark)
    [] product.kind \in Options /\ side = "Ask" ->
         short_option_margin(phase, s, product.strike, product.kind)

\* At the present prices, a lot of the product at an index
LotMargin(phase, p, side) ==
  margin_per_lot(phase, spot, mark_prices[p], products[p], side)

\* The margin of a lot is unwrapped: a product without a kind has none, a short
\* option divides by the spot, and what is computed in u128 converts to u64.
LotConverts(phase, p, side) ==
  /\ products[p].kind # "Uninitialized"
  /\ products[p].kind \in Options /\ side = "Ask" => spot # 0
  /\ LotMargin(phase, p, side) < Word

-----------------------------------------------------------------------------
(* Position and account *)

\* Fault: the sides are exchanged.
OpensAgainst(p, side) ==
  \/ side = "Bid" /\ positions[p].position <= 0
  \/ side = "Ask" /\ positions[p].position >= 0

\* Position::check_open: an order on this side adds to the position.
check_open(p, side) ==
  \/ side = "Bid" /\ positions[p].position >= 0
  \/ side = "Ask" /\ positions[p].position <= 0

OrderMargin(p, side) ==
  IF positions[p].opening_orders[side] > 0
  THEN positions[p].opening_orders[side] * LotMargin("initial", p, side)
  ELSE 0

\* Fault: only the larger side of the book is charged.
LargerSide(p) ==
  IF products[p].is_set
  THEN Greatest(OrderMargin(p, "Bid"), OrderMargin(p, "Ask")) \div Lot
  ELSE 0

\* Position::get_initial_margin: opening orders, of both sides.
get_initial_margin(p) ==
  IF products[p].is_set
  THEN (OrderMargin(p, "Bid") + OrderMargin(p, "Ask")) \div Lot
  ELSE 0

\* The side that a position is held on
SideOf(n) == IF n >= 0 THEN "Bid" ELSE "Ask"

\* Position::get_maintenance_margin
get_maintenance_margin(p) ==
  LET n == positions[p].position
  IN IF products[p].is_set /\ n # 0
     THEN (Greatest(n, -n) * LotMargin("maintenance", p, SideOf(n))) \div Lot
     ELSE 0

\* MarginAccount::get_margin_requirement
get_margin_requirement ==
  SumFunction([p \in Products |-> get_initial_margin(p) + get_maintenance_margin(p)])

\* Fault: a negative value is rounded down.
ValueRoundedDown(n, mark) == (n * mark) \div Lot

\* Rust's division truncates: the value of a short position is rounded up.
PositionValue(n, mark) ==
  IF n >= 0 THEN (n * mark) \div Lot ELSE -(((-n) * mark) \div Lot)

\* Position::get_unrealized_pnl
get_unrealized_pnl(position, mark) ==
  LET n == position.position
  IN CASE n = 0 -> 0
       [] n > 0 -> PositionValue(n, mark) - position.cost_of_trades
       [] n < 0 -> PositionValue(n, mark) + position.cost_of_trades

\* Sums over the account: a release build wraps them.
AccountPnl == SumFunction([p \in Products |-> get_unrealized_pnl(positions[p], mark_prices[p])])
AccountInitial == SumFunction([p \in Products |-> get_initial_margin(p)])
AccountMaintenance == SumFunction([p \in Products |-> get_maintenance_margin(p)])

I64 == -(Word \div 2) .. Word \div 2 - 1
AsI64(n) == ((n + Word \div 2) % Word) - (Word \div 2)

\* What the margins and the profit of a position unwrap
MarginsConvert(p) ==
  /\ products[p].is_set =>
       /\ \A side \in Sides :
            positions[p].opening_orders[side] > 0 => LotConverts("initial", p, side)
       /\ positions[p].position # 0 =>
            LotConverts("maintenance", p, SideOf(positions[p].position))
  /\ get_initial_margin(p) < Word /\ get_maintenance_margin(p) < Word
  /\ get_unrealized_pnl(positions[p], mark_prices[p]) \in I64

\* The requirement and the equity as check_margin_requirement computes them
Requirement == (AccountInitial % Word) + (AccountMaintenance % Word)
Equity(balance) == balance + AsI64(AccountPnl)

\* No conversion and no checked operation of check_margin_requirement panics.
CheckReturns(balance) ==
  /\ \A p \in Products : MarginsConvert(p)
  /\ {balance, Requirement, Equity(balance), Equity(balance) - Requirement} \subseteq I64

\* Faults: margin for open orders is left out; profits are added as u64.
MaintenanceOnly(balance) ==
  CheckReturns(balance) /\ Equity(balance) - (AccountMaintenance % Word) > 0
UnsignedPnl(balance) ==
  CheckReturns(balance) /\ balance + (AccountPnl % Word) - Requirement > 0

\* MarginAccount::check_margin_requirement returns true.
check_margin_requirement(balance) ==
  CheckReturns(balance) /\ Equity(balance) - Requirement > 0

-----------------------------------------------------------------------------
(* The oracle, the pricing crank, and orders.  What is open on the side     *)
(* that reduces a position counts as closing up to the position, and is     *)
(* free of margin; everything else is opening.                              *)

Reducing(p, side) == ~check_open(p, side)
Open(p, side) ==
  positions[p].opening_orders[side]
    + IF Reducing(p, side) THEN positions[p].closing_orders ELSE 0

\* Changes of the closing orders and of the opening orders of a side.
Booked(position, side, closing, opening) ==
  [position EXCEPT !.closing_orders = @ + closing,
                   !.opening_orders =
                     [position.opening_orders EXCEPT ![side] = @ + opening]]

Direction(side) == IF side = "Bid" THEN 1 ELSE -1

UpdateOracle ==
  /\ quote' \in Quotes
  /\ UNCHANGED <<products, mark_prices, positions>>

UpdatePricing(p) ==
  /\ \E mark \in Marks : mark_prices' = [mark_prices EXCEPT ![p] = mark]
  /\ UNCHANGED <<products, quote, positions>>

\* place_order, as Zeta books it
place_order(p, side, size) ==
  LET n == positions[p].position
      closing == IF Reducing(p, side)
                 THEN Least(size, Greatest(n, -n) - positions[p].closing_orders)
                 ELSE 0
  IN /\ Open(p, side) + size <= MaxSize
     /\ positions' = [positions EXCEPT ![p] = Booked(@, side, closing, size - closing)]
     /\ UNCHANGED <<products, quote, mark_prices>>

\* cancel_order: whichever orders they were, opening or closing.
cancel_order(p, side, size) ==
  /\ size <= Open(p, side)
  /\ \E closing \in 0 .. size :
       /\ closing > 0 => Reducing(p, side) /\ closing <= positions[p].closing_orders
       /\ size - closing <= positions[p].opening_orders[side]
       /\ positions' = [positions EXCEPT ![p] = Booked(@, side, -closing, closing - size)]
  /\ UNCHANGED <<products, quote, mark_prices>>

\* A trade fills closing orders before opening ones, at any cost.
FillOrder(p, side, size) ==
  LET n == positions[p].position + size * Direction(side)
      closing == IF Reducing(p, side)
                 THEN Least(size, positions[p].closing_orders) ELSE 0
  IN /\ size <= Open(p, side)
     /\ Greatest(n, -n) <= MaxSize
     /\ \E cost \in Costs :
          positions' = [positions EXCEPT ![p] =
            Booked([@ EXCEPT !.position = n, !.cost_of_trades = cost],
                   side, -closing, closing - size)]
     /\ UNCHANGED <<products, quote, mark_prices>>

MarginNext ==
  \/ UpdateOracle
  \/ \E p \in Products :
       \/ UpdatePricing(p)
       \/ \E side \in Sides, size \in Sizes :
            \/ place_order(p, side, size)
            \/ cancel_order(p, side, size)
            \/ FillOrder(p, side, size)

MarginSpec == MarginInit /\ [][MarginNext]_marginVars

-----------------------------------------------------------------------------
(* Properties *)

\* Types, and that closing orders never exceed the position they close: that
\* is why Position::get_initial_margin (zeta_account.rs:347) can leave them
\* out.  It rests on check_open (339) telling the two kinds of order apart.
MarginTypeOK ==
  /\ products \in [Products -> Listings]
  /\ quote \in Quotes
  /\ mark_prices \in [Products -> Marks]
  /\ positions \in [Products ->
       [position : Int, cost_of_trades : Nat, closing_orders : Nat,
        opening_orders : [Sides -> Nat]]]
  /\ \A p \in Products :
       positions[p].closing_orders
         <= Greatest(positions[p].position, -positions[p].position)

\* Prices and products that every margin can be computed of.
Computable ==
  /\ QuoteConverts /\ spot \in Nat \ {0}
  /\ \A p \in Products : products[p].is_set => products[p].kind # "Uninitialized"

\* What is held on a side of a position, and what a step adds to it
HeldOn(n, side) == Greatest(n * Direction(side), 0)
Taken(p, side) ==
  Greatest(HeldOn(positions'[p].position, side) - HeldOn(positions[p].position, side), 0)

\* A lot that is held may need more than it did as an order, if parameters say
\* so: zeta_constants.rs has 12.5% of spot for short options that are held and
\* 10% for those on order (lines 74, 79).
Excess(p, side) ==
  Greatest(LotMargin("maintenance", p, side) - LotMargin("initial", p, side), 0)

\* That difference for all that a step adds to positions, rounded up
Added(p) == Taken(p, "Bid") * Excess(p, "Bid") + Taken(p, "Ask") * Excess(p, "Ask")
Surcharge ==
  SumFunction([p \in Products |->
    IF products[p].is_set THEN (Added(p) + Lot - 1) \div Lot ELSE 0])

PricesStay == UNCHANGED <<products, quote, mark_prices>>
NothingOpens ==
  \A p \in Products, side \in Sides :
    positions'[p].opening_orders[side] <= positions[p].opening_orders[side]

\* While prices stay, only an opening order raises the total requirement
\* (zeta_account.rs:538): a fill moves margin from initial to maintenance,
\* across a change of sign of the position too, and costs at most the unit
\* that rounds each of the two down and, where the parameters ask for more
\* for a held lot than for an ordered one, that difference for every lot that
\* the fill adds to the position; a cancelled or closing order costs nothing.
OnlyOrdersRaiseRequirement ==
  [][Computable /\ PricesStay /\ NothingOpens
     => get_margin_requirement' <= get_margin_requirement + 1 + Surcharge]_marginVars

\* A rising spot never frees margin, except for puts: whatever the call's
\* strike, its falling out-of-the-money percentage and the two rounded
\* divisions (zeta_utils.rs:77-100, 156-179).
RequirementFollowsSpot ==
  [][/\ Computable /\ QuoteConverts' /\ spot' >= spot
     /\ UNCHANGED <<products, mark_prices, positions>>
     /\ \A p \in Products : products[p].kind # "Put"
     => get_margin_requirement' >= get_margin_requirement]_marginVars

\* The requirement depends on the value of the oracle's price and not on how
\* the oracle scales it: the native price is the same for every exponent that
\* writes the price (zeta_utils.rs:202-211).
RequirementIgnoresScale ==
  [][/\ Computable /\ QuoteConverts'
     /\ quote.price * PowerOfTen[-quote'.expo] = quote'.price * PowerOfTen[-quote.expo]
     /\ UNCHANGED <<products, mark_prices, positions>>
     => get_margin_requirement' = get_margin_requirement]_marginVars

\* What the account is worth above its requirement, in exact numbers.
Left(balance) == balance + AccountPnl - get_margin_requirement

\* Whenever the margin check does not panic (zeta_account.rs:559-584), its
\* verdict is the exact one, also for an account whose sums of margins or
\* profits wrap on the way (502, 529, 556).  The exception is an account whose
\* exact difference is itself beyond an i64: one that passes without the means
\* is short by more than 2^63, and one that fails has 2^63 left.
VerdictIsExact ==
  QuoteConverts =>
    \A balance \in Balances :
      CheckReturns(balance) =>
        \/ check_margin_requirement(balance) <=> Left(balance) > 0
        \/ Left(balance) \notin I64

\* While prices stay, a passing account does not fail by its own fills, closing
\* orders and cancellations, if they leave it better off by more than what
\* rounding and held lots cost: the check passes again or panics.
PassingSurvives ==
  [][Computable /\ PricesStay /\ NothingOpens
     => \A balance \in Balances :
          check_margin_requirement(balance) /\ Left(balance) \in I64 =>
            \A next \in Balances :
              /\ next + AccountPnl' > balance + AccountPnl + Surcharge
              /\ CheckReturns(next)' /\ Left(next)' \in I64
              => check_margin_requirement(next)']_marginVars

\* A short option is never charged less than the formula in exact fractions
\* asks for, and at most one percentage step of spot and one unit more:
\* rounding the out-of-the-money percentage down errs on the safe side.
ExactShortMargin(phase, s, strike, kind) ==
  LET needed == Greatest(s * Percentage(phase, "dynamic_short")
                           - get_otm_amount(s, strike, kind) * Percent,
                         s * Percentage(phase, "spot_short"))
  IN Capped(kind, strike, needed \div Percent)

ShortNeverUnderMargined ==
  Computable =>
    \A p \in Products, phase \in Phases :
      LET strike == products[p].strike
          kind == products[p].kind
          exact == ExactShortMargin(phase, spot, strike, kind)
      IN kind \in Options =>
           short_option_margin(phase, spot, strike, kind)
             \in exact .. exact + spot \div Percent + 1

\* The two sides of a trade never gain or lose by rounding: a long and a
\* short position of the same size and cost have opposite profits
\* (zeta_account.rs:440-464).
PnlIsZeroSum ==
  \A p \in Products :
    get_unrealized_pnl(positions[p], mark_prices[p])
      + get_unrealized_pnl([positions[p] EXCEPT !.position = -@], mark_prices[p]) = 0
=============================================================================
