---------------------------- MODULE MCZetaMargin ----------------------------
(* Parameters, products and prices for checking ZetaMargin with TLC. *)
EXTENDS ZetaMargin

CONSTANT p2   \* the second of two products

\* The percentages of zeta_constants.rs:64-80, of 40.
MCMarginParameters ==
  [percentage |->
     [initial     |-> [future |-> 6, mark_long |-> 40, spot_long |-> 6,
                       spot_short |-> 4, dynamic_short |-> 10],
      maintenance |-> [future |-> 3, mark_long |-> 40, spot_long |-> 3,
                       spot_short |-> 5, dynamic_short |-> 2]],
   option_short_put_cap_percentage |-> 20]

MCListings ==
  {[kind |-> "Call", is_set |-> TRUE, strike |-> 36],
   [kind |-> "Call", is_set |-> TRUE, strike |-> 49],
   [kind |-> "Put",  is_set |-> TRUE, strike |-> 49],
   [kind |-> "Put",  is_set |-> TRUE, strike |-> 4],
   [kind |-> "Uninitialized", is_set |-> FALSE, strike |-> 0],
   [kind |-> "Future", is_set |-> TRUE, strike |-> 0]}

\* Besides a price on two scales: one that truncates to 0, a negative price and
\* a positive exponent that do not convert, and a price that is too large.
MCQuotes ==
  {[price |-> 45, expo |-> -1], [price |-> 40, expo |-> -1], [price |-> 4, expo |-> 0],
   [price |-> 5, expo |-> -2], [price |-> -5, expo |-> -1], [price |-> 20, expo |-> 1],
   [price |-> 300, expo |-> -1]}

\* One product is enough for what is said of one, so the second is kept
\* simple: a future at one mark price, bought and sold again one order at a time.
\* The sums over the two wrap.
MCSecond ==
  LET second == positions[p2]
  IN /\ products[p2].kind = "Future" /\ mark_prices[p2] = 11
     /\ second.opening_orders["Ask"] = 0
     /\ second.position + second.opening_orders["Bid"] <= 5
=============================================================================
