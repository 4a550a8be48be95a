-------------------------- MODULE ZetaMarginProofs --------------------------
(***************************************************************************)
(* What holds of margins and profits for all parameters and prices.        *)
(***************************************************************************)
EXTENDS ZetaMargin, Inductions, TLAPS

-----------------------------------------------------------------------------
(* Rounding *)

\* Integer division: its type and its two bounds.
LEMMA Division ==
  ASSUME NEW a \in Nat, NEW b \in Nat \ {0}
  PROVE  /\ a \div b \in Nat
         /\ b * (a \div b) <= a
         /\ a < b * (a \div b) + b
  OBVIOUS

\* A quotient grows with its numerator, and one of a sum exceeds the sum of
\* the quotients by at most one unit.
LEMMA DivisionOfSum ==
  ASSUME NEW a \in Nat, NEW c \in Nat, NEW x \in Nat, NEW b \in Nat \ {0},
         a <= x, x <= a + c
  PROVE  x \div b \in a \div b .. a \div b + c \div b + 1
<1> DEFINE qa == a \div b
           qc == c \div b
           qx == x \div b
<1>1. qa \in Nat /\ b * qa <= a /\ a < b * qa + b
  BY Division
<1>2. qc \in Nat /\ b * qc <= c /\ c < b * qc + b
  BY Division
<1>3. qx \in Nat /\ b * qx <= x /\ x < b * qx + b
  BY Division
<1> HIDE DEF qa, qc, qx
<1>4. qa <= qx
  <2>1. b * qa < b * (qx + 1)
    BY <1>1, <1>3
  <2> QED  BY <2>1, <1>1, <1>3
<1>5. qx <= qa + qc + 1
  <2>1. b * qx < b * (qa + qc + 2)
    BY <1>1, <1>2, <1>3
  <2> QED  BY <2>1, <1>1, <1>2, <1>3
<1> QED  BY <1>1, <1>2, <1>3, <1>4, <1>5 DEF qa, qc, qx

\* The percentage a short option needs, times spot, is the exact numerator
\* of its margin, or up to one percentage step of spot more.
LEMMA ShortNumerator ==
  ASSUME NEW s \in Nat \ {0}, NEW otm \in Nat, NEW dynamic \in Nat, NEW floor \in Nat
  PROVE  LET pct == ShortPercentage(s, otm, dynamic, floor)
             needed == Greatest(s * dynamic - otm * Percent, s * floor)
         IN /\ pct \in Nat /\ needed \in Nat
            /\ needed <= pct * s
            /\ pct * s <= needed + s
<1> DEFINE o == otm * Percent
           q == o \div s
           pct == Greatest(dynamic - q, floor)
           needed == Greatest(s * dynamic - o, s * floor)
<1>1. o \in Nat
  BY MarginAssumption
<1>2. q \in Nat /\ s * q <= o /\ o < s * q + s
  BY <1>1, Division
<1>3. s * dynamic \in Nat /\ s * floor \in Nat /\ s * q \in Nat
  BY <1>2
<1>4. pct \in Nat /\ needed \in Nat
  BY <1>1, <1>2, <1>3 DEF Greatest
<1> HIDE DEF o, q
<1>5. needed <= pct * s /\ pct * s <= needed + s
  <2>1. CASE dynamic - q > floor
    <3>1. pct = dynamic - q
      BY <2>1 DEF Greatest
    <3>2. pct * s = s * dynamic - s * q
      BY <3>1, <1>2
    <3>3. (dynamic - q) * s >= floor * s
      BY <2>1, <1>2
    <3>4. s * dynamic - s * q >= s * floor
      BY <3>3, <3>1, <3>2
    <3> QED  BY <3>2, <3>4, <1>1, <1>2, <1>3 DEF Greatest
  <2>2. CASE ~(dynamic - q > floor)
    <3>1. pct = floor /\ pct * s = s * floor
      BY <2>2 DEF Greatest
    <3>2. s * dynamic <= s * (floor + q)
      BY <2>2, <1>2
    <3>3. s * dynamic <= s * floor + s * q
      BY <3>2, <1>2
    <3> QED  BY <3>1, <3>3, <1>1, <1>2, <1>3 DEF Greatest
  <2> QED  BY <2>1, <2>2
<1> QED  BY <1>4, <1>5 DEF o, q, ShortPercentage

\* The cap keeps two margins at most as far apart as they were.
LEMMA CapKeepsDistance ==
  ASSUME NEW kind, NEW strike \in Nat, NEW exact \in Nat, NEW error \in Nat,
         NEW margin \in exact .. exact + error
  PROVE  Capped(kind, strike, margin)
           \in Capped(kind, strike, exact) .. Capped(kind, strike, exact) + error
<1> DEFINE cap == (strike * MarginParameters.option_short_put_cap_percentage) \div Percent
<1>1. cap \in Nat
  BY MarginAssumption, Division
<1> HIDE DEF cap
<1>2. margin \in Nat /\ exact <= margin /\ margin <= exact + error
  OBVIOUS
<1>3. Least(margin, cap) \in Least(exact, cap) .. Least(exact, cap) + error
  BY <1>1, <1>2 DEF Least
<1>4. CASE kind = "Put"
  BY <1>3, <1>4 DEF Capped, cap
<1>5. CASE kind # "Put"
  BY <1>2, <1>5 DEF Capped
<1> QED  BY <1>4, <1>5

\* The margin of a short option against its exact formula, for every price,
\* strike and parameter.
LEMMA ShortMarginRounding ==
  ASSUME NEW phase \in Phases, NEW s \in Nat \ {0}, NEW strike \in Nat,
         NEW kind \in {"Call", "Put"}
  PROVE  short_option_margin(phase, s, strike, kind)
           \in ExactShortMargin(phase, s, strike, kind)
             .. ExactShortMargin(phase, s, strike, kind) + s \div Percent + 1
<1> DEFINE otm == get_otm_amount(s, strike, kind)
           dynamic == Percentage(phase, "dynamic_short")
           floor == Percentage(phase, "spot_short")
           pct == ShortPercentage(s, otm, dynamic, floor)
           needed == Greatest(s * dynamic - otm * Percent, s * floor)
<1>1. otm \in Nat
  BY DEF get_otm_amount, Greatest
<1>2. dynamic \in Nat /\ floor \in Nat /\ Percent \in Nat \ {0}
  BY MarginAssumption DEF Percentage, Percentages, Phases
<1> HIDE DEF otm, dynamic, floor
<1>3. /\ pct \in Nat /\ needed \in Nat
      /\ needed <= pct * s /\ pct * s <= needed + s
  BY <1>1, <1>2, ShortNumerator
<1> HIDE DEF pct, needed
<1>4. (pct * s) \div Percent
        \in needed \div Percent .. needed \div Percent + s \div Percent + 1
  BY <1>2, <1>3, DivisionOfSum
<1>5. needed \div Percent \in Nat /\ s \div Percent \in Nat
  BY <1>2, <1>3, Division
<1>6. Capped(kind, strike, (pct * s) \div Percent)
        \in Capped(kind, strike, needed \div Percent)
          .. Capped(kind, strike, needed \div Percent) + (s \div Percent + 1)
  <2> DEFINE m == (pct * s) \div Percent
             n == needed \div Percent
             e == s \div Percent + 1
  <2>1. n \in Nat /\ e \in Nat /\ m \in n .. n + e
    BY <1>4, <1>5
  <2> HIDE DEF m, n, e
  <2>2. Capped(kind, strike, m) \in Capped(kind, strike, n) .. Capped(kind, strike, n) + e
    BY <2>1, CapKeepsDistance
  <2> QED  BY <2>2 DEF m, n, e
<1>7. short_option_margin(phase, s, strike, kind) = Capped(kind, strike, (pct * s) \div Percent)
  BY DEF short_option_margin, pct, otm, dynamic, floor
<1>8. ExactShortMargin(phase, s, strike, kind) = Capped(kind, strike, needed \div Percent)
  BY DEF ExactShortMargin, needed, otm, dynamic, floor
<1>9. Capped(kind, strike, needed \div Percent) \in Int
  <2> DEFINE cap == (strike * MarginParameters.option_short_put_cap_percentage) \div Percent
  <2>1. cap \in Nat
    BY MarginAssumption, Division
  <2> HIDE DEF cap
  <2> QED  BY <2>1, <1>5 DEF Capped, Least, cap
<1> QED  BY <1>5, <1>6, <1>7, <1>8, <1>9

-----------------------------------------------------------------------------
(* The invariant *)

PositionRecord ==
  [position : Int, cost_of_trades : Nat, closing_orders : Nat,
   opening_orders : [Sides -> Nat]]

\* The size of a position, long or short.
Size(n) == Greatest(n, -n)

\* What booking orders does to a position.
LEMMA BookedParts ==
  ASSUME NEW x \in PositionRecord, NEW side \in Sides, NEW closing \in Int, NEW opening \in Int,
         x.closing_orders + closing \in Nat, x.opening_orders[side] + opening \in Nat
  PROVE  /\ Booked(x, side, closing, opening) \in PositionRecord
         /\ Booked(x, side, closing, opening).position = x.position
         /\ Booked(x, side, closing, opening).closing_orders = x.closing_orders + closing
<1> DEFINE orders == [x.opening_orders EXCEPT ![side] = @ + opening]
<1>1. orders \in [Sides -> Nat]
  BY DEF PositionRecord
<1>2. Booked(x, side, closing, opening)
        = [x EXCEPT !.closing_orders = @ + closing, !.opening_orders = orders]
  BY DEF Booked
<1>3. x.closing_orders + closing \in Nat
  OBVIOUS
<1> HIDE DEF orders
<1> DEFINE y == [x EXCEPT !.closing_orders = @ + closing, !.opening_orders = orders]
<1>4. y \in PositionRecord /\ y.position = x.position /\ y.closing_orders = x.closing_orders + closing
  BY <1>1, <1>3 DEF PositionRecord
<1> HIDE DEF y
<1>5. Booked(x, side, closing, opening) = y
  BY <1>2 DEF y
<1> QED  BY <1>4, <1>5

\* A position of an account that satisfies the invariant.
LEMMA PositionFields ==
  ASSUME MarginTypeOK, NEW p \in Products
  PROVE  /\ positions[p] \in PositionRecord
         /\ positions[p].position \in Int
         /\ positions[p].closing_orders \in Nat
         /\ \A side \in Sides : positions[p].opening_orders[side] \in Nat
         /\ positions[p].closing_orders <= Size(positions[p].position)
  BY DEF MarginTypeOK, PositionRecord, Size

\* A step that replaces one position by another one the invariant allows
\* keeps it.
LEMMA PositionReplaced ==
  ASSUME MarginTypeOK, NEW p \in Products, NEW x \in PositionRecord,
         x.closing_orders <= Size(x.position),
         positions' = [positions EXCEPT ![p] = x],
         UNCHANGED <<products, quote, mark_prices>>
  PROVE  MarginTypeOK'
  BY DEF MarginTypeOK, PositionRecord, Size

\* place_order keeps the types and closing orders within the position.
LEMMA PlaceOrderTypes ==
  ASSUME MarginTypeOK, NEW p \in Products, NEW side \in Sides, NEW size \in Sizes,
         place_order(p, side, size)
  PROVE  MarginTypeOK'
<1> DEFINE n == positions[p].position
           c == positions[p].closing_orders
           closing == IF Reducing(p, side) THEN Least(size, Greatest(n, -n) - c) ELSE 0
           x == Booked(positions[p], side, closing, size - closing)
<1>1. size \in Nat
  BY MarginAssumption
<1>2. n \in Int /\ c \in Nat /\ c <= Size(n) /\ positions[p].opening_orders[side] \in Nat
  BY PositionFields
<1>3. closing \in Nat /\ closing <= size /\ c + closing <= Size(n)
  BY <1>1, <1>2 DEF Least, Greatest, Size
<1>4. /\ positions' = [positions EXCEPT ![p] = x]
      /\ UNCHANGED <<products, quote, mark_prices>>
  BY DEF place_order
<1> HIDE DEF closing
<1>5. x \in PositionRecord /\ x.position = n /\ x.closing_orders = c + closing
  BY <1>1, <1>2, <1>3, PositionFields, BookedParts
<1> QED  BY <1>3, <1>4, <1>5, PositionReplaced

\* cancel_order only shrinks orders.
LEMMA CancelOrderTypes ==
  ASSUME MarginTypeOK, NEW p \in Products, NEW side \in Sides, NEW size \in Sizes,
         cancel_order(p, side, size)
  PROVE  MarginTypeOK'
<1>1. size \in Nat
  BY MarginAssumption
<1>2. PICK closing \in 0 .. size :
        /\ closing > 0 => Reducing(p, side) /\ closing <= positions[p].closing_orders
        /\ size - closing <= positions[p].opening_orders[side]
        /\ positions' = [positions EXCEPT ![p] = Booked(@, side, -closing, closing - size)]
  BY DEF cancel_order
<1> DEFINE n == positions[p].position
           c == positions[p].closing_orders
           x == Booked(positions[p], side, -closing, closing - size)
<1>3. /\ n \in Int /\ c \in Nat /\ c <= Size(n)
      /\ positions[p].opening_orders[side] \in Nat /\ positions[p] \in PositionRecord
  BY PositionFields
<1>4. c - closing \in Nat /\ positions[p].opening_orders[side] + (closing - size) \in Nat
  BY <1>1, <1>2, <1>3
<1>5. x \in PositionRecord /\ x.position = n /\ x.closing_orders = c - closing
  <2>1. -closing \in Int /\ closing - size \in Int /\ c + (-closing) = c - closing
    BY <1>1, <1>3
  <2> QED  BY <2>1, <1>3, <1>4, BookedParts
<1>6. positions' = [positions EXCEPT ![p] = x] /\ UNCHANGED <<products, quote, mark_prices>>
  BY <1>2 DEF cancel_order
<1> HIDE DEF x
<1>7. x.closing_orders <= Size(x.position)
  BY <1>1, <1>3, <1>5 DEF Size, Greatest
<1> QED  BY <1>5, <1>6, <1>7, PositionReplaced

\* A fill shrinks the closing orders with the position, or grows the position.
LEMMA FillOrderTypes ==
  ASSUME MarginTypeOK, NEW p \in Products, NEW side \in Sides, NEW size \in Sizes,
         FillOrder(p, side, size)
  PROVE  MarginTypeOK'
<1> DEFINE m == positions[p].position
           c == positions[p].closing_orders
           o == positions[p].opening_orders[side]
           n == m + size * Direction(side)
           closing == IF Reducing(p, side) THEN Least(size, c) ELSE 0
<1>1. size \in Nat
  BY MarginAssumption
<1>2. /\ m \in Int /\ c \in Nat /\ o \in Nat /\ c <= Size(m)
      /\ positions[p] \in PositionRecord
  BY PositionFields
<1>3. closing \in Nat /\ closing <= size /\ closing <= c
  BY <1>1, <1>2 DEF Least
<1>4. size - closing <= o
  <2>1. size <= Open(p, side)
    BY DEF FillOrder
  <2>2. CASE Reducing(p, side)
    BY <2>1, <2>2, <1>1, <1>2 DEF Open, Least
  <2>3. CASE ~Reducing(p, side)
    BY <2>1, <2>3, <1>1, <1>2 DEF Open
  <2> QED  BY <2>2, <2>3
<1>5. n \in Int /\ c - closing <= Size(n)
  <2>1. CASE side = "Bid"
    <3>1. n = m + size
      BY <2>1, <1>1, <1>2 DEF Direction
    <3>2. Reducing(p, side) <=> m < 0
      BY <2>1, <1>2 DEF Reducing, check_open
    <3> QED  BY <3>1, <3>2, <1>1, <1>2 DEF Least, Greatest, Size
  <2>2. CASE side = "Ask"
    <3>1. n = m - size
      BY <2>2, <1>1, <1>2 DEF Direction
    <3>2. Reducing(p, side) <=> m > 0
      BY <2>2, <1>2 DEF Reducing, check_open
    <3> QED  BY <3>1, <3>2, <1>1, <1>2 DEF Least, Greatest, Size
  <2> QED  BY <2>1, <2>2 DEF Sides
<1>6. PICK cost \in Costs :
        positions' = [positions EXCEPT ![p] =
          Booked([@ EXCEPT !.position = n, !.cost_of_trades = cost],
                 side, -closing, closing - size)]
  BY DEF FillOrder
<1> HIDE DEF n, closing
<1> DEFINE traded == [positions[p] EXCEPT !.position = n, !.cost_of_trades = cost]
           x == Booked(traded, side, -closing, closing - size)
<1>7. /\ traded \in PositionRecord /\ traded.position = n /\ traded.closing_orders = c
      /\ traded.opening_orders[side] = o
  BY <1>2, <1>5, MarginAssumption DEF PositionRecord
<1>8. positions' = [positions EXCEPT ![p] = x] /\ UNCHANGED <<products, quote, mark_prices>>
  BY <1>6 DEF FillOrder
<1> HIDE DEF traded
<1>9. x \in PositionRecord /\ x.position = n /\ x.closing_orders = c - closing
  <2>1. -closing \in Int /\ closing - size \in Int /\ c + (-closing) = c - closing
    BY <1>1, <1>2, <1>3
  <2>2. c - closing \in Nat /\ o + (closing - size) \in Nat
    BY <1>1, <1>2, <1>3, <1>4
  <2> QED  BY <2>1, <2>2, <1>7, BookedParts
<1> HIDE DEF x
<1> QED  BY <1>5, <1>8, <1>9, PositionReplaced

\* Types hold, and closing orders stay within the position they close,
\* whatever is placed, cancelled and filled.
THEOREM MarginTypeCorrect == MarginSpec => []MarginTypeOK
<1>1. MarginInit => MarginTypeOK
  BY DEF MarginInit, MarginTypeOK, NoPosition, Sides, Greatest
<1>2. MarginTypeOK /\ [MarginNext]_marginVars => MarginTypeOK'
  <2> SUFFICES ASSUME MarginTypeOK, [MarginNext]_marginVars
               PROVE  MarginTypeOK'
    OBVIOUS
  <2>1. CASE UpdateOracle
    BY <2>1 DEF MarginTypeOK, UpdateOracle
  <2>2. ASSUME NEW p \in Products, UpdatePricing(p)
        PROVE  MarginTypeOK'
    BY <2>2 DEF MarginTypeOK, UpdatePricing
  <2>3. ASSUME NEW p \in Products, NEW side \in Sides, NEW size \in Sizes,
               place_order(p, side, size)
        PROVE  MarginTypeOK'
    BY <2>3, PlaceOrderTypes
  <2>4. ASSUME NEW p \in Products, NEW side \in Sides, NEW size \in Sizes,
               cancel_order(p, side, size)
        PROVE  MarginTypeOK'
    BY <2>4, CancelOrderTypes
  <2>5. ASSUME NEW p \in Products, NEW side \in Sides, NEW size \in Sizes,
               FillOrder(p, side, size)
        PROVE  MarginTypeOK'
    BY <2>5, FillOrderTypes
  <2>6. CASE UNCHANGED marginVars
    BY <2>6 DEF MarginTypeOK, marginVars
  <2> QED  BY <2>1, <2>2, <2>3, <2>4, <2>5, <2>6 DEF MarginNext
<1> QED  BY <1>1, <1>2, PTL DEF MarginSpec

-----------------------------------------------------------------------------
(* Properties *)

\* A short option's margin is its exact formula, or up to one percentage
\* step of spot and one unit more, in every state the account can be in.
THEOREM ShortMarginSafe == MarginSpec => []ShortNeverUnderMargined
<1>1. MarginTypeOK => ShortNeverUnderMargined
  <2> SUFFICES ASSUME MarginTypeOK, Computable, NEW p \in Products, NEW phase \in Phases,
                      products[p].kind \in Options
               PROVE  short_option_margin(phase, spot, products[p].strike, products[p].kind)
                        \in ExactShortMargin(phase, spot, products[p].strike, products[p].kind)
                          .. ExactShortMargin(phase, spot, products[p].strike, products[p].kind)
                               + spot \div Percent + 1
    BY DEF ShortNeverUnderMargined
  <2>1. products[p] \in [kind : Kinds, is_set : BOOLEAN, strike : Nat]
    BY MarginAssumption DEF MarginTypeOK
  <2>2. products[p].strike \in Nat /\ products[p].kind \in {"Call", "Put"}
    BY <2>1 DEF Options
  <2>3. spot \in Nat \ {0}
    BY DEF Computable
  <2> QED  BY <2>2, <2>3, ShortMarginRounding
<1> QED  BY <1>1, MarginTypeCorrect, PTL

\* Zero is its own opposite.
LEMMA ZeroOpposite == \A y \in Int : ~(y > 0) /\ ~(y < 0) => -y = y
  OBVIOUS

\* Truncation treats positions and their mirror images alike.
LEMMA TruncationIsOdd ==
  ASSUME NEW x \in Nat, NEW price \in Nat
  PROVE  /\ PositionValue(x, price) \in Int
         /\ PositionValue(-x, price) = -PositionValue(x, price)
<1> DEFINE q == (x * price) \div Lot
<1>1. x * price \in Nat
  OBVIOUS
<1>2. q \in Nat
  BY <1>1, MarginAssumption, Division
<1>3. PositionValue(x, price) = q
  <2>1. x >= 0
    OBVIOUS
  <2> QED  BY <2>1 DEF PositionValue
<1>4. PositionValue(-x, price) = -q
  <2>1. CASE ~(x > 0)
    <3>1. -x = x
      BY <2>1, ZeroOpposite
    <3>0. x = 0
      BY <2>1
    <3>2. PositionValue(-x, price) = q
      BY <3>1, <1>3
    <3>3. 0 * price = 0
      OBVIOUS
    <3>4. 0 \div Lot = 0
      BY MarginAssumption
    <3>5. q = 0
      BY <3>0, <3>3, <3>4
    <3>6. q \in Int /\ ~(q > 0) /\ ~(q < 0)
      BY <3>5
    <3>7. -q = q
      BY <3>6, ZeroOpposite
    <3> QED  BY <3>2, <3>7
  <2>2. CASE x > 0
    <3>1. ~(-x >= 0) /\ -(-x) = x
      BY <2>2
    <3>2. PositionValue(-x, price) = -(((-(-x)) * price) \div Lot)
      BY <3>1 DEF PositionValue
    <3> QED  BY <3>1, <3>2
  <2> QED  BY <2>1, <2>2
<1> HIDE DEF q
<1> QED  BY <1>2, <1>3, <1>4

\* The profits of the two sides of a trade cancel, at every mark price.
THEOREM PnlCancels == MarginSpec => []PnlIsZeroSum
<1>1. MarginTypeOK => PnlIsZeroSum
  <2> SUFFICES ASSUME MarginTypeOK, NEW p \in Products
               PROVE  get_unrealized_pnl(positions[p], mark_prices[p])
                        + get_unrealized_pnl([positions[p] EXCEPT !.position = -@],
                                             mark_prices[p]) = 0
    BY DEF PnlIsZeroSum
  <2> DEFINE n == positions[p].position
             mark == mark_prices[p]
             cost == positions[p].cost_of_trades
             mirror == [positions[p] EXCEPT !.position = -@]
  <2>1. n \in Int /\ cost \in Nat /\ mark \in Nat
    BY MarginAssumption DEF MarginTypeOK
  <2>2. mirror.position = -n /\ mirror.cost_of_trades = cost
    BY DEF MarginTypeOK
  <2> HIDE DEF mirror, n, mark, cost
  <2>3. ASSUME NEW x \in Nat
        PROVE  PositionValue(x, mark) \in Int /\ PositionValue(-x, mark) = -PositionValue(x, mark)
    BY <2>1, TruncationIsOdd
  <2>4. CASE n = 0
    <3>1. get_unrealized_pnl(positions[p], mark) = 0
      BY <2>4 DEF get_unrealized_pnl, n
    <3>2. ~(n > 0) /\ ~(n < 0)
      BY <2>4
    <3>3. -n = n
      BY <3>2, <2>1, ZeroOpposite
    <3>4. mirror.position = n
      BY <3>3, <2>2
    <3>5. get_unrealized_pnl(mirror, mark) = 0
      BY <3>4, <2>4 DEF get_unrealized_pnl
    <3> QED  BY <3>1, <3>5 DEF mirror, mark
  <2>5. CASE n > 0
    <3>1. get_unrealized_pnl(positions[p], mark) = PositionValue(n, mark) - cost
      BY <2>5, <2>1 DEF get_unrealized_pnl, n, cost
    <3>2. get_unrealized_pnl(mirror, mark) = PositionValue(-n, mark) + cost
      BY <2>5, <2>1, <2>2 DEF get_unrealized_pnl
    <3> QED  BY <3>1, <3>2, <2>1, <2>3, <2>5 DEF mirror, mark
  <2>6. CASE n < 0
    <3>1. get_unrealized_pnl(positions[p], mark) = PositionValue(n, mark) + cost
      BY <2>6, <2>1 DEF get_unrealized_pnl, n, cost
    <3>2. get_unrealized_pnl(mirror, mark) = PositionValue(-n, mark) - cost
      BY <2>6, <2>1, <2>2 DEF get_unrealized_pnl
    <3>3. PositionValue(-n, mark) \in Int /\ PositionValue(-(-n), mark) = -PositionValue(-n, mark)
      <4>1. -n \in Nat
        BY <2>6, <2>1
      <4> QED  BY <4>1, <2>3
    <3>4. -(-n) = n
      BY <2>1
    <3> QED  BY <3>1, <3>2, <3>3, <3>4, <2>1 DEF mirror, mark
  <2> QED  BY <2>1, <2>4, <2>5, <2>6
<1> QED  BY <1>1, MarginTypeCorrect, PTL

-----------------------------------------------------------------------------
(* The margin of one lot *)

LEMMA QuotientOrder ==
  ASSUME NEW a \in Nat, NEW b \in Nat, NEW c \in Nat \ {0}, NEW d \in Nat \ {0},
         a <= b, d <= c
  PROVE  a \div c \in Nat /\ b \div d \in Nat /\ a \div c <= b \div d
<1> DEFINE x == a \div c
           y == b \div d
<1>1. x \in Nat /\ c * x <= a /\ y \in Nat /\ b < d * y + d
  BY Division
<1> HIDE DEF x, y
<1>2. d * x <= c * x
  BY <1>1
<1>3. d * x < d * (y + 1)
  BY <1>1, <1>2
<1> QED  BY <1>1, <1>3 DEF x, y

\* A product grows with its factors.
LEMMA ProductOrder ==
  ASSUME NEW a \in Nat, NEW b \in Nat, NEW c \in Nat, NEW d \in Nat, a <= b, c <= d
  PROVE  a * c \in Nat /\ b * d \in Nat /\ a * c <= b * d
<1>1. a * c <= b * c /\ b * c <= b * d
  OBVIOUS
<1> QED  BY <1>1

\* The constants of the margin parameters are naturals, the scales are not 0.
LEMMA PercentageTypes ==
  /\ \A phase \in Phases, name \in Percentages : Percentage(phase, name) \in Nat
  /\ Percent \in Nat \ {0} /\ Lot \in Nat \ {0}
BY MarginAssumption DEF Percentage

\* A percentage of an amount grows with both.
LEMMA PortionOrder ==
  ASSUME NEW s \in Nat, NEW t \in Nat, s <= t, NEW q \in Nat, NEW u \in Nat, q <= u
  PROVE  /\ (s * q) \div Percent \in Nat /\ (t * u) \div Percent \in Nat
         /\ (s * q) \div Percent <= (t * u) \div Percent
<1> DEFINE a == s * q
           b == t * u
<1>1. a \in Nat /\ b \in Nat /\ a <= b
  BY ProductOrder
<1> HIDE DEF a, b
<1>2. a \div Percent \in Nat /\ b \div Percent \in Nat /\ a \div Percent <= b \div Percent
  BY <1>1, PercentageTypes, QuotientOrder
<1> QED  BY <1>2 DEF a, b

\* So does one percentage of two amounts.
LEMMA SharesOrder ==
  ASSUME NEW s \in Nat, NEW t \in Nat, s <= t, NEW q \in Nat
  PROVE  /\ (s * q) \div Percent \in Nat /\ (t * q) \div Percent \in Nat
         /\ (s * q) \div Percent <= (t * q) \div Percent
<1>1. q <= q
  OBVIOUS
<1> QED  BY <1>1, PortionOrder

\* The cap on the margin of a short put keeps the order of margins.
LEMMA CapKeepsOrder ==
  ASSUME NEW kind, NEW strike \in Nat, NEW m \in Nat, NEW n \in Nat, m <= n
  PROVE  /\ Capped(kind, strike, m) \in Nat /\ Capped(kind, strike, n) \in Nat
         /\ Capped(kind, strike, m) <= Capped(kind, strike, n)
<1> DEFINE cap == (strike * MarginParameters.option_short_put_cap_percentage) \div Percent
<1>1. cap \in Nat
  BY MarginAssumption, Division
<1> HIDE DEF cap
<1>2. /\ Least(m, cap) \in Nat /\ Least(n, cap) \in Nat
      /\ Least(m, cap) <= Least(n, cap)
  BY <1>1 DEF Least
<1>3. CASE kind = "Put"
  BY <1>2, <1>3 DEF Capped, cap
<1>4. CASE kind # "Put"
  BY <1>4 DEF Capped
<1> QED  BY <1>3, <1>4

\* A short option is charged more for being less out of the money, and for a
\* higher spot.
LEMMA ShortPercentageOrder ==
  ASSUME NEW s \in Nat \ {0}, NEW t \in Nat \ {0}, s <= t,
         NEW o \in Nat, NEW p \in Nat, p <= o,
         NEW dynamic \in Nat, NEW floor \in Nat
  PROVE  /\ ShortPercentage(s, o, dynamic, floor) \in Nat
         /\ ShortPercentage(t, p, dynamic, floor) \in Nat
         /\ ShortPercentage(s, o, dynamic, floor) <= ShortPercentage(t, p, dynamic, floor)
<1> DEFINE x == (o * Percent) \div s
           y == (p * Percent) \div t
<1>1. p * Percent \in Nat /\ o * Percent \in Nat /\ p * Percent <= o * Percent
  BY PercentageTypes, ProductOrder
<1>2. x \in Nat /\ y \in Nat /\ y <= x
  BY <1>1, QuotientOrder
<1> HIDE DEF x, y
<1>3. /\ Greatest(dynamic - x, floor) \in Nat /\ Greatest(dynamic - y, floor) \in Nat
      /\ Greatest(dynamic - x, floor) <= Greatest(dynamic - y, floor)
  BY <1>2 DEF Greatest
<1> QED  BY <1>3 DEF ShortPercentage, x, y

\* The margin of a short call grows with the spot price: being less out of the
\* money never costs less.
LEMMA ShortMarginOrder ==
  ASSUME NEW phase \in Phases,
         NEW s \in Nat \ {0}, NEW t \in Nat \ {0}, s <= t,
         NEW strike \in Nat, NEW kind \in {"Call", "Put"}, kind = "Call" \/ s = t
  PROVE  /\ short_option_margin(phase, s, strike, kind) \in Nat
         /\ short_option_margin(phase, t, strike, kind) \in Nat
         /\ short_option_margin(phase, s, strike, kind)
              <= short_option_margin(phase, t, strike, kind)
<1> DEFINE o == get_otm_amount(s, strike, kind)
           p == get_otm_amount(t, strike, kind)
           x == ShortPercentage(s, o, Percentage(phase, "dynamic_short"),
                                Percentage(phase, "spot_short"))
           y == ShortPercentage(t, p, Percentage(phase, "dynamic_short"),
                                Percentage(phase, "spot_short"))
<1>1. o \in Nat /\ p \in Nat /\ p <= o
  BY DEF get_otm_amount, Greatest
<1>2. "dynamic_short" \in Percentages /\ "spot_short" \in Percentages
  BY DEF Percentages
<1>3. x \in Nat /\ y \in Nat /\ x <= y
  BY <1>1, <1>2, PercentageTypes, ShortPercentageOrder
<1> HIDE DEF x, y
<1>5. /\ (x * s) \div Percent \in Nat /\ (y * t) \div Percent \in Nat
      /\ (x * s) \div Percent <= (y * t) \div Percent
  BY <1>3, PortionOrder
<1> DEFINE m == (x * s) \div Percent
           n == (y * t) \div Percent
<1> HIDE DEF m, n
<1>6. /\ Capped(kind, strike, m) \in Nat /\ Capped(kind, strike, n) \in Nat
      /\ Capped(kind, strike, m) <= Capped(kind, strike, n)
  BY <1>5, CapKeepsOrder DEF m, n
<1> QED  BY <1>6 DEF short_option_margin, x, y, o, p, m, n

\* zeta_utils.rs:31-195: except for puts, a higher spot never gives a smaller
\* margin.
LEMMA MarginOrder ==
  ASSUME NEW phase \in Phases,
         NEW s \in Nat \ {0}, NEW t \in Nat \ {0}, s <= t,
         NEW mark \in Nat, NEW product \in Listings, NEW side \in Sides,
         product.kind # "Uninitialized", product.kind # "Put" \/ s = t
  PROVE  /\ margin_per_lot(phase, s, mark, product, side) \in Nat
         /\ margin_per_lot(phase, t, mark, product, side) \in Nat
         /\ margin_per_lot(phase, s, mark, product, side)
              <= margin_per_lot(phase, t, mark, product, side)
<1>1. /\ product.kind \in {"Call", "Put", "Future"} /\ product.strike \in Nat
      /\ {"future", "mark_long", "spot_long"} \subseteq Percentages
      /\ \A name \in Percentages : Percentage(phase, name) \in Nat
  BY MarginAssumption, PercentageTypes DEF Percentages, Kinds, Options
<1>2. CASE product.kind = "Future"
  <2> DEFINE q == Percentage(phase, "future")
  <2>1. q \in Nat
    BY <1>1
  <2> HIDE DEF q
  <2>2. /\ (s * q) \div Percent \in Nat /\ (t * q) \div Percent \in Nat
        /\ (s * q) \div Percent <= (t * q) \div Percent
    BY <2>1, SharesOrder
  <2> QED  BY <1>2, <2>2 DEF margin_per_lot, Options, q
<1>3. CASE product.kind \in Options /\ side = "Bid"
  <2> DEFINE a == (s * Percentage(phase, "spot_long")) \div Percent
             b == (mark * Percentage(phase, "mark_long")) \div Percent
             c == (t * Percentage(phase, "spot_long")) \div Percent
  <2>1. a \in Nat /\ c \in Nat /\ a <= c
    BY <1>1, SharesOrder
  <2>2. b \in Nat
    <3>1. mark <= mark
      OBVIOUS
    <3> QED  BY <1>1, <3>1, SharesOrder
  <2> HIDE DEF a, b, c
  <2>3. Least(a, b) \in Nat /\ Least(c, b) \in Nat /\ Least(a, b) <= Least(c, b)
    BY <2>1, <2>2 DEF Least
  <2> QED  BY <1>3, <2>3 DEF margin_per_lot, long_option_margin, Options, a, b, c
<1>4. CASE product.kind \in Options /\ side = "Ask"
  <2>1. product.kind \in {"Call", "Put"} /\ (product.kind = "Call" \/ s = t)
    BY <1>4 DEF Options
  <2>2. /\ short_option_margin(phase, s, product.strike, product.kind) \in Nat
        /\ short_option_margin(phase, t, product.strike, product.kind) \in Nat
        /\ short_option_margin(phase, s, product.strike, product.kind)
             <= short_option_margin(phase, t, product.strike, product.kind)
    BY <1>1, <2>1, ShortMarginOrder
  <2> QED  BY <1>4, <2>2 DEF margin_per_lot, Options
<1> QED  BY <1>1, <1>2, <1>3, <1>4 DEF Sides, Options

-----------------------------------------------------------------------------
(* The requirement of one product, as two numerators over Lot *)

\* What the two margins of a product are quotients of: the margin of its
\* opening orders and that of its position, before the division by the lot.
Ordered(p) ==
  positions[p].opening_orders["Bid"] * LotMargin("initial", p, "Bid")
    + positions[p].opening_orders["Ask"] * LotMargin("initial", p, "Ask")

Held(p) ==
  Size(positions[p].position) * LotMargin("maintenance", p, SideOf(positions[p].position))

\* The margin of a lot that can be computed is a natural number, at a spot
\* price of 0 as well.
LEMMA MarginTypes ==
  ASSUME NEW phase \in Phases, NEW s \in Nat, NEW mark \in Nat, NEW product \in Listings,
         NEW side \in Sides, product.kind # "Uninitialized",
         product.kind \in Options /\ side = "Ask" => s # 0
  PROVE  margin_per_lot(phase, s, mark, product, side) \in Nat
<1>1. CASE s # 0
  <2>1. s \in Nat \ {0} /\ s <= s
    BY <1>1
  <2> QED  BY <2>1, MarginOrder
<1>2. CASE s = 0
  <2>1. product.kind = "Future" \/ (product.kind \in Options /\ side = "Bid")
    BY <1>2, MarginAssumption DEF Kinds, Sides, Options
  <2>2. \A name \in Percentages : Percentage(phase, name) \in Nat
    BY PercentageTypes
  <2>3. ASSUME NEW q \in Nat, NEW m \in Nat PROVE (m * q) \div Percent \in Nat
    <3>1. m <= m
      OBVIOUS
    <3> QED  BY <3>1, SharesOrder
  <2>4. CASE product.kind = "Future"
    <3>1. (s * Percentage(phase, "future")) \div Percent \in Nat
      BY <2>2, <2>3 DEF Percentages
    <3> QED  BY <2>4, <3>1 DEF margin_per_lot, Options
  <2>5. CASE product.kind \in Options /\ side = "Bid"
    <3> DEFINE a == (s * Percentage(phase, "spot_long")) \div Percent
               b == (mark * Percentage(phase, "mark_long")) \div Percent
    <3>1. a \in Nat /\ b \in Nat
      BY <2>2, <2>3 DEF Percentages
    <3> HIDE DEF a, b
    <3>2. Least(a, b) \in Nat
      BY <3>1 DEF Least
    <3> QED  BY <2>5, <3>2 DEF margin_per_lot, long_option_margin, Options, a, b
  <2> QED  BY <2>1, <2>4, <2>5
<1> QED  BY <1>1, <1>2

\* The same of the lots of a product in a state.
LEMMA LotTypes ==
  ASSUME MarginTypeOK, spot \in Nat, NEW p \in Products, NEW phase \in Phases,
         NEW side \in Sides, products[p].kind # "Uninitialized",
         products[p].kind \in Options /\ side = "Ask" => spot # 0
  PROVE  LotMargin(phase, p, side) \in Nat
<1>1. mark_prices[p] \in Nat /\ products[p] \in Listings
  BY MarginAssumption DEF MarginTypeOK
<1> HIDE DEF spot
<1> QED  BY <1>1, MarginTypes DEF LotMargin

LEMMA LotMarginTypes ==
  ASSUME MarginTypeOK, Computable, NEW p \in Products, products[p].is_set,
         NEW phase \in Phases, NEW side \in Sides
  PROVE  LotMargin(phase, p, side) \in Nat
<1>1. spot \in Nat /\ spot # 0 /\ products[p].kind # "Uninitialized"
  BY DEF Computable
<1> QED  BY <1>1, LotTypes

\* The size of a position is a natural number.
LEMMA SizeTypes ==
  ASSUME NEW n \in Int
  PROVE  Size(n) \in Nat /\ (n = 0 => Size(n) = 0)
<1>1. Size(n) \in Nat
  BY DEF Size, Greatest
<1>2. ASSUME ~(n > 0), ~(n < 0) PROVE Size(n) = n
  BY <1>2, ZeroOpposite DEF Size, Greatest
<1> QED  BY <1>1, <1>2

\* The numerators are natural numbers, one term for each side.
LEMMA NumeratorTypes ==
  ASSUME MarginTypeOK, Computable, NEW p \in Products, products[p].is_set
  PROVE  /\ Ordered(p) \in Nat /\ Held(p) \in Nat
         /\ \A side \in Sides : OrderMargin(p, side)
              = positions[p].opening_orders[side] * LotMargin("initial", p, side)
<1> DEFINE o == positions[p].opening_orders
           n == positions[p].position
<1>1. /\ n \in Int /\ "Bid" \in Sides /\ "Ask" \in Sides
      /\ "initial" \in Phases /\ "maintenance" \in Phases
      /\ \A side \in Sides : o[side] \in Nat
  BY PositionFields DEF Sides, Phases
<1>2. /\ \A side \in Sides : LotMargin("initial", p, side) \in Nat
      /\ LotMargin("maintenance", p, SideOf(n)) \in Nat
  BY <1>1, LotMarginTypes DEF SideOf
<1>3. Size(n) \in Nat
  BY <1>1 DEF Size, Greatest
<1> HIDE DEF o, n
<1>4. \A x, y \in Nat : x * y \in Nat /\ 0 * y = 0
  OBVIOUS
<1>5. Ordered(p) \in Nat /\ Held(p) \in Nat
  BY <1>1, <1>2, <1>3, <1>4 DEF Ordered, Held, o, n
<1>6. ASSUME NEW side \in Sides
      PROVE  OrderMargin(p, side) = o[side] * LotMargin("initial", p, side)
  <2>1. CASE o[side] > 0
    BY <2>1 DEF OrderMargin, o
  <2>2. CASE ~(o[side] > 0)
    <3>1. o[side] = 0
      BY <1>1, <2>2
    <3> QED  BY <1>2, <1>4, <2>2, <3>1 DEF OrderMargin, o
  <2> QED  BY <2>1, <2>2
<1> QED  BY <1>5, <1>6 DEF o

\* The margins of a product are their quotients by the lot.
MarginsOf(p) ==
  /\ products[p].is_set =>
       /\ Ordered(p) \in Nat /\ Held(p) \in Nat
       /\ get_initial_margin(p) = Ordered(p) \div Lot
       /\ get_maintenance_margin(p) = Held(p) \div Lot
  /\ ~products[p].is_set => get_initial_margin(p) = 0 /\ get_maintenance_margin(p) = 0
  /\ get_initial_margin(p) \in Nat /\ get_maintenance_margin(p) \in Nat

LEMMA ProductMargins ==
  ASSUME MarginTypeOK, Computable, NEW p \in Products
  PROVE  MarginsOf(p)
<1>1. CASE ~products[p].is_set
  BY <1>1 DEF MarginsOf, get_initial_margin, get_maintenance_margin
<1>2. CASE products[p].is_set
  <2>1. get_initial_margin(p) = Ordered(p) \div Lot
    BY <1>2, NumeratorTypes DEF get_initial_margin, Ordered, Sides
  <2>2. get_maintenance_margin(p) = Held(p) \div Lot
    <3> DEFINE n == positions[p].position
    <3>1. n \in Int
      BY PositionFields
    <3>2. CASE n = 0
      <4>1. LotMargin("maintenance", p, SideOf(n)) \in Nat
        BY <1>2, LotMarginTypes DEF SideOf, Sides, Phases
      <4>2. Size(n) = 0
        BY <3>1, <3>2, SizeTypes
      <4>3. \A y \in Nat : 0 * y = 0
        OBVIOUS
      <4>4. Held(p) = 0
        BY <4>1, <4>2, <4>3 DEF Held
      <4>5. 0 \div Lot = 0
        BY PercentageTypes
      <4> QED  BY <3>2, <4>4, <4>5 DEF get_maintenance_margin
    <3>3. CASE n # 0
      BY <1>2, <3>3 DEF get_maintenance_margin, Held, Size
    <3> QED  BY <3>2, <3>3
  <2>3. /\ Ordered(p) \in Nat /\ Held(p) \in Nat
        /\ Ordered(p) \div Lot \in Nat /\ Held(p) \div Lot \in Nat
    BY <1>2, NumeratorTypes, PercentageTypes, Division
  <2> QED  BY <1>2, <2>1, <2>2, <2>3 DEF MarginsOf
<1> QED  BY <1>1, <1>2

-----------------------------------------------------------------------------
(* The scale of a quote *)

IsPower(f, S) == f = [n \in S |-> IF n = 0 THEN 1 ELSE 10 * f[n - 1]]

\* The powers up to n exist for every n, and those up to different n agree.
LEMMA PowersUpTo ==
  \A n \in Nat : \E f : IsPower(f, 0 .. n)
<1> DEFINE F == { n \in Nat : \E f : IsPower(f, 0 .. n) }
<1>1. 0 \in F
  <2> DEFINE f == [n \in 0 .. 0 |-> 1]
  <2>1. IsPower(f, 0 .. 0)
    BY DEF IsPower
  <2> HIDE DEF f
  <2>2. \E g : IsPower(g, 0 .. 0)
    BY <2>1
  <2> QED  BY <2>2
<1>2. ASSUME NEW n \in Nat, n \in F PROVE n + 1 \in F
  <2>1. PICK f : IsPower(f, 0 .. n)
    BY <1>2
  <2> DEFINE g == [k \in 0 .. n + 1 |-> IF k = 0 THEN 1 ELSE 10 * f[k - 1]]
  <2>2. \A k \in 0 .. n : g[k] = f[k]
    BY <2>1 DEF IsPower
  <2>3. IsPower(g, 0 .. n + 1)
    <3>1. \A k \in 0 .. n + 1 : k # 0 => k - 1 \in 0 .. n
      OBVIOUS
    <3> QED  BY <2>2, <3>1 DEF IsPower
  <2> HIDE DEF g
  <2>4. n + 1 \in Nat /\ \E h : IsPower(h, 0 .. n + 1)
    BY <2>3
  <2> QED  BY <2>4
<1> HIDE DEF F
<1>3. \A n \in Nat : n \in F
  BY <1>1, <1>2, NumberInduction
<1> QED  BY <1>3 DEF F

\* Two tables of powers agree where both are defined.
LEMMA PowersAgree ==
  ASSUME NEW m \in Nat, NEW n \in Nat, m <= n, NEW f, NEW g,
         IsPower(f, 0 .. m), IsPower(g, 0 .. n)
  PROVE  \A k \in 0 .. m : f[k] = g[k]
<1> DEFINE F == { k \in Nat : k <= m => f[k] = g[k] }
<1>1. 0 \in F
  BY DEF IsPower
<1>2. ASSUME NEW k \in Nat, k \in F PROVE k + 1 \in F
  <2>1. CASE k + 1 <= m
    <3>1. k + 1 \in 0 .. m /\ k + 1 \in 0 .. n /\ k + 1 # 0 /\ k + 1 - 1 = k /\ k <= m
      BY <2>1
    <3>2. f[k + 1] = 10 * f[k] /\ g[k + 1] = 10 * g[k]
      BY <3>1 DEF IsPower
    <3> QED  BY <1>2, <3>1, <3>2
  <2>2. CASE ~(k + 1 <= m)
    BY <2>2
  <2> QED  BY <2>1, <2>2
<1> HIDE DEF F
<1>3. \A k \in Nat : k \in F
  BY <1>1, <1>2, NumberInduction
<1> QED  BY <1>3 DEF F

\* The powers of ten satisfy the equations that define them.
LEMMA PowersExist == \E f : IsPower(f, Nat)
<1> DEFINE P(n) == CHOOSE f : IsPower(f, 0 .. n)
           h == [n \in Nat |-> P(n)[n]]
<1>1. \A n \in Nat : IsPower(P(n), 0 .. n)
  BY PowersUpTo
<1> HIDE DEF P
<1>2. ASSUME NEW n \in Nat
      PROVE  h[n] = IF n = 0 THEN 1 ELSE 10 * h[n - 1]
  <2>1. P(n)[n] = IF n = 0 THEN 1 ELSE 10 * P(n)[n - 1]
    BY <1>1 DEF IsPower
  <2>2. CASE n # 0
    <3>1. n - 1 \in Nat /\ n - 1 <= n
      BY <2>2
    <3> DEFINE m == n - 1
               a == P(m)
               b == P(n)
    <3>2. IsPower(a, 0 .. m) /\ IsPower(b, 0 .. n) /\ m \in 0 .. m
      BY <1>1, <3>1
    <3> HIDE DEF m, a, b
    <3>3. a[m] = b[m]
      BY <3>1, <3>2, PowersAgree DEF m
    <3> QED  BY <2>1, <2>2, <3>1, <3>3 DEF a, b, m
  <2> QED  BY <2>1, <2>2
<1>3. IsPower(h, Nat)
  BY <1>2 DEF IsPower
<1> HIDE DEF h
<1> QED  BY <1>3

\* The powers of ten are natural numbers and none is 0.
LEMMA PowerOfTenPositive == \A n \in Nat : PowerOfTen[n] \in Nat \ {0}
<1>1. PowerOfTen = CHOOSE f : IsPower(f, Nat)
  BY DEF PowerOfTen, IsPower
<1>2. IsPower(PowerOfTen, Nat)
  BY <1>1, PowersExist
<1> DEFINE F == { n \in Nat : PowerOfTen[n] \in Nat \ {0} }
<1>3. 0 \in F
  BY <1>2 DEF IsPower
<1>4. ASSUME NEW n \in Nat, n \in F PROVE n + 1 \in F
  <2>1. n + 1 \in Nat /\ n + 1 # 0 /\ n + 1 - 1 = n
    OBVIOUS
  <2>2. PowerOfTen[n + 1] = 10 * PowerOfTen[n]
    BY <1>2, <2>1 DEF IsPower
  <2>3. PowerOfTen[n] \in Nat \ {0}
    BY <1>4
  <2>4. \A x \in Nat \ {0} : 10 * x \in Nat \ {0}
    OBVIOUS
  <2> QED  BY <2>1, <2>2, <2>3, <2>4
<1> HIDE DEF F
<1>5. \A n \in Nat : n \in F
  BY <1>3, <1>4, NumberInduction
<1> QED  BY <1>5 DEF F

\* The price of a quote that converts is a natural number.
SpotIsNatural == spot \in Nat

LEMMA SpotTypes == MarginTypeOK /\ QuoteConverts => SpotIsNatural
<1> SUFFICES ASSUME MarginTypeOK, QuoteConverts PROVE spot \in Nat
  BY DEF SpotIsNatural
<1>1. quote.price \in Nat /\ -quote.expo \in Nat
  BY MarginAssumption DEF MarginTypeOK, QuoteConverts
<1>2. PowerOfTen[Precision] \in Nat /\ PowerOfTen[-quote.expo] \in Nat \ {0}
  BY <1>1, PowerOfTenPositive, MarginAssumption
<1> DEFINE a == quote.price * PowerOfTen[Precision]
           b == PowerOfTen[-quote.expo]
<1>3. a \in Nat /\ b \in Nat \ {0}
  BY <1>1, <1>2
<1> HIDE DEF a, b
<1>4. a \div b \in Nat
  BY <1>3, Division
<1> QED  BY <1>4 DEF spot, a, b

\* Equal fractions have equal quotients.
LEMMA EqualFractions ==
  ASSUME NEW x \in Nat, NEW y \in Nat, NEW k \in Nat, NEW a \in Nat \ {0}, NEW b \in Nat \ {0},
         x * b = y * a
  PROVE  (x * k) \div a = (y * k) \div b
<1> DEFINE q == (x * k) \div a
           r == (y * k) \div b
<1>1. x * k \in Nat /\ y * k \in Nat
  OBVIOUS
<1>2. /\ q \in Nat /\ a * q <= x * k /\ x * k < a * q + a
      /\ r \in Nat /\ b * r <= y * k /\ y * k < b * r + b
  BY <1>1, Division
<1> HIDE DEF q, r
<1>3. (x * k) * b = (y * k) * a
  <2>1. (x * k) * b = (x * b) * k /\ (y * k) * a = (y * a) * k
    OBVIOUS
  <2> QED  BY <2>1
<1> DEFINE u == x * k
           v == y * k
<1>4. u \in Nat /\ v \in Nat /\ u * b = v * a
  BY <1>1, <1>3
<1>5. /\ a * q <= u /\ u < a * (q + 1)
      /\ b * r <= v /\ v < b * (r + 1)
  BY <1>2
<1> HIDE DEF u, v
<1> DEFINE c == a * b
<1>6. c \in Nat \ {0}
  OBVIOUS
<1>7. c * q <= u * b /\ u * b < c * (q + 1) /\ c * r <= v * a /\ v * a < c * (r + 1)
  <2>1. (a * q) * b <= u * b /\ u * b < (a * (q + 1)) * b
    BY <1>2, <1>4, <1>5
  <2>2. (b * r) * a <= v * a /\ v * a < (b * (r + 1)) * a
    BY <1>2, <1>4, <1>5
  <2>3. (a * q) * b = c * q /\ (a * (q + 1)) * b = c * (q + 1)
    BY <1>2
  <2>4. (b * r) * a = c * r /\ (b * (r + 1)) * a = c * (r + 1)
    BY <1>2
  <2> QED  BY <2>1, <2>2, <2>3, <2>4
<1> HIDE DEF c
<1>8. c * q < c * (r + 1) /\ c * r < c * (q + 1)
  BY <1>2, <1>4, <1>6, <1>7
<1>9. q < r + 1 /\ r < q + 1
  BY <1>2, <1>6, <1>8
<1> QED  BY <1>2, <1>9 DEF q, r

\* zeta_utils.rs:202-211: what the margins are computed from does not depend
\* on the exponent of the quote.
THEOREM ScaleIsImmaterial == MarginSpec => RequirementIgnoresScale
<1>1. ASSUME MarginTypeOK, MarginTypeOK', Computable, QuoteConverts',
             quote.price * PowerOfTen[-quote'.expo] = quote'.price * PowerOfTen[-quote.expo],
             UNCHANGED <<products, mark_prices, positions>>
      PROVE  get_margin_requirement' = get_margin_requirement
  <2>1. /\ quote.price \in Nat /\ quote'.price \in Nat
        /\ -quote.expo \in Nat /\ -quote'.expo \in Nat
    BY <1>1, MarginAssumption DEF MarginTypeOK, Computable, QuoteConverts
  <2>2. /\ PowerOfTen[-quote.expo] \in Nat \ {0} /\ PowerOfTen[-quote'.expo] \in Nat \ {0}
        /\ PowerOfTen[Precision] \in Nat
    BY <2>1, PowerOfTenPositive, MarginAssumption
  <2>3. spot' = spot
    <3> DEFINE x == quote.price
               y == quote'.price
               a == PowerOfTen[-quote.expo]
               b == PowerOfTen[-quote'.expo]
               k == PowerOfTen[Precision]
    <3>1. /\ x \in Nat /\ y \in Nat /\ k \in Nat /\ a \in Nat \ {0} /\ b \in Nat \ {0}
          /\ x * b = y * a
      BY <1>1, <2>1, <2>2
    <3> HIDE DEF x, y, a, b, k
    <3>2. (x * k) \div a = (y * k) \div b
      BY <3>1, EqualFractions
    <3> QED  BY <3>2 DEF spot, x, y, a, b, k
  <2> HIDE DEF spot
  <2>4. \A p \in Products :
          /\ get_initial_margin(p)' = get_initial_margin(p)
          /\ get_maintenance_margin(p)' = get_maintenance_margin(p)
    BY <1>1, <2>3 DEF get_initial_margin, get_maintenance_margin, OrderMargin, LotMargin
  <2> QED  BY <2>4 DEF get_margin_requirement
<1>2. [](MarginTypeOK) /\ [][MarginNext]_marginVars => RequirementIgnoresScale
  <2>1. MarginTypeOK /\ MarginTypeOK' /\ [MarginNext]_marginVars
          => [/\ Computable /\ QuoteConverts'
              /\ quote.price * PowerOfTen[-quote'.expo] = quote'.price * PowerOfTen[-quote.expo]
              /\ UNCHANGED <<products, mark_prices, positions>>
              => get_margin_requirement' = get_margin_requirement]_marginVars
    BY <1>1
  <2> QED  BY <2>1, PTL DEF RequirementIgnoresScale
<1> QED  BY <1>2, MarginTypeCorrect, PTL DEF MarginSpec

-----------------------------------------------------------------------------
(* The requirement of the account *)

\* The margins of the products add up to the requirement.
MarginsAddUp ==
  /\ \A p \in Products : MarginsOf(p)
  /\ AccountInitial \in Nat /\ AccountMaintenance \in Nat
  /\ get_margin_requirement = AccountInitial + AccountMaintenance
  /\ get_margin_requirement \in Nat

LEMMA Sums ==
  ASSUME \A p \in Products : get_initial_margin(p) \in Nat /\ get_maintenance_margin(p) \in Nat
  PROVE  /\ AccountInitial \in Nat /\ AccountMaintenance \in Nat
         /\ get_margin_requirement = AccountInitial + AccountMaintenance
         /\ get_margin_requirement \in Nat
<1> DEFINE f == [p \in Products |-> get_initial_margin(p)]
           g == [p \in Products |-> get_maintenance_margin(p)]
           h == [p \in Products |-> get_initial_margin(p) + get_maintenance_margin(p)]
           zero == [p \in Products |-> 0]
<1>1. /\ f \in [Products -> Int] /\ g \in [Products -> Int] /\ h \in [Products -> Int]
      /\ zero \in [Products -> Int]
      /\ \A p \in Products : h[p] = f[p] + g[p] /\ zero[p] <= f[p] /\ zero[p] <= g[p]
  OBVIOUS
<1>2. AccountInitial = SumFunctionOnSet(f, Products)
  BY DEF AccountInitial, SumFunction
<1>3. AccountMaintenance = SumFunctionOnSet(g, Products)
  BY DEF AccountMaintenance, SumFunction
<1>4. get_margin_requirement = SumFunctionOnSet(h, Products)
  BY DEF get_margin_requirement, SumFunction
<1>5. SumFunctionOnSet(zero, Products) = 0
  BY MarginAssumption, SumOfNothing
<1> HIDE DEF f, g, h, zero
<1>6. IsFiniteSet(Products)
  BY MarginAssumption
<1>7. SumFunctionOnSet(h, Products)
        = SumFunctionOnSet(f, Products) + SumFunctionOnSet(g, Products)
  BY <1>1, <1>6, SumAdds
<1>8. /\ SumFunctionOnSet(f, Products) \in Int /\ 0 <= SumFunctionOnSet(f, Products)
      /\ SumFunctionOnSet(g, Products) \in Int /\ 0 <= SumFunctionOnSet(g, Products)
  BY <1>1, <1>5, <1>6, SumMonotone
<1> QED  BY <1>2, <1>3, <1>4, <1>7, <1>8

LEMMA Margins == MarginTypeOK /\ Computable => MarginsAddUp
<1>1. ASSUME MarginTypeOK, Computable PROVE MarginsAddUp
  <2>1. \A p \in Products : MarginsOf(p)
    BY <1>1, ProductMargins
  <2> QED  BY <2>1, Sums DEF MarginsOf, MarginsAddUp
<1> QED  BY <1>1

\* A higher spot price lowers no margin of a product that is not a put.
LEMMA SpotRaisesProduct ==
  ASSUME MarginTypeOK, MarginTypeOK', Computable, Computable', spot' >= spot,
         UNCHANGED <<products, mark_prices, positions>>,
         NEW p \in Products, products[p].kind # "Put", products[p].is_set
  PROVE  /\ get_initial_margin(p) \in Nat /\ get_initial_margin(p)' \in Nat
         /\ get_maintenance_margin(p) \in Nat /\ get_maintenance_margin(p)' \in Nat
         /\ get_initial_margin(p) <= get_initial_margin(p)'
         /\ get_maintenance_margin(p) <= get_maintenance_margin(p)'
<1> DEFINE o == positions[p].opening_orders
           n == positions[p].position
           product == products[p]
           mark == mark_prices[p]
<1>1. /\ spot \in Nat \ {0} /\ spot' \in Nat \ {0} /\ spot <= spot'
  BY DEF Computable
<1>2. /\ n \in Int /\ mark \in Nat /\ product \in Listings
      /\ product.kind # "Put" /\ product.kind # "Uninitialized"
      /\ o["Bid"] \in Nat /\ o["Ask"] \in Nat
  BY MarginAssumption, PositionFields DEF MarginTypeOK, Sides, Computable
<1>3. products[p]' = product /\ mark_prices[p]' = mark /\ positions[p]' = positions[p]
  OBVIOUS
<1>4. ASSUME NEW phase \in Phases, NEW side \in Sides
      PROVE  /\ LotMargin(phase, p, side) \in Nat /\ LotMargin(phase, p, side)' \in Nat
             /\ LotMargin(phase, p, side) <= LotMargin(phase, p, side)'
  <2> DEFINE s == spot
             t == spot'
  <2>2. s \in Nat \ {0} /\ t \in Nat \ {0} /\ s <= t
    BY <1>1
  <2> HIDE DEF s, t, product, mark
  <2>3. /\ margin_per_lot(phase, s, mark, product, side) \in Nat
        /\ margin_per_lot(phase, t, mark, product, side) \in Nat
        /\ margin_per_lot(phase, s, mark, product, side)
             <= margin_per_lot(phase, t, mark, product, side)
    BY <1>2, <2>2, MarginOrder
  <2>4. LotMargin(phase, p, side) = margin_per_lot(phase, s, mark, product, side)
    BY DEF LotMargin, s, mark, product
  <2>5. LotMargin(phase, p, side)' = margin_per_lot(phase, t, mark, product, side)
    BY <1>3 DEF LotMargin, t, mark, product
  <2> QED  BY <2>3, <2>4, <2>5
<1> HIDE DEF product, mark
<1>5. /\ "Bid" \in Sides /\ "Ask" \in Sides /\ SideOf(n) \in Sides
      /\ "initial" \in Phases /\ "maintenance" \in Phases
  BY DEF Sides, Phases, SideOf
<1>6. Size(n) \in Nat
  BY <1>2, SizeTypes
<1>7. /\ Ordered(p) \in Nat /\ Ordered(p)' \in Nat /\ Ordered(p) <= Ordered(p)'
      /\ Held(p) \in Nat /\ Held(p)' \in Nat /\ Held(p) <= Held(p)'
  <2> DEFINE a == LotMargin("initial", p, "Bid")
             b == LotMargin("initial", p, "Ask")
             c == LotMargin("maintenance", p, SideOf(n))
             a2 == LotMargin("initial", p, "Bid")'
             b2 == LotMargin("initial", p, "Ask")'
             c2 == margin_per_lot("maintenance", spot, mark_prices[p], products[p], SideOf(n))'
  <2>1. /\ a \in Nat /\ a2 \in Nat /\ a <= a2
        /\ b \in Nat /\ b2 \in Nat /\ b <= b2
    BY <1>4, <1>5
  <2>2. c \in Nat /\ c2 \in Nat /\ c <= c2
    BY <1>3, <1>4, <1>5 DEF LotMargin
  <2>3. Ordered(p) = o["Bid"] * a + o["Ask"] * b
    BY DEF Ordered
  <2>4. Ordered(p)' = o["Bid"] * a2 + o["Ask"] * b2
    BY <1>3 DEF Ordered
  <2>5. Held(p) = Size(n) * c
    BY DEF Held
  <2>6. Held(p)' = Size(n) * c2
    BY <1>3 DEF Held, LotMargin
  <2> HIDE DEF o, n, a, b, c, a2, b2, c2
  <2>7. /\ o["Bid"] * a <= o["Bid"] * a2 /\ o["Ask"] * b <= o["Ask"] * b2
        /\ Size(n) * c <= Size(n) * c2
    BY <1>2, <1>6, <2>1, <2>2
  <2> QED  BY <1>2, <1>6, <2>1, <2>2, <2>3, <2>4, <2>5, <2>6, <2>7
<1>8. /\ Ordered(p) \div Lot <= Ordered(p)' \div Lot
      /\ Held(p) \div Lot <= Held(p)' \div Lot
  <2> DEFINE a == Ordered(p)
             b == Ordered(p)'
             c == Held(p)
             d == Held(p)'
  <2>1. /\ a \in Nat /\ b \in Nat /\ a <= b /\ c \in Nat /\ d \in Nat /\ c <= d
    BY <1>7
  <2> HIDE DEF a, b, c, d
  <2>2. a \div Lot <= b \div Lot /\ c \div Lot <= d \div Lot
    BY <2>1, PercentageTypes, QuotientOrder
  <2> QED  BY <2>2 DEF a, b, c, d
<1>9. MarginsAddUp'
  BY Margins, PTL
<1>10. MarginsOf(p) /\ MarginsOf(p)' /\ products'[p].is_set
  BY <1>9, Margins DEF MarginsAddUp
<1> QED  BY <1>8, <1>10 DEF MarginsOf

\* zeta_account.rs:538 with zeta_utils.rs:31-195: as the spot price rises, so
\* does the requirement of an account, whatever it holds but puts.
THEOREM SpotRaisesRequirement == MarginSpec => RequirementFollowsSpot
<1>1. ASSUME MarginTypeOK, MarginTypeOK', Computable, QuoteConverts', spot' >= spot,
             UNCHANGED <<products, mark_prices, positions>>,
             \A p \in Products : products[p].kind # "Put"
      PROVE  get_margin_requirement' >= get_margin_requirement
  <2>1. Computable'
    <3>0. SpotIsNatural'
      BY <1>1, SpotTypes, PTL
    <3>1. spot' \in Nat
      BY <3>0 DEF SpotIsNatural
    <3>2. spot \in Nat \ {0} /\ spot' >= spot
      BY <1>1 DEF Computable
    <3> HIDE DEF spot
    <3>3. spot' \in Nat \ {0}
      BY <3>1, <3>2
    <3> QED  BY <1>1, <3>3 DEF Computable
  <2> DEFINE f == [p \in Products |-> get_initial_margin(p) + get_maintenance_margin(p)]
             g == [p \in Products |-> get_initial_margin(p)' + get_maintenance_margin(p)']
  <2>2. \A p \in Products :
          /\ get_initial_margin(p) \in Nat /\ get_initial_margin(p)' \in Nat
          /\ get_maintenance_margin(p) \in Nat /\ get_maintenance_margin(p)' \in Nat
          /\ get_initial_margin(p) <= get_initial_margin(p)'
          /\ get_maintenance_margin(p) <= get_maintenance_margin(p)'
    <3>1. ASSUME NEW p \in Products, ~products[p].is_set
          PROVE  /\ get_initial_margin(p) = 0 /\ get_initial_margin(p)' = 0
                 /\ get_maintenance_margin(p) = 0 /\ get_maintenance_margin(p)' = 0
      BY <1>1, <3>1 DEF get_initial_margin, get_maintenance_margin
    <3> QED  BY <1>1, <2>1, <3>1, SpotRaisesProduct
  <2>3. /\ f \in [Products -> Int] /\ g \in [Products -> Int]
        /\ \A p \in Products : f[p] <= g[p]
    BY <2>2
  <2>4. get_margin_requirement = SumFunctionOnSet(f, Products)
    BY DEF get_margin_requirement, SumFunction
  <2>5. get_margin_requirement' = SumFunctionOnSet(g, Products)
    BY DEF get_margin_requirement, SumFunction
  <2> HIDE DEF f, g
  <2>6. IsFiniteSet(Products)
    BY MarginAssumption
  <2> QED  BY <2>3, <2>4, <2>5, <2>6, SumMonotone
<1>2. [](MarginTypeOK) /\ [][MarginNext]_marginVars => RequirementFollowsSpot
  <2>1. MarginTypeOK /\ MarginTypeOK' /\ [MarginNext]_marginVars
          => [/\ Computable /\ QuoteConverts' /\ spot' >= spot
              /\ UNCHANGED <<products, mark_prices, positions>>
              /\ \A p \in Products : products[p].kind # "Put"
              => get_margin_requirement' >= get_margin_requirement]_marginVars
    BY <1>1
  <2> QED  BY <2>1, PTL DEF RequirementFollowsSpot
<1> QED  BY <1>2, MarginTypeCorrect, PTL DEF MarginSpec

\* What a word drops is a multiple of it.
LEMMA WordDrops ==
  /\ \A n \in Int : \E k \in Int : n % Word = n - Word * k
  /\ \A n \in Int : \E k \in Int : AsI64(n) = n - Word * k
<1>1. Word \in Nat \ {0}
  BY MarginAssumption
<1>2. ASSUME NEW n \in Int PROVE \E k \in Int : n % Word = n - Word * k
  <2>1. n = Word * (n \div Word) + (n % Word) /\ n \div Word \in Int
    BY <1>1
  <2> DEFINE k == n \div Word
             m == n % Word
  <2>2. m \in Int
    BY <1>1
  <2> HIDE DEF k, m
  <2>3. n = Word * k + m /\ k \in Int
    BY <2>1 DEF k, m
  <2>4. m = n - Word * k
    BY <1>1, <2>2, <2>3
  <2> QED  BY <2>3, <2>4 DEF m
<1>3. ASSUME NEW n \in Int PROVE \E k \in Int : AsI64(n) = n - Word * k
  <2> DEFINE half == Word \div 2
  <2>1. half \in Int
    BY <1>1
  <2> HIDE DEF half
  <2>2. PICK k \in Int : (n + half) % Word = (n + half) - Word * k
    BY <1>2, <2>1
  <2>3. Word * k \in Int
    BY <1>1
  <2>4. ((n + half) - Word * k) - half = n - Word * k
    BY <2>1, <2>3
  <2> QED  BY <2>2, <2>4 DEF AsI64, half
<1> QED  BY <1>2, <1>3

\* Two numbers of a word that are multiples of it apart are the same.
LEMMA WordApart ==
  ASSUME NEW x \in I64, NEW y \in I64, NEW k \in Int, x = y + Word * k
  PROVE  x = y
<1> DEFINE half == Word \div 2
<1>1. Word \in Nat \ {0} /\ half \in Nat /\ 2 * half <= Word
  BY MarginAssumption
<1>2. /\ x \in Int /\ -half <= x /\ x <= half - 1
      /\ y \in Int /\ -half <= y /\ y <= half - 1
  BY <1>1 DEF I64
<1> HIDE DEF half
<1>3. Word * k < Word /\ -Word < Word * k
  BY <1>1, <1>2
<1>4. ~(k >= 1) /\ ~(k <= -1)
  BY <1>1, <1>3
<1>5. k = 0
  BY <1>4
<1> QED  BY <1>1, <1>2, <1>5

\* The unrealized profit of a position is an integer.
LEMMA PnlType == MarginTypeOK => \A p \in Products : get_unrealized_pnl(positions[p], mark_prices[p]) \in Int
<1> SUFFICES ASSUME MarginTypeOK, NEW p \in Products
             PROVE  get_unrealized_pnl(positions[p], mark_prices[p]) \in Int
  OBVIOUS
<1> DEFINE n == positions[p].position
           mark == mark_prices[p]
           cost == positions[p].cost_of_trades
<1>1. n \in Int /\ cost \in Nat /\ mark \in Nat
  BY MarginAssumption DEF MarginTypeOK
<1>2. PositionValue(n, mark) \in Int
  <2>1. CASE n >= 0
    BY <1>1, <2>1, TruncationIsOdd
  <2>2. CASE ~(n >= 0)
    <3>1. -n \in Nat /\ -(-n) = n
      BY <1>1, <2>2
    <3> HIDE DEF n, mark
    <3>2. ASSUME NEW x \in Nat PROVE PositionValue(-x, mark) \in Int
      <4>1. PositionValue(x, mark) \in Int /\ PositionValue(-x, mark) = -PositionValue(x, mark)
        BY <1>1, TruncationIsOdd
      <4>2. \A y \in Int : -y \in Int
        OBVIOUS
      <4> QED  BY <4>1, <4>2
    <3> QED  BY <3>1, <3>2
  <2> QED  BY <2>1, <2>2
<1> HIDE DEF mark
<1>3. get_unrealized_pnl(positions[p], mark) \in Int
  <2>1. /\ PositionValue(n, mark) - cost \in Int /\ PositionValue(n, mark) + cost \in Int
    BY <1>1, <1>2
  <2>2. n = 0 \/ n > 0 \/ n < 0
    BY <1>1
  <2> QED  BY <2>1, <2>2 DEF get_unrealized_pnl
<1> QED  BY <1>3 DEF mark

\* The sum of the unrealized profits of an account is an integer.
PnlIsInteger == AccountPnl \in Int

LEMMA AccountPnlType == MarginTypeOK => PnlIsInteger
<1> SUFFICES ASSUME MarginTypeOK PROVE AccountPnl \in Int
  BY DEF PnlIsInteger
<1> DEFINE f == [p \in Products |-> get_unrealized_pnl(positions[p], mark_prices[p])]
<1>1. f \in [Products -> Int] /\ \A p \in Products : f[p] <= f[p]
  <2>1. \A p \in Products : get_unrealized_pnl(positions[p], mark_prices[p]) \in Int
    BY PnlType
  <2>2. f \in [Products -> Int]
    BY <2>1
  <2> HIDE DEF f
  <2> QED  BY <2>2
<1>2. AccountPnl = SumFunctionOnSet(f, Products)
  BY DEF AccountPnl, SumFunction
<1> HIDE DEF f
<1>3. IsFiniteSet(Products)
  BY MarginAssumption
<1> QED  BY <1>1, <1>2, <1>3, SumMonotone

\* Where the check returns, the margins of a position are natural numbers.
LEMMA ReturningMargins ==
  ASSUME MarginTypeOK, QuoteConverts, NEW p \in Products, MarginsConvert(p)
  PROVE  get_initial_margin(p) \in Nat /\ get_maintenance_margin(p) \in Nat
<1>1. spot \in Nat
  BY SpotTypes DEF SpotIsNatural
<1>2. CASE ~products[p].is_set
  BY <1>2 DEF get_initial_margin, get_maintenance_margin
<1>3. CASE products[p].is_set
  <2>1. ASSUME NEW phase \in Phases, NEW side \in Sides, LotConverts(phase, p, side)
        PROVE  LotMargin(phase, p, side) \in Nat
    BY <1>1, <2>1, LotTypes DEF LotConverts
  <2>2. \A x, y \in Nat : x * y \in Nat /\ x + y \in Nat /\ x \div Lot \in Nat
    BY PercentageTypes, Division
  <2>3. ASSUME NEW side \in Sides PROVE OrderMargin(p, side) \in Nat
    <3>1. positions[p].opening_orders[side] \in Nat
      BY PositionFields
    <3>2. CASE positions[p].opening_orders[side] > 0
      <4>1. LotMargin("initial", p, side) \in Nat
        BY <1>3, <2>1, <3>2 DEF MarginsConvert, Phases
      <4> QED  BY <2>2, <3>1, <3>2, <4>1, Zenon DEF OrderMargin
    <3>3. CASE ~(positions[p].opening_orders[side] > 0)
      BY <3>3 DEF OrderMargin
    <3> QED  BY <3>2, <3>3
  <2>4. get_initial_margin(p) \in Nat
    <3>1. OrderMargin(p, "Bid") \in Nat /\ OrderMargin(p, "Ask") \in Nat
      BY <2>3 DEF Sides
    <3>2. OrderMargin(p, "Bid") + OrderMargin(p, "Ask") \in Nat
      BY <2>2, <3>1, Zenon
    <3> QED  BY <1>3, <2>2, <3>2, Zenon DEF get_initial_margin
  <2>5. get_maintenance_margin(p) \in Nat
    <3> DEFINE n == positions[p].position
    <3>1. n \in Int /\ SideOf(n) \in Sides
      BY PositionFields DEF SideOf, Sides
    <3>2. Greatest(n, -n) \in Nat
      BY <3>1, SizeTypes DEF Size
    <3>3. CASE n = 0
      BY <3>3 DEF get_maintenance_margin
    <3>4. CASE n # 0
      <4>1. LotMargin("maintenance", p, SideOf(n)) \in Nat
        BY <1>3, <2>1, <3>1, <3>4 DEF MarginsConvert, Phases
      <4>2. Greatest(n, -n) * LotMargin("maintenance", p, SideOf(n)) \in Nat
        BY <2>2, <3>2, <4>1, Zenon
      <4>3. get_maintenance_margin(p)
              = (Greatest(n, -n) * LotMargin("maintenance", p, SideOf(n))) \div Lot
        BY <1>3, <3>4 DEF get_maintenance_margin
      <4> QED  BY <2>2, <4>2, <4>3, Zenon
    <3> QED  BY <3>3, <3>4
  <2> QED  BY <2>4, <2>5
<1> QED  BY <1>2, <1>3

\* What the check computes is a multiple of the word off the exact difference,
\* whatever wraps on the way.
LEMMA BufferCongruent ==
  ASSUME MarginTypeOK, QuoteConverts, NEW balance \in Balances, CheckReturns(balance)
  PROVE  /\ Left(balance) \in Int
         /\ \E k \in Int : Equity(balance) - Requirement = Left(balance) + Word * k
<1> DEFINE pnl == AccountPnl
           i == AccountInitial
           m == AccountMaintenance
           r == get_margin_requirement
<1>1. \A p \in Products : get_initial_margin(p) \in Nat /\ get_maintenance_margin(p) \in Nat
  BY ReturningMargins DEF CheckReturns
<1>2. i \in Nat /\ m \in Nat /\ r = i + m
  BY <1>1, Sums
<1>3. pnl \in Int /\ balance \in Nat /\ Word \in Nat
  BY AccountPnlType, MarginAssumption DEF PnlIsInteger
<1> HIDE DEF pnl, i, m, r
<1>4. PICK a \in Int : i % Word = i - Word * a
  BY <1>2, WordDrops
<1>5. PICK b \in Int : m % Word = m - Word * b
  BY <1>2, WordDrops
<1>6. PICK c \in Int : AsI64(pnl) = pnl - Word * c
  BY <1>3, WordDrops
<1>7. Equity(balance) - Requirement
        = (balance + (pnl - Word * c)) - ((i - Word * a) + (m - Word * b))
  BY <1>4, <1>5, <1>6 DEF Equity, Requirement, pnl, i, m
<1>8. Left(balance) = (balance + pnl) - (i + m)
  <2>1. Left(balance) = balance + (pnl - r)
    BY DEF Left, pnl, r
  <2> QED  BY <1>2, <1>3, <2>1
<1>9. (balance + (pnl - Word * c)) - ((i - Word * a) + (m - Word * b))
        = ((balance + pnl) - (i + m)) + Word * ((a + b) - c)
  BY <1>2, <1>3, <1>4, <1>5, <1>6
<1>10. (a + b) - c \in Int /\ (balance + pnl) - (i + m) \in Int
  BY <1>2, <1>3, <1>4, <1>5, <1>6
<1> QED  BY <1>7, <1>8, <1>9, <1>10

\* zeta_account.rs:559-584: a margin check that returns, returns the verdict of
\* exact arithmetic, unless the exact difference does not fit an i64.
LEMMA Verdict == MarginTypeOK => VerdictIsExact
<1> SUFFICES ASSUME MarginTypeOK, QuoteConverts, NEW balance \in Balances,
                    CheckReturns(balance), Left(balance) \in I64
             PROVE  check_margin_requirement(balance) <=> Left(balance) > 0
  BY DEF VerdictIsExact
<1> DEFINE x == Equity(balance) - Requirement
<1>1. x \in I64
  BY DEF CheckReturns
<1>2. \E k \in Int : x = Left(balance) + Word * k
  BY BufferCongruent
<1> HIDE DEF x
<1>3. x = Left(balance)
  BY <1>1, <1>2, WordApart
<1> QED  BY <1>3 DEF check_margin_requirement, x

THEOREM CheckIsExact == MarginSpec => []VerdictIsExact
BY Verdict, MarginTypeCorrect, PTL

-----------------------------------------------------------------------------
(* What a trade costs *)

\* Where a fill of a side leaves a position m, if closing orders take what
\* they can of it: the position grows on its own side by what was opening, or
\* shrinks, or changes to a side that it was not on, to at most what was opening.
Grows(m, n, side, k) == Size(n) <= Size(m) + k /\ SideOf(m) = side /\ SideOf(n) = side
Shrinks(m, n) == Size(n) <= Size(m) /\ SideOf(n) = SideOf(m)
Turns(m, n, side, k) == Size(n) <= k /\ SideOf(n) = side /\ HeldOn(m, side) = 0

\* A fill leaves a position in one of these ways.
LEMMA FillShapes ==
  ASSUME NEW m \in Int, NEW size \in Nat, NEW c \in Nat, c <= Size(m), NEW side \in Sides,
         NEW closing \in Nat,
         closing = IF \/ side = "Bid" /\ m < 0
                      \/ side = "Ask" /\ m > 0
                   THEN Least(size, c) ELSE 0,
         NEW n \in Int, n = m + size * Direction(side)
  PROVE  /\ closing <= size
         /\ Grows(m, n, side, size - closing) \/ Shrinks(m, n) \/ Turns(m, n, side, size - closing)
<1>1. CASE side = "Bid"
  <2>1. n = m + size
    BY <1>1 DEF Direction
  <2>2. CASE m >= 0
    BY <1>1, <2>1, <2>2 DEF Grows, Size, Greatest, SideOf
  <2>3. CASE m < 0
    BY <1>1, <2>1, <2>3 DEF Shrinks, Turns, Size, Greatest, SideOf, Least, HeldOn, Direction
  <2> QED  BY <2>2, <2>3
<1>2. CASE side = "Ask"
  <2>1. n = m - size
    BY <1>2 DEF Direction
  <2>2. CASE m < 0
    BY <1>2, <2>1, <2>2 DEF Grows, Size, Greatest, SideOf
  <2>3. CASE m > 0
    BY <1>2, <2>1, <2>3 DEF Shrinks, Turns, Size, Greatest, SideOf, Least, HeldOn, Direction
  <2>4. CASE ~(m < 0) /\ ~(m > 0)
    <3>1. m = 0 /\ closing = 0
      BY <1>2, <2>4
    <3>2. CASE size = 0
      <4>1. n = m
        BY <2>1, <3>2
      <4>2. Size(m) <= Size(m)
        BY SizeTypes
      <4> QED  BY <3>1, <4>1, <4>2 DEF Shrinks
    <3>3. CASE size # 0
      <4>1. n = -size /\ n < 0 /\ -n = size
        BY <2>1, <3>1, <3>3
      <4>2. Size(n) = size
        BY <4>1 DEF Size, Greatest
      <4>3. SideOf(n) = side
        BY <1>2, <4>1 DEF SideOf
      <4>4. HeldOn(m, side) = 0
        BY <3>1 DEF HeldOn, Direction, Greatest
      <4> QED  BY <3>1, <4>2, <4>3, <4>4 DEF Turns
    <3> QED  BY <3>2, <3>3
  <2> QED  BY <2>2, <2>3, <2>4
<1> QED  BY <1>1, <1>2 DEF Sides

\* What a position takes on is what it has more than before on its side.
LEMMA TakenOn ==
  ASSUME NEW m \in Int, NEW n \in Int, NEW side \in Sides, NEW k \in Nat,
         NEW taken, taken = Greatest(HeldOn(n, side) - HeldOn(m, side), 0)
  PROVE  /\ taken \in Nat
         /\ Grows(m, n, side, k) => Size(n) <= Size(m) + taken
         /\ Turns(m, n, side, k) => Size(n) <= taken
<1>1. SideOf(n) = side => HeldOn(n, side) = Size(n)
  BY DEF SideOf, HeldOn, Direction, Size, Greatest, Sides
<1>2. SideOf(m) = side => HeldOn(m, side) = Size(m)
  BY DEF SideOf, HeldOn, Direction, Size, Greatest, Sides
<1>3. HeldOn(m, side) \in Nat /\ HeldOn(n, side) \in Nat
  BY DEF HeldOn, Direction, Greatest, Sides
<1>4. taken \in Nat /\ HeldOn(n, side) <= HeldOn(m, side) + taken
  BY <1>3 DEF Greatest
<1>5. Size(m) \in Nat /\ Size(n) \in Nat
  BY SizeTypes
<1> QED  BY <1>1, <1>2, <1>3, <1>4, <1>5 DEF Grows, Turns

\* What is held after a fill, at its maintenance rate, against what was held
\* and the part of the order that was charged at the initial rate, with the
\* excess of one rate over the other for what was taken on.
LEMMA HeldAfterFill ==
  ASSUME NEW x \in Nat, NEW y \in Nat, NEW k \in Nat, NEW taken \in Nat,
         NEW held \in Nat, NEW holds \in Nat, NEW initial \in Nat, NEW rate \in Nat,
         NEW excess \in Nat, rate <= initial + excess,
         \/ y <= x + k /\ y <= x + taken /\ held = rate /\ holds = rate
         \/ y <= x /\ holds = held
         \/ y <= k /\ y <= taken /\ holds = rate
  PROVE  y * holds <= (x * held + k * initial) + taken * excess
<1>0. /\ x * held \in Nat /\ k * initial \in Nat /\ y * holds \in Nat
      /\ taken * excess \in Nat
  OBVIOUS
<1>1. ASSUME NEW z \in Nat, z <= k, z <= taken
      PROVE  z * rate <= k * initial + taken * excess
  <2>1. z * rate <= z * (initial + excess)
    OBVIOUS
  <2>2. z * (initial + excess) = z * initial + z * excess
    OBVIOUS
  <2>3. z * initial <= k * initial /\ z * excess <= taken * excess
    BY <1>1
  <2>4. z * rate \in Nat /\ z * initial \in Nat /\ z * excess \in Nat
    OBVIOUS
  <2> QED  BY <1>0, <2>1, <2>2, <2>3, <2>4
<1>2. CASE y <= x + k /\ y <= x + taken /\ held = rate /\ holds = rate
  <2>1. CASE y <= x
    <3>1. y * held <= x * held
      BY <2>1
    <3> QED  BY <1>0, <1>2, <3>1
  <2>2. CASE y > x
    <3>1. PICK z \in Nat : y = x + z
      <4>1. y - x \in Nat /\ y = x + (y - x)
        BY <2>2
      <4> QED  BY <4>1
    <3>2. z <= k /\ z <= taken
      BY <1>2, <3>1
    <3>3. z * rate <= k * initial + taken * excess
      BY <1>1, <3>2
    <3>4. (x + z) * rate = x * rate + z * rate /\ z * rate \in Nat /\ x * rate \in Nat
      OBVIOUS
    <3> QED  BY <1>0, <1>2, <3>1, <3>3, <3>4
  <2> QED  BY <2>1, <2>2
<1>3. CASE y <= x /\ holds = held
  <2>1. y * held <= x * held
    BY <1>3
  <2> QED  BY <1>0, <1>3, <2>1
<1>4. CASE y <= k /\ y <= taken /\ holds = rate
  <2>1. y * rate <= k * initial + taken * excess
    BY <1>1, <1>4
  <2> QED  BY <1>0, <1>4, <2>1
<1> QED  BY <1>2, <1>3, <1>4

\* What a step adds to a position, and the excess of a lot, are no less than 0.
LEMMA AddedTypes ==
  ASSUME MarginTypeOK, MarginTypeOK', Computable, NEW p \in Products, products[p].is_set
  PROVE  /\ \A side \in Sides :
              /\ Taken(p, side) \in Nat /\ Excess(p, side) \in Nat
              /\ LotMargin("maintenance", p, side)
                   <= LotMargin("initial", p, side) + Excess(p, side)
              /\ Taken(p, side) * Excess(p, side) <= Added(p)
         /\ Added(p) \in Nat
<1>1. positions[p].position \in Int /\ positions'[p].position \in Int
  BY PositionFields DEF MarginTypeOK
<1>2. ASSUME NEW side \in Sides
      PROVE  /\ Taken(p, side) \in Nat /\ Excess(p, side) \in Nat
             /\ LotMargin("maintenance", p, side)
                  <= LotMargin("initial", p, side) + Excess(p, side)
  <2>1. 0 \in Nat
    OBVIOUS
  <2>2. Taken(p, side) \in Nat
    BY <1>1, TakenOn, <2>1 DEF Taken
  <2> DEFINE a == LotMargin("maintenance", p, side)
             b == LotMargin("initial", p, side)
  <2>3. a \in Nat /\ b \in Nat
    BY LotMarginTypes DEF Phases
  <2> HIDE DEF a, b
  <2>4. Greatest(a - b, 0) \in Nat /\ a <= b + Greatest(a - b, 0)
    BY <2>3 DEF Greatest
  <2> QED  BY <2>2, <2>4 DEF Excess, a, b
<1>3. "Bid" \in Sides /\ "Ask" \in Sides
  BY DEF Sides
<1> DEFINE x == Taken(p, "Bid") * Excess(p, "Bid")
           y == Taken(p, "Ask") * Excess(p, "Ask")
<1>4. \A u, v \in Nat : u * v \in Nat
  OBVIOUS
<1>5. x \in Nat /\ y \in Nat
  BY <1>2, <1>3, <1>4, Zenon
<1>6. Added(p) = x + y
  BY DEF Added
<1>7. \A side \in Sides : Taken(p, side) * Excess(p, side) = x
                       \/ Taken(p, side) * Excess(p, side) = y
  BY DEF Sides
<1> HIDE DEF x, y
<1>8. x <= x + y /\ y <= x + y /\ x + y \in Nat
  BY <1>5
<1>9. \A side \in Sides : Taken(p, side) * Excess(p, side) <= Added(p)
  BY <1>6, <1>7, <1>8, Zenon
<1> QED  BY <1>2, <1>6, <1>8, <1>9

\* The parts of a position that margins are computed from, after a fill.
LEMMA FillParts ==
  ASSUME MarginTypeOK, NEW p \in Products, NEW side \in Sides, NEW size \in Sizes,
         FillOrder(p, side, size)
  PROVE  \E k \in Nat, n \in Int :
           /\ k <= positions[p].opening_orders[side]
           /\ positions'[p].position = n
           /\ positions'[p].opening_orders = [positions[p].opening_orders EXCEPT ![side] = @ - k]
           /\ \/ Grows(positions[p].position, n, side, k)
              \/ Shrinks(positions[p].position, n)
              \/ Turns(positions[p].position, n, side, k)
<1> DEFINE m == positions[p].position
           c == positions[p].closing_orders
           o == positions[p].opening_orders
           n == m + size * Direction(side)
           closing == IF Reducing(p, side) THEN Least(size, c) ELSE 0
           k == size - closing
<1>1. size \in Nat
  BY MarginAssumption
<1>2. /\ m \in Int /\ c \in Nat /\ o[side] \in Nat /\ c <= Size(m)
      /\ positions[p] \in PositionRecord /\ o \in [Sides -> Nat]
  BY PositionFields DEF PositionRecord
<1>3. n \in Int
  BY <1>1, <1>2 DEF Direction
<1>4. Reducing(p, side) <=> \/ side = "Bid" /\ m < 0
                            \/ side = "Ask" /\ m > 0
  BY <1>2 DEF Reducing, check_open, Sides
<1>5. closing \in Nat /\ closing <= size
  BY <1>1, <1>2 DEF Least
<1>6. Grows(m, n, side, k) \/ Shrinks(m, n) \/ Turns(m, n, side, k)
  BY <1>1, <1>2, <1>3, <1>4, <1>5, FillShapes
<1>7. k \in Nat /\ k <= o[side]
  <2>1. size <= Open(p, side)
    BY DEF FillOrder
  <2>2. CASE Reducing(p, side)
    BY <2>1, <2>2, <1>1, <1>2 DEF Open, Least
  <2>3. CASE ~Reducing(p, side)
    BY <2>1, <2>3, <1>1, <1>2 DEF Open
  <2> QED  BY <2>2, <2>3, <1>1, <1>5
<1>8. PICK cost \in Costs :
        positions' = [positions EXCEPT ![p] =
          Booked([@ EXCEPT !.position = n, !.cost_of_trades = cost],
                 side, -closing, closing - size)]
  BY DEF FillOrder
<1> DEFINE traded == [positions[p] EXCEPT !.position = n, !.cost_of_trades = cost]
           rest == closing - size
           back == -closing
<1>9. rest = -k
  BY <1>1, <1>5
<1> HIDE DEF n, closing, k, rest, back
<1>10. /\ traded.position = n /\ traded.opening_orders = o /\ traded \in PositionRecord
  BY <1>2, <1>3, MarginAssumption DEF PositionRecord
<1>11. positions'[p] = Booked(traded, side, back, rest)
  BY <1>8 DEF MarginTypeOK, back, rest
<1> HIDE DEF traded
<1>12. positions'[p].position = n
  BY <1>10, <1>11 DEF Booked, PositionRecord
<1>13. positions'[p].opening_orders = [o EXCEPT ![side] = o[side] - k]
  <2>1. [traded.opening_orders EXCEPT ![side] = @ + rest] = [o EXCEPT ![side] = o[side] - k]
    <3>1. o[side] + rest = o[side] - k
      BY <1>2, <1>7, <1>9
    <3> QED  BY <1>2, <1>10, <3>1
  <2> DEFINE orders == [traded.opening_orders EXCEPT ![side] = @ + rest]
  <2>2. positions'[p] = [traded EXCEPT !.closing_orders = @ + back, !.opening_orders = orders]
    BY <1>11 DEF Booked
  <2> HIDE DEF orders
  <2>3. positions'[p].opening_orders = orders
    BY <1>10, <2>2 DEF PositionRecord
  <2> QED  BY <2>1, <2>3 DEF orders
<1> QED  BY <1>3, <1>6, <1>7, <1>12, <1>13

\* Prices stay, so what a lot costs stays.
LEMMA LotMarginStays ==
  ASSUME PricesStay
  PROVE  /\ \A p \in Products : products'[p] = products[p]
         /\ \A phase \in Phases, p \in Products, side \in Sides :
              LotMargin(phase, p, side)' = LotMargin(phase, p, side)
  BY DEF LotMargin, spot, PricesStay

\* The numerators of a product after a step.
LEMMA NumeratorsAfter ==
  ASSUME MarginTypeOK, PricesStay, NEW p \in Products,
         NEW n \in Int, positions'[p].position = n
  PROVE  /\ Ordered(p)' = positions'[p].opening_orders["Bid"] * LotMargin("initial", p, "Bid")
              + positions'[p].opening_orders["Ask"] * LotMargin("initial", p, "Ask")
         /\ Held(p)' = Size(n) * LotMargin("maintenance", p, SideOf(n))
<1>1. spot' = spot
  BY DEF spot, PricesStay
<1> HIDE DEF spot
<1> QED  BY <1>1 DEF Ordered, Held, LotMargin, PricesStay

\* A fill lowers the margin for orders by at least what it adds to the margin
\* of the position, but for the excess of what it adds.
LEMMA FillLowersNumerators ==
  ASSUME MarginTypeOK, MarginTypeOK', Computable,
         NEW p \in Products, NEW side \in Sides, NEW size \in Sizes,
         FillOrder(p, side, size), products[p].is_set
  PROVE  Ordered(p)' + Held(p)' <= (Ordered(p) + Held(p)) + Added(p)
<1> DEFINE m == positions[p].position
           o == positions[p].opening_orders
<1>1. PICK k \in Nat, n \in Int :
        /\ k <= o[side]
        /\ positions'[p].position = n
        /\ positions'[p].opening_orders = [o EXCEPT ![side] = @ - k]
        /\ Grows(m, n, side, k) \/ Shrinks(m, n) \/ Turns(m, n, side, k)
  BY FillParts
<1> DEFINE held == LotMargin("maintenance", p, SideOf(m))
           holds == LotMargin("maintenance", p, SideOf(n))
           rate == LotMargin("maintenance", p, side)
           initial == LotMargin("initial", p, side)
           bid == LotMargin("initial", p, "Bid")
           ask == LotMargin("initial", p, "Ask")
           taken == Taken(p, side)
           excess == Excess(p, side)
<1>2. PricesStay
  BY DEF FillOrder, PricesStay
<1>3. /\ SideOf(m) \in Sides /\ SideOf(n) \in Sides /\ "Bid" \in Sides /\ "Ask" \in Sides
      /\ "initial" \in Phases /\ "maintenance" \in Phases
  BY DEF SideOf, Sides, Phases
<1>4. /\ held \in Nat /\ holds \in Nat /\ rate \in Nat /\ initial \in Nat
      /\ bid \in Nat /\ ask \in Nat
  BY <1>3, LotMarginTypes
<1>5. /\ taken \in Nat /\ excess \in Nat /\ rate <= initial + excess
      /\ taken * excess <= Added(p) /\ Added(p) \in Nat
  BY AddedTypes
<1>6. m \in Int /\ o \in [Sides -> Nat] /\ o["Bid"] \in Nat /\ o["Ask"] \in Nat
  BY <1>3, PositionFields DEF PositionRecord
<1>7. Ordered(p) = o["Bid"] * bid + o["Ask"] * ask /\ Held(p) = Size(m) * held
  BY DEF Ordered, Held
<1>8. Held(p)' = Size(n) * holds
  BY <1>1, <1>2, NumeratorsAfter
<1>9. Ordered(p)' = positions'[p].opening_orders["Bid"] * bid
                      + positions'[p].opening_orders["Ask"] * ask
  BY <1>1, <1>2, NumeratorsAfter
<1>10. Size(m) \in Nat /\ Size(n) \in Nat
  BY <1>6, SizeTypes
<1>11. \/ /\ Size(n) <= Size(m) + k /\ Size(n) <= Size(m) + taken
          /\ held = rate /\ holds = rate
       \/ Size(n) <= Size(m) /\ holds = held
       \/ Size(n) <= k /\ Size(n) <= taken /\ holds = rate
  <2>1. taken = Greatest(HeldOn(n, side) - HeldOn(m, side), 0)
    BY <1>1 DEF Taken
  <2> HIDE DEF taken
  <2>2. /\ Grows(m, n, side, k) => Size(n) <= Size(m) + taken
        /\ Turns(m, n, side, k) => Size(n) <= taken
    BY <1>6, <2>1, TakenOn
  <2> QED  BY <1>1, <2>2 DEF Grows, Shrinks, Turns
<1> HIDE DEF held, holds, rate, initial, bid, ask, m, o, taken, excess
<1>12. Size(n) * holds <= (Size(m) * held + k * initial) + taken * excess
  BY <1>4, <1>5, <1>10, <1>11, HeldAfterFill
<1>13. Ordered(p)' = (o["Bid"] * bid + o["Ask"] * ask) - k * initial
  <2>1. CASE side = "Bid"
    <3>1. positions'[p].opening_orders["Bid"] = o["Bid"] - k
      BY <1>1, <1>3, <1>6, <2>1
    <3>2. positions'[p].opening_orders["Ask"] = o["Ask"]
      BY <1>1, <1>3, <1>6, <2>1
    <3>3. initial = bid
      BY <2>1 DEF initial, bid
    <3>4. (o["Bid"] - k) * bid = o["Bid"] * bid - k * bid
      BY <1>4, <1>6
    <3> QED  BY <1>4, <1>6, <1>9, <3>1, <3>2, <3>3, <3>4
  <2>2. CASE side = "Ask"
    <3>1. positions'[p].opening_orders["Ask"] = o["Ask"] - k
      BY <1>1, <1>3, <1>6, <2>2
    <3>2. positions'[p].opening_orders["Bid"] = o["Bid"]
      BY <1>1, <1>3, <1>6, <2>2
    <3>3. initial = ask
      BY <2>2 DEF initial, ask
    <3>4. (o["Ask"] - k) * ask = o["Ask"] * ask - k * ask
      BY <1>4, <1>6
    <3> QED  BY <1>4, <1>6, <1>9, <3>1, <3>2, <3>3, <3>4
  <2> QED  BY <2>1, <2>2 DEF Sides
<1>14. /\ Size(n) * holds \in Nat /\ Size(m) * held \in Nat /\ k * initial \in Nat
       /\ o["Bid"] * bid \in Nat /\ o["Ask"] * ask \in Nat /\ taken * excess \in Nat
  BY <1>4, <1>5, <1>6, <1>10
<1> QED  BY <1>5, <1>7, <1>8, <1>12, <1>13, <1>14

\* An order that is not filled leaves the position: it costs what it opens.
LEMMA OrdersLowerNumerators ==
  ASSUME MarginTypeOK, MarginTypeOK', Computable, PricesStay, NothingOpens,
         NEW p \in Products, products[p].is_set,
         positions'[p].position = positions[p].position
  PROVE  Ordered(p)' + Held(p)' <= Ordered(p) + Held(p)
<1> DEFINE m == positions[p].position
           bid == LotMargin("initial", p, "Bid")
           ask == LotMargin("initial", p, "Ask")
           held == LotMargin("maintenance", p, SideOf(m))
           a == positions[p].opening_orders["Bid"]
           b == positions[p].opening_orders["Ask"]
           c == positions'[p].opening_orders["Bid"]
           d == positions'[p].opening_orders["Ask"]
<1>1. /\ SideOf(m) \in Sides /\ "Bid" \in Sides /\ "Ask" \in Sides
      /\ "initial" \in Phases /\ "maintenance" \in Phases
  BY DEF SideOf, Sides, Phases
<1>2. /\ held \in Nat /\ bid \in Nat /\ ask \in Nat
  BY <1>1, LotMarginTypes
<1>3. m \in Int /\ a \in Nat /\ b \in Nat
  BY <1>1, PositionFields
<1>4. c \in Nat /\ d \in Nat
  BY <1>1 DEF MarginTypeOK
<1>5. Ordered(p) = a * bid + b * ask /\ Held(p) = Size(m) * held
  BY DEF Ordered, Held
<1>6. Held(p)' = Size(m) * held
  BY <1>3, NumeratorsAfter
<1>7. Ordered(p)' = c * bid + d * ask
  BY <1>3, NumeratorsAfter
<1>8. c <= a /\ d <= b
  BY <1>1 DEF NothingOpens
<1>9. Size(m) \in Nat
  BY <1>3, SizeTypes
<1> HIDE DEF m, bid, ask, held, a, b, c, d
<1>10. c * bid <= a * bid /\ d * ask <= b * ask
  BY <1>2, <1>3, <1>4, <1>8
<1>11. /\ a * bid \in Nat /\ b * ask \in Nat /\ c * bid \in Nat /\ d * ask \in Nat
       /\ Size(m) * held \in Nat
  BY <1>2, <1>3, <1>4, <1>9
<1> QED  BY <1>5, <1>6, <1>7, <1>10, <1>11

\* Two quotients of numbers that add up to at most e more gain at most one unit
\* and e in lots, rounded up.
LEMMA TwoQuotients ==
  ASSUME NEW a \in Nat, NEW b \in Nat, NEW c \in Nat, NEW d \in Nat, NEW e \in Nat,
         c + d <= (a + b) + e
  PROVE  /\ (e + Lot - 1) \div Lot \in Nat
         /\ c \div Lot + d \div Lot <= ((a \div Lot + b \div Lot) + 1) + (e + Lot - 1) \div Lot
<1> DEFINE qa == a \div Lot
           qb == b \div Lot
           qc == c \div Lot
           qd == d \div Lot
           u == e + Lot - 1
           qe == u \div Lot
<1>1. Lot \in Nat \ {0}
  BY MarginAssumption
<1>2. u \in Nat /\ u = (e + Lot) - 1
  BY <1>1
<1> HIDE DEF u
<1>3. /\ qa \in Nat /\ a < Lot * qa + Lot
      /\ qb \in Nat /\ b < Lot * qb + Lot
      /\ qc \in Nat /\ Lot * qc <= c
      /\ qd \in Nat /\ Lot * qd <= d
      /\ qe \in Nat /\ u < Lot * qe + Lot
  BY <1>1, <1>2, Division
<1> HIDE DEF qa, qb, qc, qd, qe
<1>4. Lot * (qc + qd) < Lot * (qa + qb + 2 + qe)
  BY <1>1, <1>2, <1>3
<1>5. qc + qd < qa + qb + 2 + qe
  BY <1>1, <1>3, <1>4
<1>6. qc + qd <= ((qa + qb) + 1) + qe
  BY <1>3, <1>5
<1> QED  BY <1>3, <1>6 DEF qa, qb, qc, qd, qe, u

\* The surcharge of one product is part of the account's.
SurchargeOf(p) == IF products[p].is_set THEN (Added(p) + Lot - 1) \div Lot ELSE 0

LEMMA SurchargeTypes ==
  ASSUME MarginTypeOK, MarginTypeOK', Computable
  PROVE  /\ Surcharge \in Nat
         /\ \A p \in Products : SurchargeOf(p) \in Nat /\ SurchargeOf(p) <= Surcharge
<1> DEFINE f == [q \in Products |-> SurchargeOf(q)]
           zero == [q \in Products |-> 0]
<1>1. ASSUME NEW p \in Products PROVE SurchargeOf(p) \in Nat
  <2>1. CASE products[p].is_set
    <3>1. Added(p) \in Nat
      BY <2>1, AddedTypes
    <3> DEFINE e == Added(p)
    <3> HIDE DEF e
    <3>2. 0 + 0 <= (0 + 0) + e
      BY <3>1 DEF e
    <3>3. (e + Lot - 1) \div Lot \in Nat
      BY <3>1, <3>2, TwoQuotients DEF e
    <3> QED  BY <2>1, <3>3 DEF SurchargeOf, e
  <2>2. CASE ~products[p].is_set
    BY <2>2 DEF SurchargeOf
  <2> QED  BY <2>1, <2>2
<1>2. Surcharge = SumFunctionOnSet(f, Products)
  BY DEF Surcharge, SurchargeOf, SumFunction
<1>3. f \in [Products -> Int] /\ zero \in [Products -> Int] /\ \A p \in Products : zero[p] <= f[p]
  BY <1>1
<1>4. IsFiniteSet(Products)
  BY MarginAssumption
<1>5. SumFunctionOnSet(zero, Products) = 0
  BY <1>4, SumOfNothing
<1>6. Surcharge \in Nat
  <2> HIDE DEF f, zero
  <2>1. SumFunctionOnSet(f, Products) \in Int /\ 0 <= SumFunctionOnSet(f, Products)
    BY <1>3, <1>4, <1>5, SumMonotone
  <2> QED  BY <1>2, <2>1
<1>7. ASSUME NEW p \in Products PROVE SurchargeOf(p) <= Surcharge
  <2> DEFINE c == SurchargeOf(p)
             one == [q \in Products |-> IF q = p THEN c ELSE 0]
  <2>1. c \in Int
    BY <1>1
  <2>2. one \in [Products -> Int] /\ \A q \in Products : one[q] <= f[q]
    BY <1>1
  <2> HIDE DEF c, f
  <2>3. SumFunctionOnSet(one, Products) = c
    BY <1>4, <2>1, SumOfOne
  <2> HIDE DEF one
  <2>4. SumFunctionOnSet(one, Products) <= SumFunctionOnSet(f, Products)
    BY <1>3, <1>4, <2>2, SumMonotone
  <2> QED  BY <1>2, <2>3, <2>4 DEF c
<1> QED  BY <1>1, <1>6, <1>7

\* What a step may add to the requirement.
WithinSurcharge == get_margin_requirement' <= get_margin_requirement + 1 + Surcharge

\* One product's numerators grow by no more than what is added, the other
\* products' stay.
LEMMA RequirementAfter ==
  ASSUME MarginTypeOK, MarginTypeOK', Computable, PricesStay, NEW p \in Products,
         \A q \in Products \ {p} : positions'[q] = positions[q],
         products[p].is_set => Ordered(p)' + Held(p)' <= (Ordered(p) + Held(p)) + Added(p)
  PROVE  WithinSurcharge
<1> DEFINE f == [q \in Products |-> get_initial_margin(q) + get_maintenance_margin(q)]
           g == [q \in Products |-> get_initial_margin(q)' + get_maintenance_margin(q)']
<1>1. spot' = spot /\ products' = products /\ mark_prices' = mark_prices
  BY DEF spot, PricesStay
<1>2. Computable'
  <2>1. quote' = quote
    BY DEF PricesStay
  <2> HIDE DEF spot
  <2> QED  BY <1>1, <2>1 DEF Computable, QuoteConverts
<1>3. MarginsAddUp /\ MarginsAddUp'
  BY <1>2, Margins, PTL
<1> HIDE DEF spot
<1>4. \A q \in Products \ {p} : f[q] = g[q]
  BY <1>1 DEF get_initial_margin, get_maintenance_margin, OrderMargin, LotMargin
<1>5. f \in [Products -> Int] /\ g \in [Products -> Int] /\ f[p] \in Int /\ g[p] \in Int
  BY <1>3 DEF MarginsAddUp, MarginsOf
<1>6. g[p] - f[p] <= 1 + SurchargeOf(p) /\ SurchargeOf(p) \in Nat
  <2>1. CASE products[p].is_set
    <3> DEFINE a == Ordered(p)
               b == Held(p)
               c == Ordered(p)'
               d == Held(p)'
               e == Added(p)
    <3>1. /\ a \in Nat /\ b \in Nat /\ c \in Nat /\ d \in Nat
          /\ f[p] = a \div Lot + b \div Lot /\ g[p] = c \div Lot + d \div Lot
      BY <1>1, <1>3, <2>1 DEF MarginsAddUp, MarginsOf
    <3>2. e \in Nat /\ c + d <= (a + b) + e
      BY <2>1, AddedTypes
    <3> HIDE DEF a, b, c, d, e, f, g
    <3>3. /\ (e + Lot - 1) \div Lot \in Nat
          /\ c \div Lot + d \div Lot
               <= ((a \div Lot + b \div Lot) + 1) + (e + Lot - 1) \div Lot
      BY <3>1, <3>2, TwoQuotients
    <3> DEFINE v == (e + Lot - 1) \div Lot
    <3>4. SurchargeOf(p) = v
      BY <2>1 DEF SurchargeOf, e
    <3>5. v \in Nat /\ g[p] <= (f[p] + 1) + v
      BY <3>1, <3>3
    <3> HIDE DEF v
    <3>6. g[p] - f[p] <= 1 + v
      BY <1>5, <3>5
    <3> QED  BY <3>4, <3>5, <3>6
  <2>2. CASE ~products[p].is_set
    <3>1. f[p] = 0 /\ g[p] = 0
      BY <1>1, <1>3, <2>2 DEF MarginsAddUp, MarginsOf
    <3>2. SurchargeOf(p) = 0
      BY <2>2 DEF SurchargeOf
    <3> HIDE DEF f, g
    <3> QED  BY <3>1, <3>2
  <2> QED  BY <2>1, <2>2
<1>7. get_margin_requirement = SumFunctionOnSet(f, Products)
  BY DEF get_margin_requirement, SumFunction
<1>8. get_margin_requirement' = SumFunctionOnSet(g, Products)
  BY DEF get_margin_requirement, SumFunction
<1> HIDE DEF f, g
<1>9. IsFiniteSet(Products)
  BY MarginAssumption
<1>10. SumFunctionOnSet(g, Products) = SumFunctionOnSet(f, Products) + (g[p] - f[p])
  BY <1>4, <1>5, <1>9, SumFollows
<1>11. SumFunctionOnSet(f, Products) \in Int
  BY <1>5, <1>9, SumMonotone
<1>12. SurchargeOf(p) <= Surcharge /\ Surcharge \in Nat
  BY SurchargeTypes
<1> QED  BY <1>5, <1>6, <1>7, <1>8, <1>10, <1>11, <1>12 DEF WithinSurcharge

\* What a step does to the requirement while prices stay and no opening order
\* is added.
LEMMA StepRequirement ==
  ASSUME MarginTypeOK, MarginTypeOK', [MarginNext]_marginVars,
         Computable, PricesStay, NothingOpens
  PROVE  WithinSurcharge
<1>1. CASE positions' = positions
  <2>1. spot' = spot /\ products' = products /\ mark_prices' = mark_prices
    BY DEF spot, PricesStay
  <2>2. get_margin_requirement \in Int /\ Surcharge \in Nat
    BY Margins, SurchargeTypes DEF MarginsAddUp
  <2> HIDE DEF spot
  <2>3. get_margin_requirement' = get_margin_requirement
    BY <1>1, <2>1 DEF get_margin_requirement, get_initial_margin, get_maintenance_margin,
                      OrderMargin, LotMargin
  <2> QED  BY <2>2, <2>3 DEF WithinSurcharge
<1>2. ASSUME NEW p \in Products, NEW side \in Sides, NEW size \in Sizes,
             place_order(p, side, size) \/ cancel_order(p, side, size)
      PROVE  WithinSurcharge
  <2>1. /\ \A q \in Products \ {p} : positions'[q] = positions[q]
        /\ positions'[p].position = positions[p].position
    <3>1. \E closing, opening \in Int :
            positions' = [positions EXCEPT ![p] = Booked(@, side, closing, opening)]
      <4>1. size \in Nat /\ positions[p].position \in Int /\ positions[p].closing_orders \in Nat
        BY PositionFields, MarginAssumption
      <4>2. CASE place_order(p, side, size)
        <5> DEFINE n == positions[p].position
                   closing == IF Reducing(p, side)
                              THEN Least(size, Greatest(n, -n) - positions[p].closing_orders)
                              ELSE 0
        <5>1. closing \in Int /\ size - closing \in Int
          BY <4>1 DEF Least, Greatest
        <5>2. positions' = [positions EXCEPT ![p] = Booked(@, side, closing, size - closing)]
          BY <4>2 DEF place_order
        <5> HIDE DEF closing
        <5> QED  BY <5>1, <5>2
      <4>3. CASE cancel_order(p, side, size)
        <5>1. PICK closing \in 0 .. size :
                positions' = [positions EXCEPT ![p] = Booked(@, side, -closing, closing - size)]
          BY <4>3 DEF cancel_order
        <5>2. -closing \in Int /\ closing - size \in Int
          BY <4>1
        <5> QED  BY <5>1, <5>2
      <4> QED  BY <1>2, <4>2, <4>3
    <3>2. PICK closing \in Int, opening \in Int :
            positions' = [positions EXCEPT ![p] = Booked(@, side, closing, opening)]
      BY <3>1
    <3>3. positions[p] \in PositionRecord
      BY PositionFields
    <3>4. Booked(positions[p], side, closing, opening).position = positions[p].position
      BY <3>3 DEF Booked, PositionRecord
    <3> QED  BY <3>2, <3>4 DEF MarginTypeOK
  <2>2. products[p].is_set =>
          Ordered(p)' + Held(p)' <= (Ordered(p) + Held(p)) + Added(p)
    <3> SUFFICES ASSUME products[p].is_set
                 PROVE  Ordered(p)' + Held(p)' <= (Ordered(p) + Held(p)) + Added(p)
      OBVIOUS
    <3> DEFINE x == Ordered(p)' + Held(p)'
               y == Ordered(p) + Held(p)
    <3>1. x <= y /\ y \in Nat
      BY <2>1, OrdersLowerNumerators, NumeratorTypes
    <3>2. x \in Nat
      <4>1. Computable'
        <5>1. spot' = spot /\ quote' = quote /\ products' = products
          BY DEF spot, PricesStay
        <5> HIDE DEF spot
        <5> QED  BY <5>1 DEF Computable, QuoteConverts
      <4>2. MarginsAddUp'
        BY <4>1, Margins, PTL
      <4>3. products'[p].is_set
        BY DEF PricesStay
      <4> QED  BY <4>2, <4>3 DEF MarginsAddUp, MarginsOf
    <3>3. Added(p) \in Nat
      BY AddedTypes
    <3> HIDE DEF x, y
    <3>4. x <= y + Added(p)
      BY <3>1, <3>2, <3>3
    <3> QED  BY <3>4 DEF x, y
  <2> QED  BY <2>1, <2>2, RequirementAfter
<1>3. ASSUME NEW p \in Products, NEW side \in Sides, NEW size \in Sizes,
             FillOrder(p, side, size)
      PROVE  WithinSurcharge
  <2>1. \A q \in Products \ {p} : positions'[q] = positions[q]
    BY <1>3 DEF FillOrder, MarginTypeOK
  <2>2. products[p].is_set =>
          Ordered(p)' + Held(p)' <= (Ordered(p) + Held(p)) + Added(p)
    BY <1>3, FillLowersNumerators
  <2> QED  BY <2>1, <2>2, RequirementAfter
<1>4. CASE UpdateOracle \/ \E p \in Products : UpdatePricing(p)
  BY <1>1, <1>4 DEF UpdateOracle, UpdatePricing
<1>5. CASE UNCHANGED marginVars
  BY <1>1, <1>5 DEF marginVars
<1> QED  BY <1>2, <1>3, <1>4, <1>5 DEF MarginNext

\* zeta_account.rs:538: while prices stay, an account's own fills, closing
\* orders and cancellations cost it at most the unit of rounding and what held
\* lots need more than ordered ones.
THEOREM OnlyOpeningCosts == MarginSpec => OnlyOrdersRaiseRequirement
<1>1. MarginTypeOK /\ MarginTypeOK' /\ [MarginNext]_marginVars
        => [Computable /\ PricesStay /\ NothingOpens
            => get_margin_requirement' <= get_margin_requirement + 1 + Surcharge]_marginVars
  BY StepRequirement DEF WithinSurcharge
<1>2. [](MarginTypeOK) /\ [][MarginNext]_marginVars => OnlyOrdersRaiseRequirement
  BY <1>1, PTL DEF OnlyOrdersRaiseRequirement
<1> QED  BY <1>2, MarginTypeCorrect, PTL DEF MarginSpec

\* zeta_account.rs:559-584: while prices stay, an account that passes is not
\* made to fail by what reduces its orders, if that leaves it better off.
THEOREM PassingIsKept == MarginSpec => PassingSurvives
<1>1. ASSUME MarginTypeOK, MarginTypeOK', [MarginNext]_marginVars,
             Computable, PricesStay, NothingOpens,
             NEW balance \in Balances, NEW next \in Balances,
             check_margin_requirement(balance), Left(balance) \in I64,
             next + AccountPnl' > balance + AccountPnl + Surcharge,
             CheckReturns(next)', Left(next)' \in I64
      PROVE  check_margin_requirement(next)'
  <2>1. QuoteConverts /\ Computable'
    <3>1. spot' = spot /\ quote' = quote /\ products' = products
      BY <1>1 DEF spot, PricesStay
    <3> HIDE DEF spot
    <3> QED  BY <1>1, <3>1 DEF Computable, QuoteConverts
  <2>2. Left(balance) > 0
    <3>1. CheckReturns(balance)
      BY <1>1 DEF check_margin_requirement
    <3> QED  BY <1>1, <2>1, <3>1, Verdict DEF VerdictIsExact
  <2>3. WithinSurcharge
    BY <1>1, StepRequirement
  <2>4. MarginsAddUp /\ MarginsAddUp'
    BY <1>1, <2>1, Margins, PTL
  <2> DEFINE r == get_margin_requirement
             t == get_margin_requirement'
             u == Surcharge
             x == AccountPnl
             y == AccountPnl'
  <2>5. /\ r \in Nat /\ t \in Nat /\ u \in Nat /\ x \in Int /\ y \in Int
        /\ balance \in Nat /\ next \in Nat
    <3>1. PnlIsInteger /\ PnlIsInteger'
      BY <1>1, AccountPnlType, PTL
    <3> QED  BY <1>1, <2>4, <3>1, SurchargeTypes, MarginAssumption DEF MarginsAddUp, PnlIsInteger
  <2>6. Left(balance) = balance + (x - r) /\ Left(next)' = next + (y - t)
    BY DEF Left
  <2>7. t <= r + 1 + u
    BY <2>3 DEF WithinSurcharge
  <2>8. next + y > balance + x + u
    BY <1>1
  <2> HIDE DEF r, t, u, x, y
  <2>9. Left(next)' > 0
    BY <2>2, <2>5, <2>6, <2>7, <2>8
  <2>10. VerdictIsExact'
    BY <1>1, Verdict, PTL
  <2>11. QuoteConverts'
    BY <2>1 DEF Computable
  <2> QED  BY <1>1, <2>9, <2>10, <2>11 DEF VerdictIsExact
<1>2. MarginTypeOK /\ MarginTypeOK' /\ [MarginNext]_marginVars
        => [Computable /\ PricesStay /\ NothingOpens
            => \A balance \in Balances :
                 check_margin_requirement(balance) /\ Left(balance) \in I64 =>
                   \A next \in Balances :
                     /\ next + AccountPnl' > balance + AccountPnl + Surcharge
                     /\ CheckReturns(next)' /\ Left(next)' \in I64
                     => check_margin_requirement(next)']_marginVars
  BY <1>1
<1>3. [](MarginTypeOK) /\ [][MarginNext]_marginVars => PassingSurvives
  BY <1>2, PTL DEF PassingSurvives
<1> QED  BY <1>3, MarginTypeCorrect, PTL DEF MarginSpec
=============================================================================
