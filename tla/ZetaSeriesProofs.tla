-------------------------- MODULE ZetaSeriesProofs --------------------------
(***************************************************************************)
(* Theorems about ZetaSeries, for any number of series and markets, any    *)
(* cadence and any bound on the clock.                                     *)
(***************************************************************************)
EXTENDS ZetaSeries, Integers, TLAPS

SeriesType == [active_ts : Nat, expiry_ts : Nat, dirty : BOOLEAN]

\* How many series expire before s: its place from the front of the ring.
Place(front, s) == IF s >= front THEN s - front ELSE s - front + NumExpiries

SeriesTypeOK ==
  /\ now \in Nat
  /\ front_expiry_index \in Series
  /\ expiry_series \in [Series -> SeriesType]

\* The ring does not turn before every series is set up.
SetUpBeforeTurn ==
  (\E s \in Series : expiry_series[s].expiry_ts = 0) => front_expiry_index = 0

\* From the front of the ring on, the series are set up in order and expire in
\* order.
RingOrdered ==
  \A r, s \in Series :
    Place(front_expiry_index, r) < Place(front_expiry_index, s) /\ expiry_series[s].expiry_ts > 0
      => /\ expiry_series[r].expiry_ts > 0
         /\ expiry_series[r].expiry_ts <= expiry_series[s].expiry_ts

RingInv == SeriesTypeOK /\ SetUpBeforeTurn /\ RingOrdered

\* A market waits to be wiped only in a series that is flagged dirty.
DirtyIsFlagged ==
  \A s \in Series, m \in Markets : <<s, m>> \in dirty_products => expiry_series[s].dirty

-----------------------------------------------------------------------------
(* The ring *)

\* The next index after the last one is the first.
LEMMA NextOnRing ==
  ASSUME NEW s \in Series
  PROVE  (s + 1) % NumExpiries = IF s = NumExpiries - 1 THEN 0 ELSE s + 1
<1>1. NumExpiries \in Nat \ {0} /\ s \in Nat /\ s < NumExpiries
  BY SeriesAssumption DEF Series
<1>2. CASE s = NumExpiries - 1
  BY <1>1, <1>2
<1>3. CASE s # NumExpiries - 1
  BY <1>1, <1>3
<1> QED  BY <1>2, <1>3

\* The series before the front is the last place of the ring.
LEMMA BackIsLastPlace ==
  ASSUME SeriesTypeOK
  PROVE  /\ get_back_expiry_index \in Series
         /\ Place(front_expiry_index, get_back_expiry_index) = NumExpiries - 1
         /\ \A s \in Series \ {get_back_expiry_index} :
              Place(front_expiry_index, s) < NumExpiries - 1
BY SeriesAssumption DEF SeriesTypeOK, Series, get_back_expiry_index, Place

\* When the ring turns, the front becomes the last place and every other
\* series is one place nearer.
LEMMA PlacesAfterTurn ==
  ASSUME NEW f \in Series, NEW s \in Series
  PROVE  Place((f + 1) % NumExpiries, s) =
           IF s = f THEN NumExpiries - 1 ELSE Place(f, s) - 1
BY NextOnRing, SeriesAssumption DEF Series, Place

-----------------------------------------------------------------------------
(* The back expiry is the latest *)

LEMMA InitRing == Init => RingInv
BY SeriesAssumption
   DEF Init, RingInv, SeriesTypeOK, SetUpBeforeTurn, RingOrdered, Series, SeriesType

LEMMA InitializeSeriesRing ==
  ASSUME RingInv, NEW s \in Series, InitializeSeries(s)
  PROVE  RingInv'
<1> DEFINE last == IF s = 0 THEN now ELSE expiry_series[s - 1].expiry_ts
<1>1. PICK active \in now .. last + Cadence - 1 :
        expiry_series' = [expiry_series EXCEPT
          ![s].active_ts = active, ![s].expiry_ts = last + Cadence]
  BY DEF InitializeSeries
<1>2. /\ s = 0 \/ s - 1 \in Series
      /\ s \in Nat /\ now \in Nat /\ Cadence \in Nat \ {0}
  BY SeriesAssumption DEF Series, RingInv, SeriesTypeOK
<1>3. last \in Nat
  BY <1>2 DEF RingInv, SeriesTypeOK, SeriesType
<1>4. last + Cadence \in Nat /\ last + Cadence > 0 /\ active \in Nat
  BY <1>2, <1>3
<1>5. front_expiry_index = 0 /\ front_expiry_index' = 0
  BY DEF InitializeSeries, RingInv, SetUpBeforeTurn
<1>6. /\ expiry_series' \in [Series -> SeriesType]
      /\ expiry_series'[s].expiry_ts = last + Cadence
      /\ \A r \in Series \ {s} : expiry_series'[r] = expiry_series[r]
  <2>1. \A r \in Series : expiry_series'[r] =
          IF r = s THEN [expiry_series[s] EXCEPT !.active_ts = active,
                                                 !.expiry_ts = last + Cadence]
          ELSE expiry_series[r]
    BY <1>1 DEF RingInv, SeriesTypeOK
  <2>2. expiry_series[s] \in SeriesType
    BY DEF RingInv, SeriesTypeOK
  <2>3. [expiry_series[s] EXCEPT !.active_ts = active, !.expiry_ts = last + Cadence]
          \in SeriesType
    BY <1>4, <2>2 DEF SeriesType
  <2>4. expiry_series' = [r \in Series |-> expiry_series'[r]]
    BY <1>1 DEF RingInv, SeriesTypeOK
  <2>5. \A r \in Series : expiry_series'[r] \in SeriesType
    BY <2>1, <2>3 DEF RingInv, SeriesTypeOK
  <2>6. expiry_series'[s].expiry_ts = last + Cadence
    BY <2>1, <2>2 DEF SeriesType
  <2> QED  BY <2>1, <2>4, <2>5, <2>6
<1> HIDE DEF last
<1>7. SeriesTypeOK'
  BY <1>5, <1>6 DEF InitializeSeries, RingInv, SeriesTypeOK
<1>8. SetUpBeforeTurn'
  BY <1>5 DEF SetUpBeforeTurn
<1>9. RingOrdered'
  <2>1. \A q \in Series : Place(0, q) = q
    BY SeriesAssumption DEF Series, Place
  <2>2. expiry_series[s].expiry_ts = 0 /\ \A q \in 0 .. s - 1 : expiry_series[q].expiry_ts > 0
    BY DEF InitializeSeries
  <2>3. \A q \in Series : q > s => expiry_series[q].expiry_ts = 0
    BY <1>2, <1>5, <2>1, <2>2 DEF RingInv, RingOrdered, SeriesTypeOK, SeriesType, Series
  <2>4. \A q \in Series : q < s =>
          expiry_series[q].expiry_ts > 0 /\ expiry_series[q].expiry_ts <= last
    <3> SUFFICES ASSUME NEW q \in Series, q < s
                 PROVE  expiry_series[q].expiry_ts > 0 /\ expiry_series[q].expiry_ts <= last
      OBVIOUS
    <3>1. /\ q \in Nat /\ q \in 0 .. s - 1
          /\ s - 1 \in Series /\ s - 1 \in 0 .. s - 1 /\ last = expiry_series[s - 1].expiry_ts
      BY <1>2 DEF Series, last
    <3>2. expiry_series[q].expiry_ts > 0 /\ expiry_series[s - 1].expiry_ts > 0
      BY <2>2, <3>1
    <3>3. CASE q = s - 1
      BY <1>3, <3>1, <3>2, <3>3
    <3>4. CASE q # s - 1
      <4>1. q < s - 1
        BY <1>2, <3>1, <3>4
      <4> QED  BY <1>5, <2>1, <3>1, <3>2, <4>1 DEF RingInv, RingOrdered
    <3> QED  BY <3>3, <3>4
  <2> SUFFICES ASSUME NEW r \in Series, NEW q \in Series, r < q,
                      expiry_series'[q].expiry_ts > 0
               PROVE  /\ expiry_series'[r].expiry_ts > 0
                      /\ expiry_series'[r].expiry_ts <= expiry_series'[q].expiry_ts
    BY <1>5, <2>1 DEF RingOrdered
  <2>5. r \in Nat /\ q \in Nat
    BY SeriesAssumption DEF Series
  <2>6. CASE q = s
    BY <1>2, <1>3, <1>6, <2>4, <2>5, <2>6 DEF RingInv, SeriesTypeOK, SeriesType
  <2>7. CASE q # s
    <3>1. q < s
      BY <1>2, <1>6, <2>3, <2>5, <2>7
    <3>2. r # s
      BY <1>2, <2>5, <3>1
    <3> QED  BY <1>5, <1>6, <2>1, <2>7, <3>2 DEF RingInv, RingOrdered
  <2> QED  BY <2>6, <2>7
<1> QED  BY <1>7, <1>8, <1>9 DEF RingInv

LEMMA ExpireSeriesRing ==
  ASSUME RingInv, ExpireSeries
  PROVE  RingInv'
<1> DEFINE f == front_expiry_index
<1> DEFINE next == get_back_expiry_ts + Cadence
<1>1. PICK active \in now .. next - 1 :
        expiry_series' = [expiry_series EXCEPT
          ![f] = [active_ts |-> active, expiry_ts |-> next, dirty |-> TRUE]]
  BY DEF ExpireSeries
<1>2. /\ f \in Series /\ f' = (f + 1) % NumExpiries /\ now' = now
      /\ \A r \in Series : expiry_series[r].expiry_ts > 0
  BY DEF ExpireSeries, RingInv, SeriesTypeOK
<1>3. /\ get_back_expiry_ts \in Nat
      /\ \A r \in Series : expiry_series[r].expiry_ts <= get_back_expiry_ts
  <2>1. SeriesTypeOK
    BY DEF RingInv
  <2>2. get_back_expiry_ts \in Nat /\ get_back_expiry_ts > 0
    BY <1>2, <2>1, BackIsLastPlace DEF get_back_expiry_ts, SeriesTypeOK, SeriesType
  <2> QED  BY <1>2, <2>1, <2>2, BackIsLastPlace
           DEF RingInv, RingOrdered, get_back_expiry_ts
<1>4. /\ next \in Nat /\ active \in Nat
      /\ \A r \in Series : expiry_series[r].expiry_ts < next
  BY <1>3, SeriesAssumption DEF RingInv, SeriesTypeOK, SeriesType
<1> HIDE DEF next
<1>5. /\ expiry_series' \in [Series -> SeriesType]
      /\ expiry_series'[f].expiry_ts = next
      /\ \A r \in Series \ {f} : expiry_series'[r] = expiry_series[r]
  <2>1. [active_ts |-> active, expiry_ts |-> next, dirty |-> TRUE] \in SeriesType
    BY <1>4 DEF SeriesType
  <2> QED  BY <1>1, <1>2, <2>1 DEF RingInv, SeriesTypeOK
<1>6. f' \in Series
  BY <1>2, NextOnRing, SeriesAssumption DEF Series
<1>7. \A r \in Series : expiry_series'[r].expiry_ts > 0 /\ expiry_series'[r].expiry_ts \in Nat
  BY <1>2, <1>4, <1>5 DEF RingInv, SeriesTypeOK, SeriesType
<1>8. RingOrdered'
  <2> SUFFICES ASSUME NEW r \in Series, NEW q \in Series, Place(f', r) < Place(f', q)
               PROVE  expiry_series'[r].expiry_ts <= expiry_series'[q].expiry_ts
    BY <1>7 DEF RingOrdered
  <2>1. /\ Place(f', r) = IF r = f THEN NumExpiries - 1 ELSE Place(f, r) - 1
        /\ Place(f', q) = IF q = f THEN NumExpiries - 1 ELSE Place(f, q) - 1
    BY <1>2, PlacesAfterTurn
  <2>2. Place(f, r) \in 0 .. NumExpiries - 1 /\ Place(f, q) \in 0 .. NumExpiries - 1
    BY <1>2, SeriesAssumption DEF Series, Place
  <2>3. r # f
    BY <2>1, <2>2, SeriesAssumption
  <2>4. CASE q = f
    BY <1>4, <1>5, <2>3, <2>4 DEF RingInv, SeriesTypeOK, SeriesType
  <2>5. CASE q # f
    <3>1. Place(f, r) < Place(f, q)
      BY <2>1, <2>2, <2>3, <2>5
    <3> QED  BY <1>2, <1>5, <2>3, <2>5, <3>1 DEF RingInv, RingOrdered
  <2> QED  BY <2>4, <2>5
<1>9. SeriesTypeOK' /\ SetUpBeforeTurn'
  BY <1>2, <1>5, <1>6, <1>7 DEF RingInv, SeriesTypeOK, SetUpBeforeTurn
<1> QED  BY <1>8, <1>9 DEF RingInv

LEMMA CleanSeriesRing ==
  ASSUME RingInv, NEW s \in Series, CleanSeries(s)
  PROVE  RingInv'
<1>1. /\ expiry_series' = [expiry_series EXCEPT ![s].dirty = FALSE]
      /\ UNCHANGED <<now, front_expiry_index>>
  BY DEF CleanSeries
<1>2. /\ expiry_series' \in [Series -> SeriesType]
      /\ \A r \in Series : expiry_series'[r].expiry_ts = expiry_series[r].expiry_ts
  BY <1>1 DEF RingInv, SeriesTypeOK, SeriesType
<1> QED  BY <1>1, <1>2 DEF RingInv, SeriesTypeOK, SetUpBeforeTurn, RingOrdered

LEMMA NextRing == RingInv /\ [SeriesNext]_seriesVars => RingInv'
<1> SUFFICES ASSUME RingInv, [SeriesNext]_seriesVars
             PROVE  RingInv'
  OBVIOUS
<1>1. CASE now' \in Nat /\ UNCHANGED <<front_expiry_index, expiry_series>>
  BY <1>1 DEF RingInv, SeriesTypeOK, SetUpBeforeTurn, RingOrdered
<1>2. CASE Tick
  BY <1>1, <1>2 DEF Tick, zeta, RingInv, SeriesTypeOK
<1>3. CASE ExpireSeries
  BY <1>3, ExpireSeriesRing
<1>4. ASSUME NEW s \in Series, InitializeSeries(s)
      PROVE  RingInv'
  BY <1>4, InitializeSeriesRing
<1>5. ASSUME NEW s \in Series, CleanSeries(s)
      PROVE  RingInv'
  BY <1>5, CleanSeriesRing
<1>6. ASSUME NEW s \in Series,
             SetStrikes(s) \/ UpdatePricing(s) \/ \E m \in Markets : CleanMarket(s, m)
      PROVE  RingInv'
  BY <1>1, <1>6 DEF SetStrikes, UpdatePricing, CleanMarket, RingInv, SeriesTypeOK
<1>7. CASE UNCHANGED seriesVars
  BY <1>1, <1>7 DEF seriesVars, zeta, RingInv, SeriesTypeOK
<1> QED  BY <1>2, <1>3, <1>4, <1>5, <1>6, <1>7 DEF SeriesNext

\* The back expiry is furthest in the future (zeta_account.rs:246, 257), for
\* any number of series.
THEOREM BackAlwaysLatest == SeriesSpec => []BackIsLatest
<1>1. RingInv => BackIsLatest
  <2> SUFFICES ASSUME RingInv, \A s \in Series : expiry_series[s].expiry_ts > 0,
                      NEW s \in Series
               PROVE  expiry_series[s].expiry_ts <= get_back_expiry_ts
    BY DEF BackIsLatest
  <2>1. SeriesTypeOK
    BY DEF RingInv
  <2>2. CASE s = get_back_expiry_index
    BY <2>1, <2>2 DEF get_back_expiry_ts, SeriesTypeOK, SeriesType
  <2>3. CASE s # get_back_expiry_index
    BY <2>1, <2>3, BackIsLastPlace DEF RingInv, RingOrdered, get_back_expiry_ts
  <2> QED  BY <2>2, <2>3
<1> QED  BY <1>1, InitRing, NextRing, PTL DEF SeriesSpec

-----------------------------------------------------------------------------
(* A series that is tradeable has no market left to be wiped *)

LEMMA NextFlagged ==
  SeriesTypeOK /\ SeriesTypeOK' /\ DirtyIsFlagged /\ [SeriesNext]_seriesVars => DirtyIsFlagged'
<1> SUFFICES ASSUME SeriesTypeOK, SeriesTypeOK', DirtyIsFlagged, [SeriesNext]_seriesVars
             PROVE  DirtyIsFlagged'
  OBVIOUS
<1>1. CASE Tick \/ UNCHANGED seriesVars
  BY <1>1 DEF Tick, seriesVars, zeta, DirtyIsFlagged
<1>2. CASE ExpireSeries
  <2>1. PICK e \in SeriesType :
          /\ e.dirty
          /\ expiry_series' = [expiry_series EXCEPT ![front_expiry_index] = e]
    <3>1. PICK active, next :
            expiry_series' = [expiry_series EXCEPT ![front_expiry_index] =
              [active_ts |-> active, expiry_ts |-> next, dirty |-> TRUE]]
      BY <1>2 DEF ExpireSeries
    <3>2. expiry_series'[front_expiry_index] =
            [active_ts |-> active, expiry_ts |-> next, dirty |-> TRUE]
      BY <3>1 DEF SeriesTypeOK
    <3>3. expiry_series'[front_expiry_index] \in SeriesType
      BY DEF SeriesTypeOK
    <3> QED  BY <3>1, <3>2, <3>3
  <2>2. dirty_products' = dirty_products \cup ({front_expiry_index} \X Markets)
    BY <1>2 DEF ExpireSeries
  <2>3. \A s \in Series : expiry_series'[s] =
          IF s = front_expiry_index THEN e ELSE expiry_series[s]
    BY <2>1 DEF SeriesTypeOK
  <2> SUFFICES ASSUME NEW s \in Series, NEW m \in Markets, <<s, m>> \in dirty_products'
               PROVE  expiry_series'[s].dirty
    BY DEF DirtyIsFlagged
  <2>4. CASE s = front_expiry_index
    BY <2>1, <2>3, <2>4
  <2>5. CASE s # front_expiry_index
    BY <2>2, <2>3, <2>5 DEF DirtyIsFlagged
  <2> QED  BY <2>4, <2>5
<1>3. ASSUME NEW t \in Series, InitializeSeries(t)
      PROVE  DirtyIsFlagged'
  <2>1. /\ dirty_products' = dirty_products
        /\ \E active, next : expiry_series' = [expiry_series EXCEPT
             ![t].active_ts = active, ![t].expiry_ts = next]
    BY <1>3 DEF InitializeSeries
  <2>2. \A s \in Series : expiry_series'[s].dirty = expiry_series[s].dirty
    BY <2>1 DEF SeriesTypeOK, SeriesType
  <2> QED  BY <2>1, <2>2 DEF DirtyIsFlagged
<1>4. ASSUME NEW t \in Series, CleanSeries(t)
      PROVE  DirtyIsFlagged'
  <2>1. /\ dirty_products' = dirty_products
        /\ \A m \in Markets : <<t, m>> \notin dirty_products
        /\ \A s \in Series \ {t} : expiry_series'[s] = expiry_series[s]
    BY <1>4 DEF CleanSeries, SeriesTypeOK
  <2> QED  BY <2>1 DEF DirtyIsFlagged
<1>5. ASSUME NEW t \in Series, NEW m \in Markets, CleanMarket(t, m)
      PROVE  DirtyIsFlagged'
  BY <1>5 DEF CleanMarket, DirtyIsFlagged
<1>6. ASSUME NEW t \in Series, SetStrikes(t) \/ UpdatePricing(t)
      PROVE  DirtyIsFlagged'
  BY <1>6 DEF SetStrikes, UpdatePricing, DirtyIsFlagged
<1> QED  BY <1>1, <1>2, <1>3, <1>4, <1>5, <1>6 DEF SeriesNext

\* validate_series_tradeable may leave out the products' dirty flags
\* (zeta_account.rs:238), for any number of series and markets.
THEOREM TradeableAlwaysClean == SeriesSpec => []TradeableIsClean
<1>1. Init => RingInv /\ DirtyIsFlagged
  BY InitRing DEF Init, DirtyIsFlagged
<1>2. (RingInv /\ DirtyIsFlagged) /\ [SeriesNext]_seriesVars => (RingInv /\ DirtyIsFlagged)'
  BY NextRing, NextFlagged DEF RingInv
<1>3. RingInv /\ DirtyIsFlagged => TradeableIsClean
  <2> SUFFICES ASSUME DirtyIsFlagged, NEW s \in Series, NEW m \in Markets,
                      validate_series_tradeable(s)
               PROVE  <<s, m>> \notin dirty_products
    BY DEF TradeableIsClean
  <2>1. ~expiry_series[s].dirty
    BY DEF validate_series_tradeable, status
  <2> QED  BY <2>1 DEF DirtyIsFlagged
<1> QED  BY <1>1, <1>2, <1>3, PTL DEF SeriesSpec
=============================================================================
