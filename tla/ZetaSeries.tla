----------------------------- MODULE ZetaSeries -----------------------------
(***************************************************************************)
(* Expiry series as programs built on zeta-cpi read them: the status of a  *)
(* series, whether it may be traded, and which series expires last         *)
(* (zeta_account.rs).  The Zeta program that owns the accounts is not in   *)
(* this repository; its actions below are what the comments on the account *)
(* fields say it does, and are free wherever those say nothing.            *)
(***************************************************************************)
EXTENDS Naturals

CONSTANTS
  NumExpiries,   \* expiry_series.len()
  Markets,       \* the products of a series
  Cadence,       \* time from one expiry to the next
  MaxPriceAge,   \* interval within which a series should be priced
  MaxTime        \* bound on the clock

ASSUME SeriesAssumption ==
  /\ NumExpiries \in Nat \ {0}
  /\ Cadence \in Nat \ {0}
  /\ MaxPriceAge \in Nat /\ MaxTime \in Nat

Series == 0 .. NumExpiries - 1

VARIABLES
  now,                 \* Clock::get()?.unix_timestamp
  front_expiry_index,  \* ZetaGroup.front_expiry_index
  expiry_series,       \* ZetaGroup.expiry_series
  strike_set,          \* series whose products[0].strike.is_set
  dirty_products,      \* <<series, market>> with Product.dirty
  update_timestamp     \* Greeks.update_timestamp

zeta == <<front_expiry_index, expiry_series, strike_set, dirty_products, update_timestamp>>
seriesVars == <<now, zeta>>

Init ==
  /\ now = 1
  /\ front_expiry_index = 0
  /\ expiry_series = [s \in Series |-> [active_ts |-> 0, expiry_ts |-> 0, dirty |-> FALSE]]
  /\ strike_set = {}
  /\ dirty_products = {}
  /\ update_timestamp = [s \in Series |-> 0]

-----------------------------------------------------------------------------
(* Reads *)

\* Fault: the timestamps are looked at before the dirty flag.
TimesFirst(s) ==
  LET e == expiry_series[s]
  IN CASE e.active_ts = 0 \/ e.expiry_ts = 0 -> "Uninitialized"
       [] OTHER ->
            CASE now < e.active_ts -> "Initialized"
              [] now >= e.active_ts /\ now < e.expiry_ts -> "Live"
              [] OTHER -> IF e.dirty THEN "ExpiredDirty" ELSE "Expired"

\* ExpirySeries::status
status(s) ==
  LET e == expiry_series[s]
  IN IF e.active_ts = 0 \/ e.expiry_ts = 0 THEN "Uninitialized"
     ELSE IF e.dirty THEN "ExpiredDirty"
     ELSE CASE now < e.active_ts -> "Initialized"
            [] now >= e.active_ts /\ now < e.expiry_ts -> "Live"
            [] OTHER -> "Expired"

\* validate_series_tradeable returns Ok: the timestamp it is passed, and with
\* it the age of the prices, plays no part.
validate_series_tradeable(s) == status(s) = "Live" /\ s \in strike_set

\* Fault: one too far in the other direction.
NextIndex == (front_expiry_index + 1) % NumExpiries

get_back_expiry_index ==
  IF front_expiry_index = 0 THEN NumExpiries - 1 ELSE front_expiry_index - 1

get_back_expiry_ts == expiry_series[get_back_expiry_index].expiry_ts

-----------------------------------------------------------------------------
(* The Zeta program and the clock *)

\* The series are set up in order, each to expire a cadence after the last.
InitializeSeries(s) ==
  /\ expiry_series[s].expiry_ts = 0
  /\ \A r \in 0 .. s - 1 : expiry_series[r].expiry_ts > 0
  /\ LET last == IF s = 0 THEN now ELSE expiry_series[s - 1].expiry_ts
     IN \E active \in now .. last + Cadence - 1 :
          expiry_series' = [expiry_series EXCEPT
            ![s].active_ts = active, ![s].expiry_ts = last + Cadence]
  /\ UNCHANGED <<now, front_expiry_index, strike_set, dirty_products, update_timestamp>>

\* "On series expiration, the series index of the expired set is changed to
\* be the next latest timestamp" (zeta_account.rs:247), and its markets wait
\* to be wiped.  Old strikes may or may not remain.
ExpireSeries ==
  LET s == front_expiry_index
      next == get_back_expiry_ts + Cadence
  IN /\ \A r \in Series : expiry_series[r].expiry_ts > 0
     /\ status(s) = "Expired"
     /\ \E active \in now .. next - 1 :
          expiry_series' = [expiry_series EXCEPT
            ![s] = [active_ts |-> active, expiry_ts |-> next, dirty |-> TRUE]]
     /\ front_expiry_index' = (s + 1) % NumExpiries
     /\ dirty_products' = dirty_products \cup ({s} \X Markets)
     /\ strike_set' \in {strike_set, strike_set \ {s}}
     /\ UNCHANGED <<now, update_timestamp>>

\* A market is wiped after expiration; a series whose markets all are is clean.
CleanMarket(s, m) ==
  /\ <<s, m>> \in dirty_products
  /\ dirty_products' = dirty_products \ {<<s, m>>}
  /\ UNCHANGED <<now, front_expiry_index, expiry_series, strike_set, update_timestamp>>

CleanSeries(s) ==
  /\ expiry_series[s].dirty
  /\ \A m \in Markets : <<s, m>> \notin dirty_products
  /\ expiry_series' = [expiry_series EXCEPT ![s].dirty = FALSE]
  /\ UNCHANGED <<now, front_expiry_index, strike_set, dirty_products, update_timestamp>>

SetStrikes(s) ==
  /\ expiry_series[s].expiry_ts > 0
  /\ ~expiry_series[s].dirty
  /\ s \notin strike_set
  /\ strike_set' = strike_set \cup {s}
  /\ UNCHANGED <<now, front_expiry_index, expiry_series, dirty_products, update_timestamp>>

\* A price is replaced, at the earliest, when it is too old: a bound on how
\* often it is.
UpdatePricing(s) ==
  /\ s \in strike_set
  /\ now > update_timestamp[s] + MaxPriceAge
  /\ update_timestamp' = [update_timestamp EXCEPT ![s] = now]
  /\ UNCHANGED <<now, front_expiry_index, expiry_series, strike_set, dirty_products>>

Tick == now < MaxTime /\ now' = now + 1 /\ UNCHANGED zeta

SeriesNext ==
  \/ Tick
  \/ ExpireSeries
  \/ \E s \in Series :
       \/ InitializeSeries(s)
       \/ CleanSeries(s)
       \/ SetStrikes(s)
       \/ UpdatePricing(s)
       \/ \E m \in Markets : CleanMarket(s, m)

SeriesSpec == Init /\ [][SeriesNext]_seriesVars

-----------------------------------------------------------------------------
(* Properties *)

\* The back expiry, found from the front index alone (zeta_account.rs:246),
\* is "furthest in the future" (257) however often the series have rotated.
BackIsLatest ==
  (\A s \in Series : expiry_series[s].expiry_ts > 0) =>
    \A s \in Series : expiry_series[s].expiry_ts <= get_back_expiry_ts

\* validate_series_tradeable does not look at the products' dirty flags "as
\* status implies that" (zeta_account.rs:238): a series that is tradeable has
\* no market left to be wiped.
TradeableIsClean ==
  \A s \in Series, m \in Markets :
    validate_series_tradeable(s) => <<s, m>> \notin dirty_products

\* zeta_account.rs:222-225, "should validate an expiry index is: [...] 3.
\* Pricing update was within the required intervals".
TradeableIsPriced ==
  \A s \in Series :
    validate_series_tradeable(s) => now <= update_timestamp[s] + MaxPriceAge
=============================================================================
