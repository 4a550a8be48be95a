CONSTANTS
  NumExpiries = 2
  Markets = {m1, m2}
  Cadence = 2
  MaxPriceAge = 1
  MaxTime = 4
SPECIFICATION SeriesSpec
INVARIANTS TradeableIsPriced
CHECK_DEADLOCK FALSE
