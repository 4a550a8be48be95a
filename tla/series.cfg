CONSTANTS
  NumExpiries = 3
  Markets = {m1, m2}
  Cadence = 1
  MaxPriceAge = 3
  MaxTime = 5
SPECIFICATION SeriesSpec
INVARIANTS BackIsLatest TradeableIsClean
CHECK_DEADLOCK FALSE
