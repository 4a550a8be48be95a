CONSTANTS
  Percent = 40
  Lot = 3
  Precision = 1
  MarginParameters <- MCMarginParameters
  p2 = p2
  Products = {p1, p2}
  Listings <- MCListings
  Quotes <- MCQuotes
  Marks = {2, 11}
  Costs = {7}
  Sizes = {5}
  MaxSize = 10
  Word = 64
  Balances = {4, 12}
SPECIFICATION MarginSpec
CONSTRAINT MCSecond
CHECK_DEADLOCK FALSE
INVARIANTS MarginTypeOK ShortNeverUnderMargined PnlIsZeroSum VerdictIsExact
PROPERTIES OnlyOrdersRaiseRequirement RequirementFollowsSpot RequirementIgnoresScale PassingSurvives
