CONSTANTS
  Word = 40000
  RateUnit = 1
  MaxRate = 1
  MinCollateralRatio = 0
  InitialLiquidity = 0
  Users = {ua, ub}
  InitialUsdc = 18
  Deposits = {3, 10}
  Redemptions = {3, 6}
  Schedules <- MCSchedules
  NoVault = NoVault
  MaxTime = 3
SPECIFICATION Spec
PROPERTY DepositMintsAtPrice
CHECK_DEADLOCK FALSE
