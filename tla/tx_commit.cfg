CONSTANTS
  Word = 40000
  RateUnit = 10
  MaxRate = 11
  MinCollateralRatio = 0
  InitialLiquidity = 20
  Users = {ua, ub}
  InitialUsdc = 10
  Deposits = {3, 10}
  Redemptions = {3}
  Schedules <- MCSchedules
  NoVault = NoVault
  MaxTime = 3
SPECIFICATION TxSpec
INVARIANT CoveredBetweenCpis
PROPERTY ImplementsVault
CHECK_DEADLOCK FALSE
