CONSTANTS
  Word = 16000
  RateUnit = 10
  MaxRate = 12
  MinCollateralRatio = 125
  InitialLiquidity = 0
  Users = {ua, ub}
  InitialUsdc = 40
  Deposits = {10, 40}
  Redemptions = {3, 12}
  Schedules <- MCSchedules
  NoVault = NoVault
  MaxTime = 3
SPECIFICATION Spec
PROPERTY WithdrawPaysOnlyItsFraction
CHECK_DEADLOCK FALSE
