CONSTANTS
  Word = 700
  RateUnit = 10
  MaxRate = 11
  MinCollateralRatio = 125
  InitialLiquidity = 0
  Users = {ua, ub}
  InitialUsdc = 20
  Deposits = {7, 10}
  Redemptions = {3, 17}
  Schedules <- MCSchedules
  NoVault = NoVault
  MaxTime = 3
SPECIFICATION FairSpec
INVARIANTS RepaymentInRange PayoutNeverWraps
PROPERTIES ParkedNotesNeverMove OpensForDeposits
CHECK_DEADLOCK FALSE
