CONSTANTS
  NUM_EXPIRIES = 2
  NUM_PRODUCTS_PER_SERIES = 2
  Keys <- MCKeys
  Authorities = {"ua", "ub"}
  zeta_group = zeta_group
  dex_program = dex_program
  Bump <- MCBump
  InitialUsdc = 1
  Amounts = {1}
  OrderIds = {1}
SPECIFICATION ClientSpec
INVARIANTS EveryMarketIsFound ClientIsServed OwnersCanCancel
PROPERTIES FoundStaysFound
CHECK_DEADLOCK FALSE
