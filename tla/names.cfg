CONSTANTS
  m = m
  u = u
  Users = {ua}
  Letters = {m, u}
  Blank = b
  NameLength = 2
  VaultAuthoritySeed <- MCAuthoritySeed
  RedeemableMintSeed <- MCMintSeed
  VaultUsdcSeed <- MCUsdcSeed
  Bumps = {254, 255}
  Canonical = 255
  MaxVaults = 2
  MaxSupply = 2
SPECIFICATION NamesSpec
INVARIANTS MintIsTheVaults HoldersAreAccepted
CHECK_DEADLOCK FALSE
