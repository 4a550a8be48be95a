---------------------------- MODULE MCVaultNames ----------------------------
(* Model values for checking VaultNames with TLC: one byte for each seed, so *)
(* that a name of two bytes can be the seed of a kind and another name.      *)
EXTENDS VaultNames

CONSTANTS m, u

MCAuthoritySeed == <<Blank>>
MCMintSeed == <<m>>
MCUsdcSeed == <<u>>
=============================================================================
