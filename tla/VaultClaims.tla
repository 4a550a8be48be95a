---------------------------- MODULE VaultClaims ----------------------------
(***************************************************************************)
(* What the repository's documents and tests say of the vault, and the     *)
(* code does not do.  Each property is checked by a run of its own that    *)
(* shows where the program departs from it.                                *)
(***************************************************************************)
EXTENDS Vault

\* What user u paid, got minted, burned and was sent in a step.
Paid(u)   == user_usdc[u] - user_usdc'[u]
Minted(u) == user_redeemable'[u] - user_redeemable[u]
Burned(u) == user_redeemable[u] - user_redeemable'[u]
Sent(u)   == user_usdc'[u] - user_usdc[u]

\* README.md:27, "Deposit: n_z = n_u / P_z" with P_z = N_u / N_z: a deposit
\* into a running vault mints the zTokens its USDC are worth, N_u being the
\* balance of vault_usdc (as deposit_vault takes it) or the net worth, with
\* one unit left to rounding.
DepositMintsAtPrice ==
  [][supply > 0 =>
       \A u \in Users : Minted(u) > 0 =>
         \E N_u \in {vault_usdc, NetWorth} :
           (Paid(u) * supply) \div N_u \in Minted(u) - 1 .. Minted(u) + 1]_vars

\* README.md:29, "Withdraw: n_u = P_z * n_z": a withdrawal sends the USDC its
\* zTokens are worth, with one unit left to rounding, N_u being the equity
\* that withdraw_vault computes.
WithdrawPaysAtPrice ==
  [][\A u \in Users : Burned(u) > 0 =>
       Sent(u) >= (Burned(u) * usdc_equity) \div supply - 1]_vars

\* README.md:19, zTokens represent "the fraction of USDC they contributed to
\* the vault": a withdrawal sends no more than that fraction of what the vault
\* is worth, with one unit left to rounding.  The worth is that of the accounts
\* the withdrawal found, at the rates it refreshed Jet to (jet' has them), so
\* interest that accrues between two instructions or inside this one is
\* not held against the payout.
WorthAtNewRates ==
  vault_usdc * RateUnit
    + (jet.deposit_account + jet.collateral_account) * jet'.deposit_rate
    - jet.loan_account * jet'.loan_rate

WithdrawPaysOnlyItsFraction ==
  [][\A u \in Users : Burned(u) > 0 =>
       (Sent(u) - 1) * RateUnit * supply <= Burned(u) * WorthAtNewRates]_vars

\* README.md:47, "Unrestricted deposits and withdraws of USDC", and
\* vault.ts:485-582, where the only depositor withdraws all it deposited: in
\* the deposit phase a holder of all the zTokens can redeem them.
SoleHolderCanLeave ==
  \A u \in Users :
    DepositWithdrawPhase /\ supply > 0 /\ user_redeemable[u] = supply =>
      ENABLED withdraw_vault(u, supply)
=============================================================================
