-------------------------------- MODULE Jet --------------------------------
(***************************************************************************)
(* The part of the Jet lending market that the vault uses through CPI: one *)
(* reserve (USDC) and the vault's own obligation in it.  Jet is not part   *)
(* of this repository; the operators below are what the vault's calls of   *)
(* jet_proto_v1_cpi rely on, with `Amount::from_tokens` as the unit of     *)
(* every call.                                                             *)
(*                                                                         *)
(* A position is a record of the token accounts the vault passes in        *)
(* (amounts of deposit notes and loan notes), the tokens the reserve       *)
(* holds and the two note exchange rates, in units of RateUnit: a rate     *)
(* of RateUnit means one note is worth one token.                          *)
(***************************************************************************)
EXTENDS U64

CONSTANTS
  RateUnit,            \* the exchange rate at which a note is one token
  MaxRate,             \* bound on the exchange rates
  MinCollateralRatio,  \* collateral Jet asks for a loan, in percent
  InitialLiquidity     \* tokens other depositors keep in the reserve

ASSUME RateAssumption ==
  /\ RateUnit \in Nat \ {0}
  /\ MaxRate \in Nat /\ RateUnit <= MaxRate
  /\ MinCollateralRatio \in Nat
  /\ InitialLiquidity \in U64

Rates == RateUnit .. MaxRate

Position ==
  [deposit_account : U64, collateral_account : U64, loan_account : U64,
   liquidity : U64, deposit_rate : Rates, loan_rate : Rates]

\* init_obligation, init_deposit_account, init_collateral_account and
\* init_loan_account leave the vault with empty note accounts.
NewPosition ==
  [deposit_account |-> 0, collateral_account |-> 0, loan_account |-> 0,
   liquidity |-> InitialLiquidity,
   deposit_rate |-> RateUnit, loan_rate |-> RateUnit]

\* Jet rounds in its own favour: a deposit and a repayment are converted to
\* notes downwards, a loan upwards.
DepositNotes(j, tokens) == (tokens * RateUnit) \div j.deposit_rate
NotesRepaid(j, tokens)  == (tokens * RateUnit) \div j.loan_rate
NotesOwed(j, tokens)    ==
  (tokens * RateUnit + j.loan_rate - 1) \div j.loan_rate

Healthy(j) ==
  j.loan_account * j.loan_rate * MinCollateralRatio
    <= j.collateral_account * j.deposit_rate * 100

\* refresh_reserve accrues interest: both rates only grow, and a deposit
\* note never earns more than a loan note costs.
AccruedRates(j) ==
  { r \in (j.deposit_rate .. MaxRate) \X (j.loan_rate .. MaxRate) : r[1] <= r[2] }
Refreshed(j) ==
  { [j EXCEPT !.deposit_rate = r[1], !.loan_rate = r[2]] : r \in AccruedRates(j) }

CanDeposit(j, tokens) ==
  /\ j.deposit_account + DepositNotes(j, tokens) \in U64
  /\ j.liquidity + tokens \in U64
Deposited(j, tokens) ==
  [j EXCEPT !.deposit_account = @ + DepositNotes(j, tokens),
            !.liquidity = @ + tokens]

CanDepositCollateral(j, tokens) ==
  /\ DepositNotes(j, tokens) <= j.deposit_account
  /\ j.collateral_account + DepositNotes(j, tokens) \in U64
CollateralDeposited(j, tokens) ==
  [j EXCEPT !.deposit_account = @ - DepositNotes(j, tokens),
            !.collateral_account = @ + DepositNotes(j, tokens)]

Borrowed(j, tokens) ==
  [j EXCEPT !.loan_account = @ + NotesOwed(j, tokens),
            !.liquidity = @ - tokens]
CanBorrow(j, tokens) ==
  /\ tokens <= j.liquidity
  /\ j.loan_account + NotesOwed(j, tokens) \in U64
  /\ Healthy(Borrowed(j, tokens))

CanRepay(j, tokens) ==
  /\ NotesRepaid(j, tokens) <= j.loan_account
  /\ j.liquidity + tokens \in U64
Repaid(j, tokens) ==
  [j EXCEPT !.loan_account = @ - NotesRepaid(j, tokens),
            !.liquidity = @ + tokens]

CollateralWithdrawn(j, tokens) ==
  [j EXCEPT !.collateral_account = @ - DepositNotes(j, tokens),
            !.deposit_account = @ + DepositNotes(j, tokens)]
CanWithdrawCollateral(j, tokens) ==
  /\ DepositNotes(j, tokens) <= j.collateral_account
  /\ j.deposit_account + DepositNotes(j, tokens) \in U64
  /\ Healthy(CollateralWithdrawn(j, tokens))
=============================================================================
