------------------------------- MODULE Vault -------------------------------
(***************************************************************************)
(* The vault program: programs/vault/src/lib.rs with the accounts of       *)
(* context.rs.  A Solana transaction either succeeds as a whole or leaves  *)
(* no trace, and transactions that write the same accounts are serialised; *)
(* so an action here is one successful instruction, its guards are all the *)
(* checks on the way (the program's, the token program's and Jet's), and a *)
(* failed instruction is no step.  VaultTx opens the instructions up.      *)
(***************************************************************************)
EXTENDS Jet

CONSTANTS
  Users,         \* the users' authorities
  InitialUsdc,   \* USDC each user starts with
  Deposits,      \* the usdc_amount arguments users pass to deposit_vault
  Redemptions,   \* the redeemable_amount arguments of withdraw_vault
  Schedules,     \* the EpochTimes the admin may propose
  NoVault,       \* in place of the vault's EpochTimes before it exists
  MaxTime        \* bound on the clock

EpochTimes ==
  [start_epoch : Int, end_deposits : Int, start_auction : Int,
   end_auction : Int, start_settlement : Int, end_epoch : Int,
   epoch_cadence : U64]

ASSUME VaultAssumption ==
  /\ InitialUsdc \in U64
  /\ Deposits \subseteq U64
  /\ Redemptions \subseteq U64
  /\ Schedules \subseteq EpochTimes
  /\ NoVault \notin Schedules
  /\ MaxTime \in Nat


VARIABLES
  now,              \* Clock::get()?.unix_timestamp
  epoch_times,      \* vault.epoch_times, or NoVault
  user_usdc,        \* user |-> amount of its USDC token account
  opened,           \* users whose user_redeemable token account exists
  user_redeemable,  \* user |-> amount of that account, 0 if there is none
  supply,           \* redeemable_mint.supply
  vault_usdc,       \* vault_usdc.amount
  jet               \* the vault's position in the Jet reserve

accounts == <<user_usdc, opened, user_redeemable, supply, vault_usdc, jet>>
vars == <<now, epoch_times, accounts>>

TypeOK ==
  /\ now \in 0 .. MaxTime
  /\ epoch_times \in Schedules \cup {NoVault}
  /\ user_usdc \in [Users -> U64]
  /\ opened \subseteq Users
  /\ user_redeemable \in [Users -> U64]
  /\ supply \in U64
  /\ vault_usdc \in U64
  /\ jet \in Position

Init ==
  /\ now = 0
  /\ epoch_times = NoVault
  /\ user_usdc = [u \in Users |-> InitialUsdc]
  /\ opened = {}
  /\ user_redeemable = [u \in Users |-> 0]
  /\ supply = 0
  /\ vault_usdc = 0
  /\ jet = NewPosition

-----------------------------------------------------------------------------
(* Access control *)

\* Fault: the start may be past.
SequentialEpochTimes(time, e) ==
  /\ e.start_epoch < e.end_deposits
  /\ e.end_deposits < e.start_auction
  /\ e.end_epoch - e.start_epoch <= e.epoch_cadence

\* validate_epoch_times: the epoch starts in the future, its phases follow
\* one another and it fits in the cadence.
ValidEpochTimes(time, e) ==
  /\ time < e.start_epoch
  /\ e.start_epoch < e.end_deposits
  /\ e.end_deposits < e.start_auction
  /\ e.start_auction < e.end_auction
  /\ e.end_auction < e.start_settlement
  /\ e.start_settlement < e.end_epoch
  /\ e.end_epoch - e.start_epoch <= e.epoch_cadence

\* Fault: the first instant of the epoch counts as open.
PhaseFromStart ==
  /\ epoch_times # NoVault
  /\ epoch_times.start_epoch <= now
  /\ now <= epoch_times.end_deposits

\* deposit_withdraw_phase
DepositWithdrawPhase ==
  /\ epoch_times # NoVault
  /\ epoch_times.start_epoch < now
  /\ now <= epoch_times.end_deposits

\* Fault: the check looks at the mint instead of the user's account.
SupplyHasRedeemable(u, amount) == amount <= supply

\* InsufficientRedeemableBalance; the token program refuses the burn, too.
HasRedeemable(u, amount) == amount <= user_redeemable[u]

-----------------------------------------------------------------------------
(* Amounts the handlers compute *)

Smaller(x, y) == IF x < y THEN x ELSE y

\* What deposit_vault charges for usdc_amount zTokens, cast back to u64.
redeemable_amount(usdc_amount) ==
  Wrap(IF supply > 0 THEN (usdc_amount * supply) \div vault_usdc
                     ELSE usdc_amount)

\* Faults: the collateral is computed from the USDC paid, not from the amount
\* deposited in Jet; twice, not half of a deposit is borrowed.
CollateralOfPaid(usdc_amount) == Wrap(redeemable_amount(usdc_amount) * 90) \div 100
TwiceDeposit(usdc_amount) == usdc_amount * 2

\* The parts of a deposit that go to Jet, become collateral and are borrowed.
DepositTokens(usdc_amount) == Wrap(usdc_amount * 90) \div 100
CollateralTokens(usdc_amount) == Wrap(usdc_amount * 90) \div 100
BorrowTokens(usdc_amount) == usdc_amount \div 2

\* Faults: liabilities are forgotten; the amount is multiplied by the equity
\* before any division; the repayment is not limited to the loan.
AssetsOnly == Wrap(vault_usdc + jet.collateral_account)
UndividedEquity == Wrap(vault_usdc + jet.collateral_account - jet.loan_account)
RepayAnyAmount(amount) ==
  Smaller(Wrap(amount * (Wrap(vault_usdc + jet.collateral_account - jet.loan_account)
                           \div supply)), vault_usdc)

\* The withdrawal rate, from the amounts of the accounts as deserialised.
\* Jet notes are counted as USDC.
usdc_equity ==
  Wrap(vault_usdc + jet.collateral_account - jet.loan_account)
usdc_fx_rate == usdc_equity \div supply
usdc_to_send_user(amount) == Wrap(amount * usdc_fx_rate)
usdc_to_repay_jet(amount) ==
  Smaller(Smaller(jet.loan_account, usdc_to_send_user(amount)), vault_usdc)

-----------------------------------------------------------------------------
(* Instructions *)

\* The admin creates the vault, once: its accounts are `init` accounts.
initialize_vault(e) ==
  /\ epoch_times = NoVault
  /\ ValidEpochTimes(now, e)
  /\ epoch_times' = e
  /\ supply' = 0
  /\ vault_usdc' = 0
  /\ jet' = NewPosition
  /\ UNCHANGED <<now, user_usdc, opened, user_redeemable>>

initialize_user_redeemable_token_account(u) ==
  /\ DepositWithdrawPhase
  /\ u \notin opened
  /\ opened' = opened \cup {u}
  /\ UNCHANGED <<now, epoch_times, user_usdc, user_redeemable, supply, vault_usdc, jet>>

\* The user pays redeemable_amount and is minted usdc_amount; then the vault
\* deposits 90% of usdc_amount in Jet as collateral and borrows 50% of it.
DepositUsdc(u, usdc_amount) ==
  LET paid == redeemable_amount(usdc_amount)
      deposited == DepositTokens(usdc_amount)
      posted == CollateralTokens(usdc_amount)
      borrowed == BorrowTokens(usdc_amount)
  IN /\ DepositWithdrawPhase
     /\ usdc_amount <= user_usdc[u]
     /\ supply > 0 => vault_usdc > 0        \* checked_div(..).unwrap()
     /\ paid <= user_usdc[u]
     /\ deposited <= vault_usdc + paid
     /\ vault_usdc + paid \in U64
     /\ vault_usdc + paid - deposited + borrowed \in U64
     /\ user_redeemable[u] + usdc_amount \in U64
     /\ supply + usdc_amount \in U64
     /\ \E j0 \in Refreshed(jet) :
          LET j1 == Deposited(j0, deposited)
              j2 == CollateralDeposited(j1, posted)
          IN /\ CanDeposit(j0, deposited)
             /\ CanDepositCollateral(j1, posted)
             /\ CanBorrow(j2, borrowed)
             /\ jet' = Borrowed(j2, borrowed)
     /\ user_usdc' = [user_usdc EXCEPT ![u] = @ - paid]
     /\ vault_usdc' = vault_usdc + paid - deposited + borrowed
     /\ user_redeemable' = [user_redeemable EXCEPT ![u] = @ + usdc_amount]
     /\ supply' = supply + usdc_amount
     /\ UNCHANGED <<now, epoch_times>>

deposit_vault(u, usdc_amount) ==
  /\ u \in opened
  /\ DepositUsdc(u, usdc_amount)
  /\ UNCHANGED opened

\* A first deposit: the client puts both instructions in one transaction, so
\* they succeed or fail together.
initialize_user_and_deposit(u, usdc_amount) ==
  /\ u \notin opened
  /\ DepositUsdc(u, usdc_amount)
  /\ opened' = opened \cup {u}

\* The amounts are computed first; then the vault repays part of its loan,
\* frees as many tokens of collateral into its deposit account (and leaves
\* them there), burns the zTokens, pays the user and closes an empty account.
withdraw_vault(u, amount) ==
  LET sent == usdc_to_send_user(amount)
      repaid == usdc_to_repay_jet(amount)
  IN /\ DepositWithdrawPhase
     /\ u \in opened
     /\ HasRedeemable(u, amount)
     /\ amount <= supply
     /\ supply > 0                          \* division by zero panics
     /\ repaid + sent <= vault_usdc
     /\ user_usdc[u] + sent \in U64
     /\ \E j0 \in Refreshed(jet) :
          LET j1 == Repaid(j0, repaid)
          IN /\ CanRepay(j0, repaid)
             /\ CanWithdrawCollateral(j1, repaid)
             /\ jet' = CollateralWithdrawn(j1, repaid)
     /\ vault_usdc' = vault_usdc - repaid - sent
     /\ user_usdc' = [user_usdc EXCEPT ![u] = @ + sent]
     /\ user_redeemable' = [user_redeemable EXCEPT ![u] = @ - amount]
     /\ supply' = supply - amount
     /\ opened' = IF user_redeemable'[u] = 0 THEN opened \ {u} ELSE opened
     /\ UNCHANGED <<now, epoch_times>>

-----------------------------------------------------------------------------
(* The environment *)

Tick ==
  /\ now < MaxTime
  /\ now' = now + 1
  /\ UNCHANGED <<epoch_times, accounts>>

\* Other users of Jet refresh the reserve: interest accrues between the
\* vault's instructions too.
AccrueInterest ==
  /\ epoch_times # NoVault
  /\ jet' \in Refreshed(jet) \ {jet}
  /\ UNCHANGED <<now, epoch_times, user_usdc, opened, user_redeemable, supply, vault_usdc>>

Next ==
  \/ Tick
  \/ AccrueInterest
  \/ \E e \in Schedules : initialize_vault(e)
  \/ \E u \in Users :
       \/ initialize_user_redeemable_token_account(u)
       \/ \E usdc_amount \in Deposits :
            \/ deposit_vault(u, usdc_amount)
            \/ initialize_user_and_deposit(u, usdc_amount)
       \/ \E amount \in Redemptions : withdraw_vault(u, amount)

Spec == Init /\ [][Next]_vars

\* Time passes; nobody has to send an instruction.
FairSpec == Spec /\ WF_vars(Tick)

-----------------------------------------------------------------------------
(* Properties *)

\* What the vault is worth, in USDC units of RateUnit: its tokens and its
\* notes at their exchange rates, the ones parked in the deposit account
\* included, less its loan.
NetWorth ==
  vault_usdc * RateUnit
    + (jet.deposit_account + jet.collateral_account) * jet.deposit_rate
    - jet.loan_account * jet.loan_rate

\* The subtraction in usdc_equity (lib.rs:295) never goes below zero: the
\* vault's USDC and collateral notes always cover its loan notes.
EquityCovered == jet.loan_account <= vault_usdc + jet.collateral_account

\* A withdrawal never pays more than the proportional share of the vault's
\* worth, so those who stay are never diluted by those who leave, whatever
\* the holder, the loan and the rounding of usdc_fx_rate (lib.rs:294-299).
LeavingNeverDilutes ==
  [][supply' < supply => NetWorth' * supply >= NetWorth * supply']_vars

\* No step makes the vault's Jet position weaker: collateral in excess of
\* the loan never shrinks.  A withdrawal has to repay before it frees
\* collateral, by the same amount; a deposit posts more than it borrows.
PositionNeverWeakens ==
  [][jet'.collateral_account - jet'.loan_account
       >= jet.collateral_account - jet.loan_account]_vars

\* The u64 product in usdc_to_send_user (lib.rs:297) never wraps, for every
\* amount of the supply.
PayoutNeverWraps ==
  supply > 0 => \A amount \in 0 .. supply : amount * usdc_fx_rate < Word

\* The repayment a withdrawal computes, a number of tokens bounded by a
\* number of loan notes (lib.rs:299), is one Jet can always book whatever
\* interest its refresh adds: no more loan notes than are owed and no more
\* deposit notes than are posted.
RepaymentInRange ==
  supply > 0 =>
    \A amount \in Redemptions : \A j \in Refreshed(jet) :
      LET repaid == usdc_to_repay_jet(amount)
      IN /\ NotesRepaid(j, repaid) <= j.loan_account
         /\ DepositNotes(j, repaid) <= j.collateral_account

\* The deposit notes a withdrawal frees are never taken out of the deposit
\* account again: the Jet withdraw is commented out (lib.rs:364-381), and a
\* deposit posts as collateral exactly the notes it deposited.
ParkedNotesNeverMove ==
  [][jet'.deposit_account >= jet.deposit_account]_vars

\* A vault whose schedule initialize_vault accepts (lib.rs:471-492) does open
\* for deposits, as time passes: no phase check (lib.rs:494-505) shuts it out
\* for the whole of its epoch.
OpensForDeposits == <>(epoch_times # NoVault) => <>DepositWithdrawPhase

\* At constant exchange rates (MaxRate = RateUnit) the vault implements the
\* share pool: the Jet position behind it is invisible, up to its worth.
Pool == INSTANCE SharePool WITH
  Members <- Users,
  InitialCash <- InitialUsdc,
  phase <- IF epoch_times = NoVault THEN "before"
           ELSE IF now <= epoch_times.start_epoch THEN "before"
           ELSE IF now <= epoch_times.end_deposits THEN "open"
           ELSE "closed",
  cash <- user_usdc,
  shares <- user_redeemable,
  issued <- supply,
  pool <- vault_usdc + jet.deposit_account + jet.collateral_account
            - jet.loan_account

ImplementsPool == Pool!PoolSpec
=============================================================================
