---------------------------- MODULE VaultTxProofs ----------------------------
(***************************************************************************)
(* VaultTx implements Vault, for every value of the constants: what a      *)
(* transaction commits, one CPI after another, is one step of Vault.       *)
(*                                                                         *)
(* The invariant says, for each instruction and each value of pc, how the  *)
(* live accounts differ from the saved ones and which checks have passed.  *)
(***************************************************************************)
EXTENDS VaultTx, VaultPoolProofs

Running(name) == ~Idle /\ ix.name = name

\* The types of what VaultTx adds to Vault.
SavedOK ==
  /\ saved.user_usdc \in [Users -> U64]
  /\ saved.user_redeemable \in [Users -> U64]
  /\ saved.opened \subseteq Users
  /\ saved.supply \in U64 /\ saved.vault_usdc \in U64
  /\ saved.jet \in Position
  /\ saved.epoch_times \in Schedules \cup {NoVault}

AmountsOK == amounts \in [usdc_in : U64, to_send : U64, to_repay : Nat]

QueueOK ==
  /\ queue \in Transactions \cup {<<>>}
  /\ Idle => pc = 0

TxTypeOK == TypeOK /\ SavedOK /\ AmountsOK /\ QueueOK

-----------------------------------------------------------------------------
(* How far an instruction has come *)

CreationSoFar ==
  /\ pc \in 0 .. 6
  /\ user_usdc = saved.user_usdc /\ user_redeemable = saved.user_redeemable
  /\ opened = saved.opened
  /\ pc >= 1 => ValidEpochTimes(now, ix.times)
  /\ pc <= 1 => /\ epoch_times = saved.epoch_times
                /\ supply = saved.supply /\ vault_usdc = saved.vault_usdc
  /\ pc >= 2 => /\ saved.epoch_times = NoVault /\ epoch_times = ix.times
                /\ supply = 0 /\ vault_usdc = 0
  /\ jet = IF pc >= 3 THEN NewPosition ELSE saved.jet

OpeningSoFar ==
  /\ pc \in 0 .. 2
  /\ epoch_times = saved.epoch_times /\ user_usdc = saved.user_usdc
  /\ user_redeemable = saved.user_redeemable /\ supply = saved.supply
  /\ vault_usdc = saved.vault_usdc /\ jet = saved.jet
  /\ pc >= 1 => AsVault!DepositWithdrawPhase
  /\ pc <= 1 => opened = saved.opened
  /\ pc = 2 => ix.user \notin saved.opened /\ opened = saved.opened \cup {ix.user}

\* The position after the Jet CPIs of a deposit that come before step n.
DepositedSoFar(a, n) ==
  LET t == DepositTokens(a)
      c == CollateralTokens(a)
      b == BorrowTokens(a)
  IN \E j0 \in Refreshed(saved.jet) :
       LET j1 == Deposited(j0, t)
           j2 == CollateralDeposited(j1, c)
       IN /\ n >= 5 => CanDeposit(j0, t)
          /\ n >= 6 => CanDepositCollateral(j1, c)
          /\ n >= 7 => CanBorrow(j2, b)
          /\ jet = IF n = 4 THEN j0 ELSE IF n = 5 THEN j1
                   ELSE IF n = 6 THEN j2 ELSE Borrowed(j2, b)

DepositEntered(u, a) ==
  /\ AsVault!DepositWithdrawPhase
  /\ u \in opened
  /\ a <= saved.user_usdc[u]
  /\ saved.supply > 0 => saved.vault_usdc > 0
  /\ amounts.usdc_in = AsVault!redeemable_amount(a)
  /\ amounts.to_send = 0

DepositSoFar ==
  LET u == ix.user
      a == ix.amount
      paid == amounts.usdc_in
      left == saved.vault_usdc + paid - DepositTokens(a)
  IN /\ pc \in 0 .. 7
     /\ epoch_times = saved.epoch_times
     /\ opened = saved.opened \/ (u \notin saved.opened /\ opened = saved.opened \cup {u})
     /\ pc >= 1 => DepositEntered(u, a)
     /\ pc <= 1 => user_usdc = saved.user_usdc
     /\ pc >= 2 => /\ user_usdc = [saved.user_usdc EXCEPT ![u] = @ - paid]
                   /\ saved.user_usdc[u] - paid \in U64
                   /\ saved.vault_usdc + paid \in U64
     /\ pc <= 2 => supply = saved.supply /\ user_redeemable = saved.user_redeemable
     /\ pc >= 3 => /\ supply = saved.supply + a
                   /\ user_redeemable = [saved.user_redeemable EXCEPT ![u] = @ + a]
                   /\ saved.supply + a \in U64
                   /\ saved.user_redeemable[u] + a \in U64
     /\ pc <= 3 => jet = saved.jet
     /\ pc >= 4 => DepositedSoFar(a, pc)
     /\ pc >= 5 => left \in U64
     /\ vault_usdc = IF pc <= 1 THEN saved.vault_usdc
                     ELSE IF pc <= 4 THEN saved.vault_usdc + paid
                     ELSE IF pc <= 6 THEN left
                     ELSE left + BorrowTokens(a)

\* The position after the Jet CPIs of a withdrawal that come before step n.
RepaidSoFar(n) ==
  LET t == amounts.to_repay
  IN \E j0 \in Refreshed(saved.jet) :
       LET j1 == Repaid(j0, t)
       IN /\ n >= 3 => CanRepay(j0, t)
          /\ n >= 4 => CanWithdrawCollateral(j1, t)
          /\ jet = IF n = 2 THEN j0 ELSE IF n = 3 THEN j1
                   ELSE CollateralWithdrawn(j1, t)

WithdrawEntered(u, a) ==
  /\ AsVault!DepositWithdrawPhase
  /\ u \in saved.opened
  /\ a <= saved.user_redeemable[u]
  /\ saved.supply > 0
  /\ amounts.usdc_in = 0
  /\ amounts.to_send = AsVault!usdc_to_send_user(a)
  /\ amounts.to_repay = AsVault!usdc_to_repay_jet(a)

WithdrawSoFar ==
  LET u == ix.user
      a == ix.amount
      kept == saved.vault_usdc - amounts.to_repay
  IN /\ pc \in 0 .. 8
     /\ epoch_times = saved.epoch_times
     /\ pc >= 1 => WithdrawEntered(u, a)
     /\ pc <= 1 => jet = saved.jet
     /\ pc >= 2 => RepaidSoFar(pc)
     /\ pc >= 3 => kept \in U64
     /\ pc <= 4 => supply = saved.supply /\ user_redeemable = saved.user_redeemable
     /\ pc >= 5 => /\ a <= saved.supply
                   /\ supply = saved.supply - a
                   /\ user_redeemable = [saved.user_redeemable EXCEPT ![u] = @ - a]
     /\ pc <= 5 => user_usdc = saved.user_usdc
     /\ pc >= 6 => /\ user_usdc = [saved.user_usdc EXCEPT ![u] = @ + amounts.to_send]
                   /\ saved.user_usdc[u] + amounts.to_send \in U64
                   /\ kept - amounts.to_send \in U64
     /\ vault_usdc = IF pc <= 2 THEN saved.vault_usdc
                     ELSE IF pc <= 5 THEN kept ELSE kept - amounts.to_send
     /\ pc = 7 => cached = user_redeemable[u]
     /\ opened = IF pc = 8 /\ user_redeemable[u] = 0 THEN saved.opened \ {u}
                 ELSE saved.opened

SoFar ==
  /\ Running("initialize_vault") => CreationSoFar
  /\ Running("initialize_user") => OpeningSoFar
  /\ Running("deposit_vault") => DepositSoFar
  /\ Running("withdraw_vault") => WithdrawSoFar

TxInv == TxTypeOK /\ SoFar

-----------------------------------------------------------------------------
(* Transactions and steps *)

\* The instruction a transaction is at, its arguments, and what comes after.
LEMMA QueueParts ==
  ASSUME QueueOK, ~Idle
  PROVE  \/ \E e \in Schedules : ix = Creation(e) /\ Tail(queue) = <<>>
         \/ \E u \in Users :
              /\ ix = OpenAccount(u)
              /\ \/ Tail(queue) = <<>>
                 \/ \E a \in Deposits : Tail(queue) = <<Deposit(u, a)>>
         \/ \E u \in Users, a \in Deposits : ix = Deposit(u, a) /\ Tail(queue) = <<>>
         \/ \E u \in Users, a \in Redemptions : ix = Withdrawal(u, a) /\ Tail(queue) = <<>>
<1>1. queue \in Transactions
  BY DEF QueueOK, Idle
<1>2. CASE \E e \in Schedules : queue = <<Creation(e)>>
  BY <1>2 DEF ix
<1>3. CASE \E u \in Users : queue = <<OpenAccount(u)>>
  BY <1>3 DEF ix
<1>4. CASE \E u \in Users, a \in Deposits : queue = <<Deposit(u, a)>>
  BY <1>4 DEF ix
<1>5. CASE \E u \in Users, a \in Deposits : queue = <<OpenAccount(u), Deposit(u, a)>>
  BY <1>5 DEF ix
<1>6. CASE \E u \in Users, a \in Redemptions : queue = <<Withdrawal(u, a)>>
  BY <1>6 DEF ix
<1> QED  BY <1>1, <1>2, <1>3, <1>4, <1>5, <1>6 DEF Transactions

\* Which CPI is at which place of its handler.
LEMMA StepPlaces ==
  ASSUME pc \in Nat
  PROVE  /\ Doing("initialize_vault", "init") => pc = 1
         /\ Doing("initialize_vault", "init_obligation") => pc = 2
         /\ Doing("initialize_vault", "init_deposit_account") => pc = 3
         /\ Doing("initialize_vault", "init_collateral_account") => pc = 4
         /\ Doing("initialize_vault", "init_loan_account") => pc = 5
         /\ Doing("initialize_user", "init") => pc = 1
         /\ Doing("deposit_vault", "transfer") => pc = 1
         /\ Doing("deposit_vault", "mint_to") => pc = 2
         /\ Doing("deposit_vault", "refresh_reserve") => pc = 3
         /\ Doing("deposit_vault", "deposit") => pc = 4
         /\ Doing("deposit_vault", "deposit_collateral") => pc = 5
         /\ Doing("deposit_vault", "borrow") => pc = 6
         /\ Doing("withdraw_vault", "refresh_reserve") => pc = 1
         /\ Doing("withdraw_vault", "repay") => pc = 2
         /\ Doing("withdraw_vault", "withdraw_collateral") => pc = 3
         /\ Doing("withdraw_vault", "burn") => pc = 4
         /\ Doing("withdraw_vault", "transfer") => pc = 5
         /\ Doing("withdraw_vault", "reload") => pc = 6
         /\ Doing("withdraw_vault", "close_account") => pc = 7
BY DEF Doing, Steps, InitializeVaultSteps, InitializeUserSteps, DepositVaultSteps,
       WithdrawVaultSteps

LEMMA StepCounts ==
  /\ Running("initialize_vault") => Len(Steps(ix)) = 5
  /\ Running("initialize_user") => Len(Steps(ix)) = 1
  /\ Running("deposit_vault") => Len(Steps(ix)) = 6
  /\ Running("withdraw_vault") => Len(Steps(ix)) = 7
BY DEF Running, Steps, InitializeVaultSteps, InitializeUserSteps, DepositVaultSteps,
       WithdrawVaultSteps

\* An instruction is one of the four, with arguments of its own.
LEMMA Arguments ==
  ASSUME QueueOK, ~Idle
  PROVE  /\ ix.name \in {"initialize_vault", "initialize_user", "deposit_vault", "withdraw_vault"}
         /\ Running("initialize_vault") => ix.times \in Schedules
         /\ Running("initialize_user") => ix.user \in Users
         /\ Running("deposit_vault") => ix.user \in Users /\ ix.amount \in Deposits
         /\ Running("withdraw_vault") => ix.user \in Users /\ ix.amount \in Redemptions
BY QueueParts DEF Running, Creation, OpenAccount, Deposit, Withdrawal

\* While an instruction makes its CPIs the transaction and what it started
\* from stay what they are.
LEMMA SameInstruction ==
  ASSUME queue' = queue
  PROVE  /\ ix' = ix /\ Idle' = Idle
         /\ \A name \in STRING : Running(name)' = Running(name)
BY DEF ix, Idle, Running

-----------------------------------------------------------------------------
(* Types *)

LEMMA AmountTypes ==
  /\ \A a \in U64 : DepositTokens(a) \in Nat /\ CollateralTokens(a) = DepositTokens(a)
  /\ \A a \in U64 : BorrowTokens(a) \in Nat
<1> SUFFICES ASSUME NEW a \in U64
             PROVE  /\ DepositTokens(a) \in Nat /\ CollateralTokens(a) = DepositTokens(a)
                    /\ BorrowTokens(a) \in Nat
  OBVIOUS
<1>1. a \in Nat
  BY WordAssumption DEF U64
<1>2. Wrap(a * 90) \in Nat
  BY <1>1, WrapType, WordAssumption DEF U64
<1> QED  BY <1>1, <1>2, Quotient DEF DepositTokens, CollateralTokens, BorrowTokens

LEMMA InitTxTypes == TxInit => TxTypeOK
<1> SUFFICES ASSUME TxInit PROVE TxTypeOK
  OBVIOUS
<1>1. TypeOK
  BY InitTypeOK DEF TxInit
<1>2. 0 \in U64 /\ 0 \in Nat
  BY WordAssumption DEF U64
<1> QED  BY <1>1, <1>2
         DEF TxInit, Snapshot, TypeOK, TxTypeOK, SavedOK, AmountsOK, NoAmounts, QueueOK, Idle

LEMMA EnterTypes ==
  ASSUME TxTypeOK, Enter
  PROVE  TxTypeOK'
<1>1. UNCHANGED <<vars, queue, saved>> /\ pc' = 1 /\ ~Idle
  BY DEF Enter
<1>2. TypeOK' /\ SavedOK' /\ QueueOK'
  BY <1>1 DEF TxTypeOK, TypeOK, SavedOK, QueueOK, Idle, vars, accounts
<1>3. NoAmounts \in [usdc_in : U64, to_send : U64, to_repay : Nat]
  BY WordAssumption DEF NoAmounts, U64
<1>4. CASE ix.name = "deposit_vault"
  <2>1. redeemable_amount(ix.amount) \in U64
    BY <1>1, <1>4, Arguments, DepositAmountTypes, VaultAssumption DEF Enter, TxTypeOK, Running
  <2> QED  BY <1>2, <1>3, <1>4, <2>1 DEF Enter, AmountsOK, TxTypeOK
<1>5. CASE ix.name = "withdraw_vault"
  <2>1. ix.amount \in Redemptions /\ ix.amount \in Nat /\ supply > 0 /\ TypeOK
    BY <1>1, <1>5, Arguments, VaultAssumption, WordAssumption
       DEF Enter, TxTypeOK, Running, U64
  <2>2. usdc_to_repay_jet(ix.amount) \in Nat
    BY <2>1, RepaymentBounds
  <2>3. usdc_fx_rate \in Nat
    <3>1. usdc_equity \in Nat /\ supply \in Nat \ {0}
      <4>1. vault_usdc + jet.collateral_account - jet.loan_account \in Int
        BY <2>1, PositionParts, WordAssumption DEF TypeOK, U64
      <4> QED  BY <2>1, <4>1, WrapType, WordAssumption DEF usdc_equity, TypeOK, U64
    <3> QED  BY <3>1, Quotient DEF usdc_fx_rate
  <2>4. usdc_to_send_user(ix.amount) \in U64
    <3>1. ix.amount * usdc_fx_rate \in Int
      BY <2>1, <2>3
    <3> QED  BY <3>1, WrapType DEF usdc_to_send_user
  <2> QED  BY <1>2, <1>3, <1>5, <2>2, <2>4 DEF Enter, AmountsOK, TxTypeOK
<1>6. CASE ix.name \notin {"deposit_vault", "withdraw_vault"}
  BY <1>2, <1>3, <1>6 DEF Enter, AmountsOK, TxTypeOK
<1> QED  BY <1>4, <1>5, <1>6

\* What a CPI leaves of the types to show: the accounts it writes.
LEMMA CpiFrame ==
  ASSUME TxTypeOK, Cpi
  PROVE  /\ ~Idle /\ now' = now /\ queue' = queue /\ amounts' = amounts /\ saved' = saved
         /\ pc' = pc + 1
         /\ SavedOK' /\ AmountsOK' /\ QueueOK'
<1>1. ~Idle /\ now' = now /\ queue' = queue /\ amounts' = amounts /\ saved' = saved
      /\ pc' = pc + 1
  BY DEF Cpi, InitVaultAccounts, InitObligation, InitNoteAccount, InitUserAccount, Transfer, MintTo, Burn,
         RefreshReserve, JetDeposit, JetDepositCollateral, JetBorrow, JetRepay,
         JetWithdrawCollateral, JetStep, Reload, CloseAccount, Advance, Doing
<1> QED  BY <1>1 DEF TxTypeOK, SavedOK, AmountsOK, QueueOK, Idle

\* A CPI into Jet keeps the types if Jet answers with a position.
LEMMA JetStepTypes ==
  ASSUME TypeOK, NEW name, NEW step, NEW allowed, NEW position, NEW tokens,
         JetStep(name, step, allowed, position, tokens),
         position \in Position
  PROVE  TypeOK'
BY DEF JetStep, Advance, TypeOK

LEMMA CpiTypes ==
  ASSUME TxTypeOK, Cpi
  PROVE  TxTypeOK'
<1> SUFFICES TypeOK'
  BY CpiFrame DEF TxTypeOK
<1>1. TypeOK /\ amounts.to_repay \in Nat /\ amounts.usdc_in \in Int /\ amounts.to_send \in Int
      /\ jet \in Position
  BY WordAssumption DEF TxTypeOK, AmountsOK, TypeOK, U64
<1>2. /\ Running("initialize_vault") => ix.times \in Schedules
      /\ Running("initialize_user") => ix.user \in Users
      /\ Running("deposit_vault") => ix.user \in Users /\ ix.amount \in U64
      /\ Running("withdraw_vault") => ix.user \in Users /\ ix.amount \in U64
  BY CpiFrame, Arguments, VaultAssumption DEF TxTypeOK
<1>3. CASE InitVaultAccounts
  BY <1>1, <1>2, <1>3, WordAssumption
     DEF InitVaultAccounts, Advance, Doing, Running, TypeOK, U64
<1>4. CASE InitObligation \/ InitNoteAccount
  <2>1. NewPosition \in Position
    BY RateAssumption, WordAssumption DEF NewPosition, Position, Rates, U64
  <2>2. jet' \in Position
    BY <1>1, <1>4, <2>1, WordAssumption DEF InitObligation, InitNoteAccount, Position, U64
  <2> QED  BY <1>1, <1>4, <2>2 DEF InitObligation, InitNoteAccount, Advance, TypeOK
<1>5. CASE InitUserAccount
  BY <1>1, <1>2, <1>5 DEF InitUserAccount, Advance, Doing, Running, TypeOK
<1>6. CASE Transfer
  BY <1>1, <1>2, <1>6 DEF Transfer, Advance, Doing, Running, TypeOK
<1>7. CASE MintTo
  BY <1>1, <1>2, <1>7 DEF MintTo, Advance, Doing, Running, TypeOK
<1>8. CASE Burn
  BY <1>1, <1>2, <1>8, WordAssumption DEF Burn, Advance, Doing, Running, TypeOK, U64
<1>9. CASE RefreshReserve
  BY <1>1, <1>9, RefreshedParts DEF RefreshReserve, Advance, TypeOK
<1>10. CASE JetDeposit
  <2>1. DepositTokens(ix.amount) \in Nat
    BY <1>2, <1>10, AmountTypes DEF JetDeposit, JetStep, Doing, Running
  <2> QED  BY <1>1, <1>10, <2>1, DepositedParts, JetStepTypes DEF JetDeposit, JetStep
<1>11. CASE JetDepositCollateral
  <2>1. CollateralTokens(ix.amount) \in Nat
    BY <1>2, <1>11, AmountTypes DEF JetDepositCollateral, JetStep, Doing, Running
  <2> QED  BY <1>1, <1>11, <2>1, CollateralDepositedParts, JetStepTypes
           DEF JetDepositCollateral, JetStep
<1>12. CASE JetBorrow
  <2>1. BorrowTokens(ix.amount) \in Nat
    BY <1>2, <1>12, AmountTypes DEF JetBorrow, JetStep, Doing, Running
  <2> QED  BY <1>1, <1>12, <2>1, BorrowedParts, JetStepTypes DEF JetBorrow, JetStep
<1>13. CASE JetRepay
  BY <1>1, <1>13, RepaidParts, JetStepTypes DEF JetRepay, JetStep
<1>14. CASE JetWithdrawCollateral
  BY <1>1, <1>14, CollateralWithdrawnParts, JetStepTypes DEF JetWithdrawCollateral, JetStep
<1>15. CASE Reload
  BY <1>1, <1>15 DEF Reload, Advance, TypeOK, accounts
<1>16. CASE CloseAccount
  BY <1>1, <1>2, <1>16 DEF CloseAccount, Advance, Doing, Running, TypeOK
<1> QED  BY <1>3, <1>4, <1>5, <1>6, <1>7, <1>8, <1>9, <1>10, <1>11, <1>12, <1>13, <1>14,
             <1>15, <1>16 DEF Cpi

\* The values Snapshot records.
LEMMA SnapshotParts ==
  /\ Snapshot.epoch_times = epoch_times /\ Snapshot.user_usdc = user_usdc
  /\ Snapshot.opened = opened /\ Snapshot.user_redeemable = user_redeemable
  /\ Snapshot.supply = supply /\ Snapshot.vault_usdc = vault_usdc
  /\ Snapshot.jet = jet
BY DEF Snapshot

LEMMA NextTxTypes ==
  ASSUME TxTypeOK, [TxNext]_allVars
  PROVE  TxTypeOK'
<1>1. NoAmounts \in [usdc_in : U64, to_send : U64, to_repay : Nat]
  BY WordAssumption DEF NoAmounts, U64
<1>2. CASE Idle /\ (Tick \/ AccrueInterest) /\ UNCHANGED txVars
  <2>1. TypeOK'
    BY <1>2, NextTypeOK DEF TxTypeOK, Next
  <2> QED  BY <1>2, <2>1 DEF TxTypeOK, SavedOK, AmountsOK, QueueOK, Idle, txVars
<1>3. ASSUME NEW transaction \in Transactions, Submit(transaction)
      PROVE  TxTypeOK'
  <2>1. TypeOK' /\ AmountsOK'
    BY <1>3 DEF Submit, TxTypeOK, TypeOK, AmountsOK, vars, accounts
  <2>2. QueueOK'
    BY <1>3 DEF Submit, TxTypeOK, QueueOK, Idle
  <2>3. SavedOK'
    <3>1. saved' = Snapshot
      BY <1>3 DEF Submit
    <3> QED  BY <3>1, SnapshotParts DEF SavedOK, TxTypeOK, TypeOK
  <2> QED  BY <2>1, <2>2, <2>3 DEF TxTypeOK
<1>4. CASE Enter
  BY <1>4, EnterTypes
<1>5. CASE Cpi
  BY <1>5, CpiTypes
<1>6. CASE Return
  <2>1. TypeOK' /\ AmountsOK'
    BY <1>1, <1>6 DEF Return, TxTypeOK, TypeOK, AmountsOK, vars, accounts
  <2>2. QueueOK'
    <3>1. Tail(queue) \in Transactions \cup {<<>>}
      BY <1>6, QueueParts DEF Return, TxTypeOK, Transactions
    <3> QED  BY <1>6, <3>1 DEF Return, QueueOK
  <2>3. SavedOK'
    <3>1. saved' = Snapshot \/ saved' = saved
      BY <1>6 DEF Return
    <3> QED  BY <3>1, SnapshotParts DEF SavedOK, TxTypeOK, TypeOK
  <2> QED  BY <2>1, <2>2, <2>3 DEF TxTypeOK
<1>7. CASE Abort
  BY <1>1, <1>7 DEF Abort, TxTypeOK, TypeOK, SavedOK, AmountsOK, QueueOK, Idle
<1>8. CASE UNCHANGED allVars
  BY <1>8 DEF allVars, txVars, vars, accounts, TxTypeOK, TypeOK, SavedOK, AmountsOK, QueueOK, Idle
<1> QED  BY <1>2, <1>3, <1>4, <1>5, <1>6, <1>7, <1>8 DEF TxNext, Execute

-----------------------------------------------------------------------------
(* How far an instruction comes with each step *)

\* A step inside an instruction has only that instruction to account for.
LEMMA SoFarOf ==
  ASSUME queue' = queue,
         Running("initialize_vault") => CreationSoFar',
         Running("initialize_user") => OpeningSoFar',
         Running("deposit_vault") => DepositSoFar',
         Running("withdraw_vault") => WithdrawSoFar'
  PROVE  SoFar'
<1>1. /\ Running("initialize_vault")' = Running("initialize_vault")
      /\ Running("initialize_user")' = Running("initialize_user")
      /\ Running("deposit_vault")' = Running("deposit_vault")
      /\ Running("withdraw_vault")' = Running("withdraw_vault")
  BY DEF Running, Idle, ix
<1> QED  BY <1>1 DEF SoFar

\* On entry the live accounts are the saved ones, but for an account that an
\* earlier instruction of the transaction opened.
LEMMA EnterSoFar ==
  ASSUME TxTypeOK, SoFar, Enter
  PROVE  SoFar'
<1>1. /\ ~Idle /\ pc = 0 /\ pc' = 1 /\ queue' = queue /\ saved' = saved
      /\ epoch_times' = epoch_times /\ user_usdc' = user_usdc /\ opened' = opened
      /\ user_redeemable' = user_redeemable /\ supply' = supply
      /\ vault_usdc' = vault_usdc /\ jet' = jet /\ now' = now
      /\ ix' = ix /\ Idle' = Idle /\ Committed = saved /\ Committed' = saved
  BY SameInstruction DEF Enter, vars, accounts, Committed, Idle
<1>2. ASSUME Running("initialize_vault") PROVE CreationSoFar'
  <2>1. CreationSoFar
    BY <1>2 DEF SoFar
  <2>2. ValidEpochTimes(now, ix.times)
    BY <1>2 DEF Enter, Running
  <2> QED  BY <1>1, <2>1, <2>2 DEF CreationSoFar, ValidEpochTimes
<1>3. ASSUME Running("initialize_user") PROVE OpeningSoFar'
  <2>1. OpeningSoFar
    BY <1>3 DEF SoFar
  <2>2. DepositWithdrawPhase
    BY <1>3 DEF Enter, Running
  <2>3. (AsVault!DepositWithdrawPhase)'
    BY <1>1, <2>1, <2>2 DEF DepositWithdrawPhase, AsVault!DepositWithdrawPhase, OpeningSoFar
  <2> QED  BY <1>1, <2>1, <2>3 DEF OpeningSoFar
<1>4. ASSUME Running("deposit_vault") PROVE DepositSoFar'
  <2>1. DepositSoFar
    BY <1>4 DEF SoFar
  <2>2. /\ DepositWithdrawPhase /\ ix.user \in opened
        /\ ix.amount <= user_usdc[ix.user]
        /\ supply > 0 => vault_usdc > 0
        /\ amounts' = [NoAmounts EXCEPT !.usdc_in = redeemable_amount(ix.amount)]
    BY <1>4 DEF Enter, Running
  <2>3. amounts'.usdc_in = redeemable_amount(ix.amount) /\ amounts'.to_send = 0
    BY <2>2 DEF NoAmounts
  <2>4. DepositEntered(ix.user, ix.amount)'
    <3>1. (AsVault!DepositWithdrawPhase)'
      BY <1>1, <2>1, <2>2 DEF DepositWithdrawPhase, AsVault!DepositWithdrawPhase, DepositSoFar
    <3>2. AsVault!redeemable_amount(ix.amount)' = redeemable_amount(ix.amount)
      BY <1>1, <2>1 DEF redeemable_amount, AsVault!redeemable_amount, Wrap, AsVault!Wrap,
                        DepositSoFar
    <3> QED  BY <1>1, <2>1, <2>2, <2>3, <3>1, <3>2 DEF DepositEntered, DepositSoFar
  <2> QED  BY <1>1, <2>1, <2>4 DEF DepositSoFar
<1>5. ASSUME Running("withdraw_vault") PROVE WithdrawSoFar'
  <2>1. WithdrawSoFar
    BY <1>5 DEF SoFar
  <2>2. /\ DepositWithdrawPhase /\ ix.user \in opened
        /\ ix.amount <= user_redeemable[ix.user] /\ supply > 0
        /\ amounts' = [NoAmounts EXCEPT !.to_send = usdc_to_send_user(ix.amount),
                                        !.to_repay = usdc_to_repay_jet(ix.amount)]
    BY <1>5 DEF Enter, Running, HasRedeemable
  <2>3. /\ amounts'.usdc_in = 0 /\ amounts'.to_send = usdc_to_send_user(ix.amount)
        /\ amounts'.to_repay = usdc_to_repay_jet(ix.amount)
    BY <2>2 DEF NoAmounts
  <2>4. WithdrawEntered(ix.user, ix.amount)'
    <3>1. (AsVault!DepositWithdrawPhase)'
      BY <1>1, <2>1, <2>2 DEF DepositWithdrawPhase, AsVault!DepositWithdrawPhase, WithdrawSoFar
    <3>2. AsVault!usdc_to_send_user(ix.amount)' = usdc_to_send_user(ix.amount)
      BY <1>1, <2>1 DEF usdc_to_send_user, usdc_fx_rate, usdc_equity, Wrap,
                        AsVault!usdc_to_send_user, AsVault!usdc_fx_rate, AsVault!usdc_equity,
                        AsVault!Wrap, WithdrawSoFar
    <3>3. AsVault!usdc_to_repay_jet(ix.amount)' = usdc_to_repay_jet(ix.amount)
      BY <1>1, <2>1, <3>2 DEF usdc_to_repay_jet, Smaller, AsVault!usdc_to_repay_jet,
                        AsVault!Smaller, WithdrawSoFar
    <3> QED  BY <1>1, <2>1, <2>2, <2>3, <3>1, <3>2, <3>3 DEF WithdrawEntered, WithdrawSoFar
  <2> QED  BY <1>1, <2>1, <2>4 DEF WithdrawSoFar
<1> QED  BY <1>1, <1>2, <1>3, <1>4, <1>5, SoFarOf


\* The accounts of initialize_vault are new and empty.
\* The note accounts of a position that has just been opened are empty, and
\* opening them changes nothing else of it.
LEMMA NoteAccountsStartEmpty ==
  ASSUME SoFar, InitNoteAccount
  PROVE  pc \in 3 .. 5 /\ jet = NewPosition /\ jet' = NewPosition
<1>1. CreationSoFar /\ pc \in Nat
  BY DEF SoFar, InitNoteAccount, Doing, Running, CreationSoFar
<1>2. pc \in 3 .. 5
  BY <1>1, StepPlaces DEF InitNoteAccount
<1>3. jet = NewPosition
  BY <1>1, <1>2 DEF CreationSoFar
<1>4. jet' = NewPosition
  BY <1>3 DEF InitNoteAccount, NewPosition
<1> QED  BY <1>2, <1>3, <1>4

LEMMA CreationCpis ==
  ASSUME TxTypeOK, SoFar, Cpi, Running("initialize_vault")
  PROVE  CreationSoFar'
<1>1. CreationSoFar /\ now' = now /\ saved' = saved /\ ix' = ix /\ pc' = pc + 1
  BY CpiFrame, SameInstruction DEF SoFar
<1>2. InitVaultAccounts \/ InitObligation \/ InitNoteAccount
  BY DEF Cpi, InitUserAccount, Transfer, MintTo, Burn, RefreshReserve, JetDeposit,
         JetDepositCollateral, JetBorrow, JetRepay, JetWithdrawCollateral, JetStep, Reload,
         CloseAccount, Doing, Running
<1>3. CASE InitVaultAccounts
  <2>1. pc = 1
    BY <1>1, <1>3, StepPlaces DEF InitVaultAccounts, CreationSoFar
  <2>2. /\ epoch_times = NoVault /\ epoch_times' = ix.times /\ supply' = 0 /\ vault_usdc' = 0
        /\ user_usdc' = user_usdc /\ opened' = opened
        /\ user_redeemable' = user_redeemable /\ jet' = jet
    BY <1>3 DEF InitVaultAccounts
  <2> QED  BY <1>1, <2>1, <2>2 DEF CreationSoFar, ValidEpochTimes
<1>4. CASE InitObligation
  <2>1. pc = 2
    BY <1>1, <1>4, StepPlaces DEF InitObligation, CreationSoFar
  <2>2. /\ epoch_times' = epoch_times /\ supply' = supply /\ vault_usdc' = vault_usdc
        /\ user_usdc' = user_usdc /\ opened' = opened
        /\ user_redeemable' = user_redeemable /\ jet' = NewPosition
    BY <1>4 DEF InitObligation
  <2> QED  BY <1>1, <2>1, <2>2 DEF CreationSoFar, ValidEpochTimes
<1>5. CASE InitNoteAccount
  <2>1. pc \in 3 .. 5 /\ jet' = NewPosition
    BY <1>5, NoteAccountsStartEmpty
  <2>2. /\ epoch_times' = epoch_times /\ supply' = supply /\ vault_usdc' = vault_usdc
        /\ user_usdc' = user_usdc /\ opened' = opened
        /\ user_redeemable' = user_redeemable
    BY <1>5 DEF InitNoteAccount
  <2> QED  BY <1>1, <2>1, <2>2 DEF CreationSoFar, ValidEpochTimes
<1> QED  BY <1>2, <1>3, <1>4, <1>5

LEMMA OpeningCpis ==
  ASSUME TxTypeOK, SoFar, Cpi, Running("initialize_user")
  PROVE  OpeningSoFar'
<1>1. /\ OpeningSoFar /\ now' = now /\ saved' = saved /\ ix' = ix /\ pc' = pc + 1
      /\ Committed = saved /\ Committed' = saved
  BY CpiFrame, SameInstruction DEF SoFar, Committed, Idle
<1>2. InitUserAccount
  BY DEF Cpi, InitVaultAccounts, InitObligation, InitNoteAccount, Transfer, MintTo, Burn, RefreshReserve,
         JetDeposit, JetDepositCollateral, JetBorrow, JetRepay, JetWithdrawCollateral, JetStep,
         Reload, CloseAccount, Doing, Running
<1>3. pc = 1
  BY <1>1, <1>2, StepPlaces DEF InitUserAccount, OpeningSoFar
<1>4. /\ ix.user \notin opened /\ opened' = opened \cup {ix.user}
      /\ epoch_times' = epoch_times /\ supply' = supply /\ vault_usdc' = vault_usdc
      /\ user_usdc' = user_usdc /\ user_redeemable' = user_redeemable /\ jet' = jet
  BY <1>2 DEF InitUserAccount
<1>5. (AsVault!DepositWithdrawPhase)'
  BY <1>1, <1>3 DEF AsVault!DepositWithdrawPhase, OpeningSoFar
<1> QED  BY <1>1, <1>3, <1>4, <1>5 DEF OpeningSoFar

\* A CPI of a deposit is one of the six, at its place.
LEMMA DepositPlaces ==
  ASSUME Cpi, Running("deposit_vault"), pc \in Nat
  PROVE  \/ Transfer /\ pc = 1
         \/ MintTo /\ pc = 2
         \/ RefreshReserve /\ pc = 3
         \/ JetDeposit /\ pc = 4
         \/ JetDepositCollateral /\ pc = 5
         \/ JetBorrow /\ pc = 6
BY StepPlaces
   DEF Cpi, InitVaultAccounts, InitObligation, InitNoteAccount, InitUserAccount, Transfer, MintTo, Burn,
       RefreshReserve, JetDeposit, JetDepositCollateral, JetBorrow, JetRepay,
       JetWithdrawCollateral, JetStep, Reload, CloseAccount, Doing, Running

LEMMA WithdrawPlaces ==
  ASSUME Cpi, Running("withdraw_vault"), pc \in Nat
  PROVE  \/ RefreshReserve /\ pc = 1
         \/ JetRepay /\ pc = 2
         \/ JetWithdrawCollateral /\ pc = 3
         \/ Burn /\ pc = 4
         \/ Transfer /\ pc = 5
         \/ Reload /\ pc = 6
         \/ CloseAccount /\ pc = 7
BY StepPlaces
   DEF Cpi, InitVaultAccounts, InitObligation, InitNoteAccount, InitUserAccount, Transfer, MintTo, Burn,
       RefreshReserve, JetDeposit, JetDepositCollateral, JetBorrow, JetRepay,
       JetWithdrawCollateral, JetStep, Reload, CloseAccount, Doing, Running


LEMMA DepositCpis ==
  ASSUME TxTypeOK, SoFar, Cpi, Running("deposit_vault")
  PROVE  DepositSoFar'
<1> DEFINE u == ix.user
<1> DEFINE a == ix.amount
<1> DEFINE paid == amounts.usdc_in
<1> DEFINE t == DepositTokens(a)
<1> DEFINE left == saved.vault_usdc + paid - t
<1>1. /\ DepositSoFar /\ now' = now /\ saved' = saved /\ amounts' = amounts /\ ix' = ix
      /\ pc' = pc + 1 /\ Committed = saved /\ Committed' = saved /\ pc \in 0 .. 7
  BY CpiFrame, SameInstruction DEF SoFar, Committed, Idle, DepositSoFar
<1>2. /\ u \in Users /\ a \in U64 /\ t \in Nat /\ CollateralTokens(a) = t
      /\ BorrowTokens(a) \in Nat /\ paid \in Int /\ saved.vault_usdc \in Int
  <2>1. ~Idle /\ QueueOK
    BY DEF Running, TxTypeOK
  <2>2. u \in Users /\ a \in U64
    BY <2>1, Arguments, VaultAssumption
  <2> QED  BY <2>2, AmountTypes, WordAssumption DEF TxTypeOK, AmountsOK, SavedOK, U64
<1>3. CASE Transfer /\ pc = 1
  <2>1. /\ user_usdc[u] - (paid - amounts.to_send) \in U64
        /\ vault_usdc + (paid - amounts.to_send) \in U64
        /\ user_usdc' = [user_usdc EXCEPT ![u] = @ - (paid - amounts.to_send)]
        /\ vault_usdc' = vault_usdc + (paid - amounts.to_send)
        /\ epoch_times' = epoch_times /\ opened' = opened /\ supply' = supply
        /\ user_redeemable' = user_redeemable /\ jet' = jet
    BY <1>3 DEF Transfer
  <2>2. DepositEntered(u, a) /\ amounts.to_send = 0 /\ paid - amounts.to_send = paid
    BY <1>1, <1>2, <1>3 DEF DepositSoFar, DepositEntered
  <2>3. DepositEntered(u, a)'
    BY <1>1, <2>1, <2>2 DEF DepositEntered, AsVault!DepositWithdrawPhase,
                            AsVault!redeemable_amount, AsVault!Wrap
  <2>4. user_usdc = saved.user_usdc /\ vault_usdc = saved.vault_usdc
        /\ supply = saved.supply /\ user_redeemable = saved.user_redeemable /\ jet = saved.jet
    BY <1>1, <1>3 DEF DepositSoFar
  <2>5. /\ user_usdc' = [saved.user_usdc EXCEPT ![u] = @ - paid]
        /\ saved.user_usdc[u] - paid \in U64
        /\ vault_usdc' = saved.vault_usdc + paid /\ saved.vault_usdc + paid \in U64
    BY <2>1, <2>2, <2>4
  <2> QED  BY <1>1, <1>3, <2>1, <2>3, <2>4, <2>5 DEF DepositSoFar
<1>4. CASE MintTo /\ pc = 2
  <2>1. /\ supply + a \in U64 /\ user_redeemable[u] + a \in U64
        /\ supply' = supply + a
        /\ user_redeemable' = [user_redeemable EXCEPT ![u] = @ + a]
        /\ epoch_times' = epoch_times /\ opened' = opened /\ user_usdc' = user_usdc
        /\ vault_usdc' = vault_usdc /\ jet' = jet
    BY <1>4 DEF MintTo
  <2>2. DepositEntered(u, a)'
    BY <1>1, <1>4, <2>1 DEF DepositSoFar, DepositEntered, AsVault!DepositWithdrawPhase,
                            AsVault!redeemable_amount, AsVault!Wrap
  <2>3. supply = saved.supply /\ user_redeemable = saved.user_redeemable
    BY <1>1, <1>4 DEF DepositSoFar
  <2>4. /\ supply' = saved.supply + a /\ saved.supply + a \in U64
        /\ user_redeemable' = [saved.user_redeemable EXCEPT ![u] = @ + a]
        /\ saved.user_redeemable[u] + a \in U64
    BY <2>1, <2>3
  <2>5. /\ epoch_times' = saved.epoch_times /\ jet' = saved.jet
        /\ opened' = saved.opened \/ (u \notin saved.opened /\ opened' = saved.opened \cup {u})
        /\ user_usdc' = [saved.user_usdc EXCEPT ![u] = @ - paid]
        /\ saved.user_usdc[u] - paid \in U64
        /\ vault_usdc' = saved.vault_usdc + paid /\ saved.vault_usdc + paid \in U64
    BY <1>1, <1>4, <2>1 DEF DepositSoFar
  <2> QED  BY <1>1, <1>4, <2>2, <2>4, <2>5 DEF DepositSoFar
<1>5. CASE RefreshReserve /\ pc = 3
  <2>1. /\ jet' \in Refreshed(jet)
        /\ epoch_times' = epoch_times /\ opened' = opened /\ user_usdc' = user_usdc
        /\ vault_usdc' = vault_usdc /\ supply' = supply /\ user_redeemable' = user_redeemable
    BY <1>5 DEF RefreshReserve
  <2>2. DepositEntered(u, a)'
    BY <1>1, <1>5, <2>1 DEF DepositSoFar, DepositEntered, AsVault!DepositWithdrawPhase,
                            AsVault!redeemable_amount, AsVault!Wrap
  <2>3. DepositedSoFar(a, pc)'
    BY <1>1, <1>5, <2>1 DEF DepositSoFar, DepositedSoFar
  <2> QED  BY <1>1, <1>5, <2>1, <2>2, <2>3 DEF DepositSoFar
<1>6. ASSUME pc >= 4, opened' = opened PROVE DepositEntered(u, a)'
  BY <1>1, <1>6 DEF DepositSoFar, DepositEntered, AsVault!DepositWithdrawPhase,
                    AsVault!redeemable_amount, AsVault!Wrap
<1>7. CASE JetDeposit /\ pc = 4
  <2>1. /\ CanDeposit(jet, t) /\ vault_usdc + (-t) \in U64 /\ jet' = Deposited(jet, t)
        /\ vault_usdc' = vault_usdc + (-t)
        /\ epoch_times' = epoch_times /\ opened' = opened /\ user_usdc' = user_usdc
        /\ supply' = supply /\ user_redeemable' = user_redeemable
    BY <1>7 DEF JetDeposit, JetStep
  <2>2. DepositedSoFar(a, pc)'
    <3>1. jet \in Refreshed(saved.jet)
      BY <1>1, <1>7 DEF DepositSoFar, DepositedSoFar
    <3> QED  BY <1>1, <1>7, <2>1, <3>1 DEF DepositedSoFar
  <2>3. vault_usdc' = left /\ left \in U64
    BY <1>1, <1>2, <1>7, <2>1 DEF DepositSoFar
  <2> QED  BY <1>1, <1>6, <1>7, <2>1, <2>2, <2>3 DEF DepositSoFar
<1>8. CASE JetDepositCollateral /\ pc = 5
  <2>1. /\ CanDepositCollateral(jet, t) /\ jet' = CollateralDeposited(jet, t)
        /\ vault_usdc' = vault_usdc + 0
        /\ epoch_times' = epoch_times /\ opened' = opened /\ user_usdc' = user_usdc
        /\ supply' = supply /\ user_redeemable' = user_redeemable
    BY <1>2, <1>8 DEF JetDepositCollateral, JetStep
  <2>2. DepositedSoFar(a, pc)'
    <3>1. PICK j0 \in Refreshed(saved.jet) : CanDeposit(j0, t) /\ jet = Deposited(j0, t)
      BY <1>1, <1>8 DEF DepositSoFar, DepositedSoFar
    <3> QED  BY <1>1, <1>2, <1>8, <2>1, <3>1 DEF DepositedSoFar
  <2>3. vault_usdc' = left
    BY <1>1, <1>2, <1>8, <2>1 DEF DepositSoFar
  <2> QED  BY <1>1, <1>6, <1>8, <2>1, <2>2, <2>3 DEF DepositSoFar
<1>9. CASE JetBorrow /\ pc = 6
  <2>1. /\ CanBorrow(jet, BorrowTokens(a)) /\ jet' = Borrowed(jet, BorrowTokens(a))
        /\ vault_usdc' = vault_usdc + BorrowTokens(a)
        /\ epoch_times' = epoch_times /\ opened' = opened /\ user_usdc' = user_usdc
        /\ supply' = supply /\ user_redeemable' = user_redeemable
    BY <1>9 DEF JetBorrow, JetStep
  <2>2. DepositedSoFar(a, pc)'
    <3>1. PICK j0 \in Refreshed(saved.jet) :
            /\ CanDeposit(j0, t)
            /\ CanDepositCollateral(Deposited(j0, t), t)
            /\ jet = CollateralDeposited(Deposited(j0, t), t)
      BY <1>1, <1>2, <1>9 DEF DepositSoFar, DepositedSoFar
    <3> QED  BY <1>1, <1>2, <1>9, <2>1, <3>1 DEF DepositedSoFar
  <2>3. vault_usdc' = left + BorrowTokens(a)
    BY <1>1, <1>2, <1>9, <2>1 DEF DepositSoFar
  <2> QED  BY <1>1, <1>6, <1>9, <2>1, <2>2, <2>3 DEF DepositSoFar
<1> QED  BY <1>1, <1>3, <1>4, <1>5, <1>7, <1>8, <1>9, DepositPlaces


LEMMA WithdrawCpis ==
  ASSUME TxTypeOK, SoFar, Cpi, Running("withdraw_vault")
  PROVE  WithdrawSoFar'
<1> DEFINE u == ix.user
<1> DEFINE a == ix.amount
<1> DEFINE sent == amounts.to_send
<1> DEFINE t == amounts.to_repay
<1> DEFINE kept == saved.vault_usdc - t
<1>1. /\ WithdrawSoFar /\ now' = now /\ saved' = saved /\ amounts' = amounts /\ ix' = ix
      /\ pc' = pc + 1 /\ Committed = saved /\ Committed' = saved /\ pc \in 0 .. 8
      /\ u \in Users
  <2>1. u \in Users
    BY Arguments DEF Running, TxTypeOK
  <2> QED  BY <2>1, CpiFrame, SameInstruction DEF SoFar, Committed, Idle, WithdrawSoFar
<1>2. /\ sent \in Int /\ t \in Int /\ a \in Int /\ saved.vault_usdc \in Int
  <2>1. a \in U64
    BY Arguments, VaultAssumption DEF Running, TxTypeOK
  <2> QED  BY <2>1, WordAssumption DEF TxTypeOK, AmountsOK, SavedOK, U64
<1>3. pc >= 1 => WithdrawEntered(u, a)'
  BY <1>1 DEF WithdrawSoFar, WithdrawEntered, AsVault!DepositWithdrawPhase,
              AsVault!usdc_to_send_user, AsVault!usdc_to_repay_jet, AsVault!usdc_fx_rate,
              AsVault!usdc_equity, AsVault!Smaller, AsVault!Wrap
<1>4. CASE RefreshReserve /\ pc = 1
  <2>1. /\ jet' \in Refreshed(jet)
        /\ epoch_times' = epoch_times /\ opened' = opened /\ user_usdc' = user_usdc
        /\ vault_usdc' = vault_usdc /\ supply' = supply /\ user_redeemable' = user_redeemable
    BY <1>4 DEF RefreshReserve
  <2>2. RepaidSoFar(pc)'
    BY <1>1, <1>4, <2>1 DEF WithdrawSoFar, RepaidSoFar
  <2> QED  BY <1>1, <1>3, <1>4, <2>1, <2>2 DEF WithdrawSoFar
<1>5. CASE JetRepay /\ pc = 2
  <2>1. /\ CanRepay(jet, t) /\ vault_usdc + (-t) \in U64 /\ jet' = Repaid(jet, t)
        /\ vault_usdc' = vault_usdc + (-t)
        /\ epoch_times' = epoch_times /\ opened' = opened /\ user_usdc' = user_usdc
        /\ supply' = supply /\ user_redeemable' = user_redeemable
    BY <1>5 DEF JetRepay, JetStep
  <2>2. RepaidSoFar(pc)'
    <3>1. jet \in Refreshed(saved.jet)
      BY <1>1, <1>5 DEF WithdrawSoFar, RepaidSoFar
    <3> QED  BY <1>1, <1>5, <2>1, <3>1 DEF RepaidSoFar
  <2>3. vault_usdc' = kept /\ kept \in U64
    BY <1>1, <1>2, <1>5, <2>1 DEF WithdrawSoFar
  <2> QED  BY <1>1, <1>3, <1>5, <2>1, <2>2, <2>3 DEF WithdrawSoFar
<1>6. CASE JetWithdrawCollateral /\ pc = 3
  <2>1. /\ CanWithdrawCollateral(jet, t) /\ jet' = CollateralWithdrawn(jet, t)
        /\ vault_usdc' = vault_usdc + 0
        /\ epoch_times' = epoch_times /\ opened' = opened /\ user_usdc' = user_usdc
        /\ supply' = supply /\ user_redeemable' = user_redeemable
    BY <1>6 DEF JetWithdrawCollateral, JetStep
  <2>2. RepaidSoFar(pc)'
    <3>1. PICK j0 \in Refreshed(saved.jet) : CanRepay(j0, t) /\ jet = Repaid(j0, t)
      BY <1>1, <1>6 DEF WithdrawSoFar, RepaidSoFar
    <3> QED  BY <1>1, <1>6, <2>1, <3>1 DEF RepaidSoFar
  <2>3. vault_usdc' = kept /\ kept \in U64
    BY <1>1, <1>2, <1>6, <2>1 DEF WithdrawSoFar
  <2> QED  BY <1>1, <1>3, <1>6, <2>1, <2>2, <2>3 DEF WithdrawSoFar
<1>7. ASSUME pc >= 4, jet' = jet PROVE RepaidSoFar(pc)'
  BY <1>1, <1>7 DEF WithdrawSoFar, RepaidSoFar
<1>8. CASE Burn /\ pc = 4
  <2>1. /\ a <= user_redeemable[u] /\ a <= supply /\ supply' = supply - a
        /\ user_redeemable' = [user_redeemable EXCEPT ![u] = @ - a]
        /\ epoch_times' = epoch_times /\ opened' = opened /\ user_usdc' = user_usdc
        /\ vault_usdc' = vault_usdc /\ jet' = jet
    BY <1>8 DEF Burn
  <2>2. /\ supply = saved.supply /\ user_redeemable = saved.user_redeemable
        /\ epoch_times = saved.epoch_times /\ user_usdc = saved.user_usdc
        /\ opened = saved.opened /\ vault_usdc = kept /\ kept \in U64
    BY <1>1, <1>8 DEF WithdrawSoFar
  <2>3. /\ supply' = saved.supply - a /\ a <= saved.supply
        /\ user_redeemable' = [saved.user_redeemable EXCEPT ![u] = @ - a]
    BY <2>1, <2>2
  <2> QED  BY <1>1, <1>3, <1>7, <1>8, <2>1, <2>2, <2>3 DEF WithdrawSoFar
<1>9. CASE Transfer /\ pc = 5
  <2>1. WithdrawEntered(u, a)
    BY <1>1, <1>9 DEF WithdrawSoFar
  <2>2. amounts.usdc_in - sent = -sent
    BY <1>2, <2>1 DEF WithdrawEntered
  <2>3. /\ user_usdc[u] - (-sent) \in U64 /\ vault_usdc + (-sent) \in U64
        /\ user_usdc' = [user_usdc EXCEPT ![u] = user_usdc[u] - (-sent)]
        /\ vault_usdc' = vault_usdc + (-sent)
        /\ epoch_times' = epoch_times /\ opened' = opened /\ supply' = supply
        /\ user_redeemable' = user_redeemable /\ jet' = jet
    BY <1>9, <2>2 DEF Transfer
  <2>4. /\ epoch_times = saved.epoch_times /\ user_usdc = saved.user_usdc
        /\ opened = saved.opened /\ vault_usdc = kept /\ kept \in U64
        /\ a <= saved.supply /\ supply = saved.supply - a
        /\ user_redeemable = [saved.user_redeemable EXCEPT ![u] = @ - a]
    BY <1>1, <1>9 DEF WithdrawSoFar
  <2>5. /\ user_usdc' = [saved.user_usdc EXCEPT ![u] = saved.user_usdc[u] + sent]
        /\ saved.user_usdc[u] + sent \in U64
        /\ vault_usdc' = kept - sent /\ kept - sent \in U64
    <3>1. saved.user_usdc[u] \in Int /\ kept \in Int
      BY <1>1, <1>2, WordAssumption DEF TxTypeOK, SavedOK, U64
    <3>2. saved.user_usdc[u] - (-sent) = saved.user_usdc[u] + sent /\ kept + (-sent) = kept - sent
      BY <1>2, <3>1
    <3> HIDE DEF kept, sent
    <3> QED  BY <2>3, <2>4, <3>2
  <2> QED  BY <1>1, <1>3, <1>7, <1>9, <2>3, <2>4, <2>5 DEF WithdrawSoFar
<1>10. CASE Reload /\ pc = 6
  <2>1. /\ cached' = user_redeemable[u]
        /\ epoch_times' = epoch_times /\ opened' = opened /\ user_usdc' = user_usdc
        /\ vault_usdc' = vault_usdc /\ supply' = supply /\ user_redeemable' = user_redeemable
        /\ jet' = jet
    BY <1>10 DEF Reload, accounts
  <2> QED  BY <1>1, <1>3, <1>7, <1>10, <2>1 DEF WithdrawSoFar
<1>11. CASE CloseAccount /\ pc = 7
  <2>1. /\ opened' = IF cached = 0 THEN opened \ {u} ELSE opened
        /\ epoch_times' = epoch_times /\ user_usdc' = user_usdc
        /\ vault_usdc' = vault_usdc /\ supply' = supply /\ user_redeemable' = user_redeemable
        /\ jet' = jet
    BY <1>11 DEF CloseAccount
  <2> QED  BY <1>1, <1>3, <1>7, <1>11, <2>1 DEF WithdrawSoFar
<1> QED  BY <1>1, <1>4, <1>5, <1>6, <1>8, <1>9, <1>10, <1>11, WithdrawPlaces


LEMMA CpiSoFar ==
  ASSUME TxTypeOK, SoFar, Cpi
  PROVE  SoFar'
BY CpiFrame, SoFarOf, CreationCpis, OpeningCpis, DepositCpis, WithdrawCpis

\* A transaction starts from the saved accounts.
LEMMA SubmitSoFar ==
  ASSUME TxTypeOK, NEW transaction \in Transactions, Submit(transaction)
  PROVE  SoFar'
<1>1. /\ pc' = 0
      /\ saved' = Snapshot /\ epoch_times' = epoch_times /\ user_usdc' = user_usdc
      /\ opened' = opened /\ user_redeemable' = user_redeemable /\ supply' = supply
      /\ vault_usdc' = vault_usdc /\ jet' = jet
  BY DEF Submit, TxTypeOK, QueueOK, vars, accounts
<1>2. /\ saved'.epoch_times = epoch_times' /\ saved'.user_usdc = user_usdc'
      /\ saved'.opened = opened' /\ saved'.user_redeemable = user_redeemable'
      /\ saved'.supply = supply' /\ saved'.vault_usdc = vault_usdc' /\ saved'.jet = jet'
  BY <1>1, SnapshotParts
<1> QED  BY <1>1, <1>2 DEF SoFar, CreationSoFar, OpeningSoFar, DepositSoFar, WithdrawSoFar

\* The next instruction of a transaction is a deposit whose account the
\* transaction has opened; after a last instruction none is running.
LEMMA ReturnSoFar ==
  ASSUME TxTypeOK, SoFar, Return
  PROVE  SoFar'
<1>1. /\ ~Idle /\ queue' = Tail(queue) /\ pc' = 0 /\ epoch_times' = epoch_times
      /\ user_usdc' = user_usdc /\ opened' = opened /\ user_redeemable' = user_redeemable
      /\ supply' = supply /\ vault_usdc' = vault_usdc /\ jet' = jet
  BY DEF Return, vars, accounts
<1>2. CASE Tail(queue) = <<>>
  BY <1>1, <1>2 DEF SoFar, Running, Idle
<1>3. ASSUME NEW u \in Users, NEW a \in Deposits,
             ix = OpenAccount(u), Tail(queue) = <<Deposit(u, a)>>
      PROVE  SoFar'
  <2>1. ix' = Deposit(u, a) /\ ix'.name = "deposit_vault" /\ ix'.user = u
    <3>1. queue' = <<Deposit(u, a)>>
      BY <1>1, <1>3
    <3>2. ix' = Deposit(u, a)
      BY <3>1 DEF ix
    <3> QED  BY <3>2 DEF Deposit
  <2>2. Running("initialize_user") /\ ix.user = u
    BY <1>1, <1>3 DEF Running, OpenAccount
  <2>3. pc = 2
    <3>1. Len(Steps(ix)) = 1
      BY <2>2, StepCounts
    <3> QED  BY <3>1 DEF Return
  <2>4. saved' = saved
    BY <1>3 DEF Return
  <2>5. OpeningSoFar
    BY <2>2 DEF SoFar
  <2>6. DepositSoFar'
    BY <1>1, <2>1, <2>2, <2>3, <2>4, <2>5 DEF DepositSoFar, OpeningSoFar
  <2> QED  BY <2>1, <2>6 DEF SoFar, Running
<1> QED  BY <1>1, <1>2, <1>3, QueueParts DEF TxTypeOK

LEMMA NextTxInv == TxInv /\ [TxNext]_allVars => TxInv'
<1> SUFFICES ASSUME TxInv, [TxNext]_allVars PROVE SoFar'
  BY NextTxTypes DEF TxInv
<1>1. TxTypeOK /\ SoFar
  BY DEF TxInv
<1>2. CASE Idle /\ (Tick \/ AccrueInterest) /\ UNCHANGED txVars
  BY <1>2 DEF SoFar, Running, Idle, txVars
<1>3. ASSUME NEW transaction \in Transactions, Submit(transaction) PROVE SoFar'
  BY <1>1, <1>3, SubmitSoFar
<1>4. CASE Enter
  BY <1>1, <1>4, EnterSoFar
<1>5. CASE Cpi
  BY <1>1, <1>5, CpiSoFar
<1>6. CASE Return
  BY <1>1, <1>6, ReturnSoFar
<1>7. CASE Abort
  BY <1>7 DEF Abort, SoFar, Running, Idle
<1>8. CASE UNCHANGED allVars
  BY <1>1, <1>8
     DEF allVars, txVars, vars, accounts, SoFar, Running, Idle, ix, CreationSoFar, OpeningSoFar,
         DepositSoFar, WithdrawSoFar, DepositedSoFar, RepaidSoFar, DepositEntered,
         WithdrawEntered, Committed, AsVault!DepositWithdrawPhase, AsVault!redeemable_amount,
         AsVault!usdc_to_send_user, AsVault!usdc_to_repay_jet, AsVault!usdc_fx_rate,
         AsVault!usdc_equity, ValidEpochTimes
<1> QED  BY <1>2, <1>3, <1>4, <1>5, <1>6, <1>7, <1>8 DEF TxNext, Execute

\* In every reachable state the live accounts are what the CPIs made so far
\* made of the saved ones, and every amount is the one fixed on entry.
THEOREM TxInvAlways == TxSpec => []TxInv
<1>1. TxInit => TxInv
  BY InitTxTypes DEF TxInit, TxInv, SoFar, Running, Idle
<1> QED  BY <1>1, NextTxInv, PTL DEF TxSpec


-----------------------------------------------------------------------------
(* Refinement *)

\* The operators of Jet and the amounts that read no account are the same in
\* both views.
LEMMA SameOperators ==
  /\ \A j : AsVault!Refreshed(j) = Refreshed(j)
  /\ \A j, t : AsVault!CanDeposit(j, t) = CanDeposit(j, t)
  /\ \A j, t : AsVault!Deposited(j, t) = Deposited(j, t)
  /\ \A j, t : AsVault!CanDepositCollateral(j, t) = CanDepositCollateral(j, t)
  /\ \A j, t : AsVault!CollateralDeposited(j, t) = CollateralDeposited(j, t)
  /\ \A j, t : AsVault!CanBorrow(j, t) = CanBorrow(j, t)
  /\ \A j, t : AsVault!Borrowed(j, t) = Borrowed(j, t)
  /\ \A j, t : AsVault!CanRepay(j, t) = CanRepay(j, t)
  /\ \A j, t : AsVault!Repaid(j, t) = Repaid(j, t)
  /\ \A j, t : AsVault!CanWithdrawCollateral(j, t) = CanWithdrawCollateral(j, t)
  /\ \A j, t : AsVault!CollateralWithdrawn(j, t) = CollateralWithdrawn(j, t)
  /\ \A a : AsVault!DepositTokens(a) = DepositTokens(a)
  /\ \A a : AsVault!CollateralTokens(a) = CollateralTokens(a)
  /\ \A a : AsVault!BorrowTokens(a) = BorrowTokens(a)
  /\ AsVault!U64 = U64 /\ AsVault!NewPosition = NewPosition
<1>1. AsVault!U64 = U64
  BY DEF U64, AsVault!U64
<1>2. \A j, t : AsVault!DepositNotes(j, t) = DepositNotes(j, t)
  BY DEF DepositNotes, AsVault!DepositNotes
<1>3. \A j, t : AsVault!NotesRepaid(j, t) = NotesRepaid(j, t)
  BY DEF NotesRepaid, AsVault!NotesRepaid
<1>4. \A j, t : AsVault!NotesOwed(j, t) = NotesOwed(j, t)
  BY DEF NotesOwed, AsVault!NotesOwed
<1>5. \A j : AsVault!Healthy(j) = Healthy(j)
  BY DEF Healthy, AsVault!Healthy
<1>6. \A j : AsVault!Refreshed(j) = Refreshed(j)
  BY DEF Refreshed, AsVault!Refreshed, AccruedRates, AsVault!AccruedRates
<1>7. \A j, t : AsVault!Deposited(j, t) = Deposited(j, t)
  BY <1>2 DEF Deposited, AsVault!Deposited
<1>8. \A j, t : AsVault!CollateralDeposited(j, t) = CollateralDeposited(j, t)
  BY <1>2 DEF CollateralDeposited, AsVault!CollateralDeposited
<1>9. \A j, t : AsVault!Borrowed(j, t) = Borrowed(j, t)
  BY <1>4 DEF Borrowed, AsVault!Borrowed
<1>10. \A j, t : AsVault!Repaid(j, t) = Repaid(j, t)
  BY <1>3 DEF Repaid, AsVault!Repaid
<1>11. \A j, t : AsVault!CollateralWithdrawn(j, t) = CollateralWithdrawn(j, t)
  BY <1>2 DEF CollateralWithdrawn, AsVault!CollateralWithdrawn
<1>12. \A j, t : AsVault!CanDeposit(j, t) = CanDeposit(j, t)
  BY <1>1, <1>2 DEF CanDeposit, AsVault!CanDeposit
<1>13. \A j, t : AsVault!CanDepositCollateral(j, t) = CanDepositCollateral(j, t)
  BY <1>1, <1>2 DEF CanDepositCollateral, AsVault!CanDepositCollateral
<1>14. \A j, t : AsVault!CanBorrow(j, t) = CanBorrow(j, t)
  BY <1>1, <1>4, <1>5, <1>9 DEF CanBorrow, AsVault!CanBorrow
<1>15. \A j, t : AsVault!CanRepay(j, t) = CanRepay(j, t)
  BY <1>1, <1>3 DEF CanRepay, AsVault!CanRepay
<1>16. \A j, t : AsVault!CanWithdrawCollateral(j, t) = CanWithdrawCollateral(j, t)
  BY <1>1, <1>2, <1>5, <1>11 DEF CanWithdrawCollateral, AsVault!CanWithdrawCollateral
<1>17. /\ \A a : AsVault!DepositTokens(a) = DepositTokens(a)
       /\ \A a : AsVault!CollateralTokens(a) = CollateralTokens(a)
       /\ \A a : AsVault!BorrowTokens(a) = BorrowTokens(a)
       /\ AsVault!NewPosition = NewPosition
  BY DEF DepositTokens, AsVault!DepositTokens, CollateralTokens, AsVault!CollateralTokens,
         BorrowTokens, AsVault!BorrowTokens, NewPosition, AsVault!NewPosition, Wrap, AsVault!Wrap
<1> QED  BY <1>1, <1>6, <1>7, <1>8, <1>9, <1>10, <1>11, <1>12, <1>13, <1>14, <1>15, <1>16, <1>17


\* What the last instruction of a transaction commits are the live accounts.
LEMMA CommitParts ==
  ASSUME Return, Tail(queue) = <<>>
  PROVE  /\ ~Idle /\ Committed = saved /\ now' = now
         /\ Committed'.epoch_times = epoch_times /\ Committed'.user_usdc = user_usdc
         /\ Committed'.opened = opened /\ Committed'.user_redeemable = user_redeemable
         /\ Committed'.supply = supply /\ Committed'.vault_usdc = vault_usdc
         /\ Committed'.jet = jet
<1>1. ~Idle /\ Idle' /\ UNCHANGED vars
  BY DEF Return, Idle
<1>2. Committed' = Snapshot
  BY <1>1 DEF Committed, Snapshot, vars, accounts
<1> QED  BY <1>1, <1>2, SnapshotParts DEF Committed, vars

LEMMA CommitsCreation ==
  ASSUME TxInv, Return, Tail(queue) = <<>>, Running("initialize_vault")
  PROVE  \E e \in Schedules : AsVault!initialize_vault(e)
<1>1. pc = 6 /\ CreationSoFar /\ ix.times \in Schedules
  <2>1. Len(Steps(ix)) = 5
    BY StepCounts
  <2>2. ix.times \in Schedules
    BY Arguments DEF Running, TxInv, TxTypeOK
  <2> QED  BY <2>1, <2>2 DEF Return, TxInv, SoFar
<1>2. AsVault!initialize_vault(ix.times)
  BY <1>1, CommitParts, SameOperators
     DEF AsVault!initialize_vault, AsVault!ValidEpochTimes, ValidEpochTimes, CreationSoFar
<1> QED  BY <1>1, <1>2

LEMMA CommitsOpening ==
  ASSUME TxInv, Return, Tail(queue) = <<>>, Running("initialize_user")
  PROVE  \E u \in Users : AsVault!initialize_user_redeemable_token_account(u)
<1>1. pc = 2 /\ OpeningSoFar /\ ix.user \in Users
  <2>1. Len(Steps(ix)) = 1
    BY StepCounts
  <2>2. ix.user \in Users
    BY Arguments DEF Running, TxInv, TxTypeOK
  <2> QED  BY <2>1, <2>2 DEF Return, TxInv, SoFar
<1>2. AsVault!initialize_user_redeemable_token_account(ix.user)
  BY <1>1, CommitParts
     DEF AsVault!initialize_user_redeemable_token_account, OpeningSoFar
<1> QED  BY <1>1, <1>2

\* A deposit commits a step of Vault, with the account it found or with the
\* one its transaction opened.
LEMMA CommitsDeposit ==
  ASSUME TxInv, Return, Tail(queue) = <<>>, Running("deposit_vault")
  PROVE  \E u \in Users, a \in Deposits :
           AsVault!deposit_vault(u, a) \/ AsVault!initialize_user_and_deposit(u, a)
<1> DEFINE u == ix.user
<1> DEFINE a == ix.amount
<1> DEFINE paid == amounts.usdc_in
<1> DEFINE t == DepositTokens(a)
<1> DEFINE b == BorrowTokens(a)
<1>1. pc = 7 /\ DepositSoFar /\ u \in Users /\ a \in Deposits
  <2>1. Len(Steps(ix)) = 6
    BY StepCounts
  <2>2. u \in Users /\ a \in Deposits
    BY Arguments DEF Running, TxInv, TxTypeOK
  <2> QED  BY <2>1, <2>2 DEF Return, TxInv, SoFar
<1>2. /\ CollateralTokens(a) = t /\ t \in Nat /\ b \in Nat
      /\ paid \in Int /\ saved.vault_usdc \in Int /\ saved.user_usdc[u] \in Int
      /\ vault_usdc \in U64
  <2>1. a \in U64
    BY <1>1, VaultAssumption
  <2>2. paid \in U64 /\ saved.vault_usdc \in U64 /\ saved.user_usdc[u] \in U64
        /\ vault_usdc \in U64
    BY <1>1 DEF TxInv, TxTypeOK, TypeOK, AmountsOK, SavedOK
  <2>3. \A x \in U64 : x \in Int
    BY WordAssumption DEF U64
  <2> QED  BY <2>1, <2>2, <2>3, AmountTypes
<1>3. DepositEntered(u, a)
  BY <1>1 DEF DepositSoFar
<1>4. PICK j0 \in Refreshed(saved.jet) :
        /\ CanDeposit(j0, t)
        /\ CanDepositCollateral(Deposited(j0, t), t)
        /\ CanBorrow(CollateralDeposited(Deposited(j0, t), t), b)
        /\ jet = Borrowed(CollateralDeposited(Deposited(j0, t), t), b)
  BY <1>1, <1>2 DEF DepositSoFar, DepositedSoFar
<1>5. AsVault!DepositUsdc(u, a)
  <2>1. /\ AsVault!DepositWithdrawPhase
        /\ a <= saved.user_usdc[u]
        /\ saved.supply > 0 => saved.vault_usdc > 0
        /\ AsVault!redeemable_amount(a) = paid
    BY <1>3 DEF DepositEntered
  <2>2. /\ paid <= saved.user_usdc[u] /\ t <= saved.vault_usdc + paid
        /\ saved.vault_usdc + paid - t + b \in U64
        /\ vault_usdc = saved.vault_usdc + paid - t + b
    <3>1. /\ saved.user_usdc[u] - paid \in U64
          /\ saved.vault_usdc + paid - t \in U64
          /\ vault_usdc = saved.vault_usdc + paid - t + b
      BY <1>1 DEF DepositSoFar
    <3> DEFINE held == saved.user_usdc[u]
    <3> DEFINE kept == saved.vault_usdc
    <3>2. paid \in Int /\ t \in Nat /\ held \in Int /\ kept \in Int
      BY <1>2
    <3>3. held - paid \in U64 /\ kept + paid - t \in U64
      BY <3>1
    <3> HIDE DEF t, b, paid, held, kept
    <3>4. paid <= held /\ t <= kept + paid
      BY <3>2, <3>3, WordAssumption DEF U64
    <3> QED  BY <1>2, <3>1, <3>4 DEF held, kept
  <2>3. /\ saved.vault_usdc + paid \in U64
        /\ saved.user_redeemable[u] + a \in U64 /\ saved.supply + a \in U64
        /\ user_usdc = [saved.user_usdc EXCEPT ![u] = @ - paid]
        /\ user_redeemable = [saved.user_redeemable EXCEPT ![u] = @ + a]
        /\ supply = saved.supply + a /\ epoch_times = saved.epoch_times
    BY <1>1 DEF DepositSoFar
  <2> HIDE DEF t, b, paid
  <2> QED  BY <1>2, <1>4, <2>1, <2>2, <2>3, CommitParts, SameOperators
           DEF AsVault!DepositUsdc, t, b
<1>6. u \in opened /\ (opened = saved.opened \/ (u \notin saved.opened /\ opened = saved.opened \cup {u}))
  BY <1>1, <1>3 DEF DepositSoFar, DepositEntered
<1>7. AsVault!deposit_vault(u, a) \/ AsVault!initialize_user_and_deposit(u, a)
  BY <1>5, <1>6, CommitParts DEF AsVault!deposit_vault, AsVault!initialize_user_and_deposit
<1> QED  BY <1>1, <1>7

LEMMA CommitsWithdrawal ==
  ASSUME TxInv, Return, Tail(queue) = <<>>, Running("withdraw_vault")
  PROVE  \E u \in Users, a \in Redemptions : AsVault!withdraw_vault(u, a)
<1> DEFINE u == ix.user
<1> DEFINE a == ix.amount
<1> DEFINE sent == amounts.to_send
<1> DEFINE t == amounts.to_repay
<1>1. pc = 8 /\ WithdrawSoFar /\ u \in Users /\ a \in Redemptions
  <2>1. Len(Steps(ix)) = 7
    BY StepCounts
  <2>2. u \in Users /\ a \in Redemptions
    BY Arguments DEF Running, TxInv, TxTypeOK
  <2> QED  BY <2>1, <2>2 DEF Return, TxInv, SoFar
<1>2. sent \in Int /\ t \in Int /\ saved.vault_usdc \in Int
  BY WordAssumption DEF TxInv, TxTypeOK, AmountsOK, SavedOK, U64
<1>3. WithdrawEntered(u, a)
  BY <1>1 DEF WithdrawSoFar
<1>4. PICK j0 \in Refreshed(saved.jet) :
        /\ CanRepay(j0, t)
        /\ CanWithdrawCollateral(Repaid(j0, t), t)
        /\ jet = CollateralWithdrawn(Repaid(j0, t), t)
  BY <1>1 DEF WithdrawSoFar, RepaidSoFar
<1>5. /\ AsVault!DepositWithdrawPhase
      /\ u \in saved.opened /\ a <= saved.user_redeemable[u] /\ saved.supply > 0
      /\ AsVault!usdc_to_send_user(a) = sent /\ AsVault!usdc_to_repay_jet(a) = t
  BY <1>3 DEF WithdrawEntered
<1>6. t + sent <= saved.vault_usdc /\ vault_usdc = saved.vault_usdc - t - sent
  BY <1>1, <1>2, WordAssumption DEF WithdrawSoFar, U64
<1>7. /\ a <= saved.supply /\ supply = saved.supply - a
      /\ saved.user_usdc[u] + sent \in U64
      /\ user_usdc = [saved.user_usdc EXCEPT ![u] = @ + sent]
      /\ user_redeemable = [saved.user_redeemable EXCEPT ![u] = @ - a]
      /\ epoch_times = saved.epoch_times
      /\ opened = IF user_redeemable[u] = 0 THEN saved.opened \ {u} ELSE saved.opened
  BY <1>1 DEF WithdrawSoFar
<1>8. AsVault!withdraw_vault(u, a)
  <2> HIDE DEF t, sent
  <2> QED  BY <1>4, <1>5, <1>6, <1>7, CommitParts, SameOperators
           DEF AsVault!withdraw_vault, AsVault!HasRedeemable
<1> QED  BY <1>1, <1>8


LEMMA ReturnImplements ==
  ASSUME TxInv, Return
  PROVE  AsVault!Next \/ UNCHANGED AsVault!vars
<1>1. CASE Tail(queue) = <<>>
  <2>1. ix.name \in {"initialize_vault", "initialize_user", "deposit_vault", "withdraw_vault"}
    BY Arguments DEF Return, TxInv, TxTypeOK
  <2> QED  BY <1>1, <2>1, CommitsCreation, CommitsOpening, CommitsDeposit, CommitsWithdrawal
           DEF Return, Running, AsVault!Next
<1>2. CASE Tail(queue) # <<>>
  BY <1>2 DEF Return, vars, Committed, Idle, AsVault!vars, AsVault!accounts
<1> QED  BY <1>1, <1>2

\* Interest and time reach Vault as they happen; a transaction does only with
\* its last Return.
LEMMA StepImplements == TxInv /\ [TxNext]_allVars => [AsVault!Next]_(AsVault!vars)
<1> SUFFICES ASSUME TxInv, [TxNext]_allVars
             PROVE  AsVault!Next \/ UNCHANGED AsVault!vars
  OBVIOUS
<1>1. CASE Idle /\ (Tick \/ AccrueInterest) /\ UNCHANGED txVars
  <2>1. Idle' /\ Committed = Snapshot /\ Committed' = Snapshot'
    BY <1>1 DEF Committed, Idle, txVars
  <2>2. /\ Committed.epoch_times = epoch_times /\ Committed'.epoch_times = epoch_times'
        /\ Committed.user_usdc = user_usdc /\ Committed'.user_usdc = user_usdc'
        /\ Committed.opened = opened /\ Committed'.opened = opened'
        /\ Committed.user_redeemable = user_redeemable
        /\ Committed'.user_redeemable = user_redeemable'
        /\ Committed.supply = supply /\ Committed'.supply = supply'
        /\ Committed.vault_usdc = vault_usdc /\ Committed'.vault_usdc = vault_usdc'
        /\ Committed.jet = jet /\ Committed'.jet = jet'
    BY <2>1 DEF Snapshot
  <2>3. CASE Tick
    BY <2>2, <2>3 DEF Tick, accounts, AsVault!Tick, AsVault!accounts, AsVault!Next
  <2>4. CASE AccrueInterest
    BY <2>2, <2>4, SameOperators DEF AccrueInterest, AsVault!AccrueInterest, AsVault!Next
  <2> QED  BY <1>1, <2>3, <2>4
<1>2. ASSUME NEW transaction \in Transactions, Submit(transaction)
      PROVE  UNCHANGED AsVault!vars
  <2>1. transaction # <<>>
    BY DEF Transactions
  <2>2. Committed = Snapshot /\ Committed' = Snapshot /\ now' = now
    BY <1>2, <2>1 DEF Submit, Committed, Idle, vars
  <2> QED  BY <2>2 DEF AsVault!vars, AsVault!accounts
<1>3. CASE Enter
  BY <1>3 DEF Enter, Committed, Idle, vars, AsVault!vars, AsVault!accounts
<1>4. CASE Cpi
  <2>1. Committed = saved /\ Committed' = saved /\ now' = now
    BY <1>4, CpiFrame DEF TxInv, Committed, Idle
  <2> QED  BY <2>1 DEF AsVault!vars, AsVault!accounts
<1>5. CASE Return
  BY <1>5, ReturnImplements
<1>6. CASE Abort
  <2>1. Committed = saved /\ Committed' = Snapshot' /\ now' = now
    BY <1>6 DEF Abort, Committed, Idle
  <2>2. /\ Snapshot'.epoch_times = saved.epoch_times /\ Snapshot'.user_usdc = saved.user_usdc
        /\ Snapshot'.opened = saved.opened /\ Snapshot'.supply = saved.supply
        /\ Snapshot'.user_redeemable = saved.user_redeemable
        /\ Snapshot'.vault_usdc = saved.vault_usdc /\ Snapshot'.jet = saved.jet
    BY <1>6 DEF Abort, Snapshot
  <2> QED  BY <2>1, <2>2 DEF AsVault!vars, AsVault!accounts
<1>7. CASE UNCHANGED allVars
  BY <1>7 DEF allVars, txVars, vars, accounts, Committed, Idle, Snapshot, AsVault!vars,
              AsVault!accounts
<1> QED  BY <1>1, <1>2, <1>3, <1>4, <1>5, <1>6, <1>7 DEF TxNext, Execute

LEMMA InitImplements == TxInit => AsVault!Init
  BY SameOperators DEF TxInit, Init, Committed, Idle, Snapshot, AsVault!Init

\* The handlers, executed CPI by CPI with amounts fixed on entry and a
\* balance that is stale until it is reloaded (lib.rs:395), commit the steps of
\* Vault and nothing else, for every machine word, set of users, amounts and
\* schedules: a transaction that fails after any of its CPIs leaves no trace.
THEOREM TransactionsImplementVault == TxSpec => ImplementsVault
  BY InitImplements, StepImplements, TxInvAlways, PTL
     DEF TxSpec, ImplementsVault, AsVault!Spec


-----------------------------------------------------------------------------
(* Collateral between the CPIs *)

\* Both what is live and what an abort would restore.
CoveredThroughout ==
  /\ Covered
  /\ ~Idle => /\ saved.jet.loan_account <= saved.jet.collateral_account
              /\ saved.jet.deposit_rate <= saved.jet.loan_rate

LEMMA CpiCovered ==
  ASSUME MinCollateralRatio >= 100, TxInv, Covered, Cpi
  PROVE  Covered'
<1>1. /\ jet \in Position /\ jet.loan_account \in Nat /\ jet.collateral_account \in Nat
      /\ amounts.to_repay \in Nat
  BY PositionParts DEF TxInv, TxTypeOK, TypeOK, AmountsOK
<1>2. ASSUME Running("deposit_vault")
      PROVE  /\ DepositTokens(ix.amount) \in Nat /\ CollateralTokens(ix.amount) \in Nat
             /\ BorrowTokens(ix.amount) \in Nat
  <2>1. ix.amount \in U64
    BY <1>2, Arguments, VaultAssumption DEF Running, TxInv, TxTypeOK
  <2> QED  BY <2>1, AmountTypes
<1>3. CASE jet' = jet
  BY <1>3 DEF Covered
<1>4. CASE InitObligation \/ InitNoteAccount
  <2>1. jet' = NewPosition
    BY <1>4, NoteAccountsStartEmpty DEF InitObligation, TxInv
  <2> QED  BY <2>1, RateAssumption DEF NewPosition, Covered
<1>5. CASE RefreshReserve
  BY <1>1, <1>5, RefreshedParts DEF RefreshReserve, Covered
<1>6. CASE JetDeposit
  BY <1>1, <1>6 DEF JetDeposit, JetStep, Deposited, Position, Covered
<1>7. CASE JetDepositCollateral
  <2> DEFINE n == DepositNotes(jet, CollateralTokens(ix.amount))
  <2>1. n \in Nat
    <3>1. CollateralTokens(ix.amount) \in Nat
      BY <1>2, <1>7 DEF JetDepositCollateral, JetStep, Doing, Running
    <3>2. n \in 0 .. CollateralTokens(ix.amount)
      BY <1>1, <3>1, NoteConversions
    <3> QED  BY <3>1, <3>2
  <2>2. jet' = CollateralDeposited(jet, CollateralTokens(ix.amount))
    BY <1>7 DEF JetDepositCollateral, JetStep
  <2>3. /\ jet'.collateral_account = jet.collateral_account + n
        /\ jet'.loan_account = jet.loan_account
        /\ jet'.deposit_rate = jet.deposit_rate /\ jet'.loan_rate = jet.loan_rate
    BY <1>1, <2>2 DEF CollateralDeposited, Position
  <2> HIDE DEF n
  <2> QED  BY <1>1, <2>1, <2>3 DEF Covered
<1>8. CASE JetBorrow
  <2> DEFINE b == BorrowTokens(ix.amount)
  <2>1. b \in Nat
    BY <1>2, <1>8 DEF JetBorrow, JetStep, Doing, Running
  <2>2. CanBorrow(jet, b) /\ jet' = Borrowed(jet, b)
    BY <1>8 DEF JetBorrow, JetStep
  <2>3. jet' \in Position /\ Healthy(jet')
    BY <1>1, <2>1, <2>2, BorrowedParts DEF CanBorrow
  <2>4. jet'.deposit_rate = jet.deposit_rate /\ jet'.loan_rate = jet.loan_rate
    BY <1>1, <2>2 DEF Borrowed, Position
  <2> QED  BY <2>3, <2>4, HealthyIsCovered DEF Covered
<1>9. CASE JetRepay
  <2> DEFINE n == NotesRepaid(jet, amounts.to_repay)
  <2>1. n \in Nat
    <3>1. n \in 0 .. amounts.to_repay
      BY <1>1, NoteConversions
    <3> QED  BY <1>1, <3>1
  <2>2. jet' = Repaid(jet, amounts.to_repay)
    BY <1>9 DEF JetRepay, JetStep
  <2>3. /\ jet'.loan_account = jet.loan_account - n
        /\ jet'.collateral_account = jet.collateral_account
        /\ jet'.deposit_rate = jet.deposit_rate /\ jet'.loan_rate = jet.loan_rate
    BY <1>1, <2>2 DEF Repaid, Position
  <2> HIDE DEF n
  <2> QED  BY <1>1, <2>1, <2>3 DEF Covered
<1>10. CASE JetWithdrawCollateral
  <2> DEFINE t == amounts.to_repay
  <2>1. CanWithdrawCollateral(jet, t) /\ jet' = CollateralWithdrawn(jet, t)
    BY <1>10 DEF JetWithdrawCollateral, JetStep
  <2>2. jet' \in Position /\ Healthy(jet')
    BY <1>1, <2>1, CollateralWithdrawnParts DEF CanWithdrawCollateral
  <2>3. jet'.deposit_rate = jet.deposit_rate /\ jet'.loan_rate = jet.loan_rate
    BY <1>1, <2>1 DEF CollateralWithdrawn, Position
  <2> QED  BY <2>2, <2>3, HealthyIsCovered DEF Covered
<1>11. \/ jet' = jet \/ InitObligation \/ InitNoteAccount \/ RefreshReserve \/ JetDeposit
       \/ JetDepositCollateral \/ JetBorrow \/ JetRepay \/ JetWithdrawCollateral
  BY DEF Cpi, InitVaultAccounts, InitUserAccount, Transfer, MintTo, Burn, Reload,
         CloseAccount, accounts
<1> QED  BY <1>3, <1>4, <1>5, <1>6, <1>7, <1>8, <1>9, <1>10, <1>11

\* With a Jet that asks for at least as much collateral as it lends.
LEMMA JetCoversBetween ==
  MinCollateralRatio >= 100 => (TxSpec => []CoveredBetweenCpis)
<1> SUFFICES ASSUME MinCollateralRatio >= 100
             PROVE  TxSpec => []CoveredBetweenCpis
  OBVIOUS
<1>1. TxInit => CoveredThroughout
  BY RateAssumption DEF TxInit, Init, Idle, CoveredThroughout, Covered, NewPosition
<1>2. TxInv /\ CoveredThroughout /\ [TxNext]_allVars => CoveredThroughout'
  <2> SUFFICES ASSUME TxInv, CoveredThroughout, [TxNext]_allVars
               PROVE  CoveredThroughout'
    OBVIOUS
  <2>1. CASE Idle /\ (Tick \/ AccrueInterest) /\ UNCHANGED txVars
    <3>1. Idle'
      BY <2>1 DEF Idle, txVars
    <3>2. Covered'
      BY <2>1, NextCovered DEF TxInv, TxTypeOK, CoveredThroughout, Next
    <3> QED  BY <3>1, <3>2 DEF CoveredThroughout
  <2>2. ASSUME NEW transaction \in Transactions, Submit(transaction)
        PROVE  CoveredThroughout'
    <3>1. jet' = jet /\ saved' = Snapshot
      BY <2>2 DEF Submit, vars, accounts
    <3>2. saved'.jet = jet
      BY <3>1, SnapshotParts
    <3> QED  BY <3>1, <3>2 DEF CoveredThroughout, Covered
  <2>3. CASE Enter
    BY <2>3 DEF Enter, vars, accounts, Idle, CoveredThroughout, Covered
  <2>4. CASE Cpi
    BY <2>4, CpiCovered, CpiFrame DEF TxInv, Idle, CoveredThroughout
  <2>5. CASE Return
    <3>1. ~Idle /\ jet' = jet /\ (Idle' \/ saved' = saved)
      BY <2>5 DEF Return, vars, accounts, Idle
    <3> QED  BY <3>1 DEF CoveredThroughout, Covered
  <2>6. CASE Abort
    BY <2>6 DEF Abort, Idle, CoveredThroughout, Covered
  <2>7. CASE UNCHANGED allVars
    BY <2>7 DEF allVars, txVars, vars, accounts, Idle, CoveredThroughout, Covered
  <2> QED  BY <2>1, <2>2, <2>3, <2>4, <2>5, <2>6, <2>7 DEF TxNext, Execute
<1>3. CoveredThroughout => CoveredBetweenCpis
  BY DEF CoveredThroughout, Covered, CoveredBetweenCpis
<1> QED  BY <1>1, <1>2, <1>3, TxInvAlways, PTL DEF TxSpec

\* Without Jet's help, at constant rates: a deposit posts its collateral before
\* it borrows less than that, a withdrawal repays before it frees as much.
LEMMA OwnSplitCovers ==
  ASSUME MaxRate = RateUnit, NoDepositWraps, TxInv, ~Idle,
         saved.jet.loan_account <= saved.jet.collateral_account
  PROVE  CoveredBetweenCpis
<1> DEFINE s == saved.jet
<1>1. /\ s \in Position /\ s.loan_account \in Nat /\ s.collateral_account \in Nat
      /\ s.loan_account <= s.collateral_account
  BY PositionParts DEF TxInv, TxTypeOK, SavedOK
<1> SUFFICES jet.loan_account <= jet.collateral_account
  BY DEF CoveredBetweenCpis
<1>2. ASSUME jet = s \/ jet = NewPosition PROVE jet.loan_account <= jet.collateral_account
  BY <1>1, <1>2 DEF NewPosition
<1>3. CASE Running("initialize_vault") \/ Running("initialize_user")
  BY <1>2, <1>3 DEF TxInv, SoFar, CreationSoFar, OpeningSoFar
<1>4. CASE Running("deposit_vault")
  <2> DEFINE t == DepositTokens(ix.amount)
             b == BorrowTokens(ix.amount)
             j1 == Deposited(s, t)
             j2 == CollateralDeposited(j1, t)
  <2>1. ix.amount \in Deposits
    BY <1>4, Arguments DEF TxInv, TxTypeOK
  <2>2. t \in Nat /\ b \in Nat /\ b <= t /\ CollateralTokens(ix.amount) = t
    BY <2>1, AmountTypes, PostedExceedsBorrowed, VaultAssumption
  <2>3. DepositSoFar /\ pc \in 0 .. 7
    BY <1>4 DEF TxInv, SoFar, DepositSoFar
  <2>4. CASE pc <= 3
    BY <1>2, <2>3, <2>4 DEF DepositSoFar
  <2>5. CASE pc >= 4
    <3>1. /\ pc >= 5 => CanDeposit(s, t)
          /\ pc >= 6 => CanDepositCollateral(j1, t)
          /\ jet = IF pc = 4 THEN s ELSE IF pc = 5 THEN j1
                   ELSE IF pc = 6 THEN j2 ELSE Borrowed(j2, b)
      <4>1. DepositedSoFar(ix.amount, pc)
        BY <2>3, <2>5 DEF DepositSoFar
      <4> QED  BY <1>1, <2>2, <4>1, UnitRefreshed DEF DepositedSoFar
    <3>2. ASSUME pc >= 5
          PROVE  /\ j1 \in Position /\ j1.loan_account = s.loan_account
                 /\ j1.collateral_account = s.collateral_account
      <4>1. j1 \in Position
        BY <1>1, <2>2, <3>1, <3>2, DepositedParts
      <4> QED  BY <1>1, <4>1 DEF Deposited, Position
    <3>3. ASSUME pc >= 6
          PROVE  /\ j2 \in Position /\ j2.loan_account = s.loan_account
                 /\ j2.collateral_account = s.collateral_account + t
      <4>1. pc >= 5
        BY <2>3, <3>3
      <4>2. j2 \in Position
        BY <2>2, <3>1, <3>2, <3>3, <4>1, CollateralDepositedParts
      <4>3. DepositNotes(j1, t) = t
        BY <2>2, <3>2, <4>1, UnitNotes
      <4>4. j2.loan_account = j1.loan_account /\ j2.collateral_account = j1.collateral_account + t
        BY <3>2, <4>1, <4>3 DEF CollateralDeposited, Position
      <4> QED  BY <3>2, <4>1, <4>2, <4>4
    <3>4. ASSUME pc = 7
          PROVE  /\ jet.loan_account = s.loan_account + b
                 /\ jet.collateral_account = s.collateral_account + t
      <4>1. pc >= 6 /\ jet = Borrowed(j2, b)
        BY <3>1, <3>4
      <4>2. NotesOwed(j2, b) = b
        BY <2>2, <3>3, <4>1, UnitNotes
      <4>3. jet.loan_account = j2.loan_account + b /\ jet.collateral_account = j2.collateral_account
        BY <3>3, <4>1, <4>2 DEF Borrowed, Position
      <4> QED  BY <3>3, <4>1, <4>3
    <3> HIDE DEF t, b, j1, j2, s
    <3> QED  BY <1>1, <2>2, <2>3, <2>5, <3>1, <3>2, <3>3, <3>4
  <2> QED  BY <2>3, <2>4, <2>5
<1>5. CASE Running("withdraw_vault")
  <2> DEFINE t == amounts.to_repay
             j1 == Repaid(s, t)
  <2>1. t \in Nat /\ WithdrawSoFar /\ pc \in 0 .. 8
    BY <1>5 DEF TxInv, TxTypeOK, AmountsOK, SoFar, WithdrawSoFar
  <2>2. CASE pc <= 1
    BY <1>2, <2>1, <2>2 DEF WithdrawSoFar
  <2>3. CASE pc >= 2
    <3>1. /\ pc >= 3 => CanRepay(s, t)
          /\ jet = IF pc = 2 THEN s ELSE IF pc = 3 THEN j1 ELSE CollateralWithdrawn(j1, t)
      <4>1. RepaidSoFar(pc)
        BY <2>1, <2>3 DEF WithdrawSoFar
      <4> QED  BY <1>1, <4>1, UnitRefreshed DEF RepaidSoFar
    <3>2. ASSUME pc >= 3
          PROVE  /\ j1 \in Position /\ j1.loan_account = s.loan_account - t
                 /\ j1.collateral_account = s.collateral_account
      <4>1. j1 \in Position
        BY <1>1, <2>1, <3>1, <3>2, RepaidParts
      <4>2. NotesRepaid(s, t) = t
        BY <1>1, <2>1, UnitNotes
      <4> QED  BY <1>1, <4>1, <4>2 DEF Repaid, Position
    <3>3. ASSUME pc >= 4
          PROVE  /\ jet.loan_account = s.loan_account - t
                 /\ jet.collateral_account = s.collateral_account - t
      <4>1. pc >= 3 /\ jet = CollateralWithdrawn(j1, t)
        BY <2>1, <3>1, <3>3
      <4>2. DepositNotes(j1, t) = t
        BY <2>1, <3>2, <4>1, UnitNotes
      <4>3. jet.loan_account = j1.loan_account /\ jet.collateral_account = j1.collateral_account - t
        BY <3>2, <4>1, <4>2 DEF CollateralWithdrawn, Position
      <4> QED  BY <3>2, <4>1, <4>3
    <3> HIDE DEF t, j1, s
    <3> QED  BY <1>1, <2>1, <2>3, <3>1, <3>2, <3>3
  <2> QED  BY <2>1, <2>2, <2>3
<1> QED  BY <1>3, <1>4, <1>5, Arguments DEF TxInv, TxTypeOK, Running

\* What an abort would restore.
SavedCovered == ~Idle => saved.jet.loan_account <= saved.jet.collateral_account

LEMMA OwnCoversBetween ==
  MaxRate = RateUnit /\ NoDepositWraps => (TxSpec => []CoveredBetweenCpis)
<1> SUFFICES ASSUME MaxRate = RateUnit, NoDepositWraps
             PROVE  TxSpec => []CoveredBetweenCpis
  OBVIOUS
<1>1. TxInit => CoveredBetweenCpis /\ SavedCovered
  BY DEF TxInit, Init, Idle, NewPosition, CoveredBetweenCpis, SavedCovered
<1>2. TxInv /\ ~Idle /\ SavedCovered => CoveredBetweenCpis
  BY OwnSplitCovers DEF SavedCovered
<1>3. TxInv /\ CoveredBetweenCpis /\ SavedCovered /\ [TxNext]_allVars => SavedCovered'
  <2> SUFFICES ASSUME TxInv, CoveredBetweenCpis, SavedCovered, [TxNext]_allVars PROVE SavedCovered'
    OBVIOUS
  <2>1. CASE Idle /\ (Tick \/ AccrueInterest) /\ UNCHANGED txVars
    BY <2>1 DEF Idle, txVars, SavedCovered
  <2>2. ASSUME NEW transaction \in Transactions, Submit(transaction) PROVE SavedCovered'
    <3>1. saved'.jet = jet
      BY <2>2, SnapshotParts DEF Submit
    <3> QED  BY <3>1 DEF SavedCovered, CoveredBetweenCpis
  <2>3. CASE Enter \/ Cpi
    <3>1. ~Idle /\ saved' = saved
      BY <2>3, CpiFrame DEF Enter, TxInv
    <3> QED  BY <3>1 DEF SavedCovered
  <2>4. CASE Return
    BY <2>4 DEF Return, Idle, SavedCovered
  <2>5. CASE Abort
    BY <2>5 DEF Abort, Idle, SavedCovered
  <2>6. CASE UNCHANGED allVars
    BY <2>6 DEF allVars, txVars, Idle, SavedCovered
  <2> QED  BY <2>1, <2>2, <2>3, <2>4, <2>5, <2>6 DEF TxNext, Execute
<1>4. TxInv /\ CoveredBetweenCpis /\ SavedCovered /\ [TxNext]_allVars /\ Idle'
        => CoveredBetweenCpis'
  <2> SUFFICES ASSUME TxInv, CoveredBetweenCpis, SavedCovered, [TxNext]_allVars, Idle'
               PROVE  CoveredBetweenCpis'
    OBVIOUS
  <2>1. ASSUME jet' = jet PROVE CoveredBetweenCpis'
    BY <2>1 DEF CoveredBetweenCpis
  <2>2. CASE Idle /\ (Tick \/ AccrueInterest) /\ UNCHANGED txVars
    BY <2>1, <2>2, UnitRefreshed DEF TxInv, TxTypeOK, TypeOK, Tick, AccrueInterest, accounts
  <2>3. CASE Abort
    BY <2>3 DEF Abort, SavedCovered, CoveredBetweenCpis
  <2>4. CASE Cpi
    BY <2>4, CpiFrame DEF TxInv, Idle
  <2>5. CASE Enter \/ Return \/ \E transaction \in Transactions : Submit(transaction)
    BY <2>1, <2>5 DEF Enter, Return, Submit, vars, accounts
  <2>6. CASE UNCHANGED allVars
    BY <2>1, <2>6 DEF allVars, vars, accounts
  <2> QED  BY <2>2, <2>3, <2>4, <2>5, <2>6 DEF TxNext, Execute
<1>5. TxInv /\ TxInv' /\ CoveredBetweenCpis /\ SavedCovered /\ [TxNext]_allVars
        => (CoveredBetweenCpis /\ SavedCovered)'
  BY <1>2, <1>3, <1>4, PTL
<1> QED  BY <1>1, <1>5, TxInvAlways, PTL DEF TxSpec

\* The order of the CPIs (lib.rs:238-270, 324-359) keeps the loan covered
\* between any two of them, and an abort restores a covered position: with any
\* interest if Jet asks for full collateral, and at constant rates by the
\* vault's own split of a deposit.
THEOREM CoveredBetween == FullyCollateralized => (TxSpec => []CoveredBetweenCpis)
BY JetCoversBetween, OwnCoversBetween DEF FullyCollateralized
=============================================================================
