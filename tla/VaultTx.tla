------------------------------ MODULE VaultTx ------------------------------
(***************************************************************************)
(* The vault's transactions, one cross-program invocation (CPI) at a time. *)
(*                                                                         *)
(* A transaction is a sequence of instructions.  On entry of each Anchor   *)
(* deserialises the accounts and the handler checks its guards and fixes   *)
(* its amounts; then it makes its CPIs in program order, each of which     *)
(* changes the live accounts or fails.  A failure undoes the transaction   *)
(* back to the accounts it started from.  The validator serialises the     *)
(* transactions that write these accounts and the clock stands still in    *)
(* a slot, so nothing interleaves with a running transaction.              *)
(*                                                                         *)
(* The variables of Vault hold the live accounts; AsVault below shows that *)
(* what has been committed is a behaviour of Vault.                        *)
(***************************************************************************)
EXTENDS Vault, Sequences

VARIABLES
  queue,   \* instructions of the running transaction, the current one first
  pc,      \* the next CPI of the current instruction, 0 before its entry
  amounts, \* the amounts its handler has fixed
  cached,  \* user_redeemable.amount as deserialised or last reloaded
  saved    \* the accounts when the transaction started

txVars == <<queue, pc, amounts, cached, saved>>
allVars == <<vars, txVars>>

Idle == queue = <<>>
NoAmounts == [usdc_in |-> 0, to_send |-> 0, to_repay |-> 0]

Snapshot ==
  [epoch_times |-> epoch_times, user_usdc |-> user_usdc, opened |-> opened,
   user_redeemable |-> user_redeemable, supply |-> supply,
   vault_usdc |-> vault_usdc, jet |-> jet]

TxInit ==
  /\ Init
  /\ queue = <<>> /\ pc = 0
  /\ amounts = NoAmounts /\ cached = 0 /\ saved = Snapshot

-----------------------------------------------------------------------------
(* Instructions and their CPIs *)

\* The CPIs of each handler, in program order; "init" are the `init` accounts
\* of a context, "reload" and "close_account" the lines that end withdraw_vault.
InitializeVaultSteps ==
  <<"init", "init_obligation", "init_deposit_account",
    "init_collateral_account", "init_loan_account">>
InitializeUserSteps == <<"init">>

\* Fault: the loan is taken before the collateral is posted.
BorrowFirst ==
  <<"transfer", "mint_to", "refresh_reserve", "deposit", "borrow", "deposit_collateral">>

DepositVaultSteps ==
  <<"transfer", "mint_to", "refresh_reserve", "deposit", "deposit_collateral", "borrow">>
WithdrawVaultSteps ==
  <<"refresh_reserve", "repay", "withdraw_collateral", "burn", "transfer",
    "reload", "close_account">>

Steps(ix) ==
  CASE ix.name = "initialize_vault" -> InitializeVaultSteps
    [] ix.name = "initialize_user" -> InitializeUserSteps
    [] ix.name = "deposit_vault" -> DepositVaultSteps
    [] ix.name = "withdraw_vault" -> WithdrawVaultSteps

\* The transactions clients send: a first deposit opens the user's account
\* in the same transaction (vault.ts:352-372).
Deposit(u, a) == [name |-> "deposit_vault", user |-> u, amount |-> a]
Withdrawal(u, a) == [name |-> "withdraw_vault", user |-> u, amount |-> a]
OpenAccount(u) == [name |-> "initialize_user", user |-> u]
Creation(e) == [name |-> "initialize_vault", times |-> e]

Transactions ==
  { <<Creation(e)>> : e \in Schedules }
    \cup { <<OpenAccount(u)>> : u \in Users }
    \cup { <<Deposit(u, a)>> : u \in Users, a \in Deposits }
    \cup { <<OpenAccount(u), Deposit(u, a)>> : u \in Users, a \in Deposits }
    \cup { <<Withdrawal(u, a)>> : u \in Users, a \in Redemptions }

ix == Head(queue)
Doing(name, step) ==
  ~Idle /\ ix.name = name /\ pc \in DOMAIN Steps(ix) /\ Steps(ix)[pc] = step

Submit(transaction) ==
  /\ Idle
  /\ queue' = transaction
  /\ saved' = Snapshot
  /\ UNCHANGED <<vars, pc, amounts, cached>>

\* The access control and the first lines of a handler, on what has been
\* deserialised.
Enter ==
  /\ ~Idle /\ pc = 0
  /\ CASE ix.name = "initialize_vault" -> ValidEpochTimes(now, ix.times)
       [] ix.name = "initialize_user" -> DepositWithdrawPhase
       [] ix.name = "deposit_vault" ->
            /\ DepositWithdrawPhase /\ ix.user \in opened
            /\ ix.amount <= user_usdc[ix.user]
            /\ supply > 0 => vault_usdc > 0
       [] ix.name = "withdraw_vault" ->
            /\ DepositWithdrawPhase /\ ix.user \in opened
            /\ HasRedeemable(ix.user, ix.amount)
            /\ supply > 0
  /\ amounts' =
       CASE ix.name = "deposit_vault" ->
              [NoAmounts EXCEPT !.usdc_in = redeemable_amount(ix.amount)]
         [] ix.name = "withdraw_vault" ->
              [NoAmounts EXCEPT !.to_send = usdc_to_send_user(ix.amount),
                                !.to_repay = usdc_to_repay_jet(ix.amount)]
         [] OTHER -> NoAmounts
  /\ cached' = IF ix.name = "withdraw_vault" THEN user_redeemable[ix.user] ELSE 0
  /\ pc' = 1
  /\ UNCHANGED <<vars, queue, saved>>

Advance == pc' = pc + 1 /\ UNCHANGED <<now, queue, amounts, saved>>

InitVaultAccounts ==
  /\ Doing("initialize_vault", "init") /\ Advance
  /\ epoch_times = NoVault
  /\ epoch_times' = ix.times /\ supply' = 0 /\ vault_usdc' = 0
  /\ UNCHANGED <<user_usdc, opened, user_redeemable, jet, cached>>

\* init_obligation opens the vault's position in Jet; the note accounts it
\* will hold are opened empty, by one CPI each.
InitObligation ==
  /\ Doing("initialize_vault", "init_obligation") /\ Advance
  /\ jet' = NewPosition
  /\ UNCHANGED <<epoch_times, user_usdc, opened, user_redeemable, supply, vault_usdc, cached>>

InitNoteAccount ==
  /\ \/ /\ Doing("initialize_vault", "init_deposit_account")
        /\ jet' = [jet EXCEPT !.deposit_account = 0]
     \/ /\ Doing("initialize_vault", "init_collateral_account")
        /\ jet' = [jet EXCEPT !.collateral_account = 0]
     \/ /\ Doing("initialize_vault", "init_loan_account")
        /\ jet' = [jet EXCEPT !.loan_account = 0]
  /\ Advance
  /\ UNCHANGED <<epoch_times, user_usdc, opened, user_redeemable, supply, vault_usdc, cached>>

InitUserAccount ==
  /\ Doing("initialize_user", "init") /\ Advance
  /\ ix.user \notin opened
  /\ opened' = opened \cup {ix.user}
  /\ UNCHANGED <<epoch_times, user_usdc, user_redeemable, supply, vault_usdc, jet, cached>>

\* token::transfer, from the user in a deposit and to the user in a withdrawal.
Transfer ==
  /\ \/ Doing("deposit_vault", "transfer")
     \/ Doing("withdraw_vault", "transfer")
  /\ Advance
  /\ LET in == amounts.usdc_in - amounts.to_send
     IN /\ user_usdc[ix.user] - in \in U64
        /\ vault_usdc + in \in U64
        /\ user_usdc' = [user_usdc EXCEPT ![ix.user] = @ - in]
        /\ vault_usdc' = vault_usdc + in
  /\ UNCHANGED <<epoch_times, opened, user_redeemable, supply, jet, cached>>

MintTo ==
  /\ Doing("deposit_vault", "mint_to") /\ Advance
  /\ supply + ix.amount \in U64
  /\ user_redeemable[ix.user] + ix.amount \in U64
  /\ supply' = supply + ix.amount
  /\ user_redeemable' = [user_redeemable EXCEPT ![ix.user] = @ + ix.amount]
  /\ UNCHANGED <<epoch_times, user_usdc, opened, vault_usdc, jet, cached>>

RefreshReserve ==
  /\ \/ Doing("deposit_vault", "refresh_reserve")
     \/ Doing("withdraw_vault", "refresh_reserve")
  /\ Advance
  /\ jet' \in Refreshed(jet)
  /\ UNCHANGED <<epoch_times, user_usdc, opened, user_redeemable, supply, vault_usdc, cached>>

\* The CPIs into Jet that move tokens between vault_usdc and the reserve.
JetStep(name, step, allowed, position, tokens) ==
  /\ Doing(name, step) /\ Advance
  /\ allowed
  /\ vault_usdc + tokens \in U64
  /\ jet' = position
  /\ vault_usdc' = vault_usdc + tokens
  /\ UNCHANGED <<epoch_times, user_usdc, opened, user_redeemable, supply, cached>>

JetDeposit ==
  LET tokens == DepositTokens(ix.amount)
  IN JetStep("deposit_vault", "deposit", CanDeposit(jet, tokens), Deposited(jet, tokens), -tokens)

JetDepositCollateral ==
  LET tokens == CollateralTokens(ix.amount)
  IN JetStep("deposit_vault", "deposit_collateral",
             CanDepositCollateral(jet, tokens), CollateralDeposited(jet, tokens), 0)

JetBorrow ==
  LET tokens == BorrowTokens(ix.amount)
  IN JetStep("deposit_vault", "borrow", CanBorrow(jet, tokens), Borrowed(jet, tokens), tokens)

JetRepay ==
  LET tokens == amounts.to_repay
  IN JetStep("withdraw_vault", "repay", CanRepay(jet, tokens), Repaid(jet, tokens), -tokens)

JetWithdrawCollateral ==
  LET tokens == amounts.to_repay
  IN JetStep("withdraw_vault", "withdraw_collateral",
             CanWithdrawCollateral(jet, tokens), CollateralWithdrawn(jet, tokens), 0)

Burn ==
  /\ Doing("withdraw_vault", "burn") /\ Advance
  /\ ix.amount <= user_redeemable[ix.user] /\ ix.amount <= supply
  /\ supply' = supply - ix.amount
  /\ user_redeemable' = [user_redeemable EXCEPT ![ix.user] = @ - ix.amount]
  /\ UNCHANGED <<epoch_times, user_usdc, opened, vault_usdc, jet, cached>>

\* Fault: the account is not reloaded.
NoReload ==
  /\ Doing("withdraw_vault", "reload") /\ Advance
  /\ UNCHANGED cached
  /\ UNCHANGED <<epoch_times, accounts>>

\* user_redeemable.reload()
Reload ==
  /\ Doing("withdraw_vault", "reload") /\ Advance
  /\ cached' = user_redeemable[ix.user]
  /\ UNCHANGED <<epoch_times, accounts>>

\* close_account, if the (re)loaded amount is 0; the token program refuses to
\* close an account that is not empty.
CloseAccount ==
  /\ Doing("withdraw_vault", "close_account") /\ Advance
  /\ cached = 0 => user_redeemable[ix.user] = 0
  /\ opened' = IF cached = 0 THEN opened \ {ix.user} ELSE opened
  /\ UNCHANGED <<epoch_times, user_usdc, user_redeemable, supply, vault_usdc, jet, cached>>

\* The handler returns Ok: on to the next instruction, or commit.
Return ==
  /\ ~Idle /\ pc = Len(Steps(ix)) + 1
  /\ queue' = Tail(queue)
  /\ pc' = 0
  /\ amounts' = NoAmounts
  /\ cached' = 0
  /\ saved' = IF Tail(queue) = <<>> THEN Snapshot ELSE saved
  /\ UNCHANGED vars

\* Any check or CPI may fail, for its own guard or for a reason of the
\* callee's (a stale oracle, a halted reserve): everything is undone.
Abort ==
  /\ ~Idle
  /\ epoch_times' = saved.epoch_times /\ user_usdc' = saved.user_usdc
  /\ opened' = saved.opened /\ user_redeemable' = saved.user_redeemable
  /\ supply' = saved.supply /\ vault_usdc' = saved.vault_usdc /\ jet' = saved.jet
  /\ queue' = <<>> /\ pc' = 0 /\ amounts' = NoAmounts /\ cached' = 0
  /\ UNCHANGED <<now, saved>>

Cpi ==
  \/ InitVaultAccounts \/ InitObligation \/ InitNoteAccount \/ InitUserAccount
  \/ Transfer \/ MintTo \/ Burn \/ RefreshReserve
  \/ JetDeposit \/ JetDepositCollateral \/ JetBorrow
  \/ JetRepay \/ JetWithdrawCollateral
  \/ Reload \/ CloseAccount

Execute == Enter \/ Cpi \/ Return \/ Abort

TxNext ==
  \/ Idle /\ (Tick \/ AccrueInterest) /\ UNCHANGED txVars
  \/ \E transaction \in Transactions : Submit(transaction)
  \/ Execute

TxSpec == TxInit /\ [][TxNext]_allVars

-----------------------------------------------------------------------------
(* Properties *)

\* What has been committed: other transactions and clients see no more.
Committed == IF Idle THEN Snapshot ELSE saved

AsVault == INSTANCE Vault WITH
  epoch_times <- Committed.epoch_times,
  user_usdc <- Committed.user_usdc,
  opened <- Committed.opened,
  user_redeemable <- Committed.user_redeemable,
  supply <- Committed.supply,
  vault_usdc <- Committed.vault_usdc,
  jet <- Committed.jet

\* The handlers, run CPI by CPI with amounts fixed on entry and an amount
\* that is stale until reload() (lib.rs:395), commit the steps of Vault and
\* nothing else; a transaction that fails half-way leaves no trace.
ImplementsVault == AsVault!Spec

\* The vault never borrows against collateral it has not posted yet: between
\* any two CPIs its collateral notes cover its loan notes (the order of
\* lib.rs:238-270 and 324-359).
CoveredBetweenCpis == jet.loan_account <= jet.collateral_account
=============================================================================
