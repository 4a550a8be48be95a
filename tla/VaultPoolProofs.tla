--------------------------- MODULE VaultPoolProofs ---------------------------
(***************************************************************************)
(* The vault's loan and its users' shares, for every machine word, set of  *)
(* users, amounts and schedules: the loan stays covered, and at constant   *)
(* exchange rates Vault implements SharePool, its Jet position never       *)
(* weakens and leaving never dilutes.                                      *)
(***************************************************************************)
EXTENDS VaultProofs

\* The mapping of Pool, for short.
Phase == IF epoch_times = NoVault THEN "before"
         ELSE IF now <= epoch_times.start_epoch THEN "before"
         ELSE IF now <= epoch_times.end_deposits THEN "open"
         ELSE "closed"
Worth == vault_usdc + jet.deposit_account + jet.collateral_account - jet.loan_account

\* A schedule that was accepted is in order, and before it there is nothing.
ScheduleInv ==
  /\ epoch_times # NoVault => epoch_times.start_epoch < epoch_times.end_deposits
  /\ epoch_times = NoVault => supply = 0 /\ vault_usdc = 0 /\ jet = NewPosition

PoolInv == TypeOK /\ Covered /\ ScheduleInv

LEMMA ScheduleAlways == Spec => []ScheduleInv
<1>1. Init => ScheduleInv
  BY DEF Init, ScheduleInv
<1>2. ScheduleInv /\ [Next]_vars => ScheduleInv'
  <2> SUFFICES ASSUME ScheduleInv, [Next]_vars PROVE ScheduleInv'
    OBVIOUS
  <2>1. CASE Tick
    BY <2>1 DEF Tick, accounts, ScheduleInv
  <2>2. CASE AccrueInterest
    BY <2>2 DEF AccrueInterest, ScheduleInv
  <2>3. ASSUME NEW e \in Schedules, initialize_vault(e) PROVE ScheduleInv'
    BY <2>3, VaultAssumption DEF initialize_vault, ValidEpochTimes, ScheduleInv
  <2>4. ASSUME NEW u \in Users, initialize_user_redeemable_token_account(u)
        PROVE  ScheduleInv'
    BY <2>4 DEF initialize_user_redeemable_token_account, ScheduleInv
  <2>5. ASSUME NEW u \in Users, NEW a \in Deposits,
               deposit_vault(u, a) \/ initialize_user_and_deposit(u, a)
        PROVE  ScheduleInv'
    BY <2>5 DEF deposit_vault, initialize_user_and_deposit, DepositUsdc,
                DepositWithdrawPhase, ScheduleInv
  <2>6. ASSUME NEW u \in Users, NEW a \in Redemptions, withdraw_vault(u, a)
        PROVE  ScheduleInv'
    BY <2>6 DEF withdraw_vault, DepositWithdrawPhase, ScheduleInv
  <2>7. CASE UNCHANGED vars
    BY <2>7 DEF vars, accounts, ScheduleInv
  <2> QED  BY <2>1, <2>2, <2>3, <2>4, <2>5, <2>6, <2>7 DEF Next
<1> QED  BY <1>1, <1>2, PTL DEF Spec

-----------------------------------------------------------------------------
(* Jet at constant rates: a note is a token *)

LEMMA WholeQuotient ==
  ASSUME NEW t \in Nat, NEW n \in Nat \ {0}, NEW r \in 0 .. n - 1
  PROVE  (t * n + r) \div n = t
<1> DEFINE q == (t * n + r) \div n
<1>1. t * n + r \in Nat
  OBVIOUS
<1>2. q \in Nat /\ n * q <= t * n + r /\ t * n + r < n * (q + 1)
  BY <1>1, Quotient
<1>3. n * q < n * (t + 1) /\ n * t < n * (q + 1)
  BY <1>2
<1> HIDE DEF q
<1>4. q < t + 1 /\ t < q + 1
  BY <1>2, <1>3
<1> QED  BY <1>2, <1>4 DEF q

LEMMA UnitNotes ==
  ASSUME MaxRate = RateUnit, NEW j \in Position, NEW t \in Nat
  PROVE  DepositNotes(j, t) = t /\ NotesRepaid(j, t) = t /\ NotesOwed(j, t) = t
<1>1. RateUnit \in Nat \ {0} /\ j.deposit_rate = RateUnit /\ j.loan_rate = RateUnit
  BY RateAssumption DEF Position, Rates
<1>2. (t * RateUnit + 0) \div RateUnit = t /\ (t * RateUnit + (RateUnit - 1)) \div RateUnit = t
  BY <1>1, WholeQuotient
<1>3. t * RateUnit \in Nat
  BY <1>1
<1>4. /\ t * RateUnit + 0 = t * RateUnit
      /\ t * RateUnit + RateUnit - 1 = t * RateUnit + (RateUnit - 1)
  BY <1>1, <1>3
<1> QED  BY <1>1, <1>2, <1>4 DEF DepositNotes, NotesRepaid, NotesOwed

LEMMA UnitRefreshed ==
  ASSUME MaxRate = RateUnit, NEW j \in Position, NEW k \in Refreshed(j)
  PROVE  k = j
<1>1. k \in Position
  BY RefreshedParts
<1>2. /\ j.deposit_rate = RateUnit /\ j.loan_rate = RateUnit
      /\ k.deposit_rate = RateUnit /\ k.loan_rate = RateUnit
  BY <1>1, RateAssumption DEF Position, Rates
<1> QED  BY <1>1, <1>2, RefreshedParts DEF Position

-----------------------------------------------------------------------------
(* What the instructions do to the Jet position *)

LEMMA DepositMoves ==
  ASSUME MaxRate = RateUnit, TypeOK, NEW u \in Users, NEW a \in Deposits,
         DepositUsdc(u, a)
  PROVE  /\ DepositTokens(a) \in Nat /\ BorrowTokens(a) \in Nat
         /\ jet'.deposit_account = jet.deposit_account
         /\ jet'.collateral_account = jet.collateral_account + DepositTokens(a)
         /\ jet'.loan_account = jet.loan_account + BorrowTokens(a)
<1> DEFINE t == DepositTokens(a)
<1> DEFINE b == BorrowTokens(a)
<1> DEFINE j1 == Deposited(jet, t)
<1> DEFINE j2 == CollateralDeposited(j1, t)
<1>1. t \in Nat /\ b \in Nat /\ CollateralTokens(a) = t
  BY DepositAmountTypes, VaultAssumption DEF DepositUsdc
<1>2. /\ CanDeposit(jet, t) /\ CanDepositCollateral(j1, t) /\ CanBorrow(j2, b)
      /\ jet' = Borrowed(j2, b)
  <2>1. PICK j0 \in Refreshed(jet) :
          /\ CanDeposit(j0, t) /\ CanDepositCollateral(Deposited(j0, t), t)
          /\ CanBorrow(CollateralDeposited(Deposited(j0, t), t), b)
          /\ jet' = Borrowed(CollateralDeposited(Deposited(j0, t), t), b)
    BY <1>1 DEF DepositUsdc
  <2>2. j0 = jet
    BY UnitRefreshed DEF TypeOK
  <2> QED  BY <2>1, <2>2
<1>3. jet \in Position /\ j1 \in Position /\ j2 \in Position /\ jet' \in Position
  <2>1. jet \in Position
    BY DEF TypeOK
  <2>2. j1 \in Position
    BY <1>1, <1>2, <2>1, DepositedParts
  <2>3. j2 \in Position
    BY <1>1, <1>2, <2>2, CollateralDepositedParts
  <2> QED  BY <1>1, <1>2, <2>1, <2>2, <2>3, BorrowedParts
<1>4. DepositNotes(jet, t) = t /\ DepositNotes(j1, t) = t /\ NotesOwed(j2, b) = b
  BY <1>1, <1>3, UnitNotes
<1>5. /\ j1.deposit_account = jet.deposit_account + t
      /\ j1.collateral_account = jet.collateral_account
      /\ j1.loan_account = jet.loan_account
  BY <1>3, <1>4 DEF Deposited, Position
<1>6. /\ j2.deposit_account = j1.deposit_account - t
      /\ j2.collateral_account = j1.collateral_account + t
      /\ j2.loan_account = j1.loan_account
  BY <1>3, <1>4 DEF CollateralDeposited, Position
<1>7. /\ jet'.deposit_account = j2.deposit_account
      /\ jet'.collateral_account = j2.collateral_account
      /\ jet'.loan_account = j2.loan_account + b
  BY <1>2, <1>3, <1>4 DEF Borrowed, Position
<1>8. jet.deposit_account \in Nat
  BY <1>3, PositionParts
<1> HIDE DEF t, b, j1, j2
<1> QED  BY <1>1, <1>5, <1>6, <1>7, <1>8 DEF t, b

LEMMA WithdrawMoves ==
  ASSUME MaxRate = RateUnit, TypeOK, NEW u \in Users, NEW a \in Redemptions,
         withdraw_vault(u, a)
  PROVE  /\ usdc_to_repay_jet(a) \in Nat
         /\ jet'.deposit_account = jet.deposit_account + usdc_to_repay_jet(a)
         /\ jet'.collateral_account = jet.collateral_account - usdc_to_repay_jet(a)
         /\ jet'.loan_account = jet.loan_account - usdc_to_repay_jet(a)
<1> DEFINE t == usdc_to_repay_jet(a)
<1> DEFINE j1 == Repaid(jet, t)
<1>1. t \in Nat
  <2>1. supply > 0
    BY DEF withdraw_vault
  <2> QED  BY <2>1, RepaymentBounds
<1>2. CanRepay(jet, t) /\ CanWithdrawCollateral(j1, t) /\ jet' = CollateralWithdrawn(j1, t)
  <2>1. PICK j0 \in Refreshed(jet) :
          /\ CanRepay(j0, t) /\ CanWithdrawCollateral(Repaid(j0, t), t)
          /\ jet' = CollateralWithdrawn(Repaid(j0, t), t)
    BY DEF withdraw_vault
  <2>2. j0 = jet
    BY UnitRefreshed DEF TypeOK
  <2> QED  BY <2>1, <2>2
<1>3. jet \in Position /\ j1 \in Position /\ jet' \in Position
  <2>1. jet \in Position
    BY DEF TypeOK
  <2>2. j1 \in Position
    BY <1>1, <1>2, <2>1, RepaidParts
  <2> QED  BY <1>1, <1>2, <2>1, <2>2, CollateralWithdrawnParts
<1>4. NotesRepaid(jet, t) = t /\ DepositNotes(j1, t) = t
  BY <1>1, <1>3, UnitNotes
<1>5. /\ j1.loan_account = jet.loan_account - t
      /\ j1.collateral_account = jet.collateral_account
      /\ j1.deposit_account = jet.deposit_account
  BY <1>3, <1>4 DEF Repaid, Position
<1>6. /\ jet'.loan_account = j1.loan_account
      /\ jet'.collateral_account = j1.collateral_account - t
      /\ jet'.deposit_account = j1.deposit_account + t
  BY <1>2, <1>3, <1>4 DEF CollateralWithdrawn, Position
<1> QED  BY <1>1, <1>5, <1>6

-----------------------------------------------------------------------------
(* The Jet position *)

NoDepositWraps == \A a \in Deposits : a * 90 < Word

\* Without a wrap, 90% of a deposit are never less than half of it, rounded.
LEMMA PostedExceedsBorrowed ==
  ASSUME NoDepositWraps, NEW a \in Deposits
  PROVE  BorrowTokens(a) <= DepositTokens(a)
<1>1. a \in Nat /\ a * 90 \in U64 /\ a * 90 \in Nat
  BY VaultAssumption, WordAssumption DEF NoDepositWraps, U64
<1>2. DepositTokens(a) = (a * 90) \div 100
  BY <1>1, WrapBounds DEF DepositTokens
<1>3. DepositTokens(a) \in Nat /\ a * 90 < 100 * (DepositTokens(a) + 1)
  BY <1>1, <1>2, Quotient
<1>4. BorrowTokens(a) \in Nat /\ 2 * BorrowTokens(a) <= a
  BY <1>1, Quotient DEF BorrowTokens
<1> QED  BY <1>1, <1>3, <1>4

\* At constant rates no step takes collateral in excess of the loan away: a
\* deposit posts at least what it borrows (lib.rs:237-270) and a withdrawal
\* repays what it frees (lib.rs:318-359), as long as usdc_amount * 90 does not
\* wrap.
THEOREM PositionNeverWeaker ==
  MaxRate = RateUnit /\ NoDepositWraps => (Spec => PositionNeverWeakens)
<1> SUFFICES ASSUME MaxRate = RateUnit, NoDepositWraps
             PROVE  Spec => PositionNeverWeakens
  OBVIOUS
<1> DEFINE Kept == jet'.collateral_account - jet'.loan_account
                     >= jet.collateral_account - jet.loan_account
<1>1. TypeOK /\ ScheduleInv /\ [Next]_vars => [Kept]_vars
  <2> SUFFICES ASSUME TypeOK, ScheduleInv, Next PROVE Kept
    OBVIOUS
  <2>1. jet.collateral_account \in Nat /\ jet.loan_account \in Nat
    BY PositionParts DEF TypeOK
  <2>2. ASSUME jet' = jet PROVE Kept
    BY <2>1, <2>2
  <2>3. CASE Tick
    BY <2>2, <2>3 DEF Tick, accounts
  <2>4. CASE AccrueInterest
    BY <2>2, <2>4, UnitRefreshed DEF AccrueInterest, TypeOK
  <2>5. ASSUME NEW e \in Schedules, initialize_vault(e) PROVE Kept
    BY <2>2, <2>5 DEF initialize_vault, ScheduleInv
  <2>6. ASSUME NEW u \in Users, initialize_user_redeemable_token_account(u) PROVE Kept
    BY <2>2, <2>6 DEF initialize_user_redeemable_token_account
  <2>7. ASSUME NEW u \in Users, NEW a \in Deposits,
               deposit_vault(u, a) \/ initialize_user_and_deposit(u, a)
        PROVE  Kept
    <3>1. DepositUsdc(u, a)
      BY <2>7 DEF deposit_vault, initialize_user_and_deposit
    <3> QED  BY <2>1, <3>1, DepositMoves, PostedExceedsBorrowed
  <2>8. ASSUME NEW u \in Users, NEW a \in Redemptions, withdraw_vault(u, a) PROVE Kept
    BY <2>1, <2>8, WithdrawMoves
  <2> QED  BY <2>3, <2>4, <2>5, <2>6, <2>7, <2>8 DEF Next
<1> QED  BY <1>1, TypeCorrect, ScheduleAlways, PTL DEF Spec, PositionNeverWeakens

\* Either Jet lends no more than the collateral is worth, or rates are constant
\* and the vault's own split of a deposit does it.
FullyCollateralized ==
  \/ MinCollateralRatio >= 100
  \/ MaxRate = RateUnit /\ NoDepositWraps

\* Either way the loan stays covered.
LEMMA AlwaysCovered == FullyCollateralized => (Spec => []Covered)
<1>1. CASE MinCollateralRatio >= 100
  BY <1>1, CoveredAlways
<1>2. CASE MaxRate = RateUnit /\ NoDepositWraps
  <2>1. Init => Covered
    BY RateAssumption DEF Init, Covered, NewPosition
  <2> DEFINE Kept == jet'.collateral_account - jet'.loan_account
                       >= jet.collateral_account - jet.loan_account
  <2>2. TypeOK /\ TypeOK' /\ Covered /\ [Kept]_vars => Covered'
    <3> SUFFICES ASSUME TypeOK, TypeOK', Covered, [Kept]_vars PROVE Covered'
      OBVIOUS
    <3>1. jet' = jet \/ Kept
      BY DEF vars, accounts
    <3>2. /\ jet \in Position /\ jet' \in Position
          /\ jet.collateral_account \in Nat /\ jet.loan_account \in Nat
          /\ jet'.collateral_account \in Nat /\ jet'.loan_account \in Nat
      BY PositionParts DEF TypeOK
    <3>3. jet'.deposit_rate = RateUnit /\ jet'.loan_rate = RateUnit
      BY <1>2, <3>2, RateAssumption DEF Position, Rates
    <3> QED  BY <3>1, <3>2, <3>3, RateAssumption DEF Covered
  <2>3. Spec => [][Kept]_vars
    BY <1>2, PositionNeverWeaker DEF PositionNeverWeakens
  <2> HIDE DEF Kept
  <2> QED  BY <2>1, <2>2, <2>3, TypeCorrect, PTL DEF Spec
<1> QED  BY <1>1, <1>2 DEF FullyCollateralized

\* usdc_equity (lib.rs:295) never subtracts more than it has: with any interest
\* if Jet asks for full collateral, without Jet's help at constant rates.
THEOREM EquityNeverUnderflows == FullyCollateralized => (Spec => []EquityCovered)
BY AlwaysCovered, CoveredHasEquity, TypeCorrect, PTL

\* usdc_to_repay_jet (lib.rs:299) compares tokens with notes, and yet Jet can
\* book it as a repayment and as a collateral withdrawal at whatever rates
\* its refresh arrives at.
THEOREM RepaymentAlwaysInRange == FullyCollateralized => (Spec => []RepaymentInRange)
BY AlwaysCovered, CoveredCanRepay, TypeCorrect, PTL

-----------------------------------------------------------------------------
(* Instructions as steps of the pool *)

LEMMA OpenPhase ==
  ASSUME TypeOK, DepositWithdrawPhase
  PROVE  Phase = "open"
<1>1. now \in Int /\ epoch_times.start_epoch \in Int /\ epoch_times.end_deposits \in Int
  BY VaultAssumption DEF TypeOK, DepositWithdrawPhase, EpochTimes
<1> QED  BY <1>1 DEF DepositWithdrawPhase, Phase

\* A deposit puts what it pays in the pool, whatever it moves into Jet.
LEMMA DepositJoins ==
  ASSUME MaxRate = RateUnit, PoolInv, NEW u \in Users, NEW a \in Deposits,
         DepositUsdc(u, a)
  PROVE  Pool!Join(u, user_usdc[u] - user_usdc'[u], user_redeemable'[u] - user_redeemable[u])
<1> DEFINE paid == redeemable_amount(a)
<1> DEFINE t == DepositTokens(a)
<1> DEFINE b == BorrowTokens(a)
<1>1. /\ DepositWithdrawPhase /\ paid <= user_usdc[u] /\ now' = now /\ epoch_times' = epoch_times
      /\ user_usdc' = [user_usdc EXCEPT ![u] = user_usdc[u] - paid]
      /\ user_redeemable' = [user_redeemable EXCEPT ![u] = user_redeemable[u] + a]
      /\ supply' = supply + a /\ vault_usdc' = vault_usdc + paid - t + b
  BY DEF DepositUsdc
<1>2. /\ t \in Nat /\ b \in Nat
      /\ jet'.deposit_account = jet.deposit_account
      /\ jet'.collateral_account = jet.collateral_account + t
      /\ jet'.loan_account = jet.loan_account + b
  BY DepositMoves DEF PoolInv
<1>3. a \in U64 /\ paid \in U64
  BY DepositAmountTypes, VaultAssumption DEF DepositUsdc, PoolInv
<1>4. /\ jet.deposit_account \in Int /\ jet.collateral_account \in Int
      /\ jet.loan_account \in Int /\ vault_usdc \in Int /\ supply \in Int
      /\ user_usdc[u] \in Int /\ user_redeemable[u] \in Int
      /\ a \in Nat /\ paid \in Nat
  BY <1>3, PositionParts, WordAssumption DEF PoolInv, TypeOK, U64
<1>5. supply = 0 => paid = a
  BY <1>3, WrapBounds DEF redeemable_amount
<1> HIDE DEF paid, t, b
<1>6. Worth' = Worth + paid
  BY <1>1, <1>2, <1>4 DEF Worth
<1>7. user_usdc[u] - user_usdc'[u] = paid /\ user_redeemable'[u] - user_redeemable[u] = a
  BY <1>1, <1>4 DEF PoolInv, TypeOK
<1>8. Phase = "open" /\ Phase' = Phase
  BY <1>1, OpenPhase DEF PoolInv, Phase
<1>9. /\ user_usdc' = [user_usdc EXCEPT ![u] = @ - paid]
      /\ user_redeemable' = [user_redeemable EXCEPT ![u] = @ + a]
  BY <1>1
<1> QED  BY <1>1, <1>4, <1>5, <1>6, <1>7, <1>8, <1>9
         DEF Pool!Join, Phase, Worth

\* What a withdrawal sends is at most its part of the pool: the rate is a
\* quotient of an equity that leaves the parked notes out.
LEMMA ShareOfPool ==
  ASSUME NEW a \in Nat, NEW n \in Nat \ {0}, NEW e \in Nat, NEW w \in Nat, e <= w
  PROVE  (a * (e \div n)) * n <= a * w
<1> DEFINE q == e \div n
<1>1. q \in Nat /\ n * q <= e
  BY Quotient
<1> HIDE DEF q
<1>2. n * q \in Nat /\ n * q <= w
  BY <1>1
<1>3. a * (n * q) <= a * w
  BY <1>2
<1>4. (a * q) * n = a * (n * q)
  BY <1>1
<1> QED  BY <1>3, <1>4 DEF q

LEMMA WithdrawLeaves ==
  ASSUME MaxRate = RateUnit, PoolInv, NEW u \in Users, NEW a \in Redemptions,
         withdraw_vault(u, a)
  PROVE  Pool!Leave(u, user_redeemable[u] - user_redeemable'[u], user_usdc'[u] - user_usdc[u])
<1> DEFINE sent == usdc_to_send_user(a)
<1> DEFINE t == usdc_to_repay_jet(a)
<1>1. /\ DepositWithdrawPhase /\ a <= user_redeemable[u] /\ a <= supply /\ supply > 0
      /\ now' = now /\ epoch_times' = epoch_times
      /\ vault_usdc' = vault_usdc - t - sent
      /\ user_usdc' = [user_usdc EXCEPT ![u] = user_usdc[u] + sent]
      /\ user_redeemable' = [user_redeemable EXCEPT ![u] = user_redeemable[u] - a]
      /\ supply' = supply - a
  BY DEF withdraw_vault, HasRedeemable
<1>2. /\ t \in Nat
      /\ jet'.deposit_account = jet.deposit_account + t
      /\ jet'.collateral_account = jet.collateral_account - t
      /\ jet'.loan_account = jet.loan_account - t
  BY WithdrawMoves DEF PoolInv
<1>3. /\ a \in Nat /\ a \in 0 .. supply /\ supply \in Nat \ {0} /\ vault_usdc \in Nat
      /\ user_usdc[u] \in Nat /\ user_redeemable[u] \in Nat
      /\ jet.deposit_account \in Nat /\ jet.collateral_account \in Nat
      /\ jet.loan_account \in Nat
  BY <1>1, PositionParts, VaultAssumption, WordAssumption DEF PoolInv, TypeOK, U64
<1>4. /\ usdc_fx_rate \in Nat /\ sent = a * usdc_fx_rate /\ sent \in Nat
      /\ usdc_equity \in Nat
  BY <1>1, <1>3, WithdrawAmountTypes, WordAssumption DEF PoolInv, U64
<1>5. Worth \in Nat /\ usdc_equity <= Worth
  <2> DEFINE e == vault_usdc + jet.collateral_account - jet.loan_account
  <2>1. jet.loan_account <= jet.collateral_account
    BY DEF PoolInv, Covered
  <2>2. e \in Nat /\ Worth \in Nat /\ e <= Worth
    BY <1>3, <2>1 DEF Worth
  <2>3. usdc_equity <= e
    BY <2>2, WrapBounds DEF usdc_equity
  <2> HIDE DEF e
  <2> QED  BY <1>4, <2>2, <2>3
<1>6. sent * supply <= a * Worth
  BY <1>3, <1>4, <1>5, ShareOfPool DEF usdc_fx_rate
<1> HIDE DEF sent, t
<1>7. Worth' = Worth - sent
  BY <1>1, <1>2, <1>3, <1>4 DEF Worth
<1>8. user_redeemable[u] - user_redeemable'[u] = a /\ user_usdc'[u] - user_usdc[u] = sent
  BY <1>1, <1>3, <1>4 DEF PoolInv, TypeOK
<1>9. Phase = "open" /\ Phase' = Phase
  BY <1>1, OpenPhase DEF PoolInv, Phase
<1>10. /\ user_usdc' = [user_usdc EXCEPT ![u] = @ + sent]
       /\ user_redeemable' = [user_redeemable EXCEPT ![u] = @ - a]
  BY <1>1
<1> QED  BY <1>1, <1>3, <1>4, <1>6, <1>7, <1>8, <1>9, <1>10
         DEF Pool!Leave, Phase, Worth

-----------------------------------------------------------------------------
(* Refinement *)

\* Time opens the pool before it closes it: a clock that advances by one
\* cannot step over the deposit phase of an ordered schedule.
LEMMA TickMoves ==
  ASSUME PoolInv, Tick
  PROVE  Pool!Open \/ Pool!Close \/ UNCHANGED Pool!poolVars
<1>1. /\ now' = now + 1 /\ epoch_times' = epoch_times /\ user_usdc' = user_usdc
      /\ user_redeemable' = user_redeemable /\ supply' = supply
      /\ vault_usdc' = vault_usdc /\ jet' = jet
  BY DEF Tick, accounts
<1>2. now \in Int
  BY VaultAssumption DEF PoolInv, TypeOK
<1>3. CASE epoch_times = NoVault
  BY <1>1, <1>3 DEF Pool!poolVars
<1>4. CASE epoch_times # NoVault
  <2>1. /\ epoch_times.start_epoch \in Int /\ epoch_times.end_deposits \in Int
        /\ epoch_times.start_epoch < epoch_times.end_deposits
    BY <1>4, VaultAssumption DEF PoolInv, TypeOK, ScheduleInv, EpochTimes
  <2>2. \/ Phase' = Phase
        \/ Phase = "before" /\ Phase' = "open"
        \/ Phase = "open" /\ Phase' = "closed"
    BY <1>1, <1>2, <1>4, <2>1 DEF Phase
  <2> QED  BY <1>1, <2>2 DEF Phase, Pool!Open, Pool!Close, Pool!poolVars
<1> QED  BY <1>3, <1>4

LEMMA PoolStep ==
  ASSUME MaxRate = RateUnit, PoolInv, [Next]_vars
  PROVE  Pool!PoolNext \/ UNCHANGED Pool!poolVars
<1>1. CASE Tick
  BY <1>1, TickMoves DEF Pool!PoolNext
<1>2. CASE AccrueInterest
  <2>1. jet' = jet
    BY <1>2, UnitRefreshed DEF AccrueInterest, PoolInv, TypeOK
  <2> QED  BY <1>2, <2>1 DEF AccrueInterest, Pool!poolVars
<1>3. ASSUME NEW e \in Schedules, initialize_vault(e)
      PROVE  UNCHANGED Pool!poolVars
  <2>1. /\ epoch_times = NoVault /\ epoch_times' = e /\ e # NoVault
        /\ now' = now /\ now <= e.start_epoch
        /\ user_usdc' = user_usdc /\ user_redeemable' = user_redeemable
    <3>1. now \in Int /\ e.start_epoch \in Int
      BY VaultAssumption DEF PoolInv, TypeOK, EpochTimes
    <3>2. now <= e.start_epoch
      BY <1>3, <3>1 DEF initialize_vault, ValidEpochTimes
    <3> QED  BY <1>3, <3>2, VaultAssumption DEF initialize_vault
  <2>2. supply' = supply /\ vault_usdc' = vault_usdc /\ jet' = jet
    BY <1>3 DEF initialize_vault, PoolInv, ScheduleInv
  <2> QED  BY <2>1, <2>2 DEF Pool!poolVars
<1>4. ASSUME NEW u \in Users, initialize_user_redeemable_token_account(u)
      PROVE  UNCHANGED Pool!poolVars
  BY <1>4 DEF initialize_user_redeemable_token_account, Pool!poolVars
<1>5. ASSUME NEW u \in Users, NEW a \in Deposits,
             deposit_vault(u, a) \/ initialize_user_and_deposit(u, a)
      PROVE  Pool!PoolNext
  BY <1>5, DepositJoins DEF deposit_vault, initialize_user_and_deposit, Pool!PoolNext
<1>6. ASSUME NEW u \in Users, NEW a \in Redemptions, withdraw_vault(u, a)
      PROVE  Pool!PoolNext
  BY <1>6, WithdrawLeaves DEF Pool!PoolNext
<1>7. CASE UNCHANGED vars
  BY <1>7 DEF vars, accounts, Pool!poolVars
<1> QED  BY <1>1, <1>2, <1>3, <1>4, <1>5, <1>6, <1>7 DEF Next

\* At constant rates the vault is a pool of USDC owned in shares: joining
\* and leaving move exactly what the users pay and get, leaving never takes
\* more than the leaver's part, and no other instruction, no tick and no
\* movement between the vault and Jet (lib.rs:228-270, 318-362) changes what
\* the pool is worth.
THEOREM VaultImplementsPool ==
  MaxRate = RateUnit /\ FullyCollateralized => (Spec => ImplementsPool)
<1> SUFFICES ASSUME MaxRate = RateUnit, FullyCollateralized
             PROVE  Spec => ImplementsPool
  OBVIOUS
<1>1. Init => Pool!PoolInit
  <2> SUFFICES ASSUME Init PROVE Pool!PoolInit
    OBVIOUS
  <2>1. vault_usdc = 0 /\ jet.deposit_account = 0 /\ jet.collateral_account = 0
        /\ jet.loan_account = 0
    BY DEF Init, NewPosition
  <2>2. 0 + 0 + 0 - 0 = 0
    OBVIOUS
  <2> QED  BY <2>1, <2>2 DEF Init, Pool!PoolInit
<1>2. TypeOK /\ Covered /\ ScheduleInv /\ [Next]_vars => [Pool!PoolNext]_(Pool!poolVars)
  BY PoolStep DEF PoolInv
<1> QED  BY <1>1, <1>2, TypeCorrect, AlwaysCovered, ScheduleAlways, PTL
         DEF Spec, ImplementsPool, Pool!PoolSpec

\* At constant rates those who stay are never diluted by those who leave: a
\* withdrawal takes no more of the net worth than of the supply
\* (lib.rs:294-299), with the loan, the parked notes and the rounding.
THEOREM LeavingDilutesNobody ==
  MaxRate = RateUnit /\ FullyCollateralized => (Spec => LeavingNeverDilutes)
<1> SUFFICES ASSUME MaxRate = RateUnit, FullyCollateralized
             PROVE  Spec => LeavingNeverDilutes
  OBVIOUS
<1> DEFINE Fair == supply' < supply => NetWorth' * supply >= NetWorth * supply'
<1>1. TypeOK /\ TypeOK' /\ Covered /\ ScheduleInv /\ [Next]_vars => [Fair]_vars
  <2> SUFFICES ASSUME TypeOK, TypeOK', PoolInv, Next, supply' < supply
               PROVE  NetWorth' * supply >= NetWorth * supply'
    BY DEF PoolInv
  <2>1. supply \in Nat
    BY WordAssumption DEF TypeOK, U64
  <2>2. \E u \in Users, a \in Redemptions : withdraw_vault(u, a)
    <3>1. \A a \in Deposits : a \in Nat
      BY VaultAssumption, WordAssumption DEF U64
    <3> QED  BY <2>1, <3>1
             DEF Next, Tick, accounts, AccrueInterest, initialize_vault,
                 initialize_user_redeemable_token_account, deposit_vault,
                 initialize_user_and_deposit, DepositUsdc, PoolInv, ScheduleInv
  <2>3. PICK burned \in Nat, paid \in Nat :
          /\ paid * supply <= burned * Worth
          /\ supply' = supply - burned /\ Worth' = Worth - paid
    BY <2>2, WithdrawLeaves DEF Pool!Leave, Worth
  <2>4. Worth \in Int /\ Worth' \in Int
    BY PositionParts, WordAssumption DEF TypeOK, U64, Worth
  <2>5. NetWorth = Worth * RateUnit /\ NetWorth' = Worth' * RateUnit
    <3>1. /\ RateUnit \in Nat
          /\ jet.deposit_rate = RateUnit /\ jet.loan_rate = RateUnit
          /\ jet'.deposit_rate = RateUnit /\ jet'.loan_rate = RateUnit
      BY RateAssumption DEF TypeOK, Position, Rates
    <3>2. /\ vault_usdc \in Int /\ jet.deposit_account \in Int
          /\ jet.collateral_account \in Int /\ jet.loan_account \in Int
          /\ vault_usdc' \in Int /\ jet'.deposit_account \in Int
          /\ jet'.collateral_account \in Int /\ jet'.loan_account \in Int
      BY PositionParts, WordAssumption DEF TypeOK, U64
    <3>3. ASSUME NEW v \in Int, NEW d \in Int, NEW c \in Int, NEW l \in Int, NEW r \in Nat
          PROVE  v * r + (d + c) * r - l * r = (v + d + c - l) * r
      OBVIOUS
    <3> QED  BY <3>1, <3>2, <3>3 DEF NetWorth, Worth
  <2>6. Worth' * supply >= Worth * supply'
    <3> DEFINE w == Worth
    <3>1. (w - paid) * supply = w * supply - paid * supply
      BY <2>1, <2>4
    <3>2. w * (supply - burned) = w * supply - burned * w
      BY <2>1, <2>4
    <3>3. w * supply \in Int /\ paid * supply \in Int /\ burned * w \in Int
      BY <2>1, <2>4
    <3> HIDE DEF w
    <3>4. (w - paid) * supply >= w * (supply - burned)
      BY <2>3, <3>1, <3>2, <3>3 DEF w
    <3> QED  BY <2>3, <3>4 DEF w
  <2>7. ASSUME NEW x \in Int, NEW y \in Int, NEW m \in Int, NEW n \in Int, NEW r \in Nat,
               x * m >= y * n
        PROVE  (x * r) * m >= (y * r) * n
    <3>1. x * m \in Int /\ y * n \in Int
      OBVIOUS
    <3>2. (x * m) * r >= (y * n) * r
      BY <2>7, <3>1
    <3> QED  BY <3>2
  <2>8. RateUnit \in Nat /\ supply' \in Int
    BY RateAssumption, WordAssumption DEF TypeOK, U64
  <2> DEFINE before == Worth
  <2> DEFINE after == Worth'
  <2> DEFINE left == supply'
  <2>9. before \in Int /\ after \in Int /\ left \in Int /\ after * supply >= before * left
    BY <2>4, <2>6, <2>8
  <2> HIDE DEF before, after, left
  <2>10. (after * RateUnit) * supply >= (before * RateUnit) * left
    BY <2>1, <2>7, <2>8, <2>9
  <2> QED  BY <2>5, <2>10 DEF before, after, left
<1>2. Spec => []TypeOK /\ []Covered /\ []ScheduleInv
  BY TypeCorrect, AlwaysCovered, ScheduleAlways, PTL
<1> HIDE DEF Fair
<1>3. Spec => [][Fair]_vars
  BY <1>1, <1>2, PTL DEF Spec
<1> QED  BY <1>3 DEF LeavingNeverDilutes, Fair
=============================================================================
