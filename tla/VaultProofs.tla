---------------------------- MODULE VaultProofs ----------------------------
(***************************************************************************)
(* Theorems about Vault, for every machine word, every set of users and    *)
(* arguments, every schedule and every bound on the rates and the clock.   *)
(***************************************************************************)
EXTENDS Vault, TLAPS

-----------------------------------------------------------------------------
(* Machine integers and the Jet position: what each operator of Jet        *)
(* returns, changes and bounds.                                            *)

\* Wrapped arithmetic stays in the machine word (release build, u64).
LEMMA WrapType == \A x \in Int : Wrap(x) \in U64
  BY WordAssumption DEF Wrap, U64

\* A value that fits is not changed, and wrapping never increases a value.
LEMMA WrapBounds ==
  /\ \A x \in U64 : Wrap(x) = x
  /\ \A x \in Nat : Wrap(x) <= x
  BY WordAssumption DEF Wrap, U64

\* Integer division of naturals, as in the handlers: its type and rounding.
LEMMA Quotient ==
  ASSUME NEW a \in Nat, NEW b \in Nat \ {0}
  PROVE  /\ a \div b \in Nat
         /\ b * (a \div b) <= a
         /\ a < b * (a \div b + 1)
  OBVIOUS

\* A quotient grows with its numerator.
LEMMA QuotientMonotone ==
  ASSUME NEW a \in Nat, NEW c \in Nat, NEW b \in Nat \ {0}, a <= c
  PROVE  a \div b <= c \div b
  OBVIOUS

\* Dividing t*n by a divisor of at least n gives at most t.
LEMMA QuotientAtMost ==
  ASSUME NEW t \in Nat, NEW n \in Nat \ {0}, NEW b \in Nat, n <= b
  PROVE  (t * n) \div b <= t
<1> DEFINE q == (t * n) \div b
<1>1. b \in Nat \ {0} /\ t * n \in Nat
  OBVIOUS
<1>2. q \in Nat /\ b * q <= t * n
  BY <1>1, Quotient
<1>3. n * q <= b * q
  BY <1>2
<1>4. n * q <= n * t
  BY <1>2, <1>3
<1> HIDE DEF q
<1>5. q <= t
  BY <1>2, <1>4
<1> QED  BY <1>5 DEF q

\* A position's parts.
LEMMA PositionParts ==
  ASSUME NEW j \in Position
  PROVE  /\ j.deposit_account \in Nat /\ j.collateral_account \in Nat
         /\ j.loan_account \in Nat /\ j.liquidity \in Nat
         /\ j.deposit_rate \in Nat \ {0} /\ j.loan_rate \in Nat \ {0}
         /\ RateUnit <= j.deposit_rate /\ RateUnit <= j.loan_rate
  BY WordAssumption, RateAssumption DEF Position, U64, Rates

\* Conversions to notes: their types, and that at rates of at least RateUnit
\* a number of tokens is never worth more notes than that number.
LEMMA NoteConversions ==
  ASSUME NEW j \in Position, NEW t \in Nat
  PROVE  /\ DepositNotes(j, t) \in 0 .. t
         /\ NotesRepaid(j, t) \in 0 .. t
         /\ NotesOwed(j, t) \in Nat
<1>1. /\ t * RateUnit \in Nat /\ RateUnit \in Nat \ {0}
      /\ j.deposit_rate \in Nat \ {0} /\ RateUnit <= j.deposit_rate
      /\ j.loan_rate \in Nat \ {0} /\ RateUnit <= j.loan_rate
  BY RateAssumption, PositionParts
<1>2. DepositNotes(j, t) \in 0 .. t
  <2>1. (t * RateUnit) \div j.deposit_rate \in Nat
    BY <1>1, Quotient
  <2>2. (t * RateUnit) \div j.deposit_rate <= t
    BY <1>1, QuotientAtMost
  <2> QED  BY <2>1, <2>2 DEF DepositNotes
<1>3. NotesRepaid(j, t) \in 0 .. t
  <2>1. (t * RateUnit) \div j.loan_rate \in Nat
    BY <1>1, Quotient
  <2>2. (t * RateUnit) \div j.loan_rate <= t
    BY <1>1, QuotientAtMost
  <2> QED  BY <2>1, <2>2 DEF NotesRepaid
<1>4. t * RateUnit + j.loan_rate - 1 \in Nat
  BY <1>1
<1>5. NotesOwed(j, t) \in Nat
  BY <1>1, <1>4, Quotient DEF NotesOwed
<1> QED  BY <1>2, <1>3, <1>5

\* refresh_reserve changes the rates alone, and only upwards.
LEMMA RefreshedParts ==
  ASSUME NEW j \in Position, NEW k \in Refreshed(j)
  PROVE  /\ k \in Position
         /\ k.deposit_account = j.deposit_account
         /\ k.collateral_account = j.collateral_account
         /\ k.loan_account = j.loan_account
         /\ k.liquidity = j.liquidity
         /\ j.deposit_rate <= k.deposit_rate /\ j.loan_rate <= k.loan_rate
         /\ k.deposit_rate <= k.loan_rate
<1>1. PICK r \in AccruedRates(j) :
        k = [j EXCEPT !.deposit_rate = r[1], !.loan_rate = r[2]]
  BY DEF Refreshed
<1>2. /\ r[1] \in Rates /\ r[2] \in Rates
      /\ j.deposit_rate <= r[1] /\ j.loan_rate <= r[2] /\ r[1] <= r[2]
  BY RateAssumption, PositionParts DEF Rates, AccruedRates
<1>3. k \in Position
  BY <1>1, <1>2 DEF Position
<1>4. k.deposit_rate = r[1] /\ k.loan_rate = r[2]
  BY <1>1 DEF Position
<1> QED  BY <1>1, <1>2, <1>3, <1>4 DEF Position

\* What each CPI into Jet does to a position it accepts.
LEMMA DepositedParts ==
  ASSUME NEW j \in Position, NEW t \in Nat, CanDeposit(j, t)
  PROVE  /\ Deposited(j, t) \in Position
         /\ Deposited(j, t) =
              [j EXCEPT !.deposit_account = j.deposit_account + DepositNotes(j, t),
                        !.liquidity = j.liquidity + t]
  BY DEF CanDeposit, Deposited, Position

LEMMA CollateralDepositedParts ==
  ASSUME NEW j \in Position, NEW t \in Nat, CanDepositCollateral(j, t)
  PROVE  CollateralDeposited(j, t) \in Position
<1>1. j.deposit_account - DepositNotes(j, t) \in U64
  BY NoteConversions, PositionParts, WordAssumption DEF CanDepositCollateral, U64, Position
<1> QED  BY <1>1 DEF CanDepositCollateral, CollateralDeposited, Position

LEMMA BorrowedParts ==
  ASSUME NEW j \in Position, NEW t \in Nat, CanBorrow(j, t)
  PROVE  Borrowed(j, t) \in Position
<1>1. j.liquidity - t \in U64
  BY PositionParts, WordAssumption DEF CanBorrow, U64, Position
<1> QED  BY <1>1 DEF CanBorrow, Borrowed, Position

LEMMA RepaidParts ==
  ASSUME NEW j \in Position, NEW t \in Nat, CanRepay(j, t)
  PROVE  Repaid(j, t) \in Position
<1>1. j.loan_account - NotesRepaid(j, t) \in U64
  BY NoteConversions, PositionParts, WordAssumption DEF CanRepay, U64, Position
<1> QED  BY <1>1 DEF CanRepay, Repaid, Position

LEMMA CollateralWithdrawnParts ==
  ASSUME NEW j \in Position, NEW t \in Nat, CanWithdrawCollateral(j, t)
  PROVE  CollateralWithdrawn(j, t) \in Position
<1>1. j.collateral_account - DepositNotes(j, t) \in U64
  BY NoteConversions, PositionParts, WordAssumption DEF CanWithdrawCollateral, U64, Position
<1> QED  BY <1>1 DEF CanWithdrawCollateral, CollateralWithdrawn, Position

-----------------------------------------------------------------------------
(* The amounts *)

\* The amounts of deposit_vault are u64 values.
LEMMA DepositAmountTypes ==
  ASSUME TypeOK, NEW a \in U64, supply > 0 => vault_usdc > 0
  PROVE  /\ redeemable_amount(a) \in U64
         /\ DepositTokens(a) \in Nat
         /\ CollateralTokens(a) = DepositTokens(a)
         /\ BorrowTokens(a) \in Nat
<1>1. a \in Nat /\ supply \in Nat /\ vault_usdc \in Nat
  BY WordAssumption DEF TypeOK, U64
<1>2. redeemable_amount(a) \in U64
  <2>1. CASE supply > 0
    <3>1. a * supply \in Nat /\ vault_usdc \in Nat \ {0}
      BY <1>1, <2>1
    <3>2. (a * supply) \div vault_usdc \in Int
      BY <3>1, Quotient
    <3> QED  BY <2>1, <3>2, WrapType DEF redeemable_amount
  <2>2. CASE ~(supply > 0)
    BY <1>1, <2>2, WrapType DEF redeemable_amount
  <2> QED  BY <2>1, <2>2
<1>3. DepositTokens(a) \in Nat
  <2>1. Wrap(a * 90) \in Nat
    BY <1>1, WrapType, WordAssumption DEF U64
  <2> QED  BY <2>1, Quotient DEF DepositTokens
<1>4. BorrowTokens(a) \in Nat
  BY <1>1, Quotient DEF BorrowTokens
<1> QED  BY <1>2, <1>3, <1>4 DEF DepositTokens, CollateralTokens

\* The amounts of withdraw_vault are u64 values, and what is sent is the
\* exact product: it never wraps for an amount of the supply.
LEMMA WithdrawAmountTypes ==
  ASSUME TypeOK, supply > 0, NEW a \in 0 .. supply
  PROVE  /\ usdc_equity \in U64
         /\ usdc_fx_rate \in Nat
         /\ a * usdc_fx_rate \in Nat
         /\ a * usdc_fx_rate <= usdc_equity
         /\ usdc_to_send_user(a) = a * usdc_fx_rate
         /\ usdc_to_send_user(a) \in U64
         /\ usdc_to_repay_jet(a) \in Nat
         /\ usdc_to_repay_jet(a) <= jet.loan_account
<1>1. /\ supply \in Nat \ {0} /\ a \in Nat /\ a <= supply /\ vault_usdc \in Nat
      /\ jet.loan_account \in Nat /\ jet.collateral_account \in Nat
  BY WordAssumption, PositionParts DEF TypeOK, U64
<1>2. usdc_equity \in U64
  BY <1>1, WrapType DEF usdc_equity
<1>3. /\ usdc_fx_rate \in Nat
      /\ supply * usdc_fx_rate <= usdc_equity
  <2>1. usdc_equity \in Nat
    BY <1>2, WordAssumption DEF U64
  <2> QED  BY <1>1, <2>1, Quotient DEF usdc_fx_rate
<1>4. a * usdc_fx_rate \in Nat /\ a * usdc_fx_rate <= supply * usdc_fx_rate
  BY <1>1, <1>3
<1>5. /\ a * usdc_fx_rate <= usdc_equity
      /\ a * usdc_fx_rate \in U64
  <2> DEFINE share == a * usdc_fx_rate
  <2> DEFINE whole == supply * usdc_fx_rate
  <2>1. share \in Nat /\ whole \in Nat /\ share <= whole /\ whole <= usdc_equity
    BY <1>1, <1>3, <1>4
  <2> HIDE DEF share, whole
  <2>2. share <= usdc_equity /\ share \in U64
    BY <1>2, <2>1, WordAssumption DEF U64
  <2> QED  BY <2>2 DEF share
<1>6. usdc_to_send_user(a) = a * usdc_fx_rate
  BY <1>5, WrapBounds DEF usdc_to_send_user
<1>7. usdc_to_repay_jet(a) \in Nat /\ usdc_to_repay_jet(a) <= jet.loan_account
  BY <1>1, <1>4, <1>6 DEF usdc_to_repay_jet, Smaller
<1> QED  BY <1>2, <1>3, <1>4, <1>5, <1>6, <1>7

\* For any amount, even one that is more than the supply, the repayment is a
\* u64 value no greater than the loan.
LEMMA RepaymentBounds ==
  ASSUME TypeOK, supply > 0, NEW a \in Redemptions
  PROVE  usdc_to_repay_jet(a) \in Nat /\ usdc_to_repay_jet(a) <= jet.loan_account
<1>1. /\ supply \in Nat \ {0} /\ a \in Nat /\ vault_usdc \in Nat
      /\ jet.loan_account \in Nat /\ jet.collateral_account \in Nat
  BY VaultAssumption, WordAssumption, PositionParts DEF TypeOK, U64
<1>2. usdc_equity \in Nat
  BY <1>1, WrapType, WordAssumption DEF usdc_equity, U64
<1>3. usdc_fx_rate \in Nat
  BY <1>1, <1>2, Quotient DEF usdc_fx_rate
<1>4. usdc_to_send_user(a) \in Nat
  <2>1. a * usdc_fx_rate \in Nat
    BY <1>1, <1>3
  <2> QED  BY <2>1, WrapType, WordAssumption DEF usdc_to_send_user, U64
<1> QED  BY <1>1, <1>4 DEF usdc_to_repay_jet, Smaller

-----------------------------------------------------------------------------
(* Type correctness *)

LEMMA InitTypeOK == Init => TypeOK
<1> SUFFICES ASSUME Init PROVE TypeOK
  OBVIOUS
<1>1. 0 \in U64
  BY WordAssumption DEF U64
<1>2. NewPosition \in Position
  BY <1>1, RateAssumption DEF NewPosition, Position, Rates
<1> QED  BY <1>1, <1>2, VaultAssumption DEF Init, TypeOK

LEMMA DepositTypeOK ==
  ASSUME TypeOK, NEW u \in Users, NEW a \in Deposits, DepositUsdc(u, a),
         opened' \subseteq Users
  PROVE  TypeOK'
<1> DEFINE paid == redeemable_amount(a)
<1> DEFINE deposited == DepositTokens(a)
<1> DEFINE posted == CollateralTokens(a)
<1> DEFINE borrowed == BorrowTokens(a)
<1>1. /\ a \in U64 /\ paid \in U64 /\ deposited \in Nat /\ posted \in Nat
      /\ borrowed \in Nat
  BY DepositAmountTypes, VaultAssumption DEF DepositUsdc
<1>2. jet' \in Position
  <2>1. PICK j0 \in Refreshed(jet) :
          LET j1 == Deposited(j0, deposited)
              j2 == CollateralDeposited(j1, posted)
          IN /\ CanDeposit(j0, deposited)
             /\ CanDepositCollateral(j1, posted)
             /\ CanBorrow(j2, borrowed)
             /\ jet' = Borrowed(j2, borrowed)
    BY DEF DepositUsdc
  <2>2. j0 \in Position
    BY RefreshedParts DEF TypeOK
  <2>3. Deposited(j0, deposited) \in Position
    BY <1>1, <2>1, <2>2, DepositedParts
  <2>4. CollateralDeposited(Deposited(j0, deposited), posted) \in Position
    BY <1>1, <2>1, <2>3, CollateralDepositedParts
  <2> QED  BY <1>1, <2>1, <2>4, BorrowedParts
<1>3. user_usdc' \in [Users -> U64]
  <2>1. user_usdc[u] - paid \in U64
    BY <1>1, WordAssumption DEF DepositUsdc, TypeOK, U64
  <2> QED  BY <2>1 DEF DepositUsdc, TypeOK
<1>4. user_redeemable' \in [Users -> U64] /\ supply' \in U64 /\ vault_usdc' \in U64
  BY DEF DepositUsdc, TypeOK
<1>5. now' \in 0 .. MaxTime /\ epoch_times' \in Schedules \cup {NoVault}
  BY DEF DepositUsdc, TypeOK
<1> QED  BY <1>2, <1>3, <1>4, <1>5 DEF TypeOK

LEMMA WithdrawTypeOK ==
  ASSUME TypeOK, NEW u \in Users, NEW a \in Redemptions, withdraw_vault(u, a)
  PROVE  TypeOK'
<1> DEFINE sent == usdc_to_send_user(a)
<1> DEFINE repaid == usdc_to_repay_jet(a)
<1>1. a \in 0 .. supply /\ sent \in U64 /\ repaid \in Nat
  <2>1. a \in 0 .. supply /\ supply > 0
    BY VaultAssumption, WordAssumption DEF withdraw_vault, TypeOK, U64
  <2> QED  BY <2>1, WithdrawAmountTypes
<1>2. jet' \in Position
  <2>1. PICK j0 \in Refreshed(jet) :
          LET j1 == Repaid(j0, repaid)
          IN /\ CanRepay(j0, repaid)
             /\ CanWithdrawCollateral(j1, repaid)
             /\ jet' = CollateralWithdrawn(j1, repaid)
    BY DEF withdraw_vault
  <2>2. j0 \in Position
    BY RefreshedParts DEF TypeOK
  <2>3. Repaid(j0, repaid) \in Position
    BY <1>1, <2>1, <2>2, RepaidParts
  <2> QED  BY <1>1, <2>1, <2>3, CollateralWithdrawnParts
<1>3. vault_usdc' \in U64
  BY <1>1, WordAssumption DEF withdraw_vault, TypeOK, U64
<1>4. user_usdc' \in [Users -> U64]
  BY DEF withdraw_vault, TypeOK
<1>5. user_redeemable' \in [Users -> U64] /\ supply' \in U64
  <2>1. user_redeemable[u] - a \in U64 /\ supply - a \in U64
    BY <1>1, WordAssumption DEF withdraw_vault, HasRedeemable, TypeOK, U64
  <2> QED  BY <2>1 DEF withdraw_vault, TypeOK
<1>6. opened' \subseteq Users
  BY DEF withdraw_vault, TypeOK
<1>7. now' \in 0 .. MaxTime /\ epoch_times' \in Schedules \cup {NoVault}
  BY DEF withdraw_vault, TypeOK
<1> QED  BY <1>2, <1>3, <1>4, <1>5, <1>6, <1>7 DEF TypeOK

LEMMA NextTypeOK == TypeOK /\ [Next]_vars => TypeOK'
<1> SUFFICES ASSUME TypeOK, [Next]_vars PROVE TypeOK'
  OBVIOUS
<1>1. CASE Tick
  BY <1>1, VaultAssumption DEF Tick, TypeOK, accounts
<1>2. CASE AccrueInterest
  BY <1>2, RefreshedParts DEF AccrueInterest, TypeOK
<1>3. ASSUME NEW e \in Schedules, initialize_vault(e) PROVE TypeOK'
  <2>1. 0 \in U64 /\ NewPosition \in Position
    BY WordAssumption, RateAssumption DEF U64, NewPosition, Position, Rates
  <2> QED  BY <1>3, <2>1 DEF initialize_vault, TypeOK
<1>4. ASSUME NEW u \in Users, initialize_user_redeemable_token_account(u)
      PROVE  TypeOK'
  BY <1>4 DEF initialize_user_redeemable_token_account, TypeOK
<1>5. ASSUME NEW u \in Users, NEW a \in Deposits, deposit_vault(u, a)
      PROVE  TypeOK'
  BY <1>5, DepositTypeOK DEF deposit_vault, TypeOK
<1>6. ASSUME NEW u \in Users, NEW a \in Deposits, initialize_user_and_deposit(u, a)
      PROVE  TypeOK'
  BY <1>6, DepositTypeOK DEF initialize_user_and_deposit, TypeOK
<1>7. ASSUME NEW u \in Users, NEW a \in Redemptions, withdraw_vault(u, a)
      PROVE  TypeOK'
  BY <1>7, WithdrawTypeOK
<1>8. CASE UNCHANGED vars
  BY <1>8 DEF vars, accounts, TypeOK
<1> QED  BY <1>1, <1>2, <1>3, <1>4, <1>5, <1>6, <1>7, <1>8 DEF Next

\* Every account holds a u64 and every note account a valid position, in
\* every reachable state: no guard of the handlers, the token program or Jet
\* is missing for the arithmetic to make sense.
THEOREM TypeCorrect == Spec => []TypeOK
  BY InitTypeOK, NextTypeOK, PTL DEF Spec

-----------------------------------------------------------------------------
(* The withdrawal rate *)

\* usdc_to_send_user (lib.rs:297) is computed without overflow in every
\* reachable state, however narrow the machine word: the rate is a quotient
\* by the supply and the amount burned is part of it.
THEOREM PayoutExact == Spec => []PayoutNeverWraps
<1>1. TypeOK => PayoutNeverWraps
  <2> SUFFICES ASSUME TypeOK, supply > 0, NEW a \in 0 .. supply
               PROVE  a * usdc_fx_rate < Word
    BY DEF PayoutNeverWraps
  <2>1. a * usdc_fx_rate <= usdc_equity /\ usdc_equity \in U64 /\ a * usdc_fx_rate \in Nat
    BY WithdrawAmountTypes
  <2> QED  BY <2>1, WordAssumption DEF U64
<1> QED  BY <1>1, TypeCorrect, PTL

-----------------------------------------------------------------------------
(* The Jet position.  Covered is inductive as soon as Jet asks for at       *)
(* least as much collateral as it lends: both instructions end with a call  *)
(* that Jet only accepts from a healthy position.                           *)

Covered ==
  /\ jet.loan_account <= jet.collateral_account
  /\ jet.deposit_rate <= jet.loan_rate

\* A healthy position owes no more loan notes than it has posted, when a
\* deposit note is worth no more than a loan note.
LEMMA HealthyIsCovered ==
  ASSUME MinCollateralRatio >= 100, NEW j \in Position, Healthy(j),
         j.deposit_rate <= j.loan_rate
  PROVE  j.loan_account <= j.collateral_account
<1> DEFINE l == j.loan_account
<1> DEFINE c == j.collateral_account
<1> DEFINE r == j.loan_rate
<1>1. l \in Nat /\ c \in Nat /\ r \in Nat \ {0} /\ j.deposit_rate \in Nat
  BY PositionParts
<1>2. MinCollateralRatio \in Nat
  BY RateAssumption
<1>3. l * r * 100 <= l * r * MinCollateralRatio
  <2>1. l * r \in Nat
    BY <1>1
  <2> QED  BY <1>2, <2>1
<1>4. c * j.deposit_rate <= c * r
  BY <1>1
<1>5. l * r * 100 <= c * r * 100
  <2>1. /\ l * r \in Nat /\ c * r \in Nat /\ c * j.deposit_rate \in Nat
        /\ l * r * MinCollateralRatio \in Nat
    BY <1>1, <1>2
  <2>2. l * r * MinCollateralRatio <= c * j.deposit_rate * 100
    BY DEF Healthy
  <2> QED  BY <1>3, <1>4, <2>1, <2>2
<1>6. l * r <= c * r
  <2>1. l * r \in Nat /\ c * r \in Nat
    BY <1>1
  <2> QED  BY <1>5, <2>1
<1> HIDE DEF l, c, r
<1>7. l <= c
  BY <1>1, <1>6
<1> QED  BY <1>7 DEF l, c

LEMMA DepositCovered ==
  ASSUME MinCollateralRatio >= 100, TypeOK, Covered,
         NEW u \in Users, NEW a \in Deposits, DepositUsdc(u, a)
  PROVE  Covered'
<1> DEFINE deposited == DepositTokens(a)
<1> DEFINE posted == CollateralTokens(a)
<1> DEFINE borrowed == BorrowTokens(a)
<1>1. deposited \in Nat /\ posted \in Nat /\ borrowed \in Nat
  BY DepositAmountTypes, VaultAssumption DEF DepositUsdc
<1>2. PICK j0 \in Refreshed(jet) :
        LET j1 == Deposited(j0, deposited)
            j2 == CollateralDeposited(j1, posted)
        IN /\ CanDeposit(j0, deposited)
           /\ CanDepositCollateral(j1, posted)
           /\ CanBorrow(j2, borrowed)
           /\ jet' = Borrowed(j2, borrowed)
  BY DEF DepositUsdc
<1> DEFINE j1 == Deposited(j0, deposited)
<1> DEFINE j2 == CollateralDeposited(j1, posted)
<1>3. j0 \in Position /\ j0.deposit_rate <= j0.loan_rate
  BY RefreshedParts DEF TypeOK
<1>4. j1 \in Position
  BY <1>1, <1>2, <1>3, DepositedParts
<1>5. j2 \in Position
  BY <1>1, <1>2, <1>4, CollateralDepositedParts
<1>6. jet' \in Position /\ Healthy(jet')
  BY <1>1, <1>2, <1>5, BorrowedParts DEF CanBorrow
<1>7. jet'.deposit_rate = j0.deposit_rate /\ jet'.loan_rate = j0.loan_rate
  BY <1>2, <1>3, <1>4, <1>5, <1>6
     DEF Deposited, CollateralDeposited, Borrowed, Position
<1> QED  BY <1>3, <1>6, <1>7, HealthyIsCovered DEF Covered

LEMMA WithdrawCovered ==
  ASSUME MinCollateralRatio >= 100, TypeOK, Covered,
         NEW u \in Users, NEW a \in Redemptions, withdraw_vault(u, a)
  PROVE  Covered'
<1> DEFINE repaid == usdc_to_repay_jet(a)
<1>1. repaid \in Nat
  <2>1. a \in 0 .. supply /\ supply > 0
    BY VaultAssumption, WordAssumption DEF withdraw_vault, TypeOK, U64
  <2> QED  BY <2>1, WithdrawAmountTypes
<1>2. PICK j0 \in Refreshed(jet) :
        LET j1 == Repaid(j0, repaid)
        IN /\ CanRepay(j0, repaid)
           /\ CanWithdrawCollateral(j1, repaid)
           /\ jet' = CollateralWithdrawn(j1, repaid)
  BY DEF withdraw_vault
<1> DEFINE j1 == Repaid(j0, repaid)
<1>3. j0 \in Position /\ j0.deposit_rate <= j0.loan_rate
  BY RefreshedParts DEF TypeOK
<1>4. j1 \in Position
  BY <1>1, <1>2, <1>3, RepaidParts
<1>5. jet' \in Position /\ Healthy(jet')
  BY <1>1, <1>2, <1>4, CollateralWithdrawnParts DEF CanWithdrawCollateral
<1>6. jet'.deposit_rate = j0.deposit_rate /\ jet'.loan_rate = j0.loan_rate
  BY <1>2, <1>3, <1>4, <1>5 DEF Repaid, CollateralWithdrawn, Position
<1> QED  BY <1>3, <1>5, <1>6, HealthyIsCovered DEF Covered

LEMMA NextCovered ==
  ASSUME MinCollateralRatio >= 100, TypeOK, Covered, [Next]_vars
  PROVE  Covered'
<1>1. CASE Tick
  BY <1>1 DEF Tick, Covered, accounts
<1>2. CASE AccrueInterest
  BY <1>2, RefreshedParts DEF AccrueInterest, TypeOK, Covered
<1>3. ASSUME NEW e \in Schedules, initialize_vault(e) PROVE Covered'
  BY <1>3, RateAssumption DEF initialize_vault, Covered, NewPosition
<1>4. ASSUME NEW u \in Users, initialize_user_redeemable_token_account(u)
      PROVE  Covered'
  BY <1>4 DEF initialize_user_redeemable_token_account, Covered
<1>5. ASSUME NEW u \in Users, NEW a \in Deposits,
             deposit_vault(u, a) \/ initialize_user_and_deposit(u, a)
      PROVE  Covered'
  BY <1>5, DepositCovered DEF deposit_vault, initialize_user_and_deposit
<1>6. ASSUME NEW u \in Users, NEW a \in Redemptions, withdraw_vault(u, a)
      PROVE  Covered'
  BY <1>6, WithdrawCovered
<1>7. CASE UNCHANGED vars
  BY <1>7 DEF vars, accounts, Covered
<1> QED  BY <1>1, <1>2, <1>3, <1>4, <1>5, <1>6, <1>7 DEF Next

\* Covered holds in every reachable state if Jet asks for full collateral,
\* whatever interest accrues between and within the instructions.
THEOREM CoveredAlways == MinCollateralRatio >= 100 => (Spec => []Covered)
<1> SUFFICES ASSUME MinCollateralRatio >= 100 PROVE Spec => []Covered
  OBVIOUS
<1>1. Init => Covered
  BY RateAssumption DEF Init, Covered, NewPosition
<1>2. TypeOK /\ Covered /\ [Next]_vars => Covered'
  BY NextCovered
<1> QED  BY <1>1, <1>2, TypeCorrect, PTL DEF Spec

\* A covered loan leaves an equity that is no negative number.
LEMMA CoveredHasEquity == TypeOK /\ Covered => EquityCovered
BY PositionParts, WordAssumption DEF TypeOK, U64, Covered, EquityCovered

\* The repayment is at most the number of loan notes, and notes only become
\* dearer than tokens.
LEMMA CoveredCanRepay == TypeOK /\ Covered => RepaymentInRange
<1> SUFFICES ASSUME TypeOK, Covered, supply > 0,
                    NEW a \in Redemptions, NEW j \in Refreshed(jet)
             PROVE  LET repaid == usdc_to_repay_jet(a)
                    IN /\ NotesRepaid(j, repaid) <= j.loan_account
                       /\ DepositNotes(j, repaid) <= j.collateral_account
  BY DEF RepaymentInRange
<1> DEFINE repaid == usdc_to_repay_jet(a)
<1>1. repaid \in Nat /\ repaid <= jet.loan_account
  BY RepaymentBounds
<1>2. /\ j \in Position /\ j.loan_account = jet.loan_account
      /\ j.collateral_account = jet.collateral_account
  BY RefreshedParts DEF TypeOK
<1>3. NotesRepaid(j, repaid) \in 0 .. repaid /\ DepositNotes(j, repaid) \in 0 .. repaid
  BY <1>1, <1>2, NoteConversions
<1>4. jet.loan_account \in Nat /\ jet.collateral_account \in Nat
  BY PositionParts DEF TypeOK
<1> QED  BY <1>1, <1>2, <1>3, <1>4 DEF Covered

-----------------------------------------------------------------------------
(* Deposit notes *)

\* Before the admin initializes the vault nothing is in Jet, so that
\* initialize_vault has no position to overwrite.
Unused == epoch_times = NoVault => jet = NewPosition

LEMMA UnusedBefore == Spec => []Unused
<1>1. Init => Unused
  BY DEF Init, Unused
<1>2. Unused /\ [Next]_vars => Unused'
  <2> SUFFICES ASSUME Unused, [Next]_vars PROVE Unused'
    OBVIOUS
  <2>1. CASE Tick
    BY <2>1 DEF Tick, Unused, accounts
  <2>2. CASE AccrueInterest
    BY <2>2 DEF AccrueInterest, Unused
  <2>3. ASSUME NEW e \in Schedules, initialize_vault(e) PROVE Unused'
    BY <2>3 DEF initialize_vault, Unused
  <2>4. ASSUME NEW u \in Users, initialize_user_redeemable_token_account(u)
        PROVE  Unused'
    BY <2>4 DEF initialize_user_redeemable_token_account, Unused
  <2>5. ASSUME NEW u \in Users, NEW a \in Deposits,
               deposit_vault(u, a) \/ initialize_user_and_deposit(u, a)
        PROVE  Unused'
    BY <2>5 DEF deposit_vault, initialize_user_and_deposit, DepositUsdc,
                DepositWithdrawPhase, Unused
  <2>6. ASSUME NEW u \in Users, NEW a \in Redemptions, withdraw_vault(u, a)
        PROVE  Unused'
    BY <2>6 DEF withdraw_vault, DepositWithdrawPhase, Unused
  <2>7. CASE UNCHANGED vars
    BY <2>7 DEF vars, accounts, Unused
  <2> QED  BY <2>1, <2>2, <2>3, <2>4, <2>5, <2>6, <2>7 DEF Next
<1> QED  BY <1>1, <1>2, PTL DEF Spec

\* No instruction takes notes out of the deposit account for good: what a
\* withdrawal of collateral parks there stays (lib.rs:364), whatever the
\* interest and the amounts.
THEOREM ParkedNotesStay == Spec => ParkedNotesNeverMove
<1> DEFINE Stay == jet'.deposit_account >= jet.deposit_account
<1>1. ASSUME TypeOK, NEW u \in Users, NEW a \in Deposits, DepositUsdc(u, a)
      PROVE  Stay
  <2> DEFINE d == DepositTokens(a)
  <2>1. d \in Nat /\ CollateralTokens(a) = d /\ BorrowTokens(a) \in Nat
    BY <1>1, DepositAmountTypes, VaultAssumption DEF DepositUsdc
  <2>2. PICK j0 \in Refreshed(jet) :
          /\ CanDeposit(j0, d)
          /\ CanDepositCollateral(Deposited(j0, d), d)
          /\ CanBorrow(CollateralDeposited(Deposited(j0, d), d), BorrowTokens(a))
          /\ jet' = Borrowed(CollateralDeposited(Deposited(j0, d), d), BorrowTokens(a))
    BY <1>1, <2>1 DEF DepositUsdc
  <2>3. j0 \in Position /\ j0.deposit_account = jet.deposit_account
    BY <1>1, RefreshedParts DEF TypeOK
  <2> DEFINE j1 == Deposited(j0, d)
  <2> DEFINE n == DepositNotes(j0, d)
  <2>4. /\ j1 \in Position /\ n \in Nat
        /\ j1.deposit_account = j0.deposit_account + n
        /\ j1.deposit_rate = j0.deposit_rate
    <3>1. j1 \in Position
      BY <2>1, <2>2, <2>3, DepositedParts
    <3>2. n \in Nat
      <4>1. n \in 0 .. d
        BY <2>1, <2>3, NoteConversions
      <4> QED  BY <2>1, <4>1
    <3>3. j1 = [j0 EXCEPT !.deposit_account = j0.deposit_account + n,
                          !.liquidity = j0.liquidity + d]
      BY <2>1, <2>2, <2>3, DepositedParts
    <3> HIDE DEF j1, n
    <3> QED  BY <2>3, <3>1, <3>2, <3>3 DEF Position
  <2>5. DepositNotes(j1, d) = n
    BY <2>4 DEF DepositNotes
  <2> DEFINE j2 == CollateralDeposited(j1, d)
  <2>6. j2 \in Position /\ j2.deposit_account = j1.deposit_account - n
    BY <2>1, <2>2, <2>4, <2>5, CollateralDepositedParts DEF CollateralDeposited, Position
  <2>7. jet'.deposit_account = j2.deposit_account
    BY <2>2, <2>6 DEF Borrowed, Position
  <2>8. j0.deposit_account \in Nat
    BY <2>3, PositionParts
  <2> QED  BY <2>3, <2>4, <2>6, <2>7, <2>8
<1>2. ASSUME TypeOK, NEW u \in Users, NEW a \in Redemptions, withdraw_vault(u, a)
      PROVE  Stay
  <2> DEFINE repaid == usdc_to_repay_jet(a)
  <2>1. repaid \in Nat
    <3>1. supply > 0
      BY <1>2 DEF withdraw_vault
    <3> QED  BY <1>2, <3>1, RepaymentBounds
  <2>2. PICK j0 \in Refreshed(jet) :
          /\ CanRepay(j0, repaid)
          /\ CanWithdrawCollateral(Repaid(j0, repaid), repaid)
          /\ jet' = CollateralWithdrawn(Repaid(j0, repaid), repaid)
    BY <1>2 DEF withdraw_vault
  <2> DEFINE j1 == Repaid(j0, repaid)
  <2>3. j0 \in Position /\ j0.deposit_account = jet.deposit_account
    BY <1>2, RefreshedParts DEF TypeOK
  <2>4. j1 \in Position /\ j1.deposit_account = j0.deposit_account
    BY <2>1, <2>2, <2>3, RepaidParts DEF Repaid, Position
  <2>5. DepositNotes(j1, repaid) \in Nat /\ j1.deposit_account \in Nat
    BY <2>1, <2>4, NoteConversions, PositionParts
  <2>6. jet'.deposit_account = j1.deposit_account + DepositNotes(j1, repaid)
    BY <2>2, <2>4 DEF CollateralWithdrawn, Position
  <2> QED  BY <2>3, <2>4, <2>5, <2>6
<1>3. TypeOK /\ Unused /\ [Next]_vars => [Stay]_vars
  <2> SUFFICES ASSUME TypeOK, Unused, Next PROVE Stay
    OBVIOUS
  <2>0. jet.deposit_account \in Nat /\ jet \in Position
    BY PositionParts DEF TypeOK
  <2>1. CASE Tick
    BY <2>0, <2>1 DEF Tick, accounts
  <2>2. CASE AccrueInterest
    BY <2>0, <2>2, RefreshedParts DEF AccrueInterest
  <2>3. ASSUME NEW e \in Schedules, initialize_vault(e) PROVE Stay
    BY <2>3 DEF initialize_vault, Unused, NewPosition
  <2>4. ASSUME NEW u \in Users, initialize_user_redeemable_token_account(u) PROVE Stay
    BY <2>0, <2>4 DEF initialize_user_redeemable_token_account
  <2>5. ASSUME NEW u \in Users, NEW a \in Deposits,
               deposit_vault(u, a) \/ initialize_user_and_deposit(u, a)
        PROVE  Stay
    BY <1>1, <2>5 DEF deposit_vault, initialize_user_and_deposit
  <2>6. ASSUME NEW u \in Users, NEW a \in Redemptions, withdraw_vault(u, a) PROVE Stay
    BY <1>2, <2>6
  <2> QED  BY <2>1, <2>2, <2>3, <2>4, <2>5, <2>6 DEF Next
<1> QED  BY <1>3, TypeCorrect, UnusedBefore, PTL DEF Spec, ParkedNotesNeverMove
=============================================================================
