# Verification of the put-selling vault and the Zeta CPI helpers

TLA+ specifications of the programs in this repository, checked with TLC and,
where a result holds for every value of the constants, proved with TLAPS.
Paths below are relative to the repository; `lib.rs` and `context.rs` without
a path are those of `vault/programs/vault/src/`, `zeta_account.rs` and
`zeta_utils.rs` those of `zeta-cpi/programs/zeta-cpi/src/`.

## 1. The system

**What it is.** A Solana program, `vault`, keeps users' USDC. Users swap USDC
for zTokens (the redeemable mint) in a weekly deposit phase. Of every deposit
the vault puts 90% into a Jet lending reserve as collateral and borrows 50%
back. A second program, `zeta-cpi`, is a set of proxies for the Zeta options
exchange with the account layouts and the arithmetic a client program needs
(series status, margins, oracle prices). `cpi-interface` is the macro that
generates its CPI stubs.

**How it runs.** An instruction is a handler over accounts that Anchor has
deserialised and checked. Handlers call other programs (SPL token, Jet, Zeta)
by CPI. Transactions that write the same accounts are serialised, a
transaction is atomic over all its instructions, and the clock is constant in
a slot. So the concurrency is that of whole transactions of several users, of
the clock and of other users of Jet, in any order; inside a transaction the
hard part is the order of up to seven CPIs, amounts fixed before they run, and
account data that is a copy.

### Inventory

| Component | State | Operations | Interacts with | Hard behaviour | What makes it correct |
|---|---|---|---|---|---|
| Vault instructions (`lib.rs:22-402`) | `vault` (name, bumps, mints, `epoch_times`), `vault_usdc`, the redeemable mint, `user_redeemable` accounts | `initialize_vault`, `initialize_user_redeemable_token_account`, `deposit_vault`, `withdraw_vault` | SPL token and Jet by CPI; the clock | interleaved deposits and withdrawals change each other's rate; u64 arithmetic without overflow checks; CPIs in order; a cached amount that must be reloaded | loan covered by collateral, nobody diluted by a withdrawal, no arithmetic surprise, a failed transaction leaves nothing |
| Access control (`lib.rs:469-505`) | none (reads `epoch_times`) | `validate_epoch_times`, `deposit_withdraw_phase` | clock | boundaries | money moves in the open phase only; an accepted schedule opens |
| Account constraints and names (`context.rs:5-253`, `lib.rs:404-416, 507-523`) | stored name and bumps | seeds, bump and `init` constraints; pad and strip of the name | Anchor, system program | the address at creation is derived from the raw name, later ones from the stripped copy | an instruction on a vault touches that vault's accounts only; holders can pass the checks |
| CPI contexts (`context.rs:325-391`) | none | five `into_*_context` | SPL token | who pays whom | as the instructions |
| Rollover (`context.rs:255-266`) | `epoch_times` | none: accounts without an instruction | – | an epoch that ends must be followed by another | nothing to check: `vault/README.md:71` describes an instruction the code does not have |
| Jet (external) | deposit, collateral and loan notes, reserve, rates | `refresh_reserve`, `deposit`, `deposit_collateral`, `borrow`, `repay`, `withdraw_collateral`, `init_*` | called by the vault; other borrowers | rates move between and inside the vault's instructions | – |
| Auction sketch (`vault/.../utils.rs`) | none | selection of expiry and strike | Zeta | not compiled | – |
| Zeta expiry series (`zeta_account.rs:97-296`) | `ZetaGroup`: front index, series, products; `Greeks` | `status`, `validate_series_tradeable`, back and previous index, lookups by key, slices | written by the Zeta program, read here | series rotate; timestamps of the next week are set before markets are wiped | tradeable means live, clean and priced; the back index is the latest |
| Zeta margins (`zeta_account.rs:329-596`, `zeta_utils.rs:31-195`) | `MarginAccount`, `Position` | initial and maintenance margin, profit, margin check | reads prices and parameters | three truncating divisions, conversions that panic, sums that wrap, a division by the spot price | only opening orders raise the requirement, the check's verdict is that of exact arithmetic, who passes keeps passing |
| Oracle prices (`zeta_utils.rs:202-222`) | none | conversion of a Pyth price to 6 decimals | Pyth account | exponent sign | the conversion rounds down and fits |
| Zeta product lookup (`zeta_account.rs:173-220`, `zeta_utils.rs:230`) | `ZetaGroup.products[].market` | binary search by market key, series of a product, slices and market indices | markets are listed by the Zeta program | a binary search over an array that is not sorted while markets are being listed | a market that was found stays found, at the same index |
| Zeta proxies (`zeta-cpi/.../lib.rs`, `zeta_client.rs`) | none | six forwarding instructions, `read_program_data` | Zeta by CPI, through generated stubs | nonces derived here and passed on by position, checked there | a client that passes its own accounts is served; who placed an order can cancel it |
| `cpi-interface` | none | the stub generated for a method of a trait | used by `zeta_client.rs` | order of arguments | a call arrives as it was made |
| `pyth_client.rs` | none | – | – | vendored layout | not modelled |
| Tests (`vault/tests`, `zeta-cpi/tests`) | – | the transactions clients build | everything | a first deposit is two instructions in one transaction | what they assert is in `VaultClaims` |

## 2. Modules

| Module | Models | Uses |
|---|---|---|
| `U64` | machine integers of width `Word`: `+ - *` of a release build wrap (neither workspace sets `overflow-checks`) | – |
| `Jet` | the part of Jet the vault relies on, as operators on a position | `U64` |
| `Vault` | the vault program, one action per instruction | `Jet`; `SharePool` as its abstract specification |
| `SharePool` | what a vault promises: a pool owned in shares, in three phases | – |
| `VaultTx` | the same instructions one CPI at a time, with abort and rollback | `Vault`, which it implements |
| `VaultClaims` | what README and tests say and the code does not do | `Vault` |
| `VaultNames` | derived addresses, stored bumps, padded and stripped names | – |
| `ZetaSeries` | status, tradeability and rotation of expiry series | – |
| `ZetaMargin` | margin requirements, profits and the oracle price, over the life of orders | – |
| `ZetaMarkets` | the products of a group while their markets are listed, and the lookups by key | – |
| `ZetaClient` | the proxies, the generated stub, clients, and what Zeta accepts and does | `ZetaMarkets` |
| `MCVault`, `MCVaultTx`, `MCVaultNames`, `MCZetaMargin`, `MCZetaClient` | schedules, seeds, parameters, prices, keys and nonces for TLC | `VaultClaims`, `VaultTx`, `VaultNames`, `ZetaMargin`, `ZetaClient` |
| `Inductions` | lemmas about the natural numbers, finite sets and sums that the proofs need | – |
| `VaultProofs`, `VaultNamesProofs`, `ZetaMarginProofs`, `ZetaSeriesProofs`, `ZetaClientProofs` | lemmas and theorems about the module of that name | `Vault`, `VaultNames`, `ZetaMargin`, `ZetaSeries`, `ZetaClient`; `Inductions` |
| `VaultPoolProofs` | the loan's cover; at constant rates: dilution, the Jet position, `Vault` implements `SharePool` | `Vault`, `VaultProofs` |
| `VaultTxProofs` | `VaultTx` implements `Vault`; cover between CPIs | `VaultTx`, `VaultPoolProofs` |

### State and actions against the code

`Vault`: `user_usdc`, `user_redeemable`, `supply` and `vault_usdc` are the
amounts of the token accounts and of the mint; `opened` is the set of users
whose `user_redeemable` account exists; `jet` holds the vault's note accounts,
the reserve's free tokens and the two note exchange rates. The amounts the
handlers compute are operators with the names of the code's variables
(`redeemable_amount`, `usdc_equity`, `usdc_fx_rate`, `usdc_to_send_user`,
`usdc_to_repay_jet`). An instruction is one action, and its guard is the
conjunction of every check on the way, the callee's included: Anchor's
constraints, the handler's tests, `unwrap` and division panics, the token
program's balance and overflow checks, and Jet's. A failing instruction is no
step. `initialize_user_and_deposit` is the two-instruction transaction of
`vault.ts:320-376`.

`VaultTx`: the variables of `Vault` are the live accounts; `queue` is the
running transaction, `pc` the next CPI of the instruction's own list
(`DepositVaultSteps` and its like; the four `init_*` calls of
`initialize_vault` are four steps), `amounts` what the handler has fixed
on entry, `cached` the deserialised `user_redeemable.amount` (`lib.rs:395`
reloads it), `saved` the accounts to roll back to. `Abort` is possible before
every CPI, for the callee may fail for reasons of its own. Nothing interleaves
with a running transaction; between transactions the clock and Jet move.

`Jet` is external. Calls are in tokens (`Amount::from_tokens`) and Jet rounds
in its own favour: deposits and repayments to notes downwards, loans upwards.
A note is worth `rate / RateUnit` tokens, rates only grow, and a loan note is
worth at least a deposit note. Jet accepts a loan or a collateral withdrawal
only if `loan value * MinCollateralRatio <= collateral value * 100`; ratio 0
is a Jet that refuses nothing and shows what the vault's own arithmetic
ensures. Fees of Jet are not modelled.

`VaultNames`: a derived address is a hash of the seeds' bytes, one after the
other, and the bump; the model has those bytes and the bump instead, so two
lists of seeds with the same bytes have the same address, as in Solana. A
vault's own seed is its bare name (`context.rs:14`), so a vault named
`vault-usdcX` has the address of the token account of a vault `X`, and whichever
is created second is refused (`Existing`); nothing else follows from the
collision, which is what the two properties say. Only the users' accounts keep
addresses of their own: their seeds end in a 32-byte key and are longer than
all others. Clients pass any existing accounts. Amounts are one zToken at a
time. `minted` is a history variable: what went through
each vault account. Only the authority's bump may be non-canonical, as in
Anchor's `bump = expr` constraint.

`ZetaSeries`: the reads are the repository's code. The writer is the Zeta
program, which is not here; its actions follow the comments on the account
fields (`zeta_account.rs:246-250, 298-327, 600-607`), and are free where those
say nothing: when a series becomes active, whether old strikes remain, when
prices are updated.

`ZetaMargin`: the operators carry the names of the code's functions.
`get_initial_margin_per_lot` and `get_maintenance_margin_per_lot` differ only
in the parameters they read, so they are one operator, `margin_per_lot`, with
a phase. Every division is the truncating one of the code; the maximum with a
floor that is never negative stands for `checked_sub(..).unwrap_or(0).max(..)`.
Quotes the oracle conversion panics on, and a spot of 0, are reachable, and
nothing is claimed of the margins nobody can compute there. Orders and fills
are booked by the Zeta program; the model is the reading of
`opening_orders`, `closing_orders` and `check_open` under which closing orders
may be free of margin: up to the position, and filled first. Costs are
arbitrary. `check_margin_requirement` has the widths and the panics of the
code: a product without a kind has no margin per lot, a short option divides
by the spot, and the margin of a lot must convert to u64 (`LotConverts`); so
must the margins of a position, and its profit to i64 (`MarginsConvert`); sums
over the account wrap as in a release build (`% Word`, `AsI64`); what is added
and subtracted afterwards is checked (`CheckReturns`). The oracle's price must
convert too (`QuoteConverts`). Whoever fails the check, by a panic or by the
comparison, does not pass.

Three of the properties need a word. `OnlyOrdersRaiseRequirement` says that a
fill may cost the unit of the two roundings and `Surcharge`: where the
parameters ask more for a lot that is held than for one that is ordered, that
difference for every lot the fill adds to a position. `zeta_constants.rs:64-80`
are such parameters (short options: 10% of spot on order, 12.5% held, and 25%
and 5% for the dynamic percentage), so with them a fill of an out-of-the-money
short does raise the requirement; the runs use these percentages, and the
theorem is for all. `VerdictIsExact` is about the wrapped sums: two wrapped
sums may differ from the exact ones and the check still compares them right,
because a wrap moves a number by a multiple of 2^64 and the checked operations
leave no room for one. One exception remains and is in the property: an account
whose exact difference is beyond an i64 wraps into the opposite verdict. The
run reaches both. `PassingSurvives` promises that the check passes again *or
panics*: a panic is reachable without any loss, when the profit of one product
alone no longer fits.

`ZetaMarkets`: a product that is not listed has the default key, which is
below all others. `MarketsAssumption` says that the product indices are given
in the order of the keys; nothing here ensures it, but `binary_search_by_key`
is meaningless without it once all are listed (Zeta keeps `market-indexes` for
assigning them, `zeta_constants.rs:21`). The search is the loop of the
standard library, as a recursive function of the bounds that are left to
search (`Ranges`), so that what it returns on an array that is not sorted is
what the code returns. `read_program_data` shows the front series and stops
with an error at the first product whose strike is not set.

`ZetaClient`: a proxy is an operator that builds the instruction its stub
sends, with nonces derived from its own seeds (`MarginSeeds`,
`OpenOrdersSeeds`, `MapSeeds`, from `zeta_client.rs`); the external Zeta
program derives its accounts from seeds of its own (`MarginAccountSeeds`,
`OpenOrdersAccountSeeds`, `MapAccountSeeds`, written down apart from the
proxies') and accepts or refuses an instruction by the addresses and nonces in
it, and keeps the nonce of an open orders account at the index it
finds for the market. Only the right nonce gives the address
`find_program_address` finds. Clients call with any mixture of two users' and
markets' accounts. Margins, serum and fees are left out, prices and sizes
pass through.

A remark on `zeta_constants.rs:64-80`: the constants are not used in this
repository (the parameters come from the `ZetaGroup` account), but they are the
only ones it has, so the runs take them, in steps of 2.5%.

## 3. Runs

Passing runs (`Word` is large enough not to matter unless said):

| Run | Bounds | What it shows |
|---|---|---|
| `vault_unit` | 2 users with 18 USDC, deposits 3 and 10, redemptions 3 and 6, rates fixed, Jet refuses nothing | types; the loan is always covered by what the vault itself does; no withdrawal takes more than its share; no step weakens the Jet position; `Vault` implements `SharePool` |
| `vault_interest` | 2 users with 20 USDC, deposits 7 and 10, redemptions 3 and 17 (more than one deposit), rates 10..11 of 10, 125%, `Word` 700: `usdc_amount*90` wraps; fair clock | the repayment can always be booked whatever the refresh does; freed notes stay where they are; the payout product never wraps; an accepted schedule opens for deposits |
| `tx_commit` | 2 users with 10 USDC, all transactions, abort anywhere, rates 10..11 of 10, Jet refuses nothing | `VaultTx` implements `Vault`: partial failure leaves nothing, the stale amount is reloaded, order and amounts are those of the atomic action; between any two CPIs the loan is covered by posted collateral |
| `names` | 2 vaults, all names of up to 2 of 3 bytes (one blank) and one byte too long, seeds of one byte so that bare names collide with them, 2 bumps | no two vaults share a mint; holders pass the withdraw constraints |
| `series` | 3 series of 2 markets, 2 rotations | back index is the latest; tradeable series are clean |
| `margin` | 2 products: one of 6 listings, with 2 mark prices, orders of 5 up to 10, a lot being 3, and one that is kept simple (`MCSecond`: a future at one mark price, one order of 5 at a time); 7 quotes (three that panic, one that truncates to 0, one price in two scales); the percentages of `zeta_constants.rs`; `Word` 64, balances 4 and 12 | only opening orders, and lots held instead of ordered, raise the requirement; it follows the spot and ignores the oracle's scale; short options are never under-charged; profits cancel; closing orders stay within the position; sums of margins and profits wrap, and the check's verdict stays the exact one; who passes is not made to fail by fills and cancellations |
| `cpi` | 2 series of 2 markets, listed in any order; 2 users with 1 USDC, any accounts, 1 order on the books | a market once found stays found; all are found when all are listed, in their series; own accounts are accepted, with nonces from the proxies' own seeds; owners can cancel |

Runs that find a documented statement violated:

| Run | Says who | What the run shows |
|---|---|---|
| `claim_deposit` | `vault/README.md:27` | the USDC charged and the zTokens minted are exchanged in `deposit_vault` (`lib.rs:184-203`): the user pays `amount*N_z/N_u` and gets `amount` |
| `claim_withdraw` | `vault/README.md:29`, `lib.rs:286` | the rate is an integer quotient, so a withdrawal pays up to a unit per zToken too little, and nothing when equity is below supply |
| `claim_leave` | `vault/README.md:47`, `vault.ts:485-582` | the holder of all zTokens cannot redeem them: repayment and payout come from the same 60% of the USDC |
| `claim_interest` | `vault/README.md:19` | Jet notes are counted as USDC; once rates differ a withdrawal takes more than its fraction of the worth at the rates it refreshes itself: 12 for a fair 10.8 |
| `claim_priced` | `zeta_account.rs:222-225` | the tradeable check ignores its timestamp |

**Why the bounds are enough.** Two users are needed for one to dilute the
other, and three amounts (3, 6, 10) give sums, partial withdrawals, roundings
of 90% and 50% in both directions, and a rate of zero and of one. The schedule
has one open instant, one before and one after; two further schedules differ
from it by one second each and are refused. Exchange rates of 10 and 11
tenths make notes and tokens differ in both directions of rounding. In
`names`, two bytes hold every combination of leading, trailing and only
blanks and a seed followed by a name, and two vaults every collision of
stripped names and of a bare name with a seed. In `margin` one product is
enough for the requirement, which is a sum, and percentages of 40 and thirds of
a lot round in every division; the second product is there for the sums over
the account, and its long future is enough to make them wrap. A word of 64
makes conversions to u64 and i64 fail for some positions and not for others,
and wrapped sums of margins and of profits occur with the verdict right and,
beyond an i64, wrong. In `cpi`, 4 markets in 24 orders of
listing give every path of the binary search, before, between and after the
steps of an order's life, and an open orders account can be opened before the
last market is listed. The proofs below cover the rest for all values.

**Deadlock** is not checked: the clock is bounded by `MaxTime` and the vault
has no instruction after its deposit phase, so the models do stop.

**Fairness.** `FairSpec` (run `vault_interest`, for `OpensForDeposits`) assumes that time passes (`WF` of `Tick`) and nothing
about users, who need not send anything.

## 4. Proofs

Everything about the vault is for every `Word > 1`, every set of users,
arguments, schedules, and every bound on rates and clock, from the named
assumptions `WordAssumption`, `RateAssumption` and `VaultAssumption`. A
premise on rates or on Jet is written in the theorem.

* `TypeCorrect`: `Spec => []TypeOK`. One lemma per handler; the amounts'
  types come from `DepositAmountTypes` and `WithdrawAmountTypes`, the Jet
  position's from one lemma per CPI (`DepositedParts`, `BorrowedParts`, ...).
* `PayoutExact`: `PayoutNeverWraps`, from the type invariant alone, because
  the rate is a quotient by the supply: `amount*rate <= supply*rate <= equity`.
* `EquityNeverUnderflows` and `RepaymentAlwaysInRange`, from `Covered`.
  `EquityCovered` is not inductive: a step's effect on it depends on the two
  rates. `Covered` adds that collateral notes alone cover the loan notes and
  that a deposit note is worth no more than a loan note. It is kept in either
  of two ways, and `FullyCollateralized` is the premise that there is one. If
  Jet asks for full collateral (`MinCollateralRatio >= 100`), both
  instructions end in a Jet call that leaves a healthy position, and health
  with these rates gives the inequality back, with any interest
  (`HealthyIsCovered`, `CoveredAlways`). At constant rates the vault's own
  split does it, with a Jet that refuses nothing: 90% of a deposit are at
  least half of it, rounded, as long as they are computed without a wrap
  (`NoDepositWraps`), and a withdrawal frees what it repays
  (`PositionNeverWeaker`, `AlwaysCovered`). With interest and a Jet that
  refuses nothing neither argument applies, and nothing is claimed.
* `ParkedNotesStay`: `ParkedNotesNeverMove`, with the invariant `Unused`
  (nothing is in Jet before the vault exists) for `initialize_vault`.
* `VaultPoolProofs` also has what holds only at constant rates
  (`MaxRate = RateUnit`), where a note is a token (`UnitNotes`).
  `PositionNeverWeaker` needs `NoDepositWraps`: otherwise a deposit may borrow
  more than it posts. `VaultImplementsPool` and `LeavingDilutesNobody` need
  `FullyCollateralized`. `DepositMoves` and `WithdrawMoves` say what the
  instructions do to the position, `ShareOfPool` that a payout is at most the
  leaver's part (the rate is a quotient of an equity that leaves the parked
  notes out), and `TickMoves` that the clock cannot step over the open phase
  (`ScheduleInv`: an accepted schedule is ordered).
* `VaultTxProofs`: `TransactionsImplementVault`, `TxSpec => ImplementsVault`,
  with no premise. The invariant `TxInv` says for each instruction and each
  `pc` how the live accounts differ from the saved ones, which amounts were
  fixed on entry and which checks have passed (`CreationSoFar`,
  `OpeningSoFar`, `DepositSoFar`, `WithdrawSoFar`); the last also says that
  the stale balance has been reloaded when it is compared with zero. At the
  end of an instruction that is the guard and the effect of the action of
  `Vault` (`CommitsDeposit`, `CommitsWithdrawal`); every other step is a
  stutter on the committed accounts (`StepImplements`).
  `CoveredBetween`, under `FullyCollateralized`, needs the cover of the saved
  accounts as well, for they come back after an abort. With Jet's help it is
  shown one CPI at a time (`CpiCovered`); without it no CPI keeps the cover by
  itself, and `OwnSplitCovers` reads off `TxInv` how far a deposit or a
  withdrawal has come: what is borrowed has been posted, and what is freed has
  been repaid.
* `VaultNamesProofs`, for names and bumps of any kind and any number of vaults
  and users: `MintAlwaysTheVaults` and `HoldersAlwaysAccepted`. Handlers know
  a vault by the name it stores, stripped; the invariant `NamesInv` speaks of
  the name its address was derived from. The two agree for every vault that is
  accepted (`AcceptedAreRecorded`), which is what keeps a name with outer
  blanks from reaching another vault's mint; how stripping works is not used.
  Addresses of one kind of account differ as their names do (`SameSeed`);
  that those of two kinds differ is not assumed.
* `ZetaMarginProofs`, from `MarginAssumption`: `MarginTypeCorrect` (one lemma
  per order operation; the type invariant carries that closing orders stay
  within the position), `ShortMarginSafe` (`ShortNumerator`: the percentage
  times spot lies within one spot of the exact numerator; `DivisionOfSum`;
  `CapKeepsDistance`) and `PnlCancels` (truncating division is odd).
  The others are about the whole account, for any finite set of products, and
  go from one lot to a product to the sum. `SpotRaisesRequirement`: every
  operator on the way to a margin keeps an order of its arguments
  (`ShortMarginOrder`, `MarginOrder`, `SpotRaisesProduct`), and so does the
  sum (`SumMonotone`). `ScaleIsImmaterial`: two quotients of the same fraction
  are equal. `OnlyOpeningCosts`: an order or a fill changes one product, and
  a sum follows its one term that changes (`SumFollows`). The two margins of a
  product are the quotients by the lot of `Ordered` and `Held`. A fill leaves
  the position larger on its side by what was opening, or smaller on the same
  side, or on the other side with at most what was opening (`FillShapes`); in
  each case `Ordered + Held` grows by no more than what `Surcharge` counts,
  for any parameters, and two quotients of a sum gain at most one by rounding.
  `CheckIsExact`: the sums as computed differ from the exact ones by multiples
  of the word, and so does the difference the check compares; it is in an i64
  because the checked operations returned, so if the exact difference is in an
  i64 as well the two are one number (`Verdict`). `PassingIsKept` is this,
  before and after a step, with `OnlyOpeningCosts` between.
* `ZetaClientProofs`, from `MarketsAssumption` and `ClientAssumption`, for any
  number of series and products, users, nonces and keys in the assumed order.
  What a search returns is shown by induction over the size of its range:
  `FoundHasKey` (what is found has the key), `AllListedFound` (on an array
  that is sorted every key is found) and `ListingKeepsSearch`: while products
  are listed in any order the array is not sorted, and still a search that
  succeeds takes the same turns afterwards. An entry it compared with either
  was listed, and stays, or was the default key: then the search went up and
  found its key above that entry, and goes up again from whatever key is
  listed there, for keys are in the order of their indices. These give
  `FoundMarketsStay` and `MarketsAreFound`. `ClientsAreServed` and
  `OrdersCanBeCancelled` rest on `ClientInv` (`ClientInvariant`): accounts
  are where their addresses are derived, an open orders account is for a
  market that is found, and its nonce stands in its owner's margin account
  at the index where that market will be looked up. It is the last part that
  needs the search to be stable under listing, and two markets never to be
  found at one index.
* `Inductions`. The library's induction theorems take an operator and cannot
  be used, so the hypothesis of an induction is a set here, and a least
  element outside of it is refuted: `LeastSubset` is the library's
  well-foundedness of strict inclusion on finite sets, `LeastNumber` follows
  with the intervals 0 .. n, and `NumberInduction` and `SetInduction` with
  them. They give that the recursive functions of the models exist and satisfy
  their equations: the powers of ten, the binary search and the sums over
  positions (`SumFunction` of the community modules), with what sums preserve.
* `ZetaSeriesProofs`, from `SeriesAssumption`: `BackAlwaysLatest` and
  `TradeableAlwaysClean`. `BackIsLatest` speaks of one index and is not
  inductive; `RingInv` orders all series by their place in the ring counted
  from the front, says that they are set up in that order and that the ring
  does not turn before all are. A turn moves every place by one
  (`PlacesAfterTurn`). `TradeableIsClean` follows from a flag on every series
  that has a market to wipe.

Only model-checked: `OpensForDeposits`, the one liveness property (liveness
and `ENABLED` are out of the prover's reach). Every other property of a
passing run is the conclusion of a theorem. Where such a theorem has a premise
(`FullyCollateralized`, constant rates, `NoDepositWraps`), the runs go beyond
it on small instances: `tx_commit` checks the cover between CPIs with
interest and a Jet that refuses nothing, where amounts are too small for the
interest to exceed the margin between 90% and 50%.

## 5. Not modelled

Rent and lamports; owner and mint constraints on the user's USDC account; the
unchecked Jet accounts a client passes (the models assume they are the
vault's); fees of Jet and liquidation; Zeta's margin check inside the proxied
instructions (`ZetaMargin` has it on its own) and Serum's books; the greeks
and balances `read_program_data` logs; the byte layouts of `pyth_client.rs`;
the parsing and quoting in `cpi-interface`; deployment scripts and the faucet
helper.

Two parts have no behaviour to model. The rollover of a vault is an account
context (`context.rs:255-266`) without an instruction; `vault/README.md:71`
describes one. `vault/.../utils.rs` has no `mod` line and would not compile
(it assigns to bindings that are not mutable, and its `auction_phase` is not
defined anywhere).

## 6. Plan

Done, in this order: `U64`, `Jet`, `Vault` with `SharePool`, `VaultClaims`,
`VaultTx`, the first theorems, `VaultNames`, `ZetaSeries`, `ZetaMargin` and its
theorems, the margin check, `ZetaMarkets`, `ZetaClient`, `ZetaSeriesProofs`,
`VaultTxProofs`, `VaultPoolProofs`, `VaultNamesProofs`, `Inductions`, the rest
of `ZetaMarginProofs`, `ZetaClientProofs`.

Next, most important first:

1. Proofs: a bound on the interest under which the vault's own split keeps its
   loan covered, between constant rates and Jet's demand.
2. `ZetaClient` composed with `ZetaMargin`: orders that are refused for want of
   margin.
