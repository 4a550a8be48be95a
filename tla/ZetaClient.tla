----------------------------- MODULE ZetaClient -----------------------------
(***************************************************************************)
(* The proxies of zeta-cpi (lib.rs, zeta_client.rs) between clients and    *)
(* the Zeta program.  A proxy derives nonces, and the generated stub       *)
(* (cpi-interface) turns the call into an instruction: the name of the     *)
(* method, the accounts and the remaining arguments in order.  The Zeta    *)
(* program is not in this repository; it is modelled from the accounts and *)
(* arguments it is sent and from the fields of MarginAccount.              *)
(***************************************************************************)
EXTENDS ZetaMarkets, Sequences

CONSTANTS
  Authorities,
  zeta_group, dex_program,
  Bump(_),          \* the nonce of the address derived from some seeds
  InitialUsdc,      \* of each authority
  Amounts,          \* bound: deposits and withdrawals
  OrderIds          \* bound: orders on the books at a time

Sides == {"Bid", "Ask"}

ASSUME ClientAssumption == InitialUsdc \in Nat /\ Amounts \subseteq Nat

VARIABLES
  user_usdc,        \* user_token_account of each authority
  margin_accounts,  \* address |-> MarginAccount
  open_orders,      \* address |-> whose and for which market
  orders            \* on the books of the markets

clientVars == <<market, user_usdc, margin_accounts, open_orders, orders>>

ClientInit ==
  /\ MarketsInit
  /\ user_usdc = [u \in Authorities |-> InitialUsdc]
  /\ margin_accounts = <<>> /\ open_orders = <<>>
  /\ orders = {}

-----------------------------------------------------------------------------
(* Derived addresses.  Only the right nonce gives the address that          *)
(* find_program_address finds.                                              *)

create_program_address(seeds, nonce) == <<seeds, nonce>>
find_program_address(seeds) == create_program_address(seeds, Bump(seeds))

\* The seeds of Zeta's own accounts, as the Zeta program checks them and its
\* client library (utils.getOpenOrders and others) derives them.
MarginAccountSeeds(group, u) == <<"margin", group, u>>
OpenOrdersAccountSeeds(dex, m, u) == <<"open-orders", dex, m, u>>
MapAccountSeeds(o) == <<o>>

-----------------------------------------------------------------------------
(* Proxies *)

\* The generated stub: a Context is no argument, the rest keep their order.
Instruction(method, accounts, args) ==
  [method |-> method, accounts |-> accounts, args |-> args]

\* The seeds the proxies pass to find_program_address: MARGIN_SEED,
\* OPEN_ORDERS_SEED and keys of accounts they were given.
MarginSeeds(a) == <<"margin", a.zeta_group, a.authority>>

\* Fault: the dex program is left out of the seeds.
SeedsWithoutDex(a) == <<"open-orders", a.market, a.authority>>

OpenOrdersSeeds(a) == <<"open-orders", a.dex_program, a.market, a.authority>>
MapSeeds(a) == <<a.open_orders>>

initialize_margin_account(a) ==
  Instruction("initialize_margin_account", a, <<Bump(MarginSeeds(a))>>)

deposit(a, amount) == Instruction("deposit", a, <<amount>>)

withdraw(a, amount) == Instruction("withdraw", a, <<amount>>)

\* Fault: the nonces are passed in the order in which the accounts are listed.
NoncesExchanged(a) ==
  Instruction("initialize_open_orders", a, <<Bump(MapSeeds(a)), Bump(OpenOrdersSeeds(a))>>)

initialize_open_orders(a) ==
  Instruction("initialize_open_orders", a, <<Bump(OpenOrdersSeeds(a)), Bump(MapSeeds(a))>>)

place_order(a, price, size, side, client_order_id) ==
  Instruction("place_order", a, <<price, size, side, client_order_id>>)

cancel_order(a, side, order_id) == Instruction("cancel_order", a, <<side, order_id>>)

-----------------------------------------------------------------------------
(* The Zeta program: what it accepts, and what it does.  The margin it asks *)
(* for is the subject of ZetaMargin and left out here.                      *)

IsMarginAccountOf(address, u) ==
  address \in DOMAIN margin_accounts /\ margin_accounts[address].authority = u

\* The nonce of an open orders account is kept at the index of its market.
IsOpenOrders(a) ==
  /\ IsMarginAccountOf(a.margin_account, a.authority)
  /\ Found(a.market)
  /\ a.open_orders \in DOMAIN open_orders
  /\ LET nonces == margin_accounts[a.margin_account].open_orders_nonce
     IN a.open_orders = create_program_address(
          OpenOrdersAccountSeeds(a.dex_program, a.market, a.authority),
          nonces[get_product_index_by_key(a.market)])

AcceptsInitializeMarginAccount(a, args) ==
  /\ a.margin_account \notin DOMAIN margin_accounts
  /\ a.margin_account =
       create_program_address(MarginAccountSeeds(a.zeta_group, a.authority), args[1])

AcceptsDeposit(a, args) ==
  /\ IsMarginAccountOf(a.margin_account, a.authority)
  /\ args[1] <= user_usdc[a.authority]

AcceptsWithdraw(a, args) ==
  /\ IsMarginAccountOf(a.margin_account, a.authority)
  /\ args[1] <= margin_accounts[a.margin_account].balance

AcceptsInitializeOpenOrders(a, args) ==
  /\ IsMarginAccountOf(a.margin_account, a.authority)
  /\ Found(a.market)
  /\ a.open_orders \notin DOMAIN open_orders
  /\ a.open_orders = create_program_address(
       OpenOrdersAccountSeeds(a.dex_program, a.market, a.authority), args[1])
  /\ a.open_orders_map = create_program_address(MapAccountSeeds(a.open_orders), args[2])

\* The orders that a cancellation is for.
Cancelled(a, args) ==
  { o \in orders : o.open_orders = a.open_orders /\ <<o.side, o.order_id>> = args }

Accepts(ix) ==
  LET a == ix.accounts
  IN \/ ix.method = "initialize_margin_account" /\ AcceptsInitializeMarginAccount(a, ix.args)
     \/ ix.method = "deposit" /\ AcceptsDeposit(a, ix.args)
     \/ ix.method = "withdraw" /\ AcceptsWithdraw(a, ix.args)
     \/ ix.method = "initialize_open_orders" /\ AcceptsInitializeOpenOrders(a, ix.args)
     \/ ix.method = "place_order" /\ IsOpenOrders(a)
     \/ ix.method = "cancel_order" /\ IsOpenOrders(a) /\ Cancelled(a, ix.args) # {}

\* An account that is created, at an address where there was none.
WithAccount(accounts, address, data) ==
  [x \in DOMAIN accounts \cup {address} |-> IF x = address THEN data ELSE accounts[x]]

InitializeMarginAccount(a, args) ==
  /\ margin_accounts' = WithAccount(margin_accounts, a.margin_account,
       [authority |-> a.authority, balance |-> 0,
        open_orders_nonce |-> [i \in Indices |-> 0]])
  /\ UNCHANGED <<user_usdc, open_orders, orders>>

\* USDC goes from the user to the balance of the margin account.
Move(a, amount) ==
  /\ user_usdc' = [user_usdc EXCEPT ![a.authority] = @ - amount]
  /\ margin_accounts' = [margin_accounts EXCEPT ![a.margin_account].balance = @ + amount]
  /\ UNCHANGED <<open_orders, orders>>

InitializeOpenOrders(a, args) ==
  /\ open_orders' = WithAccount(open_orders, a.open_orders,
       [authority |-> a.authority, market |-> a.market])
  /\ margin_accounts' = [margin_accounts EXCEPT
       ![a.margin_account].open_orders_nonce[get_product_index_by_key(a.market)] = args[1]]
  /\ UNCHANGED <<user_usdc, orders>>

PlaceOrder(a, args) ==
  /\ \E id \in OrderIds \ { o.order_id : o \in orders } :
       orders' = orders \cup
         {[open_orders |-> a.open_orders, side |-> args[3], order_id |-> id]}
  /\ UNCHANGED <<user_usdc, margin_accounts, open_orders>>

CancelOrder(a, args) ==
  /\ orders' = orders \ Cancelled(a, args)
  /\ UNCHANGED <<user_usdc, margin_accounts, open_orders>>

Invoke(ix) ==
  LET a == ix.accounts
  IN /\ Accepts(ix)
     /\ \/ ix.method = "initialize_margin_account" /\ InitializeMarginAccount(a, ix.args)
        \/ ix.method = "deposit" /\ Move(a, ix.args[1])
        \/ ix.method = "withdraw" /\ Move(a, -ix.args[1])
        \/ ix.method = "initialize_open_orders" /\ InitializeOpenOrders(a, ix.args)
        \/ ix.method = "place_order" /\ PlaceOrder(a, ix.args)
        \/ ix.method = "cancel_order" /\ CancelOrder(a, ix.args)
     /\ UNCHANGED market

-----------------------------------------------------------------------------
(* Clients (zeta_cpi.ts).  The accounts they pass are the signer's own, or  *)
(* by mistake another user's or another market's.  Only those that differ   *)
(* from call to call are modelled: programs, sysvars and the accounts of    *)
(* Zeta and of a market are fixed.                                          *)

OpenOrdersOf(u, m) == find_program_address(OpenOrdersAccountSeeds(dex_program, m, u))

\* The accounts of InitializeOpenOrders; those of the other instructions that
\* differ from call to call are among them.
Accounts(signer, owner, m, m2) ==
  [zeta_group |-> zeta_group, dex_program |-> dex_program, authority |-> signer,
   margin_account |-> find_program_address(MarginAccountSeeds(zeta_group, owner)),
   market |-> m, open_orders |-> OpenOrdersOf(owner, m2),
   open_orders_map |-> find_program_address(MapAccountSeeds(OpenOrdersOf(owner, m2)))]

MarketKeys == { Keys[i] : i \in Indices }

ClientNext ==
  \/ \E i \in Indices :
       ListMarket(i) /\ UNCHANGED <<user_usdc, margin_accounts, open_orders, orders>>
  \/ \E signer, owner \in Authorities, m, m2 \in MarketKeys :
       LET a == Accounts(signer, owner, m, m2)
       IN \/ Invoke(initialize_margin_account(a))
          \/ Invoke(initialize_open_orders(a))
          \/ \E amount \in Amounts : Invoke(deposit(a, amount)) \/ Invoke(withdraw(a, amount))
          \/ \E side \in Sides : Invoke(place_order(a, 1, 1, side, "None"))
          \/ \E side \in Sides, id \in OrderIds : Invoke(cancel_order(a, side, id))

ClientSpec == ClientInit /\ [][ClientNext]_clientVars

-----------------------------------------------------------------------------
(* Properties *)

Own(u, m) == Accounts(u, u, m, m)

\* The proxies derive the nonces Zeta checks, each from the seeds Zeta derives
\* the account from, and pass each at its place (zeta_client.rs:23-32, 57-71):
\* a client that passes its own accounts is not refused a margin account, its
\* balance, or open orders for a market that can be found, whatever it and
\* others did before.
ClientIsServed ==
  \A u \in Authorities, m \in MarketKeys, amount \in Amounts :
    LET a == Own(u, m)
        exists == a.margin_account \in DOMAIN margin_accounts
    IN /\ exists \/ Accepts(initialize_margin_account(a))
       /\ exists /\ amount <= margin_accounts[a.margin_account].balance
          => Accepts(withdraw(a, amount))
       /\ exists /\ Found(m) /\ a.open_orders \notin DOMAIN open_orders
          => Accepts(initialize_open_orders(a))

\* An order can be cancelled by the one who placed it (zeta_client.rs:94),
\* with the accounts it was placed with, for as long as it is on the book:
\* also when markets have been listed since, in any order.
OwnersCanCancel ==
  \A o \in orders :
    LET owner == open_orders[o.open_orders]
    IN Accepts(cancel_order(Own(owner.authority, owner.market), o.side, o.order_id))
=============================================================================
