----------------------------- MODULE SharePool -----------------------------
(***************************************************************************)
(* What the vault promises, with no lending market, no rates and no        *)
(* machine integers: a pool of USDC that is owned in shares.  While the    *)
(* pool is open, a member puts USDC in and gets shares (one for one in a   *)
(* pool without shares), and trades shares back for USDC, never for more   *)
(* than their part of the pool.  Nothing else moves any USDC or share.     *)
(***************************************************************************)
EXTENDS Integers

CONSTANTS
  Members,
  InitialCash    \* USDC each member starts with

VARIABLES
  phase,    \* "before", "open" or "closed"
  cash,     \* member |-> USDC
  shares,   \* member |-> shares
  issued,   \* shares in existence
  pool      \* USDC worth of the pool

poolVars == <<phase, cash, shares, issued, pool>>

PoolInit ==
  /\ phase = "before"
  /\ cash = [m \in Members |-> InitialCash]
  /\ shares = [m \in Members |-> 0]
  /\ issued = 0
  /\ pool = 0

Open  == phase = "before" /\ phase' = "open"   /\ UNCHANGED <<cash, shares, issued, pool>>
Close == phase = "open"   /\ phase' = "closed" /\ UNCHANGED <<cash, shares, issued, pool>>

Join(m, paid, minted) ==
  /\ phase = "open"
  /\ paid \in Nat /\ minted \in Nat
  /\ paid <= cash[m]
  /\ issued = 0 => paid = minted
  /\ cash' = [cash EXCEPT ![m] = @ - paid]
  /\ shares' = [shares EXCEPT ![m] = @ + minted]
  /\ issued' = issued + minted
  /\ pool' = pool + paid
  /\ UNCHANGED phase

Leave(m, burned, paid) ==
  /\ phase = "open"
  /\ burned \in Nat /\ paid \in Nat
  /\ burned <= shares[m]
  /\ paid * issued <= burned * pool
  /\ cash' = [cash EXCEPT ![m] = @ + paid]
  /\ shares' = [shares EXCEPT ![m] = @ - burned]
  /\ issued' = issued - burned
  /\ pool' = pool - paid
  /\ UNCHANGED phase

\* A step is read off the balances it changes.
PoolNext ==
  \/ Open
  \/ Close
  \/ \E m \in Members :
       \/ Join(m, cash[m] - cash'[m], shares'[m] - shares[m])
       \/ Leave(m, shares[m] - shares'[m], cash'[m] - cash[m])

PoolSpec == PoolInit /\ [][PoolNext]_poolVars
=============================================================================
