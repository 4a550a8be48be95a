----------------------------- MODULE VaultNames -----------------------------
(***************************************************************************)
(* Which accounts the instructions of the vault program accept: the        *)
(* `seeds`, `bump` and `init` constraints of context.rs, the name that     *)
(* initialize_vault pads and stores, and the name and bumps that every     *)
(* later instruction strips, recomputes and compares.                      *)
(*                                                                         *)
(* Amounts are the business of Vault: here every deposit mints and every   *)
(* withdrawal burns one zToken.                                            *)
(*                                                                         *)
(* A program address is a hash of its seeds, one after the other, and its  *)
(* bump: here it is that sequence of bytes with the bump.  A vault's own   *)
(* seed is its bare name, so a vault named as the seed of an account kind  *)
(* followed by some name has the address of that name's account.           *)
(***************************************************************************)
EXTENDS Naturals, Sequences, FiniteSets, FiniteSetsExt

CONSTANTS
  Users,
  Letters,       \* the bytes of a name that are not blank
  Blank,         \* an ASCII whitespace byte
  NameLength,    \* bytes in vault_name: 20 in the program
  VaultAuthoritySeed, RedeemableMintSeed, VaultUsdcSeed,
                 \* what precedes the name in the seeds (constants.rs:1-3)
  Bumps,         \* the bumps of valid program addresses
  Canonical,     \* the one find_program_address returns
  MaxVaults,     \* bound on the vaults that are created
  MaxSupply      \* bound on the zTokens of a mint

Bytes == Letters \cup {Blank}

ASSUME NamesAssumption ==
  /\ Blank \notin Letters
  /\ NameLength \in Nat
  /\ VaultAuthoritySeed \in Seq(Bytes)
  /\ RedeemableMintSeed \in Seq(Bytes)
  /\ VaultUsdcSeed \in Seq(Bytes)
  /\ Canonical \in Bumps
  /\ MaxVaults \in Nat /\ MaxSupply \in Nat

\* What a client may pass as vault_name; one byte too many is a panic.
Names == UNION { [1 .. n -> Bytes] : n \in 0 .. NameLength + 1 }

\* The addresses derived from a name and a bump.  Those of the users' accounts
\* are pairs: their seeds end in the user's 32-byte key and start with 15 bytes
\* and the name, which is longer than all the others.
VaultAddress(name, bump) == <<name, bump>>
Pda(seed, name, bump) == <<seed \o name, bump>>

VARIABLES
  vaults,      \* address |-> Vault, for the vaults that exist
  mints,       \* address |-> [authority, supply], the redeemable mints
  redeemable,  \* <<name, user>> |-> [mint, amount], the user_redeemable accounts
  minted       \* vault address |-> zTokens its users got less those they burned

namesVars == <<vaults, mints, redeemable, minted>>

VaultBumps == [vault : Bumps, vault_authority : Bumps, redeemable_mint : Bumps, vault_usdc : Bumps]

Init == vaults = <<>> /\ mints = <<>> /\ redeemable = <<>> /\ minted = <<>>

-----------------------------------------------------------------------------
(* Names *)

\* name_data: the name, padded with blanks.
Padded(name) ==
  [i \in 1 .. NameLength |-> IF i <= Len(name) THEN name[i] ELSE Blank]

\* StripAsciiWhitespace::strip
Strip(data) ==
  LET visible == { i \in DOMAIN data : data[i] # Blank }
  IN IF visible = {} THEN <<>> ELSE SubSeq(data, Min(visible), Max(visible))

\* The name the constraints of a vault's account v derive addresses from.
NameOf(v) == Strip(vaults[v].vault_name)

-----------------------------------------------------------------------------
(* Account constraints *)

\* Fault: the address of the vault account is not derived again.
AnyVault(v) == v \in DOMAIN vaults

\* #[account(seeds = [vault.vault_name.as_ref().strip()], bump = vault.bumps.vault)]
IsVault(v) ==
  /\ v \in DOMAIN vaults
  /\ v = VaultAddress(NameOf(v), vaults[v].bumps.vault)

IsAuthority(v, authority) ==
  authority = Pda(VaultAuthoritySeed, NameOf(v), vaults[v].bumps.vault_authority)

IsMint(v, mint) ==
  /\ mint \in DOMAIN mints
  /\ mint = Pda(RedeemableMintSeed, NameOf(v), vaults[v].bumps.redeemable_mint)

\* The only token accounts ever created with this seed are those of vaults.
IsVaultUsdc(v, usdc) ==
  /\ usdc \in { vaults[w].vault_usdc : w \in DOMAIN vaults }
  /\ usdc = Pda(VaultUsdcSeed, NameOf(v), vaults[v].bumps.vault_usdc)

IsUserRedeemable(v, u, account) ==
  /\ account \in DOMAIN redeemable
  /\ account = <<NameOf(v), u>>

DepositAccepts(v, u, authority, mint, usdc, account) ==
  /\ IsVault(v) /\ IsAuthority(v, authority)
  /\ IsMint(v, mint) /\ IsVaultUsdc(v, usdc) /\ IsUserRedeemable(v, u, account)

\* Fault: a context that does not strip the stored name.
WithdrawUnstripped(v, u, authority, mint, usdc, account) ==
  /\ DepositAccepts(v, u, authority, mint, usdc, account)
  /\ account = <<vaults[v].vault_name, u>>

WithdrawAccepts(v, u, authority, mint, usdc, account) ==
  /\ IsVault(v) /\ IsAuthority(v, authority)
  /\ IsMint(v, mint) /\ IsVaultUsdc(v, usdc) /\ IsUserRedeemable(v, u, account)

-----------------------------------------------------------------------------
(* Instructions *)

\* The addresses at which the program has created accounts.  A vault_authority
\* is none: it only signs.
Existing ==
  DOMAIN vaults \cup DOMAIN mints \cup { vaults[v].vault_usdc : v \in DOMAIN vaults }

\* An `init` account: at an address where there was none.
WithAccount(accounts, address, data) ==
  [a \in DOMAIN accounts \cup {address} |->
     IF a = address THEN data ELSE accounts[a]]

\* The accounts are derived from the name as passed, the mint and the token
\* account with the canonical bump; only vault_authority's bump is compared
\* with the client's, and may be any that is valid.
initialize_vault(name, bumps) ==
  LET v == VaultAddress(name, Canonical)
      authority == Pda(VaultAuthoritySeed, name, bumps.vault_authority)
      mint == Pda(RedeemableMintSeed, name, Canonical)
      usdc == Pda(VaultUsdcSeed, name, Canonical)
  IN /\ Cardinality(DOMAIN vaults) < MaxVaults
     /\ Len(name) <= NameLength
     /\ Existing \cap {v, mint, usdc} = {}
     /\ vaults' = WithAccount(vaults, v,
          [vault_name |-> Padded(name), bumps |-> bumps, redeemable_mint |-> mint,
           vault_usdc |-> usdc])
     /\ mints' = WithAccount(mints, mint, [authority |-> authority, supply |-> 0])
     /\ minted' = WithAccount(minted, v, 0)
     /\ UNCHANGED redeemable

initialize_user_redeemable_token_account(u, v, authority, mint) ==
  /\ IsVault(v) /\ IsAuthority(v, authority) /\ IsMint(v, mint)
  /\ <<NameOf(v), u>> \notin DOMAIN redeemable
  /\ redeemable' = WithAccount(redeemable, <<NameOf(v), u>>, [mint |-> mint, amount |-> 0])
  /\ UNCHANGED <<vaults, mints, minted>>

\* mint_to: the mint's authority signs, and the account is of this mint.
deposit_vault(u, v, authority, mint, usdc, account) ==
  /\ DepositAccepts(v, u, authority, mint, usdc, account)
  /\ mints[mint].authority = authority
  /\ redeemable[account].mint = mint
  /\ mints[mint].supply < MaxSupply
  /\ mints' = [mints EXCEPT ![mint].supply = @ + 1]
  /\ redeemable' = [redeemable EXCEPT ![account].amount = @ + 1]
  /\ minted' = [minted EXCEPT ![v] = @ + 1]
  /\ UNCHANGED vaults

\* burn, and close_account once the account is empty.
withdraw_vault(u, v, authority, mint, usdc, account) ==
  /\ WithdrawAccepts(v, u, authority, mint, usdc, account)
  /\ redeemable[account].mint = mint
  /\ redeemable[account].amount > 0
  /\ mints' = [mints EXCEPT ![mint].supply = @ - 1]
  /\ redeemable' =
       IF redeemable[account].amount = 1
       THEN [a \in DOMAIN redeemable \ {account} |-> redeemable[a]]
       ELSE [redeemable EXCEPT ![account].amount = @ - 1]
  /\ minted' = [minted EXCEPT ![v] = @ - 1]
  /\ UNCHANGED vaults

\* A client passes any existing accounts it likes.
Accounts ==
  [authority : { mints[m].authority : m \in DOMAIN mints },
   mint : DOMAIN mints,
   usdc : { vaults[v].vault_usdc : v \in DOMAIN vaults },
   account : DOMAIN redeemable]

NamesNext ==
  \/ \E name \in Names, bumps \in VaultBumps : initialize_vault(name, bumps)
  \/ \E u \in Users, v \in DOMAIN vaults :
       \/ \E mint \in DOMAIN mints :
            initialize_user_redeemable_token_account(u, v, mints[mint].authority, mint)
       \/ \E a \in Accounts :
            \/ deposit_vault(u, v, a.authority, a.mint, a.usdc, a.account)
            \/ withdraw_vault(u, v, a.authority, a.mint, a.usdc, a.account)

NamesSpec == Init /\ [][NamesNext]_namesVars

-----------------------------------------------------------------------------
(* Properties *)

\* Deposits into and withdrawals from a vault mint and burn the tokens of the
\* mint that initialize_vault recorded for it (lib.rs:54), although no
\* constraint compares the two, names that differ in blanks alone strip to the
\* same seeds, and a vault may have the address of another's mint or token
\* account (context.rs:14, 124-143, 201-218).
MintIsTheVaults ==
  \A v \in DOMAIN vaults :
    mints[vaults[v].redeemable_mint].supply = minted[v]

\* Who holds zTokens of a vault passes the account constraints of
\* withdraw_vault (context.rs:180-224) with the accounts the vault recorded:
\* the contexts of three instructions derive the same addresses, so that
\* nobody gets in who cannot get out.
HoldersAreAccepted ==
  \A v \in DOMAIN vaults, u \in Users :
    LET w == vaults[v]
        account == <<NameOf(v), u>>
    IN /\ account \in DOMAIN redeemable
       /\ redeemable[account].mint = w.redeemable_mint
       /\ redeemable[account].amount > 0
       => WithdrawAccepts(v, u, mints[w.redeemable_mint].authority,
                          w.redeemable_mint, w.vault_usdc, account)
=============================================================================
