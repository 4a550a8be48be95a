-------------------------- MODULE VaultNamesProofs --------------------------
(***************************************************************************)
(* Theorems about VaultNames, for any names, however they are stripped,    *)
(* any bumps and any number of vaults and users.                           *)
(*                                                                         *)
(* What is inductive speaks of the name a vault's address was derived      *)
(* from, which is v[1]; the handlers only know the stored one, NameOf(v).  *)
(***************************************************************************)
EXTENDS VaultNames, SequenceTheorems, TLAPS

\* A vault's address, mint and token account carry one name, and its mint
\* the authority that initialize_vault derived from it.
VaultsOK ==
  /\ DOMAIN minted = DOMAIN vaults
  /\ \A v \in DOMAIN vaults :
       /\ v = VaultAddress(v[1], Canonical) /\ v[1] \in Seq(Bytes)
       /\ vaults[v].redeemable_mint = Pda(RedeemableMintSeed, v[1], Canonical)
       /\ vaults[v].redeemable_mint \in DOMAIN mints
       /\ vaults[v].vault_usdc = Pda(VaultUsdcSeed, v[1], Canonical)
       /\ mints[vaults[v].redeemable_mint].authority =
            Pda(VaultAuthoritySeed, v[1], vaults[v].bumps.vault_authority)

\* Every mint is that of a vault.
MintsOK ==
  \A m \in DOMAIN mints :
    /\ \E v \in DOMAIN vaults : m = vaults[v].redeemable_mint
    /\ mints[m] = [authority |-> mints[m].authority, supply |-> mints[m].supply]

\* A user's account belongs to a vault that passed the constraints, all of
\* them once there is anything in it.
AccountsOK ==
  \A a \in DOMAIN redeemable :
    /\ redeemable[a] = [mint |-> redeemable[a].mint, amount |-> redeemable[a].amount]
    /\ redeemable[a].amount \in Nat
    /\ \E v \in DOMAIN vaults, u \in Users :
         /\ a = <<NameOf(v), u>>
         /\ redeemable[a].mint = vaults[v].redeemable_mint
         /\ IsVault(v) /\ IsMint(v, vaults[v].redeemable_mint)
         /\ redeemable[a].amount > 0 => IsVaultUsdc(v, vaults[v].vault_usdc)

NamesInv == VaultsOK /\ MintsOK /\ AccountsOK /\ MintIsTheVaults

-----------------------------------------------------------------------------
(* Addresses *)

\* A seed in front of two names leaves them as different as they are.
LEMMA SameSeed ==
  ASSUME NEW seed \in Seq(Bytes), NEW n \in Seq(Bytes), NEW k \in Seq(Bytes),
         NEW b, NEW c, Pda(seed, n, b) = Pda(seed, k, c)
  PROVE  n = k
<1>1. seed \o n = seed \o k
  BY DEF Pda
<1>2. /\ Len(seed \o n) = Len(seed) + Len(n)
      /\ Len(seed \o k) = Len(seed) + Len(k)
      /\ Len(seed) \in Nat /\ Len(n) \in Nat /\ Len(k) \in Nat
  BY LenProperties, ConcatProperties
<1>3. Len(n) = Len(k)
  BY <1>1, <1>2
<1>4. ASSUME NEW i \in 1 .. Len(n) PROVE n[i] = k[i]
  <2>1. (seed \o n)[Len(seed) + i] = n[i]
    BY <1>2
  <2>2. (seed \o k)[Len(seed) + i] = k[i]
    BY <1>2, <1>3
  <2> QED  BY <1>1, <2>1, <2>2
<1> QED  BY <1>3, <1>4, SeqEqual

LEMMA NamesAreSequences == \A name \in Names : name \in Seq(Bytes)
BY NamesAssumption DEF Names

\* Two vaults do not share a mint or a token account.
LEMMA OwnAddresses ==
  ASSUME VaultsOK, NEW v \in DOMAIN vaults, NEW w \in DOMAIN vaults
  PROVE  /\ vaults[v].redeemable_mint = vaults[w].redeemable_mint => v = w
         /\ vaults[v].vault_usdc = vaults[w].vault_usdc => v = w
<1>1. v[1] = w[1] => v = w
  BY DEF VaultsOK
<1>2. ASSUME vaults[v].redeemable_mint = vaults[w].redeemable_mint PROVE v[1] = w[1]
  BY <1>2, SameSeed, NamesAssumption DEF VaultsOK
<1>3. ASSUME vaults[v].vault_usdc = vaults[w].vault_usdc PROVE v[1] = w[1]
  BY <1>3, SameSeed, NamesAssumption DEF VaultsOK
<1> QED  BY <1>1, <1>2, <1>3

\* An accepted vault was created with the name it stores, stripped; the mint
\* and token account accepted with it are those recorded when it was created.
LEMMA AcceptedAreRecorded ==
  ASSUME VaultsOK, MintsOK, NEW v, IsVault(v)
  PROVE  /\ NameOf(v) = v[1]
         /\ \A m : IsMint(v, m) => m = vaults[v].redeemable_mint
         /\ \A c : IsVaultUsdc(v, c) => c = vaults[v].vault_usdc
<1>1. v \in DOMAIN vaults /\ NameOf(v) = v[1] /\ v[1] \in Seq(Bytes)
  BY DEF VaultsOK, IsVault, VaultAddress
<1>2. ASSUME NEW w \in DOMAIN vaults, w[1] = v[1] PROVE w = v
  BY <1>1, <1>2 DEF VaultsOK
<1>3. ASSUME NEW m, IsMint(v, m) PROVE m = vaults[v].redeemable_mint
  <2>1. PICK w \in DOMAIN vaults : m = vaults[w].redeemable_mint
    BY <1>3 DEF IsMint, MintsOK
  <2>2. /\ m = Pda(RedeemableMintSeed, v[1], vaults[v].bumps.redeemable_mint)
        /\ m = Pda(RedeemableMintSeed, w[1], Canonical) /\ w[1] \in Seq(Bytes)
    BY <1>1, <1>3, <2>1 DEF IsMint, VaultsOK
  <2>3. v[1] = w[1]
    BY <1>1, <2>2, SameSeed, NamesAssumption
  <2> QED  BY <1>2, <2>1, <2>3
<1>4. ASSUME NEW c, IsVaultUsdc(v, c) PROVE c = vaults[v].vault_usdc
  <2>1. PICK w \in DOMAIN vaults : c = vaults[w].vault_usdc
    BY <1>4 DEF IsVaultUsdc
  <2>2. /\ c = Pda(VaultUsdcSeed, v[1], vaults[v].bumps.vault_usdc)
        /\ c = Pda(VaultUsdcSeed, w[1], Canonical) /\ w[1] \in Seq(Bytes)
    BY <1>1, <1>4, <2>1 DEF IsVaultUsdc, VaultsOK
  <2>3. v[1] = w[1]
    BY <1>1, <2>2, SameSeed, NamesAssumption
  <2> QED  BY <1>2, <2>1, <2>3
<1> QED  BY <1>1, <1>3, <1>4

-----------------------------------------------------------------------------
(* Instructions *)

\* A new vault takes nothing from the others.
LEMMA CreationKeeps ==
  ASSUME NamesInv, NEW name \in Names, NEW bumps, initialize_vault(name, bumps)
  PROVE  NamesInv'
<1> DEFINE v0 == VaultAddress(name, Canonical)
<1> DEFINE m0 == Pda(RedeemableMintSeed, name, Canonical)
<1> DEFINE new == [vault_name |-> Padded(name), bumps |-> bumps, redeemable_mint |-> m0,
                   vault_usdc |-> Pda(VaultUsdcSeed, name, Canonical)]
<1> DEFINE fresh == [authority |-> Pda(VaultAuthoritySeed, name, bumps.vault_authority),
                     supply |-> 0]
<1>1. /\ v0 \notin DOMAIN vaults /\ m0 \notin DOMAIN mints /\ redeemable' = redeemable
      /\ vaults' = WithAccount(vaults, v0, new)
      /\ mints' = WithAccount(mints, m0, fresh)
      /\ minted' = WithAccount(minted, v0, 0)
  BY DEF initialize_vault, Existing
<1>2. v0[1] = name /\ name \in Seq(Bytes)
  BY NamesAreSequences DEF VaultAddress
<1>3. m0 \notin DOMAIN mints
  BY <1>1
<1>4. /\ new.bumps = bumps /\ new.redeemable_mint = m0
      /\ new.vault_usdc = Pda(VaultUsdcSeed, name, Canonical)
      /\ fresh.authority = Pda(VaultAuthoritySeed, name, bumps.vault_authority)
      /\ fresh.supply = 0
      /\ fresh = [authority |-> fresh.authority, supply |-> fresh.supply]
  OBVIOUS
<1> HIDE DEF new, fresh
<1>5. /\ DOMAIN vaults' = DOMAIN vaults \cup {v0} /\ vaults'[v0] = new
      /\ \A v \in DOMAIN vaults : vaults'[v] = vaults[v]
      /\ DOMAIN mints' = DOMAIN mints \cup {m0} /\ mints'[m0] = fresh
      /\ \A m \in DOMAIN mints : mints'[m] = mints[m]
      /\ DOMAIN minted' = DOMAIN vaults \cup {v0} /\ minted'[v0] = 0
      /\ \A v \in DOMAIN vaults : minted'[v] = minted[v]
  <2>1. DOMAIN minted = DOMAIN vaults
    BY DEF NamesInv, VaultsOK
  <2>2. /\ DOMAIN vaults' = DOMAIN vaults \cup {v0} /\ vaults'[v0] = new
        /\ \A v \in DOMAIN vaults : vaults'[v] = vaults[v]
    BY <1>1 DEF WithAccount
  <2>3. /\ DOMAIN mints' = DOMAIN mints \cup {m0} /\ mints'[m0] = fresh
        /\ \A m \in DOMAIN mints : mints'[m] = mints[m]
    BY <1>1, <1>3 DEF WithAccount
  <2>4. /\ DOMAIN minted' = DOMAIN vaults \cup {v0} /\ minted'[v0] = 0
        /\ \A v \in DOMAIN vaults : minted'[v] = minted[v]
    BY <1>1, <2>1 DEF WithAccount
  <2> QED  BY <2>2, <2>3, <2>4
<1>6. VaultsOK'
  BY <1>2, <1>4, <1>5 DEF NamesInv, VaultsOK
<1>7. MintsOK'
  BY <1>2, <1>4, <1>5 DEF NamesInv, MintsOK
<1>8. MintIsTheVaults'
  BY <1>4, <1>5 DEF NamesInv, VaultsOK, MintIsTheVaults
<1>9. AccountsOK'
  <2> SUFFICES ASSUME NEW a \in DOMAIN redeemable
               PROVE  /\ redeemable[a] = [mint |-> redeemable[a].mint,
                                          amount |-> redeemable[a].amount]
                      /\ redeemable[a].amount \in Nat
                      /\ \E v \in DOMAIN vaults', u \in Users :
                           /\ a = <<NameOf(v)', u>>
                           /\ redeemable[a].mint = vaults'[v].redeemable_mint
                           /\ IsVault(v)' /\ IsMint(v, vaults[v].redeemable_mint)'
                           /\ redeemable[a].amount > 0 => IsVaultUsdc(v, vaults[v].vault_usdc)'
    BY <1>1 DEF AccountsOK
  <2>1. /\ redeemable[a] = [mint |-> redeemable[a].mint, amount |-> redeemable[a].amount]
        /\ redeemable[a].amount \in Nat
    BY DEF NamesInv, AccountsOK
  <2>2. PICK v \in DOMAIN vaults, u \in Users :
          /\ a = <<NameOf(v), u>>
          /\ redeemable[a].mint = vaults[v].redeemable_mint
          /\ IsVault(v) /\ IsMint(v, vaults[v].redeemable_mint)
          /\ redeemable[a].amount > 0 => IsVaultUsdc(v, vaults[v].vault_usdc)
    BY DEF NamesInv, AccountsOK
  <2>3. /\ v \in DOMAIN vaults' /\ vaults'[v] = vaults[v] /\ NameOf(v)' = NameOf(v)
    BY <1>5 DEF NameOf
  <2>4. IsVault(v)'
    BY <2>2, <2>3 DEF IsVault
  <2>5. IsMint(v, vaults[v].redeemable_mint)'
    BY <1>5, <2>2, <2>3 DEF IsMint
  <2>6. redeemable[a].amount > 0 => IsVaultUsdc(v, vaults[v].vault_usdc)'
    BY <2>2, <2>3 DEF IsVaultUsdc
  <2> QED  BY <2>1, <2>2, <2>3, <2>4, <2>5, <2>6
<1> QED  BY <1>6, <1>7, <1>8, <1>9 DEF NamesInv

LEMMA OpeningKeeps ==
  ASSUME NamesInv, NEW u \in Users, NEW v, NEW authority, NEW mint,
         initialize_user_redeemable_token_account(u, v, authority, mint)
  PROVE  NamesInv'
<1> DEFINE a0 == <<NameOf(v), u>>
<1> DEFINE empty == [mint |-> mint, amount |-> 0]
<1>1. /\ IsVault(v) /\ IsMint(v, mint) /\ v \in DOMAIN vaults
      /\ redeemable' = WithAccount(redeemable, a0, empty)
      /\ vaults' = vaults /\ mints' = mints /\ minted' = minted
  BY DEF initialize_user_redeemable_token_account, IsVault
<1>2. mint = vaults[v].redeemable_mint
  BY <1>1, AcceptedAreRecorded DEF NamesInv
<1>3. VaultsOK' /\ MintsOK' /\ MintIsTheVaults'
  BY <1>1 DEF NamesInv, VaultsOK, MintsOK, MintIsTheVaults
<1>4. /\ empty.mint = mint /\ empty.amount = 0
      /\ empty = [mint |-> empty.mint, amount |-> empty.amount]
  OBVIOUS
<1> HIDE DEF a0, empty
<1>5. /\ DOMAIN redeemable' = DOMAIN redeemable \cup {a0} /\ redeemable'[a0] = empty
      /\ \A a \in DOMAIN redeemable : a # a0 => redeemable'[a] = redeemable[a]
  BY <1>1 DEF WithAccount
<1>6. AccountsOK'
  <2>1. \A w, x, c : /\ NameOf(w)' = NameOf(w) /\ IsVault(w)' = IsVault(w)
                     /\ IsMint(w, x)' = IsMint(w, x)
                     /\ IsVaultUsdc(w, c)' = IsVaultUsdc(w, c)
    BY <1>1 DEF NameOf, IsVault, IsMint, IsVaultUsdc
  <2> SUFFICES ASSUME NEW a \in DOMAIN redeemable'
               PROVE  /\ redeemable'[a] = [mint |-> redeemable'[a].mint,
                                           amount |-> redeemable'[a].amount]
                      /\ redeemable'[a].amount \in Nat
                      /\ \E w \in DOMAIN vaults, x \in Users :
                           /\ a = <<NameOf(w), x>>
                           /\ redeemable'[a].mint = vaults[w].redeemable_mint
                           /\ IsVault(w) /\ IsMint(w, vaults[w].redeemable_mint)
                           /\ redeemable'[a].amount > 0 => IsVaultUsdc(w, vaults[w].vault_usdc)
    BY <1>1, <2>1 DEF AccountsOK
  <2>2. CASE a = a0
    BY <1>1, <1>2, <1>4, <1>5, <2>2 DEF a0
  <2>3. CASE a # a0
    BY <1>5, <2>3 DEF NamesInv, AccountsOK
  <2> QED  BY <2>2, <2>3
<1> QED  BY <1>3, <1>6 DEF NamesInv

\* The mint a deposit or a withdrawal changes is the recorded one, and the
\* account one of the same vault.
LEMMA MovedAccounts ==
  ASSUME NamesInv, NEW u, NEW v, NEW authority, NEW mint, NEW usdc, NEW account,
         DepositAccepts(v, u, authority, mint, usdc, account)
  PROVE  /\ v \in DOMAIN vaults /\ IsVault(v) /\ IsMint(v, mint) /\ mint \in DOMAIN mints
         /\ mint = vaults[v].redeemable_mint /\ IsVaultUsdc(v, vaults[v].vault_usdc)
         /\ account = <<NameOf(v), u>> /\ account \in DOMAIN redeemable
<1>1. /\ IsVault(v) /\ IsMint(v, mint) /\ IsVaultUsdc(v, usdc)
      /\ account = <<NameOf(v), u>> /\ account \in DOMAIN redeemable
      /\ v \in DOMAIN vaults /\ mint \in DOMAIN mints
  BY DEF DepositAccepts, IsUserRedeemable, IsVault, IsMint
<1>2. mint = vaults[v].redeemable_mint /\ usdc = vaults[v].vault_usdc
  BY <1>1, AcceptedAreRecorded DEF NamesInv
<1> QED  BY <1>1, <1>2

\* Minting or burning by one keeps every vault's count.
LEMMA SupplyKeeps ==
  ASSUME NamesInv, NEW v \in DOMAIN vaults, NEW n,
         vaults' = vaults,
         mints' = [mints EXCEPT ![vaults[v].redeemable_mint] =
                     [mints[vaults[v].redeemable_mint] EXCEPT !.supply = n]],
         minted' = [minted EXCEPT ![v] = n]
  PROVE  VaultsOK' /\ MintsOK' /\ MintIsTheVaults' /\ DOMAIN mints' = DOMAIN mints
<1> DEFINE m0 == vaults[v].redeemable_mint
<1>1. m0 \in DOMAIN mints
  BY DEF NamesInv, VaultsOK
<1>2. mints[m0] = [authority |-> mints[m0].authority, supply |-> mints[m0].supply]
  BY <1>1 DEF NamesInv, MintsOK
<1>3. /\ DOMAIN mints' = DOMAIN mints /\ mints'[m0] = [mints[m0] EXCEPT !.supply = n]
      /\ \A m \in DOMAIN mints : m # m0 => mints'[m] = mints[m]
  BY <1>1
<1>4. /\ mints'[m0].supply = n /\ mints'[m0].authority = mints[m0].authority
      /\ mints'[m0] = [authority |-> mints'[m0].authority, supply |-> mints'[m0].supply]
  BY <1>2, <1>3
<1>5. /\ DOMAIN minted' = DOMAIN minted /\ minted'[v] = n
      /\ \A w \in DOMAIN minted : w # v => minted'[w] = minted[w]
  BY DEF NamesInv, VaultsOK
<1>6. \A w \in DOMAIN vaults : vaults[w].redeemable_mint = m0 => w = v
  BY OwnAddresses DEF NamesInv
<1> HIDE DEF m0
<1>7. VaultsOK'
  BY <1>3, <1>4, <1>5 DEF NamesInv, VaultsOK
<1>8. MintsOK'
  BY <1>3, <1>4 DEF NamesInv, MintsOK
<1>9. MintIsTheVaults'
  BY <1>3, <1>4, <1>5, <1>6 DEF NamesInv, VaultsOK, MintIsTheVaults, m0
<1> QED  BY <1>3, <1>7, <1>8, <1>9

\* A user's account takes another amount, or is closed.
LEMMA HolderKeeps ==
  ASSUME NamesInv, NEW u \in Users, NEW v \in DOMAIN vaults, NEW n \in Nat,
         NEW account \in DOMAIN redeemable,
         account = <<NameOf(v), u>>,
         redeemable[account].mint = vaults[v].redeemable_mint,
         IsVault(v), IsMint(v, vaults[v].redeemable_mint),
         IsVaultUsdc(v, vaults[v].vault_usdc),
         vaults' = vaults, DOMAIN mints' = DOMAIN mints,
         \/ redeemable' = [redeemable EXCEPT ![account] =
                             [redeemable[account] EXCEPT !.amount = n]]
         \/ redeemable' = [a \in DOMAIN redeemable \ {account} |-> redeemable[a]]
  PROVE  AccountsOK'
<1>1. /\ redeemable[account] = [mint |-> redeemable[account].mint,
                                amount |-> redeemable[account].amount]
  BY DEF NamesInv, AccountsOK
<1>2. /\ DOMAIN redeemable' \subseteq DOMAIN redeemable
      /\ \A a \in DOMAIN redeemable' : a # account => redeemable'[a] = redeemable[a]
      /\ account \in DOMAIN redeemable' =>
           redeemable'[account] = [redeemable[account] EXCEPT !.amount = n]
  OBVIOUS
<1>3. account \in DOMAIN redeemable' =>
        /\ redeemable'[account].mint = redeemable[account].mint
        /\ redeemable'[account].amount = n
        /\ redeemable'[account] = [mint |-> redeemable'[account].mint,
                                   amount |-> redeemable'[account].amount]
  BY <1>1, <1>2
<1>4. \A w, m, c : /\ NameOf(w)' = NameOf(w) /\ IsVault(w)' = IsVault(w)
                   /\ IsMint(w, m)' = IsMint(w, m)
                   /\ IsVaultUsdc(w, c)' = IsVaultUsdc(w, c)
  BY DEF NameOf, IsVault, IsMint, IsVaultUsdc
<1> SUFFICES ASSUME NEW a \in DOMAIN redeemable'
             PROVE  /\ redeemable'[a] = [mint |-> redeemable'[a].mint,
                                         amount |-> redeemable'[a].amount]
                    /\ redeemable'[a].amount \in Nat
                    /\ \E w \in DOMAIN vaults, x \in Users :
                         /\ a = <<NameOf(w), x>>
                         /\ redeemable'[a].mint = vaults[w].redeemable_mint
                         /\ IsVault(w) /\ IsMint(w, vaults[w].redeemable_mint)
                         /\ redeemable'[a].amount > 0 => IsVaultUsdc(w, vaults[w].vault_usdc)
  BY <1>4 DEF AccountsOK
<1>5. CASE a = account
  BY <1>3, <1>5
<1>6. CASE a # account
  BY <1>2, <1>6 DEF NamesInv, AccountsOK
<1> QED  BY <1>5, <1>6

LEMMA DepositKeeps ==
  ASSUME NamesInv, NEW u \in Users, NEW v, NEW authority, NEW mint, NEW usdc, NEW account,
         deposit_vault(u, v, authority, mint, usdc, account)
  PROVE  NamesInv'
<1> DEFINE n == minted[v] + 1
<1> DEFINE k == redeemable[account].amount + 1
<1>1. /\ DepositAccepts(v, u, authority, mint, usdc, account)
      /\ redeemable[account].mint = mint
      /\ vaults' = vaults
      /\ minted' = [minted EXCEPT ![v] = n]
      /\ mints' = [mints EXCEPT ![mint] =
                     [mints[mint] EXCEPT !.supply = mints[mint].supply + 1]]
      /\ redeemable' = [redeemable EXCEPT ![account] = [redeemable[account] EXCEPT !.amount = k]]
  BY DEF deposit_vault
<1>2. /\ v \in DOMAIN vaults /\ IsVault(v) /\ IsMint(v, mint) /\ mint \in DOMAIN mints
      /\ mint = vaults[v].redeemable_mint /\ IsVaultUsdc(v, vaults[v].vault_usdc)
      /\ account = <<NameOf(v), u>> /\ account \in DOMAIN redeemable
  BY <1>1, MovedAccounts
<1>3. mints[mint].supply + 1 = n
  BY <1>2 DEF NamesInv, MintIsTheVaults
<1>4. k \in Nat
  BY <1>2 DEF NamesInv, AccountsOK
<1> HIDE DEF n, k
<1>5. VaultsOK' /\ MintsOK' /\ MintIsTheVaults' /\ DOMAIN mints' = DOMAIN mints
  BY <1>1, <1>2, <1>3, SupplyKeeps
<1>6. AccountsOK'
  BY <1>1, <1>2, <1>4, <1>5, HolderKeeps
<1> QED  BY <1>5, <1>6 DEF NamesInv

LEMMA WithdrawKeeps ==
  ASSUME NamesInv, NEW u \in Users, NEW v, NEW authority, NEW mint, NEW usdc, NEW account,
         withdraw_vault(u, v, authority, mint, usdc, account)
  PROVE  NamesInv'
<1> DEFINE n == minted[v] - 1
<1> DEFINE k == redeemable[account].amount - 1
<1>1. /\ DepositAccepts(v, u, authority, mint, usdc, account)
      /\ redeemable[account].mint = mint
      /\ redeemable[account].amount > 0
      /\ vaults' = vaults
      /\ minted' = [minted EXCEPT ![v] = n]
      /\ mints' = [mints EXCEPT ![mint] =
                     [mints[mint] EXCEPT !.supply = mints[mint].supply - 1]]
      /\ \/ redeemable' = [redeemable EXCEPT ![account] =
                              [redeemable[account] EXCEPT !.amount = k]]
         \/ redeemable' = [a \in DOMAIN redeemable \ {account} |-> redeemable[a]]
  BY DEF withdraw_vault, WithdrawAccepts, DepositAccepts
<1>2. /\ v \in DOMAIN vaults /\ IsVault(v) /\ IsMint(v, mint) /\ mint \in DOMAIN mints
      /\ mint = vaults[v].redeemable_mint /\ IsVaultUsdc(v, vaults[v].vault_usdc)
      /\ account = <<NameOf(v), u>> /\ account \in DOMAIN redeemable
  BY <1>1, MovedAccounts
<1>3. mints[mint].supply - 1 = n
  BY <1>2 DEF NamesInv, MintIsTheVaults
<1>4. k \in Nat
  BY <1>1, <1>2 DEF NamesInv, AccountsOK
<1> HIDE DEF n, k
<1>5. VaultsOK' /\ MintsOK' /\ MintIsTheVaults' /\ DOMAIN mints' = DOMAIN mints
  BY <1>1, <1>2, <1>3, SupplyKeeps
<1>6. AccountsOK'
  BY <1>1, <1>2, <1>4, <1>5, HolderKeeps
<1> QED  BY <1>5, <1>6 DEF NamesInv

LEMMA NamesInvInvariant == NamesSpec => []NamesInv
<1>1. Init => NamesInv
  BY DEF Init, NamesInv, VaultsOK, MintsOK, AccountsOK, MintIsTheVaults
<1>2. NamesInv /\ [NamesNext]_namesVars => NamesInv'
  <2> SUFFICES ASSUME NamesInv, [NamesNext]_namesVars  PROVE NamesInv'
    OBVIOUS
  <2>1. ASSUME NEW name \in Names, NEW bumps \in VaultBumps, initialize_vault(name, bumps)
        PROVE  NamesInv'
    BY <2>1, CreationKeeps
  <2>2. ASSUME NEW u \in Users, NEW v \in DOMAIN vaults, NEW mint \in DOMAIN mints,
               initialize_user_redeemable_token_account(u, v, mints[mint].authority, mint)
        PROVE  NamesInv'
    BY <2>2, OpeningKeeps
  <2>3. ASSUME NEW u \in Users, NEW v \in DOMAIN vaults, NEW a \in Accounts,
               deposit_vault(u, v, a.authority, a.mint, a.usdc, a.account)
        PROVE  NamesInv'
    BY <2>3, DepositKeeps
  <2>4. ASSUME NEW u \in Users, NEW v \in DOMAIN vaults, NEW a \in Accounts,
               withdraw_vault(u, v, a.authority, a.mint, a.usdc, a.account)
        PROVE  NamesInv'
    BY <2>4, WithdrawKeeps
  <2>5. CASE UNCHANGED namesVars
    BY <2>5 DEF namesVars, NamesInv, VaultsOK, MintsOK, AccountsOK, MintIsTheVaults,
                NameOf, IsVault, IsMint, IsVaultUsdc
  <2> QED  BY <2>1, <2>2, <2>3, <2>4, <2>5 DEF NamesNext
<1> QED  BY <1>1, <1>2, PTL DEF NamesSpec

-----------------------------------------------------------------------------
(* Theorems *)

\* lib.rs:54, context.rs:124-143, 201-218: whatever accounts clients pass,
\* what a vault's users were minted and have not burned is the supply of the
\* mint recorded for the vault.
THEOREM MintAlwaysTheVaults == NamesSpec => []MintIsTheVaults
BY NamesInvInvariant, PTL DEF NamesInv

\* context.rs:180-224: an account that holds a vault's zTokens was opened and
\* filled under the constraints of two other contexts, and those of
\* withdraw_vault, with the accounts the vault recorded, ask for nothing else.
THEOREM HoldersAlwaysAccepted == NamesSpec => []HoldersAreAccepted
<1>1. NamesInv => HoldersAreAccepted
  <2> SUFFICES ASSUME NamesInv, NEW v \in DOMAIN vaults, NEW u \in Users,
                      <<NameOf(v), u>> \in DOMAIN redeemable,
                      redeemable[<<NameOf(v), u>>].mint = vaults[v].redeemable_mint,
                      redeemable[<<NameOf(v), u>>].amount > 0
               PROVE  WithdrawAccepts(v, u, mints[vaults[v].redeemable_mint].authority,
                        vaults[v].redeemable_mint, vaults[v].vault_usdc, <<NameOf(v), u>>)
    BY DEF HoldersAreAccepted
  <2>1. PICK w \in DOMAIN vaults :
          /\ redeemable[<<NameOf(v), u>>].mint = vaults[w].redeemable_mint
          /\ IsVault(w) /\ IsMint(w, vaults[w].redeemable_mint)
          /\ IsVaultUsdc(w, vaults[w].vault_usdc)
    BY DEF NamesInv, AccountsOK
  <2>2. w = v
    BY <2>1, OwnAddresses DEF NamesInv
  <2>3. IsVault(v) /\ IsMint(v, vaults[v].redeemable_mint) /\ IsVaultUsdc(v, vaults[v].vault_usdc)
    BY <2>1, <2>2
  <2>4. IsAuthority(v, mints[vaults[v].redeemable_mint].authority)
    BY <2>3, AcceptedAreRecorded DEF NamesInv, VaultsOK, IsAuthority
  <2>5. IsUserRedeemable(v, u, <<NameOf(v), u>>)
    BY DEF IsUserRedeemable
  <2> QED  BY <2>3, <2>4, <2>5 DEF WithdrawAccepts
<1> QED  BY <1>1, NamesInvInvariant, PTL
=============================================================================
