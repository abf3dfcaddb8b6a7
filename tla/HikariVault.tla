---- MODULE HikariVault ----
(***************************************************************************)
(* contracts/vault, composed with the contracts it calls: the underlying   *)
(* asset, the share token, the policy account, the strategy registry and   *)
(* the strategy adapters.  One vault call is one step: the vault's own     *)
(* assignments conjoined with the operations it invokes, any of which can  *)
(* refuse and so refuse the whole call.                                    *)
(*                                                                         *)
(* The wiring (set_vault of token and registry) is fixed here, as in a     *)
(* running deployment; the components' own specifications change it.       *)
(***************************************************************************)
EXTENDS ShareToken, StrategyRegistry, PolicyAccount, StrategyAdapters

CONSTANTS
    VaultAdmin,         \* DataKey::Admin of the vault
    VaultGuardian,      \* DataKey::EmergencyGuardian of the vault
    Principals          \* addresses that may call the guarded operations

VARIABLES
    paused,             \* DataKey::Paused
    totalIdleAssets,    \* DataKey::TotalIdleAssets
    allocatedAssets     \* DataKey::AllocatedAssets

vaultVars == <<paused, totalIdleAssets, allocatedAssets>>

vars == <<seq, assetBal, tokenVars, registryVars, policyVars, bookVars, vaultVars>>

ASSUME VaultAssumption ==
    /\ Holders \subseteq Accounts
    /\ Vault \in Accounts
    /\ Holders \cap (Strategies \cup {Vault}) = {}
    /\ {VaultAdmin, VaultGuardian, RegistryAdmin, RegistryGuardian} \subseteq Principals

VIRTUAL_SHARES == 1000
VIRTUAL_ASSETS == 1

VaultTypeOK ==
    /\ paused \in BOOLEAN
    /\ totalIdleAssets \in Nat
    /\ allocatedAssets \in Nat

TotalAssets == totalIdleAssets + allocatedAssets

(* Wrong variants: shares priced on the idle assets alone, and assets      *)
(* rounded up instead of down.                                             *)
ConvertToSharesOnIdle(assets) ==
    (assets * (totalSupply + VIRTUAL_SHARES)) \div (totalIdleAssets + VIRTUAL_ASSETS)

ConvertToAssetsUp(shares) ==
    (shares * (TotalAssets + VIRTUAL_ASSETS) + totalSupply + VIRTUAL_SHARES - 1)
        \div (totalSupply + VIRTUAL_SHARES)

ConvertToShares(assets) ==
    (assets * (totalSupply + VIRTUAL_SHARES)) \div (TotalAssets + VIRTUAL_ASSETS)

ConvertToAssets(shares) ==
    (shares * (TotalAssets + VIRTUAL_ASSETS)) \div (totalSupply + VIRTUAL_SHARES)

VaultInit ==
    /\ paused = FALSE
    /\ totalIdleAssets = 0
    /\ allocatedAssets = 0

Deposit(from, amount) ==
    /\ ~paused
    /\ amount > 0
    /\ ConvertToShares(amount) > 0
    /\ AssetTransfer(from, Vault, amount)
    /\ totalIdleAssets' = totalIdleAssets + amount
    /\ Mint(Vault, from, ConvertToShares(amount))
    /\ UNCHANGED <<seq, registryVars, policyVars, bookVars, paused, allocatedAssets>>

(* Wrong variants of Withdraw: without the idle check, without the idle    *)
(* deduction, and without the pause check.                                 *)
WithdrawUncheckedIdle(to, shares) ==
    LET assets == ConvertToAssets(shares)
    IN  /\ ~paused
        /\ shares > 0
        /\ Burn(Vault, to, shares)
        /\ totalIdleAssets' = totalIdleAssets - assets
        /\ AssetTransfer(Vault, to, assets)
        /\ UNCHANGED <<seq, registryVars, policyVars, bookVars, paused, allocatedAssets>>

WithdrawKeepingIdle(to, shares) ==
    /\ ~paused
    /\ shares > 0
    /\ totalIdleAssets >= ConvertToAssets(shares)
    /\ Burn(Vault, to, shares)
    /\ AssetTransfer(Vault, to, ConvertToAssets(shares))
    /\ UNCHANGED <<seq, registryVars, policyVars, bookVars, vaultVars>>

WithdrawWhilePaused(to, shares) ==
    LET assets == ConvertToAssets(shares)
    IN  /\ shares > 0
        /\ totalIdleAssets >= assets
        /\ Burn(Vault, to, shares)
        /\ totalIdleAssets' = totalIdleAssets - assets
        /\ AssetTransfer(Vault, to, assets)
        /\ UNCHANGED <<seq, registryVars, policyVars, bookVars, paused, allocatedAssets>>

Withdraw(to, shares) ==
    LET assets == ConvertToAssets(shares)
    IN  /\ ~paused
        /\ shares > 0
        /\ totalIdleAssets >= assets
        /\ Burn(Vault, to, shares)
        /\ totalIdleAssets' = totalIdleAssets - assets
        /\ AssetTransfer(Vault, to, assets)
        /\ UNCHANGED <<seq, registryVars, policyVars, bookVars, paused, allocatedAssets>>

AllocateToStrategy(agent, s, amount) ==
    /\ ~paused
    /\ amount > 0
    /\ totalIdleAssets >= amount
    /\ VerifyAndRecordAction(agent, s, amount)
    /\ RecordAllocation(Vault, s, amount)
    /\ AssetTransfer(Vault, s, amount)
    /\ AdapterDeposit(s, amount)
    /\ totalIdleAssets' = totalIdleAssets - amount
    /\ allocatedAssets' = allocatedAssets + amount
    /\ UNCHANGED <<seq, tokenVars, paused>>

(* Wrong variants: the returned amount stays counted as allocated, always  *)
(* or when it exceeds the amount counted.                                  *)
CreditReturnedTwice(amount) ==
    /\ totalIdleAssets' = totalIdleAssets + amount
    /\ allocatedAssets' = allocatedAssets

CreditReturnedUnclamped(amount) ==
    /\ totalIdleAssets' = totalIdleAssets + amount
    /\ allocatedAssets' = IF allocatedAssets < amount THEN allocatedAssets
                                                     ELSE allocatedAssets - amount

(* Funds that come back: idle grows by what the strategy reported, and the *)
(* amount counted as allocated shrinks by it, clamped at zero.             *)
CreditReturned(amount) ==
    /\ totalIdleAssets' = totalIdleAssets + amount
    /\ allocatedAssets' = Monus(allocatedAssets, amount)

(* The agent argument only has to sign: neither the pause flag nor the     *)
(* policy account is consulted on the way back.                            *)
DeallocateFromStrategy(s, amount) ==
    /\ AdapterWithdraw(s, amount)
    /\ RecordDeallocation(Vault, s, amount)
    /\ CreditReturned(amount)
    /\ UNCHANGED <<seq, tokenVars, policyVars, paused>>

EmergencyExitStrategy(caller, s) ==
    /\ caller \in {VaultAdmin, VaultGuardian}
    /\ AdapterEmergencyExit(s)
    /\ CreditReturned(TotalValue(s))
    /\ RevokeStrategy(caller, s)
    /\ UNCHANGED <<seq, tokenVars, policyVars, paused>>

Pause(caller) ==
    /\ caller \in {VaultAdmin, VaultGuardian}
    /\ paused' = TRUE
    /\ UNCHANGED <<seq, assetBal, tokenVars, registryVars, policyVars, bookVars,
                   totalIdleAssets, allocatedAssets>>

Unpause(caller) ==
    /\ caller = VaultAdmin
    /\ paused' = FALSE
    /\ UNCHANGED <<seq, assetBal, tokenVars, registryVars, policyVars, bookVars,
                   totalIdleAssets, allocatedAssets>>
====
