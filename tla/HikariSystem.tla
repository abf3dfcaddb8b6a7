---- MODULE HikariSystem ----
(***************************************************************************)
(* The on-chain capital core as one system: every call that users, agents, *)
(* admins, guardians and bystanders may make on the vault and the          *)
(* contracts around it, interleaved in any order.                          *)
(***************************************************************************)
EXTENDS HikariVault, Totals

CONSTANTS
    Amounts,        \* bound: amounts of the asset in one call
    ShareAmounts,   \* bound: amounts of shares in one call
    Caps,           \* bound: strategy caps the admin sets
    TxLimits,       \* bound: per-transaction limits the admin sets
    DailyLimits,    \* bound: daily limits the admin sets
    MaxYield,       \* bound: yield one adapter accrues
    MaxAssets       \* bound: no more yield accrues once the vault counts this much

ASSUME InputAssumption ==
    /\ Amounts \subseteq Nat
    /\ ShareAmounts \subseteq Nat
    /\ Caps \subseteq Nat
    /\ TxLimits \subseteq Nat
    /\ DailyLimits \subseteq Nat

Init ==
    /\ LedgerInit
    /\ AssetInit
    /\ TokenInit(Vault)
    /\ RegistryInit(Vault)
    /\ \E maxTx \in TxLimits, dailyLimit \in DailyLimits : PolicyInit(maxTx, dailyLimit)
    /\ AdapterInit
    /\ VaultInit

UserNext ==
    \/ \E u \in Holders, amount \in Amounts : Deposit(u, amount)
    \/ \E u \in Holders, shares \in ShareAmounts : Withdraw(u, shares)
    \/ \E u, v \in Holders, shares \in ShareAmounts :
          /\ TransferShares(u, v, shares)
          /\ UNCHANGED <<seq, assetBal, registryVars, policyVars, bookVars, vaultVars>>
    \/ \E u \in Holders, amount \in Amounts :     \* a donation: the vault is not called
          /\ AssetTransfer(u, Vault, amount)
          /\ UNCHANGED <<seq, tokenVars, registryVars, policyVars, bookVars, vaultVars>>

AgentNext ==
    \/ \E a \in Agents, s \in Strategies, amount \in Amounts : AllocateToStrategy(a, s, amount)
    \/ \E s \in Strategies, amount \in Amounts : DeallocateFromStrategy(s, amount)

GuardNext ==
    \E caller \in Principals :
        \/ Pause(caller)
        \/ Unpause(caller)
        \/ \E s \in Strategies : EmergencyExitStrategy(caller, s)

RegistryNext ==
    /\ \E s \in Strategies :
        \/ \E cap \in Caps : AddStrategy(s, cap) \/ UpdateCap(s, cap)
        \/ UnpauseStrategy(s)
        \/ \E caller \in Principals : PauseStrategy(caller, s) \/ RevokeStrategy(caller, s)
    /\ UNCHANGED <<seq, assetBal, tokenVars, policyVars, bookVars, vaultVars>>

PolicyNext ==
    /\ \/ \E a \in Agents, active \in BOOLEAN : SetAgentStatus(a, active)
       \/ \E s \in Strategies, allowed \in BOOLEAN : SetContractAllowed(s, allowed)
       \/ \E maxTx \in TxLimits, dailyLimit \in DailyLimits : SetLimits(maxTx, dailyLimit)
    /\ UNCHANGED <<seq, assetBal, tokenVars, registryVars, bookVars, vaultVars>>

(* No call of the vault reaches harvest or recenter_ticks, and both admit  *)
(* only the vault; accrue_fees admits anyone.                              *)
AdapterNext ==
    /\ \E s \in Strategies, amount \in Amounts :
        /\ yield[s] + amount <= MaxYield
        /\ TotalAssets + amount <= MaxAssets
        /\ AccrueFees(s, amount)
    /\ UNCHANGED <<seq, tokenVars, registryVars, policyVars, vaultVars>>

LedgerNext ==
    /\ CloseLedger
    /\ UNCHANGED <<assetBal, tokenVars, registryVars, policyVars, bookVars, vaultVars>>

Next == UserNext \/ AgentNext \/ GuardNext \/ RegistryNext \/ PolicyNext
            \/ AdapterNext \/ LedgerNext

Spec == Init /\ [][Next]_vars

----
(* Every contract's storage keeps its type: in particular no balance, book *)
(* or counter is ever driven below zero by the clamps and subtractions of  *)
(* the vault, registry and adapters.                                       *)
TypeOK ==
    /\ LedgerTypeOK
    /\ AssetTypeOK
    /\ TokenTypeOK
    /\ RegistryTypeOK
    /\ PolicyTypeOK
    /\ AdapterTypeOK
    /\ VaultTypeOK

(* TotalIdleAssets never claims more of the underlying asset than the      *)
(* vault's own balance, so a withdrawal that passes the vault's idle check *)
(* (vault lib.rs:120) can always be paid by the transfer that follows it.  *)
IdleBacked == totalIdleAssets <= assetBal[Vault]

(* Every position an adapter reports can be returned: total_value of a     *)
(* strategy never exceeds the asset it holds.                              *)
PositionsBacked == \A s \in Strategies : TotalValue(s) <= assetBal[s]

(* AllocatedAssets is kept by three code paths (allocate, deallocate,      *)
(* emergency exit), each with its own clamp; however they interleave it    *)
(* never counts assets that no strategy holds for the vault.               *)
NoPhantomAllocation ==
    /\ allocatedAssets <= Total([s \in Strategies |-> TotalValue(s)])
    /\ allocatedAssets <= Total([s \in Strategies |-> registry[s].allocated])

(* A strategy's recorded allocation respects its cap through every         *)
(* interleaving of cap updates, allocations, exits and reactivations, and  *)
(* until a strategy is exited its record covers what it holds.             *)
CapRespected ==
    \A s \in Strategies :
        /\ registry[s].allocated <= registry[s].cap
        /\ principal[s] <= registry[s].allocated

(* After an emergency exit a strategy is out of use for good: no sequence  *)
(* of pausing, unpausing and re-allowing it puts funds or value into it.   *)
ExitedStaysEmpty == \A s \in Strategies : adapterPaused[s] => TotalValue(s) = 0

(* hXLM supply is the sum of the holders' balances: mint, burn and         *)
(* transfers, a transfer to oneself included, neither lose nor invent any. *)
SupplyIsSum == totalSupply = Total(shareBal)

(* The assets behind the shares exist: what every share together converts  *)
(* to is held by the vault and its strategies (README.md:94, R >= S * P).  *)
Solvent ==
    ConvertToAssets(totalSupply)
        <= assetBal[Vault] + Total([s \in Strategies |-> assetBal[s]])

(* Depositing any amount and withdrawing the shares at once never returns  *)
(* more than was deposited, at any price the vault can reach: both         *)
(* conversions round against the caller.                                   *)
RoundTripNeverProfits ==
    \A amount \in Amounts :
        LET minted == ConvertToShares(amount)
        IN  (minted * (TotalAssets + amount + VIRTUAL_ASSETS))
                \div (totalSupply + minted + VIRTUAL_SHARES) <= amount

(* The price of a share, (assets + 1) / (supply + 1000), never falls: no   *)
(* deposit, withdrawal, allocation, return or exit takes value from those  *)
(* who hold (compared by cross-multiplication).                            *)
PriceNeverFalls ==
    [][(TotalAssets + VIRTUAL_ASSETS) * (totalSupply' + VIRTUAL_SHARES)
          <= (TotalAssets' + VIRTUAL_ASSETS) * (totalSupply + VIRTUAL_SHARES)]_vars

(* While the vault is paused funds only come home: supply is frozen,       *)
(* idle assets and the vault's balance never shrink, and no strategy gets  *)
(* more than it had.                                                       *)
PausedOnlyReceives ==
    [][paused => /\ totalSupply' = totalSupply
                 /\ totalIdleAssets' >= totalIdleAssets
                 /\ assetBal'[Vault] >= assetBal[Vault]
                 /\ \A s \in Strategies : principal'[s] <= principal[s]]_vars

(* An allocation always leaves the 15% liquid reserve the documents        *)
(* promise (docs/INVARIANT_SPECIFICATION.md:50).                           *)
ReserveFloor ==
    [][(\E s \in Strategies : principal'[s] > principal[s])
          => 100 * totalIdleAssets' >= 15 * TotalAssets']_vars
====
