---- MODULE StrategyRegistry ----
(***************************************************************************)
(* contracts/strategy_registry: the whitelist of strategies with a cap and *)
(* the amount the vault says it has allocated to each.                     *)
(***************************************************************************)
EXTENDS Deployment

CONSTANTS
    RegistryAdmin,      \* DataKey::Admin of the registry
    RegistryGuardian    \* DataKey::EmergencyGuardian of the registry

VARIABLES
    registry,           \* DataKey::Strategy(s), status "None" when absent
    registryVault       \* DataKey::Vault

registryVars == <<registry, registryVault>>

Statuses == {"None", "Active", "Paused", "Revoked"}

RegistryTypeOK ==
    /\ registry \in [Strategies -> [cap : Nat, allocated : Nat, status : Statuses]]
    /\ registryVault \in Vaults

RegistryInit(vault) ==
    /\ registry = [s \in Strategies |-> [cap |-> 0, allocated |-> 0, status |-> "None"]]
    /\ registryVault = vault

SetRegistryVault(vault) ==
    /\ registryVault' = vault
    /\ UNCHANGED registry

Registered(s) == registry[s].status # "None"

AddStrategy(s, cap) ==
    /\ cap > 0
    /\ ~Registered(s)
    /\ registry' = [registry EXCEPT ![s] =
                       [cap |-> cap, allocated |-> 0, status |-> "Active"]]
    /\ UNCHANGED registryVault

(* Wrong variant: lowers the cap without looking at the allocation.        *)
UpdateCapUnchecked(s, newCap) ==
    /\ Registered(s)
    /\ registry' = [registry EXCEPT ![s].cap = newCap]
    /\ UNCHANGED registryVault

UpdateCap(s, newCap) ==
    /\ Registered(s)
    /\ newCap >= registry[s].allocated
    /\ registry' = [registry EXCEPT ![s].cap = newCap]
    /\ UNCHANGED registryVault

PauseStrategy(caller, s) ==
    /\ caller \in {RegistryAdmin, RegistryGuardian}
    /\ Registered(s)
    /\ registry' = [registry EXCEPT ![s].status = "Paused"]
    /\ UNCHANGED registryVault

UnpauseStrategy(s) ==
    /\ Registered(s)
    /\ registry[s].status # "Revoked"
    /\ registry' = [registry EXCEPT ![s].status = "Active"]
    /\ UNCHANGED registryVault

RevokeStrategy(caller, s) ==
    /\ caller \in {RegistryAdmin, RegistryGuardian}
    /\ Registered(s)
    /\ registry' = [registry EXCEPT ![s].status = "Revoked"]
    /\ UNCHANGED registryVault

RecordAllocation(caller, s, amount) ==
    /\ caller = registryVault
    /\ registry[s].status = "Active"
    /\ registry[s].allocated + amount <= registry[s].cap
    /\ registry' = [registry EXCEPT ![s].allocated = @ + amount]
    /\ UNCHANGED registryVault

RecordDeallocation(caller, s, amount) ==
    /\ caller = registryVault
    /\ Registered(s)
    /\ registry' = [registry EXCEPT ![s].allocated = Monus(@, amount)]
    /\ UNCHANGED registryVault
====
