---- MODULE Sentinel ----
(***************************************************************************)
(* contracts/sentinel with the pause of the vaults it is pointed at.  Both *)
(* the vault and the drawdown are arguments of whoever calls.              *)
(***************************************************************************)
EXTENDS Integers

CONSTANTS
    SentinelAddress,    \* the sentinel contract
    SentinelAdmin,      \* KEY_ADMIN
    MaxDrawdown,        \* KEY_MAX_DD
    WatchedVaults,      \* the vault contracts
    PausersOf,          \* each vault's admin and guardian
    UnpauserOf,         \* each vault's admin
    Callers             \* addresses that call

ASSUME SentinelAssumption ==
    /\ MaxDrawdown \in Nat
    /\ PausersOf \in [WatchedVaults -> SUBSET (Callers \cup {SentinelAddress})]
    /\ UnpauserOf \in [WatchedVaults -> Callers]
    /\ SentinelAdmin \in Callers

VARIABLES
    sentinelPaused,     \* KEY_PAUSED
    sentinelGuardian,   \* KEY_GUARDIAN
    vaultPaused,        \* DataKey::Paused of each vault
    alarmed             \* history: vaults a trigger was answered true for,
                        \* not unpaused since

sentinelVars == <<sentinelPaused, sentinelGuardian, vaultPaused, alarmed>>

SentinelTypeOK ==
    /\ sentinelPaused \in BOOLEAN
    /\ sentinelGuardian \in Callers
    /\ vaultPaused \in [WatchedVaults -> BOOLEAN]
    /\ alarmed \subseteq WatchedVaults

SentinelInit ==
    /\ sentinelPaused = FALSE
    /\ sentinelGuardian = SentinelAdmin
    /\ vaultPaused = [v \in WatchedVaults |-> FALSE]
    /\ alarmed = {}

VaultPause(v, caller) ==
    /\ caller \in PausersOf[v]
    /\ vaultPaused' = [vaultPaused EXCEPT ![v] = TRUE]

VaultUnpause(v, caller) ==
    /\ caller = UnpauserOf[v]
    /\ vaultPaused' = [vaultPaused EXCEPT ![v] = FALSE]
    /\ alarmed' = alarmed \ {v}
    /\ UNCHANGED <<sentinelPaused, sentinelGuardian>>

(* Wrong variant: a vault that refuses the pause is skipped.               *)
CheckAndTriggerTolerant(v, drawdown) ==
    /\ drawdown >= MaxDrawdown
    /\ sentinelPaused' = TRUE
    /\ alarmed' = alarmed \cup {v}
    /\ vaultPaused' = [vaultPaused EXCEPT ![v] = @ \/ SentinelAddress \in PausersOf[v]]
    /\ UNCHANGED sentinelGuardian

(* Below the threshold the call answers false and changes nothing.  Above  *)
(* it, a vault that refuses the sentinel's pause undoes the sentinel's own *)
(* flag as well.                                                           *)
CheckAndTrigger(v, drawdown) ==
    /\ drawdown >= MaxDrawdown
    /\ sentinelPaused' = TRUE
    /\ alarmed' = alarmed \cup {v}
    /\ VaultPause(v, SentinelAddress)
    /\ UNCHANGED sentinelGuardian

(* Sets the sentinel's own flag; no vault hears of it.                     *)
EmergencyPauseAll(caller) ==
    /\ caller \in {SentinelAdmin, sentinelGuardian}
    /\ sentinelPaused' = TRUE
    /\ UNCHANGED <<sentinelGuardian, vaultPaused, alarmed>>

SetGuardian(caller, guardian) ==
    /\ caller = SentinelAdmin
    /\ sentinelGuardian' = guardian
    /\ UNCHANGED <<sentinelPaused, vaultPaused, alarmed>>
====
