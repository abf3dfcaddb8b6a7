---- MODULE Safeguards ----
(***************************************************************************)
(* The safeguards of a deployment side by side: the gate seal, the oracle  *)
(* and the sentinel with the vaults it can pause.                          *)
(***************************************************************************)
EXTENDS GateSeal, Oracle, Sentinel, Totals

CONSTANTS
    Navs,           \* bound: navs posted
    Drawdowns       \* bound: drawdowns reported

ASSUME SafeguardsAssumption == Navs \subseteq Int /\ Drawdowns \subseteq Nat

vars == <<seq, gateVars, oracleVars, sentinelVars>>

Init == LedgerInit /\ GateInit /\ OracleInit /\ SentinelInit

GateNext ==
    /\ Seal \/ Unseal
    /\ UNCHANGED <<seq, oracleVars, sentinelVars>>

OracleNext ==
    /\ \E caller \in Publishers :
        \/ \E nav \in Navs, bunker \in BOOLEAN : UpdateTelemetry(caller, nav, bunker)
        \/ \E p \in Publishers : SetPublisher(caller, p)
    /\ UNCHANGED <<seq, gateVars, sentinelVars>>

SentinelNext ==
    /\ \/ \E v \in WatchedVaults, drawdown \in Drawdowns : CheckAndTrigger(v, drawdown)
       \/ \E caller \in Callers :
            \/ EmergencyPauseAll(caller)
            \/ \E guardian \in Callers : SetGuardian(caller, guardian)
            \/ \E v \in WatchedVaults :
                  \/ VaultUnpause(v, caller)
                  \/ /\ VaultPause(v, caller)
                     /\ UNCHANGED <<sentinelPaused, sentinelGuardian, alarmed>>
    /\ UNCHANGED <<seq, gateVars, oracleVars>>

Next ==
    \/ GateNext
    \/ OracleNext
    \/ SentinelNext
    \/ CloseLedger /\ UNCHANGED <<gateVars, oracleVars, sentinelVars>>

Spec == Init /\ [][Next]_vars

----
(* Each safeguard's storage keeps its type; the nav stays positive.        *)
TypeOK == LedgerTypeOK /\ GateTypeOK /\ OracleTypeOK /\ SentinelTypeOK

(* A seal lasts: once set, no call of the committee or of anyone else      *)
(* shortens it, moves its start or lifts it before its duration is over.   *)
SealTimeBoxed ==
    [][isSealed => \/ isSealed' /\ sealedAtLedger' = sealedAtLedger
                   \/ ~isSealed' /\ seq >= sealedAtLedger + SealDuration]_vars

(* The committee's power ends: however often it seals and reseals, one     *)
(* duration after its expiry any seal still set can be lifted by anyone.   *)
CommitteePowerEnds ==
    isSealed /\ seq >= SealExpiry + SealDuration => SealExpired

(* A trigger that was answered true reached its vault: the vault is paused *)
(* and stays so until its own admin unpauses it.                           *)
TriggerReachesVault == \A v \in alarmed : vaultPaused[v]

(* However many updates follow each other, by whichever publishers, each   *)
(* moves the nav by a tenth at most: n of them keep it between 0.9^n and   *)
(* 1.1^n of the initial nav.                                               *)
NavMovesByTenths ==
    /\ telemetry.nav * Power(10, updates) <= NavUnit * Power(11, updates)
    /\ telemetry.nav * Power(10, updates) >= NavUnit * Power(9, updates)

(* The seal is used once per deployment (docs/INVARIANT_SPECIFICATION.md:89,*)
(* gate_seal/src/lib.rs:43,52).                                            *)
SealIsOneTime == seals <= 1
====
