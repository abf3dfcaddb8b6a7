---- MODULE GateSeal ----
(***************************************************************************)
(* contracts/gate_seal: the committee's panic button, which stays pressed  *)
(* for a fixed number of ledgers and can be pressed until an expiry date.  *)
(* The date is a timestamp in the code; here time is counted in ledgers.   *)
(***************************************************************************)
EXTENDS Ledger

CONSTANTS
    SealDuration,   \* DataKey::SealDurationLedgers
    SealExpiry      \* DataKey::ExpiryTimestamp

ASSUME GateSealAssumption == SealDuration \in Nat /\ SealExpiry \in Nat

VARIABLES
    isSealed,       \* DataKey::IsSealed
    sealedAtLedger, \* DataKey::SealedAtLedger
    seals           \* history: how many times the seal was set

gateVars == <<isSealed, sealedAtLedger, seals>>

GateTypeOK ==
    /\ isSealed \in BOOLEAN
    /\ sealedAtLedger \in 0..seq
    /\ seals \in Nat

GateInit ==
    /\ isSealed = FALSE
    /\ sealedAtLedger = 0
    /\ seals = 0

(* Wrong variants: the ledger at which the seal ends is stored in place of *)
(* the one at which it starts; a seal may be renewed while it is set; it   *)
(* may be set after the committee's time is over.                          *)
SealStoringEnd ==
    /\ ~isSealed
    /\ seq <= SealExpiry
    /\ isSealed' = TRUE
    /\ sealedAtLedger' = seq + SealDuration
    /\ seals' = seals + 1

SealRenewing ==
    /\ seq <= SealExpiry
    /\ isSealed' = TRUE
    /\ sealedAtLedger' = seq
    /\ seals' = seals + 1

SealWithoutExpiry ==
    /\ ~isSealed
    /\ isSealed' = TRUE
    /\ sealedAtLedger' = seq
    /\ seals' = seals + 1

Seal ==
    /\ ~isSealed
    /\ seq <= SealExpiry
    /\ isSealed' = TRUE
    /\ sealedAtLedger' = seq
    /\ seals' = seals + 1

SealExpired == isSealed /\ seq >= sealedAtLedger + SealDuration

(* Anyone may call; the flag stays set until somebody does.                *)
Unseal ==
    /\ SealExpired
    /\ isSealed' = FALSE
    /\ UNCHANGED <<sealedAtLedger, seals>>
====
