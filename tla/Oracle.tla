---- MODULE Oracle ----
(***************************************************************************)
(* contracts/oracle: the nav and bunker flag that a publisher posts.  The  *)
(* other telemetry fields are stored as given and checked by nothing.      *)
(***************************************************************************)
EXTENDS Ledger

CONSTANTS
    OracleAdmin,        \* DataKey::Admin of the oracle
    OraclePublisher,    \* DataKey::Publisher at initialization
    Publishers,         \* addresses that may be named publisher
    NavUnit,            \* STROOP_UNIT, the nav of 1.0
    MaxUpdates          \* bound: updates accepted

ASSUME OracleAssumption ==
    /\ NavUnit \in Nat \ {0}
    /\ MaxUpdates \in Nat
    /\ {OracleAdmin, OraclePublisher} \subseteq Publishers

VARIABLES
    publisher,          \* DataKey::Publisher
    telemetry,          \* DataKey::Telemetry
    updates             \* history: how many updates were accepted

oracleVars == <<publisher, telemetry, updates>>

OracleTypeOK ==
    /\ publisher \in Publishers
    /\ telemetry \in [nav : Nat \ {0}, bunkerActive : BOOLEAN, lastUpdatedLedger : 0..seq]
    /\ updates \in 0..MaxUpdates

OracleInit ==
    /\ publisher = OraclePublisher
    /\ telemetry = [nav |-> NavUnit, bunkerActive |-> FALSE, lastUpdatedLedger |-> seq]
    /\ updates = 0

(* How far an update may move the nav, either way.                         *)
MaxJump == telemetry.nav \div 10

(* Wrong variant: the jump is measured against the initial nav.            *)
WithinJumpOfUnit(nav) == nav - telemetry.nav \in -(NavUnit \div 10)..(NavUnit \div 10)

WithinJump(nav) == nav - telemetry.nav \in -MaxJump..MaxJump

UpdateTelemetry(caller, nav, bunker) ==
    /\ updates < MaxUpdates
    /\ caller \in {publisher, OracleAdmin}
    /\ nav > 0
    /\ WithinJump(nav)
    /\ telemetry' = [nav |-> nav, bunkerActive |-> bunker, lastUpdatedLedger |-> seq]
    /\ updates' = updates + 1
    /\ UNCHANGED publisher

SetPublisher(caller, newPublisher) ==
    /\ caller = OracleAdmin
    /\ publisher' = newPublisher
    /\ UNCHANGED <<telemetry, updates>>
====
