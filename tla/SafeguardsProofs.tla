---- MODULE SafeguardsProofs ----
(***************************************************************************)
(* Safeguards.tla proved for every duration and expiry of the seal, every  *)
(* threshold, and any vaults, publishers and navs.                         *)
(***************************************************************************)
EXTENDS Safeguards, ArithmeticProofs

(* The seal was last set within the committee's time.  CommitteePowerEnds  *)
(* does not see when the seal was set and is not inductive without it.     *)
SealedInTime == isSealed => sealedAtLedger <= SealExpiry

IInv == TypeOK /\ SealedInTime /\ TriggerReachesVault

(* Initially nothing is sealed, paused or alarmed.                         *)
LEMMA InitIInv == Init => IInv
<1> SUFFICES ASSUME Init PROVE IInv
  OBVIOUS
<1>1. seq = 0
  BY DEF Init, LedgerInit
<1>2. GateTypeOK
  <2>1. 0 \in 0..0 /\ 0 \in Nat
    OBVIOUS
  <2> QED
    BY <1>1, <2>1 DEF Init, GateInit, GateTypeOK
<1>3. SealedInTime
  BY DEF Init, GateInit, SealedInTime
<1>4. OracleTypeOK
  BY <1>1, OracleAssumption DEF Init, OracleInit, OracleTypeOK
<1>5. SentinelTypeOK /\ TriggerReachesVault
  BY SentinelAssumption DEF Init, SentinelInit, SentinelTypeOK, TriggerReachesVault
<1> QED
  BY <1>1, <1>2, <1>3, <1>4, <1>5 DEF IInv, TypeOK, LedgerTypeOK

(* A step of the gate seal keeps its storage typed and its date in time.   *)
LEMMA GateStep ==
    ASSUME IInv, GateNext
    PROVE  GateTypeOK' /\ SealedInTime'
<1>1. GateTypeOK /\ SealedInTime /\ seq \in Nat
  BY DEF IInv, TypeOK, LedgerTypeOK
<1>2. CASE Seal
  BY <1>1, <1>2, GateSealAssumption DEF GateNext, Seal, GateTypeOK, SealedInTime
<1>3. CASE Unseal
  BY <1>1, <1>3, GateSealAssumption DEF GateNext, Unseal, GateTypeOK, SealedInTime
<1> QED
  BY <1>2, <1>3 DEF GateNext

(* A step of the oracle keeps a positive nav and a typed record.           *)
LEMMA OracleStep ==
    ASSUME IInv, OracleNext
    PROVE  OracleTypeOK'
<1>1. OracleTypeOK /\ seq \in Nat /\ seq' = seq
  BY DEF IInv, TypeOK, LedgerTypeOK, OracleNext
<1>2. ASSUME NEW caller \in Publishers, NEW nav \in Navs, NEW bunker \in BOOLEAN,
             UpdateTelemetry(caller, nav, bunker)
      PROVE  OracleTypeOK'
  <2>1. nav \in Nat \ {0} /\ updates' \in 0..MaxUpdates
    BY <1>1, <1>2, SafeguardsAssumption, OracleAssumption DEF UpdateTelemetry, OracleTypeOK
  <2> QED
    BY <1>1, <1>2, <2>1 DEF UpdateTelemetry, OracleTypeOK
<1>3. ASSUME NEW caller \in Publishers, NEW p \in Publishers, SetPublisher(caller, p)
      PROVE  OracleTypeOK'
  BY <1>1, <1>3 DEF SetPublisher, OracleTypeOK
<1> QED
  BY <1>2, <1>3 DEF OracleNext

(* A step of the sentinel or of a vault's admin keeps every alarmed vault  *)
(* paused: an alarm is recorded only together with the pause, and lifting  *)
(* the pause takes the vault off the record.                               *)
LEMMA SentinelStep ==
    ASSUME IInv, SentinelNext
    PROVE  SentinelTypeOK' /\ TriggerReachesVault'
<1>1. SentinelTypeOK /\ TriggerReachesVault
  BY DEF IInv, TypeOK
<1>2. ASSUME NEW v \in WatchedVaults, NEW drawdown \in Drawdowns, CheckAndTrigger(v, drawdown)
      PROVE  SentinelTypeOK' /\ TriggerReachesVault'
  BY <1>1, <1>2 DEF CheckAndTrigger, VaultPause, SentinelTypeOK, TriggerReachesVault
<1>3. ASSUME NEW caller \in Callers, EmergencyPauseAll(caller)
      PROVE  SentinelTypeOK' /\ TriggerReachesVault'
  BY <1>1, <1>3 DEF EmergencyPauseAll, SentinelTypeOK, TriggerReachesVault
<1>4. ASSUME NEW caller \in Callers, NEW guardian \in Callers, SetGuardian(caller, guardian)
      PROVE  SentinelTypeOK' /\ TriggerReachesVault'
  BY <1>1, <1>4 DEF SetGuardian, SentinelTypeOK, TriggerReachesVault
<1>5. ASSUME NEW v \in WatchedVaults, NEW caller \in Callers, VaultUnpause(v, caller)
      PROVE  SentinelTypeOK' /\ TriggerReachesVault'
  BY <1>1, <1>5 DEF VaultUnpause, SentinelTypeOK, TriggerReachesVault
<1>6. ASSUME NEW v \in WatchedVaults, NEW caller \in Callers, VaultPause(v, caller),
             UNCHANGED <<sentinelPaused, sentinelGuardian, alarmed>>
      PROVE  SentinelTypeOK' /\ TriggerReachesVault'
  BY <1>1, <1>6 DEF VaultPause, SentinelTypeOK, TriggerReachesVault
<1> QED
  BY <1>2, <1>3, <1>4, <1>5, <1>6 DEF SentinelNext

(* A new ledger makes no stored ledger number a number of the future.      *)
LEMMA LedgerStep ==
    ASSUME IInv, CloseLedger, UNCHANGED <<gateVars, oracleVars, sentinelVars>>
    PROVE  IInv'
<1>1. seq \in Nat /\ seq' = seq + 1
  BY DEF IInv, TypeOK, LedgerTypeOK, CloseLedger
<1>2. 0..seq \subseteq 0..seq'
  BY <1>1
<1>3. GateTypeOK' /\ SealedInTime'
  BY <1>2 DEF IInv, TypeOK, GateTypeOK, SealedInTime, gateVars
<1>4. OracleTypeOK'
  BY <1>2 DEF IInv, TypeOK, OracleTypeOK, oracleVars
<1>5. SentinelTypeOK' /\ TriggerReachesVault'
  BY DEF IInv, TypeOK, SentinelTypeOK, TriggerReachesVault, sentinelVars
<1> QED
  BY <1>1, <1>3, <1>4, <1>5 DEF IInv, TypeOK, LedgerTypeOK

(* Every step keeps the inductive invariant.                               *)
LEMMA NextIInv == IInv /\ [Next]_vars => IInv'
<1> SUFFICES ASSUME IInv, [Next]_vars PROVE IInv'
  OBVIOUS
<1>1. CASE GateNext
  BY <1>1, GateStep
  DEF GateNext, IInv, TypeOK, LedgerTypeOK, OracleTypeOK, oracleVars, SentinelTypeOK,
      sentinelVars, TriggerReachesVault
<1>2. CASE OracleNext
  BY <1>2, OracleStep
  DEF OracleNext, IInv, TypeOK, LedgerTypeOK, GateTypeOK, gateVars, SealedInTime,
      SentinelTypeOK, sentinelVars, TriggerReachesVault
<1>3. CASE SentinelNext
  BY <1>3, SentinelStep
  DEF SentinelNext, IInv, TypeOK, LedgerTypeOK, GateTypeOK, gateVars, SealedInTime,
      OracleTypeOK, oracleVars
<1>4. CASE CloseLedger /\ UNCHANGED <<gateVars, oracleVars, sentinelVars>>
  BY <1>4, LedgerStep
<1>5. CASE UNCHANGED vars
  BY <1>5
  DEF vars, IInv, TypeOK, LedgerTypeOK, GateTypeOK, gateVars, SealedInTime, OracleTypeOK,
      oracleVars, SentinelTypeOK, sentinelVars, TriggerReachesVault
<1> QED
  BY <1>1, <1>2, <1>3, <1>4, <1>5 DEF Next

LEMMA AlwaysIInv == Spec => []IInv
  BY InitIInv, NextIInv, PTL DEF Spec

(* Every safeguard's storage keeps its type, and the oracle's nav stays    *)
(* positive whatever its publishers post.                                  *)
THEOREM TypeCorrect == Spec => []TypeOK
<1>1. IInv => TypeOK
  BY DEF IInv
<1> QED
  BY <1>1, AlwaysIInv, PTL

(* An alarm that was acknowledged has paused its vault (check_and_trigger  *)
(* is undone when the vault refuses the sentinel).                         *)
THEOREM AlarmsAreHeard == Spec => []TriggerReachesVault
<1>1. IInv => TriggerReachesVault
  BY DEF IInv
<1> QED
  BY <1>1, AlwaysIInv, PTL

(* One duration after the committee's expiry (seal) any seal still set can *)
(* be lifted by anyone (unseal).                                           *)
THEOREM CommitteeIsBounded == Spec => []CommitteePowerEnds
<1>1. IInv => CommitteePowerEnds
  BY GateSealAssumption
  DEF IInv, TypeOK, LedgerTypeOK, GateTypeOK, SealedInTime, CommitteePowerEnds, SealExpired
<1> QED
  BY <1>1, AlwaysIInv, PTL

(* No call shortens a seal, moves its start or lifts it early.             *)
THEOREM SealIsTimeBoxed == Spec => SealTimeBoxed
<1> DEFINE Kept ==
      isSealed => \/ isSealed' /\ sealedAtLedger' = sealedAtLedger
                  \/ ~isSealed' /\ seq >= sealedAtLedger + SealDuration
<1>1. IInv /\ [Next]_vars => [Kept]_vars
  <2> SUFFICES ASSUME IInv, Next, isSealed
               PROVE  \/ isSealed' /\ sealedAtLedger' = sealedAtLedger
                      \/ ~isSealed' /\ seq >= sealedAtLedger + SealDuration
    OBVIOUS
  <2>1. CASE GateNext
    BY <2>1 DEF GateNext, Seal, Unseal, SealExpired
  <2>2. CASE UNCHANGED gateVars
    BY <2>2 DEF gateVars
  <2> QED
    BY <2>1, <2>2 DEF Next, OracleNext, SentinelNext
<1> QED
  BY <1>1, AlwaysIInv, PTL DEF Spec, SealTimeBoxed
----
(* The nav                                                                 *)

(* One jump of a tenth carries the bounds from one power to the next.      *)
LEMMA TenthStep ==
    ASSUME NEW nav \in Nat, NEW next \in Nat, NEW unit \in Nat,
           NEW p \in Nat, NEW high \in Nat, NEW low \in Nat,
           10 * next <= 11 * nav, 10 * next >= 9 * nav,
           nav * p <= unit * high, nav * p >= unit * low
    PROVE  /\ next * (p * 10) <= unit * (high * 11)
           /\ next * (p * 10) >= unit * (low * 9)
<1>1. /\ next * (p * 10) = (10 * next) * p
      /\ unit * (high * 11) = 11 * (unit * high)
      /\ unit * (low * 9) = 9 * (unit * low)
      /\ (11 * nav) * p = 11 * (nav * p)
      /\ (9 * nav) * p = 9 * (nav * p)
  BY Z3
<1>2. (10 * next) * p <= (11 * nav) * p /\ (10 * next) * p >= (9 * nav) * p
  BY Z3
<1> DEFINE x == (10 * next) * p
           y == nav * p
           h == unit * high
           l == unit * low
<1>3. x \in Nat /\ y \in Nat /\ h \in Nat /\ l \in Nat
  BY Z3
<1>4. x <= 11 * y /\ x >= 9 * y
  BY <1>1, <1>2, Zenon
<1>5. y <= h /\ y >= l
  OBVIOUS
<1>6. x <= 11 * h /\ x >= 9 * l
  <2> HIDE DEF x, y, h, l
  <2> QED
    BY <1>3, <1>4, <1>5
<1> QED
  BY <1>1, <1>6, Zenon

(* An accepted update moves the nav by a tenth at most.                    *)
LEMMA UpdateMovesByATenth ==
    ASSUME IInv, NavMovesByTenths, NEW caller \in Publishers, NEW nav \in Navs, NEW bunker \in BOOLEAN,
           UpdateTelemetry(caller, nav, bunker)
    PROVE  NavMovesByTenths'
<1> DEFINE old == telemetry.nav
           u == updates
<1>1. old \in Nat \ {0} /\ u \in Nat /\ NavUnit \in Nat
  BY OracleAssumption DEF IInv, TypeOK, OracleTypeOK
<1>2. nav \in Int /\ nav > 0 /\ nav - old \in -(old \div 10)..(old \div 10)
  BY SafeguardsAssumption DEF UpdateTelemetry, WithinJump, MaxJump
<1>3. telemetry'.nav = nav /\ updates' = u + 1
  BY DEF UpdateTelemetry
<1>4. /\ old * Power(10, u) <= NavUnit * Power(11, u)
      /\ old * Power(10, u) >= NavUnit * Power(9, u)
  BY DEF NavMovesByTenths
<1> HIDE DEF old, u
<1>5. nav \in Nat /\ 10 * nav <= 11 * old /\ 10 * nav >= 9 * old
  <2>1. old \div 10 \in Nat /\ 10 * (old \div 10) <= old
    BY <1>1
  <2> QED
    BY <1>1, <1>2, <2>1
<1>6. /\ Power(10, u) \in Nat /\ Power(11, u) \in Nat /\ Power(9, u) \in Nat
      /\ Power(10, u + 1) = Power(10, u) * 10
      /\ Power(11, u + 1) = Power(11, u) * 11
      /\ Power(9, u + 1) = Power(9, u) * 9
  BY <1>1, WordsFinite, PowerStep
<1>7. /\ nav * (Power(10, u) * 10) <= NavUnit * (Power(11, u) * 11)
      /\ nav * (Power(10, u) * 10) >= NavUnit * (Power(9, u) * 9)
  BY <1>1, <1>4, <1>5, <1>6, TenthStep
<1> QED
  BY <1>3, <1>6, <1>7 DEF NavMovesByTenths

(* However many updates the oracle accepts, from whichever publishers, n   *)
(* of them keep the nav within n tenths, compounded, of the first.         *)
THEOREM NavIsBounded == Spec => []NavMovesByTenths
<1>1. Init => NavMovesByTenths
  <2> SUFFICES ASSUME Init PROVE NavMovesByTenths
    OBVIOUS
  <2>1. telemetry.nav = NavUnit /\ updates = 0 /\ NavUnit \in Nat
    BY OracleAssumption DEF Init, OracleInit
  <2>2. Power(10, 0) = 1 /\ Power(11, 0) = 1 /\ Power(9, 0) = 1
    BY PowerZero
  <2> QED
    BY <2>1, <2>2 DEF NavMovesByTenths
<1>2. IInv /\ NavMovesByTenths /\ [Next]_vars => NavMovesByTenths'
  <2> SUFFICES ASSUME IInv, NavMovesByTenths, [Next]_vars PROVE NavMovesByTenths'
    OBVIOUS
  <2>1. CASE OracleNext
    <3>1. CASE \E caller \in Publishers, p \in Publishers : SetPublisher(caller, p)
      BY <3>1 DEF SetPublisher, NavMovesByTenths
    <3> QED
      BY <2>1, <3>1, UpdateMovesByATenth DEF OracleNext
  <2>2. CASE UNCHANGED oracleVars
    BY <2>2 DEF oracleVars, NavMovesByTenths
  <2> QED
    BY <2>1, <2>2 DEF Next, GateNext, SentinelNext, vars
<1> QED
  BY <1>1, <1>2, AlwaysIInv, PTL DEF Spec
====
