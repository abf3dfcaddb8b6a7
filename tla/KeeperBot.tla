---- MODULE KeeperBot ----
(***************************************************************************)
(* engine/src/agents/keeper_bot.ts: the proposal of a keeper that steers   *)
(* the strategies towards target weights, never below the liquid reserve,  *)
(* and engine/src/risk_engine.ts, which the keeper asks first: circuit     *)
(* breakers on drawdown from the highest value seen, on collateral health  *)
(* and on depegs.                                                          *)
(***************************************************************************)
EXTENDS Integers, Sequences, FiniteSetsExt

CONSTANT Thresholds     \* the RiskThresholds: drawdowns and collateral, in bps

VARIABLE peakValue      \* peakValueStroops of the engine of each process

BpsScale == 10000
LiquidationBps == 10500     \* collateral below which liquidation is imminent

(* A variant without a high-water mark.                                    *)
LatestValue(peak, total) == total

PeakAfter(peak, total) == Max({peak, total})

DrawdownBps(peak, total) ==
    IF peak <= 0 \/ total >= peak THEN 0 ELSE ((peak - total) * BpsScale) \div peak

(* What evaluateRisk answers, once the peak has been raised.               *)
EvaluateRisk(peak, total, metrics) ==
    LET drawdown == Max({metrics.drawdownBps, DrawdownBps(peak, total)})
        critical == drawdown >= Thresholds.maxDrawdownBps
        severe   == ~critical /\ drawdown >= Thresholds.bunkerDrawdownBps
        weak     == metrics.collateralHealthBps < Thresholds.minCollateralHealthBps
    IN  [seal    |-> critical \/ (weak /\ metrics.collateralHealthBps < LiquidationBps),
         bunker  |-> critical \/ severe \/ metrics.depeg,
         haircut |-> Max({IF critical THEN Min({2500, drawdown}) ELSE 0,
                          IF severe THEN Min({1500, drawdown}) ELSE 0,
                          IF metrics.depeg THEN 1000 ELSE 0})]

RaisePeak(p, total) == peakValue' = [peakValue EXCEPT ![p] = PeakAfter(@, total)]

NewRiskEngine(p) == peakValue' = [peakValue EXCEPT ![p] = 0]

----
CONSTANTS
    KeeperTargets,              \* the targets in the order of the config's map:
                                \* <<[strategy, bps], ...>>
    InitialBps,                 \* the weights runDaemon starts from, by strategy
    KeeperReservePercentage,    \* minReserveRatioPercentage
    RebalanceThresholdBps       \* rebalanceThresholdBps

ASSUME KeeperAssumption ==
    /\ KeeperTargets \in Seq([strategy : {KeeperTargets[n].strategy : n \in DOMAIN KeeperTargets},
                             bps : Nat])
    /\ \A s \in DOMAIN InitialBps : InitialBps[s] \in Nat
    /\ KeeperReservePercentage \in Nat
    /\ RebalanceThresholdBps \in Nat

(* runDaemon's view: 22.8% of what the vault had at the start lie idle,    *)
(* and the strategies hold fixed shares of it; neither is read again.      *)
InitialState(total) ==
    [total |-> total, idle |-> (total * 2280) \div 10000,
     allocated |-> [s \in DOMAIN InitialBps |-> (total * InitialBps[s]) \div 10000]]

(* The metrics runDaemon reports are constants too.                        *)
NominalMetrics == [drawdownBps |-> 240, collateralHealthBps |-> 13500, depeg |-> FALSE]

(* What a strategy holds; one the caller does not list holds nothing.      *)
Held(state, strategy) ==
    IF strategy \in DOMAIN state.allocated THEN state.allocated[strategy] ELSE 0

(* How far a strategy lies under its target, in bps of the assets.         *)
DriftBps(state, target) ==
    target.bps - (Held(state, target.strategy) * 10000) \div state.total

(* The first target with the largest positive drift.                       *)
LargestDrift(state) ==
    LET drift(n) == DriftBps(state, KeeperTargets[n])
    IN  CHOOSE n \in DOMAIN KeeperTargets :
            /\ \A m \in DOMAIN KeeperTargets : drift(m) <= drift(n)
            /\ \A m \in 1..(n - 1) : drift(m) < drift(n)

ReserveFloor(state) == (state.total * KeeperReservePercentage) \div 100

Allocatable(state) ==
    IF state.idle > ReserveFloor(state) THEN state.idle - ReserveFloor(state) ELSE 0

(* Half of the drift, clamped to what the reserve leaves.                  *)
RebalanceAmount(state) ==
    LET drift == DriftBps(state, KeeperTargets[LargestDrift(state)])
        half  == (state.total * drift) \div 20000
    IN  IF drift < RebalanceThresholdBps THEN 0
        ELSE IF half > Allocatable(state) THEN Allocatable(state) ELSE half

(* evaluateRebalance finds something to move.                              *)
WantsRebalance(state) ==
    /\ state.total > 0
    /\ KeeperTargets # <<>>
    /\ (state.idle * 100) \div state.total >= KeeperReservePercentage
    /\ RebalanceAmount(state) > 0

RebalanceProposal(cycle, state) ==
    [cycle |-> cycle, agent |-> "keeper",
     strategy |-> KeeperTargets[LargestDrift(state)].strategy,
     amount |-> RebalanceAmount(state), maxSlippageBps |-> 50]
====
