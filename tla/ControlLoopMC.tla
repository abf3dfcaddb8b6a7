---- MODULE ControlLoopMC ----
(***************************************************************************)
(* A daemon, two one-cycle processes (one of whose proposals needs a       *)
(* human) and a keeper, on one agent account: see the README for the       *)
(* bounds.                                                                 *)
(***************************************************************************)
EXTENDS ControlLoop, TLC

CONSTANTS daemon, once, large, keeper, lending, clamm, amm, vault, agent

MCRule == [allowedAgents |-> {"agent_execution_01"},
           allowedStrategies |-> DOMAIN StrategyMap \cup {"strat_aqua_sdex_01"},
           maxTransactionSize |-> 4, dailySpendCap |-> 4, maxSlippageBps |-> 50,
           minIdleReservePercentage |-> 15, humanApprovalThreshold |-> 3]

MCRules ==
    [p \in Processes |->
        IF p = keeper
        THEN [MCRule EXCEPT !.allowedAgents = {"keeper"},
                            !.allowedStrategies = {lending, clamm},
                            !.dailySpendCap = 3, !.maxSlippageBps = 100]
        ELSE MCRule]

(* The daemon moves 2 of its 20 at a time, the larger process 3.           *)
MCDaemonState ==
    [p \in Processes |-> IF p = large THEN [total |-> 20, idle |-> 15]
                                      ELSE [total |-> 20, idle |-> 12]]

MCThresholds ==
    [maxDrawdownBps |-> 1500, bunkerDrawdownBps |-> 1000, minCollateralHealthBps |-> 11500]

MCTargets == <<[strategy |-> lending, bps |-> 4500], [strategy |-> clamm, bps |-> 3500]>>

MCState(total, idle, inLending, inClamm) ==
    [total |-> total, idle |-> idle,
     allocated |-> (lending :> inLending) @@ (clamm :> inClamm)]

MCInitialBps == (lending :> 3500) @@ (clamm :> 2700)

(* Assets with something to move, the same after a loss of a tenth, a      *)
(* state whose reserve rounds below 15%, and a depeg.                      *)
MCKeeperInputs ==
    {[state |-> MCState(20, 8, 5, 7), metrics |-> NominalMetrics],
     [state |-> MCState(18, 7, 4, 7), metrics |-> NominalMetrics],
     [state |-> MCState(7, 2, 1, 4), metrics |-> NominalMetrics],
     [state |-> MCState(20, 8, 5, 7), metrics |-> [NominalMetrics EXCEPT !.depeg = TRUE]]}
====
