---- MODULE YieldAgents ----
(***************************************************************************)
(* The advice a cycle of the agents is built from, as functions of what    *)
(* the agents were told: agents/src/market_agent.ts (what the market       *)
(* answers), yield_agent.ts (the ranking of the venues), risk_agent.ts     *)
(* (how much to move), payment_agent.ts (which query of the risk feed it   *)
(* may pay) and the proposal of execution_agent.ts.                        *)
(***************************************************************************)
EXTENDS Integers, Sequences

CONSTANTS
    LendingApys,    \* the lending yields, in bps, that the Blend pool may report
    Volatilities    \* the values of the rolling volatility index, 5..100

(* fetchMarketConditions: a query that fails leaves its default, so the    *)
(* market is always some record; the venues not queried are constants.     *)
Markets == [lendingApy : LendingApys, volatility : Volatilities]

(* The candidates in the order of rankStrategies: annual yield with        *)
(* emissions and the MEV stream, and the risk penalty, in bps.             *)
CandidateVenues(market) == <<
    [id |-> "strat_blend_backstop_01",    apy |-> 2150 + 320, penalty |-> 160],
    [id |-> "strat_phoenix_xlm_usdc_01",  apy |-> 1860 + 320,
     penalty |-> (2 * 180 * market.volatility + 25) \div 50],
    [id |-> "strat_soroswap_xlm_usdc_01", apy |-> 1040 + 480 + 320,
     penalty |-> (2 * 140 * market.volatility + 25) \div 50],
    [id |-> "strat_blend_xlm_lending_01", apy |-> market.lendingApy, penalty |-> 40],
    [id |-> "strat_aqua_sdex_01",         apy |-> 920 + 460 + 320, penalty |-> 110] >>

Score(venue) == IF venue.apy > venue.penalty THEN venue.apy - venue.penalty ELSE 0

(* The sort by falling score is stable: the first of the best wins.        *)
TopStrategy(market) ==
    LET venues == CandidateVenues(market)
        best(i) == /\ \A j \in DOMAIN venues : Score(venues[j]) <= Score(venues[i])
                   /\ \A j \in 1..(i - 1) : Score(venues[j]) < Score(venues[i])
    IN  venues[CHOOSE i \in DOMAIN venues : best(i)].id

(* What a cycle may be told is the best venue.                             *)
TopStrategies == {TopStrategy(market) : market \in Markets}

(* evaluateExposure: a quarter of what lies idle above 15% of the assets,  *)
(* and nothing when that is not positive.                                  *)
RecommendedAllocation(state) ==
    LET reserve == (state.total * 15) \div 100
    IN  IF state.idle <= reserve THEN 0 ELSE ((state.idle - reserve) * 25) \div 100

(* buildProposal; no proposal when its amount is 0.                        *)
Proposal(cycle, state, strategy) ==
    [cycle |-> cycle, agent |-> "agent_execution_01", strategy |-> strategy,
     amount |-> RecommendedAllocation(state), maxSlippageBps |-> 30]

----
(* Payments, in stroops of USDC.                                           *)

MaxPerQuery == 100000
DailyBudget == 10000000

(* What the orchestrator asks the payment agent to pay for a query.        *)
RiskFeedPrice == 1000000

(* For a destination that is an account, as the orchestrator's is.         *)
CanPay(spentToday, amount) ==
    amount <= MaxPerQuery /\ spentToday + amount <= DailyBudget
====
