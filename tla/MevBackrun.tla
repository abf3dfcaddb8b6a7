---- MODULE MevBackrun ----
(***************************************************************************)
(* The scans for price differences between venues and the prices they are  *)
(* handed: agents/src/mev_backrun.ts with the feeds of agents/src/         *)
(* daemon.ts, and scanMevOpportunities of engine/src/agents/keeper_bot.ts  *)
(* with the prices of engine/src/keeper_daemon.ts.  Prices are whole       *)
(* numbers of a tick, spreads are compared without a division.             *)
(***************************************************************************)
EXTENDS Integers

CONSTANTS
    TradePrices,        \* the prices Horizon may answer, in ticks of 0.0001
    MevMinSpreadBps     \* mevMinSpreadBps of the keeper's configuration

ASSUME MevAssumption == TradePrices \subseteq Nat \ {0} /\ MevMinSpreadBps \in Nat

MinSpreadBps == 35      \* minSpreadBps of the daemon's engine
ExchangeFeesBps == 30   \* what the keeper takes off a spread

(* fetchLiveDexPrices: both feeds are made from one price, the asks 2 and  *)
(* 3 ticks above it.                                                       *)
Feeds(price) ==
    [PhoenixCLAMM |-> [bid |-> price, ask |-> price + 2, depth |-> 250000],
     SoroswapAMM  |-> [bid |-> price, ask |-> price + 3, depth |-> 180000]]

(* A twentieth of the shallower depth.                                     *)
TradeSize(feeds) ==
    LET depths == {feeds[venue].depth : venue \in DOMAIN feeds}
    IN  ((CHOOSE d \in depths : \A e \in depths : d <= e) * 5) \div 100

(* What scanArbitrage may answer: the venues to buy at and to sell at, if  *)
(* the spread and the depth are enough.                                    *)
ScanArbitrage(feeds) ==
    {way \in [buy : DOMAIN feeds, sell : DOMAIN feeds] :
        LET ask == feeds[way.buy].ask
            bid == feeds[way.sell].bid
        IN  /\ way.buy # way.sell
            /\ (bid - ask) * 10000 >= MinSpreadBps * ask
            /\ TradeSize(feeds) > 0}

(* The keeper's prices: one of Horizon, 5 bps over it and 5 bps under it.  *)
VenuePrices(price) ==
    [SDEX |-> 2000 * price, Phoenix_CLAMM |-> 2001 * price, Soroswap |-> 1999 * price]

(* What scanMevOpportunities may answer: pairs whose spread, in whole bps, *)
(* reaches the minimum and leaves something after the fees.                *)
ScanMevOpportunities(prices) ==
    {way \in [buy : DOMAIN prices, sell : DOMAIN prices] :
        LET low == prices[way.buy]
            spread(bps) == (prices[way.sell] - low) * 10000 >= bps * low
        IN  spread(MevMinSpreadBps) /\ spread(ExchangeFeesBps + 1)}
====
