---- MODULE WebAppMC ----
(***************************************************************************)
(* The clients of the server one group at a time: see the README for the   *)
(* bounds.                                                                 *)
(***************************************************************************)
EXTENDS WebApp, TLC

CONSTANTS alice, bob, blend, phoenix

MCWorkloads ==
    {{"auth", "killer"}, {"store", "killer"},
     {"poll", "world"}, {"poll", "agent", "shock", "killer"}, {"poll", "motion", "tier"},
     {"shock", "world"}, {"shock", "reset", "killer"}, {"agent", "reset"}, {"x402", "killer"},
     {"connect", "stake", "killer"}, {"connect", "withdraw", "killer"}}
        \cup {{p, "world"} : p \in Panels}

MCOracle(ratioBps, bunker) == [nav |-> 1, ratioBps |-> ratioBps, bunker |-> bunker]

(* The vault loses assets and is sealed; a proposal and a deposit come.    *)
MCState(assets, ratioBps, sealed, count, tvl, held) ==
    [r \in Reads |->
        CASE r = <<"total_assets">>           -> assets
          [] r = <<"total_shares">>           -> 20
          [] r = <<"get_telemetry">>          -> MCOracle(ratioBps, sealed)
          [] r = <<"get_seal_status">>        -> sealed
          [] r = <<"get_config">>             -> "config"
          [] r = <<"get_proposal_count">>     -> count
          [] r = <<"get_proposal", 1>>        -> IF count = 2 THEN "queued" ELSE "active"
          [] r = <<"get_proposal", 2>>        -> IF count = 2 THEN "active" ELSE Failed
          [] r = <<"total_value", blend>>     -> tvl
          [] r = <<"total_value", phoenix>>   -> 5
          [] r = <<"configured_rate_bps", blend>>   -> 850
          [] r = <<"configured_rate_bps", phoenix>> -> Failed
          [] r = <<"balance", alice>>         -> held
          [] r = <<"balance", bob>>           -> 0
          [] r = <<"get_request", 1>>         -> [user |-> alice]
          [] r = <<"get_request", 2>>         -> IF count = 2 THEN [user |-> bob] ELSE Failed]

MCReads ==
    {<<"total_assets">>, <<"total_shares">>, <<"get_telemetry">>, <<"get_seal_status">>,
     <<"get_config">>, <<"get_proposal_count">>}
        \cup ({"get_proposal", "get_request"} \X {1, 2})
        \cup ({"total_value", "configured_rate_bps"} \X {blend, phoenix})
        \cup ({"balance"} \X {alice, bob})

MCChainStates == <<MCState(45, 5000, FALSE, 1, 8, 3), MCState(29, 4000, TRUE, 2, 7, 4)>>

MCSeededFeed == <<"harvest", "rebalance", "solvency", "milestone">>

MCCandle(low, high, close) == [low |-> low, high |-> high, close |-> close]

MCCandles ==
    {<<>>, <<MCCandle(9, 11, 10)>>,
     <<MCCandle(9, 11, 10), MCCandle(10, 13, 12), MCCandle(10, 12, 11)>>}
====
