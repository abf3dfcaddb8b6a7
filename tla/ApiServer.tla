---- MODULE ApiServer ----
(***************************************************************************)
(* frontend/server.js: what each route answers, given what its reads of    *)
(* the chain, the market and the files gave.  A handler is an async        *)
(* function nothing waits for: an exception it does not catch is an        *)
(* unhandled rejection, and ends the process (node 20).                    *)
(***************************************************************************)
EXTENDS ContractReader

CONSTANTS
    Adapters,       \* the adapterDefs with a contract
    DefaultConfig,  \* the governance configuration shown when none was read
    TicketIds,      \* the withdrawal requests looked at, from 1 up (20)
    Period,         \* candles of the indicators (14)
    TrendPeriod,    \* candles of the trend (10)
    SeededFeed,     \* the entries of seedInitialFeed
    X402Configured  \* X402_FACILITATOR_URL and X402_PAYER_SECRET are set

VARIABLES
    up,         \* the process runs
    dataFile    \* telemetry_data.json next to the server: the circuit breaker
                \* it holds, as a set, empty while there is no such file

serverVars == <<up, dataFile>>

ServerInit == up = TRUE /\ dataFile = {}

SumOf(term(_), first, last) ==
    LET sum[n \in first - 1..last] == IF n < first THEN 0 ELSE sum[n - 1] + term(n)
    IN  sum[last]

Ok(content) == [status |-> 200, content |-> content]
Error(status) == [status |-> status]

----
(* GET /api/telemetry                                                      *)

TelemetryReads ==
    {<<"total_assets">>, <<"total_shares">>, <<"get_telemetry">>, <<"get_seal_status">>}

(* Anything but the shares makes the answer live.                          *)
IsLive(failed) ==
    \E r \in TelemetryReads \ {<<"total_shares">>} : Result(failed, r) # Failed

(* BigInt(null), and a field of null: the handler throws.                  *)
TelemetryThrows(failed) ==
    /\ IsLive(failed)
    /\ \E r \in TelemetryReads \ {<<"get_seal_status">>} : Result(failed, r) = Failed

IdleAssets(assets, ratioBps) == (assets * ratioBps) \div 10000

(* Without the seal the breaker is answered as open, bunker mode as off.   *)
CircuitBreaker(failed) ==
    IF Result(failed, <<"get_seal_status">>) = Failed
    THEN [sealed |-> FALSE, bunker |-> FALSE]
    ELSE [sealed |-> Result(failed, <<"get_seal_status">>),
          bunker |-> Result(failed, <<"get_telemetry">>).bunker]

LiveTelemetry(failed) ==
    LET assets == Result(failed, <<"total_assets">>)
        oracle == Result(failed, <<"get_telemetry">>)
    IN  Ok([assets |-> assets,
            shares |-> Result(failed, <<"total_shares">>),
            idle   |-> IdleAssets(assets, oracle.ratioBps),
            nav    |-> oracle.nav,
            breaker |-> CircuitBreaker(failed)])

(* A variant that answers with zeros when nothing could be read.           *)
TelemetryWithDefaults(failed) ==
    IF IsLive(failed) THEN LiveTelemetry(failed)
    ELSE Ok([assets |-> 0, shares |-> 0, idle |-> 0, nav |-> 0,
             breaker |-> [sealed |-> FALSE, bunker |-> FALSE]])

Telemetry(failed) ==
    IF IsLive(failed) THEN LiveTelemetry(failed) ELSE Error(503)

----
(* GET /api/yield-routes                                                   *)

Tvl(a) == <<"total_value", a>>
Rate(a) == <<"configured_rate_bps", a>>

(* The rate is asked for once the value is known.                          *)
RouteReads(failed) ==
    {Tvl(a) : a \in Adapters} \cup {Rate(a) : a \in {b \in Adapters : Tvl(b) \notin failed}}

(* An adapter that cannot be read is left out, an unknown rate is not.     *)
YieldRoutes(failed) ==
    LET reachable == {a \in Adapters : Result(failed, Tvl(a)) # Failed}
    IN  IF reachable = {} THEN Error(503)
        ELSE Ok([a \in reachable |-> [tvl  |-> Result(failed, Tvl(a)),
                                      rate |-> Result(failed, Rate(a))]])

----
(* GET /api/governance/proposals                                           *)

ProposalCount(failed) ==
    LET count == Result(failed, <<"get_proposal_count">>)
    IN  IF count = Failed THEN 0 ELSE count

GovernanceReads(failed) ==
    {<<"get_config">>, <<"get_proposal_count">>}
        \cup {<<"get_proposal", n>> : n \in 1..ProposalCount(failed)}

(* One proposal that cannot be read empties the list; what was read of the *)
(* configuration stays.                                                    *)
Proposals(failed) ==
    LET count == ProposalCount(failed)
        config == Result(failed, <<"get_config">>)
        complete == \A n \in 1..count : Result(failed, <<"get_proposal", n>>) # Failed
    IN  Ok([proposals |-> IF complete
                          THEN [n \in 1..count |-> Result(failed, <<"get_proposal", n>>)]
                          ELSE <<>>,
            config    |-> IF config = Failed THEN DefaultConfig ELSE config,
            live      |-> config # Failed \/ (count > 0 /\ complete)])

(* POST /api/governance/vote: an invocation to be signed; nothing is sent. *)
Vote(proposal, voter, voteType, isVeto) ==
    Ok([function |-> IF isVeto THEN "staker_veto" ELSE "cast_vote",
        proposal |-> proposal, voter |-> voter, vote |-> voteType])

----
(* Balances, points, tickets and reserves                                  *)

Balance(address) == <<"balance", address>>

(* GET /api/token-balance: the reader has swallowed any failure.           *)
TokenBalanceAnswer(failed, address) == Ok(TokenBalance(failed, Balance(address)))

(* calculateDailyShards for 45 days in BALANCED_HXLM, used as collateral:  *)
(* 1.5 * 1.2 * 1.25 is 2.25, times 10 per unit, rounded.                   *)
DailyShards(amount) == (amount * 225 + 5) \div 10

(* getUserProfile: 30 days of the daily shards, ranked after the profiles  *)
(* the engine has.                                                         *)
Profile(profiles, held) ==
    IF held <= 0 THEN [shards |-> 0, rank |-> 0]
                 ELSE [shards |-> 30 * DailyShards(held), rank |-> Cardinality(profiles) + 1]

(* GET /api/points: the same swallowed failure is scored as nothing held,  *)
(* and an engine made for the request ranks everybody first.               *)
Points(failed, address) ==
    LET held == TokenBalance(failed, Balance(address))
    IN  Ok([held |-> held, profile |-> Profile({}, held), real |-> TRUE])

(* getLeaderboard: the ten profiles with the most shards.                  *)
TopProfiles(profiles) ==
    {p \in profiles : Cardinality({q \in profiles : q.shards > p.shards}) < 10}

(* GET /api/leaderboard: nobody is in the engine made for the request.     *)
Leaderboard == Ok(TopProfiles({}))

Ticket(n) == <<"get_request", n>>

(* GET /api/withdrawal-tickets: the first request that does not exist ends *)
(* the search, a read that fails otherwise is skipped.  The fields ready   *)
(* and amount are not the contract's: a ticket is pending and worth 0.     *)
TicketReads ==
    {Ticket(n) : n \in {m \in TicketIds : \A k \in 1..(m - 1) : Value(Ticket(k)) # Failed}}

Tickets(failed, address) ==
    Ok({n \in TicketIds :
          /\ Ticket(n) \in TicketReads
          /\ Result(failed, Ticket(n)) # Failed
          /\ Result(failed, Ticket(n)).user = address})

(* generateSolvencyReport.                                                 *)
SolvencyReport(reserves, ledger, liabilities) ==
    LET owed == SumOf(LAMBDA n : liabilities[n].value, 1, Len(liabilities))
    IN  [reserves |-> reserves, ledger |-> ledger, liabilities |-> owed,
         surplus |-> reserves - owed, solvent |-> reserves >= owed,
         leaves |-> Len(liabilities)]

(* getInclusionProof: the leaves of a depositor, whose proofs AuditLog     *)
(* makes.                                                                  *)
UserProof(liabilities, user) == {n \in DOMAIN liabilities : liabilities[n].user = user}

(* GET /api/v1/solvency/proof: the registry of depositors is empty, so     *)
(* any reserves cover the liabilities.                                     *)
SolvencyProof(failed, ledger) ==
    LET reserves == Result(failed, <<"total_assets">>)
    IN  IF reserves = Failed \/ ledger = Failed THEN Error(503)
        ELSE Ok(SolvencyReport(reserves, ledger, <<>>))

(* The same with an address, which is looked for once the report is made:  *)
(* nobody has a proof.                                                     *)
InclusionProofOf(failed, ledger, user) ==
    IF SolvencyProof(failed, ledger).status = 200 THEN Ok(UserProof(<<>>, user))
                                                  ELSE Error(503)

(* GET /api/v1/social/feed: a gateway made for the request has what its    *)
(* constructor puts there; without the module there is nothing.            *)
SocialFeed(built) == Ok(IF built THEN SeededFeed ELSE <<>>)

----
(* GET /api/trading-agent: candles of Horizon, or else of CoinGecko        *)

(* Horizon is asked for the pair of Stellar only, CoinGecko when it had    *)
(* nothing: a feed that fails has no candles, a price that fails is 0.     *)
MarketFeed(stellarPair, horizon, price, gecko) ==
    IF stellarPair /\ horizon # <<>>
    THEN [price |-> horizon[Len(horizon)].close, candles |-> horizon]
    ELSE [price |-> price, candles |-> gecko]

(* The 14-period RSI, in tenths: 50 for too few candles, 100 for no loss.  *)
Rsi(candles) ==
    LET change(n) == candles[n].close - candles[n - 1].close
        gain(n) == IF change(n) > 0 THEN change(n) ELSE 0
        loss(n) == IF change(n) < 0 THEN -change(n) ELSE 0
        first == Len(candles) - Period + 1
        gains == SumOf(gain, first, Len(candles))
        losses == SumOf(loss, first, Len(candles))
    IN  IF Len(candles) < Period + 1 THEN 500
        ELSE IF losses = 0 THEN 1000
        ELSE (1000 * gains) \div (gains + losses)

(* The 14-period ATR, times the period: 0 for too few candles.             *)
Atr(candles) ==
    LET range(n) == LET before == candles[n - 1].close
                        reach == {candles[n].high, candles[n].low, before}
                    IN  (CHOOSE x \in reach : \A y \in reach : y <= x)
                            - (CHOOSE x \in reach : \A y \in reach : x <= y)
    IN  IF Len(candles) < Period + 1 THEN 0
        ELSE SumOf(range, Len(candles) - Period + 1, Len(candles))

(* Within a hundredth of the average of the last closes.                   *)
Trend(candles) ==
    LET close(n) == candles[n].close
        sum == SumOf(close, Len(candles) - TrendPeriod + 1, Len(candles))
        last == candles[Len(candles)].close * TrendPeriod * 100
    IN  IF Len(candles) < TrendPeriod THEN "INSUFFICIENT_DATA"
        ELSE IF last > sum * 101 THEN "UPTREND"
        ELSE IF last < sum * 99 THEN "DOWNTREND"
        ELSE "RANGE-BOUND"

Signal(rsi) ==
    CASE rsi > 700 -> "SELL"
      [] rsi > 550 /\ rsi <= 700 -> "BUY"
      [] rsi > 450 /\ rsi <= 550 -> "NEUTRAL"
      [] rsi > 300 /\ rsi <= 450 -> "BUY"
      [] OTHER -> "STRONG BUY"

(* The stop 2 ATR below the price, the targets 2, 3.5 and 5 above it: in   *)
(* units of the price over twice the period.                               *)
TradeSetup(price, atr) ==
    LET at(halves) == 2 * Period * price + halves * atr
    IN  [stop |-> at(-4), entry |-> at(0), targets |-> <<at(4), at(7), at(10)>>]

(* No market data is an answer of its own, and never a default price.      *)
TradingDesk(feed) ==
    IF feed.candles = <<>> \/ feed.price = 0 THEN Error(503)
    ELSE Ok([price |-> feed.price, candles |-> feed.candles,
             signal |-> Signal(Rsi(feed.candles)), trend |-> Trend(feed.candles),
             setup |-> TradeSetup(feed.price, Atr(feed.candles))])

----
(* Transactions                                                            *)

(* POST /api/build-deposit, /api/build-withdraw: an account that exists, a *)
(* call whose simulation succeeds.                                         *)
BuildTransaction(reached, simulated, owner, kind) ==
    IF reached /\ simulated THEN Ok([owner |-> owner, kind |-> kind]) ELSE Error(400)

(* POST /api/submit-tx: any result of sendTransaction is ok, the status    *)
(* ERROR included; only an error of the call itself is not.                *)
SubmitTransaction(outcome) ==
    CASE outcome = "unreachable" -> Error(500)
      [] outcome = "rpc error"   -> Error(400)
      [] OTHER                   -> Ok(outcome)

----
(* The file of the simulated circuit breaker                               *)

(* Written in place; an error of the write is ignored, and the answer is   *)
(* what should have been written.                                          *)
WriteData(breaker) == dataFile' = {breaker} \/ UNCHANGED dataFile

SimulateShock == WriteData([sealed |-> TRUE, bunker |-> TRUE])
ResetCircuitBreaker == WriteData([sealed |-> FALSE, bunker |-> FALSE])

(* POST /api/trigger-cycle: whatever the cycle did, the file is answered.  *)
TriggerCycleAnswer == Ok(dataFile)

(* POST /api/x402-query: without a facilitator nobody pays, and the data   *)
(* is answered all the same; with one the handler fails, for the client it *)
(* requires has no executeX402Micropayment.                                *)
X402Query == IF X402Configured THEN Error(502) ELSE Ok("not configured")

----
(* The process                                                             *)

ServerEnds == up' = FALSE
ServerStarts == ~up /\ up' = TRUE
====
