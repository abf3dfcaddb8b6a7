---- MODULE WebApp ----
(***************************************************************************)
(* The dashboard, the API server and what lies behind it: the services in  *)
(* the memory of its process, the file of the portfolio store, the network *)
(* and the chain, with processes that end and are started again.           *)
(*                                                                         *)
(* A handler of the server is one step, from the request to its answer:    *)
(* what handlers share is read and written without an await in between.    *)
(* The answers of the telemetry travel back on their own.                  *)
(***************************************************************************)
EXTENDS AuthService, PortfolioStore, Dashboard

CONSTANTS
    Workloads,      \* bound: the sets of clients explored, one at a time
    MaxCrashes,     \* bound: how often the process is killed
    Candles,        \* the candles a price feed may answer
    Prices,         \* the prices CoinGecko may answer, 0 for none
    Ledgers         \* what Horizon may answer as its latest ledger

ASSUME WebAppAssumption == MaxCrashes \in Nat

VARIABLES
    clients,    \* who uses the server in this behaviour
    crashes     \* how often the process was killed

serviceVars == <<authVars, storeVars>>
worldVars == <<clients, crashes>>
vars == <<authVars, storeVars, readerVars, serverVars, pageVars, worldVars>>

----
(* The process                                                             *)

(* The memory of the process is gone.                                      *)
ForgetMemory == AuthRestart /\ StoreCrash /\ ReaderRestart

(* A handler throws: the process ends, and its request with it.            *)
HandlerThrows ==
    /\ ServerEnds
    /\ ForgetMemory
    /\ UNCHANGED <<dataFile, chainVars>>

(* Killed, with no write under way, or in a write of a deposit.            *)
Crash ==
    /\ up
    /\ "killer" \in clients
    /\ crashes < MaxCrashes
    /\ crashes' = crashes + 1
    /\ ServerEnds
    /\ AuthRestart
    /\ ReaderRestart
    /\ \/ StoreCrash
       \/ /\ "store" \in clients
          /\ \E user \in Users, vault \in VaultTypes, amount \in Amounts :
               CrashInDeposit(user, vault, amount)
    /\ UNCHANGED <<dataFile, chainVars, pageVars, clients>>

(* restart: unless-stopped; the health check opens the store at once.      *)
Restart ==
    /\ ServerStarts
    /\ InitializeStorage
    /\ UNCHANGED <<dataFile, authVars, readerVars, pageVars, worldVars>>

----
(* Routes that read the chain                                              *)

TelemetryHandled(q) ==
    /\ up
    /\ telemetry[q] = Asked
    /\ \E failed \in Failures(TelemetryReads) :
         IF TelemetryThrows(failed)
         THEN HandlerThrows /\ TelemetryUnreachable(q)
         ELSE /\ Remember(TelemetryReads, failed)
              /\ telemetry' = [telemetry EXCEPT ![q] = Telemetry(failed)]
              /\ UNCHANGED <<chainVars, shown, pc, wallet, panel, loading, serverVars, serviceVars>>
    /\ UNCHANGED worldVars

Client == CHOOSE user \in Users : TRUE

(* All that a panel's route may read.                                      *)
PanelReads(p) ==
    CASE p = "earnVault"  -> TelemetryReads
      [] p \in RoutePanels -> {Tvl(a) : a \in Adapters} \cup {Rate(a) : a \in Adapters}
      [] p = "proposals"  -> {r \in Reads : r[1] \in {"get_config", "get_proposal_count",
                                                      "get_proposal"}}
      [] p \in {"solvency", "inclusion"} -> {<<"total_assets">>}
      [] p \in {"points", "balance"} -> {Balance(Client)}
      [] p = "tickets"    -> TicketReads
      [] OTHER            -> {}

(* What it reads, given what became of its earlier reads.                  *)
PanelReadsNow(p, failed) ==
    CASE p \in RoutePanels -> RouteReads(failed)
      [] p = "proposals" -> GovernanceReads(failed)
      [] OTHER           -> PanelReads(p)

PanelAnswers(p, failed) ==
    CASE p = "earnVault"   -> {Telemetry(failed)}
      [] p \in RoutePanels -> {YieldRoutes(failed)}
      [] p = "proposals"   -> {Proposals(failed)}
      [] p = "solvency"    -> {SolvencyProof(failed, ledger) :
                                   ledger \in Ledgers \cup {Failed}}
      [] p = "inclusion"   -> {InclusionProofOf(failed, ledger, Client) :
                                   ledger \in Ledgers \cup {Failed}}
      [] p = "points"      -> {Points(failed, Client)}
      [] p = "balance"     -> {TokenBalanceAnswer(failed, Client)}
      [] p = "tickets"     -> {Tickets(failed, Client)}
      [] p = "social"      -> {SocialFeed(built) : built \in BOOLEAN}
      [] p = "desk"        -> {TradingDesk(MarketFeed(stellarPair, horizon, price, gecko)) :
                                   stellarPair \in BOOLEAN, horizon, gecko \in Candles,
                                   price \in Prices}
      [] p = "leaderboard" -> {Leaderboard}
      [] p = "vote"        -> {Vote(1, Client, "For", isVeto) : isVeto \in BOOLEAN}

PanelHandled(p) ==
    /\ up
    /\ p \in loading
    /\ \E failed \in Failures(PanelReads(p)) :
         IF p = "earnVault" /\ TelemetryThrows(failed)
         THEN HandlerThrows /\ PanelUnreachable(p)
         ELSE /\ Remember(PanelReadsNow(p, failed), failed)
              /\ \E answer \in PanelAnswers(p, failed) : PanelAnswered(p, answer)
              /\ UNCHANGED <<chainVars, serverVars, serviceVars>>
    /\ UNCHANGED worldVars

----
(* The flows of the page                                                   *)

PageOnly == UNCHANGED <<serviceVars, readerVars, serverVars, worldVars>>

(* Clicks, opened panels, and the answers of the wallet.                   *)
UserActs ==
    /\ PageOnly
    /\ \/ \E b \in ConsoleButtons \cap clients : ClickConsole(b)
       \/ /\ "connect" \in clients
          /\ \/ ClickConnect
             \/ AccessGranted
             \/ ClickDisconnect
             \/ "stake" \in clients /\ ClickStake
             \/ "withdraw" \in clients /\ ClickWithdraw
             \/ ClickBank
             \/ \E b \in Flows : Signed(b)
             \/ \E b \in Flows : PromptDeclined(b)
       \/ \E p \in Panels \cap clients : OpenPanel(p)
       \/ "tier" \in clients /\ SwitchTier

RollsUp == (RollUpFrame \/ RollUpEnds) /\ PageOnly

TimerFires(q) == "poll" \in clients /\ PollTimer(q) /\ PageOnly

(* POST /api/trigger-cycle, simulate-shock, reset-circuit-breaker and      *)
(* x402-query.                                                             *)
ConsoleHandled(b) ==
    /\ up
    /\ b \in ConsoleButtons
    /\ pc[b] = "posting"
    /\ \/ b = "agent" /\ CycleAnswered(TriggerCycleAnswer) /\ UNCHANGED dataFile
       \/ b = "shock" /\ SimulateShock /\ ThenTelemetry(b)
       \/ b = "reset" /\ ResetCircuitBreaker /\ ThenTelemetry(b)
       \/ b = "x402" /\ X402Answered(X402Query) /\ UNCHANGED dataFile
    /\ UNCHANGED <<up, serviceVars, readerVars, worldVars>>

BuildHandled(b) ==
    /\ up
    /\ \E reached, simulated \in BOOLEAN :
         BuildAnswered(b, BuildTransaction(reached, simulated, Client, b))
    /\ PageOnly

SubmitHandled(b) ==
    /\ up
    /\ \E outcome \in {"PENDING", "ERROR", "rpc error", "unreachable"} :
         SubmitAnswered(b, SubmitTransaction(outcome))
    /\ PageOnly

(* fetch throws: nothing listens.                                          *)
FlowUnreachable(b) ==
    /\ ~up
    /\ pc[b] \in {"posting", "building", "submitting"}
    /\ FlowFails(b)
    /\ PageOnly

(* Horizon answers the page itself; the addresses and the shares come from *)
(* the server, or their failure is a notice on the console.                *)
BalancesAnswered(b) ==
    /\ XlmAnswered(b) \/ SharesAnswered(b)
    /\ PageOnly

RequestGoesOn(q) ==
    \/ TelemetryHandled(q)
    \/ TelemetryDelivered(q) /\ PageOnly
    \/ ~up /\ TelemetryUnreachable(q) /\ PageOnly

(* A request of the timer, and the timer once it is over.                  *)
PollGoesOn(q) == TimerFires(q) \/ RequestGoesOn(q)

FlowGoesOn(b) ==
    \/ ConsoleHandled(b)
    \/ BuildHandled(b)
    \/ SubmitHandled(b)
    \/ FlowUnreachable(b)
    \/ BalancesAnswered(b)
    \/ b \in Requests /\ RequestGoesOn(b)

PanelGoesOn(p) ==
    \/ PanelHandled(p)
    \/ ~up /\ PanelUnreachable(p) /\ PageOnly

----
(* Routes of the services                                                  *)

(* POST /api/v1/auth/challenge                                             *)
ChallengeRoute(address) ==
    /\ up
    /\ "auth" \in clients
    /\ GenerateChallenge(address)
    /\ UNCHANGED <<storeVars, readerVars, serverVars, pageVars, worldVars>>

(* POST /api/v1/auth/verify: the session exists before the profile does.   *)
VerifyRoute(c, address, signature) ==
    /\ up
    /\ IF Accepts(c, address, signature)
       THEN CreateSession(c, address, signature) /\ GetOrCreateUserProfile(address)
       ELSE TurnDown(c, address) /\ UNCHANGED storeVars
    /\ UNCHANGED <<readerVars, serverVars, pageVars, worldVars>>

(* GET, PUT /api/v1/user/profile                                           *)
ProfileRoute(user) ==
    /\ up
    /\ "store" \in clients
    /\ GetOrCreateUserProfile(user)
    /\ UNCHANGED <<authVars, readerVars, serverVars, pageVars, worldVars>>

(* An address that is no G address throws in the GET branch, where nothing *)
(* catches it.                                                             *)
ProfileThrows ==
    /\ up
    /\ "store" \in clients
    /\ crashes < MaxCrashes
    /\ crashes' = crashes + 1
    /\ HandlerThrows
    /\ UNCHANGED <<pageVars, clients>>

(* POST /api/v1/user/deposit-record                                        *)
DepositRoute(user) ==
    /\ up
    /\ "store" \in clients
    /\ \/ \E vault \in VaultTypes, amount \in Amounts : RecordDeposit(user, vault, amount)
       \/ RefuseDeposit(user)
    /\ UNCHANGED <<authVars, readerVars, serverVars, pageVars, worldVars>>

----

Init ==
    /\ AuthInit
    /\ StoreInit
    /\ ReaderInit
    /\ ServerInit
    /\ DashboardInit
    /\ clients \in Workloads
    /\ shown.rolling => "motion" \in clients
    /\ crashes = 0

(* The clock, the chain and the network.                                   *)
WorldMoves ==
    /\ "world" \in clients
    /\ ChainMoves \/ NetChanges
    /\ UNCHANGED <<cache, serviceVars, serverVars, pageVars, worldVars>>

TimePasses ==
    /\ CacheAges
    /\ UNCHANGED <<chainVars, serviceVars, serverVars, pageVars, worldVars>>

FiveMinutesPass(c) ==
    /\ ChallengeExpires(c)
    /\ UNCHANGED <<storeVars, readerVars, serverVars, pageVars, worldVars>>

Next ==
    \/ Crash
    \/ Restart
    \/ WorldMoves
    \/ TimePasses
    \/ UserActs
    \/ RollsUp
    \/ \E q \in Polls : PollGoesOn(q)
    \/ \E b \in Buttons : FlowGoesOn(b)
    \/ \E p \in Panels : PanelGoesOn(p)
    \/ \E a \in Addresses : ChallengeRoute(a)
    \/ \E c \in Challenges : FiveMinutesPass(c)
    \/ \E c \in Challenges, a \in Addresses, s \in Signatures : VerifyRoute(c, a, s)
    \/ \E user \in Users : ProfileRoute(user)
    \/ ProfileThrows
    \/ \E user \in Users : DepositRoute(user)

(* The timer fires and the rollup ends; the requests of the timer and of   *)
(* the flows are answered or fail; time passes; the container is started   *)
(* again.  Nobody has to click, the network need not recover, the wallet's *)
(* prompt may stay open.                                                   *)
Fairness ==
    /\ \A q \in Polls : WF_vars(PollGoesOn(q))
    /\ \A b \in Buttons : WF_vars(FlowGoesOn(b))
    /\ WF_vars(RollUpEnds /\ PageOnly)
    /\ WF_vars(TimePasses)
    /\ WF_vars(Restart)

Spec == Init /\ [][Next]_vars /\ Fairness

----
(* Properties                                                              *)

(* Whatever writes fail and processes die, the portfolio of each user and  *)
(* its history agree, in memory and in any file that can be read back, and *)
(* the server answers at least what it acknowledged, unless a write that   *)
(* failed was followed by a restart.                                       *)
DepositsSurvive ==
    /\ Balanced(table)
    /\ file # Torn => Balanced(file)
    /\ up => AnswersCover

(* What the chain had at some time, each read for itself.                  *)
FiguresSeen(figures) ==
    /\ figures.assets \in Seen(<<"total_assets">>)
    /\ figures.shares \in Seen(<<"total_shares">>)
    /\ \E oracle \in Seen(<<"get_telemetry">>) :
         /\ figures.idle = IdleAssets(figures.assets, oracle.ratioBps)
         /\ figures.nav = oracle.nav

(* The cards of such figures, in whole XLM and with the page's own NAV.    *)
MetricsOf(assets, oracle) ==
    Metrics(WholeXlm(assets), WholeXlm(IdleAssets(assets, oracle.ratioBps)))

(* What the cards show of a page that has read nothing, or in the rollup.  *)
Unread == {Metrics(0, 0), RolledTo(10000)}

CardsSeen(cards) ==
    \/ cards \in Unread
    \/ \E assets \in Seen(<<"total_assets">>), oracle \in Seen(<<"get_telemetry">>) :
         cards = MetricsOf(assets, oracle)

(* A holding of 0 also stands for one that could not be read, the default  *)
(* configuration for none, a missing rate for one that is pending.  What   *)
(* the other panels show is not read from the chain or the market.         *)
PanelSeen(p, content) ==
    CASE p = "earnVault" -> FiguresSeen(content)
      [] p = "solvency"  -> content.reserves \in Seen(<<"total_assets">>)
      [] p = "proposals" ->
            /\ \A n \in DOMAIN content.proposals :
                  content.proposals[n] \in Seen(<<"get_proposal", n>>) \ {Failed}
            /\ content.config \in Seen(<<"get_config">>) \cup {DefaultConfig}
      [] p \in RoutePanels ->
            \A a \in DOMAIN content :
               /\ content[a].tvl \in Seen(Tvl(a)) \ {Failed}
               /\ content[a].rate \in Seen(Rate(a)) \cup {Failed}
      [] p = "points"    ->
            /\ content.held \in Seen(Balance(Client)) \cup {0}
            /\ content.profile = Profile({}, content.held)
      [] p = "balance"   -> content \in Seen(Balance(Client)) \cup {0}
      [] p = "tickets"   ->
            \A n \in content : \E request \in Seen(Ticket(n)) \ {Failed} : request.user = Client
      [] p = "desk"      ->
            /\ content.candles \in Candles \ {<<>>}
            /\ content.price \in (Prices \ {0}) \cup {content.candles[Len(content.candles)].close}
      [] OTHER           -> TRUE

(* The figures of the page come from the chain, or the market, or are the  *)
(* zeros of a page that has read nothing, whichever reads fail together,   *)
(* in whatever order the answers arrive and whatever the rollup overwrites.*)
(* It is TVL and reserve that the chain had; the NAV of the cards is the   *)
(* page's own, and the badge is nominal when the seal could not be read.   *)
FiguresHaveASource ==
    /\ CardsSeen(shown.cards)
    /\ \A p \in Panels : panel[p].status = 200 => PanelSeen(p, panel[p].content)

(* TVL and reserve as they are on the chain, and the NAV made from them.   *)
CardsShowTheChain ==
    shown.cards = MetricsOf(Value(<<"total_assets">>), Value(<<"get_telemetry">>))

BadgeShowsTheChain ==
    shown.badge = Badge([sealed |-> Value(<<"get_seal_status">>),
                         bunker |-> Value(<<"get_telemetry">>).bunker])

(* Once the network stays up, the page that polls comes to show assets and *)
(* reserve as they are, and goes on to, whatever was cached, late, rolled  *)
(* up or restarted before; and the breaker, once nobody triggers a cycle   *)
(* any more, whose answer puts the breaker of the file on the badge.       *)
ShowsTheChainAgain ==
    (<>[](net = "up") /\ []("poll" \in clients)) =>
        /\ <>[]CardsShowTheChain
        /\ <>[](pc["agent"] = "idle") => <>[]BadgeShowsTheChain

(* A button that was disabled is enabled again, or its flow waits for the  *)
(* user at a prompt of the wallet.                                         *)
ButtonsComeBack ==
    \A b \in Buttons : (pc[b] \notin {"idle", "prompt"}) ~> (pc[b] \in {"idle", "prompt"})
====
