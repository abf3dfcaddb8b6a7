SPECIFICATION Spec
CONSTANTS
    alice = alice
    bob = bob
    blend = blend
    phoenix = phoenix
    Failed = Failed
    Addresses = {alice, bob}
    MaxChallenges = 2
    Users = {alice, bob}
    VaultTypes = {"EARN_XLM"}
    Amounts = {1, 2}
    HistoryCap = 2
    HistoryPage = 1
    MaxRecords = 3
    Reads <- MCReads
    ChainStates <- MCChainStates
    MaxTroubles = 1
    Adapters = {blend, phoenix}
    DefaultConfig = "default"
    TicketIds = {1, 2}
    Period = 2
    TrendPeriod = 2
    SeededFeed <- MCSeededFeed
    X402Configured = FALSE
    Polls = {"first", "second"}
    Panels = {"earnVault", "earnRoutes", "routes", "proposals", "solvency", "points", "balance", "tickets", "desk", "leaderboard", "vote", "futures", "social", "inclusion"}
    StroopsPerXlm = 10
    HorizonBalances = {2}
    StakeAmounts = {1, 3}
    Workloads <- MCWorkloads
    MaxCrashes = 1
    Candles <- MCCandles
    Prices = {0, 10}
    Ledgers = {7}
INVARIANTS
    SessionsEarned
    DepositsSurvive
    FiguresHaveASource
PROPERTIES
    ShowsTheChainAgain
    ButtonsComeBack
CHECK_DEADLOCK FALSE
