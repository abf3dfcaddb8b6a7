SPECIFICATION Spec
CONSTANTS
    daemon = daemon
    once = once
    large = large
    keeper = keeper
    lending = lending
    clamm = clamm
    amm = amm
    vault = vault
    agent = agent
    Processes = {daemon, once, large, keeper}
    Daemons = {daemon}
    Onces = {once, large}
    Keepers = {keeper}
    Rules <- MCRules
    DaemonState <- MCDaemonState
    KeeperInputs <- MCKeeperInputs
    VaultTotals = {20}
    InitialBps <- MCInitialBps
    TradePrices = {1, 40, 1265}
    MevMinSpreadBps = 15
    Thresholds <- MCThresholds
    KeeperTargets <- MCTargets
    KeeperReservePercentage = 15
    RebalanceThresholdBps = 500
    LendingApys = {1420}
    Volatilities = {25}
    BlendPool = lending
    PhoenixPool = clamm
    SoroswapPool = amm
    Vault = vault
    Vaults = {vault}
    Strategies = {lending, clamm, amm}
    Agents = {agent}
    AgentAccount = agent
    TxLimits = {3}
    DailyLimits = {3}
    DAY_IN_LEDGERS = 2
    MaxLedger = 2
    MaxDay = 1
    MaxCycles = 2
    MaxAttempts = 2
    MoreEntries = 1
INVARIANTS
    DailyTotalsMatchAudit
    OnlyApprovedLands
    FailuresAreFinal
    WindowCountsWhatLanded
    NoAllocationInDrawdown
    AuditProofsVerify
PROPERTIES
    EveryCycleEnds
CHECK_DEADLOCK FALSE
