SPECIFICATION Spec
CONSTANTS
    admin = admin
    guardian = guardian
    sentinel = sentinel
    guarded = guarded
    unguarded = unguarded
    keeper = keeper
    MaxLedger = 4
    SealDuration = 2
    SealExpiry = 2
    OracleAdmin = admin
    OraclePublisher = keeper
    Publishers = {admin, keeper}
    NavUnit = 20
    MaxUpdates = 0
    SentinelAddress = sentinel
    SentinelAdmin = admin
    MaxDrawdown = 5
    WatchedVaults = {guarded, unguarded}
    PausersOf <- MCPausersOf
    UnpauserOf <- MCUnpauserOf
    Callers = {admin, guardian}
    Navs <- MCNavs
    Drawdowns = {4, 5}
INVARIANT
    SealIsOneTime
CHECK_DEADLOCK FALSE
