SPECIFICATION Spec
CONSTANTS
    donor = donor
    vault = vault
    otherVault = otherVault
    streamer = streamer
    controller = controller
    treasury = treasury
    reserve = reserve
    MaxLedger = 3
    Payees = {vault, otherVault, streamer}
    Accounts <- MCAccounts
    InitialFunds <- MCFunds
    Streamer = streamer
    MaxStreams = 2
    Controller = controller
    Treasury = treasury
    Reserve = reserve
    FeeRates = {0, 600}
    Donors = {donor}
    Amounts = {0, 1, 3}
    Durations = {0, 2, 3}
    Navs = {9000000, 11000000, 12000000}
    MaxRoutes = 2
INVARIANTS
    TypeOK
    StreamsBacked
    ClaimedWithinUnlocked
    NoGainChargedTwice
CHECK_DEADLOCK FALSE
