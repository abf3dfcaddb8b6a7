SPECIFICATION Spec
CONSTANTS
    alice = alice
    bob = bob
    agent = agent
    stranger = stranger
    admin = admin
    guardian = guardian
    lending = lending
    amm = amm
    clamm = clamm
    vault = vault
    MaxLedger = 0
    Vault = vault
    Vaults = {vault}
    MCHolders = {alice}
    MCAdapters = {lending}
    MCFunding = 2
    Holders = {alice}
    Strategies = {lending}
    Kind <- MCKind
    Accounts <- MCAccounts
    InitialFunds <- MCFunds
    RegistryAdmin = admin
    RegistryGuardian = guardian
    VaultAdmin = admin
    VaultGuardian = guardian
    Principals = {admin, guardian, stranger}
    Agents = {agent}
    DAY_IN_LEDGERS = 1
    RateBps = 0
    TickWidths = {1}
    Amounts = {1, 2}
    ShareAmounts = {500, 1000}
    Caps = {2}
    TxLimits = {2}
    DailyLimits = {2}
    MaxYield = 0
    MaxAssets = 0
PROPERTY
    ReserveFloor
CHECK_DEADLOCK FALSE
