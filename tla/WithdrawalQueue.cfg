SPECIFICATION Spec
CONSTANTS
    MaxLedger = 2
    MaxRequests = 3
    Users = {alice, bob}
    QueueVaults = {vault, newVault}
    QueueVault = vault
    Shares = {1}
    Claimables = {0, 3}
    Cooldowns = {0, 1}
    Haircuts = {2500, 5000, 12000}
    BatchLengths = {2}
INVARIANT
    TypeOK
PROPERTIES
    OnlyRipeOwnClaims
    TicketsAreHonoured
CHECK_DEADLOCK FALSE
