SPECIFICATION Spec
CONSTANTS
    v1 = v1
    v2 = v2
    MaxLedger = 3
    MaxProposals = 2
    Voters = {v1, v2}
    VotingPeriod = 1
    Timelock = 1
    VetoThresholdBps = 3340
    EarlyVetoTrigger = 1000000000
    Powers <- MCPowers
INVARIANT
    VetoShareBlocks
CHECK_DEADLOCK FALSE
