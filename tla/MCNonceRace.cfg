CONSTANTS
    Jobs = {j1, j2}
    Kinds = {"payout"}
    c1 = c1
    PriorContracts <- MCPriorContracts
    PriorVault <- TwoRewards
    Faults = FALSE

SPECIFICATION FairSpec

PROPERTY PayoutPays
