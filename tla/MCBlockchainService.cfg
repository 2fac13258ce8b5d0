CONSTANTS
    Jobs = {j1, j2, j3}
    Kinds = {"deploy", "fund", "payout"}
    c1 = c1
    PriorContracts <- MCPriorContracts
    PriorVault <- OneReward
    Faults = TRUE

SPECIFICATION FairSpec

INVARIANTS
    BlockchainInv
    MinedOnce
    NoStuckTransaction
    ReturnedMeansMined
PROPERTY EveryJobSettles
