CONSTANTS
    Jobs = {j1}
    Kinds = {"payout"}
    c1 = c1
    PriorContracts <- MCPriorContracts
    PriorVault <- OneReward
    Faults = FALSE

SPECIFICATION Spec

INVARIANT NotifiedMeansPaid
