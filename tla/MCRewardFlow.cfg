CONSTANTS
    Requests = {r1, r2, r3}
    u1 = u1
    u2 = u2
    e1 = e1
    p1 = p1
    Users <- MCUsers
    Events <- MCEvents
    OpenEvents <- MCEvents
    ContractEvents <- MCEvents
    PriorRows <- MCPriorRows
    ForeignKeys = FALSE
    PriorVault <- MCPriorVault
    Faults = TRUE

SYMMETRY RequestSymmetry
SPECIFICATION FlowSpec

INVARIANTS
    FlowInv
    PaidAtMostOnce
    PaidForApplication
PROPERTY RewardKept
