CONSTANTS
    Requests = {r1, r2, r3}
    u1 = u1
    u2 = u2
    e1 = e1
    e2 = e2
    e3 = e3
    p1 = p1
    Users <- MCUsers
    Events <- MCEvents
    OpenEvents <- MCOpenEvents
    ContractEvents <- MCContractEvents
    PriorRows <- MCPriorRows
    ForeignKeys = TRUE

SYMMETRY RequestSymmetry
SPECIFICATION Spec

INVARIANTS
    ApplicationInv
    OneApplicationPerPair
    OnePayoutPerPair
    AnswersTellTheTruth
PROPERTIES
    ApprovalIsFinal
    PromiseKept
