CONSTANTS
    Requests = {r1, r2, r3}
    u1 = u1
    u2 = u2
    s1 = s1
    e1 = e1
    c1 = c1
    Owners <- MCOwners
    PriorStores <- MCPriorStores
    PriorEvents <- MCPriorEvents
    ForeignKeys = TRUE

SYMMETRY RequestSymmetry
SPECIFICATION Spec

INVARIANTS
    EventInv
    ContractsAccountedFor
    DeletedIsGone
    EventsHaveContracts
PROPERTY OnlyOwnersDelete
