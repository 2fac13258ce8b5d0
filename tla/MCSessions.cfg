CONSTANTS
    Requests = {r1, r2, r3}
    Capacity = 2
    Served <- MCServed

SPECIFICATION FairSpec

INVARIANTS
    SessionsInv
    TurnedAwayUndone
    PayoutsFitPool
PROPERTY EveryRequestEnds
