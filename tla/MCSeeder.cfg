CONSTANTS
    Specs = 2
    Starts = 2
    Faults = TRUE

SPECIFICATION FairSpec

INVARIANTS
    SeederInv
    CatalogueWhole
    ContractsMined
    FundedAtMostOnce
    RewardToGive
PROPERTY StartupEnds
