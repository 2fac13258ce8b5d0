CONSTANTS
    s1 = s1  s2 = s2
    e1 = e1  e2 = e2
    a1 = a1  a2 = a2  a3 = a3  a4 = a4
    u1 = u1  u2 = u2  u3 = u3
    Stores <- MCStores
    Events <- MCEvents
    Applications <- MCApplications
    Users <- MCUsers
    OwnerOf <- MCOwnerOf
    StoreOf <- MCStoreOf
    EventOf <- MCEventOf
    ReviewerOf <- MCReviewerOf
    CategoryOf <- MCCategoryOf
    StatusOf <- MCStatusOf
    Sizes = {1, 2}
    ForeignKeys = TRUE

SPECIFICATION Spec

INVARIANTS
    ListingInv
    UndisturbedWalk
    ReviewsWhole
