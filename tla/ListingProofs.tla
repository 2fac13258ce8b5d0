--------------------------- MODULE ListingProofs ---------------------------
(***************************************************************************)
(* Proofs about Listing, for every catalogue, filter and page size: what   *)
(* the pages of a walk amount to, who sees applications, and that reviews  *)
(* are listed whole.                                                       *)
(***************************************************************************)
EXTENDS Listing, FiniteSetTheorems, TLAPS

-----------------------------------------------------------------------------
(* Pages *)

\* (total + size - 1) // size pages: there is another one after page p exactly
\* when the pages up to p have fewer than n rows.
LEMMA MorePagesMoreRows ==
    ASSUME NEW n \in Nat, NEW p \in Nat, NEW s \in Nat \ {0}
    PROVE  LET q == (n + s - 1) \div s
           IN p + 1 < (IF q < 1 THEN 1 ELSE q) <=> (p + 1) * s < n
<1> DEFINE m == n + s - 1
           q == m \div s
<1>1. m \in Nat OBVIOUS
<1>2. q \in Nat /\ q * s <= m /\ m < q * s + s
  <2> HIDE DEF m
  <2> QED BY <1>1
<1>3. q * s \in Nat /\ (p + 1) * s \in Nat
  <2> HIDE DEF q
  <2> QED BY <1>2
<1>4. CASE p + 1 < q
  <2>1. (p + 1) * s + s <= q * s
    <3> HIDE DEF q
    <3> QED BY <1>2, <1>4
  <2>2. (p + 1) * s < n
    <3> DEFINE x == q * s
               y == (p + 1) * s
    <3> HIDE DEF q, x, y
    <3>1. x \in Nat /\ y \in Nat /\ y + s <= x /\ x <= n + s - 1
      BY <1>2, <1>3, <2>1 DEF x, y
    <3>2. y < n BY <3>1
    <3> QED BY <3>2 DEF y
  <2> HIDE DEF q
  <2> QED BY <1>2, <1>4, <2>2
<1>5. CASE ~(p + 1 < q)
  <2>1. q * s <= (p + 1) * s
    <3> HIDE DEF q
    <3>1. CASE q = p + 1 BY <3>1, <1>3
    <3>2. CASE q < p + 1
      <4>1. q * s + s <= (p + 1) * s BY <1>2, <3>2
      <4> QED BY <4>1, <1>3
    <3> QED BY <1>2, <1>5, <3>1, <3>2
  <2>2. ~((p + 1) * s < n)
    <3> DEFINE x == q * s
               y == (p + 1) * s
    <3> HIDE DEF q, x, y
    <3>1. x \in Nat /\ y \in Nat /\ x <= y /\ n + s - 1 < x + s
      BY <1>2, <1>3, <2>1 DEF x, y
    <3>2. ~(y < n) BY <3>1
    <3> QED BY <3>2 DEF y
  <2> HIDE DEF q
  <2> QED BY <1>2, <1>5, <2>2
<1> QED BY <1>4, <1>5

\* A page that begins before the last row ends at the last row or is full.
LEMMA PageEnds ==
    ASSUME page \in Nat, size \in Nat \ {0}, NEW n \in Nat,
           page > 0 => page * size < n
    PROVE  page * size + PageLength(n) =
              IF n <= (page + 1) * size THEN n ELSE (page + 1) * size
<1> DEFINE off == page * size
<1>1. (page + 1) * size = off + size /\ off \in Nat OBVIOUS
<1>2. page = 0 => off = 0 OBVIOUS
<1>3. page > 0 => off < n OBVIOUS
<1> HIDE DEF off
<1>4. off + PageLength(n) = IF n <= off + size THEN n ELSE off + size
  BY <1>1, <1>2, <1>3 DEF PageLength, off
<1> QED BY <1>1, <1>4 DEF off

\* What a query matches is finite and can be counted.
LEMMA MatchingFinite ==
    ASSUME TypeOK, NEW q
    PROVE  IsFiniteSet(Matching(q)) /\ CountOf(q) \in Nat
<1>1. /\ IsFiniteSet(ApplicationsOf(q)) /\ IsFiniteSet(EventsOf(q))
      /\ IsFiniteSet({s \in stores : q.kind = "stores"})
  BY ListingAssumption, FS_Subset DEF TypeOK, ApplicationsOf, EventsOf
<1>2. IsFiniteSet(Listed(q)) BY <1>1, FS_Union DEF Listed
<1>3. IsFiniteSet(Matching(q)) BY <1>2, FS_Subset DEF Matching
<1> QED BY <1>3, FS_CardinalityType DEF CountOf

\* A request that is made is one of the five listings.
LEMMA QueryKinds ==
    /\ \A q \in Queries : q # NoQuery
    /\ \A q \in Queries : q.kind \in {"mine", "owner", "event", "stores", "storeEvents"}
    /\ ~Paged(NoQuery)
  BY DEF Queries, NoQuery, Paged

-----------------------------------------------------------------------------
(* The steps of the request *)

\* The invariant holds before the first request.
LEMMA InitEstablishes == Init => ListingInv
<1> SUFFICES ASSUME Init PROVE ListingInv OBVIOUS
<1>1. DOMAIN NoItems = {} BY DEF NoItems
<1>2. IsFiniteSet({}) BY FS_EmptySet
<1>3. TypeOK BY ListingAssumption DEF Init, TypeOK
<1>4. PlacesKnown BY <1>1, <1>2 DEF Init, PlacesKnown
<1>5. RowsOfTheAsker /\ ReviewsStored BY DEF Init, RowsOfTheAsker, ReviewsStored
<1>6. ReviewsWhole BY <1>1 DEF Init, ReviewsWhole
<1>7. WalkCounted /\ UndisturbedWalk
  BY QueryKinds DEF Init, WalkCounted, UndisturbedWalk
<1> QED BY <1>3, <1>4, <1>5, <1>6, <1>7 DEF ListingInv

\* The request itself changes no table, so it does not change what is listed.
LEMMA SameRows ==
    ASSUME UNCHANGED <<tables, query>>
    PROVE  CountOf(query)' = CountOf(query)
  BY DEF tables, CountOf, Matching, Listed, ApplicationsOf, EventsOf, Passes, Paged

\* Every listing begins with a check, a count or its only select.
LEMMA FirstStatements ==
    ASSUME NEW q \in Queries
    PROVE  /\ FirstStatement(q) \in {"count", "findEvent", "select", "getStore"}
           /\ FirstStatement(q) = "count" => q.kind \in {"mine", "stores"}
           /\ FirstStatement(q) = "findEvent" => q.kind = "event"
           /\ FirstStatement(q) = "getStore" => q.kind = "storeEvents"
           /\ FirstStatement(q) = "select" => q.kind = "owner"
  BY QueryKinds DEF FirstStatement

\* A new walk has no page yet.
LEMMA AskKeeps == ASSUME ListingInv, Ask PROVE ListingInv'
<1>1. /\ query' \in Queries /\ size' \in Nat \ {0} /\ page' = 0
      /\ at' = FirstStatement(query') /\ total' = 0 /\ todo' = {}
      /\ items' = NoItems /\ hasNext' = FALSE /\ delivered' = 0 /\ quiet' = TRUE
      /\ UNCHANGED tables
  BY ListingAssumption DEF Ask, Fetch
<1>2. DOMAIN NoItems = {} /\ IsFiniteSet({}) BY FS_EmptySet DEF NoItems
<1> DEFINE a == FirstStatement(query')
<1>3. /\ a \in {"count", "findEvent", "select", "getStore"}
      /\ a = "count" => query'.kind \in {"mine", "stores"}
      /\ a = "findEvent" => query'.kind = "event"
      /\ a = "getStore" => query'.kind = "storeEvents"
      /\ a = "select" => query'.kind = "owner"
  BY <1>1, FirstStatements
<1> HIDE DEF a
<1>4. at' = a BY <1>1 DEF a
<1>5. TypeOK' BY <1>1, <1>3, <1>4, QueryKinds DEF TypeOK, ListingInv, tables
<1>6. PlacesKnown' BY <1>1, <1>2, <1>3, <1>4 DEF PlacesKnown, Paged
<1>7. RowsOfTheAsker' BY <1>3, <1>4 DEF RowsOfTheAsker
<1>8. ReviewsStored' BY <1>1 DEF ReviewsStored, ListingInv, tables
<1>9. ReviewsWhole' BY <1>1, <1>2 DEF ReviewsWhole
<1>s. size' \in Nat BY <1>1
<1>10. 0 * size' = 0
  <2>1. \A n \in Nat : 0 * n = 0 OBVIOUS
  <2> QED BY <1>s, <2>1, Zenon
<1>n. page' = 0 /\ delivered' = 0 BY <1>1
<1>11. WalkCounted' BY <1>3, <1>4, <1>10, <1>n DEF WalkCounted
<1>12. UndisturbedWalk' BY <1>3, <1>4 DEF UndisturbedWalk
<1> QED BY <1>5, <1>6, <1>7, <1>8, <1>9, <1>11, <1>12 DEF ListingInv

\* The next page begins where the last one ended.
LEMMA NextPageKeeps == ASSUME ListingInv, NextPage PROVE ListingInv'
<1>1. /\ at = "answered" /\ hasNext /\ page' = page + 1
      /\ at' = FirstStatement(query) /\ total' = 0 /\ todo' = {}
      /\ items' = NoItems /\ hasNext' = FALSE
      /\ UNCHANGED <<tables, query, size, delivered, quiet>>
  BY DEF NextPage, Fetch
<1>2. DOMAIN NoItems = {} /\ IsFiniteSet({}) BY FS_EmptySet DEF NoItems
<1>t. TypeOK BY DEF ListingInv
<1>q. query \in Queries BY <1>1, <1>t DEF TypeOK
<1> DEFINE a == FirstStatement(query)
<1>3. /\ a \in {"count", "findEvent", "select", "getStore"}
      /\ a = "count" => query.kind \in {"mine", "stores"}
      /\ a = "findEvent" => query.kind = "event"
      /\ a = "getStore" => query.kind = "storeEvents"
      /\ a = "select" => query.kind = "owner"
  BY <1>q, FirstStatements
<1> HIDE DEF a
<1>4. at' = a BY <1>1 DEF a
<1>5. TypeOK'
  <2>1. query # NoQuery BY <1>q, QueryKinds
  <2>2. page + 1 \in Nat BY <1>t DEF TypeOK
  <2>3. at' # "idle" /\ query' = query /\ page' = page + 1 BY <1>1, <1>3, <1>4
  <2>4. at' \in {"count", "findEvent", "select", "getStore"} BY <1>3, <1>4
  <2> QED BY <1>1, <1>q, <1>t, <2>1, <2>2, <2>3, <2>4 DEF TypeOK, tables
<1>6. PlacesKnown' BY <1>1, <1>2, <1>3, <1>4 DEF PlacesKnown, Paged
<1>7. RowsOfTheAsker' BY <1>1, <1>3, <1>4 DEF RowsOfTheAsker
<1>8. ReviewsStored' BY <1>1 DEF ReviewsStored, ListingInv, tables
<1>9. ReviewsWhole' BY <1>1, <1>2 DEF ReviewsWhole
<1>10. ASSUME Paged(query), quiet
       PROVE  delivered = (page + 1) * size /\ (page + 1) * size < CountOf(query)
  <2>1. /\ delivered = IF total <= (page + 1) * size THEN total
                       ELSE (page + 1) * size
        /\ delivered < total
    BY <1>1, <1>10 DEF ListingInv, UndisturbedWalk
  <2>2. total = CountOf(query) BY <1>1, <1>10 DEF ListingInv, WalkCounted
  <2>3. total \in Nat /\ (page + 1) * size \in Nat BY <1>t DEF TypeOK
  <2> QED BY <2>1, <2>2, <2>3
<1>11. CountOf(query)' = CountOf(query) BY <1>1, SameRows
<1>12. WalkCounted' BY <1>1, <1>3, <1>4, <1>10, <1>11 DEF WalkCounted, Paged
<1>13. UndisturbedWalk' BY <1>3, <1>4 DEF UndisturbedWalk
<1> QED BY <1>5, <1>6, <1>7, <1>8, <1>9, <1>12, <1>13 DEF ListingInv

\* A client that leaves takes its walk along.
LEMMA LeaveKeeps == ASSUME ListingInv, Leave PROVE ListingInv'
<1>1. /\ at' = "idle" /\ query' = NoQuery /\ page' = 0 /\ delivered' = 0
      /\ total' = 0 /\ todo' = {} /\ items' = NoItems /\ hasNext' = FALSE
      /\ quiet' = TRUE /\ UNCHANGED <<tables, size>>
  BY DEF Leave
<1>2. DOMAIN NoItems = {} /\ IsFiniteSet({}) BY FS_EmptySet DEF NoItems
<1>3. TypeOK' BY <1>1 DEF ListingInv, TypeOK, tables
<1>4. PlacesKnown' BY <1>1, <1>2 DEF PlacesKnown
<1>5. RowsOfTheAsker' BY <1>1 DEF RowsOfTheAsker
<1>6. ReviewsStored' BY <1>1 DEF ReviewsStored, ListingInv, tables
<1>7. ReviewsWhole' BY <1>1, <1>2 DEF ReviewsWhole
<1>8. WalkCounted' /\ UndisturbedWalk'
  BY <1>1, QueryKinds DEF WalkCounted, UndisturbedWalk, Paged
<1> QED BY <1>3, <1>4, <1>5, <1>6, <1>7, <1>8 DEF ListingInv

\* The checks: who is not the owner does not come to the count.
LEMMA CheckKeeps ==
    ASSUME ListingInv, FindEvent \/ FindStore \/ GetStore
    PROVE  ListingInv'
<1>1. /\ UNCHANGED <<tables, ask, reading, answer, quiet>>
      /\ at \in {"findEvent", "findStore", "getStore"}
      /\ at' \in {"findStore", "count", "refused", "select"}
      /\ at' = "select" => at = "getStore"
      /\ at' = "findStore" => at = "findEvent"
      /\ at' = "count" => /\ at = "findStore"
                          /\ OwnerOf[StoreOf[query.of]] = query.by
  BY DEF FindEvent, FindStore, GetStore, Proceed
<1>2. /\ UNCHANGED <<query, size, page, total, todo, items, hasNext, delivered>>
      /\ UNCHANGED quiet /\ UNCHANGED tables
  BY <1>1 DEF ask, answer
<1>3. TypeOK' BY <1>1, <1>2 DEF ListingInv, TypeOK, tables
<1>4. PlacesKnown' BY <1>1, <1>2 DEF ListingInv, PlacesKnown, Paged
<1>5. RowsOfTheAsker' BY <1>1, <1>2 DEF RowsOfTheAsker
<1>6. ReviewsStored' BY <1>1 DEF ReviewsStored, ListingInv, tables
<1>7. ReviewsWhole' BY <1>2 DEF ListingInv, ReviewsWhole
<1>8. CountOf(query)' = CountOf(query) BY <1>2, SameRows
<1>9. WalkCounted' BY <1>1, <1>2, <1>8 DEF ListingInv, WalkCounted, Paged
<1>10. UndisturbedWalk' BY <1>1 DEF UndisturbedWalk
<1> QED BY <1>3, <1>4, <1>5, <1>6, <1>7, <1>9, <1>10 DEF ListingInv

\* The total is what the query matches at the count.
LEMMA CountKeeps == ASSUME ListingInv, Count PROVE ListingInv'
<1>1. /\ at = "count" /\ at' = "page" /\ total' = CountOf(query)
      /\ UNCHANGED <<query, size, page, todo, items, hasNext, delivered>>
      /\ UNCHANGED quiet /\ UNCHANGED tables
  BY DEF Count, ask
<1>2. CountOf(query) \in Nat BY MatchingFinite DEF ListingInv
<1>3. TypeOK' BY <1>1, <1>2 DEF ListingInv, TypeOK, tables
<1>4. PlacesKnown' BY <1>1 DEF ListingInv, PlacesKnown, Paged
<1>5. RowsOfTheAsker' BY <1>1 DEF ListingInv, RowsOfTheAsker
<1>6. ReviewsStored' BY <1>1 DEF ReviewsStored, ListingInv, tables
<1>7. ReviewsWhole' BY <1>1 DEF ListingInv, ReviewsWhole
<1>8. CountOf(query)' = CountOf(query) BY <1>1, SameRows
<1>9. WalkCounted' BY <1>1, <1>8 DEF ListingInv, WalkCounted, Paged
<1>10. UndisturbedWalk' BY <1>1 DEF UndisturbedWalk
<1> QED BY <1>3, <1>4, <1>5, <1>6, <1>7, <1>9, <1>10 DEF ListingInv

\* The page holds the rows that the total leaves for it, unless a commit came between.
LEMMA PageKeeps == ASSUME ListingInv, Page PROVE ListingInv'
<1>1. /\ at = "page" /\ at' = "details" /\ todo' \in PageOf(query)
      /\ UNCHANGED <<query, size, page, total, items, hasNext, delivered>>
      /\ UNCHANGED quiet /\ UNCHANGED tables
  BY DEF Page, ask
<1>2. /\ IsFiniteSet(todo')
      /\ Cardinality(todo') = PageLength(CountOf(query))
  BY <1>1, MatchingFinite, FS_Subset DEF ListingInv, PageOf, CountOf
<1>3. TypeOK' BY <1>1 DEF ListingInv, TypeOK, tables
<1>4. items = NoItems /\ DOMAIN NoItems = {}
  BY <1>1 DEF ListingInv, PlacesKnown, NoItems
<1>5. IsFiniteSet({}) /\ Cardinality({}) = 0 BY FS_EmptySet
<1>6. PlacesKnown' BY <1>1, <1>2, <1>4, <1>5 DEF ListingInv, PlacesKnown, Paged
<1>7. RowsOfTheAsker' BY <1>1 DEF ListingInv, RowsOfTheAsker
<1>8. ReviewsStored' BY <1>1 DEF ReviewsStored, ListingInv, tables
<1>9. ReviewsWhole' BY <1>1 DEF ListingInv, ReviewsWhole
<1>10. CountOf(query)' = CountOf(query) BY <1>1, SameRows
<1>11. ASSUME Paged(query), quiet
       PROVE  /\ total = CountOf(query) /\ delivered = page * size
              /\ page > 0 => page * size < total
              /\ Cardinality(DOMAIN items) + Cardinality(todo') = PageLength(total)
  <2>1. /\ total = CountOf(query) /\ delivered = page * size
        /\ page > 0 => page * size < total
    BY <1>1, <1>11 DEF ListingInv, WalkCounted
  <2>2. PageLength(total) \in Nat
    BY DEF ListingInv, TypeOK, PageLength
  <2> QED BY <1>2, <1>4, <1>5, <2>1, <2>2
<1>12. PageLength(total)' = PageLength(total) BY <1>1 DEF PageLength
<1>13. WalkCounted' BY <1>1, <1>10, <1>11, <1>12 DEF WalkCounted, Paged
<1>14. UndisturbedWalk' BY <1>1 DEF UndisturbedWalk
<1> QED BY <1>3, <1>6, <1>7, <1>8, <1>9, <1>13, <1>14 DEF ListingInv

\* A row becomes an item: what it was counted as in todo it counts in items.
LEMMA AddItemKeeps ==
    ASSUME ListingInv, NEW r \in todo, NEW details, AddItem(r, details),
           at \in {"details", "images"},
           query.kind = "mine" /\ "message" \in details => "images" \in details
    PROVE  ListingInv'
<1>1. /\ at' = "details" /\ todo' = todo \ {r}
      /\ items' = [i \in DOMAIN items \union {r} |->
                      IF i = r THEN details ELSE items[i]]
      /\ UNCHANGED <<query, size, page, total, hasNext, delivered>>
      /\ UNCHANGED quiet /\ UNCHANGED tables
  BY DEF AddItem, ask
<1>2. /\ IsFiniteSet(todo) /\ IsFiniteSet(DOMAIN items)
      /\ todo \intersect DOMAIN items = {}
  BY DEF ListingInv, PlacesKnown
<1>3. DOMAIN items' = DOMAIN items \union {r} BY <1>1
<1>4. /\ IsFiniteSet(todo') /\ Cardinality(todo') = Cardinality(todo) - 1
      /\ IsFiniteSet(DOMAIN items')
      /\ Cardinality(DOMAIN items') = Cardinality(DOMAIN items) + 1
      /\ Cardinality(todo) \in Nat /\ Cardinality(DOMAIN items) \in Nat
  BY <1>1, <1>2, <1>3, FS_AddElement, FS_RemoveElement, FS_CardinalityType
<1>5. TypeOK' BY <1>1 DEF ListingInv, TypeOK, tables
<1>6. PlacesKnown' BY <1>1, <1>2, <1>3, <1>4 DEF ListingInv, PlacesKnown, Paged
<1>7. RowsOfTheAsker' BY <1>1 DEF ListingInv, RowsOfTheAsker
<1>8. ReviewsStored' BY <1>1 DEF ReviewsStored, ListingInv, tables
<1>9. ReviewsWhole' BY <1>1, <1>3 DEF ListingInv, ReviewsWhole
<1>10. CountOf(query)' = CountOf(query) BY <1>1, SameRows
<1>11. PageLength(total)' = PageLength(total) BY <1>1 DEF PageLength
<1>12. ASSUME Paged(query), quiet
       PROVE  /\ total = CountOf(query) /\ delivered = page * size
              /\ page > 0 => page * size < total
              /\ Cardinality(DOMAIN items) + Cardinality(todo) = PageLength(total)
  BY <1>12 DEF ListingInv, WalkCounted
<1>13. Cardinality(DOMAIN items') + Cardinality(todo')
          = Cardinality(DOMAIN items) + Cardinality(todo)
  BY <1>4
<1>14. WalkCounted' BY <1>1, <1>10, <1>11, <1>12, <1>13 DEF WalkCounted, Paged
<1>15. UndisturbedWalk' BY <1>1 DEF UndisturbedWalk
<1> QED BY <1>5, <1>6, <1>7, <1>8, <1>9, <1>14, <1>15 DEF ListingInv

\* The statements of find_submission, find_images and the events of a store add one item.
LEMMA DetailsKeep ==
    ASSUME ListingInv, NEW r \in todo,
           FindSubmission(r) \/ FindImages(r) \/ FindEvents(r)
    PROVE  ListingInv'
<1>1. CASE FindSubmission(r)
  <2>1. at = "details" BY <1>1 DEF FindSubmission
  <2>2. ASSUME query.kind = "event",
               AddItem(r, IF r \in submissions THEN {"message"} ELSE {})
        PROVE  ListingInv'
    BY <2>1, <2>2, AddItemKeeps
  <2>3. ASSUME AddItem(r, {}) PROVE ListingInv'
    BY <2>1, <2>3, AddItemKeeps
  <2>4. ASSUME query.kind = "mine", r \in submissions, at' = "images",
               reading' = r, UNCHANGED <<tables, ask, answer, quiet>>
        PROVE  ListingInv'
    <3>1. /\ UNCHANGED <<query, size, page, total, todo, items, hasNext, delivered>>
          /\ UNCHANGED quiet /\ UNCHANGED tables
      BY <2>4 DEF ask, answer
    <3>2. TypeOK' BY <2>1, <2>4, <3>1 DEF ListingInv, TypeOK, tables
    <3>3. PlacesKnown'
      BY <2>1, <2>4, <3>1 DEF ListingInv, PlacesKnown, Paged, tables
    <3>4. RowsOfTheAsker' BY <2>1, <2>4, <3>1 DEF ListingInv, RowsOfTheAsker
    <3>5. ReviewsStored' BY <3>1 DEF ReviewsStored, ListingInv, tables
    <3>6. ReviewsWhole' BY <3>1 DEF ListingInv, ReviewsWhole
    <3>7. CountOf(query)' = CountOf(query) BY <3>1, SameRows
    <3>8. PageLength(total)' = PageLength(total) BY <3>1 DEF PageLength
    <3>9. WalkCounted'
      BY <2>1, <2>4, <3>1, <3>7, <3>8 DEF ListingInv, WalkCounted, Paged
    <3>10. UndisturbedWalk' BY <2>4 DEF UndisturbedWalk
    <3> QED BY <3>2, <3>3, <3>4, <3>5, <3>6, <3>9, <3>10 DEF ListingInv
  <2> QED BY <1>1, <2>2, <2>3, <2>4 DEF FindSubmission
<1>2. CASE FindImages(r)
  <2>1. at = "images" /\ r \in images
    BY <1>2 DEF FindImages, ListingInv, PlacesKnown, ReviewsStored
  <2>2. AddItem(r, {"message"} \union {"images"}) BY <1>2, <2>1 DEF FindImages
  <2> QED BY <2>1, <2>2, AddItemKeeps
<1>3. CASE FindEvents(r)
  <2>1. at = "details" /\ query.kind # "mine" BY <1>3 DEF FindEvents
  <2>2. PICK details : AddItem(r, details) BY <1>3 DEF FindEvents
  <2> QED BY <2>1, <2>2, AddItemKeeps
<1> QED BY <1>1, <1>2, <1>3

\* The listings without pages deliver in one statement all they match.
LEMMA SelectKeeps == ASSUME ListingInv, Select PROVE ListingInv'
<1>1. /\ at = "select" /\ at' = "answered"
      /\ items' = [r \in Matching(query) |-> {}]
      /\ total' = Cardinality(Matching(query)) /\ delivered' = total'
      /\ UNCHANGED <<query, size, page, todo, hasNext>>
      /\ UNCHANGED quiet /\ UNCHANGED tables
  BY DEF Select, ask
<1>2. ~Paged(query) /\ query.kind # "event"
  BY <1>1 DEF ListingInv, PlacesKnown, Paged
<1>3. IsFiniteSet(Matching(query)) /\ total' \in Nat
  BY <1>1, MatchingFinite DEF ListingInv, CountOf
<1>4. DOMAIN items' = Matching(query) BY <1>1
<1>5. TypeOK' BY <1>1, <1>3 DEF ListingInv, TypeOK, tables
<1>6. todo = {} BY <1>1 DEF ListingInv, PlacesKnown
<1>7. PlacesKnown' BY <1>1, <1>3, <1>4, <1>6 DEF ListingInv, PlacesKnown, Paged
<1>8. RowsOfTheAsker' BY <1>1, <1>2 DEF RowsOfTheAsker
<1>9. ReviewsStored' BY <1>1 DEF ReviewsStored, ListingInv, tables
<1>10. ReviewsWhole' BY <1>1, <1>4 DEF ReviewsWhole
<1>11. WalkCounted' /\ UndisturbedWalk'
  BY <1>1, <1>2 DEF WalkCounted, UndisturbedWalk, Paged
<1> QED BY <1>5, <1>7, <1>8, <1>9, <1>10, <1>11 DEF ListingInv

\* An answer adds its items to what the walk has delivered.
LEMMA AnswerKeeps == ASSUME ListingInv, Answer PROVE ListingInv'
<1>1. /\ at = "details" /\ at' = "answered" /\ todo = {}
      /\ hasNext' = More(TotalPages)
      /\ delivered' = delivered + Cardinality(DOMAIN items)
      /\ UNCHANGED <<query, size, page, total, todo, items>>
      /\ UNCHANGED quiet /\ UNCHANGED tables
  BY DEF Answer, ask
<1>2. /\ page \in Nat /\ size \in Nat \ {0} /\ total \in Nat
      /\ delivered \in Nat /\ Cardinality(DOMAIN items) \in Nat
  BY FS_CardinalityType DEF ListingInv, TypeOK, PlacesKnown
<1>3. hasNext' = (page + 1 < TotalPages) BY <1>1 DEF More
<1>4. hasNext' <=> (page + 1) * size < total
  BY <1>2, <1>3, MorePagesMoreRows DEF TotalPages
<1>5. hasNext' \in BOOLEAN BY <1>3
<1>6. delivered' \in Nat BY <1>1, <1>2
<1>7. TypeOK' BY <1>1, <1>5, <1>6 DEF ListingInv, TypeOK, tables
<1>8. PlacesKnown' BY <1>1 DEF ListingInv, PlacesKnown
<1>9. RowsOfTheAsker' BY <1>1 DEF ListingInv, RowsOfTheAsker
<1>10. ReviewsStored' BY <1>1 DEF ReviewsStored, ListingInv, tables
<1>11. ReviewsWhole' BY <1>1 DEF ListingInv, ReviewsWhole
<1>12. CountOf(query)' = CountOf(query) BY <1>1, SameRows
<1>13. ASSUME Paged(query), quiet
       PROVE  /\ total = CountOf(query) /\ delivered = page * size
              /\ page > 0 => page * size < total
              /\ Cardinality(DOMAIN items) + Cardinality(todo) = PageLength(total)
  BY <1>1, <1>13 DEF ListingInv, WalkCounted
<1>14. WalkCounted' BY <1>1, <1>12, <1>13 DEF WalkCounted, Paged
<1>15. ASSUME Paged(query), quiet
       PROVE  delivered' = IF total <= (page + 1) * size THEN total
                           ELSE (page + 1) * size
  <2>1. Cardinality(todo) = 0 BY <1>1, FS_EmptySet
  <2>2. Cardinality(DOMAIN items) = PageLength(total)
    BY <1>2, <1>13, <1>15, <2>1
  <2>3. delivered' = page * size + PageLength(total)
    BY <1>1, <1>13, <1>15, <2>2
  <2> QED BY <1>2, <1>13, <1>15, <2>3, PageEnds
<1>16. (page + 1) * size \in Nat BY <1>2
<1>17. UndisturbedWalk'
  <2> SUFFICES ASSUME Paged(query), quiet
               PROVE  /\ delivered' = IF total <= (page + 1) * size THEN total
                                       ELSE (page + 1) * size
                      /\ hasNext' <=> delivered' < total
    BY <1>1 DEF UndisturbedWalk, Paged
  <2>1. CASE total <= (page + 1) * size BY <1>2, <1>4, <1>15, <1>16, <2>1
  <2>2. CASE ~(total <= (page + 1) * size) BY <1>2, <1>4, <1>15, <1>16, <2>2
  <2> QED BY <2>1, <2>2
<1> QED BY <1>7, <1>8, <1>9, <1>10, <1>11, <1>14, <1>17 DEF ListingInv

-----------------------------------------------------------------------------
(* The commits of others *)

\* All that the request depends on: the rows stay rows, reviews stay whole.
LEMMA CommitEffect ==
    ASSUME ListingInv, Commit
    PROVE  /\ Watch
           /\ stores' \subseteq Stores /\ events' \subseteq Events
           /\ applications' \subseteq Applications
           /\ submissions \subseteq submissions' /\ submissions' \subseteq images'
<1>0. /\ stores \subseteq Stores /\ events \subseteq Events
      /\ applications \subseteq Applications /\ submissions \subseteq images
  BY DEF ListingInv, TypeOK, ReviewsStored
<1>1. ASSUME NEW s \in Stores, CreateStore(s) \/ DeleteStore(s)
      PROVE  /\ Watch /\ stores' \subseteq Stores
             /\ UNCHANGED <<events, applications, submissions, images>>
  BY <1>0, <1>1 DEF CreateStore, DeleteStore
<1>2. ASSUME NEW e \in Events, CreateEvent(e) \/ DeleteEvent(e)
      PROVE  /\ Watch /\ events' \subseteq Events
             /\ UNCHANGED <<stores, applications, submissions, images>>
  BY <1>0, <1>2 DEF CreateEvent, DeleteEvent
<1>3. ASSUME NEW a \in Applications, Apply(a) \/ Cancel(a)
      PROVE  /\ Watch /\ applications' \subseteq Applications
             /\ UNCHANGED <<stores, events, submissions, images>>
  BY <1>0, <1>3 DEF Apply, Cancel
<1>4. ASSUME NEW a \in Applications,
             FlushReview(a) \/ CommitReview(a) \/ AbandonReview(a)
      PROVE  /\ Watch /\ UNCHANGED <<stores, events, applications>>
             /\ submissions \subseteq submissions' /\ submissions' \subseteq images'
  BY <1>0, <1>4 DEF FlushReview, CommitReview, AbandonReview
<1> QED BY <1>0, <1>1, <1>2, <1>3, <1>4 DEF Commit

\* A commit of another request ends the quiet of a walk and tears no review.
LEMMA CommitKeeps == ASSUME ListingInv, Commit PROVE ListingInv'
<1>1. /\ UNCHANGED <<query, size, page, at, reading>>
      /\ UNCHANGED <<total, todo, items, hasNext, delivered>>
      /\ quiet' \in BOOLEAN
      /\ quiet' => quiet /\ Matching(query)' = Matching(query)
  BY CommitEffect DEF Watch, ask, answer, ListingInv, TypeOK
<1>2. /\ stores' \subseteq Stores /\ events' \subseteq Events
      /\ applications' \subseteq Applications
      /\ submissions \subseteq submissions' /\ submissions' \subseteq images'
  BY CommitEffect
<1>3. TypeOK' BY <1>1, <1>2 DEF ListingInv, TypeOK
<1>4. PlacesKnown' BY <1>1, <1>2 DEF ListingInv, PlacesKnown, Paged
<1>5. RowsOfTheAsker' BY <1>1 DEF ListingInv, RowsOfTheAsker
<1>6. ReviewsStored' BY <1>2 DEF ReviewsStored
<1>7. ReviewsWhole' BY <1>1 DEF ListingInv, ReviewsWhole
<1>8. quiet' => CountOf(query)' = CountOf(query) BY <1>1 DEF CountOf
<1>9. PageLength(total)' = PageLength(total) BY <1>1 DEF PageLength
<1>10. WalkCounted' BY <1>1, <1>8, <1>9 DEF ListingInv, WalkCounted, Paged
<1>11. UndisturbedWalk' BY <1>1 DEF ListingInv, UndisturbedWalk, Paged
<1> QED BY <1>3, <1>4, <1>5, <1>6, <1>7, <1>10, <1>11 DEF ListingInv

\* A step that changes nothing keeps the invariant.
LEMMA RestKeeps == ASSUME ListingInv, UNCHANGED vars PROVE ListingInv'
<1>1. /\ UNCHANGED <<query, size, page, at, reading, quiet>> /\ UNCHANGED tables
      /\ UNCHANGED <<total, todo, items, hasNext, delivered>>
      /\ UNCHANGED <<stores, events, applications, submissions, images>>
  BY DEF vars, ask, answer, tables
<1>2. TypeOK' BY <1>1 DEF ListingInv, TypeOK
<1>3. PlacesKnown' BY <1>1 DEF ListingInv, PlacesKnown, Paged
<1>4. RowsOfTheAsker' BY <1>1 DEF ListingInv, RowsOfTheAsker
<1>5. ReviewsStored' BY <1>1 DEF ListingInv, ReviewsStored
<1>6. ReviewsWhole' BY <1>1 DEF ListingInv, ReviewsWhole
<1>7. CountOf(query)' = CountOf(query) BY <1>1, SameRows
<1>8. PageLength(total)' = PageLength(total) BY <1>1 DEF PageLength
<1>9. WalkCounted' BY <1>1, <1>7, <1>8 DEF ListingInv, WalkCounted, Paged
<1>10. UndisturbedWalk' BY <1>1 DEF ListingInv, UndisturbedWalk, Paged
<1> QED BY <1>2, <1>3, <1>4, <1>5, <1>6, <1>9, <1>10 DEF ListingInv

-----------------------------------------------------------------------------
(* Theorems *)

\* The inductive invariant: it holds before and after every statement of every
\* listing, whatever other requests commit in between.
THEOREM Invariance == Spec => []ListingInv
<1>1. ListingInv /\ [Next]_vars => ListingInv'
  <2> SUFFICES ASSUME ListingInv, [Next]_vars PROVE ListingInv' OBVIOUS
  <2>1. CASE Request
    BY <2>1, AskKeeps, NextPageKeeps, LeaveKeeps, CheckKeeps, CountKeeps,
       PageKeeps, SelectKeeps, AnswerKeeps, DetailsKeep DEF Request
  <2>2. CASE Commit BY <2>2, CommitKeeps
  <2>3. CASE UNCHANGED vars BY <2>3, RestKeeps
  <2> QED BY <2>1, <2>2, <2>3 DEF Next
<1> QED BY InitEstablishes, <1>1, PTL DEF Spec

\* The count, the offset and the arithmetic of total_pages fit together for any
\* number of rows and any page size: while nothing changes, a walk over the
\* pages is full pages and a remainder, as many rows as were counted.
THEOREM WalksAddUp == Spec => []UndisturbedWalk
<1>1. ListingInv => UndisturbedWalk BY DEF ListingInv
<1> QED BY <1>1, Invariance, PTL

\* list_my_applications shows no review without the images that save_review
\* commits with it.
THEOREM ReviewsListedWhole == Spec => []ReviewsWhole
<1>1. ListingInv => ReviewsWhole BY DEF ListingInv
<1> QED BY <1>1, Invariance, PTL

\* list_event_applications shows applications to the owner of the store only,
\* whatever is deleted after its checks.
THEOREM OwnersOnly == Spec => []RowsOfTheAsker
<1>1. ListingInv => RowsOfTheAsker BY DEF ListingInv
<1> QED BY <1>1, Invariance, PTL
=============================================================================
