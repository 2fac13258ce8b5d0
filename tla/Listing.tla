------------------------------ MODULE Listing ------------------------------
(***************************************************************************)
(* The listings: my applications, the applications of an event, the stores,*)
(* the events of an owner and of a store.  A paged one is a count, a page  *)
(* without an order, and further statements for every row of the page.     *)
(* Each statement sees what is committed when it starts (READ COMMITTED of *)
(* PostgreSQL, and SQLite where sqlite3 opens no transaction for reading), *)
(* and other requests commit in between.  A client reads the pages one     *)
(* after the other while the answers say hasNext.                          *)
(***************************************************************************)
EXTENDS Naturals, FiniteSets

CONSTANTS
    Stores, Events, Applications,       \* the rows there may be, by their ids
    Users,
    OwnerOf, StoreOf, EventOf, ReviewerOf,  \* their foreign keys
    CategoryOf, StatusOf,               \* of stores and of applications
    Sizes,                              \* the page sizes clients ask for
    ForeignKeys                         \* whether the database enforces them

Statuses == {"PENDING", "APPROVED", "REJECTED"}

ASSUME ListingAssumption ==
    /\ OwnerOf \in [Stores -> Users]
    /\ StoreOf \in [Events -> Stores]
    /\ EventOf \in [Applications -> Events]
    /\ ReviewerOf \in [Applications -> Users]
    /\ StatusOf \in [Applications -> Statuses]
    /\ DOMAIN CategoryOf = Stores
    /\ IsFiniteSet(Applications) /\ IsFiniteSet(Stores) /\ IsFiniteSet(Events)
    /\ Sizes \subseteq Nat \ {0}
    /\ ForeignKeys \in BOOLEAN

VARIABLES
    stores, events, applications,   \* the committed rows of these tables
    submissions,    \* applications whose row of review_submissions is committed
    images,         \* those whose rows of review_images are
    flushed,        \* reviews inserted by a transaction that is still open
    gone            \* ids that were deleted: an id is never used again

tables == <<stores, events, applications, submissions, images, flushed, gone>>

VARIABLES
    query,      \* what the client lists
    size,       \* rows per page
    page,       \* the page it asks for, from 0
    at,         \* the statement its request makes next
    reading,    \* the row whose images that is for
    total,      \* what the count said
    todo,       \* rows of the page that were not looked into yet
    items,      \* the items made of the others: row -> details
    hasNext,    \* whether the answer announces another page
    delivered,  \* the rows on the pages answered so far
    quiet       \* no commit touched what is listed since the first page

ask    == <<query, size, page>>
answer == <<total, todo, items, hasNext, delivered>>
vars   == <<tables, ask, at, reading, answer, quiet>>

-----------------------------------------------------------------------------
(* Queries *)

Any == "any"

NoRow   == "none"
NoQuery == [kind |-> "none", filter |-> Any]

\* of: whose or which; by: who asks; filter: a status or a category.
Queries ==
    [kind : {"mine", "owner"}, of : Users, filter : {Any}]
        \union
    [kind : {"event"}, of : Events, by : Users, filter : Statuses \union {Any}]
        \union
    [kind : {"stores"}, filter : {CategoryOf[s] : s \in Stores} \union {Any}]
        \union
    [kind : {"storeEvents"}, of : Stores, filter : {Any}]

Paged(q) == q.kind \in {"mine", "event", "stores"}

ApplicationsOf(q) ==
    {a \in applications : \/ q.kind = "mine" /\ ReviewerOf[a] = q.of
                          \/ q.kind = "event" /\ EventOf[a] = q.of}

\* The inner join drops an event whose store is missing.
EventsOf(q) ==
    {e \in events : \/ /\ q.kind = "owner" /\ StoreOf[e] \in stores
                       /\ OwnerOf[StoreOf[e]] = q.of
                    \/ q.kind = "storeEvents" /\ StoreOf[e] = q.of}

\* What is listed, without its filter and its pages.
Listed(q) ==
    ApplicationsOf(q) \union EventsOf(q) \union {s \in stores : q.kind = "stores"}

Passes(q, r) ==
    \/ q.filter = Any
    \/ q.kind = "event" /\ StatusOf[r] = q.filter
    \/ q.kind = "stores" /\ CategoryOf[r] = q.filter

Matching(q) == {r \in Listed(q) : Passes(q, r)}

\* Faulty variant: the filter is added after the count was built.
CountUnfiltered(q) == Cardinality(Listed(q))

CountOf(q) == Cardinality(Matching(q))

\* OFFSET page * size LIMIT size: so many rows; which ones it does not say.
PageLength(n) ==
    LET offset == page * size
    IN IF n <= offset THEN 0
       ELSE IF n <= offset + size THEN n - offset ELSE size

PageOf(q) == {p \in SUBSET Matching(q) :
                 Cardinality(p) = PageLength(Cardinality(Matching(q)))}

-----------------------------------------------------------------------------
(* The client and its request *)

FirstStatement(q) ==
    CASE q.kind \in {"mine", "stores"} -> "count"
      [] q.kind = "event"              -> "findEvent"
      [] q.kind = "owner"              -> "select"
      [] q.kind = "storeEvents"        -> "getStore"

NoItems == [r \in {} |-> {}]

Fetch(q, p) ==
    /\ page' = p
    /\ at' = FirstStatement(q)
    /\ total' = 0 /\ todo' = {} /\ items' = NoItems /\ hasNext' = FALSE
    /\ UNCHANGED <<tables, reading>>

Ask ==
    /\ at = "idle"
    /\ query' \in Queries
    /\ size' \in Sizes
    /\ Fetch(query', 0)
    /\ delivered' = 0
    /\ quiet' = TRUE

NextPage ==
    /\ at = "answered" /\ hasNext
    /\ Fetch(query, page + 1)
    /\ UNCHANGED <<query, size, delivered, quiet>>

\* The client has seen enough, or lost its connection.
Leave ==
    /\ at # "idle"
    /\ at' = "idle" /\ query' = NoQuery /\ page' = 0 /\ delivered' = 0
    /\ total' = 0 /\ todo' = {} /\ items' = NoItems /\ hasNext' = FALSE
    /\ reading' = NoRow /\ quiet' = TRUE
    /\ UNCHANGED <<tables, size>>

Proceed(from, to) ==
    /\ at = from
    /\ at' = to
    /\ UNCHANGED <<tables, ask, reading, answer, quiet>>

\* list_event_applications: get_event, or a 404.
FindEvent ==
    Proceed("findEvent", IF query.of \in events THEN "findStore" ELSE "refused")

\* Faulty variant: any user reads the applications of any event.
AnyStore ==
    Proceed("findStore",
            IF StoreOf[query.of] \in stores THEN "count" ELSE "refused")

\* find_store_by_id, and a 403 unless the store is there and the asker owns it.
FindStore ==
    Proceed("findStore",
            IF StoreOf[query.of] \in stores /\ OwnerOf[StoreOf[query.of]] = query.by
            THEN "count" ELSE "refused")

\* list_store_events: get_store, or a 404.
GetStore ==
    Proceed("getStore", IF query.of \in stores THEN "select" ELSE "refused")

Count ==
    /\ at = "count"
    /\ total' = CountOf(query)
    /\ at' = "page"
    /\ UNCHANGED <<tables, ask, reading, todo, items, hasNext, delivered, quiet>>

Page ==
    /\ at = "page"
    /\ todo' \in PageOf(query)
    /\ at' = "details"
    /\ UNCHANGED <<tables, ask, reading, total, items, hasNext, delivered, quiet>>

\* The events of an owner or a store: one statement, no pages, no details.
Select ==
    /\ at = "select"
    /\ items' = [r \in Matching(query) |-> {}]
    /\ total' = Cardinality(Matching(query))
    /\ delivered' = total'
    /\ at' = "answered"
    /\ UNCHANGED <<tables, ask, reading, todo, hasNext, quiet>>

AddItem(r, details) ==
    /\ todo' = todo \ {r}
    /\ items' = [i \in DOMAIN items \union {r} |->
                    IF i = r THEN details ELSE items[i]]
    /\ at' = "details"
    /\ reading' = NoRow
    /\ UNCHANGED <<tables, ask, total, hasNext, delivered, quiet>>

\* find_submission_by_application_id: an item of an event's listing says only
\* whether there is one (its reviewer is never deleted); mine reads on.
FindSubmission(r) ==
    /\ at = "details" /\ r \in todo
    /\ \/ query.kind = "event"
          /\ AddItem(r, IF r \in submissions THEN {"message"} ELSE {})
       \/ query.kind = "mine" /\ r \notin submissions /\ AddItem(r, {})
       \/ /\ query.kind = "mine" /\ r \in submissions
          /\ at' = "images" /\ reading' = r
          /\ UNCHANGED <<tables, ask, answer, quiet>>

\* find_images_by_submission_id
FindImages(r) ==
    /\ at = "images" /\ r = reading
    /\ AddItem(r, {"message"} \union (IF r \in images THEN {"images"} ELSE {}))

\* find_events_by_store_id
FindEvents(r) ==
    /\ at = "details" /\ r \in todo /\ query.kind = "stores"
    /\ AddItem(r, {e \in events : StoreOf[e] = r})

\* (page + 1) < total_pages
More(pages) == page + 1 < pages

TotalPages ==
    LET pages == (total + size - 1) \div size
    IN IF pages < 1 THEN 1 ELSE pages

Answer ==
    /\ at = "details" /\ todo = {}
    /\ hasNext' = More(TotalPages)
    /\ delivered' = delivered + Cardinality(DOMAIN items)
    /\ at' = "answered"
    /\ UNCHANGED <<tables, ask, reading, total, todo, items, quiet>>

-----------------------------------------------------------------------------
(* What other requests commit meanwhile *)

Watch == /\ UNCHANGED <<ask, at, reading, answer>>
         /\ quiet' = (quiet /\ Matching(query)' = Matching(query))

CreateStore(s) ==
    /\ s \notin stores \union gone
    /\ stores' = stores \union {s}
    /\ UNCHANGED <<events, applications, submissions, images, flushed, gone>>
    /\ Watch

DeleteStore(s) ==
    /\ s \in stores
    /\ ForeignKeys => \A e \in events : StoreOf[e] # s
    /\ stores' = stores \ {s}
    /\ gone' = gone \union {s}
    /\ UNCHANGED <<events, applications, submissions, images, flushed>>
    /\ Watch

CreateEvent(e) ==
    /\ e \notin events \union gone
    /\ ForeignKeys => StoreOf[e] \in stores
    /\ events' = events \union {e}
    /\ UNCHANGED <<stores, applications, submissions, images, flushed, gone>>
    /\ Watch

DeleteEvent(e) ==
    /\ e \in events
    /\ ForeignKeys => \A a \in applications : EventOf[a] # e
    /\ events' = events \ {e}
    /\ gone' = gone \union {e}
    /\ UNCHANGED <<stores, applications, submissions, images, flushed>>
    /\ Watch

Apply(a) ==
    /\ a \notin applications \union gone
    /\ StatusOf[a] = "APPROVED"
    /\ ForeignKeys => EventOf[a] \in events
    /\ \A b \in applications : <<EventOf[b], ReviewerOf[b]>> # <<EventOf[a], ReviewerOf[a]>>
    /\ applications' = applications \union {a}
    /\ UNCHANGED <<stores, events, submissions, images, flushed, gone>>
    /\ Watch

\* An application that an open transaction refers to is locked.
Cancel(a) ==
    /\ a \in applications
    /\ StatusOf[a] = "PENDING"
    /\ ForeignKeys => a \notin submissions \union flushed
    /\ applications' = applications \ {a}
    /\ gone' = gone \union {a}
    /\ UNCHANGED <<stores, events, submissions, images, flushed>>
    /\ Watch

\* Faulty variant: save_review commits the submission before its images.
CommitSubmission(a) ==
    /\ a \in applications \ (submissions \union flushed)
    /\ flushed' = flushed \union {a}
    /\ submissions' = submissions \union {a}
    /\ UNCHANGED <<stores, events, applications, images, gone>>
    /\ Watch

\* save_review, to its flush: the submission is sent, not committed.
FlushReview(a) ==
    /\ a \in applications \ (submissions \union flushed)
    /\ flushed' = flushed \union {a}
    /\ UNCHANGED <<stores, events, applications, submissions, images, gone>>
    /\ Watch

\* Its commit, with the images that were added.
CommitReview(a) ==
    /\ a \in flushed
    /\ flushed' = flushed \ {a}
    /\ submissions' = submissions \union {a}
    /\ images' = images \union {a}
    /\ UNCHANGED <<stores, events, applications, gone>>
    /\ Watch

\* Anything raised before it: the session is rolled back when it is closed.
AbandonReview(a) ==
    /\ a \in flushed
    /\ flushed' = flushed \ {a}
    /\ UNCHANGED <<stores, events, applications, submissions, images, gone>>
    /\ Watch

-----------------------------------------------------------------------------
\* A database that an earlier run left: some rows refer to rows that exist.
Init ==
    /\ stores \in SUBSET Stores
    /\ events \in SUBSET {e \in Events : StoreOf[e] \in stores}
    /\ applications \in SUBSET {a \in Applications : EventOf[a] \in events}
    /\ \A a, b \in applications :
          EventOf[a] = EventOf[b] /\ ReviewerOf[a] = ReviewerOf[b] => a = b
    /\ submissions = {} /\ images = {} /\ flushed = {} /\ gone = {}
    /\ query = NoQuery /\ size \in Sizes /\ page = 0
    /\ at = "idle" /\ reading = NoRow
    /\ total = 0 /\ todo = {} /\ items = NoItems /\ hasNext = FALSE
    /\ delivered = 0 /\ quiet = TRUE

Request ==
    \/ Ask \/ NextPage \/ Leave
    \/ FindEvent \/ FindStore \/ GetStore \/ Count \/ Page \/ Select \/ Answer
    \/ \E r \in todo : FindSubmission(r) \/ FindImages(r) \/ FindEvents(r)

Commit ==
    \/ \E s \in Stores : CreateStore(s) \/ DeleteStore(s)
    \/ \E e \in Events : CreateEvent(e) \/ DeleteEvent(e)
    \/ \E a \in Applications :
          \/ Apply(a) \/ Cancel(a)
          \/ FlushReview(a) \/ CommitReview(a) \/ AbandonReview(a)

Next == Request \/ Commit

Spec == Init /\ [][Next]_vars

-----------------------------------------------------------------------------
(* Properties *)

\* What the pages of a walk amount to while nothing that is listed changes:
\* together they have as many rows as the count says, all but the last are
\* full, and hasNext tells which one is the last.  (Which rows they are is
\* left to the database: without an order one may come twice and another not
\* at all.)
UndisturbedWalk ==
    at = "answered" /\ Paged(query) /\ quiet =>
        /\ delivered = IF total <= (page + 1) * size THEN total
                        ELSE (page + 1) * size
        /\ hasNext <=> delivered < total

\* A review that another request is submitting is listed with its images or
\* not at all, at whatever moment its submission and its images are read.
ReviewsWhole ==
    \A r \in DOMAIN items :
        query.kind = "mine" /\ "message" \in items[r] => "images" \in items[r]

-----------------------------------------------------------------------------
(* The inductive invariant *)

TypeOK ==
    /\ stores \subseteq Stores /\ events \subseteq Events
    /\ applications \subseteq Applications
    /\ query \in Queries \union {NoQuery}
    /\ at = "idle" <=> query = NoQuery
    /\ size \in Nat \ {0} /\ page \in Nat
    /\ at \in {"idle", "findEvent", "findStore", "getStore", "refused", "count",
               "page", "details", "images", "select", "answered"}
    /\ total \in Nat /\ delivered \in Nat
    /\ hasNext \in BOOLEAN /\ quiet \in BOOLEAN

\* Rows of applications reach only their reviewer, or the owner of the store
\* of their event.
RowsOfTheAsker ==
    at \in {"count", "page", "details", "images", "answered"}
        /\ query.kind = "event"
    => OwnerOf[StoreOf[query.of]] = query.by

\* A committed review has its images.
ReviewsStored == submissions \subseteq images

\* How far an undisturbed walk has come before each statement.
WalkCounted ==
    Paged(query) /\ quiet =>
        /\ at \in {"findEvent", "findStore", "count", "page", "details", "images"}
           => delivered = page * size
        /\ at \in {"page", "details", "images", "answered"}
           => total = CountOf(query)
        /\ at \in {"findEvent", "findStore", "count"} /\ page > 0
           => page * size < CountOf(query)
        /\ at \in {"page", "details", "images"} /\ page > 0
           => page * size < total
        /\ at \in {"details", "images"} =>
              Cardinality(DOMAIN items) + Cardinality(todo) = PageLength(total)

PlacesKnown ==
    /\ at \in {"findEvent", "findStore"} => query.kind = "event"
    /\ at \in {"getStore"} => query.kind = "storeEvents"
    /\ at \in {"count", "page", "details", "images"} => Paged(query)
    /\ at \in {"findEvent", "findStore", "count", "page"} => items = NoItems
    /\ at \notin {"details", "images"} => todo = {}
    /\ at = "select" => ~Paged(query)
    /\ at = "images" => /\ reading \in todo \intersect submissions
                        /\ query.kind = "mine"
    /\ todo \intersect DOMAIN items = {}
    /\ IsFiniteSet(todo) /\ IsFiniteSet(DOMAIN items)

ListingInv ==
    /\ TypeOK
    /\ PlacesKnown
    /\ RowsOfTheAsker
    /\ ReviewsStored
    /\ ReviewsWhole
    /\ WalkCounted
    /\ UndisturbedWalk
=============================================================================
