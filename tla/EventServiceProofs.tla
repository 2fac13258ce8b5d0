------------------------- MODULE EventServiceProofs -------------------------
(***************************************************************************)
(* EventService for every set of requests and owners and every catalogue   *)
(* stored at the start: the inductive invariant EventInv, the properties   *)
(* that follow from it, and where every deployed contract ends up.         *)
(***************************************************************************)
EXTENDS EventService, TLAPS

\* What each operation carries.
LEMMA CallParts ==
    ASSUME NEW c \in Calls
    PROVE  /\ c.user \in Owners
           /\ c.op \in {"createStore", "deleteStore", "createEvent", "deleteEvent"}
           /\ c.op \in {"deleteStore", "createEvent"} => c.target \in StoreIds
           /\ c.op = "deleteEvent" => c.target \in EventIds
BY DEF Calls

\* A call is not the mark of a request that has not arrived.
LEMMA NoCallIsNone == NoCall \notin Calls
BY CallParts DEF NoCall

\* The catalogue at the start of the run satisfies the invariant.
LEMMA InitInv == Init => EventInv
<1> SUFFICES ASSUME Init PROVE EventInv
  OBVIOUS
<1> USE DEF Init
<1>1. stores \subseteq Stores
  BY PriorStoresAssumption DEF Stores, StoreIds
<1>2. events \subseteq Events
  <2>1. ASSUME NEW e \in PriorEvents
        PROVE  /\ e.id \in EventIds /\ e.store \in StoreIds
               /\ e.contract \in Contracts \union {NoContract}
    BY PriorEventsAssumption
    DEF EventIds, StoreIds, Contracts, PriorContracts
  <2>2. QED
    BY <2>1, PriorEventsAssumption DEF Events
<1>3. TypeOK
  BY <1>1, <1>2 DEF TypeOK, Contracts, Stages, Answers
<1>4. CallMatchesStage /\ RowsHaveOrigin
  BY DEF CallMatchesStage, RowsHaveOrigin
<1>5. ContractsHaveOrigin
  BY PriorEventsAssumption DEF ContractsHaveOrigin, PriorContracts
<1>6. ChecksLast /\ TargetsWereThere /\ DeletedIsGone
  BY NoCallIsNone DEF ChecksLast, TargetsWereThere, DeletedIsGone, Op
<1>7. CatalogueConsistent
  BY PriorEventsAssumption DEF CatalogueConsistent
<1>8. QED
  BY <1>3, <1>4, <1>5, <1>6, <1>7 DEF EventInv

(***************************************************************************)
(* A step that writes no table but perhaps deploys.  A request that has    *)
(* inserted a row stays past its insert, the one that deploys too, and a   *)
(* check of ownership that is passed holds.                                *)
(***************************************************************************)
QuietStep ==
    /\ UNCHANGED <<stores, events, applied>>
    /\ deployed \subseteq deployed'
    /\ TypeOK' /\ CallMatchesStage' /\ ChecksLast' /\ TargetsWereThere'
    /\ \A r \in Requests :
          /\ stage[r] # "new" => call'[r] = call[r]
          /\ stage[r] = "done" => stage'[r] = "done" /\ answer'[r] = answer[r]
          /\ stage[r] \in {"refreshStore", "refreshEvent"} =>
                \/ stage'[r] = stage[r]
                \/ stage'[r] = "done" /\ answer'[r] \in {"200", "500", "lost"}
          /\ r \in deployed' =>
                \/ stage'[r] \in {"saveEvent", "refreshEvent"}
                \/ stage'[r] = "done" /\ answer'[r] \in {"200", "500", "lost"}
          /\ stage'[r] \in {"saveEvent", "refreshEvent"} => r \in deployed'
          /\ answer'[r] = "200" /\ Op(r, {"deleteStore", "deleteEvent"})' =>
                answer[r] = "200"

\* Such a step keeps the invariant.
LEMMA QuietStepInv ==
    ASSUME EventInv, QuietStep
    PROVE  EventInv'
<1> USE DEF EventInv, QuietStep
<1>1. RowsHaveOrigin'
  <2>1. ASSUME NEW s \in stores, s \notin PriorStores
        PROVE  /\ s.id \in Requests /\ s.owner = call'[s.id].user
               /\ Op(s.id, {"createStore"})'
               /\ \/ stage'[s.id] = "refreshStore"
                  \/ stage'[s.id] = "done" /\ answer'[s.id] \in {"200", "500", "lost"}
    BY <2>1 DEF RowsHaveOrigin, Op
  <2>2. ASSUME NEW e \in events, e \notin PriorEvents
        PROVE  /\ e.id \in Requests /\ e = NewEvent(e.id)'
               /\ Op(e.id, {"createEvent"})'
               /\ \/ stage'[e.id] = "refreshEvent"
                  \/ stage'[e.id] = "done" /\ answer'[e.id] \in {"200", "500", "lost"}
    BY <2>2 DEF RowsHaveOrigin, Op, NewEvent
  <2>3. QED
    BY <2>1, <2>2 DEF RowsHaveOrigin
<1>2. ContractsHaveOrigin'
  BY DEF ContractsHaveOrigin
<1>3. DeletedIsGone'
  <2>1. ASSUME NEW r \in Requests, answer'[r] = "200"
        PROVE  /\ call'[r].op = "deleteStore" =>
                     \A s \in stores : s.id # call'[r].target
               /\ call'[r].op = "deleteEvent" =>
                     \A e \in events : e.id # call'[r].target
    <3>1. call'[r] \in Calls
      BY <2>1 DEF CallMatchesStage
    <3>2. call'[r].op \in {"deleteStore", "deleteEvent"} => answer[r] = "200"
      BY <2>1, <3>1 DEF Op
    <3>3. answer[r] = "200" => call'[r] = call[r]
      BY DEF CallMatchesStage
    <3>4. QED
      BY <3>2, <3>3 DEF DeletedIsGone
  <2>2. QED
    BY <2>1 DEF DeletedIsGone
<1>4. CatalogueConsistent => CatalogueConsistent'
  BY DEF CatalogueConsistent
<1>5. QED
  BY <1>1, <1>2, <1>3, <1>4

\* The arrival of a request: it gets its call, the tables stay.
LEMMA ReceiveInv ==
    ASSUME EventInv, NEW r \in Requests, Receive(r)
    PROVE  EventInv'
<1> USE DEF EventInv
<1>1. PICK c \in Calls :
         /\ stage[r] = "new" /\ call[r] = NoCall
         /\ call' = [call EXCEPT ![r] = c]
         /\ stage' = [stage EXCEPT ![r] = FirstStage(c.op)]
         /\ UNCHANGED <<db, held, answer>>
  BY DEF Receive, CallMatchesStage
<1>2. /\ FirstStage(c.op) \in {"saveStore", "findEvent", "findStore"}
      /\ FirstStage(c.op) = "saveStore" <=> c.op = "createStore"
      /\ FirstStage(c.op) = "findEvent" <=> c.op = "deleteEvent"
  BY CallParts DEF FirstStage
<1>3. /\ \A q \in Requests \ {r} : call'[q] = call[q] /\ stage'[q] = stage[q]
      /\ call'[r] = c /\ stage'[r] = FirstStage(c.op)
  BY <1>1 DEF TypeOK
<1>4. TypeOK'
  BY <1>1, <1>2 DEF TypeOK, db, Stages
<1>5. CallMatchesStage'
  BY <1>1, <1>2, <1>3, CallParts DEF CallMatchesStage, Op
<1>6. ~Op(r, {"createStore"}) /\ ~Op(r, {"createEvent"}) /\ call[r].op = "none"
  BY <1>1, NoCallIsNone DEF Op, NoCall
<1>7. ChecksLast'
  <2>1. \A s, u : OwnerOf(s, u) => OwnerOf(s, u)'
    BY <1>3, <1>6 DEF OwnerOf
  <2>2. \A e, s : EventStore(e, s) => EventStore(e, s)'
    BY <1>3, <1>6 DEF EventStore, Op
  <2>3. stage'[r] \in {"saveStore", "findEvent", "findStore"}
        /\ ~(stage'[r] = "findStore" /\ call'[r].op = "deleteEvent")
    BY <1>2, <1>3
  <2>4. QED
    BY <1>1, <1>3, <2>1, <2>2, <2>3 DEF ChecksLast
<1>8. TargetsWereThere'
  <2>1. \A q \in Requests : stage[q] \in {"refreshStore", "refreshEvent", "done"}
                               => stage'[q] = stage[q]
    BY <1>1, <1>3
  <2>2. answer'[r] # "200" /\ answer' = answer
    BY <1>1 DEF CallMatchesStage
  <2>3. ~(stage'[r] \in {"deleteStore", "deleteEvent"})
        /\ ~(stage'[r] = "findStore" /\ call'[r].op = "deleteEvent")
    BY <1>2, <1>3
  <2>4. QED
    BY <1>3, <2>1, <2>2, <2>3 DEF TargetsWereThere, Op
<1>9. r \notin deployed
  BY <1>1 DEF ContractsHaveOrigin
<1>10. QuietStep
  BY <1>1, <1>2, <1>3, <1>4, <1>5, <1>7, <1>8, <1>9
  DEF QuietStep, db, ContractsHaveOrigin, CallMatchesStage
<1>11. QED
  BY <1>10, QuietStepInv

(***************************************************************************)
(* The awaits of r that write no table: r goes on to the next one, or is   *)
(* answered.                                                               *)
(***************************************************************************)
LEMMA ReadInv ==
    ASSUME EventInv, NEW r \in Requests,
           \/ FindEvent(r) \/ FindStore(r) \/ Deploy(r) \/ Refresh(r)
           \/ RequestFails(r)
    PROVE  EventInv'
<1> USE DEF EventInv
<1>1. /\ UNCHANGED <<stores, events, applied, call>>
      /\ deployed' \in {deployed, deployed \union {r}}
      /\ stage[r] \notin {"new", "done"} /\ call[r] \in Calls
      /\ answer[r] = "none"
      /\ stage' \in [Requests -> Stages] /\ answer' \in [Requests -> Answers]
      /\ \A q \in Requests \ {r} :
            stage'[q] = stage[q] /\ answer'[q] = answer[q] /\ held'[q] = held[q]
  BY DEF FindEvent, FindStore, Deploy, Refresh, RequestFails, Proceed, Reply,
         Active, db, TypeOK, CallMatchesStage, AfterCheck, Stages, Answers,
         Refusals
<1>2. \/ /\ stage[r] = "findEvent" /\ stage'[r] = "findStore"
         /\ answer'[r] = "none" /\ deployed' = deployed
         /\ \E e \in events : e.id = call[r].target /\ held'[r] = e.store
      \/ /\ stage[r] = "findStore" /\ stage'[r] = AfterCheck(call[r].op)
         /\ answer'[r] = "none" /\ deployed' = deployed
         /\ held' = held /\ Owned(r)
      \/ /\ stage[r] = "deploy" /\ stage'[r] = "saveEvent"
         /\ answer'[r] = "none" /\ deployed' = deployed \union {r}
         /\ held' = held
      \/ /\ stage'[r] = "done" /\ held' = held
         /\ answer'[r] \in Refusals \union {"500"}
         /\ deployed' # deployed => answer'[r] = "500"
         /\ answer'[r] \in Refusals => stage[r] \in {"findEvent", "findStore"}
      \/ /\ stage[r] \in {"refreshStore", "refreshEvent"}
         /\ stage'[r] = "done" /\ held' = held
         /\ answer'[r] \in {"200", "500"} /\ deployed' = deployed
  <2> USE <1>1 DEF Proceed, Reply, db, TypeOK, Refusals
  <2>1. CASE FindEvent(r)
    BY <2>1 DEF FindEvent
  <2>2. CASE FindStore(r)
    BY <2>2 DEF FindStore
  <2>3. CASE Deploy(r)
    BY <2>3 DEF Deploy
  <2>4. CASE Refresh(r)
    BY <2>4 DEF Refresh
  <2>5. CASE RequestFails(r)
    BY <2>5 DEF RequestFails
  <2>6. QED
    BY <2>1, <2>2, <2>3, <2>4, <2>5
<1>3. stage[r] = "findStore" =>
        \/ call[r].op = "deleteStore" /\ AfterCheck(call[r].op) = "deleteStore"
        \/ call[r].op = "createEvent" /\ AfterCheck(call[r].op) = "deploy"
        \/ call[r].op = "deleteEvent" /\ AfterCheck(call[r].op) = "deleteEvent"
  BY DEF AfterCheck, CallMatchesStage, Op
<1>4. held' \in [Requests -> StoreIds \union {NoStore}]
  BY DEF FindEvent, FindStore, Deploy, Refresh, RequestFails, Proceed, Reply,
         TypeOK, Events
<1>5. TypeOK'
  BY <1>1, <1>4 DEF TypeOK, Contracts
<1>6. CallMatchesStage'
  <2>1. \A q \in Requests \ {r} : call'[q] = call[q]
    BY <1>1
  <2>2. CASE stage'[r] = "done"
    BY <1>1, <2>2 DEF CallMatchesStage, Op
  <2>3. CASE stage'[r] # "done"
    BY <1>1, <1>2, <1>3, <2>3 DEF CallMatchesStage, Op
  <2>4. QED
    BY <2>2, <2>3
<1>7. \A s, u : OwnerOf(s, u) => OwnerOf(s, u)'
  BY <1>1 DEF OwnerOf
<1>8. \A e, s : EventStore(e, s) => EventStore(e, s)'
  BY <1>1 DEF EventStore, Op
<1>9. ChecksLast'
  <2>1. stage'[r] = "deleteStore" => OwnerOf(call[r].target, call[r].user)
    <3>1. SUFFICES ASSUME stage'[r] = "deleteStore" PROVE OwnerOf(call[r].target, call[r].user)
      OBVIOUS
    <3>2. Owned(r) /\ call[r].op = "deleteStore"
      BY <1>2, <1>3, <3>1
    <3>3. PICK s \in stores : s.id = call[r].target /\ s.owner = call[r].user
      BY <3>2 DEF Owned, StoreOf
    <3>4. QED
      BY <3>3 DEF RowsHaveOrigin, OwnerOf, Op
  <2>2. stage'[r] = "deleteEvent" => OwnerOf(held'[r], call[r].user)
    <3>1. SUFFICES ASSUME stage'[r] = "deleteEvent" PROVE OwnerOf(held'[r], call[r].user)
      OBVIOUS
    <3>2. Owned(r) /\ call[r].op = "deleteEvent" /\ held' = held
      BY <1>2, <1>3, <3>1
    <3>3. PICK s \in stores : s.id = held[r] /\ s.owner = call[r].user
      BY <3>2 DEF Owned, StoreOf
    <3>4. QED
      BY <3>2, <3>3 DEF RowsHaveOrigin, OwnerOf, Op
  <2>3. stage'[r] \in {"findStore", "deleteEvent"} /\ call[r].op = "deleteEvent"
          => EventStore(call[r].target, held'[r])
    <3>1. CASE stage[r] = "findEvent" /\ stage'[r] = "findStore"
      <4>1. PICK e \in events : e.id = call[r].target /\ held'[r] = e.store
        BY <1>2, <3>1
      <4>2. QED
        BY <4>1 DEF RowsHaveOrigin, EventStore, NewEvent
    <3>2. CASE stage[r] = "findStore" /\ held' = held
      BY <3>2 DEF ChecksLast
    <3>3. QED
      BY <1>2, <1>3, <3>1, <3>2
  <2>4. QED
    BY <1>1, <1>7, <1>8, <2>1, <2>2, <2>3 DEF ChecksLast
<1>10. TargetsWereThere'
  <2>1. \A q \in Requests :
          /\ stage[q] \in {"refreshStore", "done"} =>
                stage'[q] \in {"refreshStore", "done"}
          /\ stage[q] \in {"refreshEvent", "done"} =>
                stage'[q] \in {"refreshEvent", "done"}
    BY <1>1, <1>2, <1>3
  <2>2. ASSUME NEW t \in Requests, t = call[r].target, Op(r, {"deleteStore"}),
               stage'[r] = "deleteStore" \/ answer'[r] = "200"
        PROVE  stage'[t] \in {"refreshStore", "done"}
    <3>1. Owned(r)
      BY <1>1, <1>2, <1>3, <2>2 DEF CallMatchesStage, Op, Refusals
    <3>2. PICK s \in stores : s.id = t
      BY <2>2, <3>1 DEF Owned, StoreOf, Op
    <3>3. stage[t] \in {"refreshStore", "done"}
      BY <3>2, PriorStoresAssumption DEF RowsHaveOrigin
    <3>4. QED
      BY <2>1, <3>3
  <2>3. ASSUME NEW t \in Requests, t = call[r].target, Op(r, {"deleteEvent"}),
               stage'[r] \in {"findStore", "deleteEvent"} \/ answer'[r] = "200"
        PROVE  stage'[t] \in {"refreshEvent", "done"}
    <3>1. CASE stage[r] = "findEvent" /\ stage'[r] = "findStore"
      <4>1. PICK e \in events : e.id = t
        BY <1>2, <2>3, <3>1
      <4>2. stage[t] \in {"refreshEvent", "done"}
        BY <4>1, PriorEventsAssumption DEF RowsHaveOrigin
      <4>3. QED
        BY <2>1, <4>2
    <3>2. CASE stage[r] = "findStore"
      BY <2>1, <2>3, <3>2 DEF TargetsWereThere
    <3>3. QED
      BY <1>1, <1>2, <1>3, <2>3, <3>1, <3>2 DEF CallMatchesStage, Op, Refusals
  <2>4. ASSUME NEW q \in Requests \ {r}
        PROVE  answer'[q] = answer[q] /\ stage'[q] = stage[q] /\ call'[q] = call[q]
    BY <1>1
  <2>5. QED
    BY <1>1, <2>1, <2>2, <2>3, <2>4 DEF TargetsWereThere, Op
<1>11. QuietStep
  <2>1. ASSUME NEW q \in Requests, q \in deployed'
        PROVE  \/ stage'[q] \in {"saveEvent", "refreshEvent"}
               \/ stage'[q] = "done" /\ answer'[q] \in {"200", "500", "lost"}
    BY <1>1, <1>2, <1>3, <2>1 DEF ContractsHaveOrigin, Refusals
  <2>2. \A q \in Requests : stage'[q] \in {"saveEvent", "refreshEvent"} => q \in deployed'
    BY <1>1, <1>2, <1>3 DEF ContractsHaveOrigin
  <2>3. answer'[r] = "200" => ~Op(r, {"deleteStore", "deleteEvent"})'
    BY <1>1, <1>2, <1>3 DEF CallMatchesStage, Op, Refusals
  <2>4. stage[r] \in {"refreshStore", "refreshEvent"} =>
          stage'[r] = "done" /\ answer'[r] \in {"200", "500"}
    BY <1>2, <1>3 DEF Refusals
  <2>5. QED
    BY <1>1, <1>5, <1>6, <1>9, <1>10, <2>1, <2>2, <2>3, <2>4 DEF QuietStep, Op
<1>12. QED
  BY <1>11, QuietStepInv

\* The death of the process: every request in it is over, the tables stay.
LEMMA CrashInv ==
    ASSUME EventInv, Crash
    PROVE  EventInv'
<1> USE DEF EventInv
<1>1. PICK sent \in SUBSET {r \in Requests : stage[r] = "deploy"} :
         deployed' = deployed \union sent
  BY DEF Crash
<1>2. /\ UNCHANGED <<stores, events, applied, call, held>>
      /\ \A r \in Requests :
            \/ stage[r] \in {"new", "done"}
               /\ stage'[r] = stage[r] /\ answer'[r] = answer[r]
            \/ stage[r] \notin {"new", "done"}
               /\ stage'[r] = "done" /\ answer'[r] = "lost"
      /\ stage' \in [Requests -> Stages] /\ answer' \in [Requests -> Answers]
  BY DEF Crash, Active, TypeOK, Stages, Answers
<1>3. TypeOK'
  BY <1>1, <1>2 DEF TypeOK, Contracts
<1>4. CallMatchesStage'
  BY <1>2 DEF CallMatchesStage, Op
<1>5. ChecksLast' /\ TargetsWereThere'
  BY <1>2 DEF ChecksLast, TargetsWereThere, OwnerOf, EventStore, Op
<1>6. QuietStep
  BY <1>1, <1>2, <1>3, <1>4, <1>5 DEF QuietStep, ContractsHaveOrigin, Op
<1>7. QED
  BY <1>6, QuietStepInv

(***************************************************************************)
(* The steps that write a table.  Each moves one request r at most, which  *)
(* keeps its call, and touches no contract.                                *)
(***************************************************************************)
WriteStep(r) ==
    /\ UNCHANGED <<deployed, call, held>>
    /\ stage[r] \notin {"new", "done"} /\ answer[r] = "none"
    /\ stage' \in [Requests -> Stages] /\ answer' \in [Requests -> Answers]
    /\ \A q \in Requests \ {r} : stage'[q] = stage[q] /\ answer'[q] = answer[q]

\* The parts of the invariant that speak of requests, after such a step.
LEMMA WriteStepInv ==
    ASSUME EventInv, NEW r \in Requests, WriteStep(r),
           \/ stage[r] = "saveStore" /\ stage'[r] = "refreshStore"
              /\ answer'[r] = "none"
           \/ stage[r] = "saveEvent" /\ stage'[r] = "refreshEvent"
              /\ answer'[r] = "none"
           \/ stage'[r] = "done" /\ answer'[r] \in {"200", "500"}
              /\ stage[r] \in {"saveEvent", "deleteStore", "deleteEvent"}
              /\ (stage[r] = "saveEvent" => answer'[r] = "500")
    PROVE  /\ CallMatchesStage' /\ ChecksLast' /\ TargetsWereThere'
           /\ \A c \in deployed' \intersect Requests :
                 \/ stage'[c] \in {"saveEvent", "refreshEvent"}
                 \/ stage'[c] = "done" /\ answer'[c] \in {"200", "500", "lost"}
           /\ \A q \in Requests : stage'[q] \in {"saveEvent", "refreshEvent"} =>
                 q \in deployed'
<1> USE DEF EventInv, WriteStep
<1>1. CallMatchesStage'
  BY DEF CallMatchesStage, Op
<1>2. ChecksLast'
  BY DEF ChecksLast, OwnerOf, EventStore, Op
<1>3. TargetsWereThere'
  <2>1. ASSUME NEW q \in Requests, NEW t \in Requests, t = call[q].target,
               Op(q, {"deleteStore"}),
               stage'[q] = "deleteStore" \/ answer'[q] = "200"
        PROVE  stage'[t] \in {"refreshStore", "done"}
    <3>1. stage[q] = "deleteStore" \/ answer[q] = "200"
      BY <2>1 DEF CallMatchesStage, Op
    <3>2. stage[t] \in {"refreshStore", "done"}
      BY <2>1, <3>1 DEF TargetsWereThere
    <3>3. QED
      BY <3>2
  <2>2. ASSUME NEW q \in Requests, NEW t \in Requests, t = call[q].target,
               Op(q, {"deleteEvent"}),
               stage'[q] \in {"findStore", "deleteEvent"} \/ answer'[q] = "200"
        PROVE  stage'[t] \in {"refreshEvent", "done"}
    <3>1. stage[q] \in {"findStore", "deleteEvent"} \/ answer[q] = "200"
      BY <2>2 DEF CallMatchesStage, Op
    <3>2. stage[t] \in {"refreshEvent", "done"}
      BY <2>2, <3>1 DEF TargetsWereThere
    <3>3. QED
      BY <3>2
  <2>3. QED
    BY <2>1, <2>2 DEF TargetsWereThere, Op
<1>4. /\ \A c \in deployed' \intersect Requests :
            \/ stage'[c] \in {"saveEvent", "refreshEvent"}
            \/ stage'[c] = "done" /\ answer'[c] \in {"200", "500", "lost"}
      /\ \A q \in Requests : stage'[q] \in {"saveEvent", "refreshEvent"} =>
            q \in deployed'
  BY DEF ContractsHaveOrigin
<1>5. QED
  BY <1>1, <1>2, <1>3, <1>4

\* create_store's save: no answered delete was of the row to come.
LEMMA SaveStoreInv ==
    ASSUME EventInv, NEW r \in Requests, SaveStore(r)
    PROVE  EventInv'
<1> USE DEF EventInv
<1> DEFINE row == [id |-> r, owner |-> call[r].user]
<1>1. /\ stores' = stores \union {row} /\ UNCHANGED <<events, applied>>
      /\ stage[r] = "saveStore" /\ stage'[r] = "refreshStore"
      /\ answer' = answer /\ answer[r] = "none"
      /\ Op(r, {"createStore"}) /\ WriteStep(r)
  BY DEF SaveStore, Proceed, TypeOK, Stages, CallMatchesStage, WriteStep
<1>2. row \in Stores
  BY <1>1, CallParts DEF Stores, StoreIds, Op
<1>3. TypeOK'
  BY <1>1, <1>2 DEF TypeOK, WriteStep
<1>4. RowsHaveOrigin'
  BY <1>1 DEF RowsHaveOrigin, NewEvent, Op, WriteStep
<1>5. DeletedIsGone'
  BY <1>1 DEF DeletedIsGone, TargetsWereThere, CallMatchesStage, Op, WriteStep
<1>6. CatalogueConsistent => CatalogueConsistent'
  BY <1>1 DEF CatalogueConsistent
<1>7. QED
  BY <1>1, <1>3, <1>4, <1>5, <1>6, WriteStepInv DEF ContractsHaveOrigin, WriteStep

\* create_event's save: its store is there where foreign keys are enforced.
LEMMA SaveEventInv ==
    ASSUME EventInv, NEW r \in Requests, SaveEvent(r)
    PROVE  EventInv'
<1> USE DEF EventInv
<1>1. /\ UNCHANGED <<stores, applied, deployed>>
      /\ stage[r] = "saveEvent" /\ Op(r, {"createEvent"}) /\ WriteStep(r)
      /\ r \in deployed
      /\ \/ events' = events /\ stage'[r] = "done" /\ answer'[r] = "500"
         \/ /\ events' = events \union {NewEvent(r)}
            /\ ~StoreKeyViolated(NewEvent(r))
            /\ stage'[r] = "refreshEvent" /\ answer'[r] = "none"
  BY DEF SaveEvent, Proceed, Reply, TypeOK, Stages, Answers, CallMatchesStage,
         WriteStep, ContractsHaveOrigin
<1>2. NewEvent(r) \in Events
  BY <1>1, CallParts DEF Events, EventIds, Contracts, NewEvent, Op
<1>3. TypeOK'
  BY <1>1, <1>2 DEF TypeOK, WriteStep
<1>4. RowsHaveOrigin'
  <2>1. \A e \in events' : e \in events \/ e = NewEvent(r)
    BY <1>1
  <2>2. ASSUME NEW e \in events, e \notin PriorEvents, e.id = r
        PROVE  FALSE
    BY <1>1, <2>2 DEF RowsHaveOrigin
  <2>3. ASSUME NEW s \in stores, s \notin PriorStores, s.id = r
        PROVE  FALSE
    BY <1>1, <2>3 DEF RowsHaveOrigin
  <2>4. NewEvent(r) \in events' => stage'[r] = "refreshEvent"
    BY <1>1, <2>2, PriorEventsAssumption DEF NewEvent
  <2>5. QED
    BY <1>1, <2>1, <2>2, <2>3, <2>4 DEF RowsHaveOrigin, NewEvent, Op, WriteStep
<1>5. DeletedIsGone'
  BY <1>1 DEF DeletedIsGone, TargetsWereThere, CallMatchesStage, Op, WriteStep,
              NewEvent
<1>6. ForeignKeys /\ CatalogueConsistent => CatalogueConsistent'
  BY <1>1 DEF CatalogueConsistent, StoreKeyViolated
<1>7. ContractsHaveOrigin'
  BY <1>1, WriteStepInv DEF ContractsHaveOrigin, NewEvent
<1>8. QED
  BY <1>1, <1>3, <1>4, <1>5, <1>6, <1>7, WriteStepInv

\* delete_store: no event refers to the store where foreign keys are enforced.
LEMMA DeleteStoreInv ==
    ASSUME EventInv, NEW r \in Requests, DeleteStore(r)
    PROVE  /\ EventInv'
           /\ \A s \in stores \ stores' : OwnerOf(s.id, call[r].user)
           /\ stage[r] = "deleteStore" /\ events' = events
<1> USE DEF EventInv
<1>1. /\ UNCHANGED <<events, applied>> /\ stores' \subseteq stores
      /\ stage[r] = "deleteStore" /\ Op(r, {"deleteStore"}) /\ WriteStep(r)
      /\ stage'[r] = "done" /\ answer'[r] \in {"200", "500"}
      /\ \A s \in stores \ stores' : s.id = call[r].target
      /\ answer'[r] = "200" => \A s \in stores' : s.id # call[r].target
      /\ stores' # stores =>
            (ForeignKeys => \A e \in events : e.store # call[r].target)
  BY DEF DeleteStore, Reply, TypeOK, Stages, Answers, CallMatchesStage, WriteStep
<1>2. TypeOK'
  BY <1>1 DEF TypeOK, WriteStep
<1>3. RowsHaveOrigin'
  BY <1>1 DEF RowsHaveOrigin, NewEvent, Op, WriteStep
<1>4. DeletedIsGone'
  BY <1>1 DEF DeletedIsGone, WriteStep, Op
<1>5. ForeignKeys /\ CatalogueConsistent => CatalogueConsistent'
  BY <1>1 DEF CatalogueConsistent
<1>6. ContractsHaveOrigin'
  BY <1>1, WriteStepInv DEF ContractsHaveOrigin, WriteStep
<1>7. EventInv'
  BY <1>1, <1>2, <1>3, <1>4, <1>5, <1>6, WriteStepInv
<1>8. \A s \in stores \ stores' : OwnerOf(s.id, call[r].user)
  BY <1>1 DEF ChecksLast
<1>9. QED
  BY <1>1, <1>7, <1>8

\* delete_event: no application refers to the event where they are.
LEMMA DeleteEventInv ==
    ASSUME EventInv, NEW r \in Requests, DeleteEvent(r)
    PROVE  /\ EventInv'
           /\ \A e \in events \ events' : OwnerOf(e.store, call[r].user)
           /\ stage[r] = "deleteEvent" /\ stores' = stores
<1> USE DEF EventInv
<1>1. /\ UNCHANGED <<stores, applied>> /\ events' \subseteq events
      /\ stage[r] = "deleteEvent" /\ Op(r, {"deleteEvent"}) /\ WriteStep(r)
      /\ stage'[r] = "done" /\ answer'[r] \in {"200", "500"}
      /\ \A e \in events \ events' : e.id = call[r].target
      /\ answer'[r] = "200" => \A e \in events' : e.id # call[r].target
      /\ events' # events => (ForeignKeys => call[r].target \notin applied)
  BY DEF DeleteEvent, Reply, TypeOK, Stages, Answers, CallMatchesStage, WriteStep
<1>2. TypeOK'
  BY <1>1 DEF TypeOK, WriteStep
<1>3. RowsHaveOrigin'
  BY <1>1 DEF RowsHaveOrigin, NewEvent, Op, WriteStep
<1>4. DeletedIsGone'
  BY <1>1 DEF DeletedIsGone, WriteStep, Op
<1>5. ForeignKeys /\ CatalogueConsistent => CatalogueConsistent'
  BY <1>1 DEF CatalogueConsistent
<1>6. ContractsHaveOrigin'
  BY <1>1, WriteStepInv DEF ContractsHaveOrigin, WriteStep
<1>7. EventInv'
  BY <1>1, <1>2, <1>3, <1>4, <1>5, <1>6, WriteStepInv
<1>8. ASSUME NEW e \in events \ events' PROVE OwnerOf(e.store, call[r].user)
  <2>1. EventStore(e.id, held[r]) /\ OwnerOf(held[r], call[r].user)
    BY <1>1 DEF ChecksLast, Op
  <2>2. e.store = held[r]
    BY <2>1, PriorEventsAssumption DEF EventStore, RowsHaveOrigin, NewEvent, Op
  <2>3. QED
    BY <2>1, <2>2
<1>9. QED
  BY <1>1, <1>7, <1>8

\* Applications refer to events that are there; nothing else happens.
LEMMA RestInv ==
    ASSUME EventInv,
           (\E e \in EventIds : Apply(e)) \/ Quiescent \/ UNCHANGED vars
    PROVE  EventInv'
<1> USE DEF EventInv
<1>1. /\ UNCHANGED <<stores, events, deployed, call, held, stage, answer>>
      /\ \A a \in applied' : a \in applied \/ \E row \in events : row.id = a
      /\ applied' \subseteq EventIds
  BY DEF Apply, Quiescent, vars, db, TypeOK
<1>2. TypeOK' /\ CallMatchesStage' /\ RowsHaveOrigin'
  BY <1>1 DEF TypeOK, CallMatchesStage, RowsHaveOrigin, Op, NewEvent
<1>3. ContractsHaveOrigin' /\ ChecksLast' /\ TargetsWereThere' /\ DeletedIsGone'
  BY <1>1 DEF ContractsHaveOrigin, ChecksLast, TargetsWereThere, DeletedIsGone,
              OwnerOf, EventStore, Op
<1>4. CatalogueConsistent => CatalogueConsistent'
  BY <1>1 DEF CatalogueConsistent
<1>5. QED
  BY <1>2, <1>3, <1>4

\* Every step of the service keeps the invariant.
LEMMA NextInv == EventInv /\ [Next]_vars => EventInv'
<1> SUFFICES ASSUME EventInv, [Next]_vars PROVE EventInv'
  OBVIOUS
<1>1. ASSUME NEW r \in Requests, Receive(r) PROVE EventInv'
  BY <1>1, ReceiveInv
<1>2. ASSUME NEW r \in Requests, Resume(r) \/ RequestFails(r) PROVE EventInv'
  BY <1>2, ReadInv, SaveStoreInv, SaveEventInv, DeleteStoreInv, DeleteEventInv
  DEF Resume
<1>3. ASSUME (\E e \in EventIds : Apply(e)) \/ Crash \/ Quiescent \/ UNCHANGED vars
      PROVE  EventInv'
  BY <1>3, RestInv, CrashInv
<1>4. QED
  BY <1>1, <1>2, <1>3 DEF Next

-----------------------------------------------------------------------------
\* The races of the four operations, failures and crashes keep the invariant.
THEOREM Invariance == Spec => []EventInv
<1>1. Init => EventInv
  BY InitInv
<1>2. EventInv /\ [Next]_vars => EventInv'
  BY NextInv
<1>3. QED
  BY <1>1, <1>2, PTL DEF Spec

\* Where foreign keys are enforced, no race of create_event, delete_store,
\* delete_event and the applications leaves a row that refers to nothing.
THEOREM Consistent == ForeignKeys /\ Spec => []CatalogueConsistent
<1>1. ForeignKeys /\ EventInv => CatalogueConsistent
  BY DEF EventInv
<1>2. CASE ForeignKeys
  <2>1. EventInv => CatalogueConsistent
    BY <1>1, <1>2
  <2>2. QED
    BY <2>1, Invariance, PTL
<1>3. CASE ~ForeignKeys
  BY <1>3
<1>4. QED
  BY <1>2, <1>3

\* Rows keep their types, and the contract of an event is mined and its own.
THEOREM CatalogueSafe == Spec => [](TypeOK /\ EventsHaveContracts)
<1>1. EventInv => EventsHaveContracts
  <2> SUFFICES ASSUME EventInv PROVE EventsHaveContracts
    OBVIOUS
  <2>1. ASSUME NEW e \in events, NEW f \in events,
               e.contract = f.contract, e.contract # NoContract
        PROVE  e = f
    BY <2>1, PriorEventsAssumption DEF EventInv, RowsHaveOrigin, NewEvent
  <2>2. QED
    BY <2>1 DEF EventInv, ContractsHaveOrigin, EventsHaveContracts
<1>2. EventInv => TypeOK
  BY DEF EventInv
<1>3. QED
  BY <1>1, <1>2, Invariance, PTL

\* What delete_store or delete_event deleted stays so.
THEOREM DeletionsLast == Spec => []DeletedIsGone
<1>1. EventInv => DeletedIsGone
  BY DEF EventInv
<1>2. QED
  BY <1>1, Invariance, PTL

\* What is answered stays so.
LEMMA AnswersStay ==
    ASSUME EventInv, [Next]_vars, NEW r \in Requests, answer[r] # "none"
    PROVE  answer'[r] = answer[r] /\ call'[r] = call[r]
<1>1. stage[r] = "done"
  BY DEF EventInv, CallMatchesStage
<1>2. TypeOK
  BY DEF EventInv
<1>3. ASSUME NEW q \in Requests, Receive(q)
      PROVE  answer'[r] = answer[r] /\ call'[r] = call[r]
  BY <1>1, <1>2, <1>3 DEF Receive, TypeOK
<1>4. ASSUME NEW q \in Requests, Resume(q) \/ RequestFails(q)
      PROVE  answer'[r] = answer[r] /\ call'[r] = call[r]
  BY <1>1, <1>2, <1>4
  DEF Resume, RequestFails, Active, FindEvent, FindStore, SaveStore, Deploy,
      SaveEvent, Refresh, DeleteStore, DeleteEvent, Proceed, Reply, TypeOK
<1>5. ASSUME (\E e \in EventIds : Apply(e)) \/ Crash \/ Quiescent \/ UNCHANGED vars
      PROVE  answer'[r] = answer[r] /\ call'[r] = call[r]
  BY <1>1, <1>2, <1>5 DEF Apply, Crash, Active, Quiescent, vars, TypeOK
<1>6. QED
  BY <1>3, <1>4, <1>5 DEF Next

\* A row that goes is deleted.
LEMMA GoneIsDeleted ==
    ASSUME EventInv, [Next]_vars, NEW e \in events, e \notin events'
    PROVE  Deleted(e.id)'
<1>1. PICK r \in Requests : DeleteEvent(r)
  BY DEF Next, Receive, Resume, FindEvent, FindStore, SaveStore, Deploy, SaveEvent,
         Refresh, DeleteStore, RequestFails, Apply, Crash, Quiescent, vars, db
<1>2. /\ e.id = call[r].target /\ call' = call
      /\ answer' = [answer EXCEPT ![r] = "200"]
  BY <1>1 DEF DeleteEvent, Reply
<1>3. call[r].op = "deleteEvent" /\ answer'[r] = "200"
  BY <1>1, <1>2 DEF EventInv, TypeOK, CallMatchesStage, Op, DeleteEvent
<1>4. QED
  BY <1>2, <1>3 DEF Deleted

\* A contract is new, or the request that deployed it goes on to its save.
LEMMA DeploymentSteps ==
    ASSUME EventInv, [Next]_vars, NEW r \in Requests, r \in deployed',
           r \notin deployed \/ stage[r] = "saveEvent"
    PROVE  \/ stage'[r] = "saveEvent" \/ answer'[r] \in {"500", "lost"}
           \/ NewEvent(r) \in events'
<1>0. TypeOK /\ (stage[r] = "saveEvent" => Active(r))
  BY DEF EventInv, Active
<1>1. ASSUME NEW q \in Requests \ {r},
             Receive(q) \/ Resume(q) \/ RequestFails(q)
      PROVE  stage'[r] = stage[r] /\ (r \in deployed' => r \in deployed)
  BY <1>0, <1>1
  DEF Receive, Resume, RequestFails, FindEvent, FindStore, SaveStore, Deploy,
      SaveEvent, Refresh, DeleteStore, DeleteEvent, Proceed, Reply, TypeOK, db
<1>2. CASE SaveEvent(r)
  BY <1>0, <1>2 DEF SaveEvent, Reply, TypeOK
<1>3. CASE Deploy(r) \/ RequestFails(r)
  BY <1>0, <1>3 DEF Deploy, RequestFails, Proceed, Reply, TypeOK, db
<1>4. CASE Receive(r) \/ FindEvent(r) \/ FindStore(r) \/ SaveStore(r) \/ Refresh(r)
           \/ DeleteStore(r) \/ DeleteEvent(r)
  BY <1>4 DEF Receive, FindEvent, FindStore, SaveStore, Refresh, DeleteStore,
              DeleteEvent, db
<1>5. CASE Crash
  BY <1>0, <1>5 DEF Crash, Active, TypeOK
<1>6. CASE (\E e \in EventIds : Apply(e)) \/ Quiescent \/ UNCHANGED vars
  BY <1>6 DEF Apply, Quiescent, vars, db
<1>7. QED
  BY <1>1, <1>2, <1>3, <1>4, <1>5, <1>6 DEF Next, Resume

\* No contract that create_event deployed gets lost in silence.
THEOREM NoContractForgotten == Spec => []ContractsAccountedFor
<1>1. EventInv => \A r \in Requests : answer[r] \in Refusals => r \notin deployed
  BY DEF EventInv, ContractsHaveOrigin, CallMatchesStage, Refusals
<1>2. Init => ContractsAccountedFor
  BY PriorEventsAssumption
  DEF Init, ContractsAccountedFor, PriorContracts, Refusals
<1>3. ContractsAccountedFor /\ EventInv /\ EventInv' /\ [Next]_vars
         => ContractsAccountedFor'
  <2> SUFFICES ASSUME ContractsAccountedFor, EventInv, EventInv', [Next]_vars
               PROVE  ContractsAccountedFor'
    OBVIOUS
  <2>1. \A r \in Requests : answer'[r] \in Refusals => r \notin deployed'
    BY DEF EventInv, ContractsHaveOrigin, CallMatchesStage, Refusals
  <2>2. \A e : Deleted(e) => Deleted(e)'
    BY AnswersStay DEF Deleted
  <2>3. ASSUME NEW r \in Requests, r \in deployed'
        PROVE  \/ \E e \in events' : e.contract = r
               \/ stage'[r] = "saveEvent"
               \/ answer'[r] \in {"500", "lost"}
               \/ Deleted(r)'
    <3>1. CASE r \notin deployed \/ stage[r] = "saveEvent"
      BY <2>3, <3>1, DeploymentSteps DEF NewEvent
    <3>2. ASSUME NEW e \in events, e.contract = r PROVE e \in events' \/ Deleted(r)'
      <4>1. e.id = r
        BY <3>2, PriorEventsAssumption DEF EventInv, RowsHaveOrigin, NewEvent
      <4>2. QED
        BY <4>1, GoneIsDeleted
    <3>3. CASE answer[r] \in {"500", "lost"}
      BY <3>3, AnswersStay
    <3>4. QED
      BY <2>2, <2>3, <3>1, <3>2, <3>3 DEF ContractsAccountedFor
  <2>4. \A e \in PriorEvents : e \in events' \/ Deleted(e.id)'
    BY <2>2, GoneIsDeleted DEF ContractsAccountedFor
  <2>5. QED
    BY <2>1, <2>3, <2>4 DEF ContractsAccountedFor
<1>4. QED
  BY <1>2, <1>3, Invariance, PTL DEF Spec

\* Only the owner of a store deletes it and its events.
THEOREM OwnersDelete == Spec => OnlyOwnersDelete
<1> DEFINE Gone ==
      /\ \A s \in stores \ stores' : \E r \in Requests :
            stage[r] = "deleteStore" /\ OwnerOf(s.id, call[r].user)
      /\ \A e \in events \ events' : \E r \in Requests :
            stage[r] = "deleteEvent" /\ OwnerOf(e.store, call[r].user)
<1>1. EventInv /\ [Next]_vars => Gone
  <2> SUFFICES ASSUME EventInv, [Next]_vars PROVE Gone
    OBVIOUS
  <2>1. CASE \E r \in Requests : DeleteStore(r)
    BY <2>1, DeleteStoreInv
  <2>2. CASE \E r \in Requests : DeleteEvent(r)
    BY <2>2, DeleteEventInv
  <2>3. CASE \A r \in Requests : ~DeleteStore(r) /\ ~DeleteEvent(r)
    <3>1. stores \subseteq stores' /\ events \subseteq events'
      BY <2>3
      DEF Next, Receive, Resume, FindEvent, FindStore, SaveStore, Deploy,
          SaveEvent, Refresh, RequestFails, Apply, Crash, Quiescent, vars, db
    <3>2. QED
      BY <3>1
  <2>4. QED
    BY <2>1, <2>2, <2>3
<1>2. QED
  BY <1>1, Invariance, PTL DEF Spec, OnlyOwnersDelete
=============================================================================
