---------------------------- MODULE EventService ----------------------------
(***************************************************************************)
(* Stores and their review events, as owners create and delete them:       *)
(* app/store and app/event (service_impl.py, repository_impl.py, models.py *)
(* and router.py).                                                         *)
(*                                                                         *)
(* As in ApplicationService, a request is a coroutine that stands at an    *)
(* await, and the action that leaves the await is the statement it waits   *)
(* for.  create_event awaits the deployment of a contract, which takes up  *)
(* to two minutes, between the check of its store and its insert.          *)
(***************************************************************************)
EXTENDS Naturals, FiniteSets

CONSTANTS
    Requests,       \* the HTTP requests of one run of the server
    Owners,         \* the users who are logged in
    PriorStores,    \* the rows of stores when the run starts
    PriorEvents,    \* the rows of events when the run starts
    ForeignKeys     \* TRUE: the database enforces foreign keys

(***************************************************************************)
(* A row has the request that inserts it for its id (uuid4), and so has a  *)
(* contract the request that deploys it.  A seeded event may have none.    *)
(***************************************************************************)
StoreIds   == Requests \union {s.id : s \in PriorStores}
EventIds   == Requests \union {e.id : e \in PriorEvents}
NoContract == "NoContract"
PriorContracts == {e.contract : e \in PriorEvents} \ {NoContract}
Contracts  == Requests \union PriorContracts

Stores == [id : StoreIds, owner : Owners]
Events == [id : EventIds, store : StoreIds, contract : Contracts \union {NoContract}]

ASSUME ForeignKeysAssumption == ForeignKeys \in BOOLEAN

ASSUME PriorStoresAssumption ==
    /\ \A s \in PriorStores : s = [id |-> s.id, owner |-> s.owner]
    /\ \A s \in PriorStores : s.owner \in Owners /\ s.id \notin Requests
    /\ \A s, t \in PriorStores : s.id = t.id => s = t

ASSUME PriorEventsAssumption ==
    /\ \A e \in PriorEvents :
          /\ e = [id |-> e.id, store |-> e.store, contract |-> e.contract]
          /\ e.id \notin Requests /\ e.contract \notin Requests
          /\ \E s \in PriorStores : s.id = e.store
    /\ \A e, f \in PriorEvents : e.id = f.id => e = f
    /\ \A e, f \in PriorEvents :
          e.contract = f.contract /\ e.contract # NoContract => e = f
    /\ NoContract \notin Requests

VARIABLES
    stores,     \* table stores
    events,     \* table events
    applied,    \* the events that rows of table applications refer to
    deployed,   \* the contracts whose deployment is mined
    call,       \* what each request asks for
    held,       \* the store of the event that delete_event has read
    stage,      \* the await each request stands at
    answer      \* the outcome of each request

db   == <<stores, events, applied, deployed>>
vars == <<db, call, held, stage, answer>>

\* reward: whether int(data.reward * 10**18) fits the column (BIGINT in the model,
\* INTEGER in the migrations).
Calls ==
    [op : {"createStore"}, user : Owners]
    \union [op : {"deleteStore"}, user : Owners, target : StoreIds]
    \union [op : {"createEvent"}, user : Owners, target : StoreIds,
            reward : {"fits", "overflows"}]
    \union [op : {"deleteEvent"}, user : Owners, target : EventIds]

NoCall  == [op |-> "none"]
NoStore == "NoStore"

Stages == {"new", "findStore", "findEvent", "saveStore", "refreshStore",
           "deleteStore", "deploy", "saveEvent", "refreshEvent", "deleteEvent",
           "done"}

\* Error codes of core/exceptions.py that refuse a request.
Refusals == {"STORE_001", "EVENT_001", "AUTH_007"}

\* "500": an exception that no handler of main.py turns into a code.
Answers == Refusals \union {"none", "200", "500", "lost"}

Active(r) == stage[r] \notin {"new", "done"}

Proceed(r, next) ==
    stage' = [stage EXCEPT ![r] = next] /\ UNCHANGED <<call, held, answer>>

Reply(r, a) ==
    /\ stage'  = [stage EXCEPT ![r] = "done"]
    /\ answer' = [answer EXCEPT ![r] = a]
    /\ UNCHANGED <<call, held>>

FirstStage(op) ==
    CASE op = "createStore" -> "saveStore"
      [] op = "deleteEvent" -> "findEvent"
      [] OTHER -> "findStore"

Receive(r) ==
    /\ stage[r] = "new"
    /\ \E c \in Calls :
          /\ call'  = [call EXCEPT ![r] = c]
          /\ stage' = [stage EXCEPT ![r] = FirstStage(c.op)]
    /\ UNCHANGED <<db, held, answer>>

-----------------------------------------------------------------------------
(* Whose store it is *)

\* get_event: delete_event keeps the row it has read.
FindEvent(r) ==
    /\ stage[r] = "findEvent"
    /\ \/ /\ \A e \in events : e.id # call[r].target
          /\ Reply(r, "EVENT_001")
       \/ \E e \in events :
             /\ e.id = call[r].target
             /\ held'  = [held EXCEPT ![r] = e.store]
             /\ stage' = [stage EXCEPT ![r] = "findStore"]
             /\ UNCHANGED <<call, answer>>
    /\ UNCHANGED db

\* The store whose owner the request has to be.
StoreOf(r) == IF call[r].op = "deleteEvent" THEN held[r] ELSE call[r].target

\* Faulty variant: a store that is there is everybody's.
AnyoneOwns(r) == \E s \in stores : s.id = StoreOf(r)

Owned(r) == \E s \in stores : s.id = StoreOf(r) /\ s.owner = call[r].user

AfterCheck(op) ==
    CASE op = "deleteStore" -> "deleteStore"
      [] op = "createEvent" -> "deploy"
      [] OTHER -> "deleteEvent"

\* delete_event does not tell a missing store from one of another owner.
FindStore(r) ==
    /\ stage[r] = "findStore"
    /\ \/ Owned(r) /\ Proceed(r, AfterCheck(call[r].op))
       \/ /\ ~Owned(r)
          /\ Reply(r, IF /\ call[r].op # "deleteEvent"
                         /\ \A s \in stores : s.id # StoreOf(r)
                        THEN "STORE_001" ELSE "AUTH_007")
    /\ UNCHANGED db

-----------------------------------------------------------------------------
(* create_store and create_event *)

SaveStore(r) ==
    /\ stage[r] = "saveStore"
    /\ stores' = stores \union {[id |-> r, owner |-> call[r].user]}
    /\ Proceed(r, "refreshStore")
    /\ UNCHANGED <<events, applied, deployed>>

\* Faulty variant: the address is computed, its deployment not waited for.
DeployUnmined(r) ==
    /\ stage[r] = "deploy"
    /\ \/ Proceed(r, "saveEvent")
       \/ Reply(r, "500")
    /\ UNCHANGED db

\* deploy_contract returns the address of a mined deployment, or raises, be it
\* before the transaction is sent or while a sent one is not mined yet.
Deploy(r) ==
    /\ stage[r] = "deploy"
    /\ \/ deployed' = deployed \union {r} /\ Proceed(r, "saveEvent")
       \/ deployed' \in {deployed, deployed \union {r}} /\ Reply(r, "500")
    /\ UNCHANGED <<stores, events, applied>>

NewEvent(r) == [id |-> r, store |-> call[r].target, contract |-> r]

\* ForeignKey("stores.id").
StoreKeyViolated(row) == ForeignKeys /\ \A s \in stores : s.id # row.store

\* Faulty variant: the IntegrityError becomes "store not found".
TranslatedConflict(r) ==
    /\ stage[r] = "saveEvent"
    /\ IF StoreKeyViolated(NewEvent(r)) \/ call[r].reward = "overflows"
         THEN Reply(r, "STORE_001") /\ UNCHANGED events
         ELSE events' = events \union {NewEvent(r)} /\ Proceed(r, "refreshEvent")
    /\ UNCHANGED <<stores, applied, deployed>>

\* A constraint or a reward that does not fit raises, with the contract
\* deployed already; nothing catches either.
SaveEvent(r) ==
    /\ stage[r] = "saveEvent"
    /\ IF StoreKeyViolated(NewEvent(r)) \/ call[r].reward = "overflows"
         THEN Reply(r, "500") /\ UNCHANGED events
         ELSE events' = events \union {NewEvent(r)} /\ Proceed(r, "refreshEvent")
    /\ UNCHANGED <<stores, applied, deployed>>

\* save commits, then refreshes the row, which raises when the row is gone.
Refresh(r) ==
    /\ \/ /\ stage[r] = "refreshStore"
          /\ Reply(r, IF \E s \in stores : s.id = r THEN "200" ELSE "500")
       \/ /\ stage[r] = "refreshEvent"
          /\ Reply(r, IF \E e \in events : e.id = r THEN "200" ELSE "500")
    /\ UNCHANGED db

-----------------------------------------------------------------------------
(* delete_store and delete_event: a row that is gone already is no error   *)

\* Faulty variant: the answer is 200 although the row has to stay.
UncheckedDelete(r) ==
    /\ stage[r] = "deleteStore"
    /\ IF ForeignKeys /\ \E e \in events : e.store = call[r].target
         THEN UNCHANGED stores
         ELSE stores' = {s \in stores : s.id # call[r].target}
    /\ Reply(r, "200")
    /\ UNCHANGED <<events, applied, deployed>>

DeleteStore(r) ==
    /\ stage[r] = "deleteStore"
    /\ IF ForeignKeys /\ \E e \in events : e.store = call[r].target
         THEN Reply(r, "500") /\ UNCHANGED stores
         ELSE /\ stores' = {s \in stores : s.id # call[r].target}
              /\ Reply(r, "200")
    /\ UNCHANGED <<events, applied, deployed>>

DeleteEvent(r) ==
    /\ stage[r] = "deleteEvent"
    /\ IF ForeignKeys /\ call[r].target \in applied
         THEN Reply(r, "500") /\ UNCHANGED events
         ELSE /\ events' = {e \in events : e.id # call[r].target}
              /\ Reply(r, "200")
    /\ UNCHANGED <<stores, applied, deployed>>

-----------------------------------------------------------------------------
(* The rest of the program *)

\* ApplicationServiceImpl.create_application, its commit: the row stays, for only
\* a PENDING application is ever deleted.  (Without foreign keys the event may be
\* gone by then, but nothing here depends on applied in that case.)
Apply(e) ==
    /\ \E row \in events : row.id = e
    /\ applied' = applied \union {e}
    /\ UNCHANGED <<stores, events, deployed, call, held, stage, answer>>

\* The await a request stands at raises.
RequestFails(r) == Active(r) /\ Reply(r, "500") /\ UNCHANGED db

\* The process dies; a deployment that was sent is mined nevertheless.
Crash ==
    /\ \E r \in Requests : Active(r)
    /\ \E sent \in SUBSET {r \in Requests : stage[r] = "deploy"} :
          deployed' = deployed \union sent
    /\ stage'  = [r \in Requests |-> IF Active(r) THEN "done" ELSE stage[r]]
    /\ answer' = [r \in Requests |-> IF Active(r) THEN "lost" ELSE answer[r]]
    /\ UNCHANGED <<stores, events, applied, call, held>>

Quiescent == (\A r \in Requests : stage[r] = "done") /\ UNCHANGED vars

-----------------------------------------------------------------------------
Init ==
    /\ stores = PriorStores
    /\ events = PriorEvents
    /\ applied = {}
    /\ deployed = PriorContracts
    /\ call = [r \in Requests |-> NoCall]
    /\ held = [r \in Requests |-> NoStore]
    /\ stage = [r \in Requests |-> "new"]
    /\ answer = [r \in Requests |-> "none"]

\* The coroutine of r resumes and runs to its next await.
Resume(r) ==
    \/ FindEvent(r) \/ FindStore(r) \/ SaveStore(r) \/ Deploy(r)
    \/ SaveEvent(r) \/ Refresh(r) \/ DeleteStore(r) \/ DeleteEvent(r)

Next ==
    \/ \E r \in Requests : Receive(r) \/ Resume(r) \/ RequestFails(r)
    \/ \E e \in EventIds : Apply(e)
    \/ Crash
    \/ Quiescent

Spec == Init /\ [][Next]_vars

-----------------------------------------------------------------------------
(* Properties *)

\* The rows have the columns of store/models.py and event/models.py, and a
\* request stands at an await of its own handler.
TypeOK ==
    /\ stores \subseteq Stores
    /\ events \subseteq Events
    /\ applied \subseteq EventIds
    /\ deployed \subseteq Contracts
    /\ call \in [Requests -> Calls \union {NoCall}]
    /\ held \in [Requests -> StoreIds \union {NoStore}]
    /\ stage \in [Requests -> Stages]
    /\ answer \in [Requests -> Answers]

\* delete_event has taken the event away.
Deleted(e) ==
    \E r \in Requests :
        call[r].op = "deleteEvent" /\ call[r].target = e /\ answer[r] = "200"

\* The server pays for every deployment, so none gets lost in silence: a refused
\* request has deployed nothing, and a contract without an event is about to be
\* stored, or its owner was told of an error or nothing at all, or deleted it.
\* That a contract does get lost with a 500 is the code's way (a store deleted
\* while create_event waits, a reward too large for its column).
ContractsAccountedFor ==
    /\ \A r \in Requests : answer[r] \in Refusals => r \notin deployed
    /\ \A r \in Requests \intersect deployed :
          \/ \E e \in events : e.contract = r
          \/ stage[r] = "saveEvent"
          \/ answer[r] \in {"500", "lost"}
          \/ Deleted(r)
    /\ \A e \in PriorEvents : e \in events \/ Deleted(e.id)

\* What is deleted stays deleted: after the 200 of delete_store or delete_event
\* no request that was under way brings the row back.
DeletedIsGone ==
    \A r \in Requests : answer[r] = "200" =>
        /\ call[r].op = "deleteStore" => \A s \in stores : s.id # call[r].target
        /\ call[r].op = "deleteEvent" => \A e \in events : e.id # call[r].target

\* The contract of an event is mined before the event can be read, and pays
\* for no other event.
EventsHaveContracts ==
    /\ \A e \in events : e.contract \in deployed \union {NoContract}
    /\ \A e, f \in events :
          e.contract = f.contract /\ e.contract # NoContract => e = f

\* Where the database enforces foreign keys, events refer to stores and
\* applications to events, although a store may be deleted while create_event
\* waits for its contract.
CatalogueConsistent ==
    /\ \A e \in events : \E s \in stores : s.id = e.store
    /\ \A a \in applied : \E e \in events : e.id = a

\* The owner of a store, now or before it was deleted.
OwnerOf(s, u) ==
    \/ \E row \in PriorStores : row.id = s /\ row.owner = u
    \/ s \in Requests /\ call[s].op = "createStore" /\ call[s].user = u

\* Only a request of the store's owner takes a store or an event away, however
\* long ago its check of the owner was.
OnlyOwnersDelete ==
    [][/\ \A s \in stores \ stores' : \E r \in Requests :
             stage[r] = "deleteStore" /\ OwnerOf(s.id, call[r].user)
       /\ \A e \in events \ events' : \E r \in Requests :
             stage[r] = "deleteEvent" /\ OwnerOf(e.store, call[r].user)]_vars

-----------------------------------------------------------------------------
(* The inductive invariant *)

Op(r, ops) == call[r] \in Calls /\ call[r].op \in ops

\* A request stands at an await of the operation it was called for.
CallMatchesStage ==
    \A r \in Requests :
        /\ stage[r] \in {"saveStore", "refreshStore"} => Op(r, {"createStore"})
        /\ stage[r] = "findStore" =>
              Op(r, {"deleteStore", "createEvent", "deleteEvent"})
        /\ stage[r] = "deleteStore" => Op(r, {"deleteStore"})
        /\ stage[r] \in {"deploy", "saveEvent", "refreshEvent"} =>
              Op(r, {"createEvent"})
        /\ stage[r] \in {"findEvent", "deleteEvent"} => Op(r, {"deleteEvent"})
        /\ stage[r] # "done" => answer[r] = "none"
        /\ stage[r] = "new" => call[r] = NoCall
        /\ stage[r] # "new" => call[r] \in Calls

\* Rows that a request inserted are named after it, and it has passed its save.
RowsHaveOrigin ==
    /\ \A s \in stores : s \in PriorStores \/
          /\ s.id \in Requests /\ s.owner = call[s.id].user
          /\ Op(s.id, {"createStore"})
          /\ \/ stage[s.id] = "refreshStore"
             \/ stage[s.id] = "done" /\ answer[s.id] \in {"200", "500", "lost"}
    /\ \A e \in events : e \in PriorEvents \/
          /\ e.id \in Requests /\ e = NewEvent(e.id)
          /\ Op(e.id, {"createEvent"})
          /\ \/ stage[e.id] = "refreshEvent"
             \/ stage[e.id] = "done" /\ answer[e.id] \in {"200", "500", "lost"}

\* Contracts are deployed by create_event, after its checks and before its save.
ContractsHaveOrigin ==
    /\ PriorContracts \subseteq deployed
    /\ \A e \in events : e.contract \in deployed \union {NoContract}
    /\ \A c \in deployed \intersect Requests :
          \/ stage[c] \in {"saveEvent", "refreshEvent"}
          \/ stage[c] = "done" /\ answer[c] \in {"200", "500", "lost"}
    /\ \A r \in Requests : stage[r] \in {"saveEvent", "refreshEvent"} =>
          r \in deployed

\* The store of an event, also after the event was deleted.
EventStore(e, s) ==
    \/ \E row \in PriorEvents : row.id = e /\ row.store = s
    \/ e \in Requests /\ Op(e, {"createEvent"}) /\ call[e].target = s

\* The check of the owner holds until the delete: neither the owner of a store
\* nor the store of an event ever changes.
ChecksLast ==
    \A r \in Requests :
        /\ stage[r] = "deleteStore" => OwnerOf(call[r].target, call[r].user)
        /\ stage[r] = "deleteEvent" => OwnerOf(held[r], call[r].user)
        /\ stage[r] \in {"findStore", "deleteEvent"} /\ call[r].op = "deleteEvent" =>
              EventStore(call[r].target, held[r])

\* A row is deleted only after it was inserted, so no insert is still to come.
TargetsWereThere ==
    \A r \in Requests : LET t == call[r].target IN
        /\ /\ Op(r, {"deleteStore"}) /\ t \in Requests
           /\ stage[r] = "deleteStore" \/ answer[r] = "200"
           => stage[t] \in {"refreshStore", "done"}
        /\ /\ Op(r, {"deleteEvent"}) /\ t \in Requests
           /\ stage[r] \in {"findStore", "deleteEvent"} \/ answer[r] = "200"
           => stage[t] \in {"refreshEvent", "done"}

\* Inductive: every await of the four operations keeps all of this, in whatever
\* order the coroutines and the deletions of others run.
EventInv ==
    /\ TypeOK
    /\ CallMatchesStage
    /\ RowsHaveOrigin
    /\ ContractsHaveOrigin
    /\ ChecksLast
    /\ TargetsWereThere
    /\ DeletedIsGone
    /\ ForeignKeys => CatalogueConsistent
=============================================================================
