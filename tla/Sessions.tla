------------------------------ MODULE Sessions ------------------------------
(***************************************************************************)
(* The database sessions of the requests and the connection pool they      *)
(* share: app/db/session.py, with every handler of app/auth, app/store,    *)
(* app/event and app/application that uses one, as its awaits in order.    *)
(*                                                                         *)
(* A session has no connection until its first statement.  It checks one   *)
(* out of the engine's pool then, keeps it while its transaction is open,  *)
(* whatever else the handler awaits meanwhile, and gives it back at a      *)
(* commit or when get_db closes the session, which is after the response   *)
(* and its background tasks.  Objects stay readable after a commit without *)
(* a statement (expire_on_commit=False).                                   *)
(***************************************************************************)
EXTENDS Naturals, Sequences, FiniteSets

CONSTANTS
    Requests,   \* the HTTP requests of one run of the server
    Capacity,   \* connections the pool may open: pool_size and max_overflow
    Served      \* the operations the requests of this run ask for

ASSUME SessionsAssumption == IsFiniteSet(Requests) /\ Capacity \in Nat \ {0}

-----------------------------------------------------------------------------
(* The handlers.  "check" is a SELECT whose result may refuse the request, *)
(* "read" one that cannot, "write" a flush, "commit" the flush of what is  *)
(* pending with its COMMIT.  "image", "deploy" and "mail" await a service  *)
(* outside, "reply" sends the response, "payout" is the background task.   *)

\* Faulty variant: the reviewer is looked up before the application is saved.
EarlyLookup ==
    <<"check", "check", "image", "read", "commit", "reply", "payout">>

\* create_application for an event with a contract: find_event_by_id,
\* find_by_event_and_reviewer, the image, save_application, find_user_by_id.
CreateApplication ==
    <<"check", "check", "image", "commit", "read", "reply", "payout">>

CreateApplicationUnpaid == <<"check", "check", "image", "commit", "reply">>

ListMyApplications == <<"read", "read", "read", "reply">>

\* Faulty variant: the row is read again after its deletion.
CancelThenRefresh == <<"check", "commit", "read", "reply">>

CancelApplication == <<"check", "commit", "reply">>

SubmitReview == <<"check", "check", "write", "commit", "reply">>

CreateEvent == <<"check", "deploy", "commit", "read", "reply">>

DeleteEvent == <<"check", "check", "commit", "reply">>

ListEventApplications == <<"check", "check", "read", "read", "read", "reply">>

GetEvent == <<"check", "reply">>

ListOwnerEvents == <<"read", "reply">>

CreateStore == <<"commit", "read", "reply">>

DeleteStore == <<"check", "commit", "reply">>

GetStore == <<"check", "reply">>

ListStoreEvents == <<"check", "read", "reply">>

\* The count, the page, and the events of the stores on it.
ListStores == <<"read", "read", "read", "reply">>

CheckEmailDuplicate == <<"check", "reply">>

SendVerificationCode == <<"commit", "mail", "reply">>

ValidateVerificationCode == <<"check", "commit", "reply">>

Register == <<"check", "commit", "read", "reply">>

Login == <<"check", "reply">>

ChangePassword == <<"check", "commit", "read", "reply">>

ResetPassword == <<"check", "commit", "read", "mail", "reply">>

Program ==
    [createApplication |-> CreateApplication,
     createApplicationUnpaid |-> CreateApplicationUnpaid,
     listMyApplications |-> ListMyApplications,
     cancelApplication |-> CancelApplication,
     submitReview |-> SubmitReview,
     createEvent |-> CreateEvent, deleteEvent |-> DeleteEvent,
     listEventApplications |-> ListEventApplications, getEvent |-> GetEvent,
     listOwnerEvents |-> ListOwnerEvents,
     createStore |-> CreateStore, deleteStore |-> DeleteStore,
     getStore |-> GetStore,
     listStoreEvents |-> ListStoreEvents, listStores |-> ListStores,
     checkEmailDuplicate |-> CheckEmailDuplicate,
     sendVerificationCode |-> SendVerificationCode,
     validateVerificationCode |-> ValidateVerificationCode,
     register |-> Register, login |-> Login,
     changePassword |-> ChangePassword, resetPassword |-> ResetPassword]

Ops       == DOMAIN Program
Database  == {"check", "read", "write", "commit"}
Outside   == {"image", "deploy", "mail"}

\* Operations whose 200 says that something was stored.
Writing == {o \in Ops : \E i \in DOMAIN Program[o] : Program[o][i] = "commit"}
                \union {"submitReview"}

ASSUME ServedAssumption == Served \subseteq Ops

-----------------------------------------------------------------------------
VARIABLES
    op,         \* what each request asks for
    at,         \* its place in the program: the step it is about to make
    session,    \* its session: "none", "open" or "closed"
    conn,       \* the session's connection: "none", "waiting" or "held"
    durable,    \* whether a commit of the request has returned
    answer      \* the outcome of the request

vars == <<op, at, session, conn, durable, answer>>

Holders == {r \in Requests : conn[r] = "held"}
Free    == Cardinality(Holders) < Capacity

Open(r)  == session[r] = "open"
AtEnd(r) == at[r] > Len(Program[op[r]])
Step(r)  == Program[op[r]][at[r]]

\* The step that r is about to make is one of these.
Stands(r, steps) == Open(r) /\ ~AtEnd(r) /\ Step(r) \in steps

Advance(r) == at' = [at EXCEPT ![r] = @ + 1]

Arrive(r) ==
    /\ session[r] = "none"
    /\ \E o \in Served : op' = [op EXCEPT ![r] = o]
    /\ session' = [session EXCEPT ![r] = "open"]
    /\ UNCHANGED <<at, conn, durable, answer>>

\* A statement takes a connection out of the pool, or one that another session
\* just gave back: who waited longer has no right to it before a newcomer.
Checkout(r) ==
    /\ Stands(r, Database) /\ conn[r] # "held"
    /\ Free
    /\ conn' = [conn EXCEPT ![r] = "held"]
    /\ UNCHANGED <<op, at, session, durable, answer>>

\* All connections are out: the statement waits for one.
Queue(r) ==
    /\ Stands(r, Database) /\ conn[r] = "none"
    /\ ~Free
    /\ conn' = [conn EXCEPT ![r] = "waiting"]
    /\ UNCHANGED <<op, at, session, durable, answer>>

Execute(r) ==
    /\ Stands(r, Database \ {"commit"}) /\ conn[r] = "held"
    /\ Advance(r)
    /\ UNCHANGED <<op, session, conn, durable, answer>>

\* commit: what was added is flushed and committed, the connection given back.
Commit(r) ==
    /\ Stands(r, {"commit"}) /\ conn[r] = "held"
    /\ durable' = [durable EXCEPT ![r] = TRUE]
    /\ conn' = [conn EXCEPT ![r] = "none"]
    /\ Advance(r)
    /\ UNCHANGED <<op, session, answer>>

\* download_private and check_condition, deploy_contract, or send.
CallOutside(r) ==
    /\ Stands(r, Outside)
    /\ Advance(r)
    /\ UNCHANGED <<op, session, conn, durable, answer>>

Reply(r) ==
    /\ Stands(r, {"reply"})
    /\ answer' = [answer EXCEPT ![r] = "200"]
    /\ Advance(r)
    /\ UNCHANGED <<op, session, conn, durable>>

\* payout_safe catches whatever it runs into.
Payout(r) ==
    /\ Stands(r, {"payout"})
    /\ Advance(r)
    /\ UNCHANGED <<op, session, conn, durable, answer>>

\* Faulty variant: a session that fails is not closed.
CloseWithoutReturn(r, a) ==
    /\ session' = [session EXCEPT ![r] = "closed"]
    /\ answer' = [answer EXCEPT ![r] = a]
    /\ conn' = [conn EXCEPT ![r] = IF a = "500" THEN @ ELSE "none"]
    /\ UNCHANGED <<op, at, durable>>

\* async with AsyncSessionLocal(): what is not committed is rolled back, and
\* the connection goes back to the pool, however the handler ended.
Close(r, a) ==
    /\ session' = [session EXCEPT ![r] = "closed"]
    /\ answer' = [answer EXCEPT ![r] = a]
    /\ conn' = [conn EXCEPT ![r] = "none"]
    /\ UNCHANGED <<op, at, durable>>

Finish(r) == Open(r) /\ AtEnd(r) /\ Close(r, answer[r])

\* save_application turns the IntegrityError of its commit into a 409.
Applying == {"createApplication", "createApplicationUnpaid"}

\* An AppException: a check found the wrong thing, the image was refused, or the
\* application is there already.
Refuse(r) ==
    /\ \/ Stands(r, {"check"}) /\ conn[r] = "held"
       \/ Stands(r, {"image"})
       \/ Stands(r, {"commit"}) /\ conn[r] = "held" /\ op[r] \in Applying
    /\ Close(r, "refused")

\* The await raises anything else.
Fail(r) ==
    /\ Stands(r, Database \union Outside) /\ conn[r] # "waiting"
    /\ Close(r, "500")

\* No connection came back in the pool's 30 seconds: TimeoutError.
PoolTimeout(r) == conn[r] = "waiting" /\ Close(r, "timeout")

Quiescent == (\A r \in Requests : session[r] = "closed") /\ UNCHANGED vars

-----------------------------------------------------------------------------
Init ==
    /\ op = [r \in Requests |-> "login"]
    /\ at = [r \in Requests |-> 1]
    /\ session = [r \in Requests |-> "none"]
    /\ conn = [r \in Requests |-> "none"]
    /\ durable = [r \in Requests |-> FALSE]
    /\ answer = [r \in Requests |-> "none"]

\* The coroutine of r goes on as its code intends.
Resume(r) ==
    \/ Checkout(r) \/ Queue(r) \/ Execute(r) \/ Commit(r)
    \/ CallOutside(r) \/ Reply(r) \/ Payout(r) \/ Finish(r)

Next ==
    \/ \E r \in Requests :
          Arrive(r) \/ Resume(r) \/ Refuse(r) \/ Fail(r) \/ PoolTimeout(r)
    \/ Quiescent

Spec == Init /\ [][Next]_vars

\* Every await that is not for a connection comes to an end, and a session that
\* waits takes a connection that stays free.  Nothing is assumed of timeouts.
FairSpec == Spec /\ \A r \in Requests : WF_vars(Resume(r))

-----------------------------------------------------------------------------
(* Properties *)

TypeOK ==
    /\ op \in [Requests -> Ops]
    /\ at \in [Requests -> Nat \ {0}]
    /\ session \in [Requests -> {"none", "open", "closed"}]
    /\ conn \in [Requests -> {"none", "waiting", "held"}]
    /\ durable \in [Requests -> BOOLEAN]
    /\ answer \in [Requests -> {"none", "200", "refused", "500", "timeout"}]

\* What the client is told was stored is stored: no response leaves before the
\* commit of its handler, and no check of it comes after.
AnswersFollowCommits ==
    \A r \in Requests :
        /\ answer[r] = "200" /\ op[r] \in Writing => durable[r]
        /\ answer[r] = "refused" => ~durable[r]

\* A busy pool turns a request away with its change made only where a handler
\* reads again after its commit: a reviewer is approved and never paid, an
\* account or an event exists that its owner was not told of.  Every other
\* operation is done in full or not at all.
ExposedToPool ==
    {"createApplication", "createEvent", "createStore", "register",
     "changePassword", "resetPassword"}

TurnedAwayUndone ==
    \A r \in Requests :
        answer[r] = "timeout" /\ durable[r] => op[r] \in ExposedToPool

Paying == {r \in Requests : Stands(r, {"payout"})}

\* A payout runs while its session still has the connection that looked up the
\* reviewer: there are never more of them, racing for nonces, than connections.
PayoutsFitPool == Cardinality(Paying) <= Capacity

\* No session keeps a connection and waits for another one: every request comes
\* to an end although none ever gives up waiting.
EveryRequestEnds == \A r \in Requests : Open(r) ~> session[r] = "closed"

-----------------------------------------------------------------------------
(* The inductive invariant *)

\* A transaction is open before step i of o: a statement was made, no commit
\* since.
InTransaction(o, i) ==
    \E k \in 1 .. i - 1 :
        /\ Program[o][k] \in Database
        /\ \A m \in k .. i - 1 : Program[o][m] # "commit"

\* A session's connection is out exactly while its transaction is open; a
\* closed one has none.  More than the pool may open are never out.
ConnectionsCounted ==
    /\ Cardinality(Holders) <= Capacity
    /\ \A r \in Requests :
          /\ ~Open(r) => conn[r] = "none"
          /\ Open(r) /\ InTransaction(op[r], at[r]) => conn[r] = "held"
          /\ conn[r] = "waiting" => Stands(r, Database)

\* Where a request stands, and what it has committed and answered by then.
PlacesKnown ==
    \A r \in Requests :
        /\ session[r] = "none" => at[r] = 1
        /\ at[r] <= Len(Program[op[r]]) + 1
        /\ durable[r] <=>
              \E i \in 1 .. at[r] - 1 : Program[op[r]][i] = "commit"
        /\ session[r] = "none" => answer[r] = "none"
        /\ Open(r) => answer[r] =
              IF \E i \in 1 .. at[r] - 1 : Program[op[r]][i] = "reply"
              THEN "200" ELSE "none"

\* Inductive: every await of every handler keeps the pool's account.
SessionsInv ==
    /\ TypeOK
    /\ ConnectionsCounted
    /\ PlacesKnown
    /\ AnswersFollowCommits
    /\ TurnedAwayUndone
=============================================================================
