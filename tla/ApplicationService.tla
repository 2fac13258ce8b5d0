------------------------- MODULE ApplicationService -------------------------
(***************************************************************************)
(* Applications of reviewers to review events, and the reviews they        *)
(* submit: app/application (service_impl.py, repository_impl.py, models.py *)
(* and router.py).                                                         *)
(*                                                                         *)
(* Every HTTP request is one coroutine with a database session of its own. *)
(* The event loop runs another coroutine at every await, so a request is a *)
(* process whose program location is the await it stands at, and the       *)
(* action that leaves a location is the database statement (or the image   *)
(* validation) awaited there with everything up to the next await.  A      *)
(* statement reads the rows committed when it runs; what a request read    *)
(* earlier it keeps using.                                                 *)
(***************************************************************************)
EXTENDS Naturals, FiniteSets

CONSTANTS
    Requests,       \* the HTTP requests of one run of the server
    Users,          \* the users who are logged in (reviewer_id, user_id)
    Events,         \* the review events stored when the run starts
    OpenEvents,     \* those whose is_active is true: no code ever changes it
    ContractEvents, \* those with a contract_address
    PriorRows,      \* the application rows stored when the run starts
    ForeignKeys     \* TRUE: the database enforces foreign keys (PostgreSQL);
                    \* FALSE: it does not (SQLite without its pragma)

(***************************************************************************)
(* A row of table applications.  A row that a request inserts has the      *)
(* request for its id: uuid4 gives every Application a fresh one.          *)
(***************************************************************************)
PriorIds == {row.id : row \in PriorRows}
AppIds   == Requests \union PriorIds
Statuses == {"PENDING", "APPROVED", "REJECTED"}
Rows     == [id : AppIds, event : Events, reviewer : Users, status : Statuses]

Pair(row) == <<row.event, row.reviewer>>

ASSUME EventsAssumption ==
    OpenEvents \subseteq Events /\ ContractEvents \subseteq Events

ASSUME ForeignKeysAssumption == ForeignKeys \in BOOLEAN

ASSUME PriorRowsAssumption ==
    /\ PriorRows \subseteq [id : PriorIds, event : Events,
                            reviewer : Users, status : Statuses]
    /\ PriorIds \intersect Requests = {}
    /\ \A x, y \in PriorRows :
          x.id = y.id \/ Pair(x) = Pair(y) => x = y

VARIABLES
    events,         \* the events that still have a row
    applications,   \* table applications
    submissions,    \* table review_submissions: id and application_id
    payouts,        \* every payout_safe task handed to BackgroundTasks
    call,           \* what each request asks for
    stage,          \* the await each request stands at
    answer          \* the outcome of each request

db    == <<events, applications, submissions, payouts>>
vars  == <<db, call, stage, answer>>

ApplyCalls == [op : {"apply"}, user : Users, target : Events]
AppCalls   == [op : {"cancel", "submit"}, user : Users, target : AppIds]
NoCall     == [op |-> "none"]

Stages == {"new", "findEvent", "findExisting", "validateImage",
           "saveApplication", "findReviewer", "findApplication", "delete",
           "findSubmission", "saveReview", "done"}

\* Error codes of core/exceptions.py that refuse a request.
Refusals == {"GEN_005", "EVENT_001", "GEN_003", "APPLICATION_001",
             "APPLICATION_002", "APPLICATION_003", "IMAGE_001", "IMAGE_002"}

\* "IntegrityError": a constraint failed and nothing caught it (status 500).
\* "500": a service the request needs failed.  "lost": the process died.
Answers == Refusals \union {"none", "200", "IntegrityError", "500", "lost"}

Active(r) == stage[r] \notin {"new", "done"}

Proceed(r, next) ==
    stage' = [stage EXCEPT ![r] = next] /\ UNCHANGED <<call, answer>>

Reply(r, a) ==
    /\ stage'  = [stage EXCEPT ![r] = "done"]
    /\ answer' = [answer EXCEPT ![r] = a]
    /\ UNCHANGED call

Receive(r, c, first) ==
    /\ stage[r] = "new"
    /\ call'  = [call EXCEPT ![r] = c]
    /\ stage' = [stage EXCEPT ![r] = first]
    /\ UNCHANGED <<db, answer>>

-----------------------------------------------------------------------------
(* POST /applications: create_application *)

ReceiveApply(r) ==
    \E c \in ApplyCalls : Receive(r, c, "findEvent")

\* The wallet address does not match _ETHEREUM_ADDRESS_RE.
RejectWallet(r) ==
    /\ stage[r] = "new"
    /\ \E c \in ApplyCalls : call' = [call EXCEPT ![r] = c]
    /\ stage'  = [stage EXCEPT ![r] = "done"]
    /\ answer' = [answer EXCEPT ![r] = "GEN_005"]
    /\ UNCHANGED db

FindEvent(r) ==
    /\ stage[r] = "findEvent"
    /\ LET e == call[r].target
       IN  \/ e \notin events /\ Reply(r, "EVENT_001")
           \/ e \in events \ OpenEvents /\ Reply(r, "GEN_003")
           \/ e \in events \intersect OpenEvents /\ Proceed(r, "findExisting")
    /\ UNCHANGED db

Applied(r) ==
    \E row \in applications : Pair(row) = <<call[r].target, call[r].user>>

FindExisting(r) ==
    /\ stage[r] = "findExisting"
    /\ \/ Applied(r) /\ Reply(r, "APPLICATION_003")
       \/ ~Applied(r) /\ Proceed(r, "validateImage")
    /\ UNCHANGED db

\* download_private: S3 does not have the image.
ImageMissing(r) == Reply(r, "IMAGE_002")

\* check_condition: the verdict of the vision model is FAIL.
ConditionNotMet(r) == Reply(r, "IMAGE_001")

\* Two awaits on services outside, none of which reads or writes the database.
ValidateImage(r) ==
    /\ stage[r] = "validateImage"
    /\ \/ Proceed(r, "saveApplication")
       \/ ImageMissing(r) \/ ConditionNotMet(r)
    /\ UNCHANGED db

NewRow(r) ==
    [id |-> r, event |-> call[r].target, reviewer |-> call[r].user,
     status |-> "APPROVED"]

\* Faulty variant: no constraint besides the primary key.
OnlyPrimaryKey(row) ==
    \E other \in applications : other.id = row.id

\* UniqueConstraint("event_id", "reviewer_id").
UniqueViolated(row) ==
    \E other \in applications : Pair(other) = Pair(row)

\* ForeignKey("events.id"): users have no delete, so reviewer_id always holds.
EventKeyViolated(row) == ForeignKeys /\ row.event \notin events

\* Faulty variant: the IntegrityError is caught and dropped.
IgnoredConflict(r) ==
    /\ stage[r] = "saveApplication"
    /\ IF UniqueViolated(NewRow(r)) \/ EventKeyViolated(NewRow(r))
         THEN UNCHANGED applications
         ELSE applications' = applications \union {NewRow(r)}
    /\ IF NewRow(r).event \in ContractEvents THEN Proceed(r, "findReviewer")
                                             ELSE Reply(r, "200")
    /\ UNCHANGED <<events, submissions, payouts>>

\* save_application turns every IntegrityError of the commit into "already
\* applied".  The event the request holds tells it whether there is a contract.
SaveApplication(r) ==
    /\ stage[r] = "saveApplication"
    /\ LET row == NewRow(r)
       IN  IF UniqueViolated(row) \/ EventKeyViolated(row)
             THEN Reply(r, "APPLICATION_003") /\ UNCHANGED applications
             ELSE /\ applications' = applications \union {row}
                  /\ IF row.event \in ContractEvents
                       THEN Proceed(r, "findReviewer")
                       ELSE Reply(r, "200")
    /\ UNCHANGED <<events, submissions, payouts>>

Payout(r) ==
    [application |-> r, event |-> call[r].target, reviewer |-> call[r].user]

\* find_user_by_id, then add_task: the task starts once the answer is sent.
AddPayoutTask(r) ==
    /\ stage[r] = "findReviewer"
    /\ payouts' = payouts \union {Payout(r)}
    /\ Reply(r, "200")
    /\ UNCHANGED <<events, applications, submissions>>

-----------------------------------------------------------------------------
(* DELETE /application/{id} and POST /application/{id}/submission          *)

ReceiveAppCall(r) ==
    \E c \in AppCalls : Receive(r, c, "findApplication")

\* Faulty variant: only a rejected application is refused.
NotRejected(row) == row.status # "REJECTED"

\* cancel_application: application.status != "PENDING" refuses.
Cancellable(row) == row.status = "PENDING"

FindApplication(r) ==
    /\ stage[r] = "findApplication"
    /\ \/ /\ \A row \in applications : row.id # call[r].target
          /\ Reply(r, "APPLICATION_002")
       \/ \E row \in applications :
             /\ row.id = call[r].target
             /\ \/ row.reviewer # call[r].user /\ Reply(r, "APPLICATION_001")
                \/ /\ row.reviewer = call[r].user
                   /\ \/ call[r].op = "submit" /\ Proceed(r, "findSubmission")
                      \/ /\ call[r].op = "cancel"
                         /\ IF Cancellable(row) THEN Proceed(r, "delete")
                                                ELSE Reply(r, "GEN_003")
    /\ UNCHANGED db

Reviewed(a) == \E s \in submissions : s.application = a

\* ForeignKey("applications.id") of the submissions that refer to the row.
ReferencedRow(r) == ForeignKeys /\ Reviewed(call[r].target)

\* A row another request deleted first matches nothing: a warning, still 200.
DeleteApplication(r) ==
    /\ stage[r] = "delete"
    /\ IF ReferencedRow(r)
         THEN Reply(r, "IntegrityError") /\ UNCHANGED applications
         ELSE /\ applications' = {row \in applications : row.id # call[r].target}
              /\ Reply(r, "200")
    /\ UNCHANGED <<events, submissions, payouts>>

FindSubmission(r) ==
    /\ stage[r] = "findSubmission"
    /\ IF Reviewed(call[r].target) THEN Reply(r, "APPLICATION_003")
                                   ELSE Proceed(r, "saveReview")
    /\ UNCHANGED db

\* The unique column application_id, and its foreign key.
SubmissionViolates(r) ==
    \/ Reviewed(call[r].target)
    \/ ForeignKeys /\ \A row \in applications : row.id # call[r].target

\* save_review: flush and commit are one transaction, and a second insert of
\* the same key waits in its flush until the first commits.  Nothing catches
\* the IntegrityError of the flush.
SaveReview(r) ==
    /\ stage[r] = "saveReview"
    /\ IF SubmissionViolates(r)
         THEN Reply(r, "IntegrityError") /\ UNCHANGED submissions
         ELSE /\ submissions' = submissions \union
                                  {[id |-> r, application |-> call[r].target]}
              /\ Reply(r, "200")
    /\ UNCHANGED <<events, applications, payouts>>

-----------------------------------------------------------------------------
(* Failures and the rest of the program *)

\* The await a request stands at raises: database, S3 or the vision model.
RequestFails(r) == Active(r) /\ Reply(r, "500") /\ UNCHANGED db

\* The process dies with every request in it; the database stays.
Crash ==
    /\ \E r \in Requests : Active(r)
    /\ stage'  = [r \in Requests |-> IF Active(r) THEN "done" ELSE stage[r]]
    /\ answer' = [r \in Requests |-> IF Active(r) THEN "lost" ELSE answer[r]]
    /\ UNCHANGED <<db, call>>

\* EventServiceImpl.delete_event, its commit: an event that applications refer
\* to stays where the database enforces foreign keys.
DeleteEvent(e) ==
    /\ e \in events
    /\ ForeignKeys => \A row \in applications : row.event # e
    /\ events' = events \ {e}
    /\ UNCHANGED <<applications, submissions, payouts, call, stage, answer>>

\* Every request has been answered: the server waits for more.
Quiescent == (\A r \in Requests : stage[r] = "done") /\ UNCHANGED vars

-----------------------------------------------------------------------------
Init ==
    /\ events = Events
    /\ applications = PriorRows
    /\ submissions = {}
    /\ payouts = {}
    /\ call = [r \in Requests |-> NoCall]
    /\ stage = [r \in Requests |-> "new"]
    /\ answer = [r \in Requests |-> "none"]

Arrive(r) == ReceiveApply(r) \/ RejectWallet(r) \/ ReceiveAppCall(r)

\* The coroutine of r resumes and runs to its next await.
Resume(r) ==
    \/ FindEvent(r) \/ FindExisting(r) \/ ValidateImage(r)
    \/ SaveApplication(r) \/ AddPayoutTask(r)
    \/ FindApplication(r) \/ DeleteApplication(r)
    \/ FindSubmission(r) \/ SaveReview(r)

Next ==
    \/ \E r \in Requests : Arrive(r) \/ Resume(r) \/ RequestFails(r)
    \/ \E e \in Events : DeleteEvent(e)
    \/ Crash
    \/ Quiescent

Spec == Init /\ [][Next]_vars

-----------------------------------------------------------------------------
(* Properties *)

\* The columns hold what models.py declares, Enum "application_status" included,
\* and a request stands at an await of its own handler.
TypeOK ==
    /\ events \subseteq Events
    /\ applications \subseteq Rows
    /\ submissions \subseteq [id : Requests, application : AppIds]
    /\ payouts \subseteq [application : Requests, event : Events, reviewer : Users]
    /\ call \in [Requests -> ApplyCalls \union AppCalls \union {NoCall}]
    /\ stage \in [Requests -> Stages]
    /\ answer \in [Requests -> Answers]

\* At most one application of a reviewer to an event, although two requests
\* may both pass the check before either inserts (README: duplicate
\* applications are prevented by the UniqueConstraint).
OneApplicationPerPair ==
    \A x, y \in applications : Pair(x) = Pair(y) => x = y

\* A reviewer is paid for an event at most once, whatever is cancelled and
\* applied for again in between.
OnePayoutPerPair ==
    \A p, q \in payouts : Pair(p) = Pair(q) => p = q

\* Every payout ever scheduled keeps its approved row: the row is what stops
\* the reviewer from being paid again.
PayoutBacked ==
    \A p \in payouts : \E row \in applications :
        /\ row.id = p.application
        /\ row.status = "APPROVED"
        /\ Pair(row) = Pair(p)

\* At most one review of an application, although two requests may both find
\* none before either inserts.
OneReviewPerApplication ==
    \A s, t \in submissions : s.application = t.application => s = t

\* Rows refer to rows that exist, across the races of cancel_application with
\* submit_review and of delete_event with create_application.
ReferencesHold ==
    /\ \A s \in submissions : \E row \in applications : row.id = s.application
    /\ \A row \in applications : row.event \in events

\* What a request is told is what it did: 200 for an application means its row
\* is stored and, for an event with a contract, its payout is scheduled; a
\* refusal means that it left no row, no payout and no review behind.  A reviewer
\* who was approved and gets nothing saw an error, or no answer, in its place.
AnswersTellTheTruth ==
    \A r \in Requests :
        /\ answer[r] = "200" /\ call[r].op = "apply" =>
              /\ NewRow(r) \in applications
              /\ call[r].target \in ContractEvents => Payout(r) \in payouts
        /\ /\ call[r].op = "apply" /\ call[r].target \in ContractEvents
           /\ NewRow(r) \in applications /\ Payout(r) \notin payouts
           => stage[r] = "findReviewer" \/ answer[r] \in {"500", "lost"}
        /\ answer[r] \in Refusals \union {"IntegrityError"} =>
              /\ \A row \in applications : row.id # r
              /\ \A p \in payouts : p.application # r
              /\ \A s \in submissions : s.id # r

\* An approved application is never deleted or changed, by any request.
ApprovalIsFinal ==
    [][\A row \in applications : row.status = "APPROVED" => row \in applications']_vars

-----------------------------------------------------------------------------
(* The inductive invariant: where every row comes from, and what a request *)
(* that is between two awaits may rely on.                                 *)

ApplyStages == {"findEvent", "findExisting", "validateImage",
                "saveApplication", "findReviewer"}
AppStages   == {"findApplication", "delete", "findSubmission", "saveReview"}

\* A request has the call that its location belongs to, and no answer yet.
CallMatchesStage ==
    \A r \in Requests :
        /\ stage[r] \in ApplyStages => call[r] \in ApplyCalls
        /\ stage[r] \in AppStages => call[r] \in AppCalls
        /\ stage[r] = "done" => call[r] \in ApplyCalls \union AppCalls
        /\ stage[r] # "done" => answer[r] = "none"

\* Ids are unique.  A row is one of the stored ones, or the row of the request
\* it is named after, which has passed its commit.
RowsHaveOrigin ==
    /\ \A x, y \in applications : x.id = y.id => x = y
    /\ \A row \in applications :
          \/ row \in PriorRows
          \/ /\ row.id \in Requests
             /\ row = NewRow(row.id)
             /\ call[row.id] \in ApplyCalls
             /\ \/ stage[row.id] = "findReviewer"
                \/ /\ stage[row.id] = "done"
                   /\ answer[row.id] \in {"200", "500", "lost"}

\* The row a request has saved is there while it looks up the reviewer, and
\* after it has answered 200, when the payout of a contract is scheduled too.
SavedRowStays ==
    \A r \in Requests :
        /\ stage[r] = "findReviewer" =>
              NewRow(r) \in applications /\ call[r].target \in ContractEvents
        /\ answer[r] = "200" /\ call[r] \in ApplyCalls =>
              /\ NewRow(r) \in applications
              /\ call[r].target \in ContractEvents => Payout(r) \in payouts

\* Payouts and reviews come from requests that have answered 200.
EffectsHaveOrigin ==
    /\ \A p \in payouts :
          /\ p = Payout(p.application)
          /\ call[p.application] \in ApplyCalls
          /\ answer[p.application] = "200"
    /\ \A s \in submissions : answer[s.id] = "200" /\ call[s.id] \in AppCalls

\* Only an application that was stored at the start, PENDING, is deleted.
OnlyPendingDeleted ==
    \A r \in Requests : stage[r] = "delete" =>
        \E row \in PriorRows : row.id = call[r].target /\ row.status = "PENDING"

\* Inductive: create_application, cancel_application, submit_review and
\* delete_event keep all of this together, whatever the order of their awaits.
ApplicationInv ==
    /\ TypeOK
    /\ CallMatchesStage
    /\ RowsHaveOrigin
    /\ SavedRowStays
    /\ EffectsHaveOrigin
    /\ OnlyPendingDeleted
    /\ OneApplicationPerPair
    /\ OneReviewPerApplication
    /\ ForeignKeys => ReferencesHold

-----------------------------------------------------------------------------
\* The refinement mapping to the promise of rewards: a pair is approved when it
\* has an approved row, and paid when its payout is scheduled.
Promise == INSTANCE RewardPromise WITH
    Pairs    <- Events \X Users,
    Tokens   <- Requests,
    approved <- {Pair(row) : row \in {x \in applications : x.status = "APPROVED"}},
    payments <- {<<Pair(p), p.application>> : p \in payouts}

\* create_application, cancel_application and submit_review together never
\* pay a pair that is not approved, never pay one twice, and never take an
\* approval back: they implement the promise.
PromiseKept == Promise!Spec

=============================================================================
