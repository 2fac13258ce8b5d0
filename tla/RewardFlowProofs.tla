-------------------------- MODULE RewardFlowProofs --------------------------
(***************************************************************************)
(* The way of a reward, for every set of requests, users and events, every *)
(* table stored at the start, and with or without foreign keys.  Part one  *)
(* is about ApplicationService alone: its inductive invariant, the safety  *)
(* properties that follow from it and the refinement of RewardPromise.     *)
(* Part two is about RewardFlow: the invariants of the two services and    *)
(* their link hold together, no reviewer receives the reward of an event   *)
(* twice, and the composition implements RewardPromise with the            *)
(* transactions of the chain as the payments.                              *)
(***************************************************************************)
EXTENDS RewardFlow, FiniteSetTheorems, TLAPS

-----------------------------------------------------------------------------
(* Part one: the application service *)

\* A row kept under the name of its request determines the pair of its payout.
LEMMA PayoutPair ==
    ASSUME NEW r PROVE Pair(Payout(r)) = Pair(NewRow(r))
BY DEF Pair, Payout, NewRow

(***************************************************************************)
(* A step that writes no table.  What matters is what becomes of the       *)
(* requests that have written one: those that answered keep their answer,  *)
(* and one that looks up the reviewer goes on doing so or fails.           *)
(***************************************************************************)
QuietStep ==
    /\ UNCHANGED db
    /\ stage' \in [Requests -> Stages]
    /\ call' \in [Requests -> ApplyCalls \union AppCalls \union {NoCall}]
    /\ answer' \in [Requests -> Answers]
    /\ CallMatchesStage'
    /\ OnlyPendingDeleted'
    /\ \A r \in Requests :
          /\ stage[r] = "done" =>
                stage'[r] = "done" /\ call'[r] = call[r] /\ answer'[r] = answer[r]
          /\ stage[r] = "findReviewer" =>
                /\ call'[r] = call[r]
                /\ \/ stage'[r] = "findReviewer"
                   \/ stage'[r] = "done" /\ answer'[r] \in {"500", "lost"}
          /\ stage'[r] = "findReviewer" => stage[r] = "findReviewer"
          /\ answer'[r] = "200" => answer[r] = "200"

\* A step that moves r and touches no table keeps the invariant.
LEMMA QuietStepInv ==
    ASSUME ApplicationInv, QuietStep
    PROVE  ApplicationInv'
<1> USE DEF ApplicationInv, QuietStep, db
<1>1. TypeOK'
  BY DEF TypeOK
<1>2. \A r \in Requests : answer[r] = "200" => stage[r] = "done"
  BY DEF CallMatchesStage
<1>3. RowsHaveOrigin'
  BY DEF RowsHaveOrigin, NewRow
<1>4. SavedRowStays'
  BY <1>2 DEF SavedRowStays, NewRow, Payout
<1>5. EffectsHaveOrigin'
  <2>1. \A p \in payouts : p.application \in Requests
    BY DEF TypeOK
  <2>2. \A s \in submissions : s.id \in Requests
    BY DEF TypeOK
  <2>3. QED
    BY <1>2, <2>1, <2>2 DEF EffectsHaveOrigin, Payout
<1>6. (OneApplicationPerPair /\ OneReviewPerApplication
        /\ (ForeignKeys => ReferencesHold))'
  BY DEF OneApplicationPerPair, OneReviewPerApplication, ReferencesHold, Pair
<1>7. QED
  BY <1>1, <1>3, <1>4, <1>5, <1>6

\* The database at the start of the run satisfies the invariant.
LEMMA InitInv == Init => ApplicationInv
<1> SUFFICES ASSUME Init PROVE ApplicationInv
  OBVIOUS
<1> USE DEF Init
<1>1. TypeOK
  BY PriorRowsAssumption
  DEF TypeOK, Rows, AppIds, PriorIds, Statuses, Stages, Answers, Refusals
<1>2. CallMatchesStage /\ OnlyPendingDeleted
  BY DEF CallMatchesStage, OnlyPendingDeleted, ApplyStages, AppStages
<1>3. RowsHaveOrigin /\ SavedRowStays /\ EffectsHaveOrigin
  BY PriorRowsAssumption DEF RowsHaveOrigin, SavedRowStays, EffectsHaveOrigin
<1>4. OneApplicationPerPair /\ OneReviewPerApplication
  BY PriorRowsAssumption DEF OneApplicationPerPair, OneReviewPerApplication
<1>5. ReferencesHold
  BY PriorRowsAssumption DEF ReferencesHold
<1>6. QED
  BY <1>1, <1>2, <1>3, <1>4, <1>5 DEF ApplicationInv

\* The arrival of a request: it gets its call, the tables stay.
LEMMA ArriveInv ==
    ASSUME ApplicationInv, NEW r \in Requests, Arrive(r)
    PROVE  ApplicationInv'
<1> USE DEF ApplicationInv
<1>1. PICK c \in ApplyCalls \union AppCalls :
         /\ stage[r] = "new"
         /\ call' = [call EXCEPT ![r] = c]
         /\ UNCHANGED db
         /\ \/ /\ stage' = [stage EXCEPT ![r] = "findEvent"]
               /\ c \in ApplyCalls /\ UNCHANGED answer
            \/ /\ stage' = [stage EXCEPT ![r] = "findApplication"]
               /\ c \in AppCalls /\ UNCHANGED answer
            \/ /\ stage' = [stage EXCEPT ![r] = "done"]
               /\ answer' = [answer EXCEPT ![r] = "GEN_005"]
  BY DEF Arrive, ReceiveApply, RejectWallet, ReceiveAppCall, Receive
<1>2. CallMatchesStage'
  BY <1>1 DEF CallMatchesStage, TypeOK, ApplyStages, AppStages
<1>3. OnlyPendingDeleted'
  BY <1>1 DEF OnlyPendingDeleted, TypeOK
<1>4. QuietStep
  BY <1>1, <1>2, <1>3
  DEF QuietStep, TypeOK, Stages, Answers, Refusals, CallMatchesStage
<1>5. QED
  BY <1>4, QuietStepInv

\* The awaits that only read, and the one that fails: r moves on or is answered.
LEMMA ReadInv ==
    ASSUME ApplicationInv, NEW r \in Requests,
           \/ FindEvent(r) \/ FindExisting(r) \/ ValidateImage(r)
           \/ FindApplication(r) \/ FindSubmission(r) \/ RequestFails(r)
    PROVE  ApplicationInv'
<1> USE DEF ApplicationInv
<1>1. /\ UNCHANGED <<db, call>>
      /\ stage[r] \notin {"new", "done"}
      /\ stage' \in [Requests -> Stages]
      /\ answer' \in [Requests -> Answers]
      /\ \A q \in Requests \ {r} : stage'[q] = stage[q] /\ answer'[q] = answer[q]
  BY DEF FindEvent, FindExisting, ValidateImage, ImageMissing,
         ConditionNotMet, FindApplication,
         FindSubmission, RequestFails, Active, Proceed, Reply, TypeOK,
         Stages, Answers, Refusals
<1>2. \/ /\ stage'[r] = "done"
         /\ answer'[r] \in Refusals \union {"500"}
      \/ /\ answer'[r] = answer[r]
         /\ stage'[r] \in ApplyStages \ {"findReviewer"}
         /\ stage[r] \in ApplyStages \ {"findReviewer"}
      \/ /\ answer'[r] = answer[r]
         /\ stage'[r] \in {"delete", "findSubmission", "saveReview"}
         /\ stage[r] \in AppStages
  BY DEF FindEvent, FindExisting, ValidateImage, ImageMissing,
         ConditionNotMet, FindApplication,
         FindSubmission, RequestFails, Active, Proceed, Reply, TypeOK,
         ApplyStages, AppStages, Refusals
<1>3. stage[r] = "findReviewer" => stage'[r] = "done" /\ answer'[r] = "500"
  BY DEF FindEvent, FindExisting, ValidateImage, ImageMissing,
         ConditionNotMet, FindApplication,
         FindSubmission, RequestFails, Active, Reply, TypeOK
<1>4. CallMatchesStage'
  <2>1. \A q \in Requests \ {r} : call'[q] = call[q] /\ stage'[q] = stage[q]
                                 /\ answer'[q] = answer[q]
    BY <1>1
  <2>2. call'[r] = call[r] /\ (call[r] \in ApplyCalls \/ call[r] \in AppCalls)
    BY <1>1, <1>2 DEF CallMatchesStage, TypeOK, Stages, ApplyStages, AppStages
  <2>3. stage'[r] # "done" => answer'[r] = "none"
    BY <1>1, <1>2 DEF CallMatchesStage
  <2>4. /\ stage'[r] \in ApplyStages => call'[r] \in ApplyCalls
        /\ stage'[r] \in AppStages => call'[r] \in AppCalls
    BY <1>1, <1>2 DEF CallMatchesStage, ApplyStages, AppStages
  <2>5. QED
    BY <2>1, <2>2, <2>3, <2>4 DEF CallMatchesStage
<1>5. OnlyPendingDeleted'
  <2>1. ASSUME stage'[r] = "delete"
        PROVE  \E row \in PriorRows : row.id = call[r].target
                                      /\ row.status = "PENDING"
    <3>1. PICK row \in applications :
                 row.id = call[r].target /\ Cancellable(row)
      BY <2>1, <1>1 DEF FindEvent, FindExisting, ValidateImage, ImageMissing,
                        ConditionNotMet, FindApplication,
           FindSubmission, RequestFails, Proceed, Reply, TypeOK
    <3>2. row \in PriorRows
      BY <3>1 DEF RowsHaveOrigin, Cancellable, NewRow
    <3>3. QED
      BY <3>1, <3>2 DEF Cancellable
  <2>2. QED
    BY <1>1, <2>1 DEF OnlyPendingDeleted
<1>6. QuietStep
  BY <1>1, <1>2, <1>3, <1>4, <1>5
  DEF QuietStep, TypeOK, CallMatchesStage, ApplyStages, Refusals
<1>7. QED
  BY <1>6, QuietStepInv

\* The death of the process: every request in it is over, the tables stay.
LEMMA CrashInv ==
    ASSUME ApplicationInv, Crash
    PROVE  ApplicationInv'
<1> USE DEF ApplicationInv, Crash
<1>1. CallMatchesStage'
  BY DEF CallMatchesStage, Active, TypeOK, Stages, ApplyStages, AppStages
<1>2. OnlyPendingDeleted'
  BY DEF OnlyPendingDeleted, Active
<1>3. QuietStep
  BY <1>1, <1>2
  DEF QuietStep, Active, TypeOK, Stages, Answers, CallMatchesStage
<1>4. QED
  BY <1>3, QuietStepInv

(***************************************************************************)
(* The steps that write a table.                                           *)
(***************************************************************************)

\* The two ends of the answered request, for the actions that answer one.
LEMMA ReplyStage ==
    ASSUME TypeOK, NEW r \in Requests, NEW a \in Answers, Reply(r, a)
    PROVE  /\ stage' \in [Requests -> Stages]
           /\ answer' \in [Requests -> Answers]
           /\ call' = call
           /\ stage'[r] = "done" /\ answer'[r] = a
           /\ \A q \in Requests \ {r} :
                 stage'[q] = stage[q] /\ answer'[q] = answer[q]
BY DEF Reply, TypeOK, Stages

\* save_application: the new row breaks no constraint, or there is none.
LEMMA SaveInv ==
    ASSUME ApplicationInv, NEW r \in Requests, SaveApplication(r)
    PROVE  ApplicationInv'
<1> USE DEF ApplicationInv
<1> DEFINE row == NewRow(r)
<1>1. stage[r] = "saveApplication" /\ call[r] \in ApplyCalls /\ answer[r] = "none"
  BY DEF SaveApplication, CallMatchesStage, ApplyStages
<1>2. CASE UniqueViolated(row) \/ EventKeyViolated(row)
  <2>1. Reply(r, "APPLICATION_003") /\ UNCHANGED db
    BY <1>2 DEF SaveApplication, db
  <2>2. "APPLICATION_003" \in Answers
    BY DEF Answers, Refusals
  <2>3. /\ stage' \in [Requests -> Stages]
        /\ answer' \in [Requests -> Answers]
        /\ call' = call
        /\ stage'[r] = "done" /\ answer'[r] = "APPLICATION_003"
        /\ \A q \in Requests \ {r} :
              stage'[q] = stage[q] /\ answer'[q] = answer[q]
    BY <2>1, <2>2, ReplyStage
  <2>4. CallMatchesStage'
    BY <1>1, <2>3 DEF CallMatchesStage, ApplyStages, AppStages
  <2>5. OnlyPendingDeleted'
    BY <2>3 DEF OnlyPendingDeleted
  <2>6. QuietStep
    BY <1>1, <2>1, <2>3, <2>4, <2>5 DEF QuietStep, TypeOK
  <2>7. QED
    BY <2>6, QuietStepInv
<1>3. CASE ~(UniqueViolated(row) \/ EventKeyViolated(row))
  <2>1. /\ applications' = applications \union {row}
        /\ UNCHANGED <<events, submissions, payouts, call>>
        /\ \/ /\ row.event \in ContractEvents
              /\ stage' = [stage EXCEPT ![r] = "findReviewer"]
              /\ UNCHANGED answer
           \/ /\ row.event \notin ContractEvents
              /\ stage' = [stage EXCEPT ![r] = "done"]
              /\ answer' = [answer EXCEPT ![r] = "200"]
    BY <1>3 DEF SaveApplication, Proceed, Reply
  <2>2. /\ row \in Rows /\ row.id = r /\ row.event = call[r].target
        /\ row.status = "APPROVED"
        /\ \A q : NewRow(q)' = NewRow(q) /\ Payout(q)' = Payout(q)
    BY <1>1, <2>1 DEF NewRow, Rows, ApplyCalls, AppIds, Statuses, Payout
  <2>3. TypeOK'
    BY <2>1, <2>2 DEF TypeOK, Stages, Answers
  <2>4. \A x \in applications : x.id # r
    BY <1>1, PriorRowsAssumption DEF RowsHaveOrigin, PriorIds
  <2>5. CallMatchesStage'
    BY <1>1, <2>1 DEF CallMatchesStage, TypeOK, ApplyStages, AppStages
  <2>6. RowsHaveOrigin'
    <3>1. \A x, y \in applications' : x.id = y.id => x = y
      BY <2>1, <2>2, <2>4 DEF RowsHaveOrigin
    <3>2. \A x \in applications : x \in PriorRows \/ x.id # r
      BY <2>4
    <3>3. \A q \in Requests \ {r} : stage'[q] = stage[q] /\ answer'[q] = answer[q]
      BY <2>1 DEF TypeOK
    <3>4. stage'[r] = "findReviewer" \/ (stage'[r] = "done" /\ answer'[r] = "200")
      BY <2>1 DEF TypeOK
    <3>5. QED
      BY <1>1, <2>1, <2>2, <2>4, <3>1, <3>3, <3>4 DEF RowsHaveOrigin
  <2>7. SavedRowStays'
    <3>1. \A q \in Requests \ {r} : stage'[q] = stage[q] /\ answer'[q] = answer[q]
      BY <2>1 DEF TypeOK
    <3>2. \/ /\ stage'[r] = "findReviewer" /\ answer'[r] = "none"
             /\ call[r].target \in ContractEvents
          \/ /\ stage'[r] = "done" /\ call[r].target \notin ContractEvents
      BY <1>1, <2>1, <2>2 DEF TypeOK
    <3>3. row \in applications' /\ \A x \in applications : x \in applications'
      BY <2>1
    <3>4. QED
      BY <2>1, <2>2, <3>1, <3>2, <3>3 DEF SavedRowStays
  <2>8. EffectsHaveOrigin'
    BY <1>1, <2>1, <2>2 DEF EffectsHaveOrigin, TypeOK
  <2>9. OnlyPendingDeleted'
    BY <2>1 DEF OnlyPendingDeleted, TypeOK
  <2>10. OneApplicationPerPair' /\ OneReviewPerApplication'
    BY <1>3, <2>1
    DEF OneApplicationPerPair, OneReviewPerApplication, UniqueViolated, Pair
  <2>11. (ForeignKeys => ReferencesHold)'
    BY <1>3, <2>1 DEF ReferencesHold, EventKeyViolated
  <2>12. QED
    BY <2>3, <2>5, <2>6, <2>7, <2>8, <2>9, <2>10, <2>11
<1>4. QED
  BY <1>2, <1>3

\* find_user_by_id and add_task: the payout of the row just saved.
LEMMA AddPayoutInv ==
    ASSUME ApplicationInv, NEW r \in Requests, AddPayoutTask(r)
    PROVE  ApplicationInv'
<1> USE DEF ApplicationInv
<1>1. /\ stage[r] = "findReviewer" /\ call[r] \in ApplyCalls
      /\ answer[r] = "none" /\ NewRow(r) \in applications
  BY DEF AddPayoutTask, CallMatchesStage, SavedRowStays, ApplyStages
<1>2. /\ payouts' = payouts \union {Payout(r)}
      /\ UNCHANGED <<events, applications, submissions>>
      /\ Reply(r, "200")
  BY DEF AddPayoutTask
<1>3. /\ stage' \in [Requests -> Stages]
      /\ answer' \in [Requests -> Answers]
      /\ call' = call
      /\ stage'[r] = "done" /\ answer'[r] = "200"
      /\ \A q \in Requests \ {r} : stage'[q] = stage[q] /\ answer'[q] = answer[q]
  BY <1>2, ReplyStage DEF Answers
<1>4. \A q : NewRow(q)' = NewRow(q) /\ Payout(q)' = Payout(q)
  BY <1>3 DEF NewRow, Payout
<1>5. TypeOK'
  BY <1>1, <1>2, <1>3 DEF TypeOK, Payout, ApplyCalls
<1>6. CallMatchesStage'
  BY <1>1, <1>3 DEF CallMatchesStage, ApplyStages, AppStages
<1>7. RowsHaveOrigin'
  BY <1>1, <1>2, <1>3, <1>4 DEF RowsHaveOrigin
<1>8. SavedRowStays'
  BY <1>1, <1>2, <1>3, <1>4 DEF SavedRowStays
<1>9. EffectsHaveOrigin'
  <2>1. \A p \in payouts : p.application \in Requests
    BY DEF TypeOK
  <2>2. \A s \in submissions : s.id \in Requests
    BY DEF TypeOK
  <2>3. Payout(r).application = r
    BY DEF Payout
  <2>4. QED
    BY <1>1, <1>2, <1>3, <1>4, <2>1, <2>2, <2>3 DEF EffectsHaveOrigin
<1>10. OnlyPendingDeleted'
  BY <1>3 DEF OnlyPendingDeleted
<1>11. OneApplicationPerPair' /\ OneReviewPerApplication'
        /\ (ForeignKeys => ReferencesHold)'
  BY <1>2 DEF OneApplicationPerPair, OneReviewPerApplication, ReferencesHold, Pair
<1>12. QED
  BY <1>5, <1>6, <1>7, <1>8, <1>9, <1>10, <1>11

\* Only a PENDING row of PriorRows goes, so no approved row and no payout's.
LEMMA DeleteRowInv ==
    ASSUME ApplicationInv, NEW r \in Requests, DeleteApplication(r)
    PROVE  /\ ApplicationInv'
           /\ \A row \in applications :
                 row.status = "APPROVED" => row \in applications'
<1> USE DEF ApplicationInv
<1>1. /\ stage[r] = "delete" /\ call[r] \in AppCalls /\ answer[r] = "none"
      /\ UNCHANGED <<events, submissions, payouts>>
      /\ applications' \subseteq applications
  BY DEF DeleteApplication, CallMatchesStage, AppStages
<1>2. PICK a \in {"200", "IntegrityError"} : Reply(r, a)
  BY DEF DeleteApplication
<1>3. /\ stage' \in [Requests -> Stages]
      /\ answer' \in [Requests -> Answers]
      /\ call' = call
      /\ stage'[r] = "done" /\ answer'[r] = a
      /\ \A q \in Requests \ {r} : stage'[q] = stage[q] /\ answer'[q] = answer[q]
  BY <1>2, ReplyStage DEF Answers
<1>4. \A q : NewRow(q)' = NewRow(q) /\ Payout(q)' = Payout(q)
  BY <1>3 DEF NewRow, Payout
<1>5. PICK old \in PriorRows : old.id = call[r].target /\ old.status = "PENDING"
  BY <1>1 DEF OnlyPendingDeleted
<1>6. \A row \in applications : row.id = call[r].target => row = old
  <2>1. TAKE row \in applications
  <2>2. HAVE row.id = call[r].target
  <2>3. row \in PriorRows
    BY <1>5, <2>2, PriorRowsAssumption DEF RowsHaveOrigin, PriorIds
  <2>4. QED
    BY <1>5, <2>2, <2>3, PriorRowsAssumption
<1>7. \A row \in applications :
         row.status = "APPROVED" => row \in applications'
  BY <1>5, <1>6 DEF DeleteApplication
<1>8. \A q \in Requests : NewRow(q) \in applications => NewRow(q) \in applications'
  BY <1>7 DEF NewRow
<1>9. CallMatchesStage'
  BY <1>1, <1>3 DEF CallMatchesStage, ApplyStages, AppStages
<1>10. RowsHaveOrigin'
  BY <1>1, <1>3, <1>4 DEF RowsHaveOrigin
<1>11. SavedRowStays'
  <2>1. call[r] \notin ApplyCalls
    BY <1>1 DEF ApplyCalls, AppCalls
  <2>2. QED
    BY <1>1, <1>3, <1>4, <1>8, <2>1 DEF SavedRowStays
<1>12. EffectsHaveOrigin'
  BY <1>1, <1>3, <1>4 DEF EffectsHaveOrigin, TypeOK
<1>13. OnlyPendingDeleted'
  BY <1>3 DEF OnlyPendingDeleted
<1>14. OneApplicationPerPair' /\ OneReviewPerApplication' /\ TypeOK'
  BY <1>1, <1>3
  DEF OneApplicationPerPair, OneReviewPerApplication, Pair, TypeOK
<1>15. (ForeignKeys => ReferencesHold)'
  BY <1>1 DEF ReferencesHold, DeleteApplication, ReferencedRow, Reviewed
<1>16. QED
  BY <1>7, <1>9, <1>10, <1>11, <1>12, <1>13, <1>14, <1>15

\* save_review: the new submission is the only one of its application.
LEMMA SaveReviewInv ==
    ASSUME ApplicationInv, NEW r \in Requests, SaveReview(r)
    PROVE  ApplicationInv'
<1> USE DEF ApplicationInv
<1>1. /\ stage[r] = "saveReview" /\ call[r] \in AppCalls /\ answer[r] = "none"
      /\ UNCHANGED <<events, applications, payouts>>
  BY DEF SaveReview, CallMatchesStage, AppStages
<1>2. PICK a \in {"200", "IntegrityError"} :
         /\ Reply(r, a)
         /\ \/ submissions' = submissions
            \/ /\ a = "200" /\ ~SubmissionViolates(r)
               /\ submissions' = submissions \union
                                   {[id |-> r, application |-> call[r].target]}
  BY DEF SaveReview
<1>3. /\ stage' \in [Requests -> Stages]
      /\ answer' \in [Requests -> Answers]
      /\ call' = call
      /\ stage'[r] = "done" /\ answer'[r] = a
      /\ \A q \in Requests \ {r} : stage'[q] = stage[q] /\ answer'[q] = answer[q]
  BY <1>2, ReplyStage DEF Answers
<1>4. \A q : NewRow(q)' = NewRow(q) /\ Payout(q)' = Payout(q)
  BY <1>3 DEF NewRow, Payout
<1>5. TypeOK'
  BY <1>1, <1>2, <1>3 DEF TypeOK, AppCalls
<1>6. CallMatchesStage'
  BY <1>1, <1>3 DEF CallMatchesStage, ApplyStages, AppStages
<1>7. RowsHaveOrigin'
  BY <1>1, <1>3, <1>4 DEF RowsHaveOrigin
<1>8. SavedRowStays'
  <2>1. call[r] \notin ApplyCalls
    BY <1>1 DEF ApplyCalls, AppCalls
  <2>2. QED
    BY <1>1, <1>3, <1>4, <2>1 DEF SavedRowStays
<1>9. EffectsHaveOrigin'
  BY <1>1, <1>2, <1>3, <1>4 DEF EffectsHaveOrigin, TypeOK
<1>10. OnlyPendingDeleted'
  BY <1>3 DEF OnlyPendingDeleted
<1>11. OneApplicationPerPair' /\ OneReviewPerApplication'
  BY <1>1, <1>2 DEF OneApplicationPerPair, OneReviewPerApplication, Pair,
                    SubmissionViolates, Reviewed
<1>12. (ForeignKeys => ReferencesHold)'
  BY <1>1, <1>2 DEF ReferencesHold, SubmissionViolates
<1>13. QED
  BY <1>5, <1>6, <1>7, <1>8, <1>9, <1>10, <1>11, <1>12

\* delete_event: no row refers to the event where foreign keys hold.
LEMMA DeleteEventInv ==
    ASSUME ApplicationInv, NEW e \in Events, DeleteEvent(e)
    PROVE  ApplicationInv'
<1> USE DEF ApplicationInv, DeleteEvent
<1>1. TypeOK' /\ CallMatchesStage' /\ OnlyPendingDeleted'
  BY DEF TypeOK, CallMatchesStage, OnlyPendingDeleted
<1>2. RowsHaveOrigin' /\ SavedRowStays' /\ EffectsHaveOrigin'
  BY DEF RowsHaveOrigin, SavedRowStays, EffectsHaveOrigin, NewRow, Payout
<1>3. OneApplicationPerPair' /\ OneReviewPerApplication'
  BY DEF OneApplicationPerPair, OneReviewPerApplication, Pair
<1>4. (ForeignKeys => ReferencesHold)'
  BY DEF ReferencesHold
<1>5. QED
  BY <1>1, <1>2, <1>3, <1>4

\* Nothing changes.
LEMMA StutterInv ==
    ASSUME ApplicationInv, UNCHANGED vars
    PROVE  ApplicationInv'
BY DEF vars, db, ApplicationInv, TypeOK, CallMatchesStage, RowsHaveOrigin, SavedRowStays,
       EffectsHaveOrigin, OnlyPendingDeleted, OneApplicationPerPair,
       OneReviewPerApplication, ReferencesHold, NewRow, Payout, Pair

\* Every step of the service keeps the invariant.
LEMMA NextInv == ApplicationInv /\ [Next]_vars => ApplicationInv'
<1> SUFFICES ASSUME ApplicationInv, [Next]_vars PROVE ApplicationInv'
  OBVIOUS
<1>1. ASSUME NEW r \in Requests, Arrive(r) PROVE ApplicationInv'
  BY <1>1, ArriveInv
<1>2. ASSUME NEW r \in Requests, Resume(r) \/ RequestFails(r) PROVE ApplicationInv'
  BY <1>2, ReadInv, SaveInv, AddPayoutInv, DeleteRowInv, SaveReviewInv DEF Resume
<1>3. ASSUME NEW e \in Events, DeleteEvent(e) PROVE ApplicationInv'
  BY <1>3, DeleteEventInv
<1>4. CASE Crash
  BY <1>4, CrashInv
<1>5. CASE Quiescent \/ UNCHANGED vars
  BY <1>5, StutterInv DEF Quiescent
<1>6. QED
  BY <1>1, <1>2, <1>3, <1>4, <1>5 DEF Next

-----------------------------------------------------------------------------
\* Every state a run of the server reaches satisfies the inductive invariant:
\* the race of requests, failures and crashes never breaks the origin of rows.
THEOREM Invariance == Spec => []ApplicationInv
<1>1. Init => ApplicationInv
  BY InitInv
<1>2. ApplicationInv /\ [Next]_vars => ApplicationInv'
  BY NextInv
<1>3. QED
  BY <1>1, <1>2, PTL DEF Spec

\* The tables and the requests keep their types.
THEOREM TypeCorrect == Spec => []TypeOK
<1>1. ApplicationInv => TypeOK
  BY DEF ApplicationInv
<1>2. QED
  BY <1>1, Invariance, PTL

\* The unique constraint and the status check of cancel_application together
\* keep one application per reviewer and event.
THEOREM UniqueRows == Spec => []OneApplicationPerPair
<1>1. ApplicationInv => OneApplicationPerPair
  BY DEF ApplicationInv
<1>2. QED
  BY <1>1, Invariance, PTL

\* Two reviews of one application are never both stored.
THEOREM ReviewedOnce == Spec => []OneReviewPerApplication
<1>1. ApplicationInv => OneReviewPerApplication
  BY DEF ApplicationInv
<1>2. QED
  BY <1>1, Invariance, PTL

\* The row of a payout is the one its request inserted.
LEMMA InvPayoutBacked == ApplicationInv => PayoutBacked
<1> SUFFICES ASSUME ApplicationInv, NEW p \in payouts
             PROVE  \E row \in applications :
                       /\ row.id = p.application
                       /\ row.status = "APPROVED"
                       /\ Pair(row) = Pair(p)
  BY DEF PayoutBacked
<1>1. p.application \in Requests
  BY DEF ApplicationInv, TypeOK
<1>2. NewRow(p.application) \in applications
  BY <1>1 DEF ApplicationInv, EffectsHaveOrigin, SavedRowStays
<1>3. /\ NewRow(p.application).id = p.application
      /\ NewRow(p.application).status = "APPROVED"
      /\ Pair(NewRow(p.application)) = Pair(p)
  BY PayoutPair DEF NewRow, ApplicationInv, EffectsHaveOrigin
<1>4. QED
  BY <1>2, <1>3

\* Two payouts of a pair are backed by the same row, hence the same request.
LEMMA InvOnePayout == ApplicationInv => OnePayoutPerPair
<1> SUFFICES ASSUME ApplicationInv, NEW p \in payouts, NEW q \in payouts, Pair(p) = Pair(q)
             PROVE  p = q
  BY DEF OnePayoutPerPair
<1>1. PICK x \in applications : x.id = p.application /\ Pair(x) = Pair(p)
  BY InvPayoutBacked DEF PayoutBacked
<1>2. PICK y \in applications : y.id = q.application /\ Pair(y) = Pair(q)
  BY InvPayoutBacked DEF PayoutBacked
<1>3. p.application = q.application
  BY <1>1, <1>2 DEF ApplicationInv, OneApplicationPerPair
<1>4. QED
  BY <1>3 DEF ApplicationInv, EffectsHaveOrigin

\* A reviewer is paid for an event at most once, and while the approved row
\* that keeps it so is there.
THEOREM PaidOncePerPair == Spec => []OnePayoutPerPair
<1>1. QED
  BY InvOnePayout, Invariance, PTL

\* The approved row of a scheduled payout stays.
THEOREM PayoutsAreBacked == Spec => []PayoutBacked
<1>1. QED
  BY InvPayoutBacked, Invariance, PTL

\* Where the database enforces foreign keys, no race of delete_event,
\* cancel_application and submit_review leaves a row that refers to nothing.
THEOREM References == ForeignKeys /\ Spec => []ReferencesHold
<1>1. ApplicationInv => (ForeignKeys => ReferencesHold)
  BY DEF ApplicationInv
<1>2. CASE ForeignKeys
  <2>1. ApplicationInv => ReferencesHold
    BY <1>1, <1>2
  <2>2. QED
    BY <2>1, Invariance, PTL
<1>3. CASE ~ForeignKeys
  BY <1>3
<1>4. QED
  BY <1>2, <1>3

\* What a request is told is what it did.
THEOREM TruthfulAnswers == Spec => []AnswersTellTheTruth
<1>1. ApplicationInv => AnswersTellTheTruth
  <2> SUFFICES ASSUME ApplicationInv, NEW r \in Requests
               PROVE  /\ answer[r] = "200" /\ call[r].op = "apply" =>
                            /\ NewRow(r) \in applications
                            /\ call[r].target \in ContractEvents =>
                                  Payout(r) \in payouts
                      /\ /\ call[r].op = "apply" /\ call[r].target \in ContractEvents
                         /\ NewRow(r) \in applications /\ Payout(r) \notin payouts
                         => stage[r] = "findReviewer" \/ answer[r] \in {"500", "lost"}
                      /\ answer[r] \in Refusals \union {"IntegrityError"} =>
                            /\ \A row \in applications : row.id # r
                            /\ \A p \in payouts : p.application # r
                            /\ \A s \in submissions : s.id # r
    BY DEF AnswersTellTheTruth
  <2> USE DEF ApplicationInv
  <2>1. ASSUME answer[r] = "200", call[r].op = "apply"
        PROVE  call[r] \in ApplyCalls
    <3>1. stage[r] = "done"
      BY <2>1 DEF CallMatchesStage
    <3>2. call[r] \in ApplyCalls \/ call[r] \in AppCalls
      BY <3>1 DEF CallMatchesStage
    <3>3. QED
      BY <2>1, <3>2 DEF AppCalls
  <2>2. ASSUME answer[r] \in Refusals \union {"IntegrityError"}
        PROVE  /\ stage[r] = "done"
               /\ answer[r] \notin {"200", "500", "lost", "none"}
    BY <2>2 DEF CallMatchesStage, Refusals
  <2>3. ASSUME answer[r] \in Refusals \union {"IntegrityError"}
        PROVE  \A row \in applications : row.id # r
    BY <2>2, <2>3, PriorRowsAssumption DEF RowsHaveOrigin, PriorIds
  <2>4. ASSUME NewRow(r) \in applications, call[r].target \in ContractEvents,
               Payout(r) \notin payouts
        PROVE  stage[r] = "findReviewer" \/ answer[r] \in {"500", "lost"}
    <3>1. NewRow(r).id = r /\ \A row \in PriorRows : row.id # r
      BY PriorRowsAssumption DEF NewRow, PriorIds
    <3>2. /\ call[r] \in ApplyCalls
          /\ stage[r] = "findReviewer" \/ answer[r] \in {"200", "500", "lost"}
      BY <2>4, <3>1 DEF RowsHaveOrigin
    <3>3. QED
      BY <2>4, <3>2 DEF SavedRowStays
  <2>5. QED
    BY <2>1, <2>2, <2>3, <2>4 DEF SavedRowStays, EffectsHaveOrigin
<1>2. QED
  BY <1>1, Invariance, PTL

\* The rows of a step: only DeleteApplication takes one away.
LEMMA ApprovedStays ==
    ASSUME ApplicationInv, [Next]_vars
    PROVE  \A row \in applications :
              row.status = "APPROVED" => row \in applications'
<1>1. ASSUME NEW r \in Requests, Arrive(r) \/ RequestFails(r)
      PROVE  applications' = applications
  BY <1>1 DEF Arrive, ReceiveApply, RejectWallet, ReceiveAppCall, Receive,
              RequestFails, db
<1>2. ASSUME NEW r \in Requests, Resume(r), ~DeleteApplication(r)
      PROVE  applications \subseteq applications'
  BY <1>2 DEF Resume, FindEvent, FindExisting, ValidateImage, ImageMissing,
              ConditionNotMet, SaveApplication,
              AddPayoutTask, FindApplication, FindSubmission, SaveReview, db
<1>3. ASSUME \/ \E e \in Events : DeleteEvent(e)
             \/ Crash \/ Quiescent \/ UNCHANGED vars
      PROVE  applications' = applications
  BY <1>3 DEF DeleteEvent, Crash, Quiescent, vars, db
<1>4. QED
  BY <1>1, <1>2, <1>3, DeleteRowInv DEF Next

\* An approval is never taken back, by any step of any request.
THEOREM ApprovalsLast == Spec => ApprovalIsFinal
<1>1. ApplicationInv /\ [Next]_vars =>
        [\A row \in applications :
            row.status = "APPROVED" => row \in applications']_vars
  BY ApprovedStays
<1>2. QED
  BY <1>1, Invariance, PTL DEF Spec, ApprovalIsFinal

-----------------------------------------------------------------------------
(***************************************************************************)
(* The refinement of RewardPromise.  Saving an application approves its    *)
(* pair, adding the payout task pays it, every other step changes neither  *)
(* set: a deleted row was PENDING, which is not an approval.               *)
(***************************************************************************)
Approved == {Pair(row) : row \in {x \in applications : x.status = "APPROVED"}}
Payments == {<<Pair(p), p.application>> : p \in payouts}

\* No payout is scheduled when the run starts.
LEMMA InitRefines == Init => Promise!Init
<1> SUFFICES ASSUME Init PROVE Promise!Init
  OBVIOUS
<1>1. Approved \in SUBSET (Events \X Users)
  BY PriorRowsAssumption DEF Init, Approved, Pair
<1>2. Payments = {}
  BY DEF Init, Payments
<1>3. QED
  BY <1>1, <1>2 DEF Promise!Init, Approved, Payments

\* The new row's pair was not approved before: the constraint did not fail.
LEMMA SaveRefines ==
    ASSUME ApplicationInv, NEW r \in Requests, SaveApplication(r)
    PROVE  [Promise!Next]_Promise!vars
<1>1. UNCHANGED payouts
  BY DEF SaveApplication
<1>2. Payments' = Payments
  BY <1>1 DEF Payments, Pair
<1>3. CASE UNCHANGED applications
  BY <1>1, <1>3 DEF Promise!vars, Pair
<1>4. CASE applications' # applications
  <2>1. PICK p \in Events \X Users : p = Pair(NewRow(r))
    BY DEF SaveApplication, ApplicationInv, CallMatchesStage, ApplyStages, ApplyCalls,
           NewRow, Pair
  <2>2. /\ applications' = applications \union {NewRow(r)}
        /\ ~UniqueViolated(NewRow(r))
        /\ NewRow(r).status = "APPROVED"
    BY <1>4 DEF SaveApplication, NewRow
  <2>3. Approved' = Approved \union {p}
    BY <2>1, <2>2 DEF Approved, Pair
  <2>4. p \notin Approved
    BY <2>1, <2>2 DEF Approved, UniqueViolated
  <2>5. Promise!Approve(p)
    BY <1>2, <2>3, <2>4 DEF Promise!Approve, Approved, Payments
  <2>6. QED
    BY <2>5 DEF Promise!Next
<1>5. QED
  BY <1>3, <1>4

\* A payment by another request for the same pair would come from a second
\* approved row of the pair.
LEMMA PayoutRefines ==
    ASSUME ApplicationInv, NEW r \in Requests, AddPayoutTask(r)
    PROVE  [Promise!Next]_Promise!vars
<1> DEFINE p == Pair(Payout(r))
<1>1. /\ stage[r] = "findReviewer" /\ answer[r] = "none"
      /\ NewRow(r) \in applications /\ call[r] \in ApplyCalls
  BY DEF AddPayoutTask, ApplicationInv, CallMatchesStage, SavedRowStays, ApplyStages
<1>2. /\ UNCHANGED applications
      /\ payouts' = payouts \union {Payout(r)}
  BY DEF AddPayoutTask
<1>3. Approved' = Approved
  BY <1>2 DEF Approved, Pair
<1>4. Payments' = Payments \union {<<p, r>>}
  <2>1. Payout(r).application = r
    BY DEF Payout
  <2>2. QED
    BY <1>2, <2>1 DEF Payments
<1>5. p \in Approved
  BY <1>1, PayoutPair DEF Approved, NewRow
<1>6. \A t \in Requests : <<p, t>> \notin Payments
  <2> SUFFICES ASSUME NEW q \in payouts, Pair(q) = p PROVE FALSE
    BY DEF Payments
  <2>1. PICK x \in applications : x.id = q.application /\ Pair(x) = p
    BY InvPayoutBacked DEF PayoutBacked
  <2>2. x = NewRow(r)
    BY <1>1, <2>1, PayoutPair DEF ApplicationInv, OneApplicationPerPair
  <2>3. q.application = r
    BY <2>1, <2>2 DEF NewRow
  <2>4. QED
    BY <1>1, <2>3 DEF ApplicationInv, EffectsHaveOrigin
<1>7. p \in Events \X Users
  BY <1>1 DEF Payout, Pair, ApplyCalls
<1>8. Promise!Pay(p, r)
  BY <1>3, <1>4, <1>5, <1>6
  DEF Promise!Pay, Promise!Paid, Approved, Payments
<1>9. QED
  BY <1>7, <1>8 DEF Promise!Next

\* Every step of the service is a step of the promise, or none.
LEMMA NextRefines ==
    ASSUME ApplicationInv, [Next]_vars
    PROVE  [Promise!Next]_Promise!vars
<1>1. ASSUME applications' = applications, payouts' = payouts
      PROVE  [Promise!Next]_Promise!vars
  BY <1>1 DEF Promise!vars, Pair
<1>2. ASSUME NEW r \in Requests, Arrive(r) \/ RequestFails(r)
      PROVE  [Promise!Next]_Promise!vars
  BY <1>1, <1>2 DEF Arrive, ReceiveApply, RejectWallet, ReceiveAppCall,
                    Receive, RequestFails, db
<1>3. ASSUME NEW r \in Requests, DeleteApplication(r)
      PROVE  [Promise!Next]_Promise!vars
  <2>1. Approved' = Approved
    BY <1>3, DeleteRowInv DEF Approved, DeleteApplication
  <2>2. payouts' = payouts
    BY <1>3 DEF DeleteApplication
  <2>3. Payments' = Payments
    BY <2>2 DEF Payments, Pair
  <2>4. QED
    BY <2>1, <2>3 DEF Promise!vars, Approved, Payments
<1>4. ASSUME NEW r \in Requests, Resume(r)
      PROVE  [Promise!Next]_Promise!vars
  BY <1>1, <1>3, <1>4, SaveRefines, PayoutRefines
  DEF Resume, FindEvent, FindExisting, ValidateImage, ImageMissing,
      ConditionNotMet, FindApplication,
      FindSubmission, SaveReview, db
<1>5. ASSUME \/ \E e \in Events : DeleteEvent(e)
             \/ Crash \/ Quiescent \/ UNCHANGED vars
      PROVE  [Promise!Next]_Promise!vars
  BY <1>1, <1>5 DEF DeleteEvent, Crash, Quiescent, vars, db
<1>6. QED
  BY <1>2, <1>4, <1>5 DEF Next

\* The application service implements the promise of rewards.
THEOREM ImplementsPromise == Spec => PromiseKept
<1>1. Init => Promise!Init
  BY InitRefines
<1>2. ApplicationInv /\ [Next]_vars => [Promise!Next]_Promise!vars
  BY NextRefines
<1>3. QED
  BY <1>1, <1>2, Invariance, PTL DEF Spec, PromiseKept, Promise!Spec

-----------------------------------------------------------------------------
(* Part two: from the application to the payment *)

\* The blockchain service of the flow once more, with its lemmas.
BcP == INSTANCE BlockchainServiceProofs WITH
    Jobs <- Requests, Kinds <- {"payout"}, PriorContracts <- ContractEvents

(***************************************************************************)
(* Bc and BcP are instances of the same definitions.                       *)
(***************************************************************************)
LEMMA SameInv == Bc!BlockchainInv <=> BcP!BlockchainInv
BY DEF Bc!BlockchainInv, BcP!BlockchainInv, Bc!TypeOK, BcP!TypeOK, Bc!WorkKnown, BcP!WorkKnown,
       Bc!UnsentHasNone, BcP!UnsentHasNone, Bc!PendingIsNext, BcP!PendingIsNext,
       Bc!NoncesRead, BcP!NoncesRead, Bc!MinedOnce, BcP!MinedOnce,
       Bc!ReturnedMeansMined, BcP!ReturnedMeansMined, Bc!OnChain, BcP!OnChain,
       Bc!Works, BcP!Works, Bc!Contracts, BcP!Contracts,
       Bc!NoJob, BcP!NoJob, Bc!Phases, BcP!Phases, Bc!Mined, BcP!Mined

\* The helpers of the blockchain service agree.
LEMMA SameHelpers ==
    \A r : /\ Bc!OnChain(r) <=> BcP!OnChain(r)
           /\ Bc!Running(r) <=> BcP!Running(r)
           /\ Bc!AfterSend(r) = BcP!AfterSend(r)
           /\ Bc!SameNonce(r) = BcP!SameNonce(r)
BY DEF Bc!OnChain, BcP!OnChain, Bc!Running, BcP!Running, Bc!Settled, BcP!Settled,
       Bc!AfterSend, BcP!AfterSend, Bc!SameNonce, BcP!SameNonce

\* The initial states agree.
LEMMA SameInit == Bc!Init <=> BcP!Init
BY DEF Bc!Init, BcP!Init, Bc!NoJob, BcP!NoJob, Bc!Contracts, BcP!Contracts

\* The steps of a job agree.
LEMMA SameStep ==
    ASSUME NEW r \in Requests
    PROVE  Bc!Step(r) <=> BcP!Step(r)
BY SameHelpers
DEF Bc!Step, BcP!Step, Bc!Resume, BcP!Resume, Bc!ReadNonce, BcP!ReadNonce, Bc!Send, BcP!Send,
    Bc!SendRejected, BcP!SendRejected, Bc!Receipt, BcP!Receipt,
    Bc!ReceiptTimeout, BcP!ReceiptTimeout, Bc!ReadBalance, BcP!ReadBalance,
    Bc!SendEmail, BcP!SendEmail, Bc!Fail, BcP!Fail, Bc!Enter, BcP!Enter,
    Bc!ForgetNonce, BcP!ForgetNonce,
    Bc!TransactionCount, BcP!TransactionCount, Bc!node, BcP!node

\* The submission of a payout agrees.
LEMMA SameSubmit ==
    ASSUME NEW r, NEW c
    PROVE  Bc!Submit(r, "payout", c) <=> BcP!Submit(r, "payout", c)
BY SameHelpers
DEF Bc!Submit, BcP!Submit, Bc!FundsAlone, BcP!FundsAlone, Bc!Enter, BcP!Enter, Bc!node, BcP!node

\* The node and the death of the process agree.
LEMMA SameRest ==
    /\ Bc!Mine <=> BcP!Mine
    /\ Bc!Drop <=> BcP!Drop
    /\ Bc!Crash <=> BcP!Crash
<1>1. Bc!Mine <=> BcP!Mine
  BY DEF Bc!Mine, BcP!Mine, Bc!Execute, BcP!Execute
<1>2. (Bc!Drop <=> BcP!Drop) /\ (Bc!Crash <=> BcP!Crash)
  BY SameHelpers DEF Bc!Drop, BcP!Drop, Bc!Crash, BcP!Crash, Bc!node, BcP!node
<1>3. QED
  BY <1>1, <1>2

\* The steps of the blockchain service that the flow is made of.
BcStep ==
    \/ \E r \in Requests : Bc!Step(r)
    \/ \E r \in Requests, c \in ContractEvents : Bc!Submit(r, "payout", c)
    \/ Bc!Mine \/ Bc!Drop \/ Bc!Crash \/ UNCHANGED bcVars

\* The steps the flow takes in the blockchain service keep its invariant.
LEMMA BcKeepsInv ==
    ASSUME Bc!BlockchainInv, BcStep
    PROVE  Bc!BlockchainInv'
<1>1. BcP!BlockchainInv /\ [BcP!Next]_(BcP!vars) => BcP!BlockchainInv'
  <2>1. {"payout"} \subseteq {"deploy", "fund", "payout"}
    OBVIOUS
  <2>2. QED
    BY <2>1, BcP!NextInv, FlowAssumption, EventsAssumption
<1>2. Bc!BlockchainInv' <=> BcP!BlockchainInv'
  BY SameInv, PTL
<1>3. [BcP!Next]_(BcP!vars)
  <2>1. ASSUME NEW r \in Requests, Bc!Step(r) PROVE BcP!Next
    BY <2>1, SameStep DEF BcP!Next
  <2>2. ASSUME NEW r \in Requests, NEW c \in ContractEvents,
               Bc!Submit(r, "payout", c)
        PROVE  BcP!Next
    BY <2>2, SameSubmit DEF BcP!Next, BcP!Contracts
  <2>3. ASSUME Bc!Mine \/ Bc!Drop \/ Bc!Crash PROVE BcP!Next
    BY <2>3, SameRest DEF BcP!Next
  <2>4. ASSUME UNCHANGED bcVars PROVE UNCHANGED BcP!vars
    BY <2>4 DEF bcVars, BcP!vars, BcP!node
  <2>5. QED
    BY <2>1, <2>2, <2>3, <2>4 DEF BcStep
<1>4. QED
  BY <1>1, <1>2, <1>3, SameInv

(***************************************************************************)
(* Every step of the flow is a step of both services, or a stutter of one. *)
(***************************************************************************)
LEMMA FlowIsApp ==
    ASSUME [FlowNext]_flowVars
    PROVE  [Next]_vars
BY DEF FlowNext, flowVars, ServeRequest, SchedulePayout, RunTask, NodeStep,
       OwnerDeletes, ProcessDies, AllQuiet, Next, Resume

\* A scheduled payout is one of an event with a contract.
LEMMA FlowIsBc ==
    ASSUME ApplicationInv, [FlowNext]_flowVars
    PROVE  BcStep
<1>1. ASSUME NEW r \in Requests, SchedulePayout(r)
      PROVE  BcStep
  <2>1. PICK c \in ContractEvents : c = call[r].target
    BY <1>1 DEF SchedulePayout, AddPayoutTask, ApplicationInv, SavedRowStays
  <2>2. Bc!Submit(r, "payout", c)
    BY <1>1, <2>1 DEF SchedulePayout, Bc!Submit
  <2>3. QED
    BY <2>2 DEF BcStep
<1>2. ASSUME NEW r \in Requests, ServeRequest(r) \/ RunTask(r)
      PROVE  BcStep
  BY <1>2 DEF ServeRequest, RunTask, BcStep
<1>3. ASSUME \/ NodeStep \/ OwnerDeletes \/ ProcessDies \/ AllQuiet
             \/ UNCHANGED flowVars
      PROVE  BcStep
  BY <1>3 DEF NodeStep, OwnerDeletes, ProcessDies, AllQuiet, flowVars, BcStep
<1>4. QED
  BY <1>1, <1>2, <1>3 DEF FlowNext

\* A request keeps its call from the moment it arrives.
LEMMA CallStays ==
    ASSUME TypeOK, [Next]_vars, NEW r \in Requests, stage[r] # "new"
    PROVE  call'[r] = call[r]
<1>1. ASSUME NEW q \in Requests, Arrive(q) PROVE call'[r] = call[r]
  BY <1>1 DEF Arrive, ReceiveApply, RejectWallet, ReceiveAppCall, Receive, TypeOK
<1>2. ASSUME NEW q \in Requests, Resume(q) \/ RequestFails(q)
      PROVE  call' = call
  BY <1>2 DEF Resume, FindEvent, FindExisting, ValidateImage, ImageMissing,
              ConditionNotMet, SaveApplication,
              AddPayoutTask, FindApplication, DeleteApplication,
              FindSubmission, SaveReview, RequestFails, Proceed, Reply
<1>3. ASSUME \/ \E e \in Events : DeleteEvent(e)
             \/ Crash \/ Quiescent \/ UNCHANGED vars
      PROVE  call' = call
  BY <1>3 DEF DeleteEvent, Crash, Quiescent, vars
<1>4. QED
  BY <1>1, <1>2, <1>3 DEF Next

\* A job belongs to a payout of a request that has answered.
LEMMA TaskOrigin ==
    ASSUME ApplicationInv, TasksAreScheduled, NEW r \in Requests, phase[r] # "idle"
    PROVE  /\ stage[r] = "done" /\ answer[r] = "200"
           /\ call[r] \in ApplyCalls
           /\ Payout(r) \in payouts
           /\ NewRow(r) \in applications
<1>1. PICK p \in payouts : p.application = r
  BY DEF TasksAreScheduled
<1>2. p = Payout(r) /\ answer[r] = "200" /\ call[r] \in ApplyCalls
  BY <1>1 DEF ApplicationInv, EffectsHaveOrigin
<1>3. stage[r] = "done"
  BY <1>2 DEF ApplicationInv, CallMatchesStage
<1>4. QED
  BY <1>2, <1>3 DEF ApplicationInv, SavedRowStays

\* Only SchedulePayout makes an idle job run, or adds a payout.
LEMMA LinkKept ==
    ASSUME FlowInv, [FlowNext]_flowVars, \A r \in Requests : ~SchedulePayout(r)
    PROVE  /\ payouts' = payouts
           /\ job' = job
           /\ \A r \in Requests : phase'[r] # "idle" <=> phase[r] # "idle"
<1>1. ASSUME NEW q \in Requests, RunTask(q)
      PROVE  /\ payouts' = payouts /\ job' = job
             /\ \A r \in Requests : phase'[r] # "idle" <=> phase[r] # "idle"
  <2>1. payouts' = payouts
    BY <1>1 DEF RunTask, vars, db
  <2>2. phase \in [Requests -> Bc!Phases]
    BY DEF FlowInv, Bc!BlockchainInv, Bc!TypeOK
  <2>3. /\ job' = job /\ phase[q] # "idle"
        /\ \E p : p # "idle" /\ phase' = [phase EXCEPT ![q] = p]
    BY <1>1
    DEF RunTask, Bc!Step, Bc!Resume, Bc!ReadNonce, Bc!Send, Bc!SendRejected, Bc!Receipt,
        Bc!ReceiptTimeout, Bc!ReadBalance, Bc!SendEmail, Bc!Fail, Bc!Enter,
        Bc!AfterSend, Bc!Running
  <2>4. QED
    BY <2>1, <2>2, <2>3
<1>2. ASSUME NEW q \in Requests, ServeRequest(q)
      PROVE  payouts' = payouts /\ job' = job /\ phase' = phase
  BY <1>2 DEF ServeRequest, bcVars, Arrive, ReceiveApply, RejectWallet,
              ReceiveAppCall, Receive, RequestFails, FindEvent, FindExisting,
              ValidateImage, ImageMissing,
              ConditionNotMet, SaveApplication, FindApplication,
              DeleteApplication, FindSubmission, SaveReview, db
<1>3. ASSUME NodeStep \/ OwnerDeletes \/ AllQuiet \/ UNCHANGED flowVars
      PROVE  payouts' = payouts /\ job' = job /\ phase' = phase
  BY <1>3 DEF NodeStep, OwnerDeletes, AllQuiet, Quiescent, flowVars, bcVars,
              vars, db, DeleteEvent, Bc!Mine, Bc!Drop
<1>4. ASSUME ProcessDies
      PROVE  /\ payouts' = payouts /\ job' = job
             /\ \A r \in Requests : phase'[r] # "idle" <=> phase[r] # "idle"
  BY <1>4 DEF ProcessDies, Crash, vars, db, bcVars, Bc!Crash, Bc!Running
<1>5. QED
  BY <1>1, <1>2, <1>3, <1>4 DEF FlowNext

\* The job of a scheduled payout keeps the work it was given.
LEMMA TasksKept ==
    ASSUME FlowInv, [FlowNext]_flowVars
    PROVE  TasksAreScheduled'
<1>1. ApplicationInv /\ TasksAreScheduled /\ [Next]_vars
  BY FlowIsApp DEF FlowInv
<1>2. CASE \A r \in Requests : ~SchedulePayout(r)
  <2>1. \A r \in Requests : phase[r] # "idle" => call'[r] = call[r]
    BY <1>1, TaskOrigin, CallStays DEF ApplicationInv
  <2>2. QED
    BY <1>1, <1>2, <2>1, LinkKept DEF TasksAreScheduled
<1>3. ASSUME NEW r \in Requests, SchedulePayout(r)
      PROVE  TasksAreScheduled'
  <2>1. /\ payouts' = payouts \union {Payout(r)} /\ call' = call
        /\ phase' = [phase EXCEPT ![r] = "readNonce"]
        /\ job' = [job EXCEPT ![r] =
                      [kind |-> "payout", contract |-> call[r].target]]
    BY <1>3 DEF SchedulePayout, AddPayoutTask, Reply, Bc!Submit, Bc!Enter
  <2>2. Payout(r).application = r
    BY DEF Payout
  <2>3. /\ phase \in [Requests -> Bc!Phases]
        /\ job \in [Requests -> Bc!Works \union {Bc!NoJob}]
    BY DEF FlowInv, Bc!BlockchainInv, Bc!TypeOK
  <2>4. ASSUME NEW q \in Requests \ {r}
        PROVE  /\ phase'[q] = phase[q] /\ job'[q] = job[q]
               /\ (\E p \in payouts' : p.application = q)
                    <=> (\E p \in payouts : p.application = q)
    BY <2>1, <2>2, <2>3
  <2>5. /\ phase'[r] = "readNonce"
        /\ job'[r] = [kind |-> "payout", contract |-> call[r].target]
        /\ \E p \in payouts' : p.application = r
    BY <2>1, <2>2, <2>3
  <2>6. QED
    BY <1>1, <2>1, <2>4, <2>5 DEF TasksAreScheduled
<1>4. QED
  BY <1>2, <1>3

-----------------------------------------------------------------------------
\* The invariants of both services and their link hold together.
THEOREM FlowInvariance == FlowSpec => []FlowInv
<1>1. FlowInit => FlowInv
  <2> SUFFICES ASSUME FlowInit PROVE FlowInv
    OBVIOUS
  <2>1. ApplicationInv
    BY InitInv DEF FlowInit
  <2>2. Bc!BlockchainInv
    BY BcP!InitInv, SameInit, SameInv, FlowAssumption, EventsAssumption
    DEF FlowInit
  <2>3. TasksAreScheduled
    BY DEF FlowInit, Init, Bc!Init, TasksAreScheduled
  <2>4. QED
    BY <2>1, <2>2, <2>3 DEF FlowInv
<1>2. FlowInv /\ [FlowNext]_flowVars => FlowInv'
  <2> SUFFICES ASSUME FlowInv, [FlowNext]_flowVars PROVE FlowInv'
    OBVIOUS
  <2>1. ApplicationInv'
    BY FlowIsApp, NextInv DEF FlowInv
  <2>2. Bc!BlockchainInv'
    BY FlowIsBc, BcKeepsInv DEF FlowInv
  <2>3. QED
    BY <2>1, <2>2, TasksKept DEF FlowInv
<1>3. QED
  BY <1>1, <1>2, PTL DEF FlowSpec

(***************************************************************************)
(* What the invariant says of the chain.                                   *)
(***************************************************************************)
\* A transaction stems from a request that answered and kept its row.
LEMMA ChainOrigin ==
    ASSUME FlowInv, NEW r \in Requests,
           Bc!OnChain(r) \/ (\E t \in pool : t.job = r)
    PROVE  /\ Payout(r) \in payouts /\ NewRow(r) \in applications
           /\ stage[r] = "done" /\ call[r] \in ApplyCalls
<1>1. phase[r] # "idle"
  BY DEF FlowInv, Bc!BlockchainInv, Bc!UnsentHasNone
<1>2. QED
  BY <1>1, TaskOrigin DEF FlowInv

\* Places of the chain are taken by jobs of requests.
LEMMA ChainJobs ==
    ASSUME FlowInv, NEW i \in DOMAIN chain
    PROVE  /\ chain[i].job \in Requests /\ Bc!OnChain(chain[i].job)
           /\ chain[i].effect \in BOOLEAN
<1>1. chain[i] \in Bc!Mined
  BY DEF FlowInv, Bc!BlockchainInv, Bc!TypeOK
<1>2. chain[i].job \in Requests /\ chain[i].effect \in BOOLEAN
  BY <1>1 DEF Bc!Mined
<1>3. \E m \in DOMAIN chain : chain[m].job = chain[i].job
  OBVIOUS
<1>4. QED
  BY <1>2, <1>3 DEF Bc!OnChain

\* A request, its payout and its row speak of the same pair.
LEMMA PairOfPayout ==
    ASSUME NEW r PROVE PairOf(r) = Pair(Payout(r)) /\ PairOf(r) = Pair(NewRow(r))
BY DEF PairOf, Pair, Payout, NewRow

\* Two payments of a pair are one payout, hence one transaction.
LEMMA InvPaidAtMostOnce == FlowInv => PaidAtMostOnce
<1> SUFFICES ASSUME FlowInv, NEW i \in DOMAIN chain, NEW k \in DOMAIN chain,
                    PairOf(chain[i].job) = PairOf(chain[k].job)
             PROVE  i = k
  BY DEF PaidAtMostOnce
<1>1. /\ chain[i].job \in Requests /\ Payout(chain[i].job) \in payouts
      /\ chain[k].job \in Requests /\ Payout(chain[k].job) \in payouts
  BY ChainJobs, ChainOrigin
<1>2. Payout(chain[i].job) = Payout(chain[k].job)
  BY <1>1, PairOfPayout, InvOnePayout DEF FlowInv, OnePayoutPerPair
<1>3. chain[i].job = chain[k].job
  BY <1>2 DEF Payout
<1>4. QED
  BY <1>3 DEF FlowInv, Bc!BlockchainInv, Bc!MinedOnce

\* No reviewer is paid twice for an event by the transactions in the chain.
THEOREM PaidOnceInChain == FlowSpec => []PaidAtMostOnce
<1>1. QED
  BY InvPaidAtMostOnce, FlowInvariance, PTL

\* Whoever is paid, or has a transaction pending, has the approved application.
THEOREM PaidIsApproved == FlowSpec => []PaidForApplication
<1>1. FlowInv => PaidForApplication
  <2> SUFFICES ASSUME FlowInv PROVE PaidForApplication
    OBVIOUS
  <2>1. \A i \in DOMAIN chain : NewRow(chain[i].job) \in applications
    BY ChainJobs, ChainOrigin
  <2>2. \A t \in pool : t.job \in Requests
    BY DEF FlowInv, Bc!BlockchainInv, Bc!TypeOK
  <2>3. \A t \in pool : NewRow(t.job) \in applications
    BY <2>2, ChainOrigin
  <2>4. QED
    BY <2>1, <2>3 DEF PaidForApplication
<1>2. QED
  BY <1>1, FlowInvariance, PTL

-----------------------------------------------------------------------------
(***************************************************************************)
(* The refinement: a step of the requests approves as in ImplementsPromise *)
(* and moves no payment, for a request that has a transaction keeps its    *)
(* pair; mining a payout that pays is the payment of its pair.             *)
(***************************************************************************)
Settlements == {<<PairOf(chain[i].job), i>> :
                    i \in {k \in DOMAIN chain : PaidAt(k)}}

\* A request has at most one place in the chain, so places run up to their number.
LEMMA ChainLength ==
    ASSUME FlowInv
    PROVE  DOMAIN chain \subseteq 1 .. Cardinality(Requests)
<1> DEFINE f == [i \in 1 .. Len(chain) |-> chain[i].job]
<1>1. chain \in Seq(Bc!Mined) /\ Len(chain) \in Nat /\ DOMAIN chain = 1 .. Len(chain)
  BY DEF FlowInv, Bc!BlockchainInv, Bc!TypeOK
<1>2. f \in Injection(1 .. Len(chain), Requests)
  <2>1. f \in [1 .. Len(chain) -> Requests]
    BY <1>1, ChainJobs
  <2>2. \A a, b \in 1 .. Len(chain) : f[a] = f[b] => a = b
    BY <1>1 DEF FlowInv, Bc!BlockchainInv, Bc!MinedOnce
  <2>3. QED
    BY <2>1, <2>2 DEF Injection, IsInjective
<1>3. Cardinality(1 .. Len(chain)) <= Cardinality(Requests)
  BY <1>2, FS_Injection, FlowAssumption
<1>4. Cardinality(1 .. Len(chain)) = Len(chain)
  BY <1>1, FS_Interval
<1>5. Cardinality(Requests) \in Nat
  BY FS_CardinalityType, FlowAssumption
<1>6. QED
  BY <1>1, <1>3, <1>4, <1>5

\* Nobody is paid when the run starts.
LEMMA FlowInitRefines == FlowInit => Reward!Init
<1> SUFFICES ASSUME FlowInit PROVE Reward!Init
  OBVIOUS
<1>1. Approved \in SUBSET (Events \X Users)
  BY PriorRowsAssumption DEF FlowInit, Init, Approved, Pair
<1>2. chain = <<>> /\ DOMAIN chain = {}
  BY DEF FlowInit, Bc!Init
<1>3. Settlements = {}
  BY <1>2 DEF Settlements
<1>4. QED
  BY <1>1, <1>3 DEF Reward!Init, Approved, Settlements

\* What the requests do to the approved pairs: nothing, or one more.
LEMMA ApprovedSteps ==
    ASSUME ApplicationInv, [Next]_vars
    PROVE  \/ Approved' = Approved
           \/ \E p \in Events \X Users :
                 p \notin Approved /\ Approved' = Approved \union {p}
<1>1. [Promise!Next]_Promise!vars
  BY NextRefines
<1>2. QED
  BY <1>1
  DEF Promise!Next, Promise!vars, Promise!Approve, Promise!Pay, Approved

\* While the chain stays, so does what it paid to whom.
LEMMA SettlementsStay ==
    ASSUME FlowInv, [FlowNext]_flowVars, chain' = chain
    PROVE  Settlements' = Settlements
<1>1. \A i \in DOMAIN chain : call'[chain[i].job] = call[chain[i].job]
  <2>1. TAKE i \in DOMAIN chain
  <2>2. chain[i].job \in Requests /\ stage[chain[i].job] = "done"
    BY ChainJobs, ChainOrigin
  <2>3. QED
    BY <2>2, CallStays, FlowIsApp DEF FlowInv, ApplicationInv
<1>2. QED
  BY <1>1 DEF Settlements, PairOf, PaidAt

\* Mining a payout that pays is Pay of its pair; any other, nothing.
LEMMA MineRefines ==
    ASSUME FlowInv, FlowInv', Bc!Mine, UNCHANGED vars
    PROVE  [Reward!Next]_Reward!vars
<1> DEFINE n == Len(chain) + 1
<1>1. PICK r \in Requests, ok \in BOOLEAN :
         chain' = Append(chain, [job |-> r, effect |-> ok])
  BY DEF Bc!Mine, FlowInv, Bc!BlockchainInv, Bc!TypeOK
<1>2. /\ Len(chain) \in Nat /\ DOMAIN chain = 1 .. Len(chain)
      /\ DOMAIN chain' = 1 .. n
      /\ \A i \in DOMAIN chain : chain'[i] = chain[i]
      /\ chain'[n] = [job |-> r, effect |-> ok]
  BY <1>1 DEF FlowInv, Bc!BlockchainInv, Bc!TypeOK
<1>3. Approved' = Approved
  BY DEF Approved, vars, db, Pair
<1>4. \A q : PairOf(q)' = PairOf(q)
  BY DEF PairOf, vars
<1>5. CASE ~ok
  <2>1. Settlements' = Settlements
    BY <1>2, <1>4, <1>5 DEF Settlements, PaidAt
  <2>2. QED
    BY <1>3, <2>1 DEF Reward!vars, Approved, Settlements
<1>6. CASE ok
  <2>1. Payout(r) \in payouts /\ NewRow(r) \in applications /\ call[r] \in ApplyCalls
    <3>1. Bc!OnChain(r)'
      BY <1>2 DEF Bc!OnChain
    <3>2. (Payout(r) \in payouts /\ NewRow(r) \in applications
            /\ call[r] \in ApplyCalls)'
      BY <3>1, ChainOrigin, PTL
    <3>3. QED
      BY <3>2 DEF vars, db, Payout, NewRow
  <2>2. PICK p \in Events \X Users : p = PairOf(r)
    BY <2>1 DEF PairOf, ApplyCalls
  <2>3. p \in Approved
    BY <2>1, <2>2, PairOfPayout DEF Approved, NewRow
  <2>4. Settlements' = Settlements \union {<<p, n>>}
    BY <1>2, <1>4, <1>6, <2>2 DEF Settlements, PaidAt
  <2>5. ASSUME NEW k \in DOMAIN chain, PaidAt(k), PairOf(chain[k].job) = p
        PROVE  FALSE
    <3>1. PICK m \in 1 .. n : m = n
      BY <1>2
    <3>2. k \in DOMAIN chain' /\ m \in DOMAIN chain' /\ k # m
      BY <1>2, <3>1
    <3>3. chain'[k].effect /\ chain'[m].effect
      BY <1>2, <1>6, <2>5, <3>1 DEF PaidAt
    <3>4. /\ <<call'[chain'[k].job].target, call'[chain'[k].job].user>> = p
          /\ <<call'[chain'[m].job].target, call'[chain'[m].job].user>> = p
      BY <1>2, <2>2, <2>5, <3>1 DEF PairOf, vars
    <3>5. PaidAtMostOnce'
      BY InvPaidAtMostOnce, PTL
    <3>6. QED
      BY <3>2, <3>3, <3>4, <3>5 DEF PaidAtMostOnce, PaidAt, PairOf
  <2>6. \A t : <<p, t>> \notin Settlements
    BY <2>5 DEF Settlements
  <2>7. n \in 1 .. Cardinality(Requests)
    <3>1. (DOMAIN chain \subseteq 1 .. Cardinality(Requests))'
      BY ChainLength, PTL
    <3>2. QED
      BY <1>2, <3>1
  <2>8. PICK t \in 1 .. Cardinality(Requests) : t = n
    BY <2>7
  <2>9. Reward!Pay(p, t)
    BY <1>3, <2>3, <2>4, <2>6, <2>8
    DEF Reward!Pay, Reward!Paid, Approved, Settlements
  <2>10. QED
    BY <2>9 DEF Reward!Next
<1>7. QED
  BY <1>5, <1>6

\* Every step of the flow is a step of the promise, or none.
LEMMA FlowRefines ==
    ASSUME FlowInv, FlowInv', [FlowNext]_flowVars
    PROVE  [Reward!Next]_Reward!vars
<1>1. CASE Bc!Mine /\ UNCHANGED vars
  BY <1>1, MineRefines
<1>2. CASE ~(Bc!Mine /\ UNCHANGED vars)
  <2>1. chain' = chain
    BY <1>2
    DEF FlowNext, flowVars, ServeRequest, SchedulePayout, RunTask, NodeStep,
        OwnerDeletes, ProcessDies, AllQuiet, bcVars, Bc!Drop, Bc!Crash,
        Bc!Submit, Bc!Step, Bc!Resume, Bc!ReadNonce, Bc!Send, Bc!SendRejected,
        Bc!Receipt, Bc!ReceiptTimeout, Bc!ReadBalance, Bc!SendEmail, Bc!Fail, Bc!node
  <2>2. Settlements' = Settlements
    BY <2>1, SettlementsStay
  <2>3. \/ Approved' = Approved
        \/ \E p \in Events \X Users :
              p \notin Approved /\ Approved' = Approved \union {p}
    BY FlowIsApp, ApprovedSteps DEF FlowInv
  <2>4. CASE Approved' = Approved
    BY <2>2, <2>4 DEF Reward!vars, Approved, Settlements
  <2>5. ASSUME NEW p \in Events \X Users,
               p \notin Approved, Approved' = Approved \union {p}
        PROVE  Reward!Next
    <3>1. Reward!Approve(p)
      BY <2>2, <2>5 DEF Reward!Approve, Approved, Settlements
    <3>2. QED
      BY <3>1 DEF Reward!Next
  <2>6. QED
    BY <2>3, <2>4, <2>5
<1>3. QED
  BY <1>1, <1>2

\* The path from request to transaction implements the promise of rewards.
THEOREM FlowImplementsPromise == FlowSpec => RewardKept
<1>1. FlowInit => Reward!Init
  BY FlowInitRefines
<1>2. FlowInv /\ FlowInv' /\ [FlowNext]_flowVars => [Reward!Next]_Reward!vars
  BY FlowRefines
<1>3. QED
  BY <1>1, <1>2, FlowInvariance, PTL DEF FlowSpec, RewardKept, Reward!Spec
=============================================================================
