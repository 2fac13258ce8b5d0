--------------------------- MODULE SessionsProofs ---------------------------
(***************************************************************************)
(* Proofs about Sessions, for any number of requests, any pool and all the *)
(* operations: the account of connections is right after every await of    *)
(* every handler, and what follows from it.                                *)
(***************************************************************************)
EXTENDS Sessions, FiniteSetTheorems, TLAPS

\* What the proofs need to know of a handler: it refuses before it commits, commits
\* once and before it replies, a payout has its transaction open, and only an
\* exposed handler makes a statement after its commit.
Orderly(p, exposed) ==
    /\ Len(p) \in Nat /\ DOMAIN p = 1 .. Len(p)
    /\ \A i, j \in DOMAIN p : p[j] = "commit" /\ p[i] = "reply" => j < i
    /\ \A i, j \in DOMAIN p :
          p[j] = "commit" /\ p[i] \in {"check", "image", "commit"} => i <= j
    /\ \A i, j \in DOMAIN p :
          p[j] = "commit" /\ p[i] \in Database /\ j < i => exposed
    /\ \A i \in DOMAIN p : p[i] = "payout" =>
          \E k \in 1 .. i - 1 : /\ p[k] \in Database
                               /\ \A m \in k .. i - 1 : p[m] # "commit"

\* Every handler of the program is in this order.
LEMMA HandlersOrderly ==
    ASSUME NEW o \in Ops
    PROVE  Orderly(Program[o], o \in ExposedToPool)
<1>1. CASE o = "createApplication"
  BY <1>1 DEF Orderly, Program, CreateApplication, Database, ExposedToPool
<1>2. CASE o = "createApplicationUnpaid"
  BY <1>2 DEF Orderly, Program, CreateApplicationUnpaid, Database, ExposedToPool
<1>3. CASE o = "listMyApplications"
  BY <1>3 DEF Orderly, Program, ListMyApplications, Database, ExposedToPool
<1>4. CASE o = "cancelApplication"
  BY <1>4 DEF Orderly, Program, CancelApplication, Database, ExposedToPool
<1>5. CASE o = "submitReview"
  BY <1>5 DEF Orderly, Program, SubmitReview, Database, ExposedToPool
<1>6. CASE o = "createEvent"
  BY <1>6 DEF Orderly, Program, CreateEvent, Database, ExposedToPool
<1>7. CASE o = "deleteEvent"
  BY <1>7 DEF Orderly, Program, DeleteEvent, Database, ExposedToPool
<1>8. CASE o = "listEventApplications"
  BY <1>8 DEF Orderly, Program, ListEventApplications, Database, ExposedToPool
<1>9. CASE o = "getEvent"
  BY <1>9 DEF Orderly, Program, GetEvent, Database, ExposedToPool
<1>10. CASE o = "createStore"
  BY <1>10 DEF Orderly, Program, CreateStore, Database, ExposedToPool
<1>11. CASE o = "deleteStore"
  BY <1>11 DEF Orderly, Program, DeleteStore, Database, ExposedToPool
<1>12. CASE o = "listStoreEvents"
  BY <1>12 DEF Orderly, Program, ListStoreEvents, Database, ExposedToPool
<1>13. CASE o = "listStores"
  BY <1>13 DEF Orderly, Program, ListStores, Database, ExposedToPool
<1>14. CASE o = "sendVerificationCode"
  BY <1>14 DEF Orderly, Program, SendVerificationCode, Database, ExposedToPool
<1>15. CASE o = "validateVerificationCode"
  BY <1>15 DEF Orderly, Program, ValidateVerificationCode, Database, ExposedToPool
<1>16. CASE o = "register"
  BY <1>16 DEF Orderly, Program, Register, Database, ExposedToPool
<1>17. CASE o = "login"
  BY <1>17 DEF Orderly, Program, Login, Database, ExposedToPool
<1>18. CASE o = "changePassword"
  BY <1>18 DEF Orderly, Program, ChangePassword, Database, ExposedToPool
<1>19. CASE o = "resetPassword"
  BY <1>19 DEF Orderly, Program, ResetPassword, Database, ExposedToPool
<1>20. CASE o = "listOwnerEvents"
  BY <1>20 DEF Orderly, Program, ListOwnerEvents, Database, ExposedToPool
<1>21. CASE o = "getStore"
  BY <1>21 DEF Orderly, Program, GetStore, Database, ExposedToPool
<1>22. CASE o = "checkEmailDuplicate"
  BY <1>22 DEF Orderly, Program, CheckEmailDuplicate, Database, ExposedToPool
<1> QED
  BY <1>1, <1>2, <1>3, <1>4, <1>5, <1>6, <1>7, <1>8, <1>9, <1>10, <1>11,
     <1>12, <1>13, <1>14, <1>15, <1>16, <1>17, <1>18, <1>19, <1>20, <1>21, <1>22
  DEF Ops, Program

-----------------------------------------------------------------------------
(* One request *)

Passed(o, i, step) == \E k \in 1 .. i - 1 : Program[o][k] = step

\* SessionsInv for one request, in the values of its variables.
Account(o, i, s, c, d, a) ==
    /\ o \in Ops /\ i \in Nat \ {0}
    /\ s \in {"none", "open", "closed"} /\ c \in {"none", "waiting", "held"}
    /\ d \in BOOLEAN /\ a \in {"none", "200", "refused", "500", "timeout"}
    /\ s # "open" => c = "none"
    /\ s = "open" /\ InTransaction(o, i) => c = "held"
    /\ c = "waiting" => /\ s = "open" /\ i <= Len(Program[o])
                        /\ Program[o][i] \in Database
    /\ s = "none" => i = 1
    /\ i <= Len(Program[o]) + 1
    /\ d <=> Passed(o, i, "commit")
    /\ s = "none" => a = "none"
    /\ s = "open" => a = IF Passed(o, i, "reply") THEN "200" ELSE "none"
    /\ a = "200" /\ o \in Writing => d
    /\ a = "refused" => ~d
    /\ a = "timeout" /\ d => o \in ExposedToPool

\* A request that begins has an account that fits, whatever handler it calls.
LEMMA Arrived ==
    ASSUME NEW o, NEW i, NEW c, NEW d, NEW a, Account(o, i, "none", c, d, a),
           NEW p \in Ops
    PROVE  Account(p, i, "open", c, d, a)
<1>1. /\ Len(Program[p]) \in Nat /\ i = 1 /\ a = "none" /\ c = "none"
      /\ ~Passed(o, 1, "commit")
  BY HandlersOrderly DEF Account, Orderly, Passed
<1>2. ~Passed(p, 1, "commit") /\ ~Passed(p, 1, "reply") /\ ~InTransaction(p, 1)
  BY DEF Passed, InTransaction
<1> QED BY <1>1, <1>2 DEF Account

\* The account of an open session still fits when a connection is checked out.
LEMMA CheckedOut ==
    ASSUME NEW o, NEW i, NEW c, NEW d, NEW a, Account(o, i, "open", c, d, a)
    PROVE  Account(o, i, "open", "held", d, a)
  BY DEF Account

\* The account of a session fits when its next statement waits for a connection.
LEMMA Queued ==
    ASSUME NEW o, NEW i, NEW d, NEW a, Account(o, i, "open", "none", d, a),
           i <= Len(Program[o]), Program[o][i] \in Database
    PROVE  Account(o, i, "open", "waiting", d, a)
  BY DEF Account

\* What a step adds to what has passed.
LEMMA PassedNext ==
    ASSUME NEW o \in Ops, NEW i \in Nat \ {0}, NEW step
    PROVE  Passed(o, i + 1, step) <=> Passed(o, i, step) \/ Program[o][i] = step
  BY DEF Passed

\* A transaction that is open after a step was open before it or began with it.
LEMMA TransactionNext ==
    ASSUME NEW o \in Ops, NEW i \in Nat \ {0}, InTransaction(o, i + 1)
    PROVE  /\ Program[o][i] # "commit"
           /\ InTransaction(o, i) \/ Program[o][i] \in Database
  BY DEF InTransaction

\* A step that is neither a commit nor the reply keeps the account of its session.
LEMMA Moved ==
    ASSUME NEW o, NEW i, NEW c, NEW d, NEW a, Account(o, i, "open", c, d, a),
           i <= Len(Program[o]), Program[o][i] \notin {"commit", "reply"},
           Program[o][i] \in Database => c = "held"
    PROVE  Account(o, i + 1, "open", c, d, a)
<1> o \in Ops /\ i \in Nat \ {0} BY DEF Account
<1>1. Passed(o, i + 1, "commit") <=> Passed(o, i, "commit") BY PassedNext
<1>2. Passed(o, i + 1, "reply") <=> Passed(o, i, "reply") BY PassedNext
<1>3. InTransaction(o, i + 1) => c = "held" BY TransactionNext DEF Account
<1>4. c # "waiting" BY DEF Account
<1>5. Len(Program[o]) \in Nat BY HandlersOrderly DEF Orderly
<1> QED BY <1>1, <1>2, <1>3, <1>4, <1>5 DEF Account

\* After a commit the account shows no connection, and rows that stay.
LEMMA Committed ==
    ASSUME NEW o, NEW i, NEW c, NEW d, NEW a, Account(o, i, "open", c, d, a),
           i <= Len(Program[o]), Program[o][i] = "commit"
    PROVE  Account(o, i + 1, "open", "none", TRUE, a)
<1> o \in Ops /\ i \in Nat \ {0} BY DEF Account
<1>1. Passed(o, i + 1, "commit") BY PassedNext
<1>2. Passed(o, i + 1, "reply") <=> Passed(o, i, "reply") BY PassedNext
<1>3. ~InTransaction(o, i + 1) BY TransactionNext
<1>4. Len(Program[o]) \in Nat BY HandlersOrderly DEF Orderly
<1>5. a \in {"none", "200"} BY DEF Account
<1> QED BY <1>1, <1>2, <1>3, <1>4, <1>5 DEF Account

\* A writing handler that comes to its reply has committed.
LEMMA Replied ==
    ASSUME NEW o, NEW i, NEW c, NEW d, NEW a, Account(o, i, "open", c, d, a),
           i <= Len(Program[o]), Program[o][i] = "reply"
    PROVE  Account(o, i + 1, "open", c, d, "200")
<1> o \in Ops /\ i \in Nat \ {0} BY DEF Account
<1> USE HandlersOrderly
<1>1. Len(Program[o]) \in Nat /\ DOMAIN Program[o] = 1 .. Len(Program[o])
  BY DEF Orderly
<1>2. Passed(o, i + 1, "reply") BY PassedNext
<1>3. Passed(o, i + 1, "commit") <=> Passed(o, i, "commit") BY PassedNext
<1>4. InTransaction(o, i + 1) => InTransaction(o, i)
  BY TransactionNext DEF Database
<1>5. o \in Writing => Passed(o, i, "commit")
  <2>1. SUFFICES ASSUME o \in Writing PROVE Passed(o, i, "commit") OBVIOUS
  <2>2. PICK j \in DOMAIN Program[o] : Program[o][j] = "commit"
    <3>1. CASE o = "submitReview"
      <4>1. Program[o] = SubmitReview BY <3>1 DEF Program
      <4>2. 4 \in DOMAIN SubmitReview /\ SubmitReview[4] = "commit"
        BY DEF SubmitReview
      <4> QED BY <4>1, <4>2
    <3>2. CASE o # "submitReview"
      BY <2>1, <3>2 DEF Writing
    <3> QED BY <3>1, <3>2
  <2>3. i \in DOMAIN Program[o] BY <1>1
  <2>4. j < i BY <2>2, <2>3 DEF Orderly
  <2> QED BY <1>1, <2>2, <2>4 DEF Passed
<1>6. c # "waiting" BY DEF Account, Database
<1> QED BY <1>1, <1>2, <1>3, <1>4, <1>5, <1>6 DEF Account

\* get_db leaves an account with nothing held, whatever ended the request.
LEMMA Closed ==
    ASSUME NEW o, NEW i, NEW c, NEW d, NEW a, Account(o, i, "open", c, d, a),
           NEW b \in {"none", "200", "refused", "500", "timeout"},
           b = "200" => a = "200",
           b = "refused" => ~d,
           b = "timeout" /\ d => o \in ExposedToPool
    PROVE  Account(o, i, "closed", "none", d, b)
  BY DEF Account

\* A check and a validated image come before every commit, and no commit after it.
LEMMA NothingCommitted ==
    ASSUME NEW o, NEW i, NEW c, NEW d, NEW a, Account(o, i, "open", c, d, a),
           i <= Len(Program[o]), Program[o][i] \in {"check", "image", "commit"}
    PROVE  ~d
<1> o \in Ops /\ i \in Nat \ {0} BY DEF Account
<1>1. /\ i \in DOMAIN Program[o]
      /\ \A k \in 1 .. i - 1 : k \in DOMAIN Program[o]
  BY HandlersOrderly DEF Orderly
<1>2. \A k \in 1 .. i - 1 : Program[o][k] # "commit"
  BY HandlersOrderly, <1>1 DEF Orderly
<1> QED BY <1>2 DEF Account, Passed

\* Who waits for a connection after a commit runs an exposed handler.
LEMMA WaitingExposed ==
    ASSUME NEW o, NEW i, NEW s, NEW d, NEW a, Account(o, i, s, "waiting", d, a), d
    PROVE  o \in ExposedToPool
<1> o \in Ops /\ i \in Nat \ {0} BY DEF Account
<1>1. PICK k \in 1 .. i - 1 : Program[o][k] = "commit" BY DEF Account, Passed
<1>2. i <= Len(Program[o]) /\ Program[o][i] \in Database BY DEF Account
<1>3. k \in DOMAIN Program[o] /\ i \in DOMAIN Program[o] /\ k < i
  BY HandlersOrderly, <1>2 DEF Orderly
<1> QED BY HandlersOrderly, <1>1, <1>2, <1>3 DEF Orderly

-----------------------------------------------------------------------------
(* All requests *)

Typed ==
    /\ op \in [Requests -> Ops]
    /\ at \in [Requests -> Nat \ {0}]
    /\ session \in [Requests -> {"none", "open", "closed"}]
    /\ conn \in [Requests -> {"none", "waiting", "held"}]
    /\ durable \in [Requests -> BOOLEAN]
    /\ answer \in [Requests -> {"none", "200", "refused", "500", "timeout"}]

AccountOf(r) == Account(op[r], at[r], session[r], conn[r], durable[r], answer[r])

Accounts ==
    /\ Typed
    /\ Cardinality(Holders) <= Capacity
    /\ \A r \in Requests : AccountOf(r)

\* The invariant says of every request that its account fits.
LEMMA InvAccounts == SessionsInv <=> Accounts
<1>1. ASSUME NEW r \in Requests, Typed PROVE Len(Program[op[r]]) \in Nat
  BY <1>1, HandlersOrderly DEF Typed, Orderly
<1>2. ASSUME SessionsInv PROVE Accounts
  <2>1. Typed BY <1>2 DEF SessionsInv, TypeOK, Typed
  <2>2. Cardinality(Holders) <= Capacity BY <1>2 DEF SessionsInv, ConnectionsCounted
  <2>3. ASSUME NEW r \in Requests PROVE AccountOf(r)
    <3>1. Len(Program[op[r]]) \in Nat BY <1>1, <2>1
    <3>2. /\ ~Open(r) => conn[r] = "none"
          /\ Open(r) /\ InTransaction(op[r], at[r]) => conn[r] = "held"
          /\ conn[r] = "waiting" => Stands(r, Database)
      BY <1>2 DEF SessionsInv, ConnectionsCounted
    <3>3. /\ session[r] = "none" => at[r] = 1
          /\ at[r] <= Len(Program[op[r]]) + 1
          /\ durable[r] <=> Passed(op[r], at[r], "commit")
          /\ session[r] = "none" => answer[r] = "none"
          /\ Open(r) => answer[r] =
                IF Passed(op[r], at[r], "reply") THEN "200" ELSE "none"
      BY <1>2 DEF SessionsInv, PlacesKnown, Passed
    <3>4. /\ answer[r] = "200" /\ op[r] \in Writing => durable[r]
          /\ answer[r] = "refused" => ~durable[r]
          /\ answer[r] = "timeout" /\ durable[r] => op[r] \in ExposedToPool
      BY <1>2 DEF SessionsInv, AnswersFollowCommits, TurnedAwayUndone
    <3> QED BY <2>1, <3>1, <3>2, <3>3, <3>4
            DEF AccountOf, Account, Typed, Open, Stands, AtEnd, Step
  <2> QED BY <2>1, <2>2, <2>3 DEF Accounts
<1>3. ASSUME Accounts PROVE SessionsInv
  <2>1. TypeOK BY <1>3 DEF Accounts, Typed, TypeOK
  <2>2. ASSUME NEW r \in Requests PROVE Len(Program[op[r]]) \in Nat
    BY <1>1, <1>3 DEF Accounts
  <2>3. ConnectionsCounted
    BY <1>3, <2>2 DEF Accounts, AccountOf, Account, ConnectionsCounted, Open,
                      Stands, AtEnd, Step, Typed
  <2>4. PlacesKnown
    BY <1>3 DEF Accounts, AccountOf, Account, PlacesKnown, Open, Passed
  <2>5. AnswersFollowCommits /\ TurnedAwayUndone
    BY <1>3 DEF Accounts, AccountOf, Account, AnswersFollowCommits,
                TurnedAwayUndone
  <2> QED BY <2>1, <2>3, <2>4, <2>5 DEF SessionsInv
<1> QED BY <1>2, <1>3

\* Before the first request every account fits.
LEMMA InitAccounts == Init => Accounts
<1> SUFFICES ASSUME Init PROVE Accounts OBVIOUS
<1>1. "login" \in Ops BY DEF Ops, Program
<1>2. Typed BY <1>1 DEF Init, Typed
<1>3. Holders = {} BY DEF Init, Holders
<1>4. Cardinality(Holders) <= Capacity
  BY <1>3, FS_EmptySet, SessionsAssumption
<1>5. ASSUME NEW r \in Requests PROVE AccountOf(r)
  <2>1. Len(Program["login"]) \in Nat BY <1>1, HandlersOrderly DEF Orderly
  <2>2. ~Passed("login", 1, "commit") BY DEF Passed
  <2> QED BY <1>1, <2>1, <2>2 DEF Init, AccountOf, Account
<1> QED BY <1>2, <1>4, <1>5 DEF Accounts

\* Only a checkout adds to the connections that are out.
LEMMA NoNewHolder ==
    ASSUME Accounts, Holders' \subseteq Holders
    PROVE  Cardinality(Holders') <= Capacity
<1>1. IsFiniteSet(Holders)
  BY SessionsAssumption, FS_Subset DEF Holders
<1>2. Cardinality(Holders') <= Cardinality(Holders) BY <1>1, FS_Subset
<1>3. IsFiniteSet(Holders') BY <1>1, FS_Subset
<1> QED BY <1>1, <1>2, <1>3, FS_CardinalityType, SessionsAssumption DEF Accounts

\* A step of r leaves the accounts of the others alone.
LEMMA OthersKeep ==
    ASSUME Accounts, NEW r \in Requests, Typed',
           \A s \in Requests \ {r} :
              /\ op'[s] = op[s] /\ at'[s] = at[s] /\ session'[s] = session[s]
              /\ conn'[s] = conn[s] /\ durable'[s] = durable[s]
              /\ answer'[s] = answer[s],
           AccountOf(r)', Cardinality(Holders') <= Capacity
    PROVE  Accounts'
  BY DEF Accounts, AccountOf

\* A handler that goes on, whatever its next step, keeps the accounts.
LEMMA ResumeKeeps ==
    ASSUME Accounts, NEW r \in Requests, Resume(r)
    PROVE  Accounts'
<1> DEFINE o == op[r]
           i == at[r]
<1>0. /\ Account(o, i, session[r], conn[r], durable[r], answer[r])
      /\ Typed /\ o \in Ops /\ i \in Nat \ {0} /\ Len(Program[o]) \in Nat
  BY HandlersOrderly DEF Accounts, AccountOf, Typed, Orderly
<1>a. ASSUME NEW steps, Stands(r, steps)
      PROVE  session[r] = "open" /\ i <= Len(Program[o]) /\ Program[o][i] \in steps
  BY <1>0, <1>a DEF Stands, Open, AtEnd, Step
<1>1. CASE Checkout(r)
  <2>1. Account(o, i, "open", "held", durable[r], answer[r])
    BY <1>0, <1>1, <1>a, CheckedOut DEF Checkout
  <2>2. Holders' = Holders \union {r} BY <1>0, <1>1 DEF Checkout, Holders, Typed
  <2>3. IsFiniteSet(Holders) BY SessionsAssumption, FS_Subset DEF Holders
  <2>4. r \notin Holders BY <1>1 DEF Checkout, Holders
  <2>5. Cardinality(Holders') = Cardinality(Holders) + 1
    BY <2>2, <2>3, <2>4, FS_AddElement
  <2>6. Cardinality(Holders') <= Capacity
    BY <1>1, <2>3, <2>5, FS_CardinalityType, SessionsAssumption DEF Checkout, Free
  <2>7. Typed' BY <1>0, <1>1 DEF Checkout, Typed
  <2>8. AccountOf(r)'
    BY <1>0, <1>1, <1>a, <2>1 DEF Checkout, AccountOf, Typed
  <2> QED BY <1>0, <1>1, <2>6, <2>7, <2>8, OthersKeep DEF Checkout, Typed
<1>2. CASE Queue(r)
  <2>1. Account(o, i, "open", "waiting", durable[r], answer[r])
    BY <1>0, <1>2, <1>a, Queued DEF Queue
  <2>2. Holders' \subseteq Holders BY <1>0, <1>2 DEF Queue, Holders, Typed
  <2>3. Typed' BY <1>0, <1>2 DEF Queue, Typed
  <2>4. AccountOf(r)' BY <1>0, <1>2, <1>a, <2>1 DEF Queue, AccountOf, Typed
  <2> QED BY <1>0, <1>2, <2>2, <2>3, <2>4, NoNewHolder, OthersKeep
          DEF Queue, Typed
<1>3. CASE Execute(r) \/ CallOutside(r) \/ Payout(r)
  <2>1. /\ session[r] = "open" /\ i <= Len(Program[o])
        /\ Program[o][i] \notin {"commit", "reply"}
        /\ Program[o][i] \in Database => conn[r] = "held"
    <3>1. CASE Execute(r)
      BY <1>a, <3>1 DEF Execute, Database
    <3>2. CASE CallOutside(r)
      BY <1>a, <3>2 DEF CallOutside, Outside, Database
    <3>3. CASE Payout(r)
      BY <1>a, <3>3 DEF Payout, Database
    <3> QED BY <1>3, <3>1, <3>2, <3>3
  <2>2. Account(o, i + 1, "open", conn[r], durable[r], answer[r])
    BY <1>0, <2>1, Moved
  <2>3. /\ at' = [at EXCEPT ![r] = @ + 1]
        /\ UNCHANGED <<op, session, conn, durable, answer>>
    BY <1>3 DEF Execute, CallOutside, Payout, Advance
  <2>4. Holders' \subseteq Holders BY <2>3 DEF Holders
  <2>5. Typed' BY <1>0, <2>3 DEF Typed
  <2>6. AccountOf(r)' BY <1>0, <2>1, <2>2, <2>3 DEF AccountOf, Typed
  <2> QED BY <1>0, <2>3, <2>4, <2>5, <2>6, NoNewHolder, OthersKeep DEF Typed
<1>4. CASE Commit(r)
  <2>0. /\ session[r] = "open" /\ i <= Len(Program[o])
        /\ Program[o][i] = "commit"
    BY <1>4, <1>a DEF Commit
  <2>1. Account(o, i + 1, "open", "none", TRUE, answer[r])
    <3>1. Account(o, i, "open", conn[r], durable[r], answer[r]) BY <1>0, <2>0
    <3> HIDE DEF o, i
    <3> QED BY <2>0, <3>1, Committed
  <2>2. Holders' \subseteq Holders BY <1>0, <1>4 DEF Commit, Holders, Typed
  <2>3. Typed' BY <1>0, <1>4 DEF Commit, Advance, Typed
  <2>4. AccountOf(r)'
    BY <1>0, <1>4, <1>a, <2>1 DEF Commit, Advance, AccountOf, Typed
  <2> QED BY <1>0, <1>4, <2>2, <2>3, <2>4, NoNewHolder, OthersKeep
          DEF Commit, Advance, Typed
<1>5. CASE Reply(r)
  <2>1. Account(o, i + 1, "open", conn[r], durable[r], "200")
    BY <1>0, <1>5, <1>a, Replied DEF Reply
  <2>2. Holders' \subseteq Holders BY <1>5 DEF Reply, Holders
  <2>3. Typed' BY <1>0, <1>5 DEF Reply, Advance, Typed
  <2>4. AccountOf(r)'
    BY <1>0, <1>5, <1>a, <2>1 DEF Reply, Advance, AccountOf, Typed
  <2> QED BY <1>0, <1>5, <2>2, <2>3, <2>4, NoNewHolder, OthersKeep
          DEF Reply, Advance, Typed
<1>6. CASE Finish(r)
  <2>1. session[r] = "open" BY <1>6 DEF Finish, Open
  <2>2. answer[r] \in {"none", "200"} BY <1>0, <2>1 DEF Account
  <2>3. Account(o, i, "closed", "none", durable[r], answer[r])
    BY <1>0, <2>1, <2>2, Closed
  <2>4. Holders' \subseteq Holders BY <1>0, <1>6 DEF Finish, Close, Holders, Typed
  <2>5. Typed' BY <1>0, <1>6 DEF Finish, Close, Typed
  <2>6. AccountOf(r)' BY <1>0, <1>6, <2>3 DEF Finish, Close, AccountOf, Typed
  <2> QED BY <1>0, <1>6, <2>4, <2>5, <2>6, NoNewHolder, OthersKeep
          DEF Finish, Close, Typed
<1> QED BY <1>1, <1>2, <1>3, <1>4, <1>5, <1>6 DEF Resume

\* A session that is closed, by reply, refusal, exception or timeout, keeps them.
LEMMA CloseKeeps ==
    ASSUME Accounts, NEW r \in Requests, session[r] = "open",
           NEW b \in {"refused", "500", "timeout"}, Close(r, b),
           b = "refused" => ~durable[r],
           b = "timeout" /\ durable[r] => op[r] \in ExposedToPool
    PROVE  Accounts'
<1>1. Typed /\ Account(op[r], at[r], "open", conn[r], durable[r], answer[r])
  BY DEF Accounts, AccountOf
<1>2. Account(op[r], at[r], "closed", "none", durable[r], b) BY <1>1, Closed
<1>3. Holders' \subseteq Holders BY <1>1 DEF Close, Holders, Typed
<1>4. Typed' BY <1>1 DEF Close, Typed
<1>5. AccountOf(r)' BY <1>1, <1>2 DEF Close, AccountOf, Typed
<1> QED BY <1>1, <1>3, <1>4, <1>5, NoNewHolder, OthersKeep DEF Close, Typed

\* Every step keeps every account.
LEMMA StepKeepsAccounts == Accounts /\ [Next]_vars => Accounts'
<1> SUFFICES ASSUME Accounts, [Next]_vars PROVE Accounts' OBVIOUS
<1>0. ASSUME NEW r \in Requests
      PROVE  /\ Account(op[r], at[r], session[r], conn[r], durable[r], answer[r])
             /\ Typed /\ Len(Program[op[r]]) \in Nat
  BY HandlersOrderly DEF Accounts, AccountOf, Typed, Orderly
<1>1. ASSUME NEW r \in Requests, Arrive(r) PROVE Accounts'
  <2>1. PICK p \in Served : op' = [op EXCEPT ![r] = p] BY <1>1 DEF Arrive
  <2>2. p \in Ops BY ServedAssumption
  <2>3. Account(p, at[r], "open", conn[r], durable[r], answer[r])
    BY <1>0, <1>1, <2>2, Arrived DEF Arrive
  <2>4. Typed' BY <1>0, <1>1, <2>1, <2>2 DEF Arrive, Typed
  <2>5. AccountOf(r)' BY <1>0, <1>1, <2>1, <2>3 DEF Arrive, AccountOf, Typed
  <2>6. Holders' \subseteq Holders BY <1>1 DEF Arrive, Holders
  <2> QED BY <1>0, <1>1, <2>1, <2>4, <2>5, <2>6, NoNewHolder, OthersKeep
          DEF Arrive, Typed
<1>2. ASSUME NEW r \in Requests, Refuse(r) PROVE Accounts'
  <2>1. Stands(r, {"check"}) \/ Stands(r, {"image"}) \/ Stands(r, {"commit"})
    BY <1>2 DEF Refuse
  <2>2. /\ session[r] = "open" /\ at[r] <= Len(Program[op[r]])
        /\ Program[op[r]][at[r]] \in {"check", "image", "commit"}
    BY <1>0, <2>1 DEF Stands, Open, AtEnd, Step, Typed
  <2>3. ~durable[r] BY <1>0, <2>2, NothingCommitted
  <2> QED BY <1>2, <2>2, <2>3, CloseKeeps DEF Refuse
<1>3. ASSUME NEW r \in Requests, Fail(r) PROVE Accounts'
  BY <1>3, CloseKeeps DEF Fail, Stands, Open
<1>4. ASSUME NEW r \in Requests, PoolTimeout(r) PROVE Accounts'
  <2>1. session[r] = "open" BY <1>0, <1>4 DEF PoolTimeout, Account
  <2>2. durable[r] => op[r] \in ExposedToPool
    BY <1>0, <1>4, WaitingExposed DEF PoolTimeout
  <2> QED BY <1>4, <2>1, <2>2, CloseKeeps DEF PoolTimeout
<1>5. CASE UNCHANGED vars
  BY <1>5 DEF vars, Accounts, AccountOf, Typed, Holders
<1> QED BY <1>1, <1>2, <1>3, <1>4, <1>5, ResumeKeeps DEF Next, Quiescent

-----------------------------------------------------------------------------
(* Theorems *)

\* The inductive invariant, for every pool, number of requests and selection of
\* operations: the account of app/db/session.py is always right.
THEOREM Invariance == Spec => []SessionsInv
<1>1. Spec => []Accounts
  BY InitAccounts, StepKeepsAccounts, PTL DEF Spec
<1> QED BY <1>1, InvAccounts, PTL

\* The pool turns a request away with its change made only where a handler of
\* auth, store, event or application reads again after its commit.
THEOREM TurnedAway == Spec => []TurnedAwayUndone
<1>1. SessionsInv => TurnedAwayUndone BY DEF SessionsInv
<1> QED BY <1>1, Invariance, PTL

\* No 200 leaves before the commit of its handler, no refusal after one.
THEOREM CommitsFirst == Spec => []AnswersFollowCommits
<1>1. SessionsInv => AnswersFollowCommits BY DEF SessionsInv
<1> QED BY <1>1, Invariance, PTL

\* create_application's payouts run with their connections held: the pool
\* bounds how many race for a nonce.
THEOREM PayoutsBounded == Spec => []PayoutsFitPool
<1>1. Accounts => PayoutsFitPool
  <2> SUFFICES ASSUME Accounts PROVE PayoutsFitPool OBVIOUS
  <2>1. ASSUME NEW r \in Paying PROVE r \in Holders
    <3> DEFINE o == op[r]
               i == at[r]
    <3>1. /\ r \in Requests /\ session[r] = "open" /\ ~(i > Len(Program[o]))
          /\ Program[o][i] = "payout"
      BY <2>1 DEF Paying, Stands, Open, AtEnd, Step
    <3>2. o \in Ops /\ i \in Nat \ {0} BY <3>1 DEF Accounts, Typed
    <3>3. Orderly(Program[o], o \in ExposedToPool) BY <3>2, HandlersOrderly
    <3>4. i \in DOMAIN Program[o] BY <3>1, <3>2, <3>3 DEF Orderly
    <3>5. InTransaction(o, i)
      BY <3>1, <3>3, <3>4 DEF Orderly, InTransaction
    <3> QED BY <3>1, <3>5 DEF Accounts, AccountOf, Account, Holders
  <2>2. IsFiniteSet(Holders) BY SessionsAssumption, FS_Subset DEF Holders
  <2>3. IsFiniteSet(Paying) /\ Cardinality(Paying) <= Cardinality(Holders)
    BY <2>1, <2>2, FS_Subset
  <2> QED BY <2>2, <2>3, FS_CardinalityType, SessionsAssumption
          DEF Accounts, PayoutsFitPool
<1> QED BY <1>1, InvAccounts, Invariance, PTL
=============================================================================
