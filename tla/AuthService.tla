---------------------------- MODULE AuthService ----------------------------
(***************************************************************************)
(* Accounts, passwords and the verification of e-mail addresses: app/auth  *)
(* (service_impl.py, repository_impl.py, models.py and router.py), with    *)
(* core/security.py and the sending of e-mail.                             *)
(*                                                                         *)
(* A request is a coroutine that stands at an await.  What it read at an   *)
(* earlier await (the row of a user, a verification record) it goes on     *)
(* using, and an update by primary key asks for nothing but the row.       *)
(***************************************************************************)
EXTENDS Naturals, FiniteSets

CONSTANTS
    Requests,       \* the HTTP requests of one run of the server
    Emails,         \* e-mail addresses
    Roles,          \* "OWNER" and "REVIEWER"
    Passwords,      \* the passwords that users choose
    Codes,          \* verification codes (six digits drawn at random)
    PriorUsers      \* the rows of users when the run starts

(***************************************************************************)
(* A row has the request that inserts it for its id (uuid4), and the       *)
(* temporary password that a request draws is named after it.              *)
(***************************************************************************)
UserIds == Requests \union {u.id : u \in PriorUsers}
Secrets == Passwords \union Requests

\* bcrypt with a fresh salt: of a hash one can only tell whether a password fits.
Hash(p)      == [bcrypt |-> p]
Verify(p, h) == h = Hash(p)
Hashes       == {Hash(p) : p \in Secrets}

Users   == [id : UserIds, email : Emails, role : Roles, hash : Hashes]
Records == [id : Requests, email : Emails, code : Codes, verified : BOOLEAN]

ASSUME PriorUsersAssumption ==
    /\ \A u \in PriorUsers :
          /\ u = [id |-> u.id, email |-> u.email, role |-> u.role, hash |-> u.hash]
          /\ u.id \notin Requests /\ u.email \in Emails /\ u.role \in Roles
          /\ u.hash \in {Hash(p) : p \in Passwords}
    /\ \A u, v \in PriorUsers : u.id = v.id \/ u.email = v.email => u = v

ASSUME SecretsAssumption == Passwords \intersect Requests = {}

VARIABLES
    users,      \* table users
    records,    \* table email_verifications
    expired,    \* the records that are older than ten minutes
    past,       \* <<user, hash>> for every password a user ever had
    mails,      \* the e-mails sent: the address and the code or password in it
    call,       \* what each request asks for
    held,       \* the user or record that each request has read
    stage,      \* the await each request stands at
    answer      \* the outcome of each request

db   == <<users, records, expired, past>>
vars == <<db, mails, call, held, stage, answer>>

Calls ==
    [op : {"checkEmail", "sendCode", "reset"}, email : Emails]
    \union [op : {"validate"}, email : Emails, code : Codes]
    \union [op : {"register"}, email : Emails, password : Passwords, role : Roles]
    \union [op : {"login"}, email : Emails, password : Secrets, role : Roles]
    \union [op : {"change"}, user : UserIds, old : Secrets, new : Passwords]

NoCall == [op |-> "none"]
Nobody == "nobody"

Stages == {"new", "findEmail", "findUser", "findRecord", "saveRecord",
           "markVerified", "insertUser", "updateUser", "refresh", "mail", "done"}

\* Error codes of core/exceptions.py that refuse a request.
Refusals == {"USER_001", "USER_002", "USER_006", "AUTH_002"}

\* "IntegrityError" and "500": an exception that becomes no code.
Answers == Refusals \union {"none", "200", "IntegrityError", "500", "lost"}

Active(r) == stage[r] \notin {"new", "done"}

Proceed(r, next) ==
    stage' = [stage EXCEPT ![r] = next] /\ UNCHANGED <<call, held, answer>>

Hold(r, id, next) ==
    /\ held'  = [held EXCEPT ![r] = id]
    /\ stage' = [stage EXCEPT ![r] = next]
    /\ UNCHANGED <<call, answer>>

Reply(r, a) ==
    /\ stage'  = [stage EXCEPT ![r] = "done"]
    /\ answer' = [answer EXCEPT ![r] = a]
    /\ UNCHANGED <<call, held>>

FirstStage(op) ==
    CASE op = "sendCode" -> "saveRecord"
      [] op = "validate" -> "findRecord"
      [] op = "change"   -> "findUser"
      [] OTHER           -> "findEmail"

\* Access tokens are given to users, and a temporary password is known to whoever
\* received the e-mail with it.
Known(p) == p \in Passwords \/ \E m \in mails : "password" \in DOMAIN m /\ m.password = p

Callable(c) ==
    /\ c.op = "login" => Known(c.password)
    /\ c.op = "change" => Known(c.old) /\ \E u \in users : u.id = c.user

Receive(r) ==
    /\ stage[r] = "new"
    /\ \E c \in Calls :
          /\ Callable(c)
          /\ call'  = [call EXCEPT ![r] = c]
          /\ stage' = [stage EXCEPT ![r] = FirstStage(c.op)]
    /\ UNCHANGED <<db, mails, held, answer>>

-----------------------------------------------------------------------------
(* Users: check_email_duplicate, register, login, change and reset password *)

Taken(email) == \E u \in users : u.email = email

AtEmail(r, op) == stage[r] = "findEmail" /\ call[r].op = op

CheckEmailDuplicate(r) ==
    /\ AtEmail(r, "checkEmail")
    /\ Reply(r, IF Taken(call[r].email) THEN "USER_001" ELSE "200")

RegisterFresh(r) ==
    /\ AtEmail(r, "register")
    /\ IF Taken(call[r].email) THEN Reply(r, "USER_001") ELSE Proceed(r, "insertUser")

Login(r) ==
    /\ AtEmail(r, "login")
    /\ LET Fits(u) == /\ u.email = call[r].email
                       /\ Verify(call[r].password, u.hash)
                       /\ u.role = call[r].role
       IN  Reply(r, IF \E u \in users : Fits(u) THEN "200" ELSE "AUTH_002")

FindAccount(r) ==
    /\ AtEmail(r, "reset")
    /\ \/ ~Taken(call[r].email) /\ Reply(r, "USER_002")
       \/ \E u \in users : u.email = call[r].email /\ Hold(r, u.id, "updateUser")

\* find_by_email, and what each operation makes of its result.
FindEmail(r) ==
    /\ CheckEmailDuplicate(r) \/ RegisterFresh(r) \/ Login(r) \/ FindAccount(r)
    /\ UNCHANGED <<db, mails>>

\* Faulty variant: the old password is not asked for.
UncheckedOld(r) ==
    /\ stage[r] = "findUser"
    /\ \E u \in users : u.id = call[r].user /\ Hold(r, u.id, "updateUser")
    /\ UNCHANGED <<db, mails>>

\* change_password: find_by_id and the check of the old password.
FindUser(r) ==
    /\ stage[r] = "findUser"
    /\ \/ \E u \in users :
             /\ u.id = call[r].user /\ Verify(call[r].old, u.hash)
             /\ Hold(r, u.id, "updateUser")
       \/ /\ \A u \in users :
                u.id = call[r].user => ~Verify(call[r].old, u.hash)
          /\ Reply(r, "AUTH_002")
    /\ UNCHANGED <<db, mails>>

NewUser(r) ==
    [id |-> r, email |-> call[r].email, role |-> call[r].role,
     hash |-> Hash(call[r].password)]

\* Faulty variant: the e-mail address is indexed but not unique.
NotUnique(u) == \E v \in users : v.id = u.id

\* The unique column email.
EmailViolated(u) == Taken(u.email)

\* save of register: nothing catches the IntegrityError of its commit.
InsertUser(r) ==
    /\ stage[r] = "insertUser"
    /\ IF EmailViolated(NewUser(r))
         THEN Reply(r, "IntegrityError") /\ UNCHANGED db
         ELSE /\ users' = users \union {NewUser(r)}
              /\ past' = past \union {<<r, NewUser(r).hash>>}
              /\ Proceed(r, "refresh")
              /\ UNCHANGED <<records, expired>>
    /\ UNCHANGED mails

\* The password a request sets: the new one, or the temporary one it has drawn.
NewPassword(r) == IF call[r].op = "change" THEN call[r].new ELSE r

\* Faulty variant: the commit is forgotten.
UncommittedUser(r) ==
    /\ stage[r] = "updateUser"
    /\ Proceed(r, "refresh")
    /\ UNCHANGED <<db, mails>>

\* save of change_password and reset_password: the row that was read gets the
\* new hash, whatever its hash is by now.
UpdateUser(r) ==
    /\ stage[r] = "updateUser"
    /\ users' = {IF u.id = held[r] THEN [u EXCEPT !.hash = Hash(NewPassword(r))]
                                   ELSE u : u \in users}
    /\ past' = past \union {<<held[r], Hash(NewPassword(r))>>}
    /\ Proceed(r, "refresh")
    /\ UNCHANGED <<records, expired, mails>>

\* The SELECT after the commit; only reset_password has something left to do.
Refresh(r) ==
    /\ stage[r] = "refresh"
    /\ IF call[r].op = "reset" THEN Proceed(r, "mail") ELSE Reply(r, "200")
    /\ UNCHANGED <<db, mails>>

-----------------------------------------------------------------------------
(* E-mail addresses: send_verification_code and validate_verification_code *)

SaveRecord(r) ==
    /\ stage[r] = "saveRecord"
    /\ \E code \in Codes :
          records' = records \union {[id |-> r, email |-> call[r].email,
                                      code |-> code, verified |-> FALSE]}
    /\ Proceed(r, "mail")
    /\ UNCHANGED <<users, expired, past, mails>>

OpenRecords(r) ==
    {x \in records : /\ x.email = call[r].email /\ x.code = call[r].code
                     /\ ~x.verified /\ x.id \notin expired}

\* find_latest_unverified.  Any of the matching records may be the latest: they
\* carry the same code, and created_at has the resolution of the database.
FindRecord(r) ==
    /\ stage[r] = "findRecord"
    /\ \/ OpenRecords(r) = {} /\ Reply(r, "USER_006")
       \/ \E x \in OpenRecords(r) : Hold(r, x.id, "markVerified")
    /\ UNCHANGED <<db, mails>>

\* Faulty variant: the record is left as it is.
ForgetToMark(r) ==
    /\ stage[r] = "markVerified"
    /\ Reply(r, "200")
    /\ UNCHANGED <<db, mails>>

\* update: the commit; 200 carries a token that says the address is verified.
MarkVerified(r) ==
    /\ stage[r] = "markVerified"
    /\ records' = {IF x.id = held[r] THEN [x EXCEPT !.verified = TRUE] ELSE x :
                       x \in records}
    /\ Reply(r, "200")
    /\ UNCHANGED <<users, expired, past, mails>>

-----------------------------------------------------------------------------
(* The sending of e-mail, failures and time *)

\* What reset_password and send_verification_code send.
Message(r) ==
    IF call[r].op = "reset"
      THEN [to |-> call[r].email, password |-> r]
      ELSE [to |-> call[r].email, record |-> r]

\* send: done, or skipped where no SMTP credentials are set.
Mail(r) ==
    /\ stage[r] = "mail"
    /\ mails' \in {mails, mails \union {Message(r)}}
    /\ Reply(r, "200")
    /\ UNCHANGED db

\* The await a request stands at raises, MAIL_001 of send_email included.
RequestFails(r) == Active(r) /\ Reply(r, "500") /\ UNCHANGED <<db, mails>>

\* Ten minutes after its record a code is worth nothing.
Expire ==
    /\ \E x \in records : x.id \notin expired /\ expired' = expired \union {x.id}
    /\ UNCHANGED <<users, records, past, mails, call, held, stage, answer>>

\* The process dies with every request in it; the database stays.
Crash ==
    /\ \E r \in Requests : Active(r)
    /\ stage'  = [r \in Requests |-> IF Active(r) THEN "done" ELSE stage[r]]
    /\ answer' = [r \in Requests |-> IF Active(r) THEN "lost" ELSE answer[r]]
    /\ UNCHANGED <<db, mails, call, held>>

Quiescent == (\A r \in Requests : stage[r] = "done") /\ UNCHANGED vars

-----------------------------------------------------------------------------
Init ==
    /\ users = PriorUsers
    /\ records = {}
    /\ expired = {}
    /\ past = {<<u.id, u.hash>> : u \in PriorUsers}
    /\ mails = {}
    /\ call = [r \in Requests |-> NoCall]
    /\ held = [r \in Requests |-> Nobody]
    /\ stage = [r \in Requests |-> "new"]
    /\ answer = [r \in Requests |-> "none"]

\* The coroutine of r resumes and runs to its next await.
Resume(r) ==
    \/ FindEmail(r) \/ FindUser(r) \/ InsertUser(r) \/ UpdateUser(r)
    \/ Refresh(r) \/ SaveRecord(r) \/ FindRecord(r) \/ MarkVerified(r) \/ Mail(r)

Next ==
    \/ \E r \in Requests : Receive(r) \/ Resume(r) \/ RequestFails(r)
    \/ Expire
    \/ Crash
    \/ Quiescent

Spec == Init /\ [][Next]_vars

-----------------------------------------------------------------------------
(* Properties *)

\* The rows have the columns of auth/models.py, and no password is stored but as
\* its hash; a request stands at an await of its own handler.
TypeOK ==
    /\ users \subseteq Users
    /\ records \subseteq Records
    /\ expired \subseteq Requests
    /\ past \subseteq UserIds \X Hashes
    /\ mails \subseteq [to : Emails, password : Requests]
                       \union [to : Emails, record : Requests]
    /\ call \in [Requests -> Calls \union {NoCall}]
    /\ held \in [Requests -> UserIds \union {Nobody}]
    /\ stage \in [Requests -> Stages]
    /\ answer \in [Requests -> Answers]

\* One account per e-mail address, although two requests of register may both
\* pass find_by_email before either inserts.
OneUserPerEmail ==
    \A u, v \in users : u.email = v.email => u = v

\* The user of an address has had this password.
HadPassword(email, p) ==
    \E u \in users : u.email = email /\ <<u.id, Hash(p)>> \in past

\* What the 200 of each operation says came true, whatever the other requests
\* did to the same rows: the account exists with the role asked for, the new or
\* the temporary password was the user's, a record of the code is verified.
AnswersTellTheTruth ==
    \A r \in Requests : answer[r] = "200" =>
        LET c == call[r]
        IN  /\ c.op = "register" =>
                  \E u \in users : u.id = r /\ u.email = c.email /\ u.role = c.role
            /\ c.op = "change" => <<c.user, Hash(c.new)>> \in past
            /\ c.op = "reset" => HadPassword(c.email, r)
            /\ c.op = "validate" =>
                  \E x \in records : /\ x.email = c.email /\ x.code = c.code
                                     /\ x.verified

\* A request that was refused has left no account, no password and no code.
RefusedChangesNothing ==
    \A r \in Requests : answer[r] \in Refusals \union {"IntegrityError"} =>
        /\ \A u \in users : u.id # r
        /\ \A x \in past : x[2] # Hash(r)
        /\ \A x \in records : x.id # r

\* A temporary password is stored before it is mailed: whoever receives one has
\* an account it was the password of.
MailedPasswordsWork ==
    \A m \in mails : "password" \in DOMAIN m => HadPassword(m.to, m.password)

\* A password changes only at the hands of a request that proved one the user
\* has had, or that asked for a temporary one by the user's address.
PasswordsAreProven ==
    [][\A u \in users, v \in users' : u.id = v.id /\ u.hash # v.hash =>
          \E r \in Requests :
             /\ stage[r] = "updateUser" /\ v.hash = Hash(NewPassword(r))
             /\ \/ /\ call[r].op = "change" /\ call[r].user = u.id
                   /\ <<u.id, Hash(call[r].old)>> \in past
                \/ call[r].op = "reset" /\ call[r].email = u.email]_vars

-----------------------------------------------------------------------------
(* The inductive invariant *)

Op(r, ops) == call[r] \in Calls /\ call[r].op \in ops

\* A request stands at an await of the operation it was called for.
CallMatchesStage ==
    \A r \in Requests :
        /\ stage[r] = "findEmail" => Op(r, {"checkEmail", "register", "login", "reset"})
        /\ stage[r] = "findUser" => Op(r, {"change"})
        /\ stage[r] = "updateUser" => Op(r, {"change", "reset"})
        /\ stage[r] = "insertUser" => Op(r, {"register"})
        /\ stage[r] = "refresh" => Op(r, {"register", "change", "reset"})
        /\ stage[r] = "mail" => Op(r, {"reset", "sendCode"})
        /\ stage[r] = "saveRecord" => Op(r, {"sendCode"})
        /\ stage[r] \in {"findRecord", "markVerified"} => Op(r, {"validate"})
        /\ stage[r] # "done" => answer[r] = "none"
        /\ stage[r] = "new" => call[r] = NoCall
        /\ stage[r] # "new" => call[r] \in Calls

\* The request has passed its commit.
Committed(r) ==
    \/ stage[r] \in {"refresh", "mail"}
    \/ stage[r] = "done" /\ answer[r] \in {"200", "500", "lost"}

\* Accounts are prior ones or those of register; addresses and roles stay.
UsersHaveOrigin ==
    \A u \in users :
        /\ <<u.id, u.hash>> \in past
        /\ \/ \E p \in PriorUsers :
                 p.id = u.id /\ p.email = u.email /\ p.role = u.role
           \/ /\ u.id \in Requests /\ Op(u.id, {"register"}) /\ Committed(u.id)
              /\ u.email = call[u.id].email /\ u.role = call[u.id].role

\* Temporary passwords and records are those of requests that committed them.
DrawnHaveOrigin ==
    /\ \A x \in past : \A r \in Requests : x[2] = Hash(r) => Committed(r)
    /\ \A x \in records : Committed(x.id)

\* What a request has read is still there when it uses it: no user and no
\* record is ever deleted, and what was proved was true once.
HeldIsThere ==
    \A r \in Requests :
        /\ stage[r] = "updateUser" =>
              \E u \in users :
                 /\ u.id = held[r]
                 /\ call[r].op = "change" =>
                       call[r].user = u.id /\ <<u.id, Hash(call[r].old)>> \in past
                 /\ call[r].op = "reset" => call[r].email = u.email
        /\ stage[r] = "markVerified" =>
              \E x \in records : /\ x.id = held[r] /\ x.email = call[r].email
                                 /\ x.code = call[r].code

\* What a request has committed stays.
CommittedStays ==
    \A r \in Requests :
        /\ stage[r] = "refresh" /\ call[r].op = "register" =>
              \E u \in users : /\ u.id = r /\ u.email = call[r].email
                               /\ u.role = call[r].role
        /\ stage[r] = "refresh" /\ call[r].op = "change" =>
              <<call[r].user, Hash(call[r].new)>> \in past
        /\ stage[r] \in {"refresh", "mail"} /\ call[r].op = "reset" =>
              HadPassword(call[r].email, r)

\* Inductive: the awaits of all operations keep this, in whatever order the
\* coroutines run, fail or die.
AuthInv ==
    /\ TypeOK
    /\ CallMatchesStage
    /\ UsersHaveOrigin
    /\ DrawnHaveOrigin
    /\ HeldIsThere
    /\ CommittedStays
    /\ OneUserPerEmail
    /\ AnswersTellTheTruth
    /\ MailedPasswordsWork
=============================================================================
