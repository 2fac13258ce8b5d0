------------------------- MODULE AuthServiceProofs -------------------------
(***************************************************************************)
(* AuthService for every set of requests, addresses, passwords and codes,  *)
(* and every table of users stored at the start: the inductive invariant   *)
(* AuthInv, and the safety properties that follow from it.                 *)
(***************************************************************************)
EXTENDS AuthService, TLAPS

\* A hash fits one password only (bcrypt is modelled without collisions).
LEMMA HashFitsOne ==
    ASSUME NEW p, NEW q, Hash(p) = Hash(q)
    PROVE  p = q
<1>1. Hash(p).bcrypt = p /\ Hash(q).bcrypt = q
  BY DEF Hash
<1>2. QED
  BY <1>1

\* A password that a user chooses is never the temporary one of a request.
LEMMA ChosenIsNotDrawn ==
    ASSUME NEW p \in Passwords, NEW r \in Requests
    PROVE  Hash(p) # Hash(r)
BY HashFitsOne, SecretsAssumption

\* The arguments a call has are those of its operation.
LEMMA CallFields ==
    ASSUME NEW c \in Calls
    PROVE  /\ c.op \in {"checkEmail", "sendCode", "reset", "validate", "register",
                        "login", "change"}
           /\ c.op \in {"sendCode", "reset"} => c.email \in Emails
           /\ c.op = "register" =>
                 c.email \in Emails /\ c.password \in Passwords /\ c.role \in Roles
           /\ c.op = "change" =>
                 c.user \in UserIds /\ c.old \in Secrets /\ c.new \in Passwords
BY DEF Calls

\* What a request is owed by the tables, one request at a time.
HeldOf(r) ==
    /\ stage[r] = "updateUser" =>
          \E u \in users :
             /\ u.id = held[r]
             /\ call[r].op = "change" =>
                   call[r].user = u.id /\ <<u.id, Hash(call[r].old)>> \in past
             /\ call[r].op = "reset" => call[r].email = u.email
    /\ stage[r] = "markVerified" =>
          \E x \in records : /\ x.id = held[r] /\ x.email = call[r].email
                             /\ x.code = call[r].code

StaysOf(r) ==
    /\ stage[r] = "refresh" /\ call[r].op = "register" =>
          \E u \in users : u.id = r /\ u.email = call[r].email /\ u.role = call[r].role
    /\ stage[r] = "refresh" /\ call[r].op = "change" =>
          <<call[r].user, Hash(call[r].new)>> \in past
    /\ stage[r] \in {"refresh", "mail"} /\ call[r].op = "reset" =>
          HadPassword(call[r].email, r)

TruthOf(r) ==
    answer[r] = "200" =>
        /\ call[r].op = "register" =>
              \E u \in users : u.id = r /\ u.email = call[r].email /\ u.role = call[r].role
        /\ call[r].op = "change" => <<call[r].user, Hash(call[r].new)>> \in past
        /\ call[r].op = "reset" => HadPassword(call[r].email, r)
        /\ call[r].op = "validate" =>
              \E x \in records : /\ x.email = call[r].email /\ x.code = call[r].code
                                 /\ x.verified

StageOf(r) ==
    /\ stage[r] = "findEmail" => Op(r, {"checkEmail", "register", "login", "reset"})
    /\ stage[r] = "findUser" => Op(r, {"change"})
    /\ stage[r] = "updateUser" => Op(r, {"change", "reset"})
    /\ stage[r] = "insertUser" => Op(r, {"register"})
    /\ stage[r] = "refresh" => Op(r, {"register", "change", "reset"})
    /\ stage[r] = "mail" => Op(r, {"reset", "sendCode"})
    /\ stage[r] = "saveRecord" => Op(r, {"sendCode"})
    /\ stage[r] \in {"findRecord", "markVerified"} => Op(r, {"validate"})
    /\ stage[r] # "done" => answer[r] = "none"
    /\ stage[r] = "new" => call[r] = NoCall
    /\ stage[r] # "new" => call[r] \in Calls

Owed(r) == StageOf(r) /\ HeldOf(r) /\ StaysOf(r) /\ TruthOf(r)

AllOwed == \A r \in Requests : Owed(r)

\* The four invariants about requests are one about each of them.
LEMMA OwedToEach ==
    AllOwed <=> /\ CallMatchesStage /\ HeldIsThere
                /\ CommittedStays /\ AnswersTellTheTruth
<1>1. CallMatchesStage <=> \A r \in Requests : StageOf(r)
  BY Zenon DEF CallMatchesStage, StageOf
<1>2. HeldIsThere <=> \A r \in Requests : HeldOf(r)
  BY Zenon DEF HeldIsThere, HeldOf
<1>3. CommittedStays <=> \A r \in Requests : StaysOf(r)
  BY Zenon DEF CommittedStays, StaysOf
<1>4. AnswersTellTheTruth <=> \A r \in Requests : TruthOf(r)
  BY Zenon DEF AnswersTellTheTruth, TruthOf
<1>5. QED
  BY <1>1, <1>2, <1>3, <1>4, Zenon DEF AllOwed, Owed

(***************************************************************************)
(* What no step of any request takes back: rows keep their columns but for *)
(* the hash, a verified record stays verified, a password that was had     *)
(* once was had, and what a request has committed stays committed.         *)
(***************************************************************************)
Grows ==
    /\ past \subseteq past'
    /\ \A u \in users : \E v \in users' :
          v.id = u.id /\ v.email = u.email /\ v.role = u.role
    /\ \A x \in records : \E y \in records' :
          /\ y.id = x.id /\ y.email = x.email /\ y.code = x.code
          /\ x.verified => y.verified

\* A request that does not move is owed what it was, after any growth.
LEMMA OthersKeep ==
    ASSUME Grows, NEW r \in Requests, Owed(r),
           stage'[r] = stage[r], call'[r] = call[r],
           answer'[r] = answer[r], held'[r] = held[r]
    PROVE  Owed(r)'
<1>1. StageOf(r)'
  BY DEF Owed, StageOf, Op
<1>2. HeldOf(r)'
  <2>1. ASSUME stage[r] = "updateUser"
        PROVE  \E v \in users' :
                  /\ v.id = held[r]
                  /\ call[r].op = "change" =>
                        call[r].user = v.id /\ <<v.id, Hash(call[r].old)>> \in past'
                  /\ call[r].op = "reset" => call[r].email = v.email
    <3>1. PICK u \in users :
             /\ u.id = held[r]
             /\ call[r].op = "change" =>
                   call[r].user = u.id /\ <<u.id, Hash(call[r].old)>> \in past
             /\ call[r].op = "reset" => call[r].email = u.email
      BY <2>1 DEF Owed, HeldOf
    <3>2. PICK v \in users' : v.id = u.id /\ v.email = u.email /\ v.role = u.role
      BY DEF Grows
    <3>3. QED
      <4>1. v.id = held[r]
        BY <3>1, <3>2
      <4>2. call[r].op = "change" =>
               call[r].user = v.id /\ <<v.id, Hash(call[r].old)>> \in past'
        <5>1. past \subseteq past'
          BY DEF Grows
        <5>2. QED
          BY <3>1, <3>2, <5>1
      <4>3. call[r].op = "reset" => call[r].email = v.email
        BY <3>1, <3>2
      <4>4. QED
        BY <4>1, <4>2, <4>3
  <2>2. ASSUME stage[r] = "markVerified"
        PROVE  \E y \in records' : /\ y.id = held[r] /\ y.email = call[r].email
                                   /\ y.code = call[r].code
    BY <2>2 DEF Owed, HeldOf, Grows
  <2>3. QED
    BY <2>1, <2>2 DEF HeldOf
<1>3. ASSUME NEW e, NEW p, HadPassword(e, p) PROVE HadPassword(e, p)'
  BY <1>3 DEF HadPassword, Grows
<1>4. StaysOf(r)'
  BY <1>3 DEF Owed, StaysOf, Grows
<1>5. TruthOf(r)'
  BY <1>3 DEF Owed, TruthOf, Grows
<1>6. QED
  BY <1>1, <1>2, <1>4, <1>5 DEF Owed

(***************************************************************************)
(* What follows for a step that writes no table but the set of expired     *)
(* records: rows, passwords and e-mails keep the requests they came from.  *)
(***************************************************************************)
CommitsKeep ==
    \A r \in Requests : Committed(r) => Committed(r)' /\ call'[r] = call[r]

\* What holds of the tables still holds when they do not change.
LEMMA TablesKeep ==
    ASSUME AuthInv, UNCHANGED <<users, records, past, mails>>, CommitsKeep
    PROVE  /\ Grows
           /\ UsersHaveOrigin' /\ DrawnHaveOrigin'
           /\ OneUserPerEmail' /\ MailedPasswordsWork'
<1> USE DEF AuthInv
<1>1. Grows
  BY DEF Grows
<1>2. UsersHaveOrigin'
  BY DEF UsersHaveOrigin, CommitsKeep, Op
<1>3. DrawnHaveOrigin'
  <2>1. \A x \in records : x.id \in Requests
    BY DEF TypeOK, Records
  <2>2. QED
    BY <2>1 DEF DrawnHaveOrigin, CommitsKeep
<1>4. OneUserPerEmail' /\ MailedPasswordsWork'
  BY DEF OneUserPerEmail, MailedPasswordsWork, HadPassword
<1>5. QED
  BY <1>1, <1>2, <1>3, <1>4

\* Only r moves.
Moves(r) ==
    \A q \in Requests \ {r} : /\ stage'[q] = stage[q] /\ call'[q] = call[q]
                              /\ answer'[q] = answer[q] /\ held'[q] = held[q]

\* A step of one request keeps the invariant if the tables do, and the request
\* is owed what its new stage says: the others are owed what they were.
LEMMA StepInv ==
    ASSUME AuthInv, Grows, NEW r \in Requests, Moves(r), TypeOK', Owed(r)',
           UsersHaveOrigin', DrawnHaveOrigin', OneUserPerEmail', MailedPasswordsWork'
    PROVE  AuthInv'
<1>1. \A q \in Requests : Owed(q)
  BY OwedToEach DEF AuthInv, AllOwed
<1>2. ASSUME NEW q \in Requests PROVE Owed(q)'
  <2>1. CASE q = r
    BY <2>1
  <2>2. CASE q # r
    BY <2>2, <1>1, OthersKeep DEF Moves
  <2>3. QED
    BY <2>1, <2>2
<1>3. AllOwed'
  BY <1>2 DEF AllOwed
<1>4. (CallMatchesStage /\ HeldIsThere /\ CommittedStays /\ AnswersTellTheTruth)'
  BY <1>3, OwedToEach, PTL
<1>5. QED
  BY <1>4 DEF AuthInv

\* In particular a step of one request that writes no table.
LEMMA QuietInv ==
    ASSUME AuthInv, UNCHANGED <<users, records, past, mails>>,
           NEW r \in Requests, Moves(r), TypeOK', Owed(r)',
           Committed(r) => Committed(r)' /\ call'[r] = call[r]
    PROVE  AuthInv'
<1>1. CommitsKeep
  BY DEF CommitsKeep, Moves, Committed
<1>2. QED
  BY <1>1, TablesKeep, StepInv

\* The three ways to leave an await move one request and keep the types.
LEMMA ProceedMoves ==
    ASSUME NEW r \in Requests, TypeOK, NEW s \in Stages, Proceed(r, s)
    PROVE  /\ Moves(r) /\ stage'[r] = s
           /\ stage' \in [Requests -> Stages]
           /\ UNCHANGED <<call, held, answer>>
BY DEF Proceed, Moves, TypeOK

\* Reading a row moves one request, which holds the id of the row.
LEMMA HoldMoves ==
    ASSUME NEW r \in Requests, TypeOK, NEW s \in Stages, NEW id \in UserIds,
           Hold(r, id, s)
    PROVE  /\ Moves(r) /\ stage'[r] = s /\ held'[r] = id
           /\ stage' \in [Requests -> Stages]
           /\ held' \in [Requests -> UserIds \union {Nobody}]
           /\ UNCHANGED <<call, answer>>
BY DEF Hold, Moves, TypeOK

\* A reply moves one request, which is done.
LEMMA ReplyMoves ==
    ASSUME NEW r \in Requests, TypeOK, NEW a \in Answers, Reply(r, a)
    PROVE  /\ Moves(r) /\ stage'[r] = "done" /\ answer'[r] = a
           /\ stage' \in [Requests -> Stages]
           /\ answer' \in [Requests -> Answers]
           /\ UNCHANGED <<call, held>>
BY DEF Reply, Moves, TypeOK, Stages

\* A request that is not new may be answered at any time with anything but 200.
LEMMA AnsweredIsOwed ==
    ASSUME NEW r \in Requests, StageOf(r), stage[r] # "new",
           stage'[r] = "done", answer'[r] # "200", call'[r] = call[r]
    PROVE  Owed(r)'
BY DEF Owed, StageOf, HeldOf, StaysOf, TruthOf

\* An answer that is not 200 given before the request has written anything.
LEMMA RefuseInv ==
    ASSUME AuthInv, UNCHANGED <<db, mails>>,
           NEW r \in Requests, stage[r] \notin {"new", "done"},
           NEW a \in Answers \ {"200", "none"}, Reply(r, a),
           Committed(r) => a = "500"
    PROVE  AuthInv'
<1>1. TypeOK /\ StageOf(r)
  BY OwedToEach DEF AuthInv, AllOwed, Owed
<1>2. /\ Moves(r) /\ stage'[r] = "done" /\ answer'[r] = a
      /\ stage' \in [Requests -> Stages]
      /\ answer' \in [Requests -> Answers]
      /\ UNCHANGED <<call, held>>
  BY <1>1, ReplyMoves
<1>3. TypeOK'
  BY <1>1, <1>2 DEF TypeOK, db
<1>4. Owed(r)'
  BY <1>1, <1>2, AnsweredIsOwed
<1>5. Committed(r) => Committed(r)' /\ call'[r] = call[r]
  BY <1>2 DEF Committed
<1>6. QED
  BY <1>2, <1>3, <1>4, <1>5, QuietInv DEF db

-----------------------------------------------------------------------------
(* The steps that write no table *)

\* The users before the first request satisfy the invariant.
LEMMA InitInv == Init => AuthInv
<1> SUFFICES ASSUME Init PROVE AuthInv
  OBVIOUS
<1> USE DEF Init
<1>1. PriorUsers \subseteq Users
  BY PriorUsersAssumption DEF Users, UserIds, Hashes, Secrets
<1>2. TypeOK
  <2>1. past \subseteq UserIds \X Hashes
    BY <1>1 DEF Users
  <2>2. QED
    BY <1>1, <2>1 DEF TypeOK, Stages, Answers
<1>3. ASSUME NEW r \in Requests PROVE Owed(r)
  BY DEF Owed, StageOf, HeldOf, StaysOf, TruthOf
<1>4. UsersHaveOrigin
  BY DEF UsersHaveOrigin
<1>5. DrawnHaveOrigin
  <2>1. ASSUME NEW u \in PriorUsers, NEW r \in Requests PROVE u.hash # Hash(r)
    <3>1. PICK p \in Passwords : u.hash = Hash(p)
      BY PriorUsersAssumption
    <3>2. QED
      BY <3>1, ChosenIsNotDrawn
  <2>2. \A x \in past : \A r \in Requests : x[2] # Hash(r)
    BY <2>1
  <2>3. QED
    BY <2>2 DEF DrawnHaveOrigin
<1>6. OneUserPerEmail /\ MailedPasswordsWork
  BY PriorUsersAssumption DEF OneUserPerEmail, MailedPasswordsWork
<1>7. QED
  BY <1>2, <1>3, <1>4, <1>5, <1>6, OwedToEach DEF AllOwed, AuthInv

\* A request that comes in is owed nothing yet.
LEMMA ReceiveInv ==
    ASSUME AuthInv, NEW r \in Requests, Receive(r)
    PROVE  AuthInv'
<1>1. PICK c \in Calls :
         /\ stage[r] = "new"
         /\ call'  = [call EXCEPT ![r] = c]
         /\ stage' = [stage EXCEPT ![r] = FirstStage(c.op)]
         /\ UNCHANGED <<db, mails, held, answer>>
  BY DEF Receive
<1>2. TypeOK /\ StageOf(r)
  BY OwedToEach DEF AuthInv, AllOwed, Owed
<1>3. /\ c.op = "sendCode" => FirstStage(c.op) = "saveRecord"
      /\ c.op = "validate" => FirstStage(c.op) = "findRecord"
      /\ c.op = "change" => FirstStage(c.op) = "findUser"
      /\ c.op \in {"checkEmail", "register", "login", "reset"} =>
            FirstStage(c.op) = "findEmail"
  BY DEF FirstStage
<1>4. c.op \in {"sendCode", "validate", "change", "checkEmail", "register",
                "login", "reset"}
  BY CallFields
<1>5. FirstStage(c.op) \in Stages
  BY <1>3, <1>4 DEF Stages
<1>6. stage'[r] = FirstStage(c.op) /\ call'[r] = c /\ answer'[r] = "none"
  BY <1>1, <1>2 DEF TypeOK, StageOf
<1>7. Moves(r)
  BY <1>1, <1>2 DEF Moves, TypeOK
<1>8. TypeOK'
  <2>1. call' \in [Requests -> Calls \union {NoCall}]
    BY <1>1, <1>2 DEF TypeOK
  <2>2. stage' \in [Requests -> Stages]
    BY <1>1, <1>2, <1>5 DEF TypeOK
  <2>3. QED
    BY <1>1, <1>2, <2>1, <2>2 DEF TypeOK, db
<1>9. Owed(r)'
  BY <1>3, <1>4, <1>6 DEF Owed, StageOf, HeldOf, StaysOf, TruthOf, Op
<1>10. ~Committed(r)
  BY <1>1 DEF Committed
<1>11. QED
  BY <1>1, <1>7, <1>8, <1>9, <1>10, QuietInv DEF db

\* A step that only answers 200, and is owed what that says.
LEMMA AcceptInv ==
    ASSUME AuthInv, UNCHANGED <<db, mails>>, NEW r \in Requests,
           Reply(r, "200"), stage[r] # "new",
           \/ call[r].op \in {"checkEmail", "login"}
           \/ stage[r] = "refresh" /\ call[r].op \in {"register", "change"}
    PROVE  AuthInv'
<1>1. TypeOK /\ Owed(r) /\ StageOf(r)
  BY OwedToEach DEF AuthInv, AllOwed, Owed
<1>2. /\ Moves(r) /\ stage'[r] = "done" /\ answer'[r] = "200"
      /\ stage' \in [Requests -> Stages]
      /\ answer' \in [Requests -> Answers]
      /\ UNCHANGED <<call, held>>
  BY <1>1, ReplyMoves DEF Answers
<1>3. TypeOK'
  BY <1>1, <1>2 DEF TypeOK, db
<1>4. Owed(r)'
  BY <1>1, <1>2 DEF Owed, StageOf, HeldOf, StaysOf, TruthOf, Op, db
<1>5. QED
  BY <1>2, <1>3, <1>4, QuietInv DEF db, Committed

\* The lookup of the address in register, login and reset_password.
LEMMA FindEmailInv ==
    ASSUME AuthInv, NEW r \in Requests, FindEmail(r)
    PROVE  AuthInv'
<1>1. TypeOK /\ Owed(r) /\ StageOf(r)
  BY OwedToEach DEF AuthInv, AllOwed, Owed
<1>2. stage[r] = "findEmail" /\ ~Committed(r) /\ UNCHANGED <<db, mails>>
  BY DEF FindEmail, CheckEmailDuplicate, RegisterFresh, Login, FindAccount, AtEmail,
         Committed
<1>3. CASE CheckEmailDuplicate(r)
  <2>1. call[r].op = "checkEmail" /\ (Reply(r, "USER_001") \/ Reply(r, "200"))
    BY <1>3 DEF CheckEmailDuplicate, AtEmail
  <2>2. CASE Reply(r, "USER_001")
    BY <1>2, <2>2, RefuseInv DEF Answers, Refusals
  <2>3. CASE Reply(r, "200")
    <3>1. stage[r] # "new" /\ call[r].op \in {"checkEmail", "login"}
      BY <1>2, <2>1
    <3>2. QED
      BY <1>2, <2>3, <3>1, AcceptInv
  <2>4. QED
    BY <2>1, <2>2, <2>3
<1>4. CASE RegisterFresh(r)
  <2>1. CASE Reply(r, "USER_001")
    BY <1>2, <2>1, RefuseInv DEF Answers, Refusals
  <2>2. CASE call[r].op = "register" /\ Proceed(r, "insertUser")
    <3>1. /\ Moves(r) /\ stage'[r] = "insertUser"
          /\ stage' \in [Requests -> Stages]
          /\ UNCHANGED <<call, held, answer>>
      BY <1>1, <2>2, ProceedMoves DEF Stages
    <3>2. TypeOK'
      BY <1>1, <1>2, <3>1 DEF TypeOK, db
    <3>3. Owed(r)'
      BY <1>1, <1>2, <2>2, <3>1 DEF Owed, StageOf, HeldOf, StaysOf, TruthOf, Op
    <3>4. QED
      BY <1>2, <3>1, <3>2, <3>3, QuietInv DEF db
  <2>3. QED
    BY <1>4, <2>1, <2>2 DEF RegisterFresh, AtEmail
<1>5. CASE Login(r)
  <2>1. call[r].op = "login" /\ (Reply(r, "AUTH_002") \/ Reply(r, "200"))
    BY <1>5 DEF Login, AtEmail
  <2>2. CASE Reply(r, "AUTH_002")
    BY <1>2, <2>2, RefuseInv DEF Answers, Refusals
  <2>3. CASE Reply(r, "200")
    <3>1. stage[r] # "new" /\ call[r].op \in {"checkEmail", "login"}
      BY <1>2, <2>1
    <3>2. QED
      BY <1>2, <2>3, <3>1, AcceptInv
  <2>4. QED
    BY <2>1, <2>2, <2>3
<1>6. CASE FindAccount(r)
  <2>1. CASE Reply(r, "USER_002")
    BY <1>2, <2>1, RefuseInv DEF Answers, Refusals
  <2>2. CASE \E u \in users : u.email = call[r].email /\ Hold(r, u.id, "updateUser")
    <3>1. PICK u \in users : u.email = call[r].email /\ Hold(r, u.id, "updateUser")
      BY <2>2
    <3>2. u.id \in UserIds
      BY <1>1 DEF TypeOK, Users
    <3>3. /\ Moves(r) /\ stage'[r] = "updateUser" /\ held'[r] = u.id
          /\ stage' \in [Requests -> Stages]
          /\ held' \in [Requests -> UserIds \union {Nobody}]
          /\ UNCHANGED <<call, answer>>
      BY <1>1, <3>1, <3>2, HoldMoves DEF Stages
    <3>4. TypeOK'
      BY <1>1, <1>2, <3>3 DEF TypeOK, db
    <3>5. call[r].op = "reset"
      BY <1>6 DEF FindAccount, AtEmail
    <3>6. Owed(r)'
      BY <1>1, <1>2, <3>1, <3>3, <3>5
      DEF Owed, StageOf, HeldOf, StaysOf, TruthOf, Op, db
    <3>7. QED
      BY <1>2, <3>3, <3>4, <3>6, QuietInv DEF db
  <2>3. QED
    BY <1>6, <2>1, <2>2 DEF FindAccount
<1>7. QED
  BY <1>3, <1>4, <1>5, <1>6 DEF FindEmail

\* The password that fits the hash read now is one the user has had.
LEMMA FindUserInv ==
    ASSUME AuthInv, NEW r \in Requests, FindUser(r)
    PROVE  AuthInv'
<1>1. TypeOK /\ Owed(r) /\ StageOf(r)
  BY OwedToEach DEF AuthInv, AllOwed, Owed
<1>2. stage[r] = "findUser" /\ ~Committed(r) /\ UNCHANGED <<db, mails>>
  BY DEF FindUser, Committed
<1>3. CASE Reply(r, "AUTH_002")
  BY <1>2, <1>3, RefuseInv DEF Answers, Refusals
<1>4. CASE \E u \in users : /\ u.id = call[r].user /\ Verify(call[r].old, u.hash)
                            /\ Hold(r, u.id, "updateUser")
  <2>1. PICK u \in users : /\ u.id = call[r].user /\ Verify(call[r].old, u.hash)
                           /\ Hold(r, u.id, "updateUser")
    BY <1>4
  <2>2. u.id \in UserIds
    BY <1>1 DEF TypeOK, Users
  <2>3. /\ Moves(r) /\ stage'[r] = "updateUser" /\ held'[r] = u.id
        /\ stage' \in [Requests -> Stages]
        /\ held' \in [Requests -> UserIds \union {Nobody}]
        /\ UNCHANGED <<call, answer>>
    BY <1>1, <2>1, <2>2, HoldMoves DEF Stages
  <2>4. TypeOK'
    BY <1>1, <1>2, <2>3 DEF TypeOK, db
  <2>5. <<u.id, Hash(call[r].old)>> \in past
    BY <2>1 DEF AuthInv, UsersHaveOrigin, Verify
  <2>6. call[r].op = "change"
    BY <1>1, <1>2 DEF StageOf, Op
  <2>7. Owed(r)'
    <3>1. StageOf(r)' /\ StaysOf(r)' /\ TruthOf(r)'
      BY <1>1, <1>2, <2>3, <2>6 DEF Owed, StageOf, StaysOf, TruthOf, Op
    <3>2. HeldOf(r)'
      BY <1>2, <2>1, <2>3, <2>5, <2>6 DEF HeldOf, db
    <3>3. QED
      BY <3>1, <3>2 DEF Owed
  <2>8. QED
    BY <1>2, <2>3, <2>4, <2>7, QuietInv DEF db
<1>5. QED
  BY <1>3, <1>4 DEF FindUser

\* The lookup of the record of a code.
LEMMA FindRecordInv ==
    ASSUME AuthInv, NEW r \in Requests, FindRecord(r)
    PROVE  AuthInv'
<1>1. TypeOK /\ Owed(r) /\ StageOf(r)
  BY OwedToEach DEF AuthInv, AllOwed, Owed
<1>2. stage[r] = "findRecord" /\ ~Committed(r) /\ UNCHANGED <<db, mails>>
  BY DEF FindRecord, Committed
<1>3. CASE Reply(r, "USER_006")
  BY <1>2, <1>3, RefuseInv DEF Answers, Refusals
<1>4. CASE \E x \in OpenRecords(r) : Hold(r, x.id, "markVerified")
  <2>1. PICK x \in OpenRecords(r) : Hold(r, x.id, "markVerified")
    BY <1>4
  <2>2. x \in records /\ x.email = call[r].email /\ x.code = call[r].code
    BY <2>1 DEF OpenRecords
  <2>3. x.id \in UserIds
    BY <1>1, <2>2 DEF TypeOK, Records, UserIds
  <2>4. /\ Moves(r) /\ stage'[r] = "markVerified" /\ held'[r] = x.id
        /\ stage' \in [Requests -> Stages]
        /\ held' \in [Requests -> UserIds \union {Nobody}]
        /\ UNCHANGED <<call, answer>>
    BY <1>1, <2>1, <2>3, HoldMoves DEF Stages
  <2>5. TypeOK'
    BY <1>1, <1>2, <2>4 DEF TypeOK, db
  <2>6. Owed(r)'
    BY <1>1, <1>2, <2>2, <2>4 DEF Owed, StageOf, HeldOf, StaysOf, TruthOf, Op, db
  <2>7. QED
    BY <1>2, <2>4, <2>5, <2>6, QuietInv DEF db
<1>5. QED
  BY <1>3, <1>4 DEF FindRecord

\* reset_password goes on to its e-mail; the others are done.
LEMMA RefreshInv ==
    ASSUME AuthInv, NEW r \in Requests, Refresh(r)
    PROVE  AuthInv'
<1>1. TypeOK /\ Owed(r) /\ StageOf(r)
  BY OwedToEach DEF AuthInv, AllOwed, Owed
<1>2. stage[r] = "refresh" /\ UNCHANGED <<db, mails>>
  BY DEF Refresh
<1>3. CASE call[r].op = "reset"
  <2>1. /\ Moves(r) /\ stage'[r] = "mail"
        /\ stage' \in [Requests -> Stages]
        /\ UNCHANGED <<call, held, answer>>
    BY <1>1, <1>3, ProceedMoves DEF Stages, Refresh
  <2>2. TypeOK'
    BY <1>1, <1>2, <2>1 DEF TypeOK, db
  <2>3. Owed(r)'
    BY <1>1, <1>2, <1>3, <2>1
    DEF Owed, StageOf, HeldOf, StaysOf, TruthOf, Op, HadPassword, db
  <2>4. QED
    BY <1>2, <2>1, <2>2, <2>3, QuietInv DEF db, Committed
<1>4. CASE call[r].op # "reset"
  BY <1>1, <1>2, <1>4, AcceptInv DEF Refresh, StageOf, Op
<1>5. QED
  BY <1>3, <1>4

\* A request that raises is answered 500.
LEMMA FailInv ==
    ASSUME AuthInv, NEW r \in Requests, RequestFails(r)
    PROVE  AuthInv'
BY RefuseInv DEF RequestFails, Active, Answers

\* A record whose time has come only expires.
LEMMA ExpireInv ==
    ASSUME AuthInv, Expire
    PROVE  AuthInv'
<1>1. UNCHANGED <<users, records, past, mails, call, held, stage, answer>>
  BY DEF Expire
<1>2. TypeOK'
  BY <1>1 DEF AuthInv, TypeOK, Expire, Records
<1>3. /\ UsersHaveOrigin' /\ DrawnHaveOrigin'
      /\ OneUserPerEmail' /\ MailedPasswordsWork'
  BY <1>1, TablesKeep DEF CommitsKeep, Committed
<1>4. (CallMatchesStage /\ HeldIsThere /\ CommittedStays /\ AnswersTellTheTruth)'
  BY <1>1 DEF AuthInv, CallMatchesStage, HeldIsThere, CommittedStays,
              AnswersTellTheTruth, HadPassword, Op
<1>5. QED
  BY <1>2, <1>3, <1>4 DEF AuthInv

\* The requests that were under way are answered "lost"; what they committed stays.
LEMMA CrashInv ==
    ASSUME AuthInv, Crash
    PROVE  AuthInv'
<1>1. TypeOK /\ \A r \in Requests : Owed(r)
  BY OwedToEach DEF AuthInv, AllOwed
<1>2. UNCHANGED <<db, mails, call, held>>
  BY DEF Crash
<1>3. \A r \in Requests :
         \/ Active(r) /\ stage'[r] = "done" /\ answer'[r] = "lost"
         \/ ~Active(r) /\ stage'[r] = stage[r] /\ answer'[r] = answer[r]
  BY DEF Crash
<1>4. TypeOK'
  <2>1. stage' \in [Requests -> Stages]
    BY <1>1 DEF Crash, TypeOK, Stages
  <2>2. answer' \in [Requests -> Answers]
    BY <1>1 DEF Crash, TypeOK, Answers
  <2>3. QED
    BY <1>1, <1>2, <2>1, <2>2 DEF TypeOK, db
<1>5. CommitsKeep
  BY <1>2, <1>3 DEF CommitsKeep, Committed, Active
<1>6. /\ Grows
      /\ UsersHaveOrigin' /\ DrawnHaveOrigin'
      /\ OneUserPerEmail' /\ MailedPasswordsWork'
  BY <1>2, <1>5, TablesKeep DEF db
<1>7. ASSUME NEW r \in Requests PROVE Owed(r)'
  <2>1. CASE Active(r)
    BY <1>1, <1>2, <1>3, <2>1, AnsweredIsOwed DEF Active, Owed
  <2>2. CASE ~Active(r)
    BY <1>1, <1>2, <1>3, <1>6, <2>2, OthersKeep
  <2>3. QED
    BY <2>1, <2>2
<1>8. AllOwed'
  BY <1>7 DEF AllOwed
<1>9. (CallMatchesStage /\ HeldIsThere /\ CommittedStays /\ AnswersTellTheTruth)'
  BY <1>8, OwedToEach, PTL
<1>10. QED
  BY <1>4, <1>6, <1>9 DEF AuthInv

\* A step that changes nothing keeps the invariant.
LEMMA StutterInv ==
    ASSUME AuthInv, UNCHANGED vars
    PROVE  AuthInv'
<1>1. UNCHANGED <<users, records, expired, past, mails, call, held, stage, answer>>
  BY DEF vars, db
<1>2. TypeOK'
  BY <1>1 DEF AuthInv, TypeOK
<1>3. /\ UsersHaveOrigin' /\ DrawnHaveOrigin'
      /\ OneUserPerEmail' /\ MailedPasswordsWork'
  BY <1>1, TablesKeep DEF CommitsKeep, Committed
<1>4. (CallMatchesStage /\ HeldIsThere /\ CommittedStays /\ AnswersTellTheTruth)'
  BY <1>1 DEF AuthInv, CallMatchesStage, HeldIsThere, CommittedStays,
              AnswersTellTheTruth, HadPassword, Op
<1>5. QED
  BY <1>2, <1>3, <1>4 DEF AuthInv

-----------------------------------------------------------------------------
(* The steps that write a table *)

\* The new row has a fresh id and, thanks to the unique column, a fresh address.
LEMMA InsertUserInv ==
    ASSUME AuthInv, NEW r \in Requests, InsertUser(r)
    PROVE  AuthInv'
<1>1. TypeOK /\ Owed(r) /\ StageOf(r)
  BY OwedToEach DEF AuthInv, AllOwed, Owed
<1>2. stage[r] = "insertUser" /\ ~Committed(r)
  BY DEF InsertUser, Committed
<1>3. call[r] \in Calls /\ call[r].op = "register"
  BY <1>1, <1>2 DEF StageOf, Op
<1>4. CASE Reply(r, "IntegrityError") /\ UNCHANGED db
  BY <1>2, <1>4, RefuseInv DEF InsertUser, Answers
<1>5. CASE /\ ~EmailViolated(NewUser(r))
           /\ users' = users \union {NewUser(r)}
           /\ past' = past \union {<<r, NewUser(r).hash>>}
           /\ Proceed(r, "refresh")
           /\ UNCHANGED <<records, expired, mails>>
  <2>0. PICK n, p : n = NewUser(r) /\ p = call[r].password
    OBVIOUS
  <2>1. /\ n \in Users /\ n.id = r /\ n.email = call[r].email
        /\ n.role = call[r].role /\ n.hash = Hash(p) /\ p \in Passwords
    BY <1>3, <2>0, CallFields DEF NewUser, Users, UserIds, Hashes, Secrets
  <2>2. /\ Moves(r) /\ stage'[r] = "refresh"
        /\ stage' \in [Requests -> Stages]
        /\ UNCHANGED <<call, held, answer>>
    BY <1>1, <1>5, ProceedMoves DEF Stages
  <2>3. users' = users \union {n} /\ past' = past \union {<<r, Hash(p)>>}
    BY <1>5, <2>0, <2>1
  <2>4. TypeOK'
    <3>1. <<r, Hash(p)>> \in UserIds \X Hashes
      BY <2>1 DEF Users
    <3>2. QED
      BY <1>1, <1>5, <2>1, <2>2, <2>3, <3>1 DEF TypeOK
  <2>5. Grows
    BY <1>5, <2>3 DEF Grows
  <2>6. /\ Committed(r)'
        /\ \A q \in Requests : Committed(q) => Committed(q)'
    BY <2>2 DEF Committed, Moves
  <2>7. Owed(r)'
    BY <1>1, <1>2, <1>3, <2>1, <2>2, <2>3
    DEF Owed, StageOf, HeldOf, StaysOf, TruthOf, Op
  <2>8. UsersHaveOrigin'
    <3>1. ASSUME NEW u \in users
          PROVE  /\ <<u.id, u.hash>> \in past'
                 /\ \/ \E v \in PriorUsers :
                         v.id = u.id /\ v.email = u.email /\ v.role = u.role
                    \/ /\ u.id \in Requests /\ Op(u.id, {"register"})'
                       /\ Committed(u.id)'
                       /\ u.email = call'[u.id].email /\ u.role = call'[u.id].role
      BY <2>2, <2>3, <2>6 DEF AuthInv, UsersHaveOrigin, Op
    <3>2. /\ <<n.id, n.hash>> \in past'
          /\ n.id \in Requests /\ Op(n.id, {"register"})' /\ Committed(n.id)'
          /\ n.email = call'[n.id].email /\ n.role = call'[n.id].role
      BY <1>3, <2>1, <2>2, <2>3, <2>6 DEF Op
    <3>3. QED
      BY <2>3, <3>1, <3>2 DEF UsersHaveOrigin
  <2>9. DrawnHaveOrigin'
    <3>1. \A q \in Requests : Hash(p) # Hash(q)
      BY <2>1, ChosenIsNotDrawn
    <3>2. \A x \in records : x.id \in Requests
      BY <1>1 DEF TypeOK, Records
    <3>3. \A x \in past' : \A q \in Requests : x[2] = Hash(q) => Committed(q)'
      BY <2>3, <2>6, <3>1 DEF AuthInv, DrawnHaveOrigin
    <3>4. QED
      BY <1>5, <2>6, <3>2, <3>3 DEF AuthInv, DrawnHaveOrigin
  <2>10. OneUserPerEmail'
    <3>1. \A u \in users : u.email # n.email
      BY <1>5, <2>0 DEF EmailViolated, Taken
    <3>2. QED
      BY <2>3, <3>1 DEF AuthInv, OneUserPerEmail
  <2>11. MailedPasswordsWork'
    <3>1. \A e, q : HadPassword(e, q) => HadPassword(e, q)'
      BY <2>3 DEF HadPassword
    <3>2. mails' = mails
      BY <1>5
    <3>3. QED
      BY <3>1, <3>2 DEF AuthInv, MailedPasswordsWork
  <2>12. QED
    BY <2>2, <2>4, <2>5, <2>7, <2>8, <2>9, <2>10, <2>11, StepInv
<1>6. QED
  BY <1>4, <1>5, Zenon DEF InsertUser

\* The row that was read is still there, and it is still its owner's; its new
\* hash is remembered in past like every other.
LEMMA UpdateUserInv ==
    ASSUME AuthInv, NEW r \in Requests, UpdateUser(r)
    PROVE  AuthInv'
<1>1. TypeOK /\ Owed(r) /\ StageOf(r) /\ HeldOf(r)
  BY OwedToEach DEF AuthInv, AllOwed, Owed
<1>2. stage[r] = "updateUser" /\ UNCHANGED <<records, expired, mails>>
  BY DEF UpdateUser
<1>3. call[r] \in Calls /\ call[r].op \in {"change", "reset"}
  BY <1>1, <1>2 DEF StageOf, Op
<1>4. PICK u0 \in users :
         /\ u0.id = held[r]
         /\ call[r].op = "change" =>
               call[r].user = u0.id /\ <<u0.id, Hash(call[r].old)>> \in past
         /\ call[r].op = "reset" => call[r].email = u0.email
  BY <1>1, <1>2 DEF HeldOf
<1>5. PICK id, p : id = held[r] /\ p = NewPassword(r)
  OBVIOUS
<1>6. /\ call[r].op = "change" => p = call[r].new /\ p \in Passwords
      /\ call[r].op = "reset" => p = r
      /\ p \in Secrets /\ id \in UserIds /\ Hash(p) \in Hashes
  BY <1>1, <1>3, <1>4, <1>5, CallFields
  DEF NewPassword, Secrets, TypeOK, Users, Hashes
<1>7. /\ users' = {IF u.id = id THEN [u EXCEPT !.hash = Hash(p)] ELSE u : u \in users}
      /\ past' = past \union {<<id, Hash(p)>>}
  BY <1>5 DEF UpdateUser
<1>8. /\ Moves(r) /\ stage'[r] = "refresh"
      /\ stage' \in [Requests -> Stages]
      /\ UNCHANGED <<call, held, answer>>
  BY <1>1, ProceedMoves DEF Stages, UpdateUser
<1>9. \A v \in users' : \E u \in users :
         /\ v.id = u.id /\ v.email = u.email /\ v.role = u.role
         /\ v = IF u.id = id THEN [u EXCEPT !.hash = Hash(p)] ELSE u
         /\ v.hash = IF u.id = id THEN Hash(p) ELSE u.hash
         /\ v \in Users
  <2>1. ASSUME NEW u \in users, NEW v,
               v = IF u.id = id THEN [u EXCEPT !.hash = Hash(p)] ELSE u
        PROVE  /\ v.id = u.id /\ v.email = u.email /\ v.role = u.role
               /\ v.hash = IF u.id = id THEN Hash(p) ELSE u.hash
               /\ v \in Users
    <3>1. u \in Users
      BY <1>1 DEF TypeOK
    <3>2. QED
      BY <1>6, <2>1, <3>1 DEF Users
  <2>2. QED
    BY <1>7, <2>1
<1>10. \A u \in users : \E v \in users' :
          v.id = u.id /\ v.email = u.email /\ v.role = u.role
  <2>1. ASSUME NEW u \in users
        PROVE  \E v \in users' : v.id = u.id /\ v.email = u.email /\ v.role = u.role
    <3>1. u \in Users
      BY <1>1 DEF TypeOK
    <3>2. PICK v \in users' : v = IF u.id = id THEN [u EXCEPT !.hash = Hash(p)] ELSE u
      BY <1>7
    <3>3. v.id = u.id /\ v.email = u.email /\ v.role = u.role
      BY <3>1, <3>2 DEF Users
    <3>4. QED
      BY <3>3
  <2>2. QED
    BY <2>1
<1>11. Grows
  BY <1>2, <1>7, <1>10 DEF Grows
<1>12. TypeOK'
  <2>1. users' \subseteq Users
    BY <1>9
  <2>2. past' \subseteq UserIds \X Hashes
    BY <1>1, <1>6, <1>7 DEF TypeOK
  <2>3. QED
    BY <1>1, <1>2, <1>8, <2>1, <2>2 DEF TypeOK
<1>13. Committed(r)' /\ \A q \in Requests : Committed(q) => Committed(q)'
  BY <1>8 DEF Committed, Moves
<1>14. Owed(r)'
  <2>1. StageOf(r)' /\ HeldOf(r)' /\ TruthOf(r)'
    BY <1>1, <1>2, <1>3, <1>8 DEF StageOf, HeldOf, TruthOf, Op
  <2>2. call[r].op = "change" => <<call[r].user, Hash(call[r].new)>> \in past'
    BY <1>4, <1>5, <1>6, <1>7
  <2>3. call[r].op = "reset" => HadPassword(call[r].email, r)'
    <3>1. SUFFICES ASSUME call[r].op = "reset"
                   PROVE  \E v \in users' :
                             v.email = call[r].email /\ <<v.id, Hash(r)>> \in past'
      BY <1>8 DEF HadPassword
    <3>2. PICK v \in users' : v.id = u0.id /\ v.email = u0.email
      BY <1>10
    <3>3. <<v.id, Hash(r)>> \in past'
      BY <1>4, <1>5, <1>6, <1>7, <3>1, <3>2
    <3>4. QED
      BY <1>4, <3>1, <3>2, <3>3
  <2>4. StaysOf(r)'
    BY <1>3, <1>8, <2>2, <2>3 DEF StaysOf
  <2>5. QED
    BY <2>1, <2>4 DEF Owed
<1>15. UsersHaveOrigin'
  <2>1. ASSUME NEW v \in users'
        PROVE  /\ <<v.id, v.hash>> \in past'
               /\ \/ \E w \in PriorUsers :
                       w.id = v.id /\ w.email = v.email /\ w.role = v.role
                  \/ /\ v.id \in Requests /\ Op(v.id, {"register"})'
                     /\ Committed(v.id)'
                     /\ v.email = call'[v.id].email /\ v.role = call'[v.id].role
    <3>1. PICK u \in users :
             /\ v.id = u.id /\ v.email = u.email /\ v.role = u.role
             /\ v.hash = IF u.id = id THEN Hash(p) ELSE u.hash
      BY <1>9
    <3>2. <<v.id, v.hash>> \in past'
      BY <1>7, <3>1 DEF AuthInv, UsersHaveOrigin
    <3>3. \/ \E w \in PriorUsers :
                w.id = u.id /\ w.email = u.email /\ w.role = u.role
          \/ /\ u.id \in Requests /\ Op(u.id, {"register"}) /\ Committed(u.id)
             /\ u.email = call[u.id].email /\ u.role = call[u.id].role
      BY DEF AuthInv, UsersHaveOrigin
    <3>4. QED
      BY <1>8, <1>13, <3>1, <3>2, <3>3 DEF Op
  <2>2. QED
    BY <2>1 DEF UsersHaveOrigin
<1>16. DrawnHaveOrigin'
  <2>1. ASSUME NEW q \in Requests, Hash(p) = Hash(q) PROVE q = r
    BY <1>3, <1>6, <2>1, HashFitsOne, ChosenIsNotDrawn
  <2>2. \A x \in records : x.id \in Requests
    BY <1>1 DEF TypeOK, Records
  <2>3. \A x \in past' : \A q \in Requests : x[2] = Hash(q) => Committed(q)'
    BY <1>7, <1>13, <2>1 DEF AuthInv, DrawnHaveOrigin
  <2>4. QED
    BY <1>2, <1>13, <2>2, <2>3 DEF AuthInv, DrawnHaveOrigin
<1>17. OneUserPerEmail'
  <2>1. ASSUME NEW v \in users', NEW w \in users', v.email = w.email
        PROVE  v = w
    <3>1. PICK u \in users :
             /\ v.email = u.email
             /\ v = IF u.id = id THEN [u EXCEPT !.hash = Hash(p)] ELSE u
      BY <1>9
    <3>2. PICK x \in users :
             /\ w.email = x.email
             /\ w = IF x.id = id THEN [x EXCEPT !.hash = Hash(p)] ELSE x
      BY <1>9
    <3>3. u = x
      BY <2>1, <3>1, <3>2 DEF AuthInv, OneUserPerEmail
    <3>4. QED
      BY <3>1, <3>2, <3>3
  <2>2. QED
    BY <2>1 DEF OneUserPerEmail
<1>18. MailedPasswordsWork'
  <2>1. ASSUME NEW e, NEW q, HadPassword(e, q) PROVE HadPassword(e, q)'
    <3>1. PICK u \in users : u.email = e /\ <<u.id, Hash(q)>> \in past
      BY <2>1 DEF HadPassword
    <3>2. PICK v \in users' : v.id = u.id /\ v.email = u.email
      BY <1>10
    <3>3. <<v.id, Hash(q)>> \in past'
      BY <1>7, <3>1, <3>2
    <3>4. QED
      BY <3>1, <3>2, <3>3 DEF HadPassword
  <2>2. QED
    BY <1>2, <2>1 DEF AuthInv, MailedPasswordsWork
<1>19. QED
  BY <1>8, <1>11, <1>12, <1>14, <1>15, <1>16, <1>17, <1>18, StepInv

\* The new record of a code has been drawn by its request.
LEMMA SaveRecordInv ==
    ASSUME AuthInv, NEW r \in Requests, SaveRecord(r)
    PROVE  AuthInv'
<1>1. TypeOK /\ Owed(r) /\ StageOf(r)
  BY OwedToEach DEF AuthInv, AllOwed, Owed
<1>2. stage[r] = "saveRecord" /\ UNCHANGED <<users, expired, past, mails>>
  BY DEF SaveRecord
<1>3. call[r] \in Calls /\ call[r].op = "sendCode"
  BY <1>1, <1>2 DEF StageOf, Op
<1>4. PICK code \in Codes :
         records' = records \union {[id |-> r, email |-> call[r].email,
                                     code |-> code, verified |-> FALSE]}
  BY DEF SaveRecord
<1>5. PICK x : x = [id |-> r, email |-> call[r].email, code |-> code, verified |-> FALSE]
  OBVIOUS
<1>6. x \in Records /\ x.id = r /\ records' = records \union {x}
  BY <1>3, <1>4, <1>5, CallFields DEF Records
<1>7. /\ Moves(r) /\ stage'[r] = "mail"
      /\ stage' \in [Requests -> Stages]
      /\ UNCHANGED <<call, held, answer>>
  BY <1>1, ProceedMoves DEF Stages, SaveRecord
<1>8. TypeOK'
  BY <1>1, <1>2, <1>6, <1>7 DEF TypeOK
<1>9. Grows
  BY <1>2, <1>6 DEF Grows
<1>10. Committed(r)' /\ \A q \in Requests : Committed(q) => Committed(q)'
  BY <1>7 DEF Committed, Moves
<1>11. Owed(r)'
  BY <1>1, <1>2, <1>3, <1>7 DEF Owed, StageOf, HeldOf, StaysOf, TruthOf, Op
<1>12. UsersHaveOrigin'
  BY <1>2, <1>7, <1>10 DEF AuthInv, UsersHaveOrigin, Op
<1>13. DrawnHaveOrigin'
  <2>1. \A y \in records : y.id \in Requests
    BY <1>1 DEF TypeOK, Records
  <2>2. QED
    BY <1>2, <1>6, <1>10, <2>1 DEF AuthInv, DrawnHaveOrigin
<1>14. OneUserPerEmail' /\ MailedPasswordsWork'
  BY <1>2 DEF AuthInv, OneUserPerEmail, MailedPasswordsWork, HadPassword
<1>15. QED
  BY <1>7, <1>8, <1>9, <1>11, <1>12, <1>13, <1>14, StepInv

\* The record that was read is still there, and carries the code that was asked for.
LEMMA MarkVerifiedInv ==
    ASSUME AuthInv, NEW r \in Requests, MarkVerified(r)
    PROVE  AuthInv'
<1>1. TypeOK /\ Owed(r) /\ StageOf(r) /\ HeldOf(r)
  BY OwedToEach DEF AuthInv, AllOwed, Owed
<1>2. stage[r] = "markVerified" /\ UNCHANGED <<users, expired, past, mails>>
  BY DEF MarkVerified
<1>3. call[r].op = "validate"
  BY <1>1, <1>2 DEF StageOf, Op
<1>4. PICK x0 \in records : /\ x0.id = held[r] /\ x0.email = call[r].email
                            /\ x0.code = call[r].code
  BY <1>1, <1>2 DEF HeldOf
<1>5. /\ Moves(r) /\ stage'[r] = "done" /\ answer'[r] = "200"
      /\ stage' \in [Requests -> Stages]
      /\ answer' \in [Requests -> Answers]
      /\ UNCHANGED <<call, held>>
  BY <1>1, ReplyMoves DEF Answers, MarkVerified
<1>6. records' = {IF x.id = held[r] THEN [x EXCEPT !.verified = TRUE] ELSE x :
                     x \in records}
  BY DEF MarkVerified
<1>7. ASSUME NEW x \in records, NEW y,
             y = IF x.id = held[r] THEN [x EXCEPT !.verified = TRUE] ELSE x
      PROVE  /\ y.id = x.id /\ y.email = x.email /\ y.code = x.code
             /\ x.verified => y.verified
             /\ x.id = held[r] => y.verified
             /\ y \in Records
  <2>1. x \in Records
    BY <1>1 DEF TypeOK
  <2>2. QED
    BY <1>7, <2>1 DEF Records
<1>8. \A x \in records : \E y \in records' :
         /\ y.id = x.id /\ y.email = x.email /\ y.code = x.code
         /\ x.verified => y.verified
         /\ x.id = held[r] => y.verified
  <2>1. ASSUME NEW x \in records
        PROVE  \E y \in records' :
                  /\ y.id = x.id /\ y.email = x.email /\ y.code = x.code
                  /\ x.verified => y.verified
                  /\ x.id = held[r] => y.verified
    <3>1. PICK y \in records' :
             y = IF x.id = held[r] THEN [x EXCEPT !.verified = TRUE] ELSE x
      BY <1>6
    <3>2. QED
      BY <1>7, <3>1
  <2>2. QED
    BY <2>1
<1>9. \A y \in records' : y \in Records /\ \E x \in records : y.id = x.id
  BY <1>6, <1>7
<1>10. TypeOK'
  BY <1>1, <1>2, <1>5, <1>9 DEF TypeOK
<1>11. Grows
  BY <1>2, <1>8 DEF Grows
<1>12. \A q \in Requests : Committed(q) => Committed(q)'
  BY <1>2, <1>5 DEF Committed, Moves
<1>13. Owed(r)'
  <2>1. StageOf(r)' /\ HeldOf(r)' /\ StaysOf(r)'
    BY <1>1, <1>2, <1>5 DEF StageOf, HeldOf, StaysOf, Op
  <2>2. TruthOf(r)'
    BY <1>3, <1>4, <1>5, <1>8 DEF TruthOf
  <2>3. QED
    BY <2>1, <2>2 DEF Owed
<1>14. UsersHaveOrigin'
  BY <1>2, <1>5, <1>12 DEF AuthInv, UsersHaveOrigin, Op
<1>15. DrawnHaveOrigin'
  <2>1. \A y \in records : y.id \in Requests
    BY <1>1 DEF TypeOK, Records
  <2>2. QED
    BY <1>2, <1>9, <1>12, <2>1 DEF AuthInv, DrawnHaveOrigin
<1>16. OneUserPerEmail' /\ MailedPasswordsWork'
  BY <1>2 DEF AuthInv, OneUserPerEmail, MailedPasswordsWork, HadPassword
<1>17. QED
  BY <1>5, <1>10, <1>11, <1>13, <1>14, <1>15, <1>16, StepInv

\* What is mailed has been committed, by reset_password as a password of the user.
LEMMA MailInv ==
    ASSUME AuthInv, NEW r \in Requests, Mail(r)
    PROVE  AuthInv'
<1>1. TypeOK /\ Owed(r) /\ StageOf(r) /\ StaysOf(r)
  BY OwedToEach DEF AuthInv, AllOwed, Owed
<1>2. stage[r] = "mail" /\ UNCHANGED <<users, records, expired, past>>
  BY DEF Mail, db
<1>3. call[r] \in Calls /\ call[r].op \in {"reset", "sendCode"}
  BY <1>1, <1>2 DEF StageOf, Op
<1>4. /\ Moves(r) /\ stage'[r] = "done" /\ answer'[r] = "200"
      /\ stage' \in [Requests -> Stages]
      /\ answer' \in [Requests -> Answers]
      /\ UNCHANGED <<call, held>>
  BY <1>1, ReplyMoves DEF Answers, Mail
<1>5. PICK m : m = Message(r)
  OBVIOUS
<1>6. mails' \in {mails, mails \union {m}}
  BY <1>5 DEF Mail
<1>7. call[r].email \in Emails
  BY <1>3, CallFields
<1>8. /\ call[r].op = "reset" => m = [to |-> call[r].email, password |-> r]
      /\ call[r].op = "sendCode" => m = [to |-> call[r].email, record |-> r]
  BY <1>3, <1>5 DEF Message
<1>9. m \in [to : Emails, password : Requests] \union [to : Emails, record : Requests]
  BY <1>3, <1>7, <1>8
<1>10. TypeOK'
  BY <1>1, <1>2, <1>4, <1>6, <1>9 DEF TypeOK
<1>11. Grows
  BY <1>2 DEF Grows
<1>12. \A q \in Requests : Committed(q) => Committed(q)'
  BY <1>2, <1>4 DEF Committed, Moves
<1>13. Owed(r)'
  BY <1>1, <1>2, <1>3, <1>4
  DEF Owed, StageOf, HeldOf, StaysOf, TruthOf, Op, HadPassword
<1>14. UsersHaveOrigin'
  BY <1>2, <1>4, <1>12 DEF AuthInv, UsersHaveOrigin, Op
<1>15. DrawnHaveOrigin'
  <2>1. \A y \in records : y.id \in Requests
    BY <1>1 DEF TypeOK, Records
  <2>2. QED
    BY <1>2, <1>12, <2>1 DEF AuthInv, DrawnHaveOrigin
<1>16. MailedPasswordsWork'
  <2>1. \A e, q : HadPassword(e, q) => HadPassword(e, q)'
    BY <1>2 DEF HadPassword
  <2>2. "password" \in DOMAIN m => HadPassword(m.to, m.password)
    BY <1>1, <1>2, <1>3, <1>8 DEF StaysOf
  <2>3. QED
    BY <1>6, <2>1, <2>2 DEF AuthInv, MailedPasswordsWork
<1>17. OneUserPerEmail'
  BY <1>2 DEF AuthInv, OneUserPerEmail
<1>18. QED
  BY <1>4, <1>10, <1>11, <1>13, <1>14, <1>15, <1>16, <1>17, StepInv

-----------------------------------------------------------------------------
(* The theorems *)

\* Every await of register, login, change, reset, sending and validating a code,
\* every failure and every crash keeps the invariant.
THEOREM Invariance == Spec => []AuthInv
<1>1. AuthInv /\ [Next]_vars => AuthInv'
  <2> SUFFICES ASSUME AuthInv, [Next]_vars PROVE AuthInv'
    OBVIOUS
  <2>1. ASSUME NEW r \in Requests, Resume(r) PROVE AuthInv'
    BY <2>1, FindEmailInv, FindUserInv, InsertUserInv, UpdateUserInv, RefreshInv,
       SaveRecordInv, FindRecordInv, MarkVerifiedInv, MailInv DEF Resume
  <2>2. CASE UNCHANGED vars
    BY <2>2, StutterInv
  <2>3. QED
    BY <2>1, <2>2, ReceiveInv, FailInv, ExpireInv, CrashInv DEF Next, Quiescent
<1>2. QED
  BY InitInv, <1>1, PTL DEF Spec

\* One account per address, whatever two concurrent registrations do.
THEOREM AccountsAreUnique == Spec => []OneUserPerEmail
<1>1. AuthInv => OneUserPerEmail
  BY DEF AuthInv
<1>2. QED
  BY <1>1, Invariance, PTL

\* What the 200 of each operation says came true.
THEOREM AnswersAreTrue == Spec => []AnswersTellTheTruth
<1>1. AuthInv => AnswersTellTheTruth
  BY DEF AuthInv
<1>2. QED
  BY <1>1, Invariance, PTL

\* A temporary password that was mailed has been the password of its account.
THEOREM MailedPasswordsWereSet == Spec => []MailedPasswordsWork
<1>1. AuthInv => MailedPasswordsWork
  BY DEF AuthInv
<1>2. QED
  BY <1>1, Invariance, PTL

\* A refused request left no account, password or record behind.
THEOREM RefusalsAreFree == Spec => []RefusedChangesNothing
<1>1. AuthInv => RefusedChangesNothing
  <2> SUFFICES ASSUME AuthInv, NEW r \in Requests,
                      answer[r] \in Refusals \union {"IntegrityError"}
               PROVE  /\ \A u \in users : u.id # r
                      /\ \A x \in past : x[2] # Hash(r)
                      /\ \A x \in records : x.id # r
    BY DEF RefusedChangesNothing
  <2>1. stage[r] = "done" /\ ~Committed(r)
    BY DEF AuthInv, CallMatchesStage, Committed, Refusals
  <2>2. \A p \in PriorUsers : p.id # r
    BY PriorUsersAssumption
  <2>3. \A u \in users : u.id # r
    BY <2>1, <2>2 DEF AuthInv, UsersHaveOrigin
  <2>4. (\A x \in past : x[2] # Hash(r)) /\ (\A x \in records : x.id # r)
    BY <2>1 DEF AuthInv, DrawnHaveOrigin
  <2>5. QED
    BY <2>3, <2>4
<1>2. QED
  BY <1>1, Invariance, PTL

\* The primary key of users: one row for each id.
LEMMA OneUserPerId ==
    ASSUME AuthInv, NEW u \in users, NEW v \in users, u.id = v.id
    PROVE  u = v
<1>1. \A p, q \in PriorUsers : p.id \notin Requests /\ (p.id = q.id => p = q)
  BY PriorUsersAssumption
<1>2. ASSUME NEW w \in users
      PROVE  \/ \E p \in PriorUsers : p.id = w.id /\ p.email = w.email
             \/ w.id \in Requests /\ w.email = call[w.id].email
  BY DEF AuthInv, UsersHaveOrigin
<1>3. u.email = v.email
  <2>1. CASE u.id \in Requests
    BY <1>1, <1>2, <2>1
  <2>2. CASE u.id \notin Requests
    BY <1>1, <1>2, <2>2
  <2>3. QED
    BY <2>1, <2>2
<1>4. QED
  BY <1>3 DEF AuthInv, OneUserPerEmail

\* A password changes only at the hands of a request that proved one the user has
\* had, or that asked for a temporary one by the user's address.
THEOREM PasswordsProven == Spec => PasswordsAreProven
<1> DEFINE Proven(u, v) ==
      \E r \in Requests :
         /\ stage[r] = "updateUser" /\ v.hash = Hash(NewPassword(r))
         /\ \/ /\ call[r].op = "change" /\ call[r].user = u.id
               /\ <<u.id, Hash(call[r].old)>> \in past
            \/ call[r].op = "reset" /\ call[r].email = u.email
    AllProven == \A u \in users, v \in users' :
                    u.id = v.id /\ u.hash # v.hash => Proven(u, v)
<1>1. AuthInv /\ [Next]_vars => AllProven
  <2> SUFFICES ASSUME AuthInv, [Next]_vars, NEW u \in users, NEW v \in users',
                      u.id = v.id, u.hash # v.hash
               PROVE  Proven(u, v)
    OBVIOUS
  <2>1. ASSUME NEW r \in Requests, InsertUser(r), v \notin users PROVE FALSE
    <3>1. v = NewUser(r) /\ stage[r] = "insertUser"
      BY <2>1 DEF InsertUser, db
    <3>2. u.id = r
      BY <3>1 DEF NewUser
    <3>3. Committed(r)
      BY <3>2, PriorUsersAssumption DEF AuthInv, UsersHaveOrigin
    <3>4. QED
      BY <3>1, <3>3 DEF Committed
  <2>2. ASSUME NEW r \in Requests, UpdateUser(r) PROVE Proven(u, v)
    <3>1. PICK w \in users :
             v = IF w.id = held[r] THEN [w EXCEPT !.hash = Hash(NewPassword(r))] ELSE w
      BY <2>2 DEF UpdateUser
    <3>2. w \in Users
      BY DEF AuthInv, TypeOK
    <3>3. v.id = w.id
      BY <3>1, <3>2 DEF Users
    <3>4. w = u
      BY <3>3, OneUserPerId
    <3>5. u.id = held[r] /\ v.hash = Hash(NewPassword(r))
      BY <3>1, <3>2, <3>4 DEF Users
    <3>6. stage[r] = "updateUser" /\ Op(r, {"change", "reset"})
      BY <2>2 DEF UpdateUser, AuthInv, CallMatchesStage
    <3>7. PICK w0 \in users :
             /\ w0.id = held[r]
             /\ call[r].op = "change" =>
                   call[r].user = w0.id /\ <<w0.id, Hash(call[r].old)>> \in past
             /\ call[r].op = "reset" => call[r].email = w0.email
      BY <3>6 DEF AuthInv, HeldIsThere
    <3>8. w0 = u
      BY <3>5, <3>7, OneUserPerId
    <3>9. QED
      BY <3>5, <3>6, <3>7, <3>8 DEF Op
  <2>3. v \notin users
    BY OneUserPerId
  <2>4. CASE \A r \in Requests : ~InsertUser(r) /\ ~UpdateUser(r)
    <3>1. users' = users
      BY <2>4
      DEF Next, Receive, Resume, FindEmail, FindUser, Refresh, SaveRecord, FindRecord,
          MarkVerified, Mail, RequestFails, Expire, Crash, Quiescent, vars, db
    <3>2. QED
      BY <2>3, <3>1
  <2>5. QED
    BY <2>1, <2>2, <2>3, <2>4
<1>2. QED
  BY <1>1, Invariance, PTL DEF Spec, PasswordsAreProven
=============================================================================
