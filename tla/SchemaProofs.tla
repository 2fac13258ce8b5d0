---------------------------- MODULE SchemaProofs ----------------------------
(***************************************************************************)
(* Proofs about Schema.  What they need of the migrations is stated once,  *)
(* by UpgradesBuild and DowngradesTakeBack; the rest holds of any history  *)
(* of revisions that satisfies the two.                                    *)
(***************************************************************************)
EXTENDS Schema, SequenceTheorems, TLAPS

-----------------------------------------------------------------------------
(* The migrations *)

Things == {"email_verifications", "users", "stores", "events", "applications",
           "review_submissions", "review_images", "deposits",
           "contract_address", "bigint reward"}

Statements ==
    [do   : {"create table", "drop table", "add column", "drop column"},
     name : Things]

\* The names of the first i of these statements.
Names(statements, i) == {statements[j].name : j \in 1 .. i}

\* What revision v finds when i statements of its upgrade were executed.
Known(v, i) == Made(v - 1) \union Names(Revisions[v].up, i)

\* What a statement of a downgrade takes away.
Taken(s) == {s.name} \union Columns(s.name)

\* What the first i of these statements take away.
TakenBy(statements, i) == UNION {Taken(statements[j]) : j \in 1 .. i}

\* What is left of version v when i statements of its downgrade were executed.
Left(v, i) == Made(v) \ TakenBy(Revisions[v].down, i)

\* The tables and the models' tables and columns, by name.
LEMMA ThingsByName ==
    /\ Tables = Things \ {"contract_address", "bigint reward"}
    /\ Models = Things \ {"deposits"}
    /\ Types = {"user_role", "store_type", "application_status"}
PROOF
<1>1. Range(Metadata) = {Metadata[1], Metadata[2], Metadata[3], Metadata[4],
                         Metadata[5], Metadata[6], Metadata[7]}
  BY DEF Range, Metadata
<1>2. Range(Metadata) = {"email_verifications", "users", "stores", "events",
                    "applications", "review_submissions", "review_images"}
  BY <1>1 DEF Metadata
<1>3. Tables = Things \ {"contract_address", "bigint reward"}
  BY <1>2 DEF Tables, Things
<1>4. Models = Things \ {"deposits"}
  BY <1>2 DEF Models, Columns, Things
<1>5. Types = {"user_role", "store_type", "application_status"}
  BY <1>2 DEF Types, Enums
<1> QED BY <1>3, <1>4, <1>5

\* There are six revisions.
LEMMA RevisionsByName ==
    /\ HeadVersion = 6
    /\ Revisions[1] = Initial /\ Revisions[2] = AddStoreEventApplicationReview
    /\ Revisions[3] = AddReviewImages /\ Revisions[4] = AddDeposits
    /\ Revisions[5] = AddContractAddress /\ Revisions[6] = ChangeReward
BY DEF HeadVersion, Revisions

\* A revision is a sequence of statements up and one down.
LEMMA RevisionsAreScripts ==
    \A v \in 1 .. HeadVersion :
        Revisions[v].up \in Seq(Statements) /\ Revisions[v].down \in Seq(Statements)
PROOF
<1>1. \A t \in Things : /\ Create(t) \in Statements /\ Drop(t) \in Statements
                        /\ AddColumn(t) \in Statements
                        /\ DropColumn(t) \in Statements
  BY DEF Statements, Create, Drop, AddColumn, DropColumn, Statement
<1>0. /\ "email_verifications" \in Things /\ "users" \in Things
      /\ "stores" \in Things /\ "events" \in Things
      /\ "applications" \in Things /\ "review_submissions" \in Things
      /\ "review_images" \in Things /\ "deposits" \in Things
      /\ "contract_address" \in Things
  BY DEF Things
<1> DEFINE Scripts(r) == r.up \in Seq(Statements) /\ r.down \in Seq(Statements)
<1>2. Scripts(Initial) BY <1>0, <1>1 DEF Initial
<1>3. Scripts(AddStoreEventApplicationReview)
  BY <1>0, <1>1 DEF AddStoreEventApplicationReview
<1>4. Scripts(AddReviewImages) BY <1>0, <1>1 DEF AddReviewImages
<1>5. Scripts(AddDeposits) BY <1>0, <1>1 DEF AddDeposits
<1>6. Scripts(AddContractAddress) BY <1>0, <1>1 DEF AddContractAddress
<1>7. Scripts(ChangeReward) BY DEF ChangeReward
<1> HIDE DEF Scripts
<1>8. \A v \in 1 .. HeadVersion : Scripts(Revisions[v])
  BY <1>2, <1>3, <1>4, <1>5, <1>6, <1>7, RevisionsByName
<1> QED BY <1>8 DEF Scripts

\* What the revisions up to v have made, from one version to the next.
LEMMA MadeGrows ==
    /\ Made(0) = {}
    /\ \A v \in 1 .. HeadVersion : Made(v) = Known(v, Len(Revisions[v].up))
PROOF
<1>1. Made(0) = {}
  BY DEF Made
<1> SUFFICES ASSUME NEW v \in 1 .. HeadVersion
             PROVE  Made(v) = Known(v, Len(Revisions[v].up))
  BY <1>1
<1>2. \A i : i \in 1 .. v <=> i \in 1 .. (v - 1) \/ i = v
  BY RevisionsByName
<1>3. Made(v) = Made(v - 1) \union {s.name : s \in Range(Revisions[v].up)}
  BY <1>2 DEF Made
<1>4. DOMAIN Revisions[v].up = 1 .. Len(Revisions[v].up)
  BY RevisionsAreScripts
<1>5. {s.name : s \in Range(Revisions[v].up)}
        = Names(Revisions[v].up, Len(Revisions[v].up))
  BY <1>4 DEF Range, Names
<1> QED BY <1>3, <1>5 DEF Known

\* How a script of at most four statements is spelled out.
LEMMA NamesByName ==
    ASSUME NEW s PROVE
    /\ Names(s, 0) = {}
    /\ Names(s, 1) = {s[1].name}
    /\ Names(s, 2) = {s[1].name, s[2].name}
    /\ Names(s, 3) = {s[1].name, s[2].name, s[3].name}
    /\ Names(s, 4) = {s[1].name, s[2].name, s[3].name, s[4].name}
BY DEF Names

\* What is there at each version.
LEMMA MadeByName ==
    LET first == {"email_verifications", "users"}
        app   == {"stores", "events", "applications", "review_submissions"}
    IN /\ Made(0) = {}
       /\ Made(1) = first
       /\ Made(2) = first \union app
       /\ Made(3) = first \union app \union {"review_images"}
       /\ Made(4) = first \union app \union {"review_images", "deposits"}
       /\ Made(5) = Things \ {"bigint reward"}
       /\ Made(6) = Things \ {"bigint reward"}
PROOF
<1>0. \A v \in 1 .. 6 :
        Made(v) = Made(v - 1) \union Names(Revisions[v].up, Len(Revisions[v].up))
  BY MadeGrows, RevisionsByName DEF Known
<1>1. Names(Initial.up, Len(Initial.up)) = {"email_verifications", "users"}
  BY NamesByName DEF Initial, Create, Statement
<1>2. Names(AddStoreEventApplicationReview.up, Len(AddStoreEventApplicationReview.up))
        = {"stores", "events", "applications", "review_submissions"}
  BY NamesByName DEF AddStoreEventApplicationReview, Create, Statement
<1>3. Names(AddReviewImages.up, Len(AddReviewImages.up)) = {"review_images"}
  BY NamesByName DEF AddReviewImages, Create, Statement
<1>4. Names(AddDeposits.up, Len(AddDeposits.up)) = {"deposits"}
  BY NamesByName DEF AddDeposits, Create, Statement
<1>5. Names(AddContractAddress.up, Len(AddContractAddress.up)) = {"contract_address"}
  BY NamesByName DEF AddContractAddress, AddColumn, Statement
<1>6. Names(ChangeReward.up, Len(ChangeReward.up)) = {}
  BY NamesByName DEF ChangeReward
<1>7. /\ Made(1) = Made(0) \union Names(Initial.up, Len(Initial.up))
      /\ Made(2) = Made(1) \union Names(AddStoreEventApplicationReview.up,
                                       Len(AddStoreEventApplicationReview.up))
      /\ Made(3) = Made(2) \union Names(AddReviewImages.up, Len(AddReviewImages.up))
      /\ Made(4) = Made(3) \union Names(AddDeposits.up, Len(AddDeposits.up))
      /\ Made(5) = Made(4) \union Names(AddContractAddress.up, Len(AddContractAddress.up))
      /\ Made(6) = Made(5) \union Names(ChangeReward.up, Len(ChangeReward.up))
  BY <1>0, RevisionsByName, SMTT(30)
<1>8. Made(0) = {} /\ Made(1) = {"email_verifications", "users"}
  BY <1>1, <1>7, MadeGrows
<1>9. Made(2) = Made(1) \union {"stores", "events", "applications", "review_submissions"}
  BY <1>2, <1>7
<1>10. Made(3) = Made(2) \union {"review_images"}
  BY <1>3, <1>7
<1>11. Made(4) = Made(3) \union {"deposits"}
  BY <1>4, <1>7
<1>12. Made(5) = Made(4) \union {"contract_address"} /\ Made(6) = Made(5)
  BY <1>5, <1>6, <1>7
<1> QED
  BY <1>8, <1>9, <1>10, <1>11, <1>12 DEF Things

\* A statement of an upgrade makes what is not there yet, and everything that
\* it refers to is made before it.
Builds(s, known) ==
    /\ s.name \notin known
    /\ s.name \notin Types
    /\ \/ s.do = "create table" /\ s.name \in Tables /\ ForeignKeys(s.name) \subseteq known
       \/ s.do = "add column" /\ "events" \in known

LEMMA UpgradesBuild ==
    ASSUME NEW v \in 1 .. HeadVersion, NEW i \in 1 .. Len(Revisions[v].up)
    PROVE  Builds(Revisions[v].up[i], Known(v, i - 1))
PROOF
<1>0. Known(v, i - 1) = Made(v - 1) \union Names(Revisions[v].up, i - 1)
  BY DEF Known
<1>7. \A t : Create(t).name = t /\ AddColumn(t).name = t
  BY DEF Create, AddColumn, Statement
<1>1. CASE v = 1
  <2>1. Revisions[v].up = Initial.up /\ Made(v - 1) = Made(0)
    BY <1>1, RevisionsByName
  <2>2. /\ Len(Initial.up) = 2
        /\ Initial.up[1] = Create("email_verifications")
        /\ Initial.up[2] = Create("users")
    BY DEF Initial
  <2>3. CASE i = 1
    <3>1. Made(0) \union Names(Initial.up, 0) = Made(0)
      BY <2>2, <1>7, NamesByName
    <3>2. Known(v, i - 1) = Made(0)
      <4>1. Known(v, i - 1) = Made(0) \union Names(Initial.up, 0)
        BY <2>1, <2>3, <1>0
      <4> QED BY <4>1, <3>1
    <3>3. Builds(Create("email_verifications"), Made(0))
      BY MadeByName, ThingsByName
      DEF Builds, Create, Statement, ForeignKeys, Things
    <3> QED BY <3>2, <3>3, <2>1, <2>2, <2>3
  <2>4. CASE i = 2
    <3>1. Names(Initial.up, 1) = {"email_verifications"}
      BY <2>2, <1>7, NamesByName
    <3>2. Known(v, i - 1) = Made(0) \union {"email_verifications"}
      BY <3>1, <2>1, <2>4, <1>0
    <3>3. Builds(Create("users"), Made(0) \union {"email_verifications"})
      BY MadeByName, ThingsByName
      DEF Builds, Create, Statement, ForeignKeys, Things
    <3> QED BY <3>2, <3>3, <2>1, <2>2, <2>4
  <2> QED BY <2>1, <2>2, <2>3, <2>4
<1>2. CASE v = 2
  <2>1. Revisions[v].up = AddStoreEventApplicationReview.up /\ Made(v - 1) = Made(1)
    BY <1>2, RevisionsByName
  <2>2. /\ Len(AddStoreEventApplicationReview.up) = 4
        /\ AddStoreEventApplicationReview.up[1] = Create("stores")
        /\ AddStoreEventApplicationReview.up[2] = Create("events")
        /\ AddStoreEventApplicationReview.up[3] = Create("applications")
        /\ AddStoreEventApplicationReview.up[4] = Create("review_submissions")
    BY DEF AddStoreEventApplicationReview
  <2>3. CASE i = 1
    <3>1. Made(1) \union Names(AddStoreEventApplicationReview.up, 0) = Made(1)
      BY <2>2, <1>7, NamesByName
    <3>2. Known(v, i - 1) = Made(1)
      <4>1. Known(v, i - 1) = Made(1) \union Names(AddStoreEventApplicationReview.up, 0)
        BY <2>1, <2>3, <1>0
      <4> QED BY <4>1, <3>1
    <3>3. Builds(Create("stores"), Made(1))
      BY MadeByName, ThingsByName
      DEF Builds, Create, Statement, ForeignKeys, Things
    <3> QED BY <3>2, <3>3, <2>1, <2>2, <2>3
  <2>4. CASE i = 2
    <3>1. Names(AddStoreEventApplicationReview.up, 1) = {"stores"}
      BY <2>2, <1>7, NamesByName
    <3>2. Known(v, i - 1) = Made(1) \union {"stores"}
      BY <3>1, <2>1, <2>4, <1>0
    <3>3. Builds(Create("events"), Made(1) \union {"stores"})
      BY MadeByName, ThingsByName
      DEF Builds, Create, Statement, ForeignKeys, Things
    <3> QED BY <3>2, <3>3, <2>1, <2>2, <2>4
  <2>5. CASE i = 3
    <3>1. Names(AddStoreEventApplicationReview.up, 2) = {"stores", "events"}
      BY <2>2, <1>7, NamesByName
    <3>2. Known(v, i - 1) = Made(1) \union {"stores", "events"}
      BY <3>1, <2>1, <2>5, <1>0
    <3>3. Builds(Create("applications"), Made(1) \union {"stores", "events"})
      BY MadeByName, ThingsByName
      DEF Builds, Create, Statement, ForeignKeys, Things
    <3> QED BY <3>2, <3>3, <2>1, <2>2, <2>5
  <2>6. CASE i = 4
    <3>1. Names(AddStoreEventApplicationReview.up, 3) = {"stores", "events", "applications"}
      BY <2>2, <1>7, NamesByName
    <3>2. Known(v, i - 1) = Made(1) \union {"stores", "events", "applications"}
      BY <3>1, <2>1, <2>6, <1>0
    <3>3. Builds(Create("review_submissions"), Made(1) \union {"stores", "events", "applications"})
      BY MadeByName, ThingsByName
      DEF Builds, Create, Statement, ForeignKeys, Things
    <3> QED BY <3>2, <3>3, <2>1, <2>2, <2>6
  <2> QED BY <2>1, <2>2, <2>3, <2>4, <2>5, <2>6
<1>3. CASE v = 3
  <2>1. Revisions[v].up = AddReviewImages.up /\ Made(v - 1) = Made(2)
    BY <1>3, RevisionsByName
  <2>2. /\ Len(AddReviewImages.up) = 1
        /\ AddReviewImages.up[1] = Create("review_images")
    BY DEF AddReviewImages
  <2>3. CASE i = 1
    <3>1. Made(2) \union Names(AddReviewImages.up, 0) = Made(2)
      BY <2>2, <1>7, NamesByName
    <3>2. Known(v, i - 1) = Made(2)
      <4>1. Known(v, i - 1) = Made(2) \union Names(AddReviewImages.up, 0)
        BY <2>1, <2>3, <1>0
      <4> QED BY <4>1, <3>1
    <3>3. Builds(Create("review_images"), Made(2))
      BY MadeByName, ThingsByName
      DEF Builds, Create, Statement, ForeignKeys, Things
    <3> QED BY <3>2, <3>3, <2>1, <2>2, <2>3
  <2> QED BY <2>1, <2>2, <2>3
<1>4. CASE v = 4
  <2>1. Revisions[v].up = AddDeposits.up /\ Made(v - 1) = Made(3)
    BY <1>4, RevisionsByName
  <2>2. /\ Len(AddDeposits.up) = 1
        /\ AddDeposits.up[1] = Create("deposits")
    BY DEF AddDeposits
  <2>3. CASE i = 1
    <3>1. Made(3) \union Names(AddDeposits.up, 0) = Made(3)
      BY <2>2, <1>7, NamesByName
    <3>2. Known(v, i - 1) = Made(3)
      <4>1. Known(v, i - 1) = Made(3) \union Names(AddDeposits.up, 0)
        BY <2>1, <2>3, <1>0
      <4> QED BY <4>1, <3>1
    <3>3. Builds(Create("deposits"), Made(3))
      BY MadeByName, ThingsByName
      DEF Builds, Create, Statement, ForeignKeys, Things
    <3> QED BY <3>2, <3>3, <2>1, <2>2, <2>3
  <2> QED BY <2>1, <2>2, <2>3
<1>5. CASE v = 5
  <2>1. Revisions[v].up = AddContractAddress.up /\ Made(v - 1) = Made(4)
    BY <1>5, RevisionsByName
  <2>2. /\ Len(AddContractAddress.up) = 1
        /\ AddContractAddress.up[1] = AddColumn("contract_address")
    BY DEF AddContractAddress
  <2>3. CASE i = 1
    <3>1. Made(4) \union Names(AddContractAddress.up, 0) = Made(4)
      BY <2>2, <1>7, NamesByName
    <3>2. Known(v, i - 1) = Made(4)
      <4>1. Known(v, i - 1) = Made(4) \union Names(AddContractAddress.up, 0)
        BY <2>1, <2>3, <1>0
      <4> QED BY <4>1, <3>1
    <3>3. Builds(AddColumn("contract_address"), Made(4))
      BY MadeByName, ThingsByName
      DEF Builds, AddColumn, Statement, ForeignKeys, Things
    <3> QED BY <3>2, <3>3, <2>1, <2>2, <2>3
  <2> QED BY <2>1, <2>2, <2>3
<1>6. CASE v = 6
  BY <1>6, RevisionsByName DEF ChangeReward
<1> QED BY <1>1, <1>2, <1>3, <1>4, <1>5, <1>6, RevisionsByName

\* How the first statements of a downgrade are spelled out.
LEMMA TakenByName ==
    ASSUME NEW s PROVE
    /\ TakenBy(s, 0) = {}
    /\ TakenBy(s, 1) = Taken(s[1])
    /\ TakenBy(s, 2) = Taken(s[1]) \union Taken(s[2])
    /\ TakenBy(s, 3) = Taken(s[1]) \union Taken(s[2]) \union Taken(s[3])
    /\ TakenBy(s, 4) = Taken(s[1]) \union Taken(s[2]) \union Taken(s[3])
                           \union Taken(s[4])
PROOF
<1> DEFINE T(j) == Taken(s[j])
<1> HIDE DEF T
<1>1. /\ UNION {T(j) : j \in 1 .. 0} = {}
      /\ UNION {T(j) : j \in 1 .. 1} = T(1)
      /\ UNION {T(j) : j \in 1 .. 2} = T(1) \union T(2)
      /\ UNION {T(j) : j \in 1 .. 3} = T(1) \union T(2) \union T(3)
      /\ UNION {T(j) : j \in 1 .. 4} = T(1) \union T(2) \union T(3) \union T(4)
  OBVIOUS
<1> QED BY <1>1 DEF T, TakenBy

\* A statement of a downgrade takes what is still there, nothing that was there
\* at the version before, not even with a table's columns, and nothing that is
\* still referred to.
TakesBack(s, left, known) ==
    /\ s.name \in left
    /\ Taken(s) \intersect known = {}
    /\ \/ s.do = "drop table" /\ \A u \in left \intersect Tables : s.name \notin ForeignKeys(u)
       \/ s.do = "drop column" /\ Columns(s.name) = {}

\* A downgrade takes back all that the upgrade made and nothing else.
LEMMA DowngradesTakeBack ==
    ASSUME NEW v \in 1 .. HeadVersion
    PROVE  /\ Left(v, Len(Revisions[v].down)) = Made(v - 1)
           /\ \A i \in 1 .. Len(Revisions[v].down) :
                TakesBack(Revisions[v].down[i], Left(v, i - 1), Made(v - 1))
PROOF
<1>0. \A i : Left(v, i) = Made(v) \ TakenBy(Revisions[v].down, i)
  BY DEF Left
<1>7. \A t : Drop(t).name = t /\ DropColumn(t).name = t
  BY DEF Drop, DropColumn, Statement
<1>8. /\ \A t \in Things \ {"events"} : Taken(Drop(t)) = {t}
      /\ Taken(Drop("events")) = {"events", "contract_address", "bigint reward"}
      /\ Taken(DropColumn("contract_address")) = {"contract_address"}
  BY DEF Drop, DropColumn, Statement, Taken, Columns
<1>9. /\ "email_verifications" \in Things \ {"events"} /\ "users" \in Things \ {"events"}
      /\ "stores" \in Things \ {"events"} /\ "applications" \in Things \ {"events"}
      /\ "review_submissions" \in Things \ {"events"}
      /\ "review_images" \in Things \ {"events"} /\ "deposits" \in Things \ {"events"}
  BY DEF Things
<1>1. CASE v = 1
  <2>1. /\ Revisions[v].down = Initial.down
        /\ Made(v - 1) = Made(0) /\ Made(v) = Made(1)
    BY <1>1, RevisionsByName
  <2>2. /\ Len(Initial.down) = 2
        /\ Initial.down[1] = Drop("users")
        /\ Initial.down[2] = Drop("email_verifications")
    BY DEF Initial
  <2>3. TakenBy(Initial.down, 0) = {}
    BY <1>8, <1>9, <2>2, TakenByName
  <2>4. TakenBy(Initial.down, 1) = {"users"}
    BY <1>8, <1>9, <2>2, TakenByName
  <2>5. TakenBy(Initial.down, 2) = {"users", "email_verifications"}
    <3>1. TakenBy(Initial.down, 2) = Taken(Drop("users"))
            \union Taken(Drop("email_verifications"))
      BY <2>2, TakenByName, Zenon
    <3> QED BY <3>1, <1>8, <1>9
  <2>6. Left(v, 2) = Made(0)
    <3>1. Made(1) \ {"users", "email_verifications"} = Made(0)
      BY MadeByName DEF Things
    <3> QED BY <1>0, <2>1, <2>5, <3>1
  <2>7. ASSUME NEW i \in 1 .. 4, i = 1
        PROVE  TakesBack(Revisions[v].down[i], Left(v, i - 1), Made(v - 1))
    <3>1. TakesBack(Drop("users"), Made(1) \ {}, Made(0))
      BY MadeByName, ThingsByName
      DEF TakesBack, Taken, Columns, Drop, Statement, ForeignKeys, Things
    <3>2. Left(v, i - 1) = Made(1) \ {}
      <4>1. i - 1 = 0
        BY <2>7
      <4>2. Left(v, 0) = Made(v) \ TakenBy(Revisions[v].down, 0)
        BY <1>0
      <4> QED BY <2>1, <2>3, <4>1, <4>2
    <3> QED BY <2>1, <2>2, <2>7, <3>1, <3>2
  <2>8. ASSUME NEW i \in 1 .. 4, i = 2
        PROVE  TakesBack(Revisions[v].down[i], Left(v, i - 1), Made(v - 1))
    <3>1. TakesBack(Drop("email_verifications"), Made(1) \ {"users"}, Made(0))
      BY MadeByName, ThingsByName
      DEF TakesBack, Taken, Columns, Drop, Statement, ForeignKeys, Things
    <3>2. Left(v, i - 1) = Made(1) \ {"users"}
      <4>1. i - 1 = 1
        BY <2>8
      <4>2. Left(v, 1) = Made(v) \ TakenBy(Revisions[v].down, 1)
        BY <1>0
      <4> QED BY <2>1, <2>4, <4>1, <4>2
    <3> QED BY <2>1, <2>2, <2>8, <3>1, <3>2
  <2>9. \A i \in 1 .. 2 : i \in 1 .. 4 /\ (i = 1 \/ i = 2)
    OBVIOUS
  <2> QED BY <2>1, <2>2, <2>6, <2>7, <2>8, <2>9
<1>2. CASE v = 2
  <2>1. /\ Revisions[v].down = AddStoreEventApplicationReview.down
        /\ Made(v - 1) = Made(1) /\ Made(v) = Made(2)
    BY <1>2, RevisionsByName
  <2>2. /\ Len(AddStoreEventApplicationReview.down) = 4
        /\ AddStoreEventApplicationReview.down[1] = Drop("review_submissions")
        /\ AddStoreEventApplicationReview.down[2] = Drop("applications")
        /\ AddStoreEventApplicationReview.down[3] = Drop("events")
        /\ AddStoreEventApplicationReview.down[4] = Drop("stores")
    BY DEF AddStoreEventApplicationReview
  <2>3. TakenBy(AddStoreEventApplicationReview.down, 0) = {}
    BY <1>8, <1>9, <2>2, TakenByName
  <2>4. TakenBy(AddStoreEventApplicationReview.down, 1) = {"review_submissions"}
    BY <1>8, <1>9, <2>2, TakenByName
  <2>5. TakenBy(AddStoreEventApplicationReview.down, 2) = {"review_submissions", "applications"}
    <3>1. TakenBy(AddStoreEventApplicationReview.down, 2) = Taken(Drop("review_submissions"))
            \union Taken(Drop("applications"))
      BY <2>2, TakenByName, Zenon
    <3> QED BY <3>1, <1>8, <1>9
  <2>6. TakenBy(AddStoreEventApplicationReview.down, 3) = {"review_submissions", "applications", "events", "contract_address", "bigint reward"}
    <3>1. TakenBy(AddStoreEventApplicationReview.down, 3) = Taken(Drop("review_submissions"))
            \union Taken(Drop("applications"))
            \union Taken(Drop("events"))
      BY <2>2, TakenByName, Zenon
    <3> QED BY <3>1, <1>8, <1>9
  <2>7. TakenBy(AddStoreEventApplicationReview.down, 4) = {"review_submissions", "applications", "events", "contract_address", "bigint reward", "stores"}
    <3>1. TakenBy(AddStoreEventApplicationReview.down, 4) = Taken(Drop("review_submissions"))
            \union Taken(Drop("applications"))
            \union Taken(Drop("events"))
            \union Taken(Drop("stores"))
      BY <2>2, TakenByName, Zenon
    <3> QED BY <3>1, <1>8, <1>9
  <2>8. Left(v, 4) = Made(1)
    <3>1. Made(2) \ {"review_submissions", "applications", "events", "contract_address", "bigint reward", "stores"} = Made(1)
      BY MadeByName DEF Things
    <3> QED BY <1>0, <2>1, <2>7, <3>1
  <2>9. ASSUME NEW i \in 1 .. 4, i = 1
        PROVE  TakesBack(Revisions[v].down[i], Left(v, i - 1), Made(v - 1))
    <3>1. TakesBack(Drop("review_submissions"), Made(2) \ {}, Made(1))
      BY MadeByName, ThingsByName
      DEF TakesBack, Taken, Columns, Drop, Statement, ForeignKeys, Things
    <3>2. Left(v, i - 1) = Made(2) \ {}
      <4>1. i - 1 = 0
        BY <2>9
      <4>2. Left(v, 0) = Made(v) \ TakenBy(Revisions[v].down, 0)
        BY <1>0
      <4> QED BY <2>1, <2>3, <4>1, <4>2
    <3> QED BY <2>1, <2>2, <2>9, <3>1, <3>2
  <2>10. ASSUME NEW i \in 1 .. 4, i = 2
        PROVE  TakesBack(Revisions[v].down[i], Left(v, i - 1), Made(v - 1))
    <3>1. TakesBack(Drop("applications"), Made(2) \ {"review_submissions"}, Made(1))
      BY MadeByName, ThingsByName
      DEF TakesBack, Taken, Columns, Drop, Statement, ForeignKeys, Things
    <3>2. Left(v, i - 1) = Made(2) \ {"review_submissions"}
      <4>1. i - 1 = 1
        BY <2>10
      <4>2. Left(v, 1) = Made(v) \ TakenBy(Revisions[v].down, 1)
        BY <1>0
      <4> QED BY <2>1, <2>4, <4>1, <4>2
    <3> QED BY <2>1, <2>2, <2>10, <3>1, <3>2
  <2>11. ASSUME NEW i \in 1 .. 4, i = 3
        PROVE  TakesBack(Revisions[v].down[i], Left(v, i - 1), Made(v - 1))
    <3>1. TakesBack(Drop("events"), Made(2) \ {"review_submissions", "applications"}, Made(1))
      BY MadeByName, ThingsByName
      DEF TakesBack, Taken, Columns, Drop, Statement, ForeignKeys, Things
    <3>2. Left(v, i - 1) = Made(2) \ {"review_submissions", "applications"}
      <4>1. i - 1 = 2
        BY <2>11
      <4>2. Left(v, 2) = Made(v) \ TakenBy(Revisions[v].down, 2)
        BY <1>0
      <4> QED BY <2>1, <2>5, <4>1, <4>2
    <3> QED BY <2>1, <2>2, <2>11, <3>1, <3>2
  <2>12. ASSUME NEW i \in 1 .. 4, i = 4
        PROVE  TakesBack(Revisions[v].down[i], Left(v, i - 1), Made(v - 1))
    <3>1. TakesBack(Drop("stores"), Made(2) \ {"review_submissions", "applications", "events", "contract_address", "bigint reward"}, Made(1))
      BY MadeByName, ThingsByName
      DEF TakesBack, Taken, Columns, Drop, Statement, ForeignKeys, Things
    <3>2. Left(v, i - 1) = Made(2) \ {"review_submissions", "applications", "events", "contract_address", "bigint reward"}
      <4>1. i - 1 = 3
        BY <2>12
      <4>2. Left(v, 3) = Made(v) \ TakenBy(Revisions[v].down, 3)
        BY <1>0
      <4> QED BY <2>1, <2>6, <4>1, <4>2
    <3> QED BY <2>1, <2>2, <2>12, <3>1, <3>2
  <2>13. \A i \in 1 .. 4 : i \in 1 .. 4 /\ (i = 1 \/ i = 2 \/ i = 3 \/ i = 4)
    OBVIOUS
  <2> QED BY <2>1, <2>2, <2>8, <2>9, <2>10, <2>11, <2>12, <2>13
<1>3. CASE v = 3
  <2>1. /\ Revisions[v].down = AddReviewImages.down
        /\ Made(v - 1) = Made(2) /\ Made(v) = Made(3)
    BY <1>3, RevisionsByName
  <2>2. /\ Len(AddReviewImages.down) = 1
        /\ AddReviewImages.down[1] = Drop("review_images")
    BY DEF AddReviewImages
  <2>3. TakenBy(AddReviewImages.down, 0) = {}
    BY <1>8, <1>9, <2>2, TakenByName
  <2>4. TakenBy(AddReviewImages.down, 1) = {"review_images"}
    BY <1>8, <1>9, <2>2, TakenByName
  <2>5. Left(v, 1) = Made(2)
    <3>1. Made(3) \ {"review_images"} = Made(2)
      BY MadeByName DEF Things
    <3> QED BY <1>0, <2>1, <2>4, <3>1
  <2>6. ASSUME NEW i \in 1 .. 4, i = 1
        PROVE  TakesBack(Revisions[v].down[i], Left(v, i - 1), Made(v - 1))
    <3>1. TakesBack(Drop("review_images"), Made(3) \ {}, Made(2))
      BY MadeByName, ThingsByName
      DEF TakesBack, Taken, Columns, Drop, Statement, ForeignKeys, Things
    <3>2. Left(v, i - 1) = Made(3) \ {}
      <4>1. i - 1 = 0
        BY <2>6
      <4>2. Left(v, 0) = Made(v) \ TakenBy(Revisions[v].down, 0)
        BY <1>0
      <4> QED BY <2>1, <2>3, <4>1, <4>2
    <3> QED BY <2>1, <2>2, <2>6, <3>1, <3>2
  <2>7. \A i \in 1 .. 1 : i \in 1 .. 4 /\ (i = 1)
    OBVIOUS
  <2> QED BY <2>1, <2>2, <2>5, <2>6, <2>7
<1>4. CASE v = 4
  <2>1. /\ Revisions[v].down = AddDeposits.down
        /\ Made(v - 1) = Made(3) /\ Made(v) = Made(4)
    BY <1>4, RevisionsByName
  <2>2. /\ Len(AddDeposits.down) = 1
        /\ AddDeposits.down[1] = Drop("deposits")
    BY DEF AddDeposits
  <2>3. TakenBy(AddDeposits.down, 0) = {}
    BY <1>8, <1>9, <2>2, TakenByName
  <2>4. TakenBy(AddDeposits.down, 1) = {"deposits"}
    BY <1>8, <1>9, <2>2, TakenByName
  <2>5. Left(v, 1) = Made(3)
    <3>1. Made(4) \ {"deposits"} = Made(3)
      BY MadeByName DEF Things
    <3> QED BY <1>0, <2>1, <2>4, <3>1
  <2>6. ASSUME NEW i \in 1 .. 4, i = 1
        PROVE  TakesBack(Revisions[v].down[i], Left(v, i - 1), Made(v - 1))
    <3>1. TakesBack(Drop("deposits"), Made(4) \ {}, Made(3))
      BY MadeByName, ThingsByName
      DEF TakesBack, Taken, Columns, Drop, Statement, ForeignKeys, Things
    <3>2. Left(v, i - 1) = Made(4) \ {}
      <4>1. i - 1 = 0
        BY <2>6
      <4>2. Left(v, 0) = Made(v) \ TakenBy(Revisions[v].down, 0)
        BY <1>0
      <4> QED BY <2>1, <2>3, <4>1, <4>2
    <3> QED BY <2>1, <2>2, <2>6, <3>1, <3>2
  <2>7. \A i \in 1 .. 1 : i \in 1 .. 4 /\ (i = 1)
    OBVIOUS
  <2> QED BY <2>1, <2>2, <2>5, <2>6, <2>7
<1>5. CASE v = 5
  <2>1. /\ Revisions[v].down = AddContractAddress.down
        /\ Made(v - 1) = Made(4) /\ Made(v) = Made(5)
    BY <1>5, RevisionsByName
  <2>2. /\ Len(AddContractAddress.down) = 1
        /\ AddContractAddress.down[1] = DropColumn("contract_address")
    BY DEF AddContractAddress
  <2>3. TakenBy(AddContractAddress.down, 0) = {}
    BY <1>8, <1>9, <2>2, TakenByName
  <2>4. TakenBy(AddContractAddress.down, 1) = {"contract_address"}
    BY <1>8, <1>9, <2>2, TakenByName
  <2>5. Left(v, 1) = Made(4)
    <3>1. Made(5) \ {"contract_address"} = Made(4)
      BY MadeByName DEF Things
    <3> QED BY <1>0, <2>1, <2>4, <3>1
  <2>6. ASSUME NEW i \in 1 .. 4, i = 1
        PROVE  TakesBack(Revisions[v].down[i], Left(v, i - 1), Made(v - 1))
    <3>1. TakesBack(DropColumn("contract_address"), Made(5) \ {}, Made(4))
      BY MadeByName, ThingsByName
      DEF TakesBack, Taken, Columns, DropColumn, Statement, ForeignKeys, Things
    <3>2. Left(v, i - 1) = Made(5) \ {}
      <4>1. i - 1 = 0
        BY <2>6
      <4>2. Left(v, 0) = Made(v) \ TakenBy(Revisions[v].down, 0)
        BY <1>0
      <4> QED BY <2>1, <2>3, <4>1, <4>2
    <3> QED BY <2>1, <2>2, <2>6, <3>1, <3>2
  <2>7. \A i \in 1 .. 1 : i \in 1 .. 4 /\ (i = 1)
    OBVIOUS
  <2> QED BY <2>1, <2>2, <2>5, <2>6, <2>7
<1>6. CASE v = 6
  <2>1. Len(ChangeReward.down) = 0
    BY DEF ChangeReward
  <2>2. /\ Revisions[v].down = ChangeReward.down
        /\ Made(v - 1) = Made(5) /\ Made(v) = Made(6)
    BY <1>6, RevisionsByName
  <2>3. Made(6) = Made(5) /\ TakenBy(ChangeReward.down, 0) = {}
    BY MadeByName, TakenByName
  <2>4. Left(v, 0) = Made(v) \ TakenBy(Revisions[v].down, 0)
    BY <1>0
  <2>5. Left(v, 0) = Made(v - 1)
    BY <2>2, <2>3, <2>4
  <2>6. Len(Revisions[v].down) = 0
    BY <2>1, <2>2
  <2>7. \A i \in 1 .. 0 : FALSE
    OBVIOUS
  <2> QED BY <2>5, <2>6, <2>7
<1> QED BY <1>1, <1>2, <1>3, <1>4, <1>5, <1>6, RevisionsByName

\* A downgrade begins with everything of its version, and each statement takes
\* its own.
LEMMA LeftKeeps ==
    ASSUME NEW v \in 1 .. HeadVersion
    PROVE  /\ Left(v, 0) = Made(v)
           /\ \A i \in Nat : Left(v, i + 1) = Left(v, i) \ Taken(Revisions[v].down[i + 1])
PROOF
<1> DEFINE T(j) == Taken(Revisions[v].down[j])
<1>1. \A i : TakenBy(Revisions[v].down, i) = UNION {T(j) : j \in 1 .. i}
  BY DEF TakenBy
<1> HIDE DEF T
<1>2. ASSUME NEW i \in Nat
      PROVE  UNION {T(j) : j \in 1 .. i + 1} = (UNION {T(j) : j \in 1 .. i}) \union T(i + 1)
  <2>1. \A j : j \in 1 .. i + 1 <=> j \in 1 .. i \/ j = i + 1
    OBVIOUS
  <2> QED BY <2>1
<1>3. UNION {T(j) : j \in 1 .. 0} = {}
  OBVIOUS
<1> QED BY <1>1, <1>2, <1>3 DEF Left, T

\* Seven elements are a sequence.
LEMMA SevenInARow ==
    ASSUME NEW S, NEW f, f = [i \in 1 .. 7 |-> f[i]], \A i \in 1 .. 7 : f[i] \in S
    PROVE  f \in Seq(S) /\ Len(f) = 7
PROOF
<1>1. f \in Seq(S) OBVIOUS
<1> QED BY <1>1

\* The reset first drops what the second half of it creates.
LEMMA ResetRebuilds ==
    /\ Len(DropAndCreate) = 15
    /\ \A i \in 1 .. 7  : DropAndCreate[i] = Statement("drop if there", Metadata[8 - i])
    /\ DropAndCreate[8] = Statement("drop types", "all")
    /\ \A i \in 9 .. 15 : DropAndCreate[i] = Statement("create if missing", Metadata[i - 8])
PROOF
<1> DEFINE S == [do   : {"drop if there", "drop types", "create if missing"},
                 name : Things \union {"all"}]
           drops   == [i \in 1 .. 7 |-> Statement("drop if there", Metadata[8 - i])]
           creates == [i \in 1 .. 7 |-> Statement("create if missing", Metadata[i])]
<1>1. Len(Metadata) = 7 /\ DOMAIN Metadata = 1 .. 7
  BY DEF Metadata
<1>2. \A i \in 1 .. 7 : Metadata[i] \in Things
  <2>1. Metadata \in Seq(Range(Metadata))
    BY DEF Metadata, Range
  <2> QED BY <2>1, <1>1, ThingsByName DEF Range, Models
<1>3. /\ \A i \in 1 .. 7 : Statement("drop if there", Metadata[8 - i]) \in S
      /\ \A i \in 1 .. 7 : Statement("create if missing", Metadata[i]) \in S
      /\ Statement("drop types", "all") \in S
  BY <1>2 DEF Statement
<1> HIDE DEF S
<1>4. /\ drops = [i \in 1 .. 7 |-> drops[i]]
      /\ creates = [i \in 1 .. 7 |-> creates[i]]
  OBVIOUS
<1>17. \A i \in 1 .. 7 : drops[i] = Statement("drop if there", Metadata[8 - i])
  OBVIOUS
<1>18. \A i \in 1 .. 7 : creates[i] = Statement("create if missing", Metadata[i])
  OBVIOUS
<1>5. Reverse(Metadata) = [i \in 1 .. 7 |-> Metadata[8 - i]]
  BY <1>1 DEF Reverse
<1>6. /\ [i \in DOMAIN Reverse(Metadata) |->
            Statement("drop if there", Reverse(Metadata)[i])] = drops
      /\ [i \in DOMAIN Metadata |->
            Statement("create if missing", Metadata[i])] = creates
  BY <1>1, <1>5
<1> HIDE DEF drops, creates
<1>7. DropAndCreate = drops \o <<Statement("drop types", "all")>> \o creates
  BY <1>6 DEF DropAndCreate
<1>8. \A i \in 1 .. 7 : drops[i] \in S /\ creates[i] \in S
  BY <1>3, <1>17, <1>18
<1>9. drops \in Seq(S) /\ Len(drops) = 7
  BY <1>4, <1>8, SevenInARow
<1>10. creates \in Seq(S) /\ Len(creates) = 7
  BY <1>4, <1>8, SevenInARow
<1> DEFINE types == Statement("drop types", "all")
           one   == <<types>>
           first == drops \o one
<1>11. DropAndCreate = first \o creates
  BY <1>7
<1>12. one \in Seq(S) /\ Len(one) = 1 /\ one[1] = types
  <2>1. types \in S
    BY <1>3
  <2> HIDE DEF types
  <2> QED BY <2>1
<1> HIDE DEF types, one
<1>13. /\ first \in Seq(S) /\ Len(first) = Len(drops) + Len(one)
       /\ \A i \in 1 .. Len(drops) + Len(one) :
            first[i] = IF i <= Len(drops) THEN drops[i] ELSE one[i - Len(drops)]
  BY <1>9, <1>12, ConcatProperties, Zenon
<1> HIDE DEF first
<1>14. Len(first) = 8 /\ first[8] = types /\ \A i \in 1 .. 7 : first[i] = drops[i]
  BY <1>9, <1>12, <1>13
<1>15. \A i \in 9 .. 15 : creates[i - 8] = Statement("create if missing", Metadata[i - 8])
  <2> TAKE i \in 9 .. 15
  <2>1. i - 8 \in 1 .. 7
    OBVIOUS
  <2> QED BY <2>1, <1>18, Zenon
<1>16. /\ Len(first \o creates) = Len(first) + Len(creates)
       /\ \A i \in 1 .. Len(first) + Len(creates) :
            (first \o creates)[i]
              = IF i <= Len(first) THEN first[i] ELSE creates[i - Len(first)]
  <2>1. first \in Seq(S) /\ creates \in Seq(S)
    BY <1>10, <1>13
  <2> HIDE DEF creates
  <2> QED BY <2>1, ConcatProperties, Zenon
<1>19. /\ Len(DropAndCreate) = 15
       /\ \A i \in 1 .. 8 : DropAndCreate[i] = first[i]
       /\ \A i \in 9 .. 15 : DropAndCreate[i] = creates[i - 8]
  <2>1. /\ Len(DropAndCreate) = 8 + 7
        /\ \A i \in 1 .. 8 + 7 :
             DropAndCreate[i] = IF i <= 8 THEN first[i] ELSE creates[i - 8]
    BY <1>10, <1>11, <1>14, <1>16, Zenon
  <2> HIDE DEF creates
  <2>2. /\ \A i \in 1 .. 8 : i \in 1 .. 8 + 7 /\ i <= 8
        /\ \A i \in 9 .. 15 : i \in 1 .. 8 + 7 /\ ~(i <= 8)
        /\ 8 + 7 = 15
    OBVIOUS
  <2>3. \A i \in 1 .. 8 : DropAndCreate[i] = first[i]
    BY <2>1, <2>2, Zenon
  <2>4. \A i \in 9 .. 15 : DropAndCreate[i] = creates[i - 8]
    BY <2>1, <2>2, Zenon
  <2> QED BY <2>1, <2>2, <2>3, <2>4, Zenon
<1>20. DropAndCreate[8] = Statement("drop types", "all")
  <2>1. 8 \in 1 .. 8
    OBVIOUS
  <2> QED BY <2>1, <1>14, <1>19, Zenon DEF types
<1>21. \A i \in 1 .. 7 : DropAndCreate[i] = drops[i]
  <2> TAKE i \in 1 .. 7
  <2>1. i \in 1 .. 8
    OBVIOUS
  <2> QED BY <2>1, <1>14, <1>19, Zenon
<1> QED BY <1>15, <1>17, <1>19, <1>20, <1>21, Zenon

\* The reset creates every table of the models, once.
LEMMA MetadataDistinct ==
    /\ Range(Metadata) = {Metadata[i] : i \in 1 .. 7}
    /\ \A i, j \in 1 .. 7 : Metadata[i] = Metadata[j] => i = j
    /\ \A i \in 1 .. 7 : Metadata[i] \notin Types
    /\ \A i \in 1 .. 7 : \A t : Metadata[i] \notin Columns(t)
    /\ Metadata[4] = "events"
PROOF
<1>1. /\ DOMAIN Metadata = 1 .. 7
      /\ Metadata[1] = "email_verifications" /\ Metadata[2] = "users"
      /\ Metadata[3] = "stores" /\ Metadata[4] = "events"
      /\ Metadata[5] = "applications" /\ Metadata[6] = "review_submissions"
      /\ Metadata[7] = "review_images"
  BY DEF Metadata
<1>2. \A i, j \in 1 .. 7 : Metadata[i] = Metadata[j] => i = j
  <2> TAKE i, j \in 1 .. 7
  <2>1. /\ i = 1 \/ i = 2 \/ i = 3 \/ i = 4 \/ i = 5 \/ i = 6 \/ i = 7
        /\ j = 1 \/ j = 2 \/ j = 3 \/ j = 4 \/ j = 5 \/ j = 6 \/ j = 7
    OBVIOUS
  <2>2. CASE i = 1 BY <2>1, <2>2, <1>1
  <2>3. CASE i = 2 BY <2>1, <2>3, <1>1
  <2>4. CASE i = 3 BY <2>1, <2>4, <1>1
  <2>5. CASE i = 4 BY <2>1, <2>5, <1>1
  <2>6. CASE i = 5 BY <2>1, <2>6, <1>1
  <2>7. CASE i = 6 BY <2>1, <2>7, <1>1
  <2>8. CASE i = 7 BY <2>1, <2>8, <1>1
  <2> QED BY <2>1, <2>2, <2>3, <2>4, <2>5, <2>6, <2>7, <2>8
<1>3. \A i \in 1 .. 7 : Metadata[i] \notin Types
  <2>1. \A t \in Things : t \notin Types
    BY ThingsByName DEF Things
  <2>2. \A i \in 1 .. 7 : Metadata[i] \in Things
    BY <1>1, ThingsByName DEF Range, Models
  <2> QED BY <2>1, <2>2
<1>4. Range(Metadata) = {Metadata[i] : i \in 1 .. 7}
  BY <1>1 DEF Range
<1>5. \A i \in 1 .. 7 : \A t : Metadata[i] \notin Columns(t)
  <2>1. \A i \in 1 .. 7 : Metadata[i] \in Tables
    BY <1>1 DEF Tables, Range
  <2> QED BY <2>1, ThingsByName DEF Columns
<1> QED BY <1>1, <1>2, <1>3, <1>4, <1>5

\* The models' tables refer to tables that are created before them.
LEMMA KeysComeFirst ==
    \A i, j \in 1 .. 7 : Metadata[i] \in ForeignKeys(Metadata[j]) => i < j
PROOF
<1> DEFINE M == Metadata
<1>1. /\ M[1] = "email_verifications" /\ M[2] = "users" /\ M[3] = "stores"
      /\ M[4] = "events" /\ M[5] = "applications"
      /\ M[6] = "review_submissions" /\ M[7] = "review_images"
  BY DEF Metadata
<1>2. /\ ForeignKeys(M[1]) = {} /\ ForeignKeys(M[2]) = {}
      /\ ForeignKeys(M[3]) = {M[2]} /\ ForeignKeys(M[4]) = {M[3]}
      /\ ForeignKeys(M[5]) = {M[4], M[2]} /\ ForeignKeys(M[6]) = {M[5]}
      /\ ForeignKeys(M[7]) = {M[6]}
  BY <1>1 DEF ForeignKeys
<1>3. \A i, j \in 1 .. 7 : M[i] = M[j] => i = j
  BY MetadataDistinct
<1> HIDE DEF M
<1>4. ASSUME NEW i \in 1 .. 7, NEW j \in 1 .. 7, M[i] \in ForeignKeys(M[j])
      PROVE  i < j
  <2>1. j = 1 \/ j = 2 \/ j = 3 \/ j = 4 \/ j = 5 \/ j = 6 \/ j = 7
    OBVIOUS
  <2>2. CASE j = 3 BY <1>2, <1>3, <1>4, <2>2
  <2>3. CASE j = 4 BY <1>2, <1>3, <1>4, <2>3
  <2>4. CASE j = 5 BY <1>2, <1>3, <1>4, <2>4
  <2>5. CASE j = 6 BY <1>2, <1>3, <1>4, <2>5
  <2>6. CASE j = 7 BY <1>2, <1>3, <1>4, <2>6
  <2> QED BY <2>1, <2>2, <2>3, <2>4, <2>5, <2>6, <1>2, <1>4
<1> QED BY <1>4 DEF M

\* Each enumeration type belongs to one table.
LEMMA EnumsByName ==
    /\ \A t \in Tables : Enums(t) \subseteq Types /\ t \notin Types
    /\ \A t, u : Enums(t) \intersect Enums(u) # {} => t = u
PROOF
<1>1. \A t : Enums(t) \subseteq Types
  BY ThingsByName DEF Enums
<1>2. \A t \in Tables : t \notin Types
  BY ThingsByName DEF Things
<1>3. \A t, u : Enums(t) \intersect Enums(u) # {} => t = u
  BY DEF Enums
<1> QED BY <1>1, <1>2, <1>3

\* What alembic executes for a revision.
LEMMA ScriptStatements ==
    ASSUME NEW v \in 1 .. HeadVersion
    PROVE  /\ Len(UpScript(v)) = Len(Revisions[v].up) + 1
           /\ \A i \in 1 .. Len(Revisions[v].up) : UpScript(v)[i] = Revisions[v].up[i]
           /\ UpScript(v)[Len(UpScript(v))] = Version(v)
           /\ Len(DownScript(v)) = Len(Revisions[v].down) + 1
           /\ \A i \in 1 .. Len(Revisions[v].down) :
                DownScript(v)[i] = Revisions[v].down[i]
           /\ DownScript(v)[Len(DownScript(v))] = Version(v - 1)
           /\ Len(Revisions[v].up) \in Nat /\ Len(Revisions[v].down) \in Nat
PROOF
<1> DEFINE up == Revisions[v].up
           down == Revisions[v].down
           S == Statements \union {Version(v), Version(v - 1)}
<1>1. up \in Seq(S) /\ down \in Seq(S)
  <2>1. up \in Seq(Statements) /\ down \in Seq(Statements)
    BY RevisionsAreScripts
  <2>2. \A a \in Statements : a \in S
    OBVIOUS
  <2> HIDE DEF up, down, S
  <2> QED BY <2>1, <2>2, SeqMonotonic
<1>2. Version(v) \in S /\ Version(v - 1) \in S
  OBVIOUS
<1> HIDE DEF up, down, S
<1>3. /\ Len(Append(up, Version(v))) = Len(up) + 1
      /\ \A i \in 1 .. Len(up) : Append(up, Version(v))[i] = up[i]
      /\ Append(up, Version(v))[Len(up) + 1] = Version(v)
      /\ Len(up) \in Nat
  BY <1>1, <1>2
<1>4. /\ Len(Append(down, Version(v - 1))) = Len(down) + 1
      /\ \A i \in 1 .. Len(down) : Append(down, Version(v - 1))[i] = down[i]
      /\ Append(down, Version(v - 1))[Len(down) + 1] = Version(v - 1)
      /\ Len(down) \in Nat
  BY <1>1, <1>2
<1> QED BY <1>3, <1>4 DEF up, down, UpScript, DownScript

-----------------------------------------------------------------------------
(* The invariant *)

Upgrading   == command = "upgrade" /\ ~AllDone
Downgrading == command = "downgrade" /\ ~AllDone

TypeOK ==
    /\ postgres \in BOOLEAN
    /\ version \in 0 .. HeadVersion /\ before.version \in 0 .. HeadVersion
    /\ command \in {"none", "upgrade", "downgrade", "reset"}
    /\ done \in 0 .. Len(script)

\* Which script runs, and what had to happen before.
ScriptKnown ==
    /\ command = "none" => script = <<>>
    /\ Upgrading => version < HeadVersion /\ script = UpScript(version + 1)
    /\ Downgrading => version > 0 /\ script = DownScript(version)
    /\ command = "downgrade" => "downgraded" \in past
    /\ command = "reset" => script = DropAndCreate /\ "reset" \in past

\* What PostgreSQL would go back to.
HasRollback == postgres /\ command # "none"

\* How far a database that was only migrated is between two versions.
Exact ==
    past \subseteq {"downgraded"} =>
        /\ ~Upgrading /\ ~Downgrading => schema \ Types = Made(version)
        /\ Upgrading => schema \ Types = Known(version + 1, done)
        /\ Downgrading => schema \ Types = Left(version, done)
        /\ HasRollback => before.schema \ Types = Made(before.version)

\* What the models need of version v.
Serves(db, v) == Made(v) \intersect Models \subseteq db

\* A reset has dropped every table before it creates the first.
ResetSoFar ==
    \A i \in 1 .. 7 :
        /\ 8 - i <= done /\ done < 8 + i => Metadata[i] \notin schema
        /\ 8 + i <= done =>
            {Metadata[i]} \union Columns(Metadata[i]) \subseteq schema

\* A database that no command has torn serves the version it is at; a reset
\* makes it serve the newest.
Serving ==
    "torn" \notin past =>
        /\ command = "reset" => ResetSoFar
        /\ command # "reset" /\ ~Downgrading => Serves(schema, version)
        /\ Upgrading => Names(Revisions[version + 1].up, done) \subseteq schema
        /\ Downgrading => Serves(schema, version - 1)
        /\ HasRollback => Serves(before.schema, before.version)

\* No enumeration type is there without its table.
EnumsFollow(db) == \A t \in Tables : t \notin db => db \intersect Enums(t) = {}

Unmixed ==
    past = {} => EnumsFollow(schema) /\ (HasRollback => EnumsFollow(before.schema))

SchemaInv == TypeOK /\ ScriptKnown /\ Exact /\ Serving /\ Unmixed

\* PostgreSQL leaves no command half done.
Whole == postgres => "torn" \notin past

-----------------------------------------------------------------------------
(* What a statement does *)

\* Making something adds it and, with a table, its own enumeration types.
LEMMA BuildEffect ==
    ASSUME NEW s, NEW known, Builds(s, known)
    PROVE  /\ Effect(s) \ Types = (schema \ Types) \union {s.name}
           /\ schema \union {s.name} \subseteq Effect(s)
           /\ EnumsFollow(schema) => EnumsFollow(Effect(s))
PROOF
<1>1. CASE s.do = "create table"
  <2>1. Effect(s) = schema \union {s.name} \union EnumsMade(s.name)
    BY <1>1 DEF Effect
  <2>2. s.name \in Tables /\ s.name \notin Types
    BY <1>1 DEF Builds
  <2>3. EnumsMade(s.name) \subseteq Enums(s.name)
    BY DEF EnumsMade
  <2> QED BY <2>1, <2>2, <2>3, EnumsByName DEF EnumsFollow
<1>2. CASE s.do = "add column"
  <2>1. Effect(s) = schema \union {s.name} /\ s.name \notin Types
    BY <1>2 DEF Effect, Builds
  <2> QED BY <2>1, EnumsByName DEF EnumsFollow
<1> QED BY <1>1, <1>2 DEF Builds

\* Taking back removes a thing and leaves what was there before.
LEMMA TakeBackEffect ==
    ASSUME NEW s, NEW left, NEW known, TakesBack(s, left, known)
    PROVE  /\ Effect(s) = schema \ Taken(s)
           /\ schema \intersect known \subseteq Effect(s)
PROOF
<1>1. CASE s.do = "drop table"
  BY <1>1 DEF Effect, TakesBack, Taken
<1>2. CASE s.do = "drop column"
  BY <1>2 DEF Effect, TakesBack, Taken
<1> QED BY <1>1, <1>2 DEF TakesBack

-----------------------------------------------------------------------------
(* The invariant is inductive *)

\* An empty database is at version 0.
LEMMA InitInv == Init => SchemaInv
PROOF
<1> SUFFICES ASSUME Init PROVE SchemaInv
  OBVIOUS
<1> USE DEF Init
<1>1. AllDone /\ ~Upgrading /\ ~Downgrading
  BY DEF AllDone, Upgrading, Downgrading
<1>2. HeadVersion = 6 /\ Made(0) = {}
  BY RevisionsByName, MadeGrows
<1>3. TypeOK
  BY <1>2 DEF TypeOK
<1>4. ScriptKnown
  BY <1>1 DEF ScriptKnown
<1>5. Exact
  BY <1>1, <1>2 DEF Exact, HasRollback
<1>6. Serving
  BY <1>1, <1>2 DEF Serving, Serves, HasRollback
<1>7. Unmixed
  BY DEF Unmixed, EnumsFollow, HasRollback
<1> QED BY <1>3, <1>4, <1>5, <1>6, <1>7 DEF SchemaInv

\* A command that failed leaves an older state or a torn one.
LEMMA AbortInv == SchemaInv /\ command # "none" /\ Abort => SchemaInv'
PROOF
<1> SUFFICES ASSUME SchemaInv, command # "none", Abort PROVE SchemaInv'
  OBVIOUS
<1> USE DEF SchemaInv, Abort
<1>1. AllDone' /\ ~Upgrading' /\ ~Downgrading' /\ ~HasRollback'
  BY DEF AllDone, Upgrading, Downgrading, HasRollback
<1>2. TypeOK'
  BY DEF TypeOK
<1>3. ScriptKnown'
  BY <1>1 DEF ScriptKnown
<1>4. CASE postgres
  <2>1. HasRollback /\ UNCHANGED past
    BY <1>4 DEF HasRollback
  <2>2. Exact'
    BY <1>1, <1>4, <2>1 DEF Exact
  <2>3. Serving'
    BY <1>1, <1>4, <2>1 DEF Serving, Serves
  <2>4. Unmixed'
    BY <1>1, <1>4, <2>1 DEF Unmixed, EnumsFollow
  <2> QED BY <1>2, <1>3, <2>2, <2>3, <2>4
<1>5. CASE ~postgres
  <2>1. "torn" \in past'
    BY <1>5
  <2> QED BY <1>2, <1>3, <2>1 DEF Exact, Serving, Unmixed
<1> QED BY <1>4, <1>5

\* Where nothing is executed, nothing but the command's place has changed.
LEMMA FinishInv == SchemaInv /\ Finish => SchemaInv'
PROOF
<1> SUFFICES ASSUME SchemaInv, Finish PROVE SchemaInv'
  OBVIOUS
<1> USE DEF SchemaInv, Finish
<1>1. /\ AllDone /\ ~Upgrading /\ ~Downgrading
      /\ AllDone' /\ ~Upgrading' /\ ~Downgrading' /\ ~HasRollback'
  BY DEF AllDone, Upgrading, Downgrading, HasRollback
<1>2. TypeOK'
  BY DEF TypeOK
<1>3. ScriptKnown'
  BY <1>1 DEF ScriptKnown
<1>4. Exact'
  BY <1>1 DEF Exact
<1>5. Serving'
  <2>1. CASE command = "reset"
    <3>1. ASSUME "torn" \notin past PROVE Models \subseteq schema
      <4>1. done = 15
        BY <2>1, ResetRebuilds DEF ScriptKnown, AllDone
      <4>2. \A i \in 1 .. 7 :
                {Metadata[i]} \union Columns(Metadata[i]) \subseteq schema
        BY <2>1, <3>1, <4>1 DEF Serving, ResetSoFar
      <4> QED BY <4>2, MetadataDistinct DEF Models
    <3> QED BY <1>1, <3>1 DEF Serving, Serves
  <2>2. CASE command # "reset"
    BY <1>1, <2>2 DEF Serving, Serves
  <2> QED BY <2>1, <2>2
<1>6. Unmixed'
  BY <1>1 DEF Unmixed, EnumsFollow
<1> QED BY <1>2, <1>3, <1>4, <1>5, <1>6

\* Between two commands, and before the first statement of one.
LEMMA BeginsExact ==
    ASSUME SchemaInv, command = "none", before' = [schema |-> schema, version |-> version],
           UNCHANGED <<postgres, schema, version>>, past \subseteq past'
    PROVE  /\ past' \subseteq {"downgraded"} => schema \ Types = Made(version)
           /\ past' \subseteq {"downgraded"} => before'.schema \ Types = Made(before'.version)
           /\ "torn" \notin past' => Serves(schema, version)
           /\ "torn" \notin past' => Serves(before'.schema, before'.version)
           /\ past' = {} => EnumsFollow(schema) /\ EnumsFollow(before'.schema)
PROOF
<1> USE DEF SchemaInv
<1>1. ~Upgrading /\ ~Downgrading
  BY DEF Upgrading, Downgrading
<1>2. past' \subseteq {"downgraded"} => schema \ Types = Made(version)
  BY <1>1 DEF Exact
<1>3. "torn" \notin past' => Serves(schema, version)
  BY <1>1 DEF Serving
<1>4. past' = {} => EnumsFollow(schema)
  BY DEF Unmixed
<1> QED BY <1>2, <1>3, <1>4

\* The upgrade has not begun its first revision yet.
LEMMA UpgradeInv == SchemaInv /\ Upgrade => SchemaInv'
PROOF
<1> SUFFICES ASSUME SchemaInv, Upgrade PROVE SchemaInv'
  OBVIOUS
<1> USE DEF Upgrade, Begin
<1>1. AllDone' /\ ~Upgrading' /\ ~Downgrading'
  BY DEF AllDone, Upgrading, Downgrading
<1>2. TypeOK'
  BY DEF TypeOK, SchemaInv
<1>3. ScriptKnown'
  BY <1>1 DEF ScriptKnown
<1>4. Exact'
  BY <1>1, BeginsExact DEF Exact
<1>5. Serving'
  BY <1>1, BeginsExact DEF Serving, Serves
<1>6. Unmixed'
  BY <1>1, BeginsExact DEF Unmixed, EnumsFollow
<1> QED BY <1>2, <1>3, <1>4, <1>5, <1>6 DEF SchemaInv

\* No version has less than the one before.
LEMMA MadeMonotonic ==
    ASSUME NEW v \in 1 .. HeadVersion
    PROVE  Made(v - 1) \subseteq Made(v) /\ Known(v, 0) = Made(v - 1)
BY MadeGrows DEF Known, Names

\* At the start of a downgrade everything of its version is there.
LEMMA DowngradeInv == SchemaInv /\ Downgrade => SchemaInv'
PROOF
<1> SUFFICES ASSUME SchemaInv, Downgrade PROVE SchemaInv'
  OBVIOUS
<1> USE DEF Downgrade, Begin
<1>0. version \in 1 .. HeadVersion
  BY RevisionsByName DEF SchemaInv, TypeOK
<1>1. ~AllDone' /\ ~Upgrading' /\ Downgrading'
  BY <1>0, ScriptStatements DEF AllDone, Upgrading, Downgrading
<1>2. TypeOK'
  BY <1>0, ScriptStatements DEF TypeOK, SchemaInv
<1>3. ScriptKnown'
  BY <1>1 DEF ScriptKnown, Downgrading
<1>4. Left(version, 0) = Made(version)
  BY <1>0, LeftKeeps
<1>5. Exact'
  BY <1>1, <1>4, BeginsExact DEF Exact
<1>6. Serving'
  BY <1>0, <1>1, BeginsExact, MadeMonotonic DEF Serving, Serves
<1>7. Unmixed'
  BY DEF Unmixed
<1> QED BY <1>2, <1>3, <1>5, <1>6, <1>7 DEF SchemaInv

\* A reset has dropped nothing yet.
LEMMA ResetInv == SchemaInv /\ Reset => SchemaInv'
PROOF
<1> SUFFICES ASSUME SchemaInv, Reset PROVE SchemaInv'
  OBVIOUS
<1> USE DEF Reset, Begin
<1>1. ~Upgrading' /\ ~Downgrading'
  BY DEF Upgrading, Downgrading
<1>0. Len(DropAndCreate) = 15
  BY ResetRebuilds, Zenon
<1>2. TypeOK'
  BY <1>0 DEF TypeOK, SchemaInv
<1>3. ScriptKnown'
  BY <1>1 DEF ScriptKnown
<1>4. "reset" \in past'
  OBVIOUS
<1>5. ResetSoFar'
  BY DEF ResetSoFar
<1>6. Serving'
  BY <1>1, <1>5, BeginsExact DEF Serving, Serves
<1> QED BY <1>2, <1>3, <1>4, <1>6 DEF SchemaInv, Exact, Unmixed

\* A revision begins where the one before ended.
LEMMA NextRevisionInv == SchemaInv /\ NextRevision => SchemaInv'
PROOF
<1> SUFFICES ASSUME SchemaInv, NextRevision PROVE SchemaInv'
  OBVIOUS
<1> USE DEF NextRevision, SchemaInv
<1>0. version + 1 \in 1 .. HeadVersion /\ (version + 1) - 1 = version
  BY RevisionsByName DEF TypeOK
<1>1. /\ ~Upgrading /\ ~Downgrading
      /\ ~AllDone' /\ Upgrading' /\ ~Downgrading'
  <2>1. Len(UpScript(version + 1)) # 0
    BY <1>0, ScriptStatements
  <2>2. ~AllDone'
    BY <2>1 DEF AllDone
  <2> QED BY <2>2 DEF Upgrading, Downgrading
<1>2. TypeOK'
  BY <1>0, ScriptStatements DEF TypeOK
<1>3. ScriptKnown'
  BY <1>1 DEF ScriptKnown, Downgrading
<1>4. Known(version + 1, 0) = Made(version)
  BY <1>0, MadeMonotonic
<1>5. Exact'
  BY <1>1, <1>4 DEF Exact, HasRollback
<1>6. Serving'
  <2>1. Names(Revisions[version' + 1].up, done') = {}
    BY NamesByName
  <2> QED BY <1>1, <2>1 DEF Serving, Serves, HasRollback
<1>7. Unmixed'
  BY DEF Unmixed, HasRollback, EnumsFollow
<1> QED BY <1>2, <1>3, <1>5, <1>6, <1>7

-----------------------------------------------------------------------------
(* A statement is executed *)

\* One more name.
LEMMA NamesGrow ==
    ASSUME NEW s, NEW i \in Nat
    PROVE  Names(s, i + 1) = Names(s, i) \union {s[i + 1].name}
PROOF
<1>1. \A j : j \in 1 .. i + 1 <=> j \in 1 .. i \/ j = i + 1
  OBVIOUS
<1> QED BY <1>1 DEF Names

\* The version is written when the revision's statements are all executed.
LEMMA VersionWritten ==
    ASSUME NEW v \in Nat, Now = Version(v), Execute
    PROVE  schema' = schema /\ version' = v
BY DEF Execute, Version, Statement, Effect

\* In an upgrade the schema grows by one thing, or has all of its revision.
LEMMA UpgradeStep == SchemaInv /\ Upgrading /\ Execute => SchemaInv'
PROOF
<1> SUFFICES ASSUME SchemaInv, Upgrading, Execute PROVE SchemaInv'
  OBVIOUS
<1> DEFINE v == version + 1
           up == Revisions[v].up
<1> USE DEF SchemaInv
<1>0. v \in 1 .. HeadVersion /\ v - 1 = version /\ done \in Nat
  BY RevisionsByName DEF TypeOK, ScriptKnown
<1>1. /\ script = UpScript(v) /\ Len(script) = Len(up) + 1 /\ Len(up) \in Nat
      /\ command = "upgrade" /\ done \in 0 .. Len(up)
      /\ UNCHANGED <<postgres, command, script, before, past>> /\ done' = done + 1
  BY <1>0, ScriptStatements DEF ScriptKnown, Upgrading, AllDone, TypeOK, Execute
<1>2. CASE done < Len(up)
  <2>1. Now = up[done + 1] /\ done + 1 \in 1 .. Len(up)
    BY <1>0, <1>1, <1>2, ScriptStatements DEF Now
  <2>2. Builds(Now, Known(v, done))
    BY <1>0, <1>1, <2>1, UpgradesBuild
  <2>3. /\ version' = version /\ schema' = Effect(Now)
        /\ Upgrading' /\ ~Downgrading'
    <3>1. Now.do # "version"
      BY <2>2 DEF Builds
    <3>2. version' = version /\ schema' = Effect(Now)
      BY <3>1 DEF Execute
    <3>3. Upgrading' /\ ~Downgrading'
      BY <1>1, <1>2 DEF Upgrading, Downgrading, AllDone
    <3> QED BY <3>2, <3>3
  <2>4. Names(up, done + 1) = Names(up, done) \union {Now.name}
    BY <1>0, <2>1, NamesGrow
  <2>5. /\ schema' \ Types = (schema \ Types) \union {Now.name}
        /\ schema \union {Now.name} \subseteq schema'
        /\ EnumsFollow(schema) => EnumsFollow(schema')
    BY <2>2, <2>3, BuildEffect
  <2>6. TypeOK'
    BY <1>0, <1>1, <1>2, <2>3 DEF TypeOK
  <2>7. ScriptKnown'
    BY <1>1, <2>3 DEF ScriptKnown, Upgrading
  <2>8. Exact'
    BY <1>1, <2>3, <2>4, <2>5 DEF Exact, Known, HasRollback
  <2>9. Serving'
    BY <1>1, <2>3, <2>4, <2>5 DEF Serving, Serves, HasRollback, Downgrading
  <2>10. Unmixed'
    BY <1>1, <2>5 DEF Unmixed, HasRollback, EnumsFollow
  <2> QED BY <2>6, <2>7, <2>8, <2>9, <2>10
<1>3. CASE done = Len(up)
  <2>1. Now = Version(v)
    BY <1>0, <1>1, <1>3, ScriptStatements DEF Now
  <2>2. schema' = schema /\ version' = v
    BY <1>0, <2>1, VersionWritten
  <2>3. AllDone' /\ ~Upgrading' /\ ~Downgrading'
    BY <1>1, <1>3 DEF AllDone, Upgrading, Downgrading
  <2>4. Known(v, done) = Made(v) /\ Made(v) = Made(v - 1) \union Names(up, done)
    BY <1>0, <1>3, MadeGrows DEF Known
  <2>5. TypeOK'
    BY <1>0, <1>1, <1>3, <2>2 DEF TypeOK
  <2>6. ScriptKnown'
    BY <1>1, <2>3 DEF ScriptKnown
  <2>7. Exact'
    BY <1>1, <2>2, <2>3, <2>4 DEF Exact, HasRollback
  <2>8. Serving'
    BY <1>0, <1>1, <2>2, <2>3, <2>4 DEF Serving, Serves, HasRollback, Downgrading
  <2>9. Unmixed'
    BY <1>1, <2>2 DEF Unmixed, HasRollback, EnumsFollow
  <2> QED BY <2>5, <2>6, <2>7, <2>8, <2>9
<1> QED BY <1>1, <1>2, <1>3

\* In a downgrade the schema shrinks by one thing, or is that of the version
\* before.
LEMMA DowngradeStep == SchemaInv /\ Downgrading /\ Execute => SchemaInv'
PROOF
<1> SUFFICES ASSUME SchemaInv, Downgrading, Execute PROVE SchemaInv'
  OBVIOUS
<1> DEFINE down == Revisions[version].down
           was  == Made(version - 1)
<1> USE DEF SchemaInv
<1>0. version \in 1 .. HeadVersion /\ done \in Nat
  BY RevisionsByName DEF TypeOK, ScriptKnown
<1>1. /\ script = DownScript(version) /\ Len(script) = Len(down) + 1
      /\ Len(down) \in Nat /\ command = "downgrade" /\ done \in 0 .. Len(down)
      /\ UNCHANGED <<postgres, command, script, before, past>> /\ done' = done + 1
  BY <1>0, ScriptStatements DEF ScriptKnown, Downgrading, AllDone, TypeOK, Execute
<1>2. past # {}
  BY <1>1 DEF ScriptKnown
<1>3. CASE done < Len(down)
  <2>1. Now = down[done + 1] /\ done + 1 \in 1 .. Len(down)
    <3>1. done + 1 \in 1 .. Len(down)
      BY <1>0, <1>1, <1>3
    <3>2. DownScript(version)[done + 1] = down[done + 1]
      BY <1>0, <3>1, ScriptStatements, Zenon
    <3> QED BY <1>1, <3>1, <3>2 DEF Now
  <2>2. TakesBack(Now, Left(version, done), was)
    BY <1>0, <2>1, DowngradesTakeBack
  <2>3. /\ version' = version /\ schema' = Effect(Now)
        /\ Downgrading' /\ ~Upgrading'
    <3>1. Now.do # "version"
      BY <2>2 DEF TakesBack
    <3>2. version' = version /\ schema' = Effect(Now)
      BY <3>1 DEF Execute
    <3>3. Downgrading' /\ ~Upgrading'
      BY <1>1, <1>3 DEF Upgrading, Downgrading, AllDone
    <3> QED BY <3>2, <3>3
  <2>4. Left(version, done + 1) = Left(version, done) \ Taken(Now)
    BY <1>0, <2>1, LeftKeeps
  <2>5. schema' = schema \ Taken(Now) /\ schema \intersect was \subseteq schema'
    BY <2>2, <2>3, TakeBackEffect
  <2>6. TypeOK'
    BY <1>0, <1>1, <1>3, <2>3 DEF TypeOK
  <2>7. ScriptKnown'
    BY <1>0, <1>1, <2>3 DEF ScriptKnown, Downgrading
  <2>8. Exact'
    BY <1>1, <2>3, <2>4, <2>5 DEF Exact, HasRollback
  <2>9. Serving'
    BY <1>1, <2>3, <2>5 DEF Serving, Serves, HasRollback
  <2> QED BY <1>1, <1>2, <2>6, <2>7, <2>8, <2>9 DEF Unmixed
<1>4. CASE done = Len(down)
  <2>1. Now = Version(version - 1)
    BY <1>0, <1>1, <1>4, ScriptStatements DEF Now
  <2>2. schema' = schema /\ version' = version - 1
    BY <1>0, <2>1, VersionWritten
  <2>3. AllDone' /\ ~Upgrading' /\ ~Downgrading'
    BY <1>1, <1>4 DEF AllDone, Upgrading, Downgrading
  <2>4. Left(version, done) = was
    BY <1>0, <1>4, DowngradesTakeBack
  <2>5. TypeOK'
    <3>1. version' \in 0 .. HeadVersion
      BY <1>0, <2>2, RevisionsByName
    <3>2. done' \in 0 .. Len(script')
      BY <1>1, <1>4
    <3> QED BY <1>1, <3>1, <3>2 DEF TypeOK
  <2>6. ScriptKnown'
    BY <1>1, <2>3 DEF ScriptKnown
  <2>7. Exact'
    BY <1>1, <2>2, <2>3, <2>4 DEF Exact, HasRollback
  <2>8. Serving'
    BY <1>1, <2>2, <2>3 DEF Serving, Serves, HasRollback
  <2> QED BY <1>1, <1>2, <2>5, <2>6, <2>7, <2>8 DEF Unmixed
<1> QED BY <1>1, <1>3, <1>4

\* A reset drops and creates one table after the other.
LEMMA ResetStep == SchemaInv /\ command = "reset" /\ Execute => SchemaInv'
PROOF
<1> SUFFICES ASSUME SchemaInv, command = "reset", Execute PROVE SchemaInv'
  OBVIOUS
<1> USE DEF SchemaInv
<1>0. Len(DropAndCreate) = 15
  BY ResetRebuilds, Zenon
<1>1. /\ script = DropAndCreate /\ "reset" \in past
      /\ done \in 0 .. 14 /\ done' = done + 1
      /\ UNCHANGED <<postgres, command, script, before, past>>
  <2>1. script = DropAndCreate /\ "reset" \in past
    BY DEF ScriptKnown
  <2>2. done \in 0 .. 15 /\ done # 15
    BY <1>0, <2>1 DEF TypeOK, AllDone, Execute
  <2> QED BY <2>1, <2>2 DEF Execute
<1>2. ~Upgrading /\ ~Downgrading /\ ~Upgrading' /\ ~Downgrading'
  BY <1>1 DEF Upgrading, Downgrading
<1>3. version' = version /\ ("torn" \notin past => ResetSoFar')
  <2>0. "torn" \notin past => ResetSoFar
    BY DEF Serving
  <2>1. CASE done \in 0 .. 6
    <3>1. Now = Statement("drop if there", Metadata[7 - done])
      <4>1. done + 1 \in 1 .. 7 /\ 8 - (done + 1) = 7 - done
        BY <2>1
      <4> QED BY <1>1, <4>1, ResetRebuilds DEF Now
    <3>2. /\ version' = version
          /\ schema' \subseteq schema \ {Metadata[7 - done]}
      BY <3>1 DEF Execute, Effect, Statement
    <3>3. ASSUME "torn" \notin past PROVE ResetSoFar'
      BY <1>1, <2>0, <2>1, <3>2, <3>3 DEF ResetSoFar
    <3> QED BY <3>2, <3>3
  <2>2. CASE done = 7
    <3>1. Now = Statement("drop types", "all")
      <4>1. done + 1 = 8
        BY <2>2
      <4> QED BY <1>1, <4>1, ResetRebuilds, Zenon DEF Now
    <3>2. version' = version /\ schema' \subseteq schema
      BY <3>1 DEF Execute, Effect, Statement
    <3>3. ASSUME "torn" \notin past PROVE ResetSoFar'
      BY <1>1, <2>0, <2>2, <3>2, <3>3 DEF ResetSoFar
    <3> QED BY <3>2, <3>3
  <2>3. CASE done \in 8 .. 14
    <3> DEFINE k == done - 7
               t == Metadata[k]
    <3>0. k \in 1 .. 7
      BY <2>3
    <3>1. Now = Statement("create if missing", t)
      <4>1. done + 1 \in 9 .. 15 /\ (done + 1) - 8 = k
        BY <2>3
      <4> QED BY <1>1, <4>1, ResetRebuilds DEF Now
    <3>2. version' = version /\ schema' = Effect(Now)
      BY <3>1 DEF Execute, Statement
    <3>3. ASSUME "torn" \notin past PROVE ResetSoFar'
      <4>1. t \notin schema
        BY <3>0, <3>3, <2>0, <2>3 DEF ResetSoFar
      <4>2. schema' = schema \union {t} \union Columns(t) \union EnumsMade(t)
        BY <3>1, <3>2, <4>1 DEF Effect, Statement
      <4>3. EnumsMade(t) \subseteq Types
        BY ThingsByName DEF EnumsMade, Enums
      <4>4. ASSUME NEW i \in 1 .. 7, k < i PROVE Metadata[i] \notin schema'
        <5>1. Metadata[i] \notin schema
          BY <2>0, <2>3, <3>3, <4>4 DEF ResetSoFar
        <5>2. Metadata[i] # t
          BY <3>0, <4>4, MetadataDistinct
        <5> QED BY <4>2, <4>3, <5>1, <5>2, MetadataDistinct
      <4>5. ASSUME NEW i \in 1 .. 7, i <= k
            PROVE  {Metadata[i]} \union Columns(Metadata[i]) \subseteq schema'
        <5>1. CASE i = k
          BY <4>2, <5>1
        <5>2. CASE i # k
          <6>1. 8 + i <= done
            BY <2>3, <4>5, <5>2
          <6> QED BY <2>0, <3>3, <4>2, <6>1 DEF ResetSoFar
        <5> QED BY <5>1, <5>2
      <4> QED BY <1>1, <2>3, <4>4, <4>5 DEF ResetSoFar
    <3> QED BY <3>2, <3>3
  <2> QED BY <1>1, <2>1, <2>2, <2>3
<1>5. TypeOK'
  <2>1. done' \in 0 .. Len(script')
    <3>1. script' = DropAndCreate
      BY <1>1
    <3>2. done' \in 0 .. 15
      BY <1>1
    <3> QED BY <3>1, <3>2, <1>0
  <2>2. version' = version /\ command' = command
    BY <1>1, <1>3
  <2>3. UNCHANGED <<postgres, before>>
    BY <1>1
  <2> QED BY <2>1, <2>2, <2>3 DEF TypeOK
<1>6. ScriptKnown'
  BY <1>1, <1>2 DEF ScriptKnown
<1>7. Serving'
  BY <1>1, <1>2, <1>3 DEF Serving, HasRollback, Serves
<1> QED BY <1>1, <1>5, <1>6, <1>7 DEF Exact, Unmixed

-----------------------------------------------------------------------------
(* The theorems *)

\* The invariant holds of every history of commands on either database.
THEOREM Invariance == Spec => []SchemaInv
PROOF
<1>1. SchemaInv /\ [Next]_vars => SchemaInv'
  <2> SUFFICES ASSUME SchemaInv, [Next]_vars PROVE SchemaInv'
    OBVIOUS
  <2>0. ~AllDone => command # "none"
    BY DEF SchemaInv, TypeOK, ScriptKnown, AllDone
  <2>1. CASE Upgrade BY <2>1, UpgradeInv
  <2>2. CASE Downgrade BY <2>2, DowngradeInv
  <2>3. CASE Reset BY <2>3, ResetInv
  <2>4. CASE NextRevision BY <2>4, NextRevisionInv
  <2>5. CASE Execute
    <3>1. Upgrading \/ Downgrading \/ command = "reset"
      BY <2>0, <2>5 DEF Execute, Upgrading, Downgrading, SchemaInv, TypeOK
    <3> QED BY <2>5, <3>1, UpgradeStep, DowngradeStep, ResetStep
  <2>6. CASE Refuse BY <2>0, <2>6, AbortInv DEF Refuse
  <2>7. CASE Interrupt BY <2>7, AbortInv DEF Interrupt
  <2>8. CASE Finish BY <2>8, FinishInv
  <2>9. CASE UNCHANGED vars
    BY <2>9 DEF vars, SchemaInv, TypeOK, ScriptKnown, Exact, Serving, Serves, ResetSoFar,
                Unmixed, EnumsFollow, HasRollback, Upgrading, Downgrading, AllDone
  <2> QED BY <2>1, <2>2, <2>3, <2>4, <2>5, <2>6, <2>7, <2>8, <2>9 DEF Next
<1> QED BY <1>1, InitInv, PTL DEF Spec

\* PostgreSQL rolls every command back that does not end.
LEMMA RolledBack == Spec => []Whole
PROOF
<1>1. Init => Whole
  BY DEF Init, Whole
<1>2. Whole /\ [Next]_vars => Whole'
  <2> SUFFICES ASSUME Whole, [Next]_vars PROVE Whole'
    OBVIOUS
  <2>1. CASE Upgrade BY <2>1 DEF Upgrade, Begin, Whole
  <2>2. CASE Downgrade BY <2>2 DEF Downgrade, Begin, Whole
  <2>3. CASE Reset BY <2>3 DEF Reset, Begin, Whole
  <2>4. CASE NextRevision BY <2>4 DEF NextRevision, Whole
  <2>5. CASE Execute BY <2>5 DEF Execute, Whole
  <2>6. CASE Refuse BY <2>6 DEF Refuse, Abort, Whole
  <2>7. CASE Interrupt BY <2>7 DEF Interrupt, Abort, Whole
  <2>8. CASE Finish BY <2>8 DEF Finish, Whole
  <2>9. CASE UNCHANGED vars BY <2>9 DEF vars, Whole
  <2> QED BY <2>1, <2>2, <2>3, <2>4, <2>5, <2>6, <2>7, <2>8, <2>9 DEF Next
<1> QED BY <1>1, <1>2, PTL DEF Spec

\* A database at the newest version serves the models, whatever upgrades,
\* downgrades and seedings brought it there.
THEOREM HeadServes == Spec => []HeadServesModels
PROOF
<1>1. SchemaInv => HeadServesModels
  <2> SUFFICES ASSUME SchemaInv, Idle, version = HeadVersion, "torn" \notin past
               PROVE  Models \ {"bigint reward"} \subseteq schema
    BY DEF HeadServesModels
  <2>1. Serves(schema, HeadVersion)
    BY DEF SchemaInv, Serving, Idle, Downgrading
  <2>2. Models \ {"bigint reward"} \subseteq Made(HeadVersion)
    BY RevisionsByName, MadeByName, ThingsByName
  <2> QED BY <2>1, <2>2 DEF Serves
<1> QED BY <1>1, Invariance, PTL

\* The version tells which tables and columns there are while migrations alone
\* change them, also after commands that failed in PostgreSQL.
THEOREM VersionIsTrue == Spec => []VersionTellsSchema
PROOF
<1>1. SchemaInv => VersionTellsSchema
  BY DEF SchemaInv, Exact, VersionTellsSchema, Idle, Upgrading, Downgrading
<1> QED BY <1>1, Invariance, PTL

\* An upgrade finds what its statement refers to, and not what it makes.
LEMMA UpgradeTakes ==
    ASSUME SchemaInv, Upgrading, past \subseteq {"downgraded"}, postgres => past = {}
    PROVE  Takes(Now)
PROOF
<1> DEFINE v == version + 1
           up == Revisions[v].up
<1>0. v \in 1 .. HeadVersion /\ done \in Nat
  BY RevisionsByName DEF SchemaInv, TypeOK, ScriptKnown
<1>1. /\ script = UpScript(v) /\ Len(script) = Len(up) + 1
      /\ Len(up) \in Nat /\ done \in 0 .. Len(up)
  BY <1>0, ScriptStatements DEF SchemaInv, TypeOK, ScriptKnown, Upgrading, AllDone
<1>2. CASE done < Len(up)
  <2>0. done + 1 \in 1 .. Len(up)
    BY <1>0, <1>1, <1>2
  <2>1. Now = up[done + 1]
    BY <1>0, <1>1, <2>0, ScriptStatements DEF Now
  <2>2. Builds(Now, Known(v, done))
    BY <1>0, <1>1, <2>0, <2>1, UpgradesBuild
  <2>3. schema \ Types = Known(v, done)
    BY DEF SchemaInv, Exact
  <2>4. Now.name \notin schema
    BY <2>2, <2>3 DEF Builds
  <2>5. postgres => EnumsFollow(schema)
    BY DEF SchemaInv, Unmixed
  <2> QED BY <2>2, <2>3, <2>4, <2>5 DEF Builds, Takes, EnumsFollow
<1>3. CASE done = Len(up)
  <2>1. Now = Version(v)
    BY <1>0, <1>1, <1>3, ScriptStatements DEF Now
  <2> QED BY <2>1 DEF Takes, Version, Statement
<1> QED BY <1>1, <1>2, <1>3

\* A downgrade finds what it drops, and nothing that refers to it.
LEMMA DowngradeTakes ==
    ASSUME SchemaInv, Downgrading, past \subseteq {"downgraded"}
    PROVE  Takes(Now)
PROOF
<1> DEFINE down == Revisions[version].down
           left == Left(version, done)
<1>0. version \in 1 .. HeadVersion /\ done \in Nat
  BY RevisionsByName DEF SchemaInv, TypeOK, ScriptKnown
<1>1. /\ script = DownScript(version) /\ Len(script) = Len(down) + 1
      /\ Len(down) \in Nat /\ done \in 0 .. Len(down)
  BY <1>0, ScriptStatements DEF SchemaInv, TypeOK, ScriptKnown, Downgrading, AllDone
<1>2. CASE done < Len(down)
  <2>0. done + 1 \in 1 .. Len(down) /\ (done + 1) - 1 = done
    BY <1>0, <1>1, <1>2
  <2>1. Now = down[done + 1]
    BY <1>0, <1>1, <2>0, ScriptStatements DEF Now
  <2>2. TakesBack(Now, left, Made(version - 1))
    BY <1>0, <2>0, <2>1, DowngradesTakeBack
  <2>3. schema \ Types = left
    BY DEF SchemaInv, Exact
  <2>4. schema \intersect Tables \subseteq left /\ left \subseteq schema
    BY <2>3, EnumsByName
  <2> HIDE DEF left
  <2> QED BY <2>2, <2>4 DEF TakesBack, Takes
<1>3. CASE done = Len(down)
  <2>1. Now = Version(version - 1)
    BY <1>0, <1>1, <1>3, ScriptStatements DEF Now
  <2> QED BY <2>1 DEF Takes, Version, Statement
<1> QED BY <1>1, <1>2, <1>3

\* A reset drops a table after those that refer to it.
LEMMA ResetTakes ==
    ASSUME SchemaInv, Whole, command = "reset", ~AllDone, postgres => "deposits" \notin schema
    PROVE  Takes(Now)
PROOF
<1>0. Len(DropAndCreate) = 15
  BY ResetRebuilds, Zenon
<1>1. script = DropAndCreate /\ done \in 0 .. 14
  <2>1. script = DropAndCreate
    BY DEF SchemaInv, ScriptKnown
  <2>2. done \in 0 .. 15 /\ done # 15
    BY <1>0, <2>1 DEF SchemaInv, TypeOK, AllDone
  <2> QED BY <2>1, <2>2
<1>2. CASE done \in 0 .. 6
  <2> DEFINE k == 7 - done
             t == Metadata[k]
  <2>0. k \in 1 .. 7
    BY <1>2
  <2>1. Now = Statement("drop if there", t)
    <3>1. done + 1 \in 1 .. 7 /\ 8 - (done + 1) = k
      BY <1>2
    <3> QED BY <1>1, <3>1, ResetRebuilds DEF Now
  <2>2. ASSUME postgres, NEW u \in schema \intersect Tables PROVE t \notin ForeignKeys(u)
    <3>1. ResetSoFar
      BY <2>2 DEF SchemaInv, Serving, Whole
    <3>2. PICK j \in 1 .. 7 : u = Metadata[j]
      BY <2>2, MetadataDistinct DEF Tables
    <3>3. j <= k
      BY <1>2, <3>1, <3>2 DEF ResetSoFar
    <3>4. ~(k < j)
      BY <2>0, <3>3
    <3> QED BY <2>0, <3>2, <3>4, KeysComeFirst
  <2> HIDE DEF t
  <2> QED BY <2>1, <2>2 DEF Takes, Statement
<1>3. CASE done = 7
  <2>1. Now = Statement("drop types", "all")
    <3>1. done + 1 = 8
      BY <1>3
    <3> QED BY <1>1, <3>1, ResetRebuilds, Zenon DEF Now
  <2> QED BY <2>1 DEF Takes, Statement
<1>4. CASE done \in 8 .. 14
  <2>1. done + 1 \in 9 .. 15
    BY <1>4
  <2>2. Now = Statement("create if missing", Metadata[(done + 1) - 8])
    BY <1>1, <2>1, ResetRebuilds, Zenon DEF Now
  <2> QED BY <2>2 DEF Takes, Statement
<1> QED BY <1>1, <1>2, <1>3, <1>4

\* No statement is refused: of an upgrade while the database is only upgraded
\* or is SQLite's, of a downgrade while only migrations change it, and of a
\* reset but for the deposits.
THEOREM CommandsAreTaken == Spec => []CommandsRun
PROOF
<1>1. SchemaInv /\ Whole => CommandsRun
  <2> SUFFICES ASSUME SchemaInv, Whole, ~AllDone,
                      \/ past = {}
                      \/ past \subseteq {"downgraded"} /\ (postgres => command = "downgrade")
                      \/ command = "reset" /\ (postgres => "deposits" \notin schema)
               PROVE  Takes(Now)
    BY DEF CommandsRun
  <2>0. command \in {"upgrade", "downgrade", "reset"}
    BY DEF SchemaInv, TypeOK, ScriptKnown, AllDone
  <2>1. CASE command = "upgrade"
    BY <2>1, UpgradeTakes DEF Upgrading
  <2>2. CASE command = "downgrade"
    BY <2>2, DowngradeTakes DEF Downgrading
  <2>3. CASE command = "reset"
    <3>1. "reset" \in past
      BY <2>3 DEF SchemaInv, ScriptKnown
    <3> QED BY <2>3, <3>1, ResetTakes
  <2> QED BY <2>0, <2>1, <2>2, <2>3
<1> QED BY <1>1, Invariance, RolledBack, PTL
=============================================================================
