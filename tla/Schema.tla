------------------------------- MODULE Schema -------------------------------
(***************************************************************************)
(* The schema of the database under the commands that change it: alembic's *)
(* upgrade head and downgrade -1 over alembic/versions, and the Seeder's   *)
(* drop_all and create_all.  A command is a sequence of DDL statements.    *)
(* PostgreSQL runs it in one transaction; the sqlite3 driver commits every *)
(* DDL statement by itself, and alembic's version after each migration.    *)
(* What a statement requires is the databases', not the repository's.      *)
(***************************************************************************)
EXTENDS Naturals, Sequences, SequencesExt

-----------------------------------------------------------------------------
(* The objects of a schema: tables, the enumeration types of PostgreSQL,   *)
(* and the two columns of events that the migrations did not make with it. *)

Enums(t) ==
    CASE t = "users"        -> {"user_role"}
      [] t = "stores"       -> {"store_type"}
      [] t = "applications" -> {"application_status"}
      [] OTHER              -> {}

ForeignKeys(t) ==
    CASE t = "stores"             -> {"users"}
      [] t = "events"             -> {"stores"}
      [] t = "applications"       -> {"events", "users"}
      [] t = "review_submissions" -> {"applications"}
      [] t = "review_images"      -> {"review_submissions"}
      [] t = "deposits"           -> {"users"}
      [] OTHER                    -> {}

\* Base.metadata in the order of its foreign keys: no model has deposits.
Metadata == <<"email_verifications", "users", "stores", "events",
              "applications", "review_submissions", "review_images">>

Columns(t) == IF t = "events" THEN {"contract_address", "bigint reward"} ELSE {}

Models      == Range(Metadata) \union Columns("events")
Types       == UNION {Enums(t) : t \in Range(Metadata)}
Tables      == Range(Metadata) \union {"deposits"}

Statement(do, name) == [do |-> do, name |-> name]
Create(t)     == Statement("create table", t)
Drop(t)       == Statement("drop table", t)
AddColumn(c)  == Statement("add column", c)
DropColumn(c) == Statement("drop column", c)
Version(v)    == Statement("version", v)

-----------------------------------------------------------------------------
(* The migrations, oldest first: revision i takes the schema from version  *)
(* i - 1 to version i and back.                                            *)

\* Faulty variant: what refers to the stores is made before them.
EventsFirst ==
    [up   |-> <<Create("events"), Create("stores"), Create("applications"),
                Create("review_submissions")>>,
     down |-> <<Drop("review_submissions"), Drop("applications"),
                Drop("events"), Drop("stores")>>]

\* 42fa0f495c60
Initial ==
    [up   |-> <<Create("email_verifications"), Create("users")>>,
     down |-> <<Drop("users"), Drop("email_verifications")>>]

\* dd5d7eeaabd1
AddStoreEventApplicationReview ==
    [up   |-> <<Create("stores"), Create("events"), Create("applications"),
                Create("review_submissions")>>,
     down |-> <<Drop("review_submissions"), Drop("applications"),
                Drop("events"), Drop("stores")>>]

\* Faulty variant: review_images is left to a later revision.
NoImages == [up |-> <<>>, down |-> <<>>]

\* 23d53081763c
AddReviewImages ==
    [up |-> <<Create("review_images")>>, down |-> <<Drop("review_images")>>]

\* Faulty variant: the downgrade was left empty.
KeepDeposits == [up |-> <<Create("deposits")>>, down |-> <<>>]

\* e12a0231a096
AddDeposits == [up |-> <<Create("deposits")>>, down |-> <<Drop("deposits")>>]

\* ac59f74875af
AddContractAddress ==
    [up   |-> <<AddColumn("contract_address")>>,
     down |-> <<DropColumn("contract_address")>>]

\* 39c458686144: both functions are empty.
ChangeReward == [up |-> <<>>, down |-> <<>>]

Revisions == <<Initial, AddStoreEventApplicationReview, AddReviewImages,
               AddDeposits, AddContractAddress, ChangeReward>>

HeadVersion == Len(Revisions)

\* What alembic executes for one revision: the function, then the version.
UpScript(v)   == Append(Revisions[v].up, Version(v))
DownScript(v) == Append(Revisions[v].down, Version(v - 1))

\* _reset: every table that is there in reverse order, the types, and all anew.
DropAndCreate ==
    LET each(do, names) == [i \in DOMAIN names |-> Statement(do, names[i])]
    IN each("drop if there", Reverse(Metadata))
          \o <<Statement("drop types", "all")>>
          \o each("create if missing", Metadata)

-----------------------------------------------------------------------------
VARIABLES
    postgres,   \* which of the two databases it is
    schema,     \* the objects that exist
    version,    \* alembic_version, 0 for none
    command,    \* the command that runs: "none" or its name
    script,     \* its statements, those of one revision at a time
    done,       \* how many of them have been executed
    before,     \* what PostgreSQL goes back to when the command fails
    past        \* what happened to this database besides upgrades

vars == <<postgres, schema, version, command, script, done, before, past>>

\* A database takes the statement, or refuses it with an error.
Takes(s) ==
    LET absent(t)  == t \notin schema /\ (postgres => schema \cap Enums(t) = {})
        free(t)    == postgres => \A u \in schema \cap Tables : t \notin ForeignKeys(u)
        targets(t) == postgres => ForeignKeys(t) \subseteq schema
    IN CASE s.do = "create table"  -> absent(s.name) /\ targets(s.name)
         [] s.do = "drop table"    -> s.name \in schema /\ free(s.name)
         [] s.do = "add column"    -> "events" \in schema /\ s.name \notin schema
         [] s.do = "drop column"   -> s.name \in schema
         [] s.do = "drop if there" -> s.name \in schema => free(s.name)
         [] OTHER                  -> TRUE

EnumsMade(t) == IF postgres THEN Enums(t) ELSE {}

Effect(s) ==
    CASE s.do = "create table" -> schema \union {s.name} \union EnumsMade(s.name)
      [] s.do \in {"drop table", "drop if there"} ->
            schema \ ({s.name} \union Columns(s.name))
      [] s.do = "add column"   -> schema \union {s.name}
      [] s.do = "drop column"  -> schema \ {s.name}
      [] s.do = "drop types"   -> schema \ Types
      [] s.do = "create if missing" ->
            IF s.name \in schema THEN schema
            ELSE schema \union {s.name} \union Columns(s.name) \union EnumsMade(s.name)
      [] OTHER -> schema

-----------------------------------------------------------------------------
Begin(name, statements) ==
    /\ command = "none"
    /\ command' = name
    /\ script' = statements /\ done' = 0
    /\ before' = [schema |-> schema, version |-> version]
    /\ UNCHANGED <<postgres, schema, version>>

\* alembic upgrade head
Upgrade == Begin("upgrade", <<>>) /\ UNCHANGED past

\* alembic downgrade -1
Downgrade ==
    /\ version > 0
    /\ Begin("downgrade", DownScript(version))
    /\ past' = past \union {"downgraded"}

\* A start of the server with SEED_DB set.
Reset == Begin("reset", DropAndCreate) /\ past' = past \union {"reset"}

AllDone == done = Len(script)

\* An upgrade goes on to the next revision, up to the newest.
NextRevision ==
    /\ command = "upgrade" /\ AllDone /\ version < HeadVersion
    /\ script' = UpScript(version + 1) /\ done' = 0
    /\ UNCHANGED <<postgres, schema, version, command, before, past>>

\* The statement that is next.
Now == script[done + 1]

Execute ==
    /\ ~AllDone /\ Takes(Now)
    /\ schema' = Effect(Now)
    /\ version' = IF Now.do = "version" THEN Now.name ELSE version
    /\ done' = done + 1
    /\ UNCHANGED <<postgres, command, script, before, past>>

\* The transaction is rolled back where there is one.
Abort ==
    /\ command' = "none" /\ script' = <<>> /\ done' = 0
    /\ IF postgres
       THEN /\ schema' = before.schema /\ version' = before.version
            /\ UNCHANGED past
       ELSE /\ past' = past \union {"torn"}
            /\ UNCHANGED <<schema, version>>
    /\ UNCHANGED <<postgres, before>>

\* The database refuses a statement.
Refuse == ~AllDone /\ ~Takes(Now) /\ Abort

\* The process dies, or loses the database.
Interrupt == command # "none" /\ Abort

Finish ==
    /\ command # "none" /\ AllDone
    /\ command = "upgrade" => version = HeadVersion
    /\ command' = "none" /\ script' = <<>> /\ done' = 0
    /\ UNCHANGED <<postgres, schema, version, before, past>>

Init ==
    /\ postgres \in BOOLEAN
    /\ schema = {} /\ version = 0
    /\ command = "none" /\ script = <<>> /\ done = 0
    /\ before = [schema |-> {}, version |-> 0]
    /\ past = {}

Next ==
    \/ Upgrade \/ Downgrade \/ Reset
    \/ NextRevision \/ Execute \/ Refuse \/ Interrupt \/ Finish

Spec == Init /\ [][Next]_vars

-----------------------------------------------------------------------------
(* Properties *)

Idle == command = "none"

\* A database at the newest version has every table and column the models
\* read and write (how wide reward is left aside), whatever upgrades,
\* downgrades and seedings brought it there; only a command that SQLite was
\* left with half done may spoil it.
HeadServesModels ==
    Idle /\ version = HeadVersion /\ "torn" \notin past =>
        Models \ {"bigint reward"} \subseteq schema

\* What the revisions up to v make.
Made(v) == {s.name : s \in UNION {Range(Revisions[i].up) : i \in 1 .. v}}

\* The version in alembic_version tells what the schema is: each downgrade
\* takes back its upgrade's tables and columns and no others, and a command
\* that fails in PostgreSQL leaves both as they were.
VersionTellsSchema ==
    Idle /\ past \subseteq {"downgraded"} => schema \ Types = Made(version)

\* Nothing is refused while a database is only ever upgraded, however often an
\* upgrade was interrupted and started again in PostgreSQL: the revisions
\* create what they refer to first, and nothing twice.  A downgrade drops what
\* refers to others first, and an upgrade after it is refused by PostgreSQL at
\* most, where the enumeration types stay.  A reset is refused by nothing but
\* the deposits that it does not know of.
CommandsRun ==
    /\ ~AllDone
    /\ \/ past = {}
       \/ past \subseteq {"downgraded"} /\ (postgres => command = "downgrade")
       \/ command = "reset" /\ (postgres => "deposits" \notin schema)
    => Takes(Now)

\* The revision 39c458686144 is called "change reward to biginteger", as the
\* models have it; events.reward has been an INTEGER since dd5d7eeaabd1, which
\* in PostgreSQL holds less than 2^31 wei.
RewardIsBigInteger ==
    Idle /\ postgres /\ version = HeadVersion => "bigint reward" \in schema
=============================================================================
