# Verification of the VLSI server

TLA+ models of the review-event platform in `app/`: owners publish review
events, reviewers apply with a picture of their review, and an approved
application is paid from the event's Ethereum contract. The models are checked
with TLC on small instances; what matters most is proved with TLAPS for every
value of the constants.

## 1. The system

### Components, their state and operations

| Component (source) | State | Operations | Modelled in |
| --- | --- | --- | --- |
| application (`app/application`) | tables `applications`, `review_submissions`, `review_images` | `create_application`, `cancel_application`, `submit_review`; `list_my_applications` reads only | `ApplicationService`, `Listing` |
| blockchain (`app/blockchain`) | none of its own; the server account's nonce, pending and mined transactions at the node | `deploy_contract`, `fund_contract`, `payout`, `payout_safe` | `BlockchainService` |
| event, store (`app/event`, `app/store`) | tables `events`, `stores` | create and delete of each; `get_event`, `list_owner_events`, `list_event_applications`, `get_store`, `list_stores`, `list_store_events` read only | `EventService`, `Listing` |
| auth (`app/auth`, `app/core/security.py`) | tables `users`, `email_verifications` | check, send code, validate, register, login, change, reset; token refresh and logout keep no state | `AuthService` |
| seeder (`app/db/seed.py`, `lifespan` in `app/main.py`) | all tables, at every start | `run`: reset, then deploy, fund and insert | `Seeder` |
| email (`app/email`) | none | `send_email` | a step of `payout_safe`, `reset_password`, `send_verification_code` |
| ocr, s3 (`app/ocr`, `app/s3`) | none | `check_condition`, `download_private`, presigned URLs | outcomes of `ValidateImage` |
| session (`app/db/session.py`) | a session per request, the engine's pool of connections | `get_db`; a statement takes a connection, a commit or the end of the session gives it back | `Sessions` |
| migrations (`alembic/`) | the schema, `alembic_version` | `upgrade`, `downgrade`; `drop_all` and `create_all` of the seeder | `Schema` |
| login (`app/api/v1/deps.py`) | none | `require_login` | requests of users who are logged in |

### How they interact

One process, one event loop. A request is a coroutine with a database session;
at every `await` another coroutine may run. Requests share only the database,
the server's Ethereum account and the mail server. `create_application` calls
S3 and the vision model between its checks and its insert, and hands
`payout_safe` to `BackgroundTasks`, which runs after the answer in the same
process and is kept nowhere else. `create_event` awaits a deployment of up to
two minutes between the check of the store and the insert. The seeder uses the
same account before the server serves.

### What is hard

* Every operation checks, awaits and then writes, and only constraints of the
  database stand between two coroutines that passed the same check.
* All transactions use one account, and every job reads the nonce of block
  `latest` for itself: pending transactions replace or shut out each other.
* Replies get lost after a transaction was sent, waiting times out while it is
  still pending, and the process dies between any two awaits.
* `IntegrityError`s are turned into "already applied" in one place and into
  nothing in all others.
* A request keeps its connection while it awaits S3, a deployment or its own
  background task, and some handlers need a second one after their commit.
* A listing is several statements with commits of others between them.
* Schema changes are one transaction on PostgreSQL and many on SQLite.
* PostgreSQL enforces foreign keys; the SQLite of `docker-compose.yml` does not.

The list of hazards, each with its line and the properties that cover it, is
`hazards` in `PROJECT.json`. Some are behaviours of the models that no property
forbids, because neither the code nor a document does (an answer 500 after a
commit, a temporary password that is never delivered, a code validated twice,
pages that disagree while others commit, an interrupted upgrade on SQLite): they
are listed with a note instead of a property.

## 2. The models

ApplicationService, EventService and AuthService have one shape. A request (or job) `r` has `call[r]`, the
operation with its arguments; `stage[r]`, the `await` at which it stands; and
`answer[r]`, its outcome. The action that leaves an await is the statement
awaited there together with everything up to the next await. A statement sees
the rows that are committed when it runs; what an operation read earlier it
keeps using. `RequestFails` lets the await raise, `Crash` ends all coroutines at
once and keeps the database. A row has the request that inserts it for its id:
`uuid4` makes every id fresh.

**ApplicationService.** `FindEvent`, `FindExisting`, `ValidateImage`,
`SaveApplication` and `AddPayoutTask` are the awaits of `create_application`;
`FindApplication` and `DeleteApplication` those of `cancel_application`;
`FindSubmission` and `SaveReview` the rest of `submit_review`. `events` shrinks
by `DeleteEvent`, the commit of `delete_event` in the event service. `payouts`
records every task handed to `BackgroundTasks`. The constants give the rows
stored when the run starts, since only a row that some other program left
`PENDING` can ever be cancelled: `create_application` stores `APPROVED`.

**BlockchainService.** A job is one call. `ReadNonce` is `get_transaction_count`;
`Send` and `SendRejected` are the node's reactions to `send_raw_transaction`;
`Receipt` and `ReceiptTimeout` end `wait_for_transaction_receipt`; `ReadBalance`
and `SendEmail` are the rest of `payout_safe`. `Mine`, `Drop` and `Execute` are
the node and the contract `ReviewReward` as this code uses them (external): one
transaction per nonce, mined in the order of nonces, a better paid one replaces
a pending one; `release` pays one reward or reverts. Rewards are counted, not
measured in wei. A mined transaction may have had no effect, a funding like any
other (out of gas, reverted): no receipt's status is looked at, so `Receipt`
returns all the same. `Kinds` are the calls of the instance. Payouts and
deployments run side by side; `FundsAlone` says that a funding does not: only
the seeder funds, one call after the other, before a request is served. The nonce is a
local of the call and forgotten when it has been used (`ForgetNonce`).

**RewardFlow** composes the two: `AddPayoutTask` submits the payout job named
after the request, a crash ends requests and jobs together, and the node goes
on. **RewardPromise** is what both promise, without requests or transactions:
approved pairs of event and reviewer are paid at most once.

**EventService** has stores and events in one module because each operation on
one asks about the other. `Deploy` is `deploy_contract` as seen by its caller:
it returns the address of a mined deployment, or raises while the transaction
may still be mined (`deployed` may have it then). `Apply` is the commit of an
application to the event.

**AuthService** keeps password hashes as values one can only verify against, and
`past`, all hashes a user ever had, so that properties can speak of what was
once true. A temporary password is named after the request that draws it.
`Expire` lets a code reach its ten minutes at any time.

**Sessions** looks at the same handlers from below: each is the sequence of its
awaits (`Program`), a statement (`check` if its result may refuse the request,
`read`, `write`), a `commit`, a service outside (`image`, `deploy`, `mail`), the
`reply`, or the `payout` that runs before `get_db` closes the session. All 22
handlers that use a session are there. `conn[r]` is the connection: none before
the first statement and after a commit, since `expire_on_commit=False` makes
reading the objects no statement. `Refuse` is an `AppException`, from a check,
from the image or, in the handlers of `Applying`, from the commit, whose
`IntegrityError` becomes a 409. `Queue` and `PoolTimeout` are SQLAlchemy's
pool as the engine of `session.py` is configured.

**Listing** is one client with one listing and `Commit`, all that other requests
can commit meanwhile. `Count`, `Page`, `FindSubmission`, `FindImages`,
`FindEvents` and `Select` are the statements; each sees what is committed when
it runs. `PageOf` is any set of rows of the right size: no statement has an
order. `FlushReview` and `CommitReview` are the two halves of `save_review`.

**Schema** runs one command at a time, statement by statement. `Revisions`
holds both functions of every file in `alembic/versions`; an upgrade executes
them one after the other (`NextRevision`), each followed by its version. `Takes`
and `Effect` are the two databases: PostgreSQL refuses a table whose enumeration type exists
and a drop of what others refer to, and rolls a failed command back.

**Seeder** is `lifespan`: `Reset`, then for every spec `Deploy`, `Deployed`,
`Fund`, `Funded`, and one `Commit`. It is composed with BlockchainService, whose
node remembers the transactions of earlier starts. `Die` is a crash, a stop, or
a database error that makes `lifespan` fail; of the process nothing remains.
A funding that returned is no reward: deployment and funding may each be mined
without effect, and ether goes to an address whether it has code or not.
`RewardToGive` is what holds in spite of that: an event has code and a reward at
its address exactly when both transactions had their effect, ether is sent
only after the contract was mined (`SentAfterDeployed`), and a funding that
returned is in the chain. A funding that timed out may still bring the reward.

Operators whose comment starts with "Faulty variant" are not part of any
specification: each is what one definition would be with a plausible bug, and
shows that a property can fail.

## 3. The runs

| Run | Instance | Question |
| --- | --- | --- |
| `application` | 3 requests, 2 users, 3 events, 1 prior row, foreign keys | rows, payouts and answers in every interleaving; refinement of RewardPromise |
| `reward_flow` | 3 requests, 2 users, 1 event with two rewards, faults, no foreign keys | nobody is paid twice or without an approved row |
| `blockchain` | 3 jobs of all kinds, faults, fairness | nonces, replacement, lost replies, forgotten transactions; every call ends |
| `event` | 3 requests, 2 owners, 1 prior store and event | deletions during deployments, and which contracts they leave behind |
| `auth` | 3 requests, 2 addresses, 2 roles, 2 passwords | concurrent changes of one account |
| `seeder` | 2 starts, 2 specs, faults, fairness | crashes, timeouts and transactions without effect; what a seeded event has to give; a start comes to an end |
| `sessions` | 3 requests, 2 connections, 4 handlers, fairness | who waits, who is turned away, and with what already done |
| `listing` | 2 stores, 2 events, 4 applications, pages of 1 and 2 | totals, pages, `hasNext` and reviews among commits |
| `schema` | none: every command on both databases, interrupted anywhere | does the version tell the schema, does the head serve the models, and which commands are never refused |

Bounds. Every race in this code is between two requests about one row (two
inserts, an insert and a delete, two updates); the third request creates the
row or is the third party that deletes it. Two users or owners tell "mine" from
"somebody else's", and two events with a contract and without cover both ends
of `create_application`. Three jobs let a transaction replace another one while a
third has already read the nonce. Vaults hold one reward (payouts run dry) or
two (a double payment would not fail for want of money). Two connections for
three requests let one wait while two hold; the four handlers are one of each
sort, and the proof covers the other eighteen. Three applications of one event
make a full page and a rest, the fourth a second page of mine. The cfgs use
symmetry in requests where no liveness is checked. `Starts` bounds the restarts
in `Seeder`; nothing else is cut off, since requests, jobs and rows are finite.

The runs have between 210,000 and 1.6 million distinct states (`event`), `schema`
fewer.

What a request is told. `AnswersTellTheTruth` of ApplicationService speaks of 200,
of refusals, and of the reviewer who is approved and gets no payout (the lookup
of the reviewer fails after the commit): that one is answered 500 or not at all.
`ContractsAccountedFor` is the same for contracts: a refused request has
deployed nothing, and a deployed contract without an event is on its way to the
insert, or was followed by a 500 or no answer, or its event was deleted with a 200. That
contracts and payouts do get lost with a 500 is how the code works, and no
property denies it.

Deadlock is checked in every run: `Quiescent`, `AllQuiet` and `Rest` are the
states in which a server has nothing left to do; a client can always ask again,
and a database always be upgraded.

### What the code does otherwise than it is described

Each of these runs checks one statement of a document, a message or a test, and
TLC finds a behaviour of the code against it.

| Run | Statement | What happens |
| --- | --- | --- |
| `early_email` | e-mail after the payment (`README.md:52`) | it follows `send_raw_transaction`, not the receipt |
| `nonce_race` | an approved reviewer is paid automatically (`README.md:51`) | two payouts, nothing else, read one nonce: one is never mined |
| `reward_width` | "change reward to biginteger" (`39c458686144`, line 1) | both functions are `pass`: the column stays the INTEGER of `dd5d7eeaabd1` |

Further behaviours of the code that the models have and no run singles out:

* An event that is deleted while an image is validated makes the insert fail on
  the foreign key, and the reviewer who never applied is answered 409 "You have
  already applied" (`core/exceptions.py:46`, `application/repository_impl.py:91`).
  Without foreign keys the application of the deleted event is saved.
* A change of password whose old password was checked before another change or a
  reset committed overwrites the newer password.
* Two concurrent reviews of one application, or registrations of one address, end
  in an uncaught `IntegrityError` for the second: 500 instead of 409.
* Two concurrent validations of one code both succeed.
* Without an order a walk through the pages may show one row twice and another
  never, though it has as many rows as it should.
* On PostgreSQL an upgrade after a downgrade beyond `dd5d7eeaabd1` or
  `42fa0f495c60` is refused, since the enumeration types are still there; and
  seeding a migrated database is refused, since `deposits` refers to `users` and
  is not in the models' metadata. Both are rolled back and leave the database as it
  was. Migrations of a database that was seeded meet tables that no version tells
  of. On SQLite an upgrade that is interrupted cannot be repeated. `CommandsRun`
  says that no other command is refused.

The type invariants `TypeOK` are conjuncts of the inductive invariants the runs
check (`ApplicationInv`, `BlockchainInv` and so on); so are `OneReviewPerApplication`, `ReferencesHold`, `CatalogueConsistent`,
`OneUserPerEmail`, `AnswersFollowCommits` and `RowsOfTheAsker`, which have
theorems of their own.

### Fairness

Liveness assumes that a coroutine which can go on does: `WF` of `Resume`, each
job's or request's steps other than failing, and of the seeder's own steps. That
an await raises or a process dies is never assumed. `wait_for_transaction_receipt`
gives up after 120 seconds, so it returns or raises. In BlockchainService the
node also mines the transaction that is next, or `PayoutPays` would be violated by a
node that stands still; `StartupEnds` asks nothing of the miner. In Sessions nothing is assumed of the
pool's timeout: `EveryRequestEnds` holds though every waiting request waits
on, because no session that holds a connection waits for another and
requests are finitely many. That the database, the node and the mail server
(`smtplib.SMTP` without a timeout) answer or hang up is an assumption. Nothing is
assumed about requests arriving, owners deleting, codes expiring, faults or crashes.

## 4. The proofs

Eight modules named `...Proofs` hold the theorems; TLAPS checks every step of
them, for every value of the constants: any number of requests, jobs, users,
events, addresses, starts, connections and pages, and any tables stored at the
start that satisfy the named assumptions. Before a formula was proved TLC had
found it to hold: the inductive invariants (`ApplicationInv`, `BlockchainInv`,
`FlowInv`, `EventInv`, `AuthInv`, `SeederInv`, `SessionsInv`, `ListingInv`) are
invariants of the runs, except for `SchemaInv` of SchemaProofs, which was checked on
the state space of the run `schema` when it was written.

| Module | Theorems | What they say |
| --- | --- | --- |
| `RewardFlowProofs`, part one | `Invariance`, `UniqueRows`, `ReviewedOnce`, `PaidOncePerPair`, `PayoutsAreBacked`, `References`, `TruthfulAnswers`, `ApprovalsLast` | one application, one review, one payout per event and reviewer; foreign keys hold; answers are true; approved rows stay |
| | `ImplementsPromise` | the service refines RewardPromise |
| `BlockchainServiceProofs` | `Invariance`, `MinedExactly`, `ReturnsAreMined`, `NoGaps` | no call is mined twice, what returned is mined, no transaction waits behind a gap of nonces |
| `RewardFlowProofs`, part two | `FlowInvariance`, `PaidOnceInChain`, `PaidIsApproved`, `FlowImplementsPromise` | at most one release per approved pair is mined; the composition refines RewardPromise |
| `EventServiceProofs` | `Invariance`, `Consistent`, `CatalogueSafe`, `DeletionsLast`, `NoContractForgotten`, `OwnersDelete` | references, contracts and ownership through every deletion; no contract lost in silence |
| `AuthServiceProofs` | `Invariance`, `AccountsAreUnique`, `AnswersAreTrue`, `MailedPasswordsWereSet`, `RefusalsAreFree`, `PasswordsProven` | one account per address, answers and mailed passwords are true, nobody's password changes unproven |
| `SeederProofs` | `Invariance`, `CatalogueInOnePiece`, `AddressesAreMined`, `FundedOnce`, `RewardsAreThere` | a catalogue that is whole, with mined contracts, none funded twice, and with a reward exactly where both transactions had their effect |
| `SessionsProofs` | `Invariance`, `TurnedAway`, `CommitsFirst`, `PayoutsBounded` | the pool's account for all handlers; what a full pool leaves behind |
| `ListingProofs` | `Invariance`, `WalksAddUp`, `ReviewsListedWhole`, `OwnersOnly` | pages add up for every page size; reviews are whole; only owners list |
| `SchemaProofs` | `Invariance`, `HeadServes`, `VersionIsTrue`, `CommandsAreTaken` | the head serves the models after any history; migrations, and they alone, keep version and schema together; the commands that no database refuses |

**Assumptions.** `PriorRowsAssumption`, `PriorStoresAssumption`,
`PriorEventsAssumption` and `PriorUsersAssumption` say that the tables at the
start satisfy their own constraints and have no id that a request will draw;
`SecretsAssumption` says that a temporary password is not one that a user
chooses. The others type the constants. Foreign keys are a constant: `References`
and `Consistent` state what holds with them, everything else holds without.

**The argument.** No safety property here is inductive: a uniqueness of rows says
nothing about the request that stands before its insert. Each service has an
inductive invariant of named parts, of four sorts:

* *where a request stands*: `CallMatchesStage`, `WorkKnown`: the await
  belongs to the operation that was called, and an answer exists only at the end;
* *where data comes from*: `RowsHaveOrigin`, `EffectsHaveOrigin`,
  `ContractsHaveOrigin`, `UsersHaveOrigin`, `DrawnHaveOrigin`: a row named after
  a request carries that request's arguments, and the request is past its commit.
  This is what makes an insert fresh: a row with the id of a request that still
  stands at its insert would contradict it;
* *what was read and is used later*: `HeldIsThere`, `TargetsWereThere`,
  `OnlyPendingDeleted`, `NoncesRead`: the part of a check that an `await` cannot
  make stale (rows of users are never deleted, a nonce that was read is not above
  the next one to be mined). The part that can go stale is not in it: that is what the
  violation runs are about;
* *what was committed stays*: `SavedRowStays`, `CommittedStays`, `ChecksLast`,
  `UnsentHasNone`, `PendingIsNext`.

That `Init` implies it and one lemma per action give `Invariance`; the properties
follow from it, the action properties from it and one step. Steps that write no
table are handled once (`QuietStepInv`, `QuietInv`), and in AuthServiceProofs what
the tables owe to each request is stated for one request (`Owed`) and kept for all
others by `OthersKeep`.

A release is mined once per job, a job is submitted once per saved row, and a
row is unique per pair: `FlowInv` joins the invariants of both services by
`TasksAreScheduled`, and the steps of one service are stutters of the other.
Seeder's invariant contains BlockchainService's, instantiated: its steps for the
calls are steps of that module; `LoopKept` and `CallsAreNamed` tie the place in the
loop to the calls, `FundingsWait` and `SentAfterDeployed` give the order of a
contract's two transactions in the chain, and `EffectsKept` reads code and ether at an
address off the effects of exactly these two. In SessionsProofs each handler is shown
to be `Orderly` once, as a finite fact about its sequence; what a step does to
one request (`Account`) then needs no handler by name. In ListingProofs the
arithmetic of pages is two lemmas about integers (`MorePagesMoreRows`,
`PageEnds`), and `WalkCounted` says how far a walk has come at every statement.

Schema has no constants, and its proof is no more than its run in numbers. What
it adds is the reason: two facts about the files in `alembic/versions`,
`UpgradesBuild` (a statement of an upgrade makes what is not there, after what it
refers to) and `DowngradesTakeBack` (a statement of a downgrade takes what is
there, before what it refers to, and all statements together take exactly what the
upgrade made), and one about the reset (`KeysComeFirst`); a revision that
satisfies them can be added without any other change to the argument. `Exact` says
where between two versions the schema is, `Serving` what a reset in the middle has
dropped and created, `Unmixed` that no enumeration type is left over, and each of
them what PostgreSQL would go back to.

The refinements map initial states to initial states and each step to a step of
RewardPromise or to a stutter.

**Only model-checked.** Everything under fairness (`EveryJobSettles`,
`EveryRequestEnds`, `StartupEnds`), which TLAPS cannot treat; and the three
violation runs, whose counterexamples are TLC's. Every other property of a
passing run is a theorem.

## 5. What is not modelled

* Locks inside the database: a statement is atomic, and the wait of a DELETE for
  an insert that refers to its row is part of its guard.
* Amounts: a reward is one unit, or does not fit its column. The rounding of
  `float` ETH to wei is left out.
* The validity of tokens, addresses of wallets beyond accepted or refused, the
  prompt of the vision model, the signature of upload URLs, the text of e-mails,
  the filter by name in `list_stores` (the filter by category stands for both).
* The data in the tables while the schema changes, and the server serving at the
  same time: migrations are run by hand between two starts.
* Pydantic schemas, abstract interfaces and dependency injection, which have no
  behaviour of their own; deposits beyond their table, since no code uses it.

## 6. Plan

Done: the services, their composition, the seeder, sessions, listings and the
schema with their runs, and the proofs of section 4. What could be added:

1. EventService and ApplicationService over one set of tables, with the seeder's
   reset: `DeleteEvent` and `Apply` of each then become the real actions of the
   other, and payouts of an earlier start meet an empty database.
2. Amounts in wei: what a contract has to hold for all approved reviewers.
3. Sessions composed with BlockchainService: the bound `PayoutsFitPool` puts on
   the number of payouts racing for nonces.
