------------------------------- MODULE Seeder -------------------------------
(***************************************************************************)
(* The start of the server with SEED_DB set: lifespan of app/main.py and   *)
(* the class Seeder of app/db/seed.py, composed with BlockchainService.    *)
(* Each start empties the tables, then deploys and funds one contract      *)
(* after the other, and commits all rows at the end; requests are served   *)
(* only then.  What an earlier start left in the node's pool or in the     *)
(* chain is still there.                                                   *)
(***************************************************************************)
EXTENDS Naturals, Sequences, FiniteSets

CONSTANTS
    Specs,      \* the number of event_specs
    Starts,     \* bound on the starts of the process
    Faults      \* as in BlockchainService

ASSUME SeederAssumption ==
    /\ Specs \in Nat /\ Starts \in Nat
    /\ Faults \in BOOLEAN

\* The calls of deploy_contract and fund_contract: start, spec and kind.
SeedJobs   == (1 .. Starts) \X (1 .. Specs) \X {"deploy", "fund"}
NoContract == "NoContract"

VARIABLES
    start,      \* how often the process was started
    configured, \* whether this start found an RPC URL and a key
    at,         \* the await lifespan stands at
    spec,       \* the spec the loop of _seed is at
    added,      \* the events in the open session
    events      \* table events

VARIABLES job, phase, nonce, pool, chain, live, vault, notified

Bc == INSTANCE BlockchainService WITH
    Jobs <- SeedJobs, Kinds <- {"deploy", "fund"},
    PriorContracts <- {}, PriorVault <- [c \in {} |-> 0]

bcVars   == <<job, phase, nonce, pool, chain, live, vault, notified>>
seedVars == <<start, configured, at, spec, added, events>>
vars     == <<seedVars, bcVars>>

Places == {"down", "reset", "deploy", "awaitDeploy", "fund", "awaitFund",
           "commit", "serving"}
Rows   == [spec : 1 .. Specs, contract : SeedJobs \union {NoContract}]

Job(kind) == <<start, spec, kind>>

\* The deployment and the funding of the contract c.
Deployment(c) == <<c[1], c[2], "deploy">>
Funding(c)    == <<c[1], c[2], "fund">>

-----------------------------------------------------------------------------
Start ==
    /\ at = "down" /\ start < Starts
    /\ start' = start + 1
    /\ configured' \in BOOLEAN
    /\ at' = "reset"
    /\ UNCHANGED <<spec, added, events, bcVars>>

\* Where the loop goes on when it has done n specs.
Loop(n) ==
    /\ spec' = n + 1
    /\ at' = IF n = Specs THEN "commit" ELSE "deploy"

\* _reset: drop_all and create_all in one transaction.
Reset ==
    /\ at = "reset"
    /\ events' = {}
    /\ added' = {}
    /\ Loop(0)
    /\ UNCHANGED <<start, configured, bcVars>>

\* Faulty variant: every event is committed as soon as it is added.
CommitEach(contract) ==
    /\ added' = added \union {[spec |-> spec, contract |-> contract]}
    /\ events' = added'
    /\ Loop(spec)

AddEvent(contract) ==
    /\ added' = added \union {[spec |-> spec, contract |-> contract]}
    /\ Loop(spec)
    /\ UNCHANGED events

\* _deploy_contract: nothing to call without a blockchain service.
Deploy ==
    /\ at = "deploy"
    /\ UNCHANGED <<start, configured>>
    /\ \/ ~configured /\ AddEvent(NoContract) /\ UNCHANGED bcVars
       \/ /\ configured /\ Bc!Submit(Job("deploy"), "deploy", Job("deploy"))
          /\ at' = "awaitDeploy"
          /\ UNCHANGED <<spec, added, events>>

\* deploy_contract returns or raises; what it raises is logged and swallowed.
Deployed ==
    /\ at = "awaitDeploy"
    /\ \/ /\ phase[Job("deploy")] = "done"
          /\ at' = "fund"
          /\ UNCHANGED <<spec, added, events>>
       \/ phase[Job("deploy")] = "failed" /\ AddEvent(NoContract)
    /\ UNCHANGED <<start, configured, bcVars>>

\* _fund_contract
Fund ==
    /\ at = "fund"
    /\ Bc!Submit(Job("fund"), "fund", Job("deploy"))
    /\ at' = "awaitFund"
    /\ UNCHANGED <<start, configured, spec, added, events>>

\* Faulty variant: an event without money is never added.
UntilFunded ==
    /\ at = "awaitFund"
    /\ phase[Job("fund")] = "done"
    /\ AddEvent(Job("deploy"))
    /\ UNCHANGED <<start, configured, bcVars>>

\* fund_contract returns or raises: the event is added in either case.
Funded ==
    /\ at = "awaitFund"
    /\ phase[Job("fund")] \in {"done", "failed"}
    /\ AddEvent(Job("deploy"))
    /\ UNCHANGED <<start, configured, bcVars>>

Commit ==
    /\ at = "commit"
    /\ events' = added
    /\ at' = "serving"
    /\ UNCHANGED <<start, configured, spec, added, bcVars>>

\* The process dies, is stopped, or gives up because the database raises: the
\* session's transaction is rolled back.
Die ==
    /\ at # "down"
    /\ at' = "down"
    /\ configured' = FALSE
    /\ spec' = 1
    /\ added' = {}
    /\ \/ Bc!Crash
       \/ (\A j \in SeedJobs : ~Bc!Running(j)) /\ UNCHANGED bcVars
    /\ UNCHANGED <<start, events>>

RunJob   == (\E j \in SeedJobs : Bc!Step(j)) /\ UNCHANGED seedVars
NodeStep == (Bc!Mine \/ Bc!Drop) /\ UNCHANGED seedVars

\* The server serves, or will not be started any more.
Rest ==
    /\ at = "serving" \/ (at = "down" /\ start = Starts)
    /\ UNCHANGED vars

-----------------------------------------------------------------------------
Init ==
    /\ start = 0 /\ configured = FALSE /\ at = "down" /\ spec = 1 /\ added = {} /\ events = {}
    /\ Bc!Init

Progress == Start \/ Reset \/ Deploy \/ Deployed \/ Fund \/ Funded \/ Commit

Next == Progress \/ RunJob \/ NodeStep \/ Die \/ Rest

Spec == Init /\ [][Next]_vars

\* The coroutine of lifespan goes on, and so does the one call it waits for (see
\* JobFairness of BlockchainService).  Nothing is asked of the miner.
FairSpec ==
    /\ Spec
    /\ WF_vars(Progress)
    /\ WF_vars((\E j \in SeedJobs : Bc!Resume(j)) /\ UNCHANGED seedVars)

-----------------------------------------------------------------------------
(* Properties *)

\* The seeder's rows and its place in the loop.
TypeOK ==
    /\ start \in 0 .. Starts
    /\ configured \in BOOLEAN
    /\ at \in Places
    /\ spec \in 1 .. Specs + 1
    /\ added \subseteq Rows
    /\ events \subseteq Rows

\* The catalogue is committed in one piece: a crash between two deployments
\* leaves no half of it behind, and requests see all of it or no server.
CatalogueWhole ==
    /\ events = {} \/ {e.spec : e \in events} = 1 .. Specs
    /\ at = "serving" => {e.spec : e \in events} = 1 .. Specs
    /\ \A e, f \in events : e.spec = f.spec => e = f

\* An event's contract is one of the start that made the catalogue, its
\* deployment is mined, and no other event shares it.
ContractsMined ==
    /\ \A e \in events : e.contract # NoContract =>
          Bc!OnChain(e.contract) /\ e.contract[2] = e.spec
    /\ \A e, f \in events :
          e.contract # NoContract /\ f.contract # NoContract =>
             e.contract[1] = f.contract[1]

\* A contract receives one reward at most: neither a crash, a timeout nor the
\* next start of the server funds it again.
FundedAtMostOnce ==
    \A c \in SeedJobs : vault[c] <= 1

\* Ether is sent after the contract it is meant for was mined, also when the
\* call timed out and was given up.
SentAfterDeployed ==
    \A k \in DOMAIN chain : chain[k].job[3] = "fund" =>
        \E i \in 1 .. k - 1 : chain[i].job = Deployment(chain[k].job)

\* What a published event has to give.  That fund_contract returned or raised
\* does not tell, for no receipt's status is looked at and a timeout is no
\* refusal: there is a reward exactly when both transactions had their effect,
\* and what a returned funding sent went out after its contract was mined.
RewardToGive ==
    /\ SentAfterDeployed
    /\ \A e \in events : e.contract # NoContract =>
          /\ /\ e.contract \in live
             /\ vault[e.contract] = 1
             <=> Bc!Effected(e.contract) /\ Bc!Effected(Funding(e.contract))
          /\ phase[Funding(e.contract)] = "done" =>
                Bc!OnChain(Funding(e.contract))

\* A start of the server comes to an end, though transactions of this or an
\* earlier start may never be mined.
StartupEnds == at = "reset" ~> at \in {"serving", "down"}

-----------------------------------------------------------------------------
(* The inductive invariant: what the session holds is what the loop has     *)
(* done, and the calls of the loop are one deployment and one funding each. *)

LoopPlaces == {"deploy", "awaitDeploy", "fund", "awaitFund"}

\* The loop has added one event for each spec it is past, a contract goes on to
\* be funded only when its deployment has returned, and nothing outlives Die.
LoopKept ==
    /\ at # "down" => start >= 1
    /\ at \in LoopPlaces => spec <= Specs
    /\ at = "commit" => spec = Specs + 1
    /\ at \in LoopPlaces \union {"commit"} =>
          {e.spec : e \in added} = 1 .. spec - 1
    /\ at \in {"fund", "awaitFund"} => phase[Job("deploy")] = "done"
    /\ at \in {"down", "reset"} => added = {}

\* The events of the session are of this start, each with a mined contract.
AddedMined ==
    /\ \A e, f \in added : e.spec = f.spec => e = f
    /\ \A e \in added : e.contract # NoContract =>
          Bc!OnChain(e.contract) /\ e.contract = <<start, e.spec, "deploy">>

\* A call that was made has the work its name says.
CallsAreNamed ==
    \A j \in SeedJobs : phase[j] # "idle" =>
        job[j] = [kind |-> j[3], contract |-> Deployment(j)]

\* No call funds a contract before its deployment is mined.
FundingsWait ==
    \A j \in SeedJobs : phase[j] # "idle" /\ j[3] = "fund" =>
        Bc!OnChain(Deployment(j))

\* An address holds what the one call that funds it brought, and has code if its
\* deployment brought that.
EffectsKept ==
    \A c \in SeedJobs :
        /\ vault[c] = IF c[3] = "deploy" /\ Bc!Effected(Funding(c)) THEN 1 ELSE 0
        /\ c \in live <=> c[3] = "deploy" /\ Bc!Effected(c)

\* An event of the table has the contract that was deployed for it.
EventsOwnContracts ==
    \A e \in events : e.contract # NoContract =>
        e.contract = <<e.contract[1], e.spec, "deploy">>

\* Inductive: what lifespan, the blockchain service and a death keep.
SeederInv ==
    /\ TypeOK
    /\ Bc!BlockchainInv
    /\ LoopKept
    /\ AddedMined
    /\ CallsAreNamed
    /\ FundingsWait
    /\ SentAfterDeployed
    /\ EffectsKept
    /\ EventsOwnContracts
    /\ CatalogueWhole
    /\ ContractsMined
=============================================================================
