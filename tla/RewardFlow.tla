----------------------------- MODULE RewardFlow -----------------------------
(***************************************************************************)
(* From an application to the money: ApplicationService composed with      *)
(* BlockchainService.  The request that saves an approved application      *)
(* hands payout_safe to BackgroundTasks (application/service_impl.py:92),  *)
(* which is a job of the blockchain service named after the request; each  *)
(* event with a contract_address is its contract.  Both live in the one    *)
(* process, so they die together.                                          *)
(***************************************************************************)
EXTENDS ApplicationService, Sequences

CONSTANTS PriorVault, Faults

VARIABLES job, phase, nonce, pool, chain, live, vault, notified

Bc == INSTANCE BlockchainService WITH
    Jobs <- Requests, Kinds <- {"payout"}, PriorContracts <- ContractEvents

bcVars   == <<job, phase, nonce, pool, chain, live, vault, notified>>
flowVars == <<vars, bcVars>>

\* An event is not a request: both name contracts of the blockchain service.
ASSUME FlowAssumption ==
    /\ IsFiniteSet(Requests)
    /\ Events \intersect Requests = {}
    /\ PriorVault \in [ContractEvents -> Nat]
    /\ Faults \in BOOLEAN

\* The awaits of the request handlers other than the end of create_application.
ServeRequest(r) ==
    /\ \/ Arrive(r) \/ RequestFails(r)
       \/ FindEvent(r) \/ FindExisting(r) \/ ValidateImage(r)
       \/ SaveApplication(r) \/ FindApplication(r) \/ DeleteApplication(r)
       \/ FindSubmission(r) \/ SaveReview(r)
    /\ UNCHANGED bcVars

\* add_task(payout_safe, event.contract_address, ...), then the answer.
SchedulePayout(r) ==
    AddPayoutTask(r) /\ Bc!Submit(r, "payout", call[r].target)

RunTask(r) == Bc!Step(r) /\ UNCHANGED vars

\* The node mines and forgets on its own, also while the server is down.
NodeStep == (Bc!Mine \/ Bc!Drop) /\ UNCHANGED vars

OwnerDeletes == (\E e \in Events : DeleteEvent(e)) /\ UNCHANGED bcVars

ProcessDies ==
    \/ Crash /\ Bc!Crash
    \/ Crash /\ (\A r \in Requests : ~Bc!Running(r)) /\ UNCHANGED bcVars
    \/ (\A r \in Requests : ~Active(r)) /\ UNCHANGED vars /\ Bc!Crash

\* Everything is answered and over.  A job that was never submitted stays idle.
AllQuiet ==
    /\ Quiescent
    /\ \A r \in Requests : ~Bc!Running(r)
    /\ pool = {}
    /\ UNCHANGED bcVars

FlowInit == Init /\ Bc!Init

FlowNext ==
    \/ \E r \in Requests : ServeRequest(r) \/ SchedulePayout(r) \/ RunTask(r)
    \/ NodeStep \/ OwnerDeletes \/ ProcessDies \/ AllQuiet

FlowSpec == FlowInit /\ [][FlowNext]_flowVars

-----------------------------------------------------------------------------
(* Properties *)

\* The pair a request applied for.
PairOf(r) == <<call[r].target, call[r].user>>

PaidAt(i) == chain[i].effect

\* A reviewer receives the reward of an event at most once: neither two
\* applications nor two transactions of one application pay twice.
PaidAtMostOnce ==
    \A i, k \in DOMAIN chain :
        /\ PaidAt(i) /\ PaidAt(k)
        /\ PairOf(chain[i].job) = PairOf(chain[k].job)
        => i = k

\* Whoever was paid, or has a transaction on its way, still has the approved
\* application it is for.
PaidForApplication ==
    /\ \A i \in DOMAIN chain : NewRow(chain[i].job) \in applications
    /\ \A t \in pool : NewRow(t.job) \in applications

\* What reaches the reviewers keeps the promise: pairs are approved by their
\* rows and paid by the transactions in the chain.
Reward == INSTANCE RewardPromise WITH
    Pairs    <- Events \X Users,
    Tokens   <- 1 .. Cardinality(Requests),
    approved <- {Pair(row) : row \in {x \in applications : x.status = "APPROVED"}},
    payments <- {<<PairOf(chain[i].job), i>> : i \in {k \in DOMAIN chain : PaidAt(k)}}

\* The whole path from request to transaction implements the promise.
RewardKept == Reward!Spec

-----------------------------------------------------------------------------
(* The inductive invariant: those of the two services, and their link.     *)

\* A background task runs for every scheduled payout and for nothing else.
TasksAreScheduled ==
    \A r \in Requests :
        /\ phase[r] # "idle" <=> \E p \in payouts : p.application = r
        /\ phase[r] # "idle" =>
              job[r] = [kind |-> "payout", contract |-> call[r].target]

\* Inductive: the requests of ApplicationService and the jobs they schedule keep
\* both invariants and the link between them, crashes included.
FlowInv ==
    /\ ApplicationInv
    /\ Bc!BlockchainInv
    /\ TasksAreScheduled
=============================================================================
