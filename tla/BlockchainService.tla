------------------------- MODULE BlockchainService -------------------------
(***************************************************************************)
(* The transactions of the server's Ethereum account:                      *)
(* app/blockchain/service_impl.py (deploy_contract, fund_contract, payout, *)
(* payout_safe), app/email/service_impl.py (send_email), and the node      *)
(* behind BLOCKCHAIN_RPC_URL as that code uses it.                         *)
(*                                                                         *)
(* A job is one call of deploy_contract, fund_contract or payout_safe.  All*)
(* jobs sign with the one server key, and nothing orders them: each asks   *)
(* the node for the next nonce, builds a transaction, and sends it, with   *)
(* an await between any two of these.                                      *)
(***************************************************************************)
EXTENDS Naturals, Sequences, FiniteSets

CONSTANTS
    Jobs,           \* the calls of the service in one run of the server
    Kinds,          \* what they are: deploy_contract, fund_contract, payout_safe
    PriorContracts, \* the contracts deployed before
    PriorVault,     \* the rewards each of them holds
    Faults          \* TRUE: RPC calls fail, replies get lost, the process dies,
                    \* the node forgets a pending transaction, gas runs out

\* A contract deployed by a job is named after it.
Contracts == PriorContracts \union Jobs

ASSUME KindsAssumption == Kinds \subseteq {"deploy", "fund", "payout"}

ASSUME PriorContractsAssumption ==
    /\ PriorContracts \intersect Jobs = {}
    /\ PriorVault \in [PriorContracts -> Nat]

ASSUME FaultsAssumption == Faults \in BOOLEAN

VARIABLES
    job,        \* what each job does: its kind and its contract
    phase,      \* the await each job stands at
    nonce,      \* the nonce each job has read and not signed with yet
    pool,       \* the node's pending transactions of the account
    chain,      \* its mined transactions, oldest first
    live,       \* the contracts that have code
    vault,      \* the rewards at each address, with code or without
    notified    \* the payouts whose reviewer was sent the e-mail "paid"

node == <<pool, chain, live, vault>>
vars == <<job, phase, nonce, node, notified>>

NoJob  == [kind |-> "none"]
Works  == [kind : Kinds, contract : Contracts]
Phases == {"idle", "readNonce", "sendTx", "receipt", "balance", "email",
           "done", "failed", "lost"}

\* effect: the transaction did what it is for.  A payout pays exactly then.
Mined == [job : Jobs, effect : BOOLEAN]

Settled(j) == phase[j] \in {"done", "failed", "lost"}
Running(j) == phase[j] # "idle" /\ ~Settled(j)

OnChain(j)  == \E i \in DOMAIN chain : chain[i].job = j
Effected(j) == \E i \in DOMAIN chain : chain[i].job = j /\ chain[i].effect

\* get_transaction_count(address): the block is "latest", so transactions
\* that are still pending do not count.
TransactionCount == Len(chain)

Enter(j, p) == phase' = [phase EXCEPT ![j] = p]

\* The nonce is a local of the call.
ForgetNonce(j) == nonce' = [nonce EXCEPT ![j] = 0]

-----------------------------------------------------------------------------
(* The service *)

\* Only the seeder funds.  It awaits one call after the other, and a server that
\* starts serves no request before: a funding runs beside no other call.
FundsAlone(kind) ==
    \A k \in Jobs : Running(k) => kind # "fund" /\ job[k].kind # "fund"

\* create_event and the seeder deploy, the seeder funds, and the background
\* task of an approved application pays out.  An address is known once its
\* deployment has returned.
Submit(j, kind, c) ==
    /\ phase[j] = "idle"
    /\ FundsAlone(kind)
    /\ IF kind = "deploy"
         THEN c = j
         ELSE c \in PriorContracts \union
                    {d \in Jobs : job[d].kind = "deploy" /\ phase[d] = "done"}
    /\ job' = [job EXCEPT ![j] = [kind |-> kind, contract |-> c]]
    /\ Enter(j, "readNonce")
    /\ UNCHANGED <<nonce, node, notified>>

\* Faulty variant: the nonce of the block "pending".
ReadPendingNonce(j) ==
    /\ phase[j] = "readNonce"
    /\ nonce' = [nonce EXCEPT ![j] = TransactionCount + Cardinality(pool)]
    /\ Enter(j, "sendTx")
    /\ UNCHANGED <<job, node, notified>>

ReadNonce(j) ==
    /\ phase[j] = "readNonce"
    /\ nonce' = [nonce EXCEPT ![j] = TransactionCount]
    /\ Enter(j, "sendTx")
    /\ UNCHANGED <<job, node, notified>>

\* Faulty variant: no job waits for its receipt.
NobodyWaits(j) == IF job[j].kind = "payout" THEN "balance" ELSE "done"

\* deploy_contract and fund_contract wait for the receipt; payout does not.
AfterSend(j) == IF job[j].kind = "payout" THEN "balance" ELSE "receipt"

SameNonce(j) == {t \in pool : t.nonce = nonce[j]}

\* Faulty variant: a job whose reply is lost signs and sends once more.
SendAgain(j) ==
    /\ phase[j] = "sendTx"
    /\ nonce[j] >= TransactionCount
    /\ pool' = (pool \ SameNonce(j)) \union {[job |-> j, nonce |-> nonce[j]]}
    /\ \/ Enter(j, AfterSend(j))
       \/ Faults /\ Enter(j, "readNonce")
    /\ ForgetNonce(j)
    /\ UNCHANGED <<job, chain, live, vault, notified>>

\* send_raw_transaction takes a transaction into the pool.  It replaces one
\* that is pending under the same nonce when it pays more for its gas.
Send(j) ==
    /\ phase[j] = "sendTx"
    /\ nonce[j] >= TransactionCount
    /\ pool' = (pool \ SameNonce(j)) \union {[job |-> j, nonce |-> nonce[j]]}
    /\ \/ Enter(j, AfterSend(j))
       \/ Faults /\ Enter(j, "failed")      \* the reply is lost
    /\ ForgetNonce(j)
    /\ UNCHANGED <<job, chain, live, vault, notified>>

\* The node refuses: "nonce too low", or "replacement transaction
\* underpriced" or "already known".  No caller sends a second time.
SendRejected(j) ==
    /\ phase[j] = "sendTx"
    /\ nonce[j] < TransactionCount \/ SameNonce(j) # {}
    /\ Enter(j, "failed")
    /\ ForgetNonce(j)
    /\ UNCHANGED <<job, node, notified>>

\* wait_for_transaction_receipt returns.  The receipt's status is not looked
\* at: a failed deployment has a contractAddress, a failed funding a hash.
Receipt(j) ==
    /\ phase[j] = "receipt"
    /\ OnChain(j)
    /\ Enter(j, "done")
    /\ UNCHANGED <<job, nonce, node, notified>>

\* Faulty variant: wait_for_transaction_receipt polls without a timeout.
PollForever(j) ==
    /\ phase[j] = "receipt"
    /\ ~OnChain(j)
    /\ UNCHANGED vars

\* TimeExhausted: no receipt in wait_for_transaction_receipt's 120 seconds.
ReceiptTimeout(j) ==
    /\ phase[j] = "receipt"
    /\ ~OnChain(j)
    /\ Enter(j, "failed")
    /\ UNCHANGED <<job, nonce, node, notified>>

\* payout_safe asks for the wallet's balance to put it in the e-mail.
ReadBalance(j) ==
    /\ phase[j] = "balance"
    /\ Enter(j, "email")
    /\ UNCHANGED <<job, nonce, node, notified>>

\* send_email: sent, or skipped because no SMTP credentials are set.
SendEmail(j) ==
    /\ phase[j] = "email"
    /\ notified' \in {notified, notified \union {j}}
    /\ Enter(j, "done")
    /\ UNCHANGED <<job, nonce, node>>

\* An await raises: create_event answers 500; payout_safe and the seeder log it.
Fail(j) ==
    /\ Faults /\ Running(j)
    /\ Enter(j, "failed")
    /\ ForgetNonce(j)
    /\ UNCHANGED <<job, node, notified>>

\* The process dies.  Jobs are kept nowhere; what was sent stays sent.
Crash ==
    /\ Faults
    /\ \E j \in Jobs : Running(j)
    /\ phase' = [j \in Jobs |-> IF Running(j) THEN "lost" ELSE phase[j]]
    /\ nonce' = [j \in Jobs |-> IF Running(j) THEN 0 ELSE nonce[j]]
    /\ UNCHANGED <<job, node, notified>>

-----------------------------------------------------------------------------
(* The node (external), one account's transactions in the order of nonces  *)

\* A deployment may be mined without effect (it ran out of gas), and so may a
\* funding: deploy_contract fixes 500000 gas, fund_contract 100000.  The contract
\* ReviewReward: release pays out of its own balance or reverts.  An address
\* without code takes ether, and a release sent to it pays nothing.
Execute(j, ok) ==
    LET c == job[j].contract
    IN  \/ /\ job[j].kind = "deploy"
           /\ ok \/ Faults
           /\ live' = IF ok THEN live \union {c} ELSE live
           /\ UNCHANGED vault
        \/ /\ job[j].kind = "fund"
           /\ ok \/ Faults
           /\ vault' = IF ok THEN [vault EXCEPT ![c] = @ + 1] ELSE vault
           /\ UNCHANGED live
        \/ /\ job[j].kind = "payout"
           /\ ok = (c \in live /\ vault[c] > 0)
           /\ vault' = IF ok THEN [vault EXCEPT ![c] = @ - 1] ELSE vault
           /\ UNCHANGED live

Mine ==
    \E t \in pool, ok \in BOOLEAN :
        /\ t.nonce = Len(chain)
        /\ Execute(t.job, ok)
        /\ chain' = Append(chain, [job |-> t.job, effect |-> ok])
        /\ pool' = pool \ {t}
        /\ UNCHANGED <<job, phase, nonce, notified>>

\* The node forgets a pending transaction.
Drop ==
    /\ Faults
    /\ \E t \in pool : pool' = pool \ {t}
    /\ UNCHANGED <<job, phase, nonce, chain, live, vault, notified>>

-----------------------------------------------------------------------------
Init ==
    /\ job = [j \in Jobs |-> NoJob]
    /\ phase = [j \in Jobs |-> "idle"]
    /\ nonce = [j \in Jobs |-> 0]
    /\ pool = {}
    /\ chain = <<>>
    /\ live = PriorContracts
    /\ vault = [c \in Contracts |-> IF c \in PriorContracts THEN PriorVault[c]
                                                            ELSE 0]
    /\ notified = {}

\* The await of j returns, or gives up as the client does after its time.
Resume(j) ==
    \/ ReadNonce(j) \/ Send(j) \/ SendRejected(j) \/ Receipt(j)
    \/ ReceiptTimeout(j) \/ ReadBalance(j) \/ SendEmail(j)

Step(j) == Resume(j) \/ Fail(j)

\* Every job is over and nothing is pending.
Quiescent ==
    /\ \A j \in Jobs : Settled(j)
    /\ pool = {}
    /\ UNCHANGED vars

Next ==
    \/ \E j \in Jobs : \/ \E kind \in Kinds, c \in Contracts : Submit(j, kind, c)
                       \/ Step(j)
    \/ Mine \/ Drop \/ Crash \/ Quiescent

Spec == Init /\ [][Next]_vars

\* Every await of a job comes to an end without the help of a fault: the RPC
\* calls have timeouts and so has wait_for_transaction_receipt.  smtplib has
\* none: that the mail server answers or hangs up is an assumption.
JobFairness == \A j \in Jobs : WF_vars(Resume(j))

\* The node goes on mining what is pending.
NodeFairness == WF_vars(Mine)

FairSpec == Spec /\ JobFairness /\ NodeFairness
-----------------------------------------------------------------------------
(* Properties *)

\* What payout, deploy_contract and fund_contract keep in their locals, and what
\* the node holds: nonces and rewards are never negative.
TypeOK ==
    /\ job \in [Jobs -> Works \union {NoJob}]
    /\ phase \in [Jobs -> Phases]
    /\ nonce \in [Jobs -> Nat]
    /\ pool \subseteq [job : Jobs, nonce : Nat]
    /\ chain \in Seq(Mined)
    /\ live \subseteq Contracts
    /\ vault \in [Contracts -> Nat]
    /\ notified \subseteq Jobs

\* A job is mined at most once, whatever is lost, replaced or forgotten on the
\* way: no caller of payout, deploy_contract or fund_contract retries.
MinedOnce ==
    \A i, k \in DOMAIN chain : chain[i].job = chain[k].job => i = k

\* No transaction waits for a nonce that nothing pending has: get_transaction_
\* count leaves pending transactions out, so a forgotten one makes no gap.
NoStuckTransaction ==
    \A t \in pool : \A n \in Len(chain) .. (t.nonce - 1) :
        \E u \in pool : u.nonce = n

\* When deploy_contract or fund_contract returns, its transaction is mined:
\* create_event stores an address only of a deployment in the chain.
ReturnedMeansMined ==
    \A j \in Jobs :
        phase[j] = "done" /\ job[j].kind \in {"deploy", "fund"} => OnChain(j)

\* Every job comes to an end, also when its transaction is never mined.
EveryJobSettles ==
    \A j \in Jobs : Running(j) ~> Settled(j)

\* README.md:52: the e-mail is sent after the payment is complete.
NotifiedMeansPaid ==
    \A j \in notified : Effected(j)

\* README.md:51: the reviewer of an approved application is paid automatically.
PayoutPays ==
    \A j \in Jobs :
        Running(j) /\ job[j].kind = "payout" ~> Effected(j)

-----------------------------------------------------------------------------
(* The inductive invariant: a job that has not sent yet has no transaction, *)
(* a mined job has no other one, and the one pending transaction is next.   *)

\* Before send_raw_transaction nothing of a job is pending or mined.
UnsentHasNone ==
    \A j \in Jobs : phase[j] \in {"idle", "readNonce", "sendTx"} =>
        /\ ~OnChain(j)
        /\ \A t \in pool : t.job # j

\* All jobs read the nonce of block "latest", so they compete for one: at most
\* one transaction is pending, the one to be mined next.
PendingIsNext ==
    /\ \A t \in pool : t.nonce = Len(chain) /\ ~OnChain(t.job)
    /\ \A t, u \in pool : t = u

\* The chain only grows after a nonce was read.
NoncesRead ==
    \A j \in Jobs : phase[j] = "sendTx" => nonce[j] <= Len(chain)

\* A running job knows its work, and only payout_safe goes on to balance and
\* e-mail.
WorkKnown ==
    \A j \in Jobs :
        /\ phase[j] # "idle" => job[j] \in Works
        /\ phase[j] \in {"balance", "email"} => job[j].kind = "payout"

\* Inductive: the steps of the service, the node and a crash keep all of this.
BlockchainInv ==
    /\ TypeOK
    /\ WorkKnown
    /\ UnsentHasNone
    /\ PendingIsNext
    /\ NoncesRead
    /\ MinedOnce
    /\ ReturnedMeansMined
=============================================================================
