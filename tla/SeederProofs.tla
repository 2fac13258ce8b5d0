---------------------------- MODULE SeederProofs ----------------------------
(***************************************************************************)
(* Seeder for every number of event_specs and of starts, with and without  *)
(* faults: the catalogue is there in one piece or not at all, its          *)
(* contracts are mined, and each of them is funded once at most.           *)
(***************************************************************************)
EXTENDS Seeder, TLAPS

\* The blockchain service of the seeder once more, with its lemmas.
BcP == INSTANCE BlockchainServiceProofs WITH
    Jobs <- SeedJobs, Kinds <- {"deploy", "fund"},
    PriorContracts <- {}, PriorVault <- [c \in {} |-> 0]

(***************************************************************************)
(* Bc and BcP are instances of the same definitions.                       *)
(***************************************************************************)
LEMMA SameInv == Bc!BlockchainInv <=> BcP!BlockchainInv
BY DEF Bc!BlockchainInv, BcP!BlockchainInv, Bc!TypeOK, BcP!TypeOK, Bc!WorkKnown, BcP!WorkKnown,
       Bc!UnsentHasNone, BcP!UnsentHasNone, Bc!PendingIsNext, BcP!PendingIsNext,
       Bc!NoncesRead, BcP!NoncesRead, Bc!MinedOnce, BcP!MinedOnce,
       Bc!ReturnedMeansMined, BcP!ReturnedMeansMined, Bc!OnChain, BcP!OnChain,
       Bc!Works, BcP!Works, Bc!Contracts, BcP!Contracts,
       Bc!NoJob, BcP!NoJob, Bc!Phases, BcP!Phases, Bc!Mined, BcP!Mined

\* The helpers of the blockchain service agree.
LEMMA SameHelpers ==
    \A j : /\ Bc!OnChain(j) <=> BcP!OnChain(j)
           /\ Bc!Running(j) <=> BcP!Running(j)
           /\ Bc!AfterSend(j) = BcP!AfterSend(j)
           /\ Bc!SameNonce(j) = BcP!SameNonce(j)
BY DEF Bc!OnChain, BcP!OnChain, Bc!Running, BcP!Running, Bc!Settled, BcP!Settled,
       Bc!AfterSend, BcP!AfterSend, Bc!SameNonce, BcP!SameNonce

\* The initial states agree.
LEMMA SameInit == Bc!Init <=> BcP!Init
BY DEF Bc!Init, BcP!Init, Bc!NoJob, BcP!NoJob, Bc!Contracts, BcP!Contracts

\* The steps of a call agree.
LEMMA SameStep ==
    ASSUME NEW j \in SeedJobs
    PROVE  Bc!Step(j) <=> BcP!Step(j)
BY SameHelpers
DEF Bc!Step, BcP!Step, Bc!Resume, BcP!Resume, Bc!ReadNonce, BcP!ReadNonce,
    Bc!Send, BcP!Send, Bc!SendRejected, BcP!SendRejected, Bc!Receipt, BcP!Receipt,
    Bc!ReceiptTimeout, BcP!ReceiptTimeout, Bc!ReadBalance, BcP!ReadBalance,
    Bc!SendEmail, BcP!SendEmail, Bc!Fail, BcP!Fail, Bc!Enter, BcP!Enter,
    Bc!ForgetNonce, BcP!ForgetNonce,
    Bc!TransactionCount, BcP!TransactionCount, Bc!node, BcP!node

\* A new call agrees.
LEMMA SameSubmit ==
    ASSUME NEW j, NEW kind, NEW c
    PROVE  Bc!Submit(j, kind, c) <=> BcP!Submit(j, kind, c)
BY SameHelpers
DEF Bc!Submit, BcP!Submit, Bc!FundsAlone, BcP!FundsAlone, Bc!Enter, BcP!Enter, Bc!node, BcP!node

\* The node and the death of the process agree.
LEMMA SameRest ==
    /\ Bc!Mine <=> BcP!Mine
    /\ Bc!Drop <=> BcP!Drop
    /\ Bc!Crash <=> BcP!Crash
<1>1. Bc!Mine <=> BcP!Mine
  BY DEF Bc!Mine, BcP!Mine, Bc!Execute, BcP!Execute
<1>2. (Bc!Drop <=> BcP!Drop) /\ (Bc!Crash <=> BcP!Crash)
  BY SameHelpers DEF Bc!Drop, BcP!Drop, Bc!Crash, BcP!Crash, Bc!node, BcP!node
<1>3. QED
  BY <1>1, <1>2

\* The deployment and the funding of a spec.
Calls(j, c) ==
    \/ Bc!Submit(j, "deploy", j) /\ c = j
    \/ Bc!Submit(j, "fund", c)

\* The steps of the blockchain service that a start is made of.
BcStep ==
    \/ \E j \in SeedJobs : Bc!Step(j)
    \/ \E j \in SeedJobs, c \in SeedJobs : Calls(j, c)
    \/ Bc!Mine \/ Bc!Drop \/ Bc!Crash \/ UNCHANGED bcVars

\* The seeder's instance satisfies what the service assumes of its constants.
LEMMA BcAssumptions ==
    /\ {"deploy", "fund"} \subseteq {"deploy", "fund", "payout"}
    /\ {} \intersect SeedJobs = {}
    /\ [c \in {} |-> 0] \in [{} -> Nat]
    /\ Faults \in BOOLEAN
BY SeederAssumption

\* The steps a start takes in the blockchain service keep its invariant.
LEMMA BcKeepsInv ==
    ASSUME Bc!BlockchainInv, BcStep
    PROVE  Bc!BlockchainInv'
<1>1. BcP!BlockchainInv /\ [BcP!Next]_(BcP!vars) => BcP!BlockchainInv'
  BY BcP!NextInv, BcAssumptions
<1>2. Bc!BlockchainInv' <=> BcP!BlockchainInv'
  BY SameInv, PTL
<1>3. [BcP!Next]_(BcP!vars)
  <2>1. ASSUME NEW j \in SeedJobs, Bc!Step(j) PROVE BcP!Next
    BY <2>1, SameStep DEF BcP!Next
  <2>2. ASSUME NEW j \in SeedJobs, NEW c \in SeedJobs, Calls(j, c)
        PROVE  BcP!Next
    <3>1. CASE Bc!Submit(j, "deploy", j) /\ c = j
      BY <3>1, SameSubmit DEF BcP!Next, BcP!Contracts
    <3>2. CASE Bc!Submit(j, "fund", c)
      BY <3>2, SameSubmit DEF BcP!Next, BcP!Contracts
    <3>3. QED
      BY <2>2, <3>1, <3>2 DEF Calls
  <2>3. ASSUME Bc!Mine \/ Bc!Drop \/ Bc!Crash PROVE BcP!Next
    BY <2>3, SameRest DEF BcP!Next
  <2>4. ASSUME UNCHANGED bcVars PROVE UNCHANGED BcP!vars
    BY <2>4 DEF bcVars, BcP!vars, BcP!node
  <2>5. QED
    BY <2>1, <2>2, <2>3, <2>4 DEF BcStep
<1>4. QED
  BY <1>1, <1>2, <1>3, SameInv

(***************************************************************************)
(* What the steps of the blockchain service do to calls and vaults.        *)
(***************************************************************************)
\* A running call goes on; it is neither unmade nor done before.
LEMMA RunLocal ==
    ASSUME NEW j \in SeedJobs, Bc!Step(j)
    PROVE  /\ UNCHANGED <<job, chain, live, vault>>
           /\ phase[j] \notin {"idle", "done"}
           /\ \E p : p # "idle" /\ phase' = [phase EXCEPT ![j] = p]
BY DEF Bc!Step, Bc!Resume, Bc!ReadNonce, Bc!Send, Bc!SendRejected, Bc!Receipt,
       Bc!ReceiptTimeout, Bc!ReadBalance, Bc!SendEmail, Bc!Fail, Bc!Enter,
       Bc!AfterSend, Bc!Running, Bc!Settled, Bc!node

\* What is mined stays mined, and what has returned has returned.
LEMMA Lasting ==
    ASSUME Bc!BlockchainInv, BcStep, NEW j \in SeedJobs
    PROVE  /\ Bc!OnChain(j) => Bc!OnChain(j)'
           /\ phase[j] = "done" => phase'[j] = "done"
<1>0. chain \in Seq(Bc!Mined) /\ phase \in [SeedJobs -> Bc!Phases]
  BY DEF Bc!BlockchainInv, Bc!TypeOK
<1>1. CASE \E k \in SeedJobs : Bc!Step(k)
  BY <1>0, <1>1, RunLocal DEF Bc!OnChain
<1>2. CASE \E k \in SeedJobs, c \in SeedJobs : Calls(k, c)
  BY <1>0, <1>2 DEF Calls, Bc!Submit, Bc!Enter, Bc!OnChain, Bc!node
<1>3. CASE Bc!Mine
  <2>1. PICK m : chain' = Append(chain, m)
    BY <1>3 DEF Bc!Mine
  <2>2. \A i \in DOMAIN chain : i \in DOMAIN chain' /\ chain'[i] = chain[i]
    BY <1>0, <2>1
  <2>3. phase' = phase
    BY <1>3 DEF Bc!Mine
  <2>4. QED
    BY <2>2, <2>3 DEF Bc!OnChain
<1>4. CASE Bc!Drop \/ Bc!Crash \/ UNCHANGED bcVars
  BY <1>0, <1>4
  DEF Bc!Drop, Bc!Crash, bcVars, Bc!OnChain, Bc!Running, Bc!Settled, Bc!node
<1>5. QED
  BY <1>1, <1>2, <1>3, <1>4 DEF BcStep

\* The calls of the spec the loop is at.
LEMMA JobsOfLoop ==
    ASSUME TypeOK, LoopKept, at \in LoopPlaces, NEW k \in {"deploy", "fund"}
    PROVE  Job(k) \in SeedJobs /\ start \in 1 .. Starts /\ spec \in 1 .. Specs
<1>1. start \in 1 .. Starts /\ spec \in 1 .. Specs
  BY SeederAssumption DEF TypeOK, LoopKept, LoopPlaces
<1>2. QED
  BY <1>1 DEF Job, SeedJobs

\* Every step of a start is a step of the blockchain service, or none of it.
LEMMA NextIsBc ==
    ASSUME TypeOK, LoopKept, [Next]_vars
    PROVE  BcStep
<1>1. CASE Deploy
  <2>1. Job("deploy") \in SeedJobs
    BY <1>1, JobsOfLoop DEF Deploy, LoopPlaces
  <2>2. QED
    BY <1>1, <2>1 DEF Deploy, BcStep, Calls
<1>2. CASE Fund
  <2>1. Job("deploy") \in SeedJobs /\ Job("fund") \in SeedJobs
    BY <1>2, JobsOfLoop DEF Fund, LoopPlaces
  <2>2. QED
    BY <1>2, <2>1 DEF Fund, BcStep, Calls
<1>3. CASE Start \/ Reset \/ Deployed \/ Funded \/ Commit \/ Rest \/ UNCHANGED vars
  BY <1>3 DEF Start, Reset, Deployed, Funded, Commit, Rest, vars, BcStep
<1>4. CASE RunJob \/ NodeStep \/ Die
  BY <1>4 DEF RunJob, NodeStep, Die, BcStep
<1>5. QED
  BY <1>1, <1>2, <1>3, <1>4 DEF Next, Progress

(***************************************************************************)
(* Calls and vaults.                                                       *)
(***************************************************************************)
\* A call is given its work when it is made, and keeps it.
LEMMA NamedKept ==
    ASSUME SeederInv, [Next]_vars
    PROVE  CallsAreNamed'
<1>0. /\ phase \in [SeedJobs -> Bc!Phases]
      /\ job \in [SeedJobs -> Bc!Works \union {Bc!NoJob}]
      /\ TypeOK /\ LoopKept /\ CallsAreNamed
  BY DEF SeederInv, Bc!BlockchainInv, Bc!TypeOK
<1>1. ASSUME NEW k \in {"deploy", "fund"}, at \in LoopPlaces,
             Bc!Submit(Job(k), k, Job("deploy"))
      PROVE  CallsAreNamed'
  <2>1. Job(k) \in SeedJobs /\ Job(k) = <<start, spec, k>>
        /\ Job("deploy") = <<start, spec, "deploy">>
    BY <1>0, <1>1, JobsOfLoop DEF Job
  <2>2. /\ phase' = [phase EXCEPT ![Job(k)] = "readNonce"]
        /\ job' = [job EXCEPT ![Job(k)] = [kind |-> k, contract |-> Job("deploy")]]
    BY <1>1 DEF Bc!Submit, Bc!Enter
  <2>3. job'[Job(k)] =
           [kind |-> Job(k)[3], contract |-> Deployment(Job(k))]
    BY <1>0, <2>1, <2>2 DEF Deployment
  <2>4. \A j \in SeedJobs \ {Job(k)} : job'[j] = job[j] /\ phase'[j] = phase[j]
    BY <1>0, <2>2
  <2>5. QED
    BY <1>0, <2>3, <2>4 DEF CallsAreNamed
<1>2. CASE Deploy \/ Fund
  <2>1. CASE UNCHANGED bcVars
    BY <1>0, <2>1 DEF CallsAreNamed, bcVars
  <2>2. CASE \E k \in {"deploy", "fund"} : Bc!Submit(Job(k), k, Job("deploy"))
    BY <1>1, <1>2, <2>2 DEF Deploy, Fund, LoopPlaces
  <2>3. QED
    BY <1>2, <2>1, <2>2 DEF Deploy, Fund
<1>3. CASE RunJob
  <2>1. PICK j \in SeedJobs : Bc!Step(j)
    BY <1>3 DEF RunJob
  <2>2. PICK p : phase' = [phase EXCEPT ![j] = p]
    BY <2>1, RunLocal
  <2>3. job' = job /\ \A k \in SeedJobs : phase'[k] # "idle" => phase[k] # "idle"
    BY <1>0, <2>1, <2>2, RunLocal
  <2>4. QED
    BY <1>0, <2>3 DEF CallsAreNamed
<1>4. CASE Bc!Crash
  BY <1>0, <1>4 DEF CallsAreNamed, Bc!Crash, Bc!Running
<1>5. CASE Bc!Mine \/ Bc!Drop \/ UNCHANGED bcVars
  BY <1>0, <1>5 DEF CallsAreNamed, Bc!Mine, Bc!Drop, bcVars
<1>6. QED
  BY <1>2, <1>3, <1>4, <1>5
  DEF Next, Progress, NodeStep, Die, Start, Reset, Deployed, Funded, Commit, Rest, vars

\* A contract that is being funded is mined: its deployment has returned.
LEMMA DeployedIsMined ==
    ASSUME SeederInv, at \in {"fund", "awaitFund"}
    PROVE  Bc!OnChain(Job("deploy"))
<1>1. /\ phase[Job("deploy")] = "done" /\ Job("deploy") \in SeedJobs
      /\ Job("deploy")[3] = "deploy"
  BY JobsOfLoop DEF SeederInv, LoopKept, LoopPlaces, Job
<1> HIDE DEF Job
<1>2. job[Job("deploy")] =
         [kind |-> Job("deploy")[3], contract |-> Deployment(Job("deploy"))]
  BY <1>1 DEF SeederInv, CallsAreNamed
<1>3. job[Job("deploy")].kind = "deploy"
  BY <1>1, <1>2
<1>4. QED
  BY <1>1, <1>3 DEF SeederInv, Bc!BlockchainInv, Bc!ReturnedMeansMined

(***************************************************************************)
(* The chain: what is mined, and what its transactions brought about.      *)
(***************************************************************************)
\* Mining: a call that was made and was not mined before.
LEMMA MinedCall ==
    ASSUME SeederInv, Bc!Mine
    PROVE  \E f \in SeedJobs, ok \in BOOLEAN :
              /\ phase[f] # "idle" /\ ~Bc!OnChain(f)
              /\ job[f] = [kind |-> f[3], contract |-> Deployment(f)]
              /\ Bc!Execute(f, ok)
              /\ chain' = Append(chain, [job |-> f, effect |-> ok])
<1>1. PICK t \in pool, ok \in BOOLEAN :
         /\ Bc!Execute(t.job, ok)
         /\ chain' = Append(chain, [job |-> t.job, effect |-> ok])
  BY DEF Bc!Mine
<1>2. t.job \in SeedJobs
  BY DEF SeederInv, Bc!BlockchainInv, Bc!TypeOK
<1>3. phase[t.job] # "idle" /\ ~Bc!OnChain(t.job)
  BY <1>2 DEF SeederInv, Bc!BlockchainInv, Bc!UnsentHasNone, Bc!PendingIsNext
<1>4. job[t.job] = [kind |-> t.job[3], contract |-> Deployment(t.job)]
  BY <1>2, <1>3 DEF SeederInv, CallsAreNamed
<1>5. QED
  BY <1>1, <1>2, <1>3, <1>4

\* Nothing but mining touches the chain and what the contracts have.
LEMMA OnlyMining ==
    ASSUME SeederInv, [Next]_vars, ~Bc!Mine
    PROVE  UNCHANGED <<chain, live, vault>>
<1>1. ASSUME NEW j \in SeedJobs, Bc!Step(j) PROVE UNCHANGED <<chain, live, vault>>
  BY <1>1, RunLocal
<1>2. ASSUME NEW j, NEW k, NEW c, Bc!Submit(j, k, c) PROVE UNCHANGED <<chain, live, vault>>
  BY <1>2 DEF Bc!Submit, Bc!node
<1>3. ASSUME Bc!Drop \/ Bc!Crash \/ UNCHANGED bcVars PROVE UNCHANGED <<chain, live, vault>>
  BY <1>3 DEF Bc!Drop, Bc!Crash, Bc!node, bcVars
<1>4. BcStep
  BY NextIsBc DEF SeederInv
<1>5. QED
  BY <1>1, <1>2, <1>3, <1>4 DEF BcStep, Calls

\* A name's parts.
LEMMA NameParts ==
    ASSUME NEW c \in SeedJobs
    PROVE  /\ c = <<c[1], c[2], c[3]>> /\ c[3] \in {"deploy", "fund"}
           /\ Deployment(c) \in SeedJobs /\ Deployment(c)[3] = "deploy"
           /\ Funding(c) \in SeedJobs /\ Funding(c)[3] = "fund"
           /\ c[3] = "deploy" => Deployment(c) = c /\ Deployment(Funding(c)) = c
           /\ c[3] = "fund" => Funding(c) = c /\ Funding(Deployment(c)) = c
BY DEF SeedJobs, Deployment, Funding

\* A deployment brings code to its address and a funding brings it one reward,
\* each when it is mined with effect, and it is mined once.
LEMMA EffectsStay ==
    ASSUME SeederInv, [Next]_vars
    PROVE  EffectsKept'
<1>0. /\ chain \in Seq(Bc!Mined)
      /\ vault \in [SeedJobs -> Nat]
      /\ EffectsKept
  BY DEF SeederInv, Bc!BlockchainInv, Bc!TypeOK, Bc!Contracts
<1>1. CASE UNCHANGED <<chain, live, vault>>
  BY <1>0, <1>1 DEF EffectsKept, Bc!Effected
<1>2. CASE Bc!Mine
  <2>1. PICK f \in SeedJobs, ok \in BOOLEAN :
           /\ ~Bc!OnChain(f)
           /\ job[f] = [kind |-> f[3], contract |-> Deployment(f)]
           /\ Bc!Execute(f, ok)
           /\ chain' = Append(chain, [job |-> f, effect |-> ok])
    BY <1>2, MinedCall
  <2>2. \A j : Bc!Effected(j)' <=> (Bc!Effected(j) \/ (j = f /\ ok))
    <3>1. \A i \in DOMAIN chain : i \in DOMAIN chain' /\ chain'[i] = chain[i]
      BY <1>0, <2>1
    <3>2. /\ DOMAIN chain' = DOMAIN chain \union {Len(chain) + 1}
          /\ chain'[Len(chain) + 1].job = f
          /\ chain'[Len(chain) + 1].effect = ok
      BY <1>0, <2>1
    <3>3. QED
      BY <3>1, <3>2 DEF Bc!Effected
  <2>3. ~Bc!Effected(f)
    BY <2>1 DEF Bc!Effected, Bc!OnChain
  <2>4. CASE f[3] = "deploy"
    <3>1. vault' = vault /\ live' = IF ok THEN live \union {f} ELSE live
      BY <2>1, <2>4, NameParts DEF Bc!Execute
    <3>2. \A c \in SeedJobs : Bc!Effected(Funding(c))' <=> Bc!Effected(Funding(c))
      BY <2>2, <2>4, NameParts
    <3>3. QED
      BY <1>0, <2>2, <2>4, <3>1, <3>2 DEF EffectsKept
  <2>5. CASE f[3] = "fund"
    <3> DEFINE d == Deployment(f)
    <3>1. /\ vault' = IF ok THEN [vault EXCEPT ![d] = @ + 1] ELSE vault
          /\ live' = live
      BY <2>1, <2>5 DEF Bc!Execute
    <3>2. d \in SeedJobs /\ d[3] = "deploy" /\ Funding(d) = f
      BY <2>5, NameParts
    <3>3. \A c \in SeedJobs : c[3] = "deploy" =>
             /\ Bc!Effected(c)' <=> Bc!Effected(c)
             /\ c # d => Funding(c) # f
      BY <2>2, <2>5, NameParts
    <3> HIDE DEF d
    <3>4. vault[d] = 0
      BY <1>0, <2>3, <3>2 DEF EffectsKept
    <3>5. /\ vault'[d] = IF ok THEN 1 ELSE 0
          /\ \A c \in SeedJobs \ {d} : vault'[c] = vault[c]
      BY <1>0, <3>1, <3>2, <3>4
    <3>6. ASSUME NEW c \in SeedJobs
          PROVE  vault'[c] = IF c[3] = "deploy" /\ Bc!Effected(Funding(c))' THEN 1 ELSE 0
      <4>1. CASE c = d
        BY <2>2, <2>3, <3>2, <3>5, <4>1
      <4>2. CASE c # d
        <5>1. c[3] = "deploy" =>
                 (Bc!Effected(Funding(c))' <=> Bc!Effected(Funding(c)))
          BY <2>2, <3>3, <4>2
        <5>2. vault[c] = IF c[3] = "deploy" /\ Bc!Effected(Funding(c)) THEN 1 ELSE 0
          BY <1>0 DEF EffectsKept
        <5>3. QED
          BY <3>5, <4>2, <5>1, <5>2
      <4>3. QED
        BY <4>1, <4>2
    <3>7. \A c \in SeedJobs : c \in live' <=> c[3] = "deploy" /\ Bc!Effected(c)'
      BY <1>0, <3>1, <3>3 DEF EffectsKept
    <3>8. QED
      BY <3>6, <3>7 DEF EffectsKept
  <2>6. QED
    BY <2>4, <2>5, NameParts
<1>3. QED
  BY <1>1, <1>2, OnlyMining

\* A call that funds is made when its contract's deployment has returned.
LEMMA FundingsStay ==
    ASSUME SeederInv, [Next]_vars
    PROVE  FundingsWait'
<1>0. /\ phase \in [SeedJobs -> Bc!Phases]
      /\ TypeOK /\ LoopKept /\ FundingsWait /\ Bc!BlockchainInv
  BY DEF SeederInv, Bc!BlockchainInv, Bc!TypeOK
<1>1. BcStep
  BY <1>0, NextIsBc
<1>2. \A j \in SeedJobs : Bc!OnChain(j) => Bc!OnChain(j)'
  BY <1>0, <1>1, Lasting
<1>3. SUFFICES ASSUME NEW j \in SeedJobs, phase'[j] # "idle", j[3] = "fund"
               PROVE  Bc!OnChain(Deployment(j))
  BY <1>2, NameParts DEF FundingsWait
<1>4. CASE phase[j] # "idle"
  BY <1>0, <1>3, <1>4 DEF FundingsWait
<1>5. CASE Fund
  <2>1. phase' = [phase EXCEPT ![Job("fund")] = "readNonce"]
    BY <1>5 DEF Fund, Bc!Submit, Bc!Enter
  <2>2. CASE j = Job("fund")
    <3>1. Deployment(j) = Job("deploy")
      BY <2>2 DEF Deployment, Job
    <3>2. QED
      BY <1>5, <3>1, DeployedIsMined DEF Fund
  <2>3. CASE j # Job("fund")
    BY <1>0, <1>3, <1>4, <2>1, <2>3
  <2>4. QED
    BY <2>2, <2>3
<1>6. CASE Deploy
  <2>1. j # Job("deploy")
    BY <1>3 DEF Job
  <2>2. phase' = phase \/ phase' = [phase EXCEPT ![Job("deploy")] = "readNonce"]
    BY <1>6 DEF Deploy, Bc!Submit, Bc!Enter, bcVars
  <2>3. QED
    BY <1>0, <1>3, <1>4, <2>1, <2>2
<1>7. CASE ~(Fund \/ Deploy)
  <2>1. ASSUME NEW k \in SeedJobs, Bc!Step(k) PROVE phase[j] # "idle"
    <3>1. phase[k] # "idle" /\ \E p : phase' = [phase EXCEPT ![k] = p]
      BY <2>1, RunLocal
    <3>2. QED
      BY <1>0, <1>3, <3>1
  <2>2. ASSUME Bc!Crash PROVE phase[j] # "idle"
    BY <1>0, <1>3, <2>2 DEF Bc!Crash, Bc!Running
  <2>3. ASSUME Bc!Mine \/ Bc!Drop \/ UNCHANGED bcVars PROVE phase[j] # "idle"
    BY <1>3, <2>3 DEF Bc!Mine, Bc!Drop, bcVars
  <2>4. \/ \E k \in SeedJobs : Bc!Step(k)
        \/ Bc!Crash \/ Bc!Mine \/ Bc!Drop \/ UNCHANGED bcVars
    BY <1>7 DEF Next, Progress, RunJob, NodeStep, Die, Start, Reset, Deployed, Funded,
                Commit, Rest, vars
  <2>5. QED
    BY <1>4, <2>1, <2>2, <2>3, <2>4
<1>8. QED
  BY <1>5, <1>6, <1>7

\* The deployment is in the chain before the ether for its contract.
LEMMA OrderStays ==
    ASSUME SeederInv, [Next]_vars
    PROVE  SentAfterDeployed'
<1>0. chain \in Seq(Bc!Mined) /\ SentAfterDeployed /\ FundingsWait
  BY DEF SeederInv, Bc!BlockchainInv, Bc!TypeOK
<1>1. CASE UNCHANGED <<chain, live, vault>>
  BY <1>0, <1>1 DEF SentAfterDeployed
<1>2. CASE Bc!Mine
  <2>1. PICK f \in SeedJobs, ok \in BOOLEAN :
           /\ phase[f] # "idle"
           /\ chain' = Append(chain, [job |-> f, effect |-> ok])
    BY <1>2, MinedCall
  <2>2. /\ DOMAIN chain' = 1 .. Len(chain) + 1 /\ DOMAIN chain = 1 .. Len(chain)
        /\ Len(chain) \in Nat
        /\ \A i \in 1 .. Len(chain) : chain'[i] = chain[i]
        /\ chain'[Len(chain) + 1].job = f
    BY <1>0, <2>1
  <2>3. SUFFICES ASSUME NEW k \in 1 .. Len(chain) + 1, chain'[k].job[3] = "fund"
                 PROVE  \E i \in 1 .. k - 1 : chain'[i].job = Deployment(chain'[k].job)
    BY <2>2 DEF SentAfterDeployed
  <2>4. CASE k \in 1 .. Len(chain)
    <3>1. PICK i \in 1 .. k - 1 : chain[i].job = Deployment(chain[k].job)
      BY <1>0, <2>2, <2>3, <2>4 DEF SentAfterDeployed
    <3>2. i \in 1 .. Len(chain) /\ chain'[i] = chain[i] /\ chain'[k] = chain[k]
      BY <2>2, <2>4
    <3>3. QED
      BY <3>1, <3>2
  <2>5. CASE k = Len(chain) + 1
    <3>1. Bc!OnChain(Deployment(f))
      BY <1>0, <2>1, <2>2, <2>3, <2>5 DEF FundingsWait
    <3>2. PICK i \in 1 .. Len(chain) : chain[i].job = Deployment(f)
      BY <2>2, <3>1 DEF Bc!OnChain
    <3>3. i \in 1 .. k - 1 /\ chain'[i].job = Deployment(chain'[k].job)
      BY <2>2, <2>5, <3>2
    <3>4. QED
      BY <3>3
  <2>6. QED
    BY <2>2, <2>4, <2>5
<1>3. QED
  BY <1>1, <1>2, OnlyMining

(***************************************************************************)
(* The rows: what the session holds and what the table holds.              *)
(***************************************************************************)
RowsKept ==
    /\ TypeOK
    /\ LoopKept
    /\ AddedMined
    /\ EventsOwnContracts
    /\ CatalogueWhole
    /\ ContractsMined

\* What the blockchain service does by itself leaves the rows as they are.
LEMMA RowsUntouched ==
    ASSUME RowsKept, Bc!BlockchainInv, BcStep, UNCHANGED seedVars
    PROVE  RowsKept'
<1>1. \A j \in SeedJobs : /\ Bc!OnChain(j) => Bc!OnChain(j)'
                          /\ phase[j] = "done" => phase'[j] = "done"
  BY Lasting
<1>2. TypeOK' /\ EventsOwnContracts' /\ CatalogueWhole'
  BY DEF RowsKept, seedVars, TypeOK, EventsOwnContracts, CatalogueWhole
<1>3. LoopKept'
  <2>1. at \in {"fund", "awaitFund"} => Job("deploy") \in SeedJobs
    BY JobsOfLoop DEF RowsKept, LoopPlaces
  <2>2. at \in {"fund", "awaitFund"} => phase'[Job("deploy")] = "done"
    BY <1>1, <2>1 DEF RowsKept, LoopKept
  <2>3. QED
    BY <2>2 DEF RowsKept, LoopKept, seedVars, Job
<1>4. AddedMined'
  BY <1>1 DEF RowsKept, AddedMined, TypeOK, Rows, seedVars
<1>5. ContractsMined'
  BY <1>1 DEF RowsKept, ContractsMined, TypeOK, Rows, seedVars
<1>6. QED
  BY <1>2, <1>3, <1>4, <1>5 DEF RowsKept

\* The loop adds the event of its spec, with a mined contract or with none.
LEMMA RowAdded ==
    ASSUME RowsKept, Bc!BlockchainInv, UNCHANGED <<start, configured, bcVars>>,
           at \in LoopPlaces, NEW c \in {NoContract, Job("deploy")}, AddEvent(c),
           c # NoContract => Bc!OnChain(Job("deploy"))
    PROVE  RowsKept'
<1>0. /\ start \in 1 .. Starts /\ spec \in 1 .. Specs
      /\ Job("deploy") \in SeedJobs
      /\ Job("deploy") = <<start, spec, "deploy">>
  BY JobsOfLoop DEF RowsKept, Job
<1>1. /\ added' = added \union {[spec |-> spec, contract |-> c]}
      /\ spec' = spec + 1 /\ events' = events
      /\ at' = IF spec = Specs THEN "commit" ELSE "deploy"
  BY DEF AddEvent, Loop
<1>2. \A j : Bc!OnChain(j)' <=> Bc!OnChain(j)
  BY DEF Bc!OnChain, bcVars
<1>3. [spec |-> spec, contract |-> c] \in Rows
  BY <1>0 DEF Rows
<1>4. TypeOK'
  BY <1>0, <1>1, <1>3, SeederAssumption DEF RowsKept, TypeOK, Places
<1>5. {e.spec : e \in added} = 1 .. spec - 1
  BY DEF RowsKept, LoopKept
<1>6. {e.spec : e \in added'} = 1 .. spec' - 1
  <2>1. {e.spec : e \in added'} = {e.spec : e \in added} \union {spec}
    <3> DEFINE row == [spec |-> spec, contract |-> c]
    <3>1. added' = added \union {row} /\ row.spec = spec
      BY <1>1
    <3> HIDE DEF row
    <3>2. QED
      BY <3>1
  <2>2. (1 .. spec - 1) \union {spec} = 1 .. spec' - 1
    BY <1>0, <1>1, SeederAssumption
  <2>3. QED
    BY <1>5, <2>1, <2>2
<1>7. LoopKept'
  BY <1>0, <1>1, <1>6, SeederAssumption DEF LoopKept, LoopPlaces
<1>8. AddedMined'
  <2>1. \A e \in added : e.spec # spec
    <3>1. \A e \in added : e.spec \in 1 .. spec - 1
      BY <1>5
    <3>2. spec \notin 1 .. spec - 1
      BY <1>0
    <3>3. QED
      BY <3>1, <3>2
  <2>2. \A e, f \in added' : e.spec = f.spec => e = f
    BY <1>1, <2>1 DEF RowsKept, AddedMined
  <2>3. c # NoContract =>
           Bc!OnChain(c) /\ c = <<start, spec, "deploy">>
    BY <1>0
  <2>4. \A e \in added' : e.contract # NoContract =>
           Bc!OnChain(e.contract) /\ e.contract = <<start, e.spec, "deploy">>
    BY <1>1, <2>3 DEF RowsKept, AddedMined
  <2>5. QED
    BY <1>2, <2>2, <2>4 DEF AddedMined
<1>9. EventsOwnContracts' /\ CatalogueWhole'
  BY <1>1 DEF RowsKept, EventsOwnContracts, CatalogueWhole, LoopKept
<1>10. ContractsMined'
  BY <1>1, <1>2 DEF RowsKept, ContractsMined
<1>11. QED
  BY <1>4, <1>7, <1>8, <1>9, <1>10 DEF RowsKept

\* The steps of lifespan and of a death, one by one.
LEMMA RowsStep ==
    ASSUME SeederInv, [Next]_vars
    PROVE  RowsKept'
<1>0. RowsKept /\ Bc!BlockchainInv /\ BcStep
  BY NextIsBc DEF SeederInv, RowsKept
<1>1. CASE Start
  <2>1. UNCHANGED <<bcVars, spec, added, events>> /\ at = "down" /\ at' = "reset"
        /\ start' = start + 1 /\ start < Starts /\ configured' \in BOOLEAN
    BY <1>1 DEF Start
  <2>2. added = {} /\ start \in 0 .. Starts
    BY <1>0, <2>1 DEF RowsKept, LoopKept, TypeOK
  <2>3. TypeOK' /\ LoopKept'
    BY <1>0, <2>1, <2>2, SeederAssumption
    DEF RowsKept, TypeOK, LoopKept, Places, LoopPlaces
  <2>4. AddedMined' /\ EventsOwnContracts' /\ CatalogueWhole'
    BY <1>0, <2>1, <2>2
    DEF RowsKept, AddedMined, EventsOwnContracts, CatalogueWhole
  <2>5. ContractsMined'
    BY <1>0, <2>1 DEF RowsKept, ContractsMined, Bc!OnChain, bcVars
  <2>6. QED
    BY <2>3, <2>4, <2>5 DEF RowsKept
<1>2. CASE Reset
  <2>1. /\ events' = {} /\ added' = {} /\ spec' = 1
        /\ at' = IF 0 = Specs THEN "commit" ELSE "deploy"
        /\ at = "reset" /\ UNCHANGED <<start, configured>>
    BY <1>2 DEF Reset, Loop
  <2>2. TypeOK' /\ LoopKept'
    BY <1>0, <2>1, SeederAssumption
    DEF RowsKept, TypeOK, LoopKept, Places, LoopPlaces
  <2>3. AddedMined' /\ EventsOwnContracts' /\ CatalogueWhole' /\ ContractsMined'
    BY <2>1 DEF AddedMined, EventsOwnContracts, CatalogueWhole, ContractsMined
  <2>4. QED
    BY <2>2, <2>3 DEF RowsKept
<1>3. CASE Deploy
  <2>1. CASE AddEvent(NoContract) /\ UNCHANGED bcVars
    BY <1>0, <1>3, <2>1, RowAdded DEF Deploy, LoopPlaces
  <2>2. CASE Bc!Submit(Job("deploy"), "deploy", Job("deploy")) /\ at' = "awaitDeploy"
             /\ UNCHANGED <<spec, added, events>>
    <3>1. at = "deploy" /\ UNCHANGED <<start, configured>> /\ UNCHANGED chain
      BY <1>3, <2>2 DEF Deploy, Bc!Submit, Bc!node
    <3>2. TypeOK' /\ LoopKept'
      BY <1>0, <2>2, <3>1 DEF RowsKept, TypeOK, LoopKept, Places, LoopPlaces
    <3>3. AddedMined' /\ EventsOwnContracts' /\ CatalogueWhole' /\ ContractsMined'
      BY <1>0, <2>2, <3>1
      DEF RowsKept, AddedMined, EventsOwnContracts, CatalogueWhole, ContractsMined,
          Bc!OnChain
    <3>4. QED
      BY <3>2, <3>3 DEF RowsKept
  <2>3. QED
    BY <1>3, <2>1, <2>2 DEF Deploy
<1>4. CASE Deployed
  <2>1. CASE phase[Job("deploy")] = "failed" /\ AddEvent(NoContract)
    BY <1>0, <1>4, <2>1, RowAdded DEF Deployed, LoopPlaces
  <2>2. CASE phase[Job("deploy")] = "done" /\ at' = "fund"
             /\ UNCHANGED <<spec, added, events>>
    <3>1. at = "awaitDeploy" /\ UNCHANGED <<start, configured, bcVars>>
      BY <1>4 DEF Deployed
    <3>2. TypeOK' /\ LoopKept'
      BY <1>0, <2>2, <3>1
      DEF RowsKept, TypeOK, LoopKept, Places, LoopPlaces, Job, bcVars
    <3>3. AddedMined' /\ EventsOwnContracts' /\ CatalogueWhole' /\ ContractsMined'
      BY <1>0, <2>2, <3>1
      DEF RowsKept, AddedMined, EventsOwnContracts, CatalogueWhole, ContractsMined,
          Bc!OnChain, bcVars
    <3>4. QED
      BY <3>2, <3>3 DEF RowsKept
  <2>3. QED
    BY <1>4, <2>1, <2>2 DEF Deployed
<1>5. CASE Fund
  <2>1. /\ at = "fund" /\ at' = "awaitFund" /\ UNCHANGED chain
        /\ UNCHANGED <<start, configured, spec, added, events>>
    BY <1>5 DEF Fund, Bc!Submit, Bc!node
  <2>2. phase'[Job("deploy")] = "done" /\ Job("deploy")' = Job("deploy")
    BY <1>0, <2>1, Lasting, JobsOfLoop DEF RowsKept, LoopKept, LoopPlaces, Job
  <2>3. TypeOK' /\ LoopKept'
    BY <1>0, <2>1, <2>2 DEF RowsKept, TypeOK, LoopKept, Places, LoopPlaces
  <2>4. AddedMined' /\ EventsOwnContracts' /\ CatalogueWhole' /\ ContractsMined'
    BY <1>0, <2>1
    DEF RowsKept, AddedMined, EventsOwnContracts, CatalogueWhole, ContractsMined,
        Bc!OnChain
  <2>5. QED
    BY <2>3, <2>4 DEF RowsKept
<1>6. CASE Funded
  <2>1. at = "awaitFund" /\ AddEvent(Job("deploy"))
        /\ UNCHANGED <<start, configured, bcVars>>
    BY <1>6 DEF Funded
  <2>2. Bc!OnChain(Job("deploy"))
    BY <2>1, DeployedIsMined
  <2>3. QED
    BY <1>0, <2>1, <2>2, RowAdded DEF LoopPlaces
<1>7. CASE Commit
  <2>1. /\ at = "commit" /\ at' = "serving" /\ events' = added
        /\ UNCHANGED <<start, configured, spec, added, bcVars>>
    BY <1>7 DEF Commit
  <2>2. {e.spec : e \in added} = 1 .. Specs
    BY <1>0, <2>1, SeederAssumption DEF RowsKept, LoopKept
  <2>3. TypeOK' /\ LoopKept'
    BY <1>0, <2>1 DEF RowsKept, TypeOK, LoopKept, Places, LoopPlaces
  <2>4. AddedMined' /\ CatalogueWhole'
    BY <1>0, <2>1, <2>2 DEF RowsKept, AddedMined, CatalogueWhole, Bc!OnChain, bcVars
  <2>5. EventsOwnContracts' /\ ContractsMined'
    BY <1>0, <2>1
    DEF RowsKept, AddedMined, EventsOwnContracts, ContractsMined, Bc!OnChain, bcVars
  <2>6. QED
    BY <2>3, <2>4, <2>5 DEF RowsKept
<1>8. CASE Die
  <2>1. /\ at' = "down" /\ added' = {} /\ configured' = FALSE /\ spec' = 1
        /\ UNCHANGED <<chain, start, events>>
        /\ at # "down"
    BY <1>8 DEF Die, Bc!Crash, Bc!node, bcVars
  <2>2. TypeOK' /\ LoopKept'
    <3>1. 1 \in 1 .. Specs + 1
      BY SeederAssumption
    <3>2. QED
      BY <1>0, <2>1, <3>1 DEF RowsKept, TypeOK, LoopKept, Places, LoopPlaces
  <2>3. AddedMined' /\ EventsOwnContracts' /\ CatalogueWhole' /\ ContractsMined'
    BY <1>0, <2>1
    DEF RowsKept, AddedMined, EventsOwnContracts, CatalogueWhole, ContractsMined,
        Bc!OnChain
  <2>4. QED
    BY <2>2, <2>3 DEF RowsKept
<1>9. CASE RunJob \/ NodeStep \/ Rest \/ UNCHANGED vars
  BY <1>0, <1>9, RowsUntouched DEF RunJob, NodeStep, Rest, vars
<1>10. QED
  BY <1>1, <1>2, <1>3, <1>4, <1>5, <1>6, <1>7, <1>8, <1>9 DEF Next, Progress

-----------------------------------------------------------------------------
\* SeederInv holds whatever the node, the process and the calls do: types, the loop,
\* the rows, the names of the calls and the money in the contracts.
THEOREM Invariance == Spec => []SeederInv
<1>1. Init => SeederInv
  <2> SUFFICES ASSUME Init PROVE SeederInv
    OBVIOUS
  <2>1. Bc!BlockchainInv
    BY BcP!InitInv, SameInit, SameInv, BcAssumptions DEF Init
  <2>2. /\ phase = [j \in SeedJobs |-> "idle"] /\ chain = <<>>
        /\ vault = [c \in SeedJobs |-> 0] /\ live = {}
    BY DEF Init, Bc!Init, Bc!Contracts
  <2>3. CallsAreNamed /\ FundingsWait /\ SentAfterDeployed /\ EffectsKept
    BY <2>2 DEF CallsAreNamed, FundingsWait, SentAfterDeployed, EffectsKept, Bc!Effected
  <2>4. /\ start = 0 /\ configured = FALSE /\ at = "down" /\ spec = 1
        /\ added = {} /\ events = {}
    BY DEF Init
  <2>5. TypeOK /\ LoopKept
    <3>1. 0 \in 0 .. Starts /\ 1 \in 1 .. Specs + 1
      BY SeederAssumption
    <3>2. QED
      BY <2>4, <3>1 DEF TypeOK, LoopKept, Places, LoopPlaces
  <2>6. AddedMined /\ EventsOwnContracts /\ CatalogueWhole /\ ContractsMined
    BY <2>4 DEF AddedMined, EventsOwnContracts, CatalogueWhole, ContractsMined
  <2>7. QED
    BY <2>1, <2>3, <2>5, <2>6 DEF SeederInv
<1>2. SeederInv /\ [Next]_vars => SeederInv'
  <2> SUFFICES ASSUME SeederInv, [Next]_vars PROVE SeederInv'
    OBVIOUS
  <2>1. Bc!BlockchainInv'
    BY NextIsBc, BcKeepsInv DEF SeederInv
  <2>2. QED
    BY <2>1, RowsStep, NamedKept, FundingsStay, OrderStays, EffectsStay
    DEF SeederInv, RowsKept
<1>3. QED
  BY <1>1, <1>2, PTL DEF Spec

\* Requests see the whole catalogue or no server, however often a start dies.
THEOREM CatalogueInOnePiece == Spec => []CatalogueWhole
<1>1. SeederInv => CatalogueWhole
  BY DEF SeederInv
<1>2. QED
  BY <1>1, Invariance, PTL

\* Every address of the catalogue is one of a mined deployment of its own.
THEOREM AddressesAreMined == Spec => []ContractsMined
<1>1. SeederInv => ContractsMined
  BY DEF SeederInv
<1>2. QED
  BY <1>1, Invariance, PTL

\* No contract is funded twice, whatever is lost, forgotten or started again.
THEOREM FundedOnce == Spec => []FundedAtMostOnce
<1>1. SeederInv => FundedAtMostOnce
  <2> SUFFICES ASSUME SeederInv, NEW c \in SeedJobs PROVE vault[c] <= 1
    BY DEF FundedAtMostOnce
  <2>1. vault[c] = 0 \/ vault[c] = 1
    BY DEF SeederInv, EffectsKept
  <2>2. QED
    BY <2>1
<1>2. QED
  BY <1>1, Invariance, PTL

\* An event has its reward exactly when both of its transactions had their effect;
\* ether follows the contract it is for, and a returned funding was sent.
THEOREM RewardsAreThere == Spec => []RewardToGive
<1>1. SeederInv => RewardToGive
  <2> SUFFICES ASSUME SeederInv, NEW e \in events, e.contract # NoContract
               PROVE  /\ /\ e.contract \in live
                         /\ vault[e.contract] = 1
                         <=> Bc!Effected(e.contract) /\ Bc!Effected(Funding(e.contract))
                      /\ phase[Funding(e.contract)] = "done" =>
                            Bc!OnChain(Funding(e.contract))
    BY DEF RewardToGive, SeederInv
  <2> DEFINE c == e.contract
             f == Funding(c)
  <2>1. c \in SeedJobs /\ c[3] = "deploy"
    BY DEF SeederInv, TypeOK, Rows, EventsOwnContracts
  <2>2. f \in SeedJobs /\ f[3] = "fund"
    BY <2>1, NameParts
  <2>3. phase[f] = "done" => job[f].kind = "fund"
    <3> HIDE DEF f
    <3>1. phase[f] = "done" => job[f] = [kind |-> f[3], contract |-> Deployment(f)]
      BY <2>2 DEF SeederInv, CallsAreNamed
    <3>2. QED
      BY <2>2, <3>1
  <2>4. phase[f] = "done" => Bc!OnChain(f)
    BY <2>2, <2>3 DEF SeederInv, Bc!BlockchainInv, Bc!ReturnedMeansMined
  <2>5. /\ vault[c] = IF Bc!Effected(f) THEN 1 ELSE 0
        /\ c \in live <=> Bc!Effected(c)
    BY <2>1 DEF SeederInv, EffectsKept
  <2>6. QED
    BY <2>4, <2>5
<1>2. QED
  BY <1>1, Invariance, PTL
=============================================================================
