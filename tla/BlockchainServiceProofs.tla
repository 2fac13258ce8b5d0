---------------------- MODULE BlockchainServiceProofs ----------------------
(***************************************************************************)
(* BlockchainService for every set of jobs, contracts and balances, with   *)
(* and without faults: types, at most one mined transaction per job, no    *)
(* transaction stuck behind a gap, and no deployment or funding reported   *)
(* that is not in the chain.                                               *)
(***************************************************************************)
EXTENDS BlockchainService, TLAPS

\* No job has begun and nothing is pending.
LEMMA InitInv == Init => BlockchainInv
<1> SUFFICES ASSUME Init PROVE BlockchainInv
  OBVIOUS
<1> USE DEF Init
<1>1. vault \in [Contracts -> Nat]
  BY PriorContractsAssumption DEF Contracts
<1>2. chain \in Seq(Mined) /\ DOMAIN chain = {} /\ Len(chain) = 0
  OBVIOUS
<1>3. TypeOK
  BY <1>1, <1>2 DEF TypeOK, Phases, Contracts
<1>4. UnsentHasNone /\ PendingIsNext /\ NoncesRead /\ WorkKnown
  BY <1>2 DEF UnsentHasNone, PendingIsNext, NoncesRead, WorkKnown, OnChain
<1>5. MinedOnce /\ ReturnedMeansMined
  BY <1>2 DEF MinedOnce, ReturnedMeansMined
<1>6. QED
  BY <1>3, <1>4, <1>5 DEF BlockchainInv

(***************************************************************************)
(* The steps of a job that leave the node alone: only its phase, nonce,    *)
(* work or notification change, and it does not get back to before Send.   *)
(***************************************************************************)
LEMMA LocalInv ==
    ASSUME BlockchainInv, NEW j \in Jobs, UNCHANGED node,
           NEW p \in Phases, phase' = [phase EXCEPT ![j] = p],
           job' \in [Jobs -> Works \union {NoJob}], job'[j] \in Works,
           \A k \in Jobs \ {j} : job'[k] = job[k],
           nonce' \in [Jobs -> Nat],
           \A k \in Jobs \ {j} : nonce'[k] = nonce[k],
           notified' \subseteq Jobs,
           p \in {"readNonce", "sendTx"} =>
              phase[j] \in {"idle", "readNonce", "sendTx"},
           p = "sendTx" => nonce'[j] <= Len(chain),
           p = "done" /\ job'[j].kind \in {"deploy", "fund"} => OnChain(j),
           p \in {"balance", "email"} => job'[j].kind = "payout",
           p # "idle"
    PROVE  BlockchainInv'
<1> USE DEF BlockchainInv, node
<1>1. TypeOK' /\ WorkKnown'
  BY DEF TypeOK, WorkKnown
<1>2. /\ \A k : OnChain(k)' = OnChain(k)
      /\ \A k \in Jobs \ {j} : phase'[k] = phase[k]
      /\ phase'[j] = p
  BY DEF OnChain, TypeOK
<1>3. UnsentHasNone'
  BY <1>2 DEF UnsentHasNone
<1>4. PendingIsNext' /\ MinedOnce'
  BY <1>2 DEF PendingIsNext, MinedOnce
<1>5. NoncesRead'
  BY <1>2 DEF NoncesRead
<1>6. ReturnedMeansMined'
  BY <1>2 DEF ReturnedMeansMined
<1>7. QED
  BY <1>1, <1>3, <1>4, <1>5, <1>6

\* A job gets its work.
LEMMA SubmitInv ==
    ASSUME BlockchainInv, NEW j \in Jobs, NEW kind \in Kinds, NEW c \in Contracts,
           Submit(j, kind, c)
    PROVE  BlockchainInv'
<1>1. [kind |-> kind, contract |-> c] \in Works
  BY DEF Works
<1>2. /\ job' \in [Jobs -> Works \union {NoJob}] /\ job'[j] \in Works
      /\ \A k \in Jobs \ {j} : job'[k] = job[k]
  BY <1>1 DEF Submit, BlockchainInv, TypeOK
<1>3. "readNonce" \in Phases
  BY DEF Phases
<1>4. QED
  BY <1>2, <1>3, LocalInv DEF Submit, Enter, BlockchainInv, TypeOK

\* The awaits of a job other than send_raw_transaction.
LEMMA LocalStepInv ==
    ASSUME BlockchainInv, NEW j \in Jobs,
           \/ ReadNonce(j) \/ SendRejected(j) \/ Receipt(j)
           \/ ReceiptTimeout(j) \/ ReadBalance(j) \/ SendEmail(j) \/ Fail(j)
    PROVE  BlockchainInv'
<1> USE DEF BlockchainInv
<1>1. job[j] \in Works
  BY DEF WorkKnown, ReadNonce, SendRejected, Receipt, ReceiptTimeout,
         ReadBalance, SendEmail, Fail, Running
<1>2. {"idle", "readNonce", "sendTx", "email", "done", "failed"} \subseteq Phases
  BY DEF Phases
<1>3. CASE ReadNonce(j)
  <2>1. /\ nonce' \in [Jobs -> Nat]
        /\ nonce'[j] = Len(chain)
        /\ \A k \in Jobs \ {j} : nonce'[k] = nonce[k]
    BY <1>3 DEF ReadNonce, TransactionCount, TypeOK
  <2>2. nonce'[j] <= Len(chain)
    BY <2>1 DEF TypeOK
  <2>3. /\ UNCHANGED <<job, node, notified>>
        /\ phase[j] = "readNonce"
        /\ phase' = [phase EXCEPT ![j] = "sendTx"]
    BY <1>3 DEF ReadNonce, Enter
  <2>4. /\ job' \in [Jobs -> Works \union {NoJob}] /\ job'[j] \in Works
        /\ notified' \subseteq Jobs
        /\ \A k \in Jobs \ {j} : job'[k] = job[k]
    BY <1>1, <2>3 DEF TypeOK
  <2>5. QED
    BY <1>2, <2>1, <2>2, <2>3, <2>4, LocalInv
<1>4. CASE SendRejected(j) \/ ReceiptTimeout(j) \/ Fail(j)
  <2>1. /\ phase' = [phase EXCEPT ![j] = "failed"]
        /\ UNCHANGED <<job, node, notified>>
        /\ nonce' = nonce \/ nonce' = [nonce EXCEPT ![j] = 0]
    BY <1>4 DEF SendRejected, ReceiptTimeout, Fail, Enter, ForgetNonce
  <2>2. /\ nonce' \in [Jobs -> Nat]
        /\ \A k \in Jobs \ {j} : nonce'[k] = nonce[k]
    BY <2>1 DEF TypeOK
  <2>3. QED
    BY <1>1, <1>2, <2>1, <2>2, LocalInv DEF TypeOK
<1>5. CASE Receipt(j)
  BY <1>1, <1>2, <1>5, LocalInv DEF Receipt, Enter, TypeOK
<1>6. CASE ReadBalance(j)
  BY <1>1, <1>2, <1>6, LocalInv DEF ReadBalance, Enter, TypeOK, WorkKnown
<1>7. CASE SendEmail(j)
  BY <1>1, <1>2, <1>7, LocalInv DEF SendEmail, Enter, TypeOK, WorkKnown
<1>8. QED
  BY <1>3, <1>4, <1>5, <1>6, <1>7

(***************************************************************************)
(* The steps that touch the node.                                          *)
(***************************************************************************)

\* The nonce read is at most the one mined next, and Send wants at least that:
\* what was pending under it is replaced.
LEMMA SendInv ==
    ASSUME BlockchainInv, NEW j \in Jobs, Send(j)
    PROVE  BlockchainInv'
<1> USE DEF BlockchainInv
<1> DEFINE t == [job |-> j, nonce |-> nonce[j]]
<1>1. /\ phase[j] = "sendTx" /\ nonce[j] = Len(chain) /\ nonce[j] \in Nat
      /\ Len(chain) \in Nat
  BY DEF Send, TransactionCount, NoncesRead, TypeOK
<1>2. pool' = {t}
  BY <1>1 DEF Send, SameNonce, PendingIsNext
<1>3. /\ UNCHANGED <<job, chain, live, vault, notified>>
      /\ nonce' \in [Jobs -> Nat]
      /\ \A k \in Jobs \ {j} : nonce'[k] = nonce[k]
  BY DEF Send, ForgetNonce, TypeOK
<1>4. PICK p \in {"balance", "receipt", "failed"} :
         /\ phase' = [phase EXCEPT ![j] = p]
         /\ p = "balance" => job[j].kind = "payout"
  BY DEF Send, Enter, AfterSend
<1>5. /\ ~OnChain(j) /\ job[j] \in Works
      /\ \A k : OnChain(k)' = OnChain(k)
      /\ phase'[j] = p
      /\ \A k \in Jobs \ {j} : phase'[k] = phase[k]
  BY <1>1, <1>3, <1>4 DEF UnsentHasNone, WorkKnown, OnChain, TypeOK
<1>6. TypeOK' /\ WorkKnown'
  BY <1>1, <1>2, <1>3, <1>4, <1>5 DEF TypeOK, WorkKnown, Phases
<1>7. UnsentHasNone'
  BY <1>2, <1>4, <1>5 DEF UnsentHasNone
<1>8. PendingIsNext'
  BY <1>1, <1>2, <1>3, <1>5 DEF PendingIsNext
<1>9. NoncesRead' /\ ReturnedMeansMined' /\ MinedOnce'
  BY <1>3, <1>4, <1>5 DEF NoncesRead, ReturnedMeansMined, MinedOnce
<1>10. QED
  BY <1>6, <1>7, <1>8, <1>9

\* The pending transaction becomes the last of the chain.
LEMMA MineEffect ==
    ASSUME BlockchainInv, Mine
    PROVE  /\ UNCHANGED <<job, phase, nonce, notified>>
           /\ pool' = {}
           /\ \E j \in Jobs, ok \in BOOLEAN :
                 /\ ~OnChain(j)
                 /\ phase[j] \notin {"idle", "readNonce", "sendTx"}
                 /\ Execute(j, ok)
                 /\ chain' = Append(chain, [job |-> j, effect |-> ok])
<1> USE DEF BlockchainInv
<1>1. PICK t \in pool, ok \in BOOLEAN :
         /\ Execute(t.job, ok)
         /\ chain' = Append(chain, [job |-> t.job, effect |-> ok])
         /\ pool' = pool \ {t}
  BY DEF Mine
<1>2. pool' = {}
  BY <1>1 DEF PendingIsNext
<1>3. t.job \in Jobs /\ ~OnChain(t.job)
  BY DEF TypeOK, PendingIsNext
<1>4. phase[t.job] \notin {"idle", "readNonce", "sendTx"}
  BY <1>3 DEF UnsentHasNone
<1>5. UNCHANGED <<job, phase, nonce, notified>>
  BY DEF Mine
<1>6. QED
  BY <1>1, <1>2, <1>3, <1>4, <1>5

\* Mining: the job of the one pending transaction has no other in the chain.
LEMMA MineInv ==
    ASSUME BlockchainInv, Mine
    PROVE  BlockchainInv'
<1> USE DEF BlockchainInv
<1>1. PICK j \in Jobs, ok \in BOOLEAN :
         /\ ~OnChain(j)
         /\ phase[j] \notin {"idle", "readNonce", "sendTx"}
         /\ Execute(j, ok)
         /\ chain' = Append(chain, [job |-> j, effect |-> ok])
  BY MineEffect
<1>2. UNCHANGED <<job, phase, nonce, notified>> /\ pool' = {}
  BY MineEffect
<1> DEFINE m == [job |-> j, effect |-> ok]
<1>3. m \in Mined /\ m.job = j /\ chain \in Seq(Mined) /\ chain' = Append(chain, m)
  BY <1>1 DEF Mined, TypeOK
<1> HIDE DEF m
<1>4. /\ chain' \in Seq(Mined)
      /\ Len(chain') = Len(chain) + 1
      /\ Len(chain) \in Nat
      /\ DOMAIN chain = 1 .. Len(chain)
      /\ DOMAIN chain' = 1 .. (Len(chain) + 1)
      /\ \A i \in 1 .. Len(chain) : chain'[i] = chain[i]
      /\ chain'[Len(chain) + 1] = m
  BY <1>3
<1>5. \A k : OnChain(k)' <=> OnChain(k) \/ k = j
  <2>1. TAKE k
  <2>2. ASSUME OnChain(k) PROVE OnChain(k)'
    BY <1>4, <2>2 DEF OnChain
  <2>3. OnChain(j)'
    BY <1>3, <1>4 DEF OnChain
  <2>4. ASSUME OnChain(k)', k # j PROVE OnChain(k)
    BY <1>3, <1>4, <2>4 DEF OnChain
  <2>5. QED
    BY <2>2, <2>3, <2>4
<1>6. job[j] \in Works
  BY <1>1 DEF WorkKnown
<1>7. live' \subseteq Contracts /\ vault' \in [Contracts -> Nat]
  BY <1>1, <1>6 DEF Execute, TypeOK, Works
<1>8. TypeOK' /\ WorkKnown'
  BY <1>2, <1>4, <1>7 DEF TypeOK, WorkKnown
<1>9. UnsentHasNone'
  BY <1>1, <1>2, <1>5 DEF UnsentHasNone
<1>10. PendingIsNext' /\ NoncesRead'
  BY <1>2, <1>4 DEF PendingIsNext, NoncesRead, TypeOK
<1>11. MinedOnce'
  <2>1. \A i \in 1 .. Len(chain) : chain[i].job # j
    BY <1>1, <1>4 DEF OnChain
  <2>2. QED
    BY <1>3, <1>4, <2>1 DEF MinedOnce
<1>12. ReturnedMeansMined'
  BY <1>2, <1>5 DEF ReturnedMeansMined
<1>13. QED
  BY <1>8, <1>9, <1>10, <1>11, <1>12

\* A forgotten transaction, the death of the process, and no step at all.
LEMMA OtherInv ==
    ASSUME BlockchainInv, Drop \/ Crash \/ Quiescent \/ UNCHANGED vars
    PROVE  BlockchainInv'
<1> USE DEF BlockchainInv
<1>1. /\ UNCHANGED <<job, chain, live, vault, notified>>
      /\ nonce' \in [Jobs -> Nat]
      /\ \A j \in Jobs : phase'[j] = "sendTx" => nonce'[j] = nonce[j]
      /\ pool' \subseteq pool
      /\ phase' \in [Jobs -> Phases]
      /\ \A j \in Jobs :
            phase'[j] = phase[j] \/ (Running(j) /\ phase'[j] = "lost")
  BY DEF Drop, Crash, Quiescent, vars, node, TypeOK, Phases
<1>2. \A j : OnChain(j)' = OnChain(j)
  BY <1>1 DEF OnChain
<1>3. TypeOK' /\ WorkKnown'
  BY <1>1 DEF TypeOK, WorkKnown, Running
<1>4. UnsentHasNone' /\ PendingIsNext' /\ NoncesRead'
  BY <1>1, <1>2 DEF UnsentHasNone, PendingIsNext, NoncesRead
<1>5. MinedOnce' /\ ReturnedMeansMined'
  BY <1>1, <1>2 DEF MinedOnce, ReturnedMeansMined
<1>6. QED
  BY <1>3, <1>4, <1>5

\* Every step of the service and of the node keeps the invariant.
LEMMA NextInv == BlockchainInv /\ [Next]_vars => BlockchainInv'
<1> SUFFICES ASSUME BlockchainInv, [Next]_vars PROVE BlockchainInv'
  OBVIOUS
<1>1. ASSUME NEW j \in Jobs, NEW kind \in Kinds, NEW c \in Contracts,
             Submit(j, kind, c)
      PROVE  BlockchainInv'
  BY <1>1, SubmitInv
<1>2. ASSUME NEW j \in Jobs, Step(j) PROVE BlockchainInv'
  BY <1>2, LocalStepInv, SendInv DEF Step, Resume
<1>3. CASE Mine
  BY <1>3, MineInv
<1>4. CASE Drop \/ Crash \/ Quiescent \/ UNCHANGED vars
  BY <1>4, OtherInv
<1>5. QED
  BY <1>1, <1>2, <1>3, <1>4 DEF Next

-----------------------------------------------------------------------------
\* The inductive invariant holds in every reachable state.
THEOREM Invariance == Spec => []BlockchainInv
<1>1. Init => BlockchainInv
  BY InitInv
<1>2. BlockchainInv /\ [Next]_vars => BlockchainInv'
  BY NextInv
<1>3. QED
  BY <1>1, <1>2, PTL DEF Spec

\* Jobs, pool and chain keep their types.
THEOREM TypeCorrect == Spec => []TypeOK
<1>1. BlockchainInv => TypeOK
  BY DEF BlockchainInv
<1>2. QED
  BY <1>1, Invariance, PTL

\* No call of the service is mined twice.
THEOREM MinedExactly == Spec => []MinedOnce
<1>1. BlockchainInv => MinedOnce
  BY DEF BlockchainInv
<1>2. QED
  BY <1>1, Invariance, PTL

\* deploy_contract and fund_contract return only what is mined.
THEOREM ReturnsAreMined == Spec => []ReturnedMeansMined
<1>1. BlockchainInv => ReturnedMeansMined
  BY DEF BlockchainInv
<1>2. QED
  BY <1>1, Invariance, PTL

\* A forgotten or replaced transaction never leaves a gap of nonces.
THEOREM NoGaps == Spec => []NoStuckTransaction
<1>1. BlockchainInv => NoStuckTransaction
  <2> SUFFICES ASSUME BlockchainInv, NEW t \in pool,
                      NEW n \in Len(chain) .. (t.nonce - 1)
               PROVE  FALSE
    BY DEF NoStuckTransaction
  <2>1. t.nonce = Len(chain) /\ Len(chain) \in Nat
    BY DEF BlockchainInv, PendingIsNext, TypeOK
  <2>2. QED
    BY <2>1
<1>2. QED
  BY <1>1, Invariance, PTL
=============================================================================
