------------------------ MODULE PaymentIndexer_proofs ------------------------
(***************************************************************************)
(* The type invariant of PaymentIndexer.tla, and what holds of a payment   *)
(* however many webhook handlers, polls, reconciliations and crashes       *)
(* overlap, whatever the number of intents and child wallets.              *)
(***************************************************************************)
EXTENDS PaymentIndexer, FiniteSetTheorems, TLAPS

(* The actions, one by one. *)
LEMMA NextCases ==
    ASSUME Next
    PROVE  \/ \E w \in ChildWallets : Pay(w)
           \/ \E w \in ChildWallets : SettleWallet(w)
           \/ \E h \in Handlers, w \in ChildWallets : Deliver(h, w)
           \/ \E h \in Handlers :
                \/ PollPendingPayments(h)
                \/ VerifyTransaction(h)
                \/ \E i \in Intents, found \in BOOLEAN : CheckPaymentStatus(h, i, found)
                \/ \E i \in Intents : MissPaymentStatus(h, i)
                \/ SaveAwaiting(h)
                \/ BeginCompletion(h)
                \/ CreditBusinessWallet(h)
                \/ LinkReceiveTransaction(h)
                \/ DispatchWebhook(h)
                \/ CommitCompletion(h)
                \/ Fail(h)
           \/ \E r \in Reconcilers : LoadCompleted(r) \/ CheckLedger(r) \/ ReconcileCredit(r)
           \/ Crash
  <1>1. ASSUME NEW h \in Handlers, NEW i \in Intents,
               \/ CheckEvmPaymentStatus(h, i) \/ CheckCkbPaymentStatus(h, i)
               \/ CheckSolanaPaymentStatus(h, i) \/ CheckTronPaymentStatus(h, i)
        PROVE  \E found \in BOOLEAN : CheckPaymentStatus(h, i, found)
    <2>1. (balance[WalletOf[i]] >= Expected) \in BOOLEAN
      OBVIOUS
    <2>2. AboutExpected(balance[WalletOf[i]]) \in BOOLEAN
      BY DEF AboutExpected
    <2>3. QED
      BY <1>1, <2>1, <2>2
      DEF CheckEvmPaymentStatus, CheckCkbPaymentStatus, CheckSolanaPaymentStatus,
          CheckTronPaymentStatus
  <1>2. ASSUME NEW h \in Handlers,
               VerifyEvmPayment(h) \/ VerifySolanaPayment(h) \/ VerifyTronPayment(h)
        PROVE  VerifyTransaction(h)
    BY <1>2 DEF VerifyEvmPayment, VerifySolanaPayment, VerifyTronPayment
  <1>3. QED
    BY <1>1, <1>2 DEF Next, Step, HandlerStep, ReconcilerStep

(* A handler past the credit has tried it; so has whoever completed or     *)
(* announced the payment, or started a sweep.                              *)
CreditInv ==
    /\ CompletedWasCredited
    /\ \A h \in Handlers : pc[h] \in {"link", "notify", "commit"} => Accounted(cur[h])

(* A handler about to complete the receipt after a credit that succeeded   *)
(* has the ledger line.                                                    *)
ReceiptInv ==
    /\ ReceiptIsBacked
    /\ \A h \in Handlers : pc[h] = "link" /\ credited[h] => deposits[cur[h]] > 0

(* What creditBusinessWallet does to the ledger, the log and the failures. *)
LEMMA TryCreditEffect ==
    ASSUME TypeOK, NEW i \in Intents, NEW done \in BOOLEAN, TryCredit(i, done)
    PROVE  /\ deposits' \in [Intents -> Nat] /\ creditLog' \in [Intents -> BOOLEAN]
           /\ faults' \in Nat /\ faults' \in {faults, faults + 1}
           /\ \A j \in Intents : j # i => deposits'[j] = deposits[j]
           /\ deposits'[i] \in {deposits[i], deposits[i] + 1}
           /\ \A j \in Intents : creditLog[j] => creditLog'[j]
           /\ IF done THEN deposits'[i] = deposits[i] + 1 ELSE creditLog'[i]
           /\ ~done => deposits'[i] + faults <= deposits[i] + faults'
  <1> USE DEF TypeOK
  <1>1. CASE done /\ deposits' = [deposits EXCEPT ![i] = @ + 1] /\ UNCHANGED <<creditLog, faults>>
    BY <1>1
  <1>2. CASE /\ ~done /\ creditLog' = [creditLog EXCEPT ![i] = TRUE]
             /\ UNCHANGED <<deposits, faults>>
    BY <1>2
  <1>3. ASSUME ~done, faults' = faults + 1, creditLog' = [creditLog EXCEPT ![i] = TRUE],
               NEW n \in {0, 1}, deposits' = [deposits EXCEPT ![i] = @ + n]
        PROVE  /\ deposits' \in [Intents -> Nat] /\ creditLog' \in [Intents -> BOOLEAN]
               /\ \A j \in Intents : j # i => deposits'[j] = deposits[j]
               /\ deposits'[i] \in {deposits[i], deposits[i] + 1}
               /\ \A j \in Intents : creditLog[j] => creditLog'[j]
               /\ creditLog'[i]
               /\ deposits'[i] + faults <= deposits[i] + faults'
    BY <1>3
  <1>4. QED
    BY <1>1, <1>2, <1>3 DEF TryCredit

LEMMA TypeStep == ASSUME TypeOK, [Next]_vars PROVE TypeOK'
  <1>0. contended' \subseteq Intents
    BY DEF TypeOK, Next, Contended, vars
  <1> USE <1>0 DEF TypeOK, Goto, IntentStatuses, InTrx, intentVars, chainVars, handlerVars,
                   reconcilerVars
  <1>1. ASSUME NEW w \in ChildWallets, Pay(w) PROVE TypeOK'
    BY <1>1, BoundsAssumption DEF Pay
  <1>2. ASSUME NEW w \in ChildWallets, SettleWallet(w) PROVE TypeOK'
    BY <1>2 DEF SettleWallet
  <1>3. ASSUME NEW h \in Handlers, NEW w \in ChildWallets, Deliver(h, w) PROVE TypeOK'
    <2>1. events' \in [ChildWallets -> Nat]
      BY <1>3 DEF Deliver, Undelivered
    <2>2. CASE UNCHANGED <<cur, mem, pc>>
      BY <1>3, <2>1, <2>2 DEF Deliver
    <2>3. ASSUME NEW i \in Intents, cur' = [cur EXCEPT ![h] = i],
                 mem' = [mem EXCEPT ![h] = status[i]], Goto(h, "verify")
          PROVE  TypeOK'
      BY <1>3, <2>1, <2>3 DEF Deliver
    <2>4. QED BY <1>3, <2>2, <2>3 DEF Deliver
  <1>4. ASSUME NEW h \in Handlers, PollPendingPayments(h) PROVE TypeOK'
    BY <1>4 DEF PollPendingPayments
  <1>5. ASSUME NEW h \in Handlers, VerifyTransaction(h) PROVE TypeOK'
    <2>1. CASE pc' = [pc EXCEPT ![h] = "save"] /\ UNCHANGED <<mem, stamp, credited>>
      BY <1>5, <2>1 DEF VerifyTransaction
    <2>2. CASE NextIntent(h)
      BY <1>5, <2>2 DEF VerifyTransaction, NextIntent
    <2>3. QED BY <1>5, <2>1, <2>2 DEF VerifyTransaction
  <1>6. ASSUME NEW h \in Handlers, NEW i \in Intents, NEW found \in BOOLEAN,
               CheckPaymentStatus(h, i, found)
        PROVE  TypeOK'
    <2>1. /\ cur' \in [Handlers -> Intents]
          /\ mem' \in [Handlers -> IntentStatuses]
          /\ batch' \in [Handlers -> SUBSET Intents]
      BY <1>6 DEF CheckPaymentStatus
    <2>2. pc' \in [Handlers -> {"idle", "verify", "pick", "save", "complete"} \union InTrx]
      BY <1>6 DEF CheckPaymentStatus
    <2>3. QED BY <1>6, <2>1, <2>2 DEF CheckPaymentStatus
  <1>7. ASSUME NEW h \in Handlers, SaveAwaiting(h) PROVE TypeOK'
    BY <1>7 DEF SaveAwaiting, FoundStatus
  <1>8. ASSUME NEW h \in Handlers, BeginCompletion(h) PROVE TypeOK'
    BY <1>8 DEF BeginCompletion
  <1>9. ASSUME NEW h \in Handlers, CreditBusinessWallet(h) PROVE TypeOK'
    <2>1. PICK done \in BOOLEAN :
              /\ TryCredit(cur[h], done)
              /\ credited' = [credited EXCEPT ![h] = done]
      BY <1>9 DEF CreditBusinessWallet
    <2>2. QED BY <1>9, <2>1, TryCreditEffect DEF CreditBusinessWallet
  <1>10. ASSUME NEW h \in Handlers, LinkReceiveTransaction(h) PROVE TypeOK'
    BY <1>10 DEF LinkReceiveTransaction, Receipt
  <1>11. ASSUME NEW h \in Handlers, DispatchWebhook(h) PROVE TypeOK'
    BY <1>11 DEF DispatchWebhook
  <1>12. ASSUME NEW h \in Handlers, CommitCompletion(h) PROVE TypeOK'
    <2>1. rowLock' \in [Intents -> Handlers \union {None}]
      BY <1>12 DEF CommitCompletion, Release
    <2>2. sweeping' \subseteq ChildWallets /\ faults' \in Nat
      <3>1. WalletOf[cur[h]] \in ChildWallets
        BY WalletAssumption
      <3>2. QED BY <1>12, <3>1 DEF CommitCompletion
    <2>3. QED BY <1>12, <2>1, <2>2 DEF CommitCompletion, NextIntent
  <1>13. ASSUME NEW h \in Handlers, Fail(h) PROVE TypeOK'
    BY <1>13 DEF Fail, Release, NextIntent
  <1>14. ASSUME NEW r \in Reconcilers, LoadCompleted(r) PROVE TypeOK'
    BY <1>14 DEF LoadCompleted, Inspected
  <1>15. ASSUME NEW r \in Reconcilers, CheckLedger(r) PROVE TypeOK'
    BY <1>15 DEF CheckLedger
  <1>16. ASSUME NEW r \in Reconcilers, ReconcileCredit(r) PROVE TypeOK'
    <2>1. PICK done \in BOOLEAN :
              /\ TryCredit(rcur[r], done)
              /\ receiveTx' \in IF done THEN {receiveTx, [receiveTx EXCEPT ![rcur[r]] = "completed"]}
                                ELSE {receiveTx}
      BY <1>16 DEF ReconcileCredit
    <2>2. receiveTx' \in [Intents -> {"pending", "completed"}]
      BY <2>1
    <2>3. QED BY <1>16, <2>1, <2>2, TryCreditEffect DEF ReconcileCredit
  <1>17. CASE Crash
    BY <1>17 DEF Crash
  <1>18. ASSUME NEW h \in Handlers, NEW i \in Intents, MissPaymentStatus(h, i) PROVE TypeOK'
    BY <1>18 DEF MissPaymentStatus
  <1>19. CASE UNCHANGED vars
    BY <1>19 DEF vars, codeVars
  <1>20. QED
    BY <1>1, <1>2, <1>3, <1>4, <1>5, <1>6, <1>7, <1>8, <1>9, <1>10, <1>11, <1>12,
       <1>13, <1>14, <1>15, <1>16, <1>17, <1>18, <1>19, NextCases

(* Every variable keeps its type: lines 147-1029 of PaymentIndexerService, *)
(* the settlement of a child wallet and the reconciliation command.        *)
THEOREM TypeCorrect == Spec => []TypeOK
  <1>1. Init => TypeOK
    BY DEF Init, TypeOK, Networks, IntentStatuses, InTrx
  <1>2. TypeOK /\ [Next]_vars => TypeOK'
    BY TypeStep
  <1>3. QED
    BY <1>1, <1>2, PTL DEF Spec

(* Only a step of credit touches the ledger or the log, and nothing is     *)
(* ever taken back from them.                                              *)
LEMMA NothingIsTakenBack ==
    ASSUME TypeOK, [Next]_vars, NEW i \in Intents
    PROVE  /\ deposits'[i] >= deposits[i] /\ deposits'[i] \in Nat
           /\ creditLog[i] => creditLog'[i]
           /\ Accounted(i) => Accounted(i)'
  <1> USE DEF TypeOK, intentVars
  <1>1. ASSUME NEW h \in Handlers, CreditBusinessWallet(h)
        PROVE  deposits'[i] >= deposits[i] /\ deposits'[i] \in Nat /\ (creditLog[i] => creditLog'[i])
    <2>1. PICK done \in BOOLEAN : TryCredit(cur[h], done)
      BY <1>1 DEF CreditBusinessWallet
    <2>2. cur[h] \in Intents
      OBVIOUS
    <2>3. QED
      <3>1. CASE i = cur[h]
        BY <2>1, <2>2, <3>1, TryCreditEffect
      <3>2. CASE i # cur[h]
        BY <2>1, <2>2, <3>2, TryCreditEffect
      <3>3. QED BY <3>1, <3>2
  <1>2. ASSUME NEW r \in Reconcilers, ReconcileCredit(r)
        PROVE  deposits'[i] >= deposits[i] /\ deposits'[i] \in Nat /\ (creditLog[i] => creditLog'[i])
    <2>1. PICK done \in BOOLEAN : TryCredit(rcur[r], done)
      BY <1>2 DEF ReconcileCredit
    <2>2. rcur[r] \in Intents
      OBVIOUS
    <2>3. QED
      <3>1. CASE i = rcur[r]
        BY <2>1, <2>2, <3>1, TryCreditEffect
      <3>2. CASE i # rcur[r]
        BY <2>1, <2>2, <3>2, TryCreditEffect
      <3>3. QED BY <3>1, <3>2
  <1>3. CASE UNCHANGED <<deposits, creditLog>>
    BY <1>3 DEF Accounted
  <1>4. QED
    <2>1. CASE UNCHANGED vars
      BY <1>3, <2>1 DEF vars, codeVars
    <2>2. CASE Next
      BY <2>2, NextCases, <1>1, <1>2, <1>3
      DEF Accounted, Pay, SettleWallet, Deliver, PollPendingPayments, VerifyTransaction,
          CheckPaymentStatus, MissPaymentStatus, SaveAwaiting, BeginCompletion,
          LinkReceiveTransaction, DispatchWebhook, CommitCompletion, Fail, LoadCompleted,
          CheckLedger, Crash
    <2>3. QED BY <2>1, <2>2

(* A completed or announced payment was credited, or its credit is in the  *)
(* log; so was one to every child wallet that is swept (lines 589-651,     *)
(* 656, 751, 780).                                                         *)
THEOREM CompletedAlwaysCredited == Spec => []CompletedWasCredited
  <1>1. Init => CreditInv
    BY DEF Init, CreditInv, CompletedWasCredited
  <1>2. TypeOK /\ CreditInv /\ [Next]_vars => CreditInv'
    <2> SUFFICES ASSUME TypeOK, CreditInv, [Next]_vars PROVE CreditInv'
      OBVIOUS
    <2>1. ASSUME NEW i \in Intents, Accounted(i) PROVE Accounted(i)'
      BY <2>1, NothingIsTakenBack
    <2>2. ASSUME NEW h \in Handlers, pc[h] \in {"link", "notify", "commit"}
          PROVE  \E i \in Intents : i = cur[h] /\ Accounted(i) /\ Accounted(i)'
      <3>1. cur[h] \in Intents /\ Accounted(cur[h])
        BY <2>2 DEF CreditInv, TypeOK
      <3>2. QED BY <3>1, <2>1
    <2>3. ASSUME NEW i \in Intents, status'[i] = "completed" \/ dispatched'[i]
          PROVE  Accounted(i)'
      <3>1. CASE status[i] = "completed" \/ dispatched[i]
        BY <3>1, <2>1 DEF CreditInv, CompletedWasCredited
      <3>2. CASE ~(status[i] = "completed" \/ dispatched[i])
        <4>1. PICK h \in Handlers : (CommitCompletion(h) \/ DispatchWebhook(h)) /\ i = cur[h]
          BY <2>3, <3>2, NextCases
          DEF vars, codeVars, intentVars, TypeOK, FoundStatus, Pay, SettleWallet, Deliver,
              PollPendingPayments, VerifyTransaction, CheckPaymentStatus, MissPaymentStatus,
              SaveAwaiting, BeginCompletion, CreditBusinessWallet, LinkReceiveTransaction,
              DispatchWebhook, CommitCompletion, Fail, LoadCompleted, CheckLedger,
              ReconcileCredit, Crash
        <4>2. pc[h] \in {"link", "notify", "commit"}
          BY <4>1 DEF CommitCompletion, DispatchWebhook
        <4>3. QED BY <4>1, <4>2, <2>2
      <3>3. QED BY <3>1, <3>2
    <2>4. ASSUME NEW w \in ChildWallets, child'[w] = "flushed" \/ w \in sweeping'
          PROVE  \E i \in Intents : WalletOf[i] = w /\ Accounted(i)'
      <3>1. CASE child[w] = "flushed" \/ w \in sweeping
        <4>1. PICK i \in Intents : WalletOf[i] = w /\ Accounted(i)
          BY <3>1 DEF CreditInv, CompletedWasCredited
        <4>2. QED BY <4>1, <2>1
      <3>2. CASE ~(child[w] = "flushed" \/ w \in sweeping)
        <4>1. PICK h \in Handlers : CommitCompletion(h) /\ w = WalletOf[cur[h]]
          <5>1. Next
            BY <2>4, <3>2 DEF vars, codeVars, chainVars
          <5>2. ASSUME NEW v \in ChildWallets, SettleWallet(v)
                PROVE  child'[w] # "flushed" /\ w \notin sweeping'
            BY <3>2, <5>2 DEF SettleWallet, TypeOK
          <5>3. QED
            BY <2>4, <3>2, <5>1, <5>2, NextCases
            DEF chainVars, TypeOK, Pay, Deliver,
              PollPendingPayments, VerifyTransaction, CheckPaymentStatus, MissPaymentStatus,
              SaveAwaiting, BeginCompletion, CreditBusinessWallet, LinkReceiveTransaction,
              DispatchWebhook, CommitCompletion, Fail, LoadCompleted, CheckLedger,
              ReconcileCredit, Crash
        <4>2. pc[h] \in {"link", "notify", "commit"}
          BY <4>1 DEF CommitCompletion
        <4>3. QED BY <4>1, <4>2, <2>2
      <3>3. QED BY <3>1, <3>2
    <2>5. ASSUME NEW h \in Handlers, pc'[h] \in {"link", "notify", "commit"}
          PROVE  \E i \in Intents : i = cur'[h] /\ Accounted(i)'
      <3>1. CASE CreditBusinessWallet(h)
        <4>1. PICK done \in BOOLEAN : TryCredit(cur[h], done)
          BY <3>1 DEF CreditBusinessWallet
        <4>2. cur' = cur /\ cur[h] \in Intents
          BY <3>1 DEF CreditBusinessWallet, TypeOK
        <4>3. deposits'[cur[h]] > 0 \/ creditLog'[cur[h]]
          BY <4>1, <4>2, TryCreditEffect DEF TypeOK
        <4>4. QED BY <4>2, <4>3 DEF Accounted
      <3>2. CASE ~CreditBusinessWallet(h)
        <4>1. pc[h] \in {"link", "notify", "commit"} /\ cur'[h] = cur[h]
          BY <2>5, <3>2, NextCases
          DEF vars, codeVars, handlerVars, TypeOK, Goto, NextIntent, Pay, SettleWallet, Deliver,
              PollPendingPayments, VerifyTransaction, CheckPaymentStatus, MissPaymentStatus,
              SaveAwaiting, BeginCompletion, CreditBusinessWallet, LinkReceiveTransaction,
              DispatchWebhook, CommitCompletion, Fail, LoadCompleted, CheckLedger,
              ReconcileCredit, Crash
        <4>2. QED BY <4>1, <2>2 DEF Accounted
      <3>3. QED BY <3>1, <3>2
    <2>6. sweeping' \subseteq ChildWallets
      BY TypeStep DEF TypeOK
    <2>7. CompletedWasCredited'
      BY <2>3, <2>4, <2>6 DEF CompletedWasCredited
    <2>8. QED BY <2>5, <2>7 DEF CreditInv, Accounted
  <1>3. CreditInv => CompletedWasCredited
    BY DEF CreditInv
  <1>4. QED
    BY <1>1, <1>2, <1>3, TypeCorrect, PTL DEF Spec

(* A receipt shown as completed is backed by a ledger line (lines 610-620, *)
(* 792-803).                                                               *)
THEOREM ReceiptAlwaysBacked == Spec => []ReceiptIsBacked
  <1>1. Init => ReceiptInv
    BY DEF Init, ReceiptInv, ReceiptIsBacked
  <1>2. TypeOK /\ ReceiptInv /\ [Next]_vars => ReceiptInv'
    <2> SUFFICES ASSUME TypeOK, ReceiptInv, [Next]_vars PROVE ReceiptInv'
      OBVIOUS
    <2>1. ASSUME NEW i \in Intents, deposits[i] > 0 PROVE deposits'[i] > 0
      BY <2>1, NothingIsTakenBack DEF TypeOK
    <2>2. ASSUME NEW i \in Intents, receiveTx'[i] = "completed" PROVE deposits'[i] > 0
      <3>1. CASE receiveTx[i] = "completed"
        BY <3>1, <2>1 DEF ReceiptInv, ReceiptIsBacked
      <3>2. ASSUME NEW r \in Reconcilers, ReconcileCredit(r), receiveTx[i] # "completed"
            PROVE  deposits'[i] > 0
        <4>1. PICK done \in BOOLEAN :
                /\ TryCredit(rcur[r], done)
                /\ receiveTx' \in IF done THEN {receiveTx, [receiveTx EXCEPT ![rcur[r]] = "completed"]}
                                  ELSE {receiveTx}
          BY <3>2 DEF ReconcileCredit
        <4>2. done /\ i = rcur[r]
          BY <2>2, <3>2, <4>1 DEF TypeOK
        <4>3. deposits'[i] = deposits[i] + 1
          BY <4>1, <4>2, TryCreditEffect
        <4>4. QED BY <4>3 DEF TypeOK
      <3>3. CASE receiveTx[i] # "completed" /\ \A r \in Reconcilers : ~ReconcileCredit(r)
        <4>1. PICK h \in Handlers : LinkReceiveTransaction(h) /\ i = cur[h]
          BY <2>2, <3>3, NextCases
          DEF vars, codeVars, intentVars, TypeOK, Pay, SettleWallet, Deliver,
              PollPendingPayments, VerifyTransaction, CheckPaymentStatus, MissPaymentStatus,
              SaveAwaiting, BeginCompletion, CreditBusinessWallet, LinkReceiveTransaction,
              DispatchWebhook, CommitCompletion, Fail, LoadCompleted, CheckLedger, Crash
        <4>2. credited[h] /\ pc[h] = "link" /\ deposits' = deposits
          BY <2>2, <3>3, <4>1 DEF LinkReceiveTransaction, Receipt, TypeOK
        <4>3. QED BY <4>1, <4>2 DEF ReceiptInv
      <3>4. QED BY <3>1, <3>2, <3>3
    <2>3. ASSUME NEW h \in Handlers, pc'[h] = "link", credited'[h]
          PROVE  deposits'[cur'[h]] > 0
      <3>1. CASE CreditBusinessWallet(h)
        <4>1. PICK done \in BOOLEAN :
                /\ TryCredit(cur[h], done)
                /\ credited' = [credited EXCEPT ![h] = done]
          BY <3>1 DEF CreditBusinessWallet
        <4>2. cur' = cur /\ cur[h] \in Intents /\ done
          BY <2>3, <3>1, <4>1 DEF CreditBusinessWallet, TypeOK
        <4>3. deposits'[cur[h]] = deposits[cur[h]] + 1
          BY <4>1, <4>2, TryCreditEffect
        <4>4. QED BY <4>2, <4>3 DEF TypeOK
      <3>2. CASE ~CreditBusinessWallet(h)
        <4>1. pc[h] = "link" /\ credited[h] /\ cur'[h] = cur[h]
          BY <2>3, <3>2, NextCases
          DEF vars, codeVars, handlerVars, TypeOK, Goto, NextIntent, Pay, SettleWallet, Deliver,
              PollPendingPayments, VerifyTransaction, CheckPaymentStatus, MissPaymentStatus,
              SaveAwaiting, BeginCompletion, CreditBusinessWallet, LinkReceiveTransaction,
              DispatchWebhook, CommitCompletion, Fail, LoadCompleted, CheckLedger,
              ReconcileCredit, Crash
        <4>2. cur[h] \in Intents /\ deposits[cur[h]] > 0
          BY <4>1 DEF ReceiptInv, TypeOK
        <4>3. QED BY <4>1, <4>2, <2>1
      <3>3. QED BY <3>1, <3>2
    <2>4. QED BY <2>2, <2>3 DEF ReceiptInv, ReceiptIsBacked
  <1>3. ReceiptInv => ReceiptIsBacked
    BY DEF ReceiptInv
  <1>4. QED
    BY <1>1, <1>2, <1>3, TypeCorrect, PTL DEF Spec

-----------------------------------------------------------------------------
(* A payment no two runs have worked on at once is credited once, and once *)
(* more for each failure at most.                                          *)

(* A handler that has credited its intent and has not completed it. *)
After(h) == pc[h] \in {"link", "notify", "commit"}

(* What holds of an intent that was never contended: one run at most has   *)
(* taken it up; a handler only while it is open, a reconciler only once it *)
(* is completed and, at the credit, has no ledger line; and its ledger     *)
(* lines are no more than the failures, but for the one that goes with its *)
(* completion.                                                             *)
OpenInv ==
    /\ \A h \in Handlers : pc[h] = "idle" => batch[h] = {}
    /\ \A h \in Handlers : pc[h] \notin {"idle", "pick"} => cur[h] \notin batch[h]

AloneInv(i) ==
    /\ \A a, b \in WorkingOn(i) : a = b
    /\ \A h \in Handlers : h \in WorkingOn(i) => status[i] # "completed"
    /\ \A r \in Reconcilers : i \in rbatch[r] => status[i] = "completed"
    /\ \A r \in Reconcilers : rpc[r] = "credit" /\ rcur[r] = i =>
            status[i] = "completed" /\ deposits[i] = 0
    /\ \/ deposits[i] <= faults
       \/ /\ deposits[i] <= faults + 1
          /\ status[i] = "completed" \/ \E h \in Handlers : After(h) /\ cur[h] = i

OnceInv == OpenInv /\ \A i \in Intents \ contended : AloneInv(i)

LEMMA OnceInitially == Init => OnceInv
  BY DEF Init, OnceInv, OpenInv, AloneInv, WorkingOn, After

LEMMA OpenStep ==
    ASSUME TypeOK, OpenInv, [Next]_vars
    PROVE  OpenInv'
  <1> USE DEF OpenInv, TypeOK, Goto, intentVars, chainVars, handlerVars, reconcilerVars
  <1>1. ASSUME NEW h \in Handlers, NEW w \in ChildWallets, Deliver(h, w) PROVE OpenInv'
    BY <1>1 DEF Deliver
  <1>2. ASSUME NEW h \in Handlers, PollPendingPayments(h) PROVE OpenInv'
    BY <1>2 DEF PollPendingPayments
  <1>3. ASSUME NEW h \in Handlers, VerifyTransaction(h) PROVE OpenInv'
    BY <1>3 DEF VerifyTransaction, NextIntent
  <1>4. ASSUME NEW h \in Handlers, NEW i \in Intents, NEW found \in BOOLEAN,
               CheckPaymentStatus(h, i, found)
        PROVE  OpenInv'
    BY <1>4 DEF CheckPaymentStatus
  <1>5. ASSUME NEW h \in Handlers, NEW i \in Intents, MissPaymentStatus(h, i) PROVE OpenInv'
    BY <1>5 DEF MissPaymentStatus
  <1>6. ASSUME NEW h \in Handlers,
               \/ SaveAwaiting(h) \/ BeginCompletion(h) \/ CreditBusinessWallet(h)
               \/ LinkReceiveTransaction(h) \/ DispatchWebhook(h)
        PROVE  OpenInv'
    BY <1>6 DEF SaveAwaiting, BeginCompletion, CreditBusinessWallet, LinkReceiveTransaction,
                DispatchWebhook
  <1>7. ASSUME NEW h \in Handlers, CommitCompletion(h) \/ Fail(h) PROVE OpenInv'
    BY <1>7 DEF CommitCompletion, Fail, NextIntent
  <1>8. CASE Crash
    BY <1>8 DEF Crash
  <1>9. CASE UNCHANGED <<pc, cur, batch>>
    BY <1>9
  <1>10. CASE UNCHANGED vars
    BY <1>9, <1>10 DEF vars, codeVars
  <1>11. QED
    BY <1>1, <1>2, <1>3, <1>4, <1>5, <1>6, <1>7, <1>8, <1>9, <1>10, NextCases
    DEF Pay, SettleWallet, LoadCompleted, CheckLedger, ReconcileCredit

LEMMA AloneStep ==
    ASSUME TypeOK, OnceInv, [Next]_vars, NEW i \in Intents \ contended'
    PROVE  AloneInv(i)'
  <1>0. /\ i \in Intents /\ i \notin contended /\ AloneInv(i) /\ OpenInv
        /\ \A a, b \in WorkingOn(i)' : a = b
    <2>1. CASE UNCHANGED vars
      BY <2>1 DEF vars, codeVars, handlerVars, reconcilerVars, OnceInv, AloneInv, WorkingOn
    <2>2. CASE Next
      BY <2>2 DEF Next, Contended, OnceInv
    <2>3. QED BY <2>1, <2>2
  <1> USE <1>0, RunsAssumption
      DEF OpenInv, AloneInv, WorkingOn, After, TypeOK, Goto, intentVars, chainVars,
          handlerVars, reconcilerVars
  <1>1. ASSUME NEW w \in ChildWallets, Pay(w) \/ SettleWallet(w) PROVE AloneInv(i)'
    BY <1>1 DEF Pay, SettleWallet
  <1>2. ASSUME NEW h \in Handlers, NEW w \in ChildWallets, Deliver(h, w) PROVE AloneInv(i)'
    BY <1>2 DEF Deliver, StillOpen
  <1>3. ASSUME NEW h \in Handlers, PollPendingPayments(h) PROVE AloneInv(i)'
    BY <1>3 DEF PollPendingPayments, Polled
  <1>4. ASSUME NEW h \in Handlers, VerifyTransaction(h) PROVE AloneInv(i)'
    BY <1>4 DEF VerifyTransaction, NextIntent
  <1>5. ASSUME NEW h \in Handlers, NEW j \in Intents, NEW found \in BOOLEAN,
               CheckPaymentStatus(h, j, found)
        PROVE  AloneInv(i)'
    BY <1>5 DEF CheckPaymentStatus
  <1>6. ASSUME NEW h \in Handlers, NEW j \in Intents, MissPaymentStatus(h, j) PROVE AloneInv(i)'
    BY <1>6 DEF MissPaymentStatus
  <1>7. ASSUME NEW h \in Handlers, SaveAwaiting(h) PROVE AloneInv(i)'
    BY <1>7 DEF SaveAwaiting, FoundStatus
  <1>8. ASSUME NEW h \in Handlers, BeginCompletion(h) PROVE AloneInv(i)'
    BY <1>8 DEF BeginCompletion
  <1>9. ASSUME NEW h \in Handlers, CreditBusinessWallet(h) PROVE AloneInv(i)'
    <2>1. PICK done \in BOOLEAN : TryCredit(cur[h], done)
      BY <1>9 DEF CreditBusinessWallet
    <2>2. /\ pc[h] = "credit" /\ pc' = [pc EXCEPT ![h] = "link"]
          /\ UNCHANGED <<status, cur, batch, rpc, rcur, rbatch>>
      BY <1>9 DEF CreditBusinessWallet
    <2>3. CASE i # cur[h]
      BY <2>1, <2>2, <2>3, TryCreditEffect
    <2>4. CASE i = cur[h]
      <3>1. h \in WorkingOn(i) /\ status[i] # "completed"
        BY <2>2, <2>4
      <3>2. \A g \in Handlers : ~(After(g) /\ cur[g] = i)
        BY <2>2, <3>1
      <3>3. \A r \in Reconcilers : ~(rpc[r] = "credit" /\ rcur[r] = i)
        BY <3>1
      <3>4. deposits[i] <= faults
        BY <3>1, <3>2
      <3>5. deposits'[i] <= faults' + 1
        <4>1. /\ deposits'[i] \in {deposits[i], deposits[i] + 1}
              /\ faults' \in {faults, faults + 1}
          BY <2>1, <2>4, TryCreditEffect
        <4>2. deposits[i] \in Nat /\ faults \in Nat
          OBVIOUS
        <4>3. QED BY ONLY <3>4, <4>1, <4>2
      <3>6. After(h)' /\ cur'[h] = i
        BY <2>2, <2>4
      <3>7. \A g \in Handlers : g \in WorkingOn(i)' => status'[i] # "completed"
        BY <2>2, <3>1
      <3>8. \A r \in Reconcilers : i \in rbatch'[r] => status'[i] = "completed"
        BY <2>2
      <3>9. \A r \in Reconcilers : ~(rpc'[r] = "credit" /\ rcur'[r] = i)
        BY <2>2, <3>3
      <3>10. \E g \in Handlers : After(g)' /\ cur'[g] = i
        BY <3>6
      <3>11. QED BY <1>0, <3>5, <3>7, <3>8, <3>9, <3>10 DEF AloneInv
    <2>5. QED BY <2>3, <2>4
  <1>10. ASSUME NEW h \in Handlers, LinkReceiveTransaction(h) \/ DispatchWebhook(h)
         PROVE  AloneInv(i)'
    BY <1>10 DEF LinkReceiveTransaction, DispatchWebhook
  <1>11. ASSUME NEW h \in Handlers, CommitCompletion(h) PROVE AloneInv(i)'
    BY <1>11 DEF CommitCompletion, NextIntent
  <1>12. ASSUME NEW h \in Handlers, Fail(h) PROVE AloneInv(i)'
    BY <1>12 DEF Fail, NextIntent
  <1>13. ASSUME NEW r \in Reconcilers, LoadCompleted(r) PROVE AloneInv(i)'
    BY <1>13 DEF LoadCompleted, Inspected
  <1>14. ASSUME NEW r \in Reconcilers, CheckLedger(r) PROVE AloneInv(i)'
    BY <1>14 DEF CheckLedger, Unsettled
  <1>15. ASSUME NEW r \in Reconcilers, ReconcileCredit(r) PROVE AloneInv(i)'
    <2>1. PICK done \in BOOLEAN : TryCredit(rcur[r], done)
      BY <1>15 DEF ReconcileCredit
    <2>2. /\ rpc[r] = "credit" /\ rpc'[r] # "credit"
          /\ \A q \in Reconcilers : q # r => rpc'[q] = rpc[q]
          /\ UNCHANGED <<status, pc, cur, batch, rcur, rbatch>>
      BY <1>15 DEF ReconcileCredit
    <2>3. CASE i # rcur[r]
      <3>1. deposits'[i] = deposits[i] /\ faults' \in {faults, faults + 1}
        BY <2>1, <2>3, TryCreditEffect
      <3>2. deposits[i] <= faults => deposits'[i] <= faults'
        BY <3>1
      <3>3. deposits[i] <= faults + 1 => deposits'[i] <= faults' + 1
        BY <3>1
      <3>4. QED BY <2>2, <2>3, <3>1, <3>2, <3>3
    <2>4. CASE i = rcur[r]
      <3>1. r \in WorkingOn(i) /\ status[i] = "completed" /\ deposits[i] = 0
        BY <2>2, <2>4
      <3>2. deposits'[i] <= faults' + 1
        <4>1. /\ deposits'[i] \in {deposits[i], deposits[i] + 1}
              /\ faults' \in {faults, faults + 1}
          BY <2>1, <2>4, TryCreditEffect
        <4>2. faults \in Nat
          OBVIOUS
        <4>3. QED BY ONLY <3>1, <4>1, <4>2
      <3>3. \A q \in Reconcilers : ~(rpc'[q] = "credit" /\ rcur'[q] = i)
        BY <2>2, <3>1
      <3>4. /\ \A a, b \in WorkingOn(i)' : a = b
            /\ \A h \in Handlers : h \in WorkingOn(i)' => status'[i] # "completed"
            /\ \A q \in Reconcilers : i \in rbatch'[q] => status'[i] = "completed"
            /\ status'[i] = "completed"
        BY <2>2, <3>1
      <3>5. QED BY ONLY <3>2, <3>3, <3>4 DEF AloneInv, WorkingOn, After
    <2>5. QED BY <2>3, <2>4
  <1>16. CASE Crash
    BY <1>16 DEF Crash
  <1>17. CASE UNCHANGED vars
    BY <1>17 DEF vars, codeVars
  <1>18. QED
    BY <1>1, <1>2, <1>3, <1>4, <1>5, <1>6, <1>7, <1>8, <1>9, <1>10, <1>11, <1>12, <1>13,
       <1>14, <1>15, <1>16, <1>17, NextCases

LEMMA OnceStep == TypeOK /\ OnceInv /\ [Next]_vars => OnceInv'
  BY AloneStep, OpenStep DEF OnceInv

(* However often events are delivered, polls run and steps fail: it takes  *)
(* two runs on a payment at once, or a failure for each credit too many,   *)
(* to credit it more than once (lines 147-350, ReconcileCompletedPayments  *)
(* 78-141).                                                                *)
THEOREM CreditedAgainOnly == Spec => []CreditedAgainOnlyIf
  <1>1. TypeOK /\ OnceInv => CreditedAgainOnlyIf
    BY DEF OnceInv, AloneInv, CreditedAgainOnlyIf, TypeOK
  <1>2. QED
    BY <1>1, OnceStep, OnceInitially, TypeCorrect, PTL DEF Spec

(* A completed payment stays completed unless two runs worked on it at     *)
(* once, whatever fails (lines 157-161, 224-226).                          *)
THEOREM CompletionAlwaysFinal == Spec => CompletionIsFinal
  <1>1. TypeOK /\ OnceInv /\ [Next]_vars
        => [\A i \in Intents \ contended :
                status[i] = "completed" => status'[i] = "completed"]_vars
    <2> SUFFICES ASSUME TypeOK, OnceInv, Next, NEW i \in Intents \ contended,
                        status[i] = "completed"
                 PROVE  status'[i] = "completed"
      OBVIOUS
    <2>1. ASSUME NEW h \in Handlers, SaveAwaiting(h) PROVE status'[i] = "completed"
      <3>1. cur[h] = i => h \in WorkingOn(i)
        BY <2>1 DEF SaveAwaiting, WorkingOn
      <3>2. cur[h] # i
        BY <3>1 DEF OnceInv, AloneInv
      <3>3. QED BY <2>1, <3>2 DEF SaveAwaiting, TypeOK
    <2>2. ASSUME NEW h \in Handlers, CommitCompletion(h) PROVE status'[i] = "completed"
      BY <2>2 DEF CommitCompletion, TypeOK
    <2>3. CASE status' = status
      BY <2>3
    <2>4. QED
      BY <2>1, <2>2, <2>3, NextCases
      DEF intentVars, Pay, SettleWallet, Deliver, PollPendingPayments, VerifyTransaction,
          CheckPaymentStatus, MissPaymentStatus, BeginCompletion, CreditBusinessWallet,
          LinkReceiveTransaction, DispatchWebhook, Fail, LoadCompleted, CheckLedger,
          ReconcileCredit, Crash
  <1>2. QED
    BY <1>1, OnceStep, OnceInitially, TypeCorrect, PTL DEF Spec, CompletionIsFinal
=============================================================================
