---------------------------- MODULE PaymentIndexer ----------------------------
(***************************************************************************)
(* How a payment on a chain becomes a credit of the business's wallet:     *)
(* app/Services/PaymentIndexerService.ts, driven by the provider's         *)
(* webhook, by the poller and by the reconciliation command.               *)
(*                                                                         *)
(* A handler is one run of handleWebhookEvent or of pollPendingPayments.   *)
(* It works on an in-memory copy of the intent (mem: the status it was     *)
(* loaded with, until it is saved) that it never reads again, and goes     *)
(*   "idle" -> "verify" -> "save" -> "complete" -> "credit" -> "link"      *)
(*          -> "notify" -> "commit" -> the next intent of the poll, or     *)
(*   "idle".                                                               *)
(* From "credit" to "commit" it holds, in the transaction of               *)
(* onPaymentConfirmed, the row lock of the intent it has updated; but the  *)
(* credit, the update of the receive transaction and the webhook to the    *)
(* merchant are done outside that transaction and outlive its rollback.    *)
(* A credit is one atomic step here: UserWalletService.tla shows it is.    *)
(***************************************************************************)
EXTENDS Integers, FiniteSets

CONSTANTS
    Intents,        \* payment_intents with a child wallet
    ChildWallets,   \* rows of wallets
    WalletOf,       \* the child wallet of each intent; two may share one
    Creditable,     \* intents that name business, amount and currency, and
                    \* whose amount is more than the platform's fee
    Handlers,       \* webhook and poll runs the process can have in flight
    Reconcilers,    \* runs of payments:reconcile-completed --apply
    None,           \* the owner of an intent row nobody has locked
    Limit,          \* completed payments the command inspects: --limit, or 1000
    MaxDeliveries,  \* bound: times the provider delivers one event
    MaxInFlight,    \* bound: handlers at work at the same time
    MaxFaults,      \* bound: failed steps and crashes in one behaviour
    UsePolling      \* whether the poller runs at all

ASSUME WalletAssumption == WalletOf \in [Intents -> ChildWallets]
ASSUME CreditableAssumption == Creditable \subseteq Intents
ASSUME RunsAssumption == None \notin Handlers /\ Handlers \intersect Reconcilers = {}
ASSUME BoundsAssumption ==
    /\ Limit \in Nat \ {0}
    /\ MaxDeliveries \in Nat /\ MaxInFlight \in Nat /\ MaxFaults \in Nat
    /\ UsePolling \in BOOLEAN

VARIABLES
    network,    \* networkType of each child wallet's currency
    status,     \* committed status of each intent
    completedAt,    \* and when it was completed
    rowLock,    \* the handler whose open transaction has updated the intent row
    child,      \* status of each child wallet: "active" or "flushed"
    balance,    \* what lies on the child wallet's address
    paid,       \* whether the customer ever paid to it
    events,     \* deliveries of its payment event still to come
    deposits,   \* DEPOSIT lines in the ledger whose reference is the intent
    creditLog,  \* whether the log says a credit of it was refused or failed
    receiveTx,  \* status of the intent's receive transaction
    dispatched, \* whether payment.confirmed was handed to the dispatcher
    sweeping,   \* child wallets whose settlement runs in the background
    pc, cur, mem, stamp, batch, credited,   \* of each handler
    rpc, rcur, rbatch,                      \* of each reconciler
    clock,      \* the time: completions begun so far
    contended,  \* history: intents that two runs have worked on at once
    faults      \* failed steps so far

intentVars == <<status, completedAt, rowLock, deposits, creditLog, receiveTx, dispatched>>
chainVars == <<network, child, balance, paid, events, sweeping>>
handlerVars == <<pc, cur, mem, stamp, batch, credited, clock>>
reconcilerVars == <<rpc, rcur, rbatch>>
codeVars == <<intentVars, chainVars, handlerVars, reconcilerVars, faults>>
vars == <<codeVars, contended>>

Networks == {"evm", "ckb", "solana", "tron"}

IntentStatuses == {"created", "awaiting", "completed"}

(* The steps of a handler inside onPaymentConfirmed's transaction. *)
InTrx == {"credit", "link", "notify", "commit"}

(* feeInCrypto ?? 0: no code ever writes the column. *)
Expected == 0

Busy == {h \in Handlers : pc[h] # "idle"}

(* The runs that have taken up the intent and may yet credit it: handlers  *)
(* that work on it or will in their poll, and reconcilers that found no    *)
(* ledger line.                                                            *)
WorkingOn(i) ==
    {h \in Handlers : i \in batch[h] \/ (pc[h] \notin {"idle", "pick"} /\ cur[h] = i)}
    \union {r \in Reconcilers : rpc[r] = "credit" /\ rcur[r] = i}

Init ==
    /\ network \in [ChildWallets -> Networks]
    /\ status = [i \in Intents |-> "created"]
    /\ completedAt = [i \in Intents |-> 0]
    /\ rowLock = [i \in Intents |-> None]
    /\ deposits = [i \in Intents |-> 0]
    /\ creditLog = [i \in Intents |-> FALSE]
    /\ receiveTx = [i \in Intents |-> "pending"]
    /\ dispatched = [i \in Intents |-> FALSE]
    /\ child = [w \in ChildWallets |-> "active"]
    /\ balance = [w \in ChildWallets |-> 0]
    /\ paid = [w \in ChildWallets |-> FALSE]
    /\ events = [w \in ChildWallets |-> 0]
    /\ sweeping = {}
    /\ pc = [h \in Handlers |-> "idle"]
    /\ cur \in [Handlers -> Intents]
    /\ mem = [h \in Handlers |-> "created"]
    /\ stamp = [h \in Handlers |-> 0]
    /\ batch = [h \in Handlers |-> {}]
    /\ credited = [h \in Handlers |-> FALSE]
    /\ rpc = [r \in Reconcilers |-> "idle"]
    /\ rcur \in [Reconcilers -> Intents]
    /\ rbatch = [r \in Reconcilers |-> {}]
    /\ clock = 0
    /\ contended = {}
    /\ faults = 0

Goto(h, label) == pc' = [pc EXCEPT ![h] = label]

(* A handler that is through with its intent forgets it and takes up the   *)
(* next one of its poll; a webhook handler and a finished poll are idle    *)
(* again.                                                                  *)
NextIntent(h) ==
    /\ Goto(h, IF batch[h] = {} THEN "idle" ELSE "pick")
    /\ stamp' = [stamp EXCEPT ![h] = 0]
    /\ mem' = [mem EXCEPT ![h] = "created"]
    /\ credited' = [credited EXCEPT ![h] = FALSE]

Release(h) == rowLock' = [i \in Intents |-> IF rowLock[i] = h THEN None ELSE rowLock[i]]

-----------------------------------------------------------------------------
(* Conditions the steps below test.  A definition named ..._Bug is never   *)
(* used by the specification: it is what the next definition would be with *)
(* a mistake, to see that the properties notice it.                        *)

(* An event is taken up again although every delivery of it is used up. *)
Undelivered_Bug(w) == TRUE

Undelivered(w) == events[w] > 0

(* The webhook query does not look at the status of the intent. *)
StillOpen_Bug(i) == TRUE

StillOpen(i) == status[i] \in {"created", "awaiting"}

(* The poll asks for intents whose child wallet is still active. *)
Polled_Bug(i) == status[i] = "created" /\ child[WalletOf[i]] = "active"

Polled(i) == status[i] = "created"

(* The payment is marked completed as soon as it is found. *)
FoundStatus_Bug == "completed"

FoundStatus == "awaiting"

(* The command leaves payments alone whose credit is in the log. *)
Unsettled_Bug(i) == deposits[i] = 0 /\ ~creditLog[i]

(* The command does not look for the ledger line. *)
Unsettled_Blind(i) == TRUE

Unsettled(i) == deposits[i] = 0

-----------------------------------------------------------------------------
(* The chain and the provider. *)

Pay(w) ==
    /\ ~paid[w]
    /\ paid' = [paid EXCEPT ![w] = TRUE]
    /\ balance' = [balance EXCEPT ![w] = @ + 1]
    /\ events' = [events EXCEPT ![w] = MaxDeliveries]
    /\ UNCHANGED <<network, child, sweeping, intentVars, handlerVars, reconcilerVars, faults>>

(* The endpoint answers 200 before the event is processed, so a delivery   *)
(* is used up whatever becomes of its handler.  Events on CKB are skipped. *)
Deliver(h, w) ==
    /\ pc[h] = "idle"
    /\ Cardinality(Busy) < MaxInFlight
    /\ Undelivered(w)
    /\ events' = [events EXCEPT ![w] = @ - 1]
    /\ \/ /\ child[w] = "active" /\ network[w] # "ckb"
          /\ \E i \in Intents :
                /\ WalletOf[i] = w
                /\ StillOpen(i)
                /\ cur' = [cur EXCEPT ![h] = i]
                /\ mem' = [mem EXCEPT ![h] = status[i]]
          /\ Goto(h, "verify")
       \/ /\ \/ child[w] # "active" \/ network[w] = "ckb"
             \/ \A i \in Intents : WalletOf[i] = w => ~StillOpen(i)
          /\ UNCHANGED <<cur, mem, pc>>
    /\ UNCHANGED <<network, child, balance, paid, sweeping, stamp, clock, batch, credited,
                   intentVars, reconcilerVars, faults>>

(* The transaction on chain is read once more: it paid at least Expected.  *)
(* The handler leaves it at a warning if the chain is another one, or the  *)
(* transaction is not final yet or pays another address.                   *)
VerifyTransaction(h) ==
    /\ pc[h] = "verify"
    /\ \/ /\ 1 >= Expected /\ Goto(h, "save")
          /\ UNCHANGED <<mem, stamp, credited>>
       \/ NextIntent(h)
    /\ UNCHANGED <<cur, clock, batch, intentVars, chainVars, reconcilerVars, faults>>

NetworkOf(i) == network[WalletOf[i]]

VerifyEvmPayment(h) == NetworkOf(cur[h]) = "evm" /\ VerifyTransaction(h)
VerifySolanaPayment(h) == NetworkOf(cur[h]) = "solana" /\ VerifyTransaction(h)
VerifyTronPayment(h) == NetworkOf(cur[h]) = "tron" /\ VerifyTransaction(h)

-----------------------------------------------------------------------------
(* The poller. *)

PollPendingPayments(h) ==
    /\ UsePolling
    /\ pc[h] = "idle"
    /\ Cardinality(Busy) < MaxInFlight
    /\ \E i \in Intents : Polled(i)
    /\ batch' = [batch EXCEPT ![h] = {i \in Intents : Polled(i)}]
    /\ Goto(h, "pick")
    /\ UNCHANGED <<cur, mem, stamp, clock, credited, intentVars, chainVars, reconcilerVars,
                   faults>>

(* The intent is the copy read when the poll began, only the balance is    *)
(* fresh; a balance that is too low ends the matter.                       *)
CheckPaymentStatus(h, i, found) ==
    /\ pc[h] = "pick"
    /\ i \in batch[h]
    /\ batch' = [batch EXCEPT ![h] = @ \ {i}]
    /\ IF found
       THEN /\ cur' = [cur EXCEPT ![h] = i]
            /\ mem' = [mem EXCEPT ![h] = "created"]
            /\ Goto(h, "save")
       ELSE /\ Goto(h, IF batch[h] = {i} THEN "idle" ELSE "pick")
            /\ UNCHANGED <<cur, mem>>
    /\ UNCHANGED <<stamp, clock, credited, intentVars, chainVars, reconcilerVars, faults>>

(* The node does not answer: the poll warns and takes up the next intent.  *)
MissPaymentStatus(h, i) ==
    /\ faults < MaxFaults
    /\ faults' = faults + 1
    /\ pc[h] = "pick"
    /\ i \in batch[h]
    /\ batch' = [batch EXCEPT ![h] = @ \ {i}]
    /\ Goto(h, IF batch[h] = {i} THEN "idle" ELSE "pick")
    /\ UNCHANGED <<cur, mem, stamp, clock, credited, intentVars, chainVars, reconcilerVars>>

(* One percent less than expected will do, except on CKB. *)
AboutExpected(amount) == 100 * amount >= 99 * Expected

CheckEvmPaymentStatus(h, i) ==
    NetworkOf(i) = "evm" /\ CheckPaymentStatus(h, i, AboutExpected(balance[WalletOf[i]]))

CheckCkbPaymentStatus(h, i) ==
    NetworkOf(i) = "ckb" /\ CheckPaymentStatus(h, i, balance[WalletOf[i]] >= Expected)

CheckSolanaPaymentStatus(h, i) ==
    NetworkOf(i) = "solana" /\ CheckPaymentStatus(h, i, AboutExpected(balance[WalletOf[i]]))

CheckTronPaymentStatus(h, i) ==
    NetworkOf(i) = "tron" /\ CheckPaymentStatus(h, i, AboutExpected(balance[WalletOf[i]]))

-----------------------------------------------------------------------------
(* What both do once the payment is found. *)

(* save() writes the columns that differ from the copy that was loaded, so *)
(* status only if the copy was not "awaiting" already; it waits for an     *)
(* open transaction that has updated the row.                              *)
SaveAwaiting(h) ==
    LET i == cur[h] IN
    /\ pc[h] = "save"
    /\ rowLock[i] = None
    /\ status' = IF mem[h] = FoundStatus THEN status
                 ELSE [status EXCEPT ![i] = FoundStatus]
    /\ mem' = [mem EXCEPT ![h] = "created"]
    /\ Goto(h, "complete")
    /\ UNCHANGED <<completedAt, rowLock, deposits, creditLog, receiveTx, dispatched, cur, stamp,
                   clock, batch, credited, chainVars, reconcilerVars, faults>>

(* onPaymentConfirmed opens its transaction and updates the intent row.    *)
BeginCompletion(h) ==
    LET i == cur[h] IN
    /\ pc[h] = "complete"
    /\ rowLock[i] = None
    /\ rowLock' = [rowLock EXCEPT ![i] = h]
    /\ clock' = clock + 1
    /\ stamp' = [stamp EXCEPT ![h] = clock + 1]
    /\ Goto(h, "credit")
    /\ UNCHANGED <<status, completedAt, deposits, creditLog, receiveTx, dispatched, cur, mem, batch,
                   credited, chainVars, reconcilerVars, faults>>

(* creditBusinessWallet commits its own ledger line.  What cannot be       *)
(* credited, and whatever goes wrong, is logged, as a warning or an error, *)
(* and turned into null: an error even after the line is committed.        *)
TryCredit(i, done) ==
    \/ /\ done
       /\ i \in Creditable
       /\ deposits' = [deposits EXCEPT ![i] = @ + 1]
       /\ UNCHANGED <<creditLog, faults>>
    \/ /\ ~done
       /\ i \notin Creditable
       /\ creditLog' = [creditLog EXCEPT ![i] = TRUE]
       /\ UNCHANGED <<deposits, faults>>
    \/ /\ ~done
       /\ faults < MaxFaults
       /\ faults' = faults + 1
       /\ \E n \in IF i \in Creditable THEN {0, 1} ELSE {0} :
            deposits' = [deposits EXCEPT ![i] = @ + n]
       /\ creditLog' = [creditLog EXCEPT ![i] = TRUE]

CreditBusinessWallet(h) ==
    /\ pc[h] = "credit"
    /\ \E done \in BOOLEAN :
        /\ TryCredit(cur[h], done)
        /\ credited' = [credited EXCEPT ![h] = done]
    /\ Goto(h, "link")
    /\ UNCHANGED <<status, completedAt, rowLock, receiveTx, dispatched, cur, mem, stamp, clock,
                   batch, chainVars, reconcilerVars>>

(* The receipt is completed whether the credit succeeded or not. *)
Receipt_Bug(h) == "completed"

Receipt(h) == IF credited[h] THEN "completed" ELSE receiveTx[cur[h]]

(* Transaction.query(trx) does not join the transaction: the update of the *)
(* receive transaction is committed at once.                               *)
LinkReceiveTransaction(h) ==
    /\ pc[h] = "link"
    /\ receiveTx' = [receiveTx EXCEPT ![cur[h]] = Receipt(h)]
    /\ Goto(h, "notify")
    /\ UNCHANGED <<status, completedAt, rowLock, deposits, creditLog, dispatched, cur, mem, stamp,
                   clock, batch, credited, chainVars, reconcilerVars, faults>>

(* The dispatcher sends nothing to a merchant without settings or a URL,   *)
(* and what goes wrong in it is only logged: the handler goes on.          *)
DispatchWebhook(h) ==
    /\ pc[h] = "notify"
    /\ dispatched' = [dispatched EXCEPT ![cur[h]] = TRUE]
    /\ Goto(h, "commit")
    /\ UNCHANGED <<status, completedAt, rowLock, deposits, creditLog, receiveTx, cur, mem, stamp,
                   clock, batch, credited, chainVars, reconcilerVars, faults>>

(* The commit publishes the status; then the child wallet's settlement is  *)
(* started and not waited for.  If the answer to the COMMIT is lost the    *)
(* handler sees an error instead and starts none.                          *)
CommitCompletion(h) ==
    LET i == cur[h] IN
    /\ pc[h] = "commit"
    /\ status' = [status EXCEPT ![i] = "completed"]
    /\ completedAt' = [completedAt EXCEPT ![i] = stamp[h]]
    /\ Release(h)
    /\ \/ /\ sweeping' = sweeping \union {WalletOf[i]}
          /\ UNCHANGED faults
       \/ /\ faults < MaxFaults
          /\ faults' = faults + 1
          /\ UNCHANGED sweeping
    /\ NextIntent(h)
    /\ UNCHANGED <<deposits, creditLog, receiveTx, dispatched, network, child, balance, paid,
                   events, cur, clock, batch, reconcilerVars>>

(* A step throws: the open transaction is rolled back, the webhook handler *)
(* gives up (its error is logged) and the poll goes on with the next       *)
(* intent (its error is swallowed).                                        *)
Fail(h) ==
    /\ faults < MaxFaults
    /\ faults' = faults + 1
    /\ pc[h] \in {"verify", "save", "complete", "link", "commit"}
    /\ Release(h)
    /\ NextIntent(h)
    /\ UNCHANGED <<status, completedAt, deposits, creditLog, receiveTx, dispatched, chainVars, cur,
                   clock, batch, reconcilerVars>>

(* The process dies: every open transaction is rolled back and no run,     *)
(* settlement or acknowledged event is taken up again.                     *)
Crash ==
    /\ faults < MaxFaults
    /\ faults' = faults + 1
    /\ pc' = [h \in Handlers |-> "idle"]
    /\ batch' = [h \in Handlers |-> {}]
    /\ mem' = [h \in Handlers |-> "created"]
    /\ stamp' = [h \in Handlers |-> 0]
    /\ credited' = [h \in Handlers |-> FALSE]
    /\ rowLock' = [i \in Intents |-> None]
    /\ sweeping' = {}
    /\ rpc' = [r \in Reconcilers |-> "idle"]
    /\ rbatch' = [r \in Reconcilers |-> {}]
    /\ UNCHANGED <<status, completedAt, deposits, creditLog, receiveTx, dispatched, network, child,
                   balance, paid, events, cur, clock, rcur>>

(* settleWallet flushes the child wallet and then marks it; its errors are *)
(* logged, also the one between the two.                                   *)
SettleWallet(w) ==
    /\ w \in sweeping
    /\ sweeping' = sweeping \ {w}
    /\ \/ /\ balance' = [balance EXCEPT ![w] = 0]
          /\ child' = [child EXCEPT ![w] = "flushed"]
          /\ UNCHANGED faults
       \/ /\ faults < MaxFaults
          /\ faults' = faults + 1
          /\ balance' \in {balance, [balance EXCEPT ![w] = 0]}
          /\ UNCHANGED child
    /\ UNCHANGED <<network, paid, events, intentVars, handlerVars, reconcilerVars>>

-----------------------------------------------------------------------------
(* payments:reconcile-completed --apply.  It inspects the payments that    *)
(* were completed first.  A run that would find all of them in the ledger  *)
(* changes nothing and is left out.                                        *)

Older(i) == {j \in Intents : status[j] = "completed" /\ completedAt[j] < completedAt[i]}

Inspected == {i \in Intents : status[i] = "completed" /\ Cardinality(Older(i)) < Limit}

LoadCompleted(r) ==
    /\ rpc[r] = "idle"
    /\ \E i \in Inspected : Unsettled(i)
    /\ rbatch' = [rbatch EXCEPT ![r] = Inspected]
    /\ rpc' = [rpc EXCEPT ![r] = "check"]
    /\ UNCHANGED <<rcur, intentVars, chainVars, handlerVars, faults>>

(* The ledger is looked up by the command and again, with nothing between  *)
(* but a look for a Fiber invoice, by reconcileCompletedPayment.           *)
CheckLedger(r) ==
    /\ rpc[r] = "check"
    /\ \E i \in rbatch[r] :
        /\ rcur' = [rcur EXCEPT ![r] = i]
        /\ rbatch' = [rbatch EXCEPT ![r] = @ \ {i}]
        /\ rpc' = [rpc EXCEPT ![r] =
                    IF Unsettled(i) THEN "credit"
                    ELSE IF rbatch[r] = {i} THEN "idle" ELSE "check"]
    /\ UNCHANGED <<intentVars, chainVars, handlerVars, faults>>

(* The update of the receive transaction may fail, which is only logged.   *)
ReconcileCredit(r) ==
    LET i == rcur[r] IN
    /\ rpc[r] = "credit"
    /\ rpc' = [rpc EXCEPT ![r] = IF rbatch[r] = {} THEN "idle" ELSE "check"]
    /\ \E done \in BOOLEAN :
        /\ TryCredit(i, done)
        /\ receiveTx' \in IF done THEN {receiveTx, [receiveTx EXCEPT ![i] = "completed"]}
                          ELSE {receiveTx}
    /\ UNCHANGED <<status, completedAt, rowLock, dispatched, rcur, rbatch, chainVars, handlerVars>>

-----------------------------------------------------------------------------

HandlerStep(h) ==
    \/ VerifyEvmPayment(h) \/ VerifySolanaPayment(h) \/ VerifyTronPayment(h)
    \/ \E i \in Intents :
        \/ CheckEvmPaymentStatus(h, i) \/ CheckCkbPaymentStatus(h, i)
        \/ CheckSolanaPaymentStatus(h, i) \/ CheckTronPaymentStatus(h, i)
    \/ SaveAwaiting(h)
    \/ BeginCompletion(h)
    \/ CreditBusinessWallet(h)
    \/ LinkReceiveTransaction(h)
    \/ DispatchWebhook(h)
    \/ CommitCompletion(h)

ReconcilerStep(r) == LoadCompleted(r) \/ CheckLedger(r) \/ ReconcileCredit(r)

Step ==
    \/ \E w \in ChildWallets : Pay(w) \/ SettleWallet(w)
    \/ \E h \in Handlers :
        \/ \E w \in ChildWallets : Deliver(h, w)
        \/ PollPendingPayments(h)
        \/ HandlerStep(h)
        \/ \E i \in Intents : MissPaymentStatus(h, i)
        \/ Fail(h)
    \/ \E r \in Reconcilers : ReconcilerStep(r)
    \/ Crash

Contended == {i \in Intents : \E a, b \in WorkingOn(i) : a # b}

Next == Step /\ contended' = contended \union Contended'

Spec == Init /\ [][Next]_vars

(* A run that was started goes on, the poller is started again whenever a  *)
(* handler is free (setInterval), and the command is rerun.  The provider  *)
(* owes nothing: an event may be lost.                                     *)
Fairness ==
    /\ \A h \in Handlers : WF_codeVars(HandlerStep(h))
    /\ WF_codeVars(\E h \in Handlers : PollPendingPayments(h))
    /\ \A r \in Reconcilers : WF_codeVars(ReconcilerStep(r))

FairSpec == Spec /\ Fairness

-----------------------------------------------------------------------------

(* Every variable has its type; in particular no event is delivered more   *)
(* often than the provider sends it.                                       *)
TypeOK ==
    /\ network \in [ChildWallets -> Networks]
    /\ status \in [Intents -> IntentStatuses]
    /\ completedAt \in [Intents -> Nat]
    /\ rowLock \in [Intents -> Handlers \union {None}]
    /\ deposits \in [Intents -> Nat]
    /\ creditLog \in [Intents -> BOOLEAN]
    /\ receiveTx \in [Intents -> {"pending", "completed"}]
    /\ dispatched \in [Intents -> BOOLEAN]
    /\ child \in [ChildWallets -> {"active", "flushed"}]
    /\ balance \in [ChildWallets -> Nat]
    /\ paid \in [ChildWallets -> BOOLEAN]
    /\ events \in [ChildWallets -> Nat]
    /\ sweeping \subseteq ChildWallets
    /\ pc \in [Handlers -> {"idle", "verify", "pick", "save", "complete"} \union InTrx]
    /\ cur \in [Handlers -> Intents]
    /\ mem \in [Handlers -> IntentStatuses]
    /\ stamp \in [Handlers -> Nat]
    /\ batch \in [Handlers -> SUBSET Intents]
    /\ credited \in [Handlers -> BOOLEAN]
    /\ rpc \in [Reconcilers -> {"idle", "check", "credit"}]
    /\ rcur \in [Reconcilers -> Intents]
    /\ rbatch \in [Reconcilers -> SUBSET Intents]
    /\ clock \in Nat
    /\ contended \subseteq Intents
    /\ faults \in Nat

(* What was credited, or is in the log as not credited. *)
Accounted(i) == deposits[i] > 0 \/ creditLog[i]

(* A payment that is completed, or that the merchant may have been told    *)
(* of, was credited, or the log says that its credit was refused or failed *)
(* (lines 656, 751, 780); and so was a payment to every child wallet that is      *)
(* swept.  The completion commits, is announced and starts the sweep only  *)
(* after the credit was tried, however handlers, polls, reconciliations    *)
(* and crashes interleave.                                                 *)
CompletedWasCredited ==
    /\ \A i \in Intents : status[i] = "completed" \/ dispatched[i] => Accounted(i)
    /\ \A w \in sweeping \union {v \in ChildWallets : child[v] = "flushed"} :
            \E i \in Intents : WalletOf[i] = w /\ Accounted(i)

(* A receive transaction shown to the merchant as completed is backed by a *)
(* ledger line (lines 610-620, 792-803).                                   *)
ReceiptIsBacked ==
    \A i \in Intents : receiveTx[i] = "completed" => deposits[i] > 0

(* One payment is credited once. *)
CreditedOnce == \A i \in Intents : deposits[i] <= 1

(* It takes two runs at work on a payment at once, or a failure for each   *)
(* credit too many, to credit it more than once: an event that is          *)
(* delivered again, the next poll and the command find what was done.      *)
CreditedAgainOnlyIf ==
    \A i \in Intents : i \notin contended => deposits[i] <= 1 + faults

(* And it takes two runs at once to take a completed payment back.         *)
CompletionIsFinal ==
    [][\A i \in Intents \ contended :
            status[i] = "completed" => status'[i] = "completed"]_vars

(* Only a payment that was made is completed. *)
CompletedWasPaid ==
    \A i \in Intents : status[i] = "completed" => paid[WalletOf[i]]

(* A payment that was made ends up completed, also when its event is lost  *)
(* or cannot be verified (lines 237-238); or, where a step failed, it may  *)
(* stay awaiting confirmation, a status no poll asks for.                  *)
PaidIsCompleted ==
    \A i \in Intents :
        <>[](paid[WalletOf[i]] =>
                status[i] = "completed" \/ (status[i] = "awaiting" /\ faults > 0))

(* A payment whose credit failed is credited in the end by the command     *)
(* (lines 785-809), if it stays completed and among those the command      *)
(* inspects.                                                               *)
CompletedIsRepaired ==
    \A i \in Creditable : <>[](i \in Inspected) => <>(deposits[i] > 0)
=============================================================================
