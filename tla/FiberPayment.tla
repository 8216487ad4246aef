----------------------------- MODULE FiberPayment -----------------------------
(***************************************************************************)
(* Payments over the Fiber network: the invoice of a payment intent as     *)
(* app/Services/FiberInvoiceService.ts keeps it, and its settlement into   *)
(* the business's wallet by FiberPaymentSettlementService.ts.              *)
(*                                                                         *)
(* createPaymentSetup gives the intent of an invoice no child wallet, and  *)
(* the poll and the webhook only look at intents that have one.  What      *)
(* looks at an invoice is a checker, a request of the business to check    *)
(* one invoice or to sync all; what settles one is a settler, a run of     *)
(* payments:reconcile-completed --apply --include-fiber, which takes       *)
(* intents that are completed.                                             *)
(***************************************************************************)
EXTENDS Integers, FiniteSets

CONSTANTS
    Intents,        \* payment intents with a Fiber invoice
    Historical,     \* those completed before settlement was recorded: no code completes one
    Checkers,       \* requests to check or sync invoices
    Settlers,       \* runs of the reconciliation command
    None,           \* the owner of the wallet row when nobody has locked it
    MaxSettling,    \* bound: settlers at work at the same time, when they overlap
    MaxCredits,     \* bound: credits the wallet gets from other payments
    MaxFaults       \* bound: failed steps

ASSUME HistoricalAssumption == Historical \subseteq Intents
ASSUME NoneAssumption == None \notin Settlers
ASSUME BoundsAssumption ==
    MaxSettling \in Nat /\ MaxCredits \in Nat /\ MaxFaults \in Nat

VARIABLES
    status,     \* status of each intent
    invoice,    \* status of its invoice
    nodePaid,   \* whether the Fiber node knows the invoice as paid
    due,        \* whether the invoice's hour is over
    cpc, ccur, cbatch,      \* of each checker
    balance,    \* the business wallet's balance column
    lines,      \* its DEPOSIT lines: how many for each intent
    ledgerSum,  \* and what all of them add up to
    rowLock,    \* the settler whose transaction has written the wallet row
    spc, scur, ssnap,       \* of each settler
    inSeries,   \* whether settlers work one at a time
    overtaken,  \* credits that came between a settler's reading and writing the wallet
    credits, faults         \* so far

invoiceVars == <<status, invoice, nodePaid, due>>
checkerVars == <<cpc, ccur, cbatch>>
walletVars == <<balance, lines, ledgerSum, rowLock>>
settlerVars == <<spc, scur, ssnap>>
seriesVars == <<inSeries, overtaken>>
vars == <<invoiceVars, checkerVars, walletVars, settlerVars, seriesVars, credits, faults>>

Init ==
    /\ status = [i \in Intents |-> IF i \in Historical THEN "completed" ELSE "created"]
    /\ invoice = [i \in Intents |-> IF i \in Historical THEN "paid" ELSE "pending"]
    /\ nodePaid = [i \in Intents |-> i \in Historical]
    /\ due = [i \in Intents |-> FALSE]
    /\ cpc = [k \in Checkers |-> "idle"]
    /\ ccur \in [Checkers -> Intents]
    /\ cbatch = [k \in Checkers |-> {}]
    /\ balance = 0
    /\ lines = [i \in Intents |-> 0]
    /\ ledgerSum = 0
    /\ rowLock = None
    /\ spc = [s \in Settlers |-> "idle"]
    /\ scur \in [Settlers -> Intents]
    /\ ssnap = [s \in Settlers |-> 0]
    /\ inSeries \in BOOLEAN
    /\ overtaken = 0
    /\ credits = 0
    /\ faults = 0

-----------------------------------------------------------------------------
(* A definition named ..._Bug is never used by the specification: it is    *)
(* what the next definition would be with a mistake, to see that the       *)
(* properties notice it.                                                   *)

(* The currency createInvoiceForIntent stores: the network's, never "CKB". *)
InvoiceCurrency == "Fibt"

(* A fee is taken from what is worth nothing. *)
Value_Bug == 0 - 1

(* What an invoice is worth to settleFiberPayment, in USDT.  It converts   *)
(* CKB, and tokens of an invoice that names their type script, which none  *)
(* does; anything else stays at the zero it starts from.                   *)
Value == IF InvoiceCurrency \in {"CKB", ""} THEN 1 ELSE 0

(* Whatever the node answers counts as a payment. *)
KnownPaid_Bug(i) == TRUE

KnownPaid(i) == nodePaid[i]

(* The ledger is not asked whether the intent was settled. *)
Unsettled_Bug(i) == TRUE

Unsettled(i) == lines[i] = 0

Payable(i) == invoice[i] = "paid"

(* The balance before the other credits is written back. *)
NewBalance_Bug(s) == Value

NewBalance(s) == ssnap[s] + Value

Settling == {s \in Settlers : spc[s] # "idle"}

(* Another settler may begin. *)
MayRun == IF inSeries THEN Settling = {} ELSE Cardinality(Settling) < MaxSettling

CGoto(k, label) == cpc' = [cpc EXCEPT ![k] = label]
SGoto(s, label) == spc' = [spc EXCEPT ![s] = label]

CNext(k) == CGoto(k, IF cbatch[k] = {} THEN "idle" ELSE "pick")

-----------------------------------------------------------------------------
(* The node and the clock. *)

PayInvoice(i) ==
    /\ ~nodePaid[i] /\ ~due[i]
    /\ nodePaid' = [nodePaid EXCEPT ![i] = TRUE]
    /\ UNCHANGED <<seriesVars, status, invoice, due, checkerVars, walletVars, settlerVars, credits, faults>>

PassHour(i) ==
    /\ ~due[i]
    /\ due' = [due EXCEPT ![i] = TRUE]
    /\ UNCHANGED <<seriesVars, status, invoice, nodePaid, checkerVars, walletVars, settlerVars, credits, faults>>

-----------------------------------------------------------------------------
(* Checking invoices. *)

CheckInvoiceStatus(k, i) ==
    /\ cpc[k] = "idle"
    /\ ccur' = [ccur EXCEPT ![k] = i]
    /\ CGoto(k, "check")
    /\ UNCHANGED <<seriesVars, cbatch, invoiceVars, walletVars, settlerVars, credits, faults>>

(* The pending invoices are read once; what became of them since is not    *)
(* looked at.                                                              *)
SyncInvoices(k) ==
    /\ cpc[k] = "idle"
    /\ \E i \in Intents : invoice[i] = "pending"
    /\ cbatch' = [cbatch EXCEPT ![k] = {i \in Intents : invoice[i] = "pending"}]
    /\ CGoto(k, "pick")
    /\ UNCHANGED <<seriesVars, ccur, invoiceVars, walletVars, settlerVars, credits, faults>>

PickInvoice(k) ==
    /\ cpc[k] = "pick"
    /\ \E i \in cbatch[k] :
        /\ cbatch' = [cbatch EXCEPT ![k] = @ \ {i}]
        /\ ccur' = [ccur EXCEPT ![k] = i]
        /\ CGoto(k, IF due[i] THEN "expire" ELSE "sync")
    /\ UNCHANGED <<seriesVars, invoiceVars, walletVars, settlerVars, credits, faults>>

(* Without asking the node. *)
MarkExpired(k) ==
    /\ cpc[k] = "expire"
    /\ invoice' = [invoice EXCEPT ![ccur[k]] = "expired"]
    /\ CNext(k)
    /\ UNCHANGED <<seriesVars, status, nodePaid, due, ccur, cbatch, walletVars, settlerVars, credits, faults>>

(* The node is asked, then the row is read.  A sync marks the invoice a    *)
(* second time, whatever its row says by then.                             *)
AskNode(k) ==
    LET i == ccur[k] IN
    /\ cpc[k] \in {"check", "sync"}
    /\ IF KnownPaid(i)
       THEN \/ /\ invoice[i] = "pending"
               /\ CGoto(k, IF cpc[k] = "check" THEN "mark" ELSE "markTwice")
            \/ /\ invoice[i] # "pending"
               /\ IF cpc[k] = "check" THEN CNext(k) ELSE CGoto(k, "mark")
       ELSE CNext(k)
    /\ UNCHANGED <<seriesVars, ccur, cbatch, invoiceVars, walletVars, settlerVars, credits, faults>>

MarkPaid(k) ==
    /\ cpc[k] \in {"mark", "markTwice"}
    /\ invoice' = [invoice EXCEPT ![ccur[k]] = "paid"]
    /\ CGoto(k, IF cpc[k] = "mark" THEN "confirm" ELSE "confirmTwice")
    /\ UNCHANGED <<seriesVars, status, nodePaid, due, ccur, cbatch, walletVars, settlerVars, credits, faults>>

AfterConfirm(k) == IF cpc[k] \in {"confirm", "await"} THEN CNext(k) ELSE CGoto(k, "mark")

(* confirmPaymentIntent reads the intent, and saves it later. *)
ReadIntent(k) ==
    /\ cpc[k] \in {"confirm", "confirmTwice"}
    /\ IF status[ccur[k]] = "completed" THEN AfterConfirm(k)
       ELSE CGoto(k, IF cpc[k] = "confirm" THEN "await" ELSE "awaitTwice")
    /\ UNCHANGED <<seriesVars, ccur, cbatch, invoiceVars, walletVars, settlerVars, credits, faults>>

SaveAwaiting(k) ==
    /\ cpc[k] \in {"await", "awaitTwice"}
    /\ status' = [status EXCEPT ![ccur[k]] = "awaiting"]
    /\ AfterConfirm(k)
    /\ UNCHANGED <<seriesVars, invoice, nodePaid, due, ccur, cbatch, walletVars, settlerVars, credits, faults>>

(* A step throws: a sync goes on with the next invoice. *)
FailCheck(k) ==
    /\ faults < MaxFaults
    /\ faults' = faults + 1
    /\ cpc[k] \notin {"idle", "pick"}
    /\ CNext(k)
    /\ UNCHANGED <<seriesVars, ccur, cbatch, invoiceVars, walletVars, settlerVars, credits>>

-----------------------------------------------------------------------------
(* Settling. *)

(* Another payment is credited by creditWallet, which waits for the row    *)
(* and may come between a settler's reading and writing it.                *)
CreditWallet ==
    /\ credits < MaxCredits
    /\ rowLock = None
    /\ credits' = credits + 1
    /\ balance' = balance + 1
    /\ ledgerSum' = ledgerSum + 1
    /\ overtaken' = overtaken + (IF \E s \in Settlers : spc[s] = "write" THEN 1 ELSE 0)
    /\ UNCHANGED <<inSeries, lines, rowLock, invoiceVars, checkerVars, settlerVars, faults>>

(* One of the payments a run of the command takes, which are the oldest    *)
(* --limit, or 1000, completed intents of every network: which of the      *)
(* Fiber ones are among them is left open.  The command looks for the      *)
(* ledger line and the invoice, and settleFiberPayment for the ledger line *)
(* again, on another connection than that of the transaction it has opened.*)
ReconcileFiber(s) ==
    /\ spc[s] = "idle"
    /\ MayRun
    /\ \E i \in Intents :
        /\ status[i] = "completed"
        /\ Unsettled(i)
        /\ Payable(i)
        /\ scur' = [scur EXCEPT ![s] = i]
    /\ SGoto(s, "read")
    /\ UNCHANGED <<seriesVars, ssnap, invoiceVars, checkerVars, walletVars, credits, faults>>

ReadBusinessWallet(s) ==
    /\ spc[s] = "read"
    /\ ssnap' = [ssnap EXCEPT ![s] = balance]
    /\ SGoto(s, "write")
    /\ UNCHANGED <<seriesVars, scur, invoiceVars, checkerVars, walletVars, credits, faults>>

SaveBusinessWallet(s) ==
    /\ spc[s] = "write"
    /\ rowLock = None
    /\ rowLock' = s
    /\ SGoto(s, "commit")
    /\ UNCHANGED <<seriesVars, balance, lines, ledgerSum, scur, ssnap, invoiceVars, checkerVars, credits, faults>>

(* The ledger line, the intent's status and the commit. *)
CommitSettlement(s) ==
    /\ spc[s] = "commit"
    /\ balance' = NewBalance(s)
    /\ lines' = [lines EXCEPT ![scur[s]] = @ + 1]
    /\ ledgerSum' = ledgerSum + Value
    /\ status' = [status EXCEPT ![scur[s]] = "completed"]
    /\ rowLock' = None
    /\ SGoto(s, "idle")
    /\ UNCHANGED <<seriesVars, invoice, nodePaid, due, scur, ssnap, checkerVars, credits, faults>>

FailSettlement(s) ==
    /\ faults < MaxFaults
    /\ faults' = faults + 1
    /\ spc[s] # "idle"
    /\ rowLock' = IF rowLock = s THEN None ELSE rowLock
    /\ SGoto(s, "idle")
    /\ UNCHANGED <<seriesVars, balance, lines, ledgerSum, scur, ssnap, invoiceVars, checkerVars, credits>>

-----------------------------------------------------------------------------

CheckerStep(k) ==
    \/ PickInvoice(k)
    \/ MarkExpired(k)
    \/ AskNode(k)
    \/ MarkPaid(k)
    \/ ReadIntent(k)
    \/ SaveAwaiting(k)

SettlerStep(s) ==
    \/ ReconcileFiber(s)
    \/ ReadBusinessWallet(s)
    \/ SaveBusinessWallet(s)
    \/ CommitSettlement(s)

Next ==
    \/ \E i \in Intents : PayInvoice(i) \/ PassHour(i)
    \/ \E k \in Checkers :
        \/ \E i \in Intents : CheckInvoiceStatus(k, i)
        \/ SyncInvoices(k)
        \/ CheckerStep(k)
        \/ FailCheck(k)
    \/ CreditWallet
    \/ \E s \in Settlers : SettlerStep(s) \/ FailSettlement(s)

Spec == Init /\ [][Next]_vars

(* A request that was made is worked off, every invoice is checked and     *)
(* synced again and again, and the command is rerun, on whichever payments.*)
FairSpec ==
    /\ Spec
    /\ \A k \in Checkers :
        /\ WF_vars(CheckerStep(k))
        /\ WF_vars(SyncInvoices(k))
        /\ \A i \in Intents : SF_vars(CheckInvoiceStatus(k, i))
    /\ \A s \in Settlers : SF_vars(SettlerStep(s))

-----------------------------------------------------------------------------

(* Every variable has its type. *)
TypeOK ==
    /\ status \in [Intents -> {"created", "awaiting", "completed"}]
    /\ invoice \in [Intents -> {"pending", "paid", "expired"}]
    /\ nodePaid \in [Intents -> BOOLEAN] /\ due \in [Intents -> BOOLEAN]
    /\ cpc \in [Checkers -> {"idle", "pick", "check", "sync", "expire", "mark", "markTwice",
                             "confirm", "confirmTwice", "await", "awaitTwice"}]
    /\ ccur \in [Checkers -> Intents] /\ cbatch \in [Checkers -> SUBSET Intents]
    /\ balance \in Nat /\ lines \in [Intents -> Nat] /\ ledgerSum \in Nat
    /\ rowLock \in Settlers \union {None}
    /\ spc \in [Settlers -> {"idle", "read", "write", "commit"}]
    /\ scur \in [Settlers -> Intents] /\ ssnap \in [Settlers -> Nat]
    /\ inSeries \in BOOLEAN /\ overtaken \in Nat /\ credits \in Nat /\ faults \in Nat

(* An invoice marked paid, an intent taken for paid and a settlement all   *)
(* go back to a payment the node confirmed, however checks, syncs and      *)
(* expiry overlap.                                                         *)
PaidIsGenuine ==
    \A i \in Intents :
        invoice[i] = "paid" \/ status[i] # "created" \/ lines[i] > 0 => nodePaid[i]

(* One settler at a time, whatever fails, the wallet's balance never       *)
(* exceeds its ledger and falls short of it by at most the credits that    *)
(* came between a settlement's reading the wallet and writing it (lines    *)
(* 79-134 of the settlement service).                                      *)
WalletMatchesLedger ==
    inSeries => balance <= ledgerSum /\ ledgerSum <= balance + overtaken

(* One settler at a time, a payment is settled once (lines 56-68).         *)
SettledOnce == inSeries => \A i \in Intents : lines[i] <= 1

(* A payment the node confirmed is settled in the end. *)
PaidIsSettled == \A i \in Intents : nodePaid[i] ~> lines[i] > 0
=============================================================================
