------------------------------- MODULE Transfer -------------------------------
(***************************************************************************)
(* Transfers out of a user's wallet: app/Services/TransferService.ts behind *)
(* TransferController, the bank behind PayoutService, and the bank's events *)
(* as PayoutWebhookController handles them.                                *)
(*                                                                         *)
(*   "idle" -> "convert" -> "mark" -> "settle" -> "finish" -> "over"       *)
(* The request answers after "convert"; the rest is the settlement it has  *)
(* started.  UserWallet.query(trx).forUpdate() does not run on the         *)
(* transaction it is given, so that its lock ends with the statement; only *)
(* the saves are in the transaction, and take effect at its commit.        *)
(* A cancellation is a request of its own.  With the driver in use decimal *)
(* columns are strings and toFixed throws on their sums: one of the        *)
(* failures the actions below allow for.                                   *)
(***************************************************************************)
EXTENDS WalletRows

CONSTANTS
    Transfers,      \* requests to initiate a transfer
    Cancellers,     \* requests to cancel one
    Orders,         \* what users ask for
    NoOrder, NoTransfer,    \* what a request holds before it is made
    Fee             \* the fee on a transfer

OrderType == [from : Wallets, to : Wallets, kind : {"bank", "user", "merchant"},
              amount : Amounts]

ASSUME OrdersAssumption == Orders \subseteq OrderType /\ NoOrder \in OrderType
ASSUME TransfersAssumption == IsFiniteSet(Transfers)
ASSUME NoTransferAssumption == NoTransfer \notin Transfers
ASSUME FeeAssumption == Fee \in Nat /\ \A a \in Amounts : Fee < a

VARIABLES
    status,         \* the status of each transfer's row, "none" before there is one
    ref,            \* whether the row holds the reference of its payout
    order,          \* what each request asks for
    pc, copy,       \* where it is, and the wallet row it has read
    bank,           \* what the bank knows of the transfer
    credited,       \* transfers that were credited to a recipient
    events,         \* events the bank has sent: of which transfer, what it says,
                    \* and whether it names a transfer code
    cpc, ccopy, of  \* of each cancellation: where it is, its copy, its transfer

transferVars == <<status, ref, order, pc, copy, bank, credited, events, cpc, ccopy, of>>

Decisions == {"success", "failed", "reversed"}

Labels == {"idle", "convert", "mark", "settle", "credit", "finish", "over"}

NoCopy == [balance |-> 0, withdrawn |-> 0]

TransferInit ==
    /\ status = [t \in Transfers |-> "none"]
    /\ ref = [t \in Transfers |-> FALSE]
    /\ order = [t \in Transfers |-> NoOrder]
    /\ pc = [t \in Transfers |-> "idle"]
    /\ copy = [t \in Transfers |-> NoCopy]
    /\ bank = [t \in Transfers |-> "none"]
    /\ credited = {}
    /\ events = {}
    /\ cpc = [k \in Cancellers |-> "idle"]
    /\ ccopy = [k \in Cancellers |-> NoCopy]
    /\ of = [k \in Cancellers |-> NoTransfer]

(* usdtAmount of the transfer's row; its fee column holds the rest. *)
Payable(t) == order[t].amount - Fee

(* The fee is given back twice. *)
Refund_Bug(t) == order[t].amount + Fee

Refund(t) == Payable(t) + Fee

(* A transfer that is being settled can be cancelled too. *)
Cancellable_Bug(t) == status[t] \in {"pending", "processing", "completed"}

Cancellable(t) == status[t] = "pending"

(* The transfer is marked completed whatever the settlement did. *)
StatusAfter_Bug(ok) == "completed"

StatusAfter(ok) == IF ok THEN "completed" ELSE "failed"

(* Success and failure are told apart the wrong way. *)
StatusFor_Bug(event) == IF event = "success" THEN "failed" ELSE "completed"

(* A reversal is a failure too. *)
StatusFor(event) == IF event = "success" THEN "completed" ELSE "failed"

(* An event is looked up by its transfer code, where it has one, and by    *)
(* its reference otherwise.  The row holds the reference of the payout, so *)
(* that an event with a code finds no row.                                 *)
Finds(e) == ref[e[1]] /\ ~e[3]

Goto(t, label) == pc' = [pc EXCEPT ![t] = label]

SetStatus(t, s) == status' = [status EXCEPT ![t] = s]

-----------------------------------------------------------------------------
(* Initiating. *)

(* The request is validated and the row is read; a balance that does not   *)
(* cover the amount ends the request.                                      *)
InitiateTransfer(t, o) ==
    /\ pc[t] = "idle"
    /\ MayBegin
    /\ order' = [order EXCEPT ![t] = o]
    /\ IF Covered(row[o.from], o.amount)
       THEN /\ copy' = [copy EXCEPT ![t] = row[o.from]]
            /\ Goto(t, "convert")
            /\ Begin(t)
       ELSE /\ Goto(t, "over")
            /\ UNCHANGED <<copy, atWork>>
    /\ UNCHANGED <<row, deposited, left, inSeries, faults, status, ref, bank, credited,
                   events, cpc, ccopy, of>>

(* After the rate has arrived: the deduction and the transfer's row in one *)
(* transaction.                                                            *)
CommitTransfer(t) ==
    /\ pc[t] = "convert"
    /\ row' = [row EXCEPT ![order[t].from] = Debited(copy[t], order[t].amount)]
    /\ SetStatus(t, "pending")
    /\ copy' = [copy EXCEPT ![t] = NoCopy]
    /\ Goto(t, "mark")
    /\ UNCHANGED <<deposited, left, atWork, inSeries, faults, ref, order, bank,
                   credited, events, cpc, ccopy, of>>

(* A statement or the conversion throws; nothing is committed. *)
RollbackTransfer(t) ==
    /\ pc[t] = "convert"
    /\ Fault
    /\ Goto(t, "over")
    /\ copy' = [copy EXCEPT ![t] = NoCopy]
    /\ End(t)
    /\ UNCHANGED <<row, deposited, left, inSeries, status, ref, order, bank,
                   credited, events, cpc, ccopy, of>>

-----------------------------------------------------------------------------
(* Settling, with the object the request has created: saves write what the *)
(* settlement sets, whatever the row says by then.                         *)

MarkProcessing(t) ==
    /\ pc[t] = "mark"
    /\ SetStatus(t, "processing")
    /\ Goto(t, "settle")
    /\ UNCHANGED <<rowVars, ref, order, copy, bank, credited, events, cpc, ccopy, of>>

(* payoutToBank: the account, the recipient and the transfer itself. *)
AcceptPayout(t) ==
    /\ bank' = [bank EXCEPT ![t] = "accepted"]
    /\ left' = left + order[t].amount

SettleToBank(t) ==
    /\ pc[t] = "settle" /\ order[t].kind = "bank"
    /\ AcceptPayout(t)
    /\ Goto(t, "finish")
    /\ UNCHANGED <<row, deposited, atWork, inSeries, faults, status, ref, order, copy,
                   credited, events, cpc, ccopy, of>>

ReadRecipient(t) ==
    /\ pc[t] = "settle" /\ order[t].kind = "user"
    /\ copy' = [copy EXCEPT ![t] = row[order[t].to]]
    /\ Goto(t, "credit")
    /\ UNCHANGED <<rowVars, status, ref, order, bank, credited, events, cpc, ccopy, of>>

SettleToUser(t) ==
    /\ pc[t] = "credit"
    /\ row' = [row EXCEPT ![order[t].to].balance = copy[t].balance + Payable(t)]
    /\ credited' = credited \union {t}
    /\ copy' = [copy EXCEPT ![t] = NoCopy]
    /\ Goto(t, "finish")
    /\ UNCHANGED <<deposited, left, atWork, inSeries, faults, status, ref, order,
                   bank, events, cpc, ccopy, of>>

(* Nothing is done for a merchant but to store a reference. *)
SettleToMerchant(t) ==
    /\ pc[t] = "settle" /\ order[t].kind = "merchant"
    /\ Goto(t, "finish")
    /\ UNCHANGED <<rowVars, status, ref, order, copy, bank, credited, events, cpc, ccopy, of>>

CompleteTransfer(t) ==
    /\ pc[t] = "finish"
    /\ SetStatus(t, StatusAfter(TRUE))
    /\ ref' = [ref EXCEPT ![t] = order[t].kind = "bank"]
    /\ Goto(t, "over")
    /\ End(t)
    /\ UNCHANGED <<row, deposited, left, inSeries, faults, order, copy, bank, credited,
                   events, cpc, ccopy, of>>

(* The settlement throws, also after the bank has accepted or the credit   *)
(* was committed.  Nothing is given back.                                  *)
FailTransfer(t) ==
    /\ pc[t] \in {"mark", "settle", "credit", "finish"}
    /\ Fault
    /\ SetStatus(t, StatusAfter(FALSE))
    /\ ref' = [ref EXCEPT ![t] = pc[t] = "finish" /\ order[t].kind = "bank"]
    /\ \/ UNCHANGED <<left, bank>>
       \/ /\ pc[t] = "settle" /\ order[t].kind = "bank"
          /\ AcceptPayout(t)
    /\ Goto(t, "over")
    /\ copy' = [copy EXCEPT ![t] = NoCopy]
    /\ End(t)
    /\ UNCHANGED <<row, deposited, inSeries, order, credited, events, cpc, ccopy, of>>

(* The process dies; nothing takes the settlement up again. *)
CrashTransfer(t) ==
    /\ pc[t] \in {"mark", "settle", "credit", "finish"}
    /\ Fault
    /\ Goto(t, "over")
    /\ copy' = [copy EXCEPT ![t] = NoCopy]
    /\ End(t)
    /\ UNCHANGED <<row, deposited, left, inSeries, status, ref, order, bank, credited,
                   events, cpc, ccopy, of>>

-----------------------------------------------------------------------------
(* Cancelling. *)

CancelTransfer(k, t) ==
    /\ cpc[k] = "idle"
    /\ MayBegin
    /\ Cancellable(t)
    /\ of' = [of EXCEPT ![k] = t]
    /\ cpc' = [cpc EXCEPT ![k] = "read"]
    /\ Begin(k)
    /\ UNCHANGED <<row, deposited, left, inSeries, faults, status, ref, order, pc, copy,
                   bank, credited, events, ccopy>>

ReadSender(k) ==
    /\ cpc[k] = "read"
    /\ ccopy' = [ccopy EXCEPT ![k] = row[order[of[k]].from]]
    /\ cpc' = [cpc EXCEPT ![k] = "commit"]
    /\ UNCHANGED <<rowVars, status, ref, order, pc, copy, bank, credited, events, of>>

CommitCancel(k) ==
    /\ cpc[k] = "commit"
    /\ row' = [row EXCEPT ![order[of[k]].from] = Debited(ccopy[k], 0 - Refund(of[k]))]
    /\ SetStatus(of[k], "cancelled")
    /\ cpc' = [cpc EXCEPT ![k] = "over"]
    /\ ccopy' = [ccopy EXCEPT ![k] = NoCopy]
    /\ End(k)
    /\ UNCHANGED <<deposited, left, inSeries, faults, ref, order, pc, copy, bank, credited,
                   events, of>>

RollbackCancel(k) ==
    /\ cpc[k] \in {"read", "commit"}
    /\ Fault
    /\ cpc' = [cpc EXCEPT ![k] = "over"]
    /\ ccopy' = [ccopy EXCEPT ![k] = NoCopy]
    /\ End(k)
    /\ UNCHANGED <<row, deposited, left, inSeries, status, ref, order, pc, copy, bank,
                   credited, events, of>>

-----------------------------------------------------------------------------
(* The bank and its events. *)

BankDecides(t, s, named) ==
    /\ \/ bank[t] = "accepted" /\ s \in {"success", "failed"}
       \/ bank[t] = "success" /\ s = "reversed"
    /\ bank' = [bank EXCEPT ![t] = s]
    /\ events' = events \union {<<t, s, named>>}
    /\ UNCHANGED <<rowVars, status, ref, order, pc, copy, credited, cpc, ccopy, of>>

(* An event arrives, perhaps again or after a later one, and overwrites    *)
(* the status of the row it finds; where it finds none it is ignored.      *)
HandlePaystackWebhook(e) ==
    /\ IF Finds(e) THEN SetStatus(e[1], StatusFor(e[2])) ELSE UNCHANGED status
    /\ \/ events' = events \ {e}
       \/ UNCHANGED events
    /\ UNCHANGED <<rowVars, ref, order, pc, copy, bank, credited, cpc, ccopy, of>>

TransferNext ==
    \/ \E t \in Transfers :
        \/ \E o \in Orders : InitiateTransfer(t, o)
        \/ CommitTransfer(t) \/ RollbackTransfer(t)
        \/ MarkProcessing(t)
        \/ SettleToBank(t)
        \/ ReadRecipient(t) \/ SettleToUser(t)
        \/ SettleToMerchant(t)
        \/ CompleteTransfer(t) \/ FailTransfer(t) \/ CrashTransfer(t)
        \/ \E s \in Decisions, named \in BOOLEAN : BankDecides(t, s, named)
    \/ \E k \in Cancellers :
        \/ \E t \in Transfers : CancelTransfer(k, t)
        \/ ReadSender(k) \/ CommitCancel(k) \/ RollbackCancel(k)
    \/ \E e \in events : HandlePaystackWebhook(e)

-----------------------------------------------------------------------------

TransferTypes ==
    /\ status \in [Transfers -> {"none", "pending", "processing", "completed", "failed",
                                 "cancelled"}]
    /\ ref \in [Transfers -> BOOLEAN]
    /\ order \in [Transfers -> OrderType]
    /\ pc \in [Transfers -> Labels]
    /\ copy \in [Transfers -> Row]
    /\ bank \in [Transfers -> {"none", "accepted", "success", "failed", "reversed"}]
    /\ credited \subseteq Transfers
    /\ events \subseteq Transfers \X Decisions \X BOOLEAN
    /\ cpc \in [Cancellers -> {"idle", "read", "commit", "over"}]
    /\ ccopy \in [Cancellers -> Row]
    /\ of \in [Cancellers -> Transfers \union {NoTransfer}]

(* A transfer to a bank or to a user that is shown as completed was        *)
(* accepted by the bank or credited to that user, however settlement,      *)
(* cancellation and events interleave and whatever failed (lines 223-266). *)
(* It says no more: the bank may refuse what it had accepted, and to a     *)
(* merchant nothing is sent.                                               *)
CompletedWasHandedOver ==
    \A t \in Transfers : status[t] = "completed" =>
        /\ order[t].kind = "bank" => bank[t] # "none"
        /\ order[t].kind = "user" => t \in credited

(* Once its settlement is over, a transfer's status follows the bank or a  *)
(* cancellation under way: it becomes completed only if the bank has       *)
(* succeeded and failed only if the bank has refused or reversed, however  *)
(* late, often or reordered the events are.                                *)
FollowsBank ==
    [][\A t \in Transfers : pc[t] = "over" /\ status'[t] # status[t] =>
        \/ status'[t] = "completed" /\ bank[t] \in {"success", "reversed"}
        \/ status'[t] = "failed" /\ bank[t] \in {"failed", "reversed"}
        \/ status'[t] = "cancelled" /\ \E k \in Cancellers : cpc[k] = "commit" /\ of[k] = t]_status

(* One request at a time: what was cancelled and given back has neither    *)
(* gone to a bank nor to another user ("Cancel a pending transfer").       *)
CancelledWasKept ==
    inSeries => \A t \in Transfers :
        status[t] = "cancelled" => bank[t] = "none" /\ t \notin credited
=============================================================================
