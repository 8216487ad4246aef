------------------------------ MODULE Withdrawal ------------------------------
(***************************************************************************)
(* Withdrawals from a user's USDT wallet: app/Services/WithdrawalService.ts *)
(* behind WithdrawalController, while deposits are credited to the same    *)
(* row and repair:wallet-balances may be run on it.                        *)
(*                                                                         *)
(* A call is one request to confirm an OTP, or one automatic settlement.   *)
(* It reads the wallet once, before the money moves, and later writes back *)
(* what it computed from that copy; no transaction and no lock is used.    *)
(*   "idle" -> "mark" -> "load" -> the steps of its Route -> "done"        *)
(* A credit is one step (UserWalletService.tla).  Fees stay with the       *)
(* platform and are left out: `amount` is what the user gives up.          *)
(***************************************************************************)
EXTENDS Integers, FiniteSets

CONSTANTS
    Otps,           \* rows of withdrawal_otps
    Calls,          \* confirmations and automatic settlements
    Kinds,          \* kinds of withdrawal that occur
    Amounts,        \* amounts users withdraw and customers deposit
    NoOtp,          \* the OTP of an automatic settlement
    MaxDeposits,    \* bound: what is deposited in all
    MaxInFlight,    \* bound: calls at work at the same time, when they overlap
    MaxFaults,      \* bound: failed steps
    UseRepair       \* whether repair:wallet-balances is ever run

ASSUME KindsAssumption == Kinds \subseteq {"chain", "ckb", "fiat"} /\ Kinds # {}
ASSUME AmountsAssumption == Amounts \subseteq Nat \ {0} /\ Amounts # {}
ASSUME NoOtpAssumption == NoOtp \notin Otps
ASSUME BoundsAssumption ==
    /\ MaxDeposits \in Nat /\ MaxInFlight \in Nat /\ MaxFaults \in Nat
    /\ UseRepair \in BOOLEAN

VARIABLES
    wallet,     \* balance, totalDeposited and totalWithdrawn of the row
    deposits,   \* sum of the DEPOSIT lines in the wallet's ledger
    otp,        \* "none", "open", "expired" or "used"
    request,    \* the payload stored with each OTP
    pc, args,   \* where each call is and what it withdraws
    snap,       \* the wallet row it has read
    paidOut,    \* calls whose money has left the platform
    receipt,    \* status of the call's withdrawal transaction
    repair,     \* the row a running repair has computed, or Idle
    paidTotal,  \* history: all that has left the platform
    bankTotal,  \* history: what of it went to banks
    writtenOff, \* history: what failed on-chain calls had sent
    inSeries,   \* whether calls are made one at a time and no repair is run
    faults      \* failed steps so far

history == <<paidTotal, bankTotal, writtenOff>>
vars == <<wallet, deposits, otp, request, pc, args, snap, paidOut, receipt, repair,
          history, inSeries, faults>>

Row == [balance : Int, totalDeposited : Int, totalWithdrawn : Int]

EmptyRow == [balance |-> 0, totalDeposited |-> 0, totalWithdrawn |-> 0]

Idle == [on |-> FALSE, row |-> EmptyRow]

Requests == [kind : Kinds, amount : Amounts]

(* What a request holds before it is made is never read. *)
NoRequest == CHOOSE r \in Requests : TRUE

Steps == {"mark", "load", "send", "deduct", "payout", "record", "finish"}

Ends == {"done", "failed"}

Running == {c \in Calls : pc[c] \in Steps}

Init ==
    /\ wallet = EmptyRow
    /\ deposits = 0
    /\ otp = [o \in Otps |-> "none"]
    /\ request = [o \in Otps |-> NoRequest]
    /\ pc = [c \in Calls |-> "idle"]
    /\ args = [c \in Calls |-> [otp |-> NoOtp, kind |-> NoRequest.kind,
                               amount |-> NoRequest.amount]]
    /\ snap = [c \in Calls |-> EmptyRow]
    /\ paidOut = {}
    /\ receipt = [c \in Calls |-> "none"]
    /\ repair = Idle
    /\ paidTotal = 0 /\ bankTotal = 0 /\ writtenOff = 0
    /\ inSeries \in BOOLEAN
    /\ faults = 0

(* Another call may begin. *)
MayBegin == IF inSeries THEN Running = {} ELSE Cardinality(Running) < MaxInFlight

-----------------------------------------------------------------------------
(* A definition named ..._Bug is never used by the specification: it is    *)
(* what the next definition would be with a mistake, to see that the       *)
(* properties notice it.                                                   *)

(* On EVM chains, Solana and Tron the tokens are sent first and the        *)
(* balance is reduced when they are.                                       *)
ChainStep(step) ==
    CASE step = "load" -> "send"
      [] step = "send" -> "deduct"
      [] step = "deduct" -> "record"
      [] step = "record" -> "finish"
      [] OTHER -> "done"

(* On CKB nothing is sent yet. *)
CkbStep(step) ==
    CASE step = "load" -> "deduct"
      [] step = "deduct" -> "record"
      [] step = "record" -> "finish"
      [] OTHER -> "done"

(* A bank transfer is sent after the balance was reduced. *)
FiatStep(step) ==
    CASE step = "load" -> "deduct"
      [] step = "deduct" -> "payout"
      [] OTHER -> "done"

NextStep(kind, step) ==
    CASE kind = "chain" -> ChainStep(step)
      [] kind = "ckb" -> CkbStep(step)
      [] OTHER -> FiatStep(step)

Goto(c, label) == pc' = [pc EXCEPT ![c] = label]

Advance(c) == Goto(c, NextStep(args[c].kind, pc[c]))

(* The amount is compared when the OTP is requested, and not again. *)
Covered_Bug(row, a) == TRUE

Covered(row, a) == row.balance >= a

(* A used OTP is accepted again. *)
Accepted_Bug(o) == otp[o] \in {"open", "used"}

Accepted(o) == otp[o] = "open"

(* The row is replaced instead of its two columns. *)
Deducted_Bug(row, a) ==
    [balance |-> row.balance - a, totalWithdrawn |-> row.totalWithdrawn + a]

(* The row a withdrawal writes; a save does not touch totalDeposited. *)
Deducted(row, a) ==
    [balance        |-> row.balance - a,
     totalDeposited |-> wallet.totalDeposited,
     totalWithdrawn |-> row.totalWithdrawn + a]

-----------------------------------------------------------------------------
(* The other writers of the row. *)

Credit(a) ==
    /\ deposits + a <= MaxDeposits
    /\ deposits' = deposits + a
    /\ wallet' = [balance        |-> wallet.balance + a,
                  totalDeposited |-> wallet.totalDeposited + a,
                  totalWithdrawn |-> wallet.totalWithdrawn]
    /\ UNCHANGED <<history, otp, request, pc, args, snap, paidOut, receipt, repair, faults>>

(* The command reads the row and its ledger lines; withdrawals have none.  *)
RepairCompute ==
    /\ UseRepair /\ ~inSeries
    /\ ~repair.on
    /\ wallet.balance # deposits
    /\ repair' = [on |-> TRUE,
                  row |-> [balance |-> deposits, totalDeposited |-> deposits,
                           totalWithdrawn |-> 0]]
    /\ UNCHANGED <<history, wallet, deposits, otp, request, pc, args, snap, paidOut, receipt, faults>>

RepairSave ==
    /\ repair.on
    /\ wallet' = repair.row
    /\ repair' = Idle
    /\ UNCHANGED <<history, deposits, otp, request, pc, args, snap, paidOut, receipt, faults>>

-----------------------------------------------------------------------------
(* One-time passwords. *)

(* initiate and sendWithdrawalOtp compare the balance and store the        *)
(* request; a mail that fails afterwards leaves the OTP in place.          *)
SendWithdrawalOtp(o, r) ==
    /\ otp[o] = "none"
    /\ Covered(wallet, r.amount)
    /\ otp' = [otp EXCEPT ![o] = "open"]
    /\ request' = [request EXCEPT ![o] = r]
    /\ UNCHANGED <<history, wallet, deposits, pc, args, snap, paidOut, receipt, repair, faults>>

Expire(o) ==
    /\ otp[o] = "open"
    /\ otp' = [otp EXCEPT ![o] = "expired"]
    /\ UNCHANGED <<history, wallet, deposits, request, pc, args, snap, paidOut, receipt, repair, faults>>

(* The OTP row is read and looked at.  A wrong code ends the call like a   *)
(* used or expired OTP does.                                               *)
ConfirmWithdrawal(c, o) ==
    /\ pc[c] = "idle"
    /\ MayBegin
    /\ otp[o] # "none"
    /\ args' = [args EXCEPT ![c] = [otp |-> o, kind |-> request[o].kind,
                                    amount |-> request[o].amount]]
    /\ \/ Accepted(o) /\ Goto(c, "mark")
       \/ Goto(c, "failed")
    /\ UNCHANGED <<history, wallet, deposits, otp, request, snap, paidOut, receipt, repair, faults>>

(* The OTP is marked used, whatever its row says by now. *)
MarkUsed(c) ==
    /\ pc[c] = "mark"
    /\ otp' = [otp EXCEPT ![args[c].otp] = "used"]
    /\ Goto(c, "load")
    /\ UNCHANGED <<history, wallet, deposits, request, args, snap, paidOut, receipt, repair, faults>>

AutoSettle(c, r) ==
    /\ pc[c] = "idle"
    /\ MayBegin
    /\ args' = [args EXCEPT ![c] = [otp |-> NoOtp, kind |-> r.kind, amount |-> r.amount]]
    /\ Goto(c, "load")
    /\ UNCHANGED <<history, wallet, deposits, otp, request, snap, paidOut, receipt, repair, faults>>

-----------------------------------------------------------------------------
(* The withdrawal itself. *)

(* The call's money leaves the platform. *)
Leaves(c) ==
    /\ paidOut' = paidOut \union {c}
    /\ paidTotal' = paidTotal + args[c].amount
    /\ bankTotal' = IF args[c].kind = "fiat" THEN bankTotal + args[c].amount ELSE bankTotal

LoadWallet(c) ==
    /\ pc[c] = "load"
    /\ snap' = [snap EXCEPT ![c] = wallet]
    /\ IF Covered(wallet, args[c].amount) THEN Advance(c) ELSE Goto(c, "failed")
    /\ UNCHANGED <<history, wallet, deposits, otp, request, args, paidOut, receipt, repair, faults>>

SendOnChain(c) ==
    /\ pc[c] = "send"
    /\ Leaves(c)
    /\ Advance(c)
    /\ UNCHANGED <<writtenOff, wallet, deposits, otp, request, args, snap, receipt, repair, faults>>

Deduct(c) ==
    /\ pc[c] = "deduct"
    /\ wallet' = Deducted(snap[c], args[c].amount)
    /\ Advance(c)
    /\ UNCHANGED <<history, deposits, otp, request, args, snap, paidOut, receipt, repair, faults>>

PayoutToBank(c) ==
    /\ pc[c] = "payout"
    /\ Leaves(c)
    /\ Advance(c)
    /\ UNCHANGED <<writtenOff, wallet, deposits, otp, request, args, snap, receipt, repair, faults>>

(* TransactionService writes the status of the call's transaction. *)
SetReceipt(c, status) == receipt' = [receipt EXCEPT ![c] = status]

CreateWithdrawalTransaction(c) ==
    /\ pc[c] = "record"
    /\ SetReceipt(c, "pending")
    /\ Advance(c)
    /\ UNCHANGED <<history, wallet, deposits, otp, request, args, snap, paidOut, repair, faults>>

UpdateTransactionStatus(c) ==
    /\ pc[c] = "finish"
    /\ SetReceipt(c, IF args[c].kind = "ckb" THEN "processing" ELSE "completed")
    /\ Advance(c)
    /\ UNCHANGED <<history, wallet, deposits, otp, request, args, snap, paidOut, repair, faults>>

(* A step throws or the process dies: the call ends, and nothing it did is *)
(* undone.  A transfer that seems to have failed may have gone out.        *)
Fail(c) ==
    /\ faults < MaxFaults
    /\ faults' = faults + 1
    /\ pc[c] \in Steps
    /\ \/ UNCHANGED <<paidOut, paidTotal, bankTotal>>
       \/ /\ pc[c] \in {"send", "payout"}
          /\ Leaves(c)
    /\ writtenOff' = IF args[c].kind = "chain" /\ c \in paidOut'
                     THEN writtenOff + args[c].amount ELSE writtenOff
    /\ Goto(c, "failed")
    /\ UNCHANGED <<wallet, deposits, otp, request, args, snap, receipt, repair>>

CallStep(c) ==
    \/ MarkUsed(c)
    \/ LoadWallet(c)
    \/ SendOnChain(c)
    \/ Deduct(c)
    \/ PayoutToBank(c)
    \/ CreateWithdrawalTransaction(c)
    \/ UpdateTransactionStatus(c)

Next ==
    /\ \/ \E a \in Amounts : Credit(a)
       \/ RepairCompute
       \/ RepairSave
       \/ \E o \in Otps :
           \/ \E r \in Requests : SendWithdrawalOtp(o, r)
           \/ Expire(o)
       \/ \E c \in Calls :
           \/ \E o \in Otps : ConfirmWithdrawal(c, o)
           \/ \E r \in Requests : AutoSettle(c, r)
           \/ CallStep(c)
           \/ Fail(c)
    /\ UNCHANGED inSeries

Spec == Init /\ [][Next]_vars

-----------------------------------------------------------------------------

(* Every variable has its type. *)
TypeOK ==
    /\ wallet \in Row
    /\ deposits \in Nat
    /\ otp \in [Otps -> {"none", "open", "expired", "used"}]
    /\ request \in [Otps -> Requests]
    /\ pc \in [Calls -> {"idle"} \union Steps \union Ends]
    /\ args \in [Calls -> [otp : Otps \union {NoOtp}, kind : Kinds, amount : Amounts]]
    /\ snap \in [Calls -> Row]
    /\ paidOut \subseteq Calls
    /\ receipt \in [Calls -> {"none", "pending", "processing", "completed"}]
    /\ repair \in [on : BOOLEAN, row : Row]
    /\ paidTotal \in Nat /\ bankTotal \in Nat /\ writtenOff \in Nat
    /\ inSeries \in BOOLEAN
    /\ faults \in Nat

(* However calls, deposits and repairs interleave, no write leaves the     *)
(* balance negative: a call only ever writes back what it had compared     *)
(* with the amount (lines 234, 751).                                       *)
BalanceNonNegative == wallet.balance >= 0

(* A withdrawal that the user sees as completed was paid, whatever failed. *)
CompletedWasPaid ==
    \A c \in Calls : receipt[c] = "completed" => c \in paidOut

(* One call at a time, the platform never pays out more than was           *)
(* deposited, but for on-chain transfers whose call failed after the       *)
(* tokens were sent (lines 405-436).                                       *)
NeverOverpaid == inSeries => paidTotal - writtenOff <= deposits

(* One OTP moves money once (line 195). *)
OtpPaysOnce ==
    \A o \in Otps : Cardinality({c \in paidOut : args[c].otp = o}) <= 1

(* It does when calls are made one at a time, whatever fails.              *)
OtpPaysOnceInSeries == inSeries => OtpPaysOnce

(* One call at a time, what went to banks was deducted from the balance    *)
(* before (line 762).                                                      *)
FundsAreHeld == inSeries => bankTotal <= wallet.totalWithdrawn

(* While nothing is under way, the ledger's lines add up to the balance:   *)
(* every debit and credit has created its entry.                           *)
LedgerExplainsBalance == Running = {} => wallet.balance = deposits
=============================================================================
