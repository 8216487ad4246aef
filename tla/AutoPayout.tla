------------------------------ MODULE AutoPayout ------------------------------
(***************************************************************************)
(* process:payouts, the command that pays out what a business has in its   *)
(* wallet once an interval (commands/ProcessPayouts.ts).                   *)
(*                                                                         *)
(*   to a bank:        "idle" -> "wallet" -> "convert" -> "pay" ->         *)
(*                     "record" -> "idle"                                  *)
(*   to a wallet:      "idle" -> "wallet" -> "load" -> "send" -> "deduct"  *)
(*                     -> "idle"                                           *)
(*   to its only one:  "idle" -> "wallet" -> "record" -> "idle"            *)
(* To a bank, the wallet is emptied before the bank is called.  To another *)
(* wallet, processAutoSettlementWithdrawal reads the row again, sends on   *)
(* chain, and saves what it computed from its copy.  It is given the       *)
(* numeric id of the user and looks for it among the unique ids, which     *)
(* throws: on chain after the money has left, so that lastPayoutAt is      *)
(* never saved, and on CKB before anything is done.                        *)
(***************************************************************************)
EXTENDS WalletRows, Sequences

CONSTANTS
    Runs,       \* runs of the command that may be at work at once
    Business,   \* the wallet of the business with automatic settlement
    Methods,    \* payoutMethod: "bank", "wallet", or "own" for a wallet that is
                \* to be paid into itself
    MaxDays     \* bound: intervals that pass

ASSUME BusinessAssumption == Business \in Wallets
ASSUME MethodsAssumption == Methods \subseteq {"bank", "wallet", "own"} /\ MaxDays \in Nat

VARIABLES
    method,     \* how the business is paid
    lastPayout, \* the day of lastPayoutAt, 0 when there is none
    today,      \* the intervals that have passed
    rpc,        \* where each run is
    rday, rcopy,    \* the interval it began in, and the row it has read
    rsnap,      \* the row its withdrawal has read
    paidOn,     \* history: the intervals the business was paid for
    unbooked    \* history: what was sent on chain and not taken from the row

payoutVars == <<method, lastPayout, today, rpc, rcopy, rday, rsnap, paidOn, unbooked>>

NoRow == [balance |-> 0, withdrawn |-> 0]

PayoutInit ==
    /\ method \in Methods
    /\ lastPayout = 0
    /\ today = 1
    /\ rpc = [r \in Runs |-> "idle"]
    /\ rcopy = [r \in Runs |-> NoRow]
    /\ rday = [r \in Runs |-> 0]
    /\ rsnap = [r \in Runs |-> NoRow]
    /\ paidOn = <<>>
    /\ unbooked = 0

Due == lastPayout < today

ToStep(r, label) == rpc' = [rpc EXCEPT ![r] = label]

(* The run turns to the next business. *)
LeaveBusiness(r) ==
    /\ ToStep(r, "idle")
    /\ rcopy' = [rcopy EXCEPT ![r] = NoRow]
    /\ rsnap' = [rsnap EXCEPT ![r] = NoRow]
    /\ rday' = [rday EXCEPT ![r] = 0]
    /\ End(r)

PassInterval ==
    /\ today < MaxDays
    /\ today' = today + 1
    /\ UNCHANGED <<rowVars, method, lastPayout, rpc, rcopy, rday, rsnap, paidOn, unbooked>>

(* The setting is read, with the time of the last payout. *)
RunPayouts(r) ==
    /\ rpc[r] = "idle"
    /\ MayBegin
    /\ Due
    /\ rday' = [rday EXCEPT ![r] = today]
    /\ ToStep(r, "wallet")
    /\ Begin(r)
    /\ UNCHANGED <<row, deposited, left, inSeries, faults, method, lastPayout, today, rcopy,
                   rsnap, paidOn, unbooked>>

FirstStep ==
    CASE method = "bank" -> "convert"
      [] method = "wallet" -> "load"
      [] OTHER -> "record"

(* A business without a balance is skipped. *)
ReadWallets(r) ==
    /\ rpc[r] = "wallet"
    /\ IF row[Business].balance > 0
       THEN /\ rcopy' = [rcopy EXCEPT ![r] = row[Business]]
            /\ ToStep(r, FirstStep)
            /\ UNCHANGED <<atWork, rday, rsnap>>
       ELSE LeaveBusiness(r)
    /\ UNCHANGED <<row, deposited, left, inSeries, faults, method, lastPayout, today, paidOn,
                   unbooked>>

(* Every wallet is saved without its share, before the bank is called. *)
EmptyWallet(r) ==
    /\ rpc[r] = "convert"
    /\ row' = [row EXCEPT ![Business] = Debited(rcopy[r], rcopy[r].balance)]
    /\ ToStep(r, "pay")
    /\ UNCHANGED <<deposited, left, atWork, inSeries, faults, method, lastPayout, today,
                   rcopy, rday, rsnap, paidOn, unbooked>>

PaysOut(r) ==
    /\ left' = left + rcopy[r].balance
    /\ paidOn' = Append(paidOn, rday[r])

ProcessBankPayout(r) ==
    /\ rpc[r] = "pay"
    /\ PaysOut(r)
    /\ ToStep(r, "record")
    /\ UNCHANGED <<row, deposited, atWork, inSeries, faults, method, lastPayout, today, rcopy,
                   rday, rsnap, unbooked>>

(* processCryptoWithdrawal reads the row and compares it with the amount:  *)
(* one that is not covered, or not active, or on CKB, is refused.          *)
ProcessWalletPayout(r) ==
    /\ rpc[r] = "load"
    /\ \/ /\ Covered(row[Business], rcopy[r].balance)
          /\ rsnap' = [rsnap EXCEPT ![r] = row[Business]]
          /\ ToStep(r, "send")
          /\ UNCHANGED <<atWork, rcopy, rday>>
       \/ LeaveBusiness(r)
    /\ UNCHANGED <<row, deposited, left, inSeries, faults, method, lastPayout, today, paidOn,
                   unbooked>>

SendsOnChain(r) ==
    /\ PaysOut(r)
    /\ unbooked' = unbooked + rcopy[r].balance

SendWalletPayout(r) ==
    /\ rpc[r] = "send"
    /\ SendsOnChain(r)
    /\ ToStep(r, "deduct")
    /\ UNCHANGED <<row, deposited, atWork, inSeries, faults, method, lastPayout, today, rcopy,
                   rday, rsnap>>

(* The save; the lookup of the user that follows throws. *)
DeductWalletPayout(r) ==
    /\ rpc[r] = "deduct"
    /\ row' = [row EXCEPT ![Business] = Debited(rsnap[r], rcopy[r].balance)]
    /\ unbooked' = unbooked - rcopy[r].balance
    /\ LeaveBusiness(r)
    /\ UNCHANGED <<deposited, left, inSeries, faults, method, lastPayout, today, paidOn>>

(* lastPayoutAt is the time the run has started at. *)
RecordPayout(r) ==
    /\ rpc[r] = "record"
    /\ lastPayout' = rday[r]
    /\ LeaveBusiness(r)
    /\ UNCHANGED <<row, deposited, left, inSeries, faults, method, today, paidOn, unbooked>>

(* A step throws or the process dies: only lastPayoutStatus is saved.  A   *)
(* payout that seems to have failed may have gone out.                     *)
FailPayout(r) ==
    /\ rpc[r] # "idle"
    /\ Fault
    /\ \/ UNCHANGED <<left, paidOn, unbooked>>
       \/ rpc[r] = "pay" /\ PaysOut(r) /\ UNCHANGED unbooked
       \/ rpc[r] = "send" /\ SendsOnChain(r)
    /\ LeaveBusiness(r)
    /\ UNCHANGED <<row, deposited, inSeries, method, lastPayout, today>>

PayoutNext ==
    \/ PassInterval
    \/ \E r \in Runs :
        \/ RunPayouts(r)
        \/ ReadWallets(r)
        \/ EmptyWallet(r) \/ ProcessBankPayout(r)
        \/ ProcessWalletPayout(r) \/ SendWalletPayout(r) \/ DeductWalletPayout(r)
        \/ RecordPayout(r)
        \/ FailPayout(r)

-----------------------------------------------------------------------------

PayoutTypes ==
    /\ method \in Methods
    /\ lastPayout \in Nat /\ today \in Nat
    /\ rpc \in [Runs -> {"idle", "wallet", "convert", "pay", "load", "send", "deduct",
                          "record"}]
    /\ rcopy \in [Runs -> Row] /\ rday \in [Runs -> Nat] /\ rsnap \in [Runs -> Row]
    /\ paidOn \in Seq(Nat) /\ unbooked \in Int

(* One run at a time and nothing failed: a business is paid to its bank at *)
(* most once in an interval, whatever is credited to it in between (lines  *)
(* 38-45).  One that is paid to a wallet is paid whenever the command is   *)
(* run.                                                                    *)
PaidOncePerInterval ==
    inSeries /\ faults = 0 /\ method = "bank" =>
        \A i, j \in 1..Len(paidOn) : paidOn[i] = paidOn[j] => i = j
=============================================================================
