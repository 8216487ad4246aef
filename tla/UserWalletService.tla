-------------------------- MODULE UserWalletService --------------------------
(***************************************************************************)
(* creditWallet and debitWallet of app/Services/UserWalletService.ts, with *)
(* every database round trip a step of its own, run by any number of       *)
(* concurrent callers over the same rows of user_wallets.                  *)
(*                                                                         *)
(* A call goes                                                             *)
(*   "idle" -> "find"                    CallCredit, amount checked        *)
(*          -> "lock"                    FindWallet, an unlocked read      *)
(*          -> "locked"                  LockRow, SELECT ... FOR UPDATE    *)
(*          -> "updated" -> "inserted"   UpdateRow, InsertLedger           *)
(*          -> "done"                    Commit                            *)
(* and a debit starts at "lock".  "null" and "error" are the other two     *)
(* ways the promise settles.  Postgres runs at READ COMMITTED: the writes  *)
(* of an open transaction are seen by nobody else, and the row lock is     *)
(* held from the SELECT to the end of the transaction.                     *)
(***************************************************************************)
EXTENDS Integers, Sequences

CONSTANTS
    Wallets,    \* rows of user_wallets
    Calls,      \* concurrent calls of the service
    Amounts,    \* amounts callers pass, in units of 10^-6 USDT
    Queries,    \* the sets of rows a credit's wallet query can match
    None        \* the owner of a row nobody has locked

ASSUME AmountsAssumption == Amounts \subseteq Int
ASSUME QueriesAssumption == Queries \subseteq SUBSET Wallets
ASSUME NoneAssumption == None \notin Calls

VARIABLES
    status,     \* [Wallets -> Statuses], "absent" until the row is created
    wallet,     \* committed balance columns
    ledger,     \* committed balance_ledgers lines of each wallet, oldest first
    lock,       \* the call whose transaction holds the row lock
    pc,         \* where each call is
    args,       \* its arguments
    target,     \* the wallet it works on
    snap,       \* the row it read under the lock (lockedWallet)
    staged      \* the row its open transaction has written

vars == <<status, wallet, ledger, lock, pc, args, target, snap, staged>>

(* What the service promises, over the three variables that others see. *)
Account == INSTANCE WalletAccount WITH Wallets <- Wallets, Calls <- Calls, Amounts <- Amounts,
    status <- status, wallet <- wallet, ledger <- ledger

Statuses == Account!Statuses
EmptyRow == Account!EmptyRow
Row == Account!Row

Pcs == {"idle", "find", "lock", "locked", "updated", "inserted", "done", "null", "error"}

InTrx == {"locked", "updated", "inserted"}      \* holds the row lock
Settled == {"done", "null", "error"}            \* the promise is settled

Arguments == [kind : {"credit", "debit"}, wallets : SUBSET Wallets, amount : Int]

Init ==
    /\ Account!Init
    /\ lock = [w \in Wallets |-> None]
    /\ pc = [c \in Calls |-> "idle"]
    /\ args = [c \in Calls |-> [kind |-> "credit", wallets |-> {}, amount |-> 0]]
    /\ target \in [Calls -> Wallets]
    /\ snap = [c \in Calls |-> EmptyRow]
    /\ staged = [c \in Calls |-> EmptyRow]

-----------------------------------------------------------------------------
(* The row a call computes from the row it read, and its ledger line.      *)
(* A definition named ..._Bug is never used by the specification: it is    *)
(* what the next definition would be with a mistake, to see that the       *)
(* properties notice it.                                                   *)

(* The row is replaced by the new balance instead of merged with it. *)
NewRow_Bug(c) == [balance |-> snap[c].balance + args[c].amount]

NewRow(c) ==
    IF args[c].kind = "credit"
    THEN Account!Credited(snap[c], args[c].amount)
    ELSE Account!Debited(snap[c], args[c].amount)

NewLine(c) ==
    Account!Line(c, IF args[c].kind = "credit" THEN "deposit" ELSE "transfer",
                 args[c].amount, staged[c])

Sufficient(c) == args[c].kind = "credit" \/ snap[c].balance >= args[c].amount

Goto(c, label) == pc' = [pc EXCEPT ![c] = label]

(* The SELECT does not ask FOR UPDATE. *)
RowFree_Bug(c) == TRUE

RowFree(c) == lock[target[c]] = None

(* An error path leaves the transaction open. *)
Unlock_Bug(c) == UNCHANGED lock

(* The end of c's transaction frees the row it had locked. *)
Unlock(c) == lock' = [w \in Wallets |-> IF lock[w] = c THEN None ELSE lock[w]]

-----------------------------------------------------------------------------

(* A business gets its wallet on a network with its first payment. *)
Provision(w) ==
    /\ status[w] = "absent"
    /\ status' = [status EXCEPT ![w] = "active"]
    /\ UNCHANGED <<wallet, ledger, lock, pc, args, target, snap, staged>>

(* An amount that is not positive settles with null before any query. *)
CallCredit(c, ws, a) ==
    /\ pc[c] = "idle"
    /\ args' = [args EXCEPT ![c] = [kind |-> "credit", wallets |-> ws, amount |-> a]]
    /\ Goto(c, IF a <= 0 THEN "null" ELSE "find")
    /\ UNCHANGED <<status, wallet, ledger, lock, target, snap, staged>>

CallDebit(c, w, a) ==
    /\ pc[c] = "idle"
    /\ args' = [args EXCEPT ![c] = [kind |-> "debit", wallets |-> {w}, amount |-> a]]
    /\ target' = [target EXCEPT ![c] = w]
    /\ Goto(c, IF a <= 0 THEN "null" ELSE "lock")
    /\ UNCHANGED <<status, wallet, ledger, lock, snap, staged>>

ActiveMatches(c) == {w \in args[c].wallets : status[w] = "active"}

(* An unlocked query for an active wallet: any match, or none and null. *)
FindWallet(c) ==
    /\ pc[c] = "find"
    /\ \/ /\ ActiveMatches(c) = {}
          /\ Goto(c, "null")
          /\ UNCHANGED target
       \/ \E w \in ActiveMatches(c) :
            /\ target' = [target EXCEPT ![c] = w]
            /\ Goto(c, "lock")
    /\ UNCHANGED <<status, wallet, ledger, lock, args, snap, staged>>

(* SELECT ... FOR UPDATE waits for the lock and then reads what is committed. *)
LockRow(c) ==
    /\ pc[c] = "lock"
    /\ RowFree(c)
    /\ args[c].kind = "debit" => status[target[c]] = "active"
    /\ lock' = [lock EXCEPT ![target[c]] = c]
    /\ snap' = [snap EXCEPT ![c] = wallet[target[c]]]
    /\ Goto(c, "locked")
    /\ UNCHANGED <<status, wallet, ledger, args, target, staged>>

(* firstOrFail of a debit: the row is not there or not active. *)
WalletMissing(c) ==
    /\ pc[c] = "lock"
    /\ args[c].kind = "debit"
    /\ status[target[c]] # "active"
    /\ Goto(c, "error")
    /\ UNCHANGED <<status, wallet, ledger, lock, args, target, snap, staged>>

InsufficientBalance(c) ==
    /\ pc[c] = "locked"
    /\ ~Sufficient(c)
    /\ Unlock(c)
    /\ Goto(c, "error")
    /\ UNCHANGED <<status, wallet, ledger, args, target, snap, staged>>

UpdateRow(c) ==
    /\ pc[c] = "locked"
    /\ Sufficient(c)
    /\ staged' = [staged EXCEPT ![c] = NewRow(c)]
    /\ Goto(c, "updated")
    /\ UNCHANGED <<status, wallet, ledger, lock, args, target, snap>>

(* The reload sees the transaction's own write, so the verification that   *)
(* precedes the insert compares the row with itself and passes.            *)
InsertLedger(c) ==
    /\ pc[c] = "updated"
    /\ Goto(c, "inserted")
    /\ UNCHANGED <<status, wallet, ledger, lock, args, target, snap, staged>>

(* A COMMIT whose answer is lost is answered by running the call again. *)
CommitAnswer_Bug(c) == Goto(c, "done") \/ Goto(c, "find")

CommitAnswer(c) == Goto(c, "done") \/ Goto(c, "error")

(* COMMIT publishes both writes; if the connection is lost before its      *)
(* answer arrives the caller sees an error all the same.                   *)
Commit(c) ==
    /\ pc[c] = "inserted"
    /\ wallet' = [wallet EXCEPT ![target[c]] = staged[c]]
    /\ ledger' = [ledger EXCEPT ![target[c]] = Append(@, NewLine(c))]
    /\ Unlock(c)
    /\ CommitAnswer(c)
    /\ UNCHANGED <<status, args, target, snap, staged>>

(* A statement or the connection fails, or the process dies: the           *)
(* transaction, if one is open, leaves no trace.                           *)
Abort(c) ==
    /\ pc[c] \in {"find", "lock"} \union InTrx
    /\ Unlock(c)
    /\ Goto(c, "error")
    /\ UNCHANGED <<status, wallet, ledger, args, target, snap, staged>>

Progress(c) ==
    \/ FindWallet(c)
    \/ LockRow(c)
    \/ WalletMissing(c)
    \/ InsufficientBalance(c)
    \/ UpdateRow(c)
    \/ InsertLedger(c)
    \/ Commit(c)

Next ==
    \/ \E w \in Wallets : Provision(w)
    \/ \E c \in Calls :
        \/ \E ws \in Queries, a \in Amounts : CallCredit(c, ws, a)
        \/ \E w \in Wallets, a \in Amounts : CallDebit(c, w, a)
        \/ Progress(c)
        \/ Abort(c)

Spec == Init /\ [][Next]_vars

(* A call that can take its next step takes it: queries are answered and a *)
(* free row lock is granted.  Nobody has to call, and nothing has to fail. *)
FairSpec == Spec /\ \A c \in Calls : WF_vars(Progress(c))

-----------------------------------------------------------------------------

(* Every variable has its type; in particular what a transaction writes is *)
(* always a whole row.                                                     *)
TypeOK ==
    /\ status \in [Wallets -> Statuses]
    /\ wallet \in [Wallets -> Row]
    /\ ledger \in [Wallets -> Seq(Account!LedgerLine)]
    /\ lock \in [Wallets -> Calls \union {None}]
    /\ pc \in [Calls -> Pcs]
    /\ args \in [Calls -> Arguments]
    /\ target \in [Calls -> Wallets]
    /\ snap \in [Calls -> Row]
    /\ staged \in [Calls -> Row]

(* Two transactions never work on one wallet, and what a transaction read  *)
(* under the lock is still what is committed when it writes: no update of  *)
(* creditWallet or debitWallet is lost (FOR UPDATE, lines 57-60, 115-119). *)
NoStaleRead ==
    \A c \in Calls : pc[c] \in InTrx =>
        /\ lock[target[c]] = c
        /\ snap[c] = wallet[target[c]]

(* Replaying a wallet's ledger from zero gives its balance: every line     *)
(* starts from the balance the line before it left, and the last one left  *)
(* the balance the row has now.                                            *)
BalanceBefore(w, i) == IF i = 1 THEN 0 ELSE ledger[w][i - 1].balanceAfter

SignedAmount(line) == IF line.type = "deposit" THEN line.amount ELSE 0 - line.amount

LedgerExplainsBalance ==
    \A w \in Wallets :
        /\ wallet[w].balance = BalanceBefore(w, Len(ledger[w]) + 1)
        /\ \A i \in 1..Len(ledger[w]) :
            ledger[w][i].balanceAfter = BalanceBefore(w, i) + SignedAmount(ledger[w][i])

(* The three columns of a row agree, and no debit overdraws a wallet       *)
(* whatever order concurrent calls run in.                                 *)
BalanceIsSound ==
    \A w \in Wallets :
        /\ wallet[w].balance >= 0
        /\ wallet[w].balance = wallet[w].totalDeposited - wallet[w].totalWithdrawn

(* A call takes effect at most once, in one wallet; one that settled with  *)
(* its wallet did take effect, one that settled with null did not.  Only   *)
(* an error leaves the caller in doubt: its COMMIT may have been carried   *)
(* out, and repeating the call then credits twice.                         *)
Entry(c, w, i) == i \in 1..Len(ledger[w]) /\ ledger[w][i].call = c

OutcomeMatchesLedger ==
    \A c \in Calls :
        /\ \A v, w \in Wallets : \A i \in 1..Len(ledger[v]), j \in 1..Len(ledger[w]) :
            Entry(c, v, i) /\ Entry(c, w, j) => v = w /\ i = j
        /\ pc[c] = "done" => \E i \in 1..Len(ledger[target[c]]) : Entry(c, target[c], i)
        /\ pc[c] \notin {"done", "error"} => Account!Unapplied(c)

(* The detailed service implements the account: a step of a call is either *)
(* invisible outside its transaction or one whole credit or debit.         *)
ImplementsAccount == Account!Spec

(* Every call settles: waiting for a row lock never blocks one for ever,   *)
(* for a transaction locks one row and ends without waiting for another.   *)
EveryCallSettles ==
    \A c \in Calls : pc[c] # "idle" ~> pc[c] \in Settled

=============================================================================
