------------------------------ MODULE WalletRows ------------------------------
(***************************************************************************)
(* The rows of user_wallets as the services see them that move money out   *)
(* of a wallet (TransferService, process:payouts), and who is at work on   *)
(* them.  A service reads a row without keeping it locked, awaits rates or *)
(* banks, and writes back what it computed from that copy.                 *)
(***************************************************************************)
EXTENDS Integers, FiniteSets

CONSTANTS
    Wallets,        \* rows of user_wallets, each of a user of its own
    Earning,        \* those that customers pay into
    Amounts,        \* amounts users move and customers deposit
    MaxDeposits,    \* bound: what is deposited in all
    MaxInFlight,    \* bound: requests and commands at work, when they overlap
    MaxFaults       \* bound: failed steps and crashes

ASSUME WalletsAssumption == IsFiniteSet(Wallets)
ASSUME EarningAssumption == Earning \subseteq Wallets
ASSUME AmountsAssumption == Amounts \subseteq Nat \ {0}
ASSUME BoundsAssumption == 
    MaxDeposits \in Nat /\ MaxInFlight \in Nat /\ MaxFaults \in Nat

VARIABLES
    row,        \* balance and totalWithdrawn of each row
    deposited,  \* history: what was deposited in all
    left,       \* history: what has left the platform, its fees included
    atWork,     \* the requests and commands under way
    inSeries,   \* whether they are started one at a time
    faults      \* failed steps so far

rowVars == <<row, deposited, left, atWork, inSeries, faults>>

Row == [balance : Int, withdrawn : Int]

RowsInit ==
    /\ row = [w \in Wallets |-> [balance |-> 0, withdrawn |-> 0]]
    /\ deposited = 0
    /\ left = 0
    /\ atWork = {}
    /\ inSeries \in BOOLEAN
    /\ faults = 0

(* A definition named ..._Bug is never used by the specification: it is    *)
(* what the next definition would be with a mistake, to see that the       *)
(* properties notice it.                                                   *)

(* The check of a balance before money is taken. *)
Covered(r, a) == r.balance >= a

(* The row is replaced by the new balance. *)
Debited_Bug(r, a) == [balance |-> r.balance - a]

(* The row after a is taken out of a copy, or put back. *)
Debited(r, a) == [balance |-> r.balance - a, withdrawn |-> r.withdrawn + a]

(* Another request or command may begin. *)
MayBegin == IF inSeries THEN atWork = {} ELSE Cardinality(atWork) < MaxInFlight

Begin(x) == atWork' = atWork \union {x}

End(x) == atWork' = atWork \ {x}

(* creditWallet locks the row, so that it is one step. *)
Deposit(w, a) ==
    /\ deposited + a <= MaxDeposits
    /\ deposited' = deposited + a
    /\ row' = [row EXCEPT ![w].balance = @ + a]
    /\ UNCHANGED <<left, atWork, inSeries, faults>>

Fault == faults < MaxFaults /\ faults' = faults + 1
=============================================================================
