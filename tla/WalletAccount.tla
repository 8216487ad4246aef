---------------------------- MODULE WalletAccount ----------------------------
(***************************************************************************)
(* What a user's USDT savings account promises: an account is opened       *)
(* empty, every credit and every debit takes effect in one indivisible     *)
(* step together with its line in the balance ledger, a debit never takes  *)
(* more than there is, and one service call takes effect at most once.     *)
(*                                                                         *)
(* This is the abstract specification; UserWalletService.tla implements it *)
(* with row locks and transactions.                                        *)
(***************************************************************************)
EXTENDS Integers, Sequences

CONSTANTS
    Wallets,    \* rows of user_wallets
    Calls,      \* calls of the service, each the reference of its ledger line
    Amounts     \* amounts callers pass, in units of 10^-6 USDT

VARIABLES
    status,     \* "absent" until the wallet row is created
    wallet,     \* the committed balance columns of each wallet
    ledger      \* the committed ledger lines of each wallet, oldest first

vars == <<status, wallet, ledger>>

Statuses == {"absent", "active", "inactive"}

EmptyRow == [balance |-> 0, totalDeposited |-> 0, totalWithdrawn |-> 0]

Row == [balance : Int, totalDeposited : Int, totalWithdrawn : Int]

LedgerLine ==
    [call : Calls, type : {"deposit", "transfer"}, amount : Int, balanceAfter : Int]

(* The row and the ledger line that a credit of `a` produces. *)
Credited(row, a) ==
    [balance        |-> row.balance + a,
     totalDeposited |-> row.totalDeposited + a,
     totalWithdrawn |-> row.totalWithdrawn]

Debited(row, a) ==
    [balance        |-> row.balance - a,
     totalDeposited |-> row.totalDeposited,
     totalWithdrawn |-> row.totalWithdrawn + a]

Line(c, type, a, row) ==
    [call |-> c, type |-> type, amount |-> a, balanceAfter |-> row.balance]

(* Call c has no line in any ledger. *)
Unapplied(c) ==
    \A w \in Wallets : \A i \in 1..Len(ledger[w]) : ledger[w][i].call # c

-----------------------------------------------------------------------------

Init ==
    /\ status \in [Wallets -> Statuses]
    /\ wallet = [w \in Wallets |-> EmptyRow]
    /\ ledger = [w \in Wallets |-> <<>>]

Open(w) ==
    /\ status[w] = "absent"
    /\ status' = [status EXCEPT ![w] = "active"]
    /\ UNCHANGED <<wallet, ledger>>

Credit(c, w, a) ==
    /\ a > 0
    /\ status[w] # "absent"
    /\ Unapplied(c)
    /\ wallet' = [wallet EXCEPT ![w] = Credited(wallet[w], a)]
    /\ ledger' = [ledger EXCEPT
                    ![w] = Append(@, Line(c, "deposit", a, Credited(wallet[w], a)))]
    /\ UNCHANGED status

Debit(c, w, a) ==
    /\ a > 0
    /\ status[w] = "active"
    /\ Unapplied(c)
    /\ a <= wallet[w].balance
    /\ wallet' = [wallet EXCEPT ![w] = Debited(wallet[w], a)]
    /\ ledger' = [ledger EXCEPT
                    ![w] = Append(@, Line(c, "transfer", a, Debited(wallet[w], a)))]
    /\ UNCHANGED status

Next ==
    \/ \E w \in Wallets : Open(w)
    \/ \E c \in Calls, w \in Wallets, a \in Amounts : Credit(c, w, a) \/ Debit(c, w, a)

Spec == Init /\ [][Next]_vars

=============================================================================
