------------------------------ MODULE Movements ------------------------------
(***************************************************************************)
(* Everything that moves money out of user_wallets but withdrawals:        *)
(* transfers, cancellations and automatic payouts over the same rows, with *)
(* deposits at any moment.                                                 *)
(***************************************************************************)
EXTENDS Transfer, AutoPayout, FiniteSetsExt

ASSUME AtWorkAssumption ==
    Transfers \intersect Cancellers = {} /\ (Transfers \union Cancellers) \intersect Runs = {}

vars == <<rowVars, transferVars, payoutVars>>

Init == RowsInit /\ TransferInit /\ PayoutInit

Next ==
    \/ (\E w \in Earning, a \in Amounts : Deposit(w, a)) /\ UNCHANGED <<transferVars, payoutVars>>
    \/ TransferNext /\ UNCHANGED payoutVars
    \/ PayoutNext /\ UNCHANGED transferVars

Spec == Init /\ [][Next]_vars

-----------------------------------------------------------------------------

(* Every variable has its type. *)
TypeOK ==
    /\ row \in [Wallets -> Row]
    /\ deposited \in Nat /\ left \in Nat /\ faults \in Nat
    /\ inSeries \in BOOLEAN
    /\ atWork \subseteq Transfers \union Cancellers \union Runs
    /\ TransferTypes
    /\ PayoutTypes

(* However transfers, cancellations, payouts and deposits overwrite each   *)
(* other's updates, no balance becomes negative: every copy that is        *)
(* written back was compared with what is taken from it.                   *)
BalanceNonNegative == \A w \in Wallets : row[w].balance >= 0

(* One request or command at a time, whatever fails and whenever deposits  *)
(* come, what left the platform and what the wallets still hold is not     *)
(* more than what was deposited, but for what was sent on chain and not    *)
(* taken from its wallet; and that only remains where a step has failed    *)
(* (WithdrawalService lines 417-439 send first and save then).             *)
NeverOverpaid ==
    inSeries =>
        /\ left + MapThenSumSet(LAMBDA w : row[w].balance, Wallets) <= deposited + unbooked
        /\ faults = 0 /\ atWork = {} => unbooked = 0
=============================================================================
