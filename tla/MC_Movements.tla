----------------------------- MODULE MC_Movements -----------------------------
(* Bounds: the wallets of a business and of another user, two transfers and *)
(* one cancellation, one run of the command on each of two days, deposits   *)
(* for two movements and one failure.                                       *)
EXTENDS Movements, TLC

CONSTANTS u1, u2

MCAmounts == {2}

MCOrders == [from : {u1}, to : {u2}, kind : {"bank", "user", "merchant"}, amount : {2}]

MCNoOrder == [from |-> u1, to |-> u2, kind |-> "bank", amount |-> 2]

(* An interval in which nothing was paid is like the one before it, and the *)
(* next one begins when no user is served.                                  *)
MCInterval == today' = today \/ (paidOn # <<>> /\ atWork \subseteq Runs)

(* Of the events that find no row, those of a success stand for the others. *)
MCEvents == \A e \in events' : e[3] => e[2] = "success"

(* What overlaps is explored with payouts to a bank, the others in series.  *)
MCInit == Init /\ (inSeries \/ method = "bank")

MCSpec == MCInit /\ [][Next /\ MCInterval /\ MCEvents]_vars

MCSymmetry == Permutations(Transfers)
=============================================================================
