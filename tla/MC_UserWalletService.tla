------------------------ MODULE MC_UserWalletService ------------------------
(* Bounds: two concurrent calls over two wallets.  Amounts 0 to 2 cover a   *)
(* rejected amount, a debit that the balance covers exactly and one that it *)
(* does not.                                                                *)
EXTENDS UserWalletService

CONSTANTS w1, w2

(* A credit names its wallet, or takes any of the user's two. *)
MCQueries == {{w1}, {w1, w2}}

MCAmounts == 0..2
=============================================================================
