---------------------------- MODULE MC_Withdrawal ----------------------------
(* Bounds: two OTPs, two calls, amounts 1 and 2 of at most 2 deposited: a   *)
(* withdrawal of all there is, two that fit together and two that do not.   *)
EXTENDS Withdrawal, TLC

MCAmounts == 1..2

MCSymmetry == Permutations(Calls) \union Permutations(Otps)
=============================================================================
