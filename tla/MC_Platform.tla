----------------------------- MODULE MC_Platform -----------------------------
(* Bounds: three requests, two of them at a time; a wallet and two members  *)
(* it may belong to, two challenges; one business with a CAC document and   *)
(* a letter, and an admin; two attempts of a webhook; two pages of a        *)
(* merchant, and one of a customer that polls once before it times out.     *)
EXTENDS Platform, TLC

(* An admin verifies and blocks in the behaviours themselves. *)
MCInit == Init /\ verifiedOnce = {} /\ blocked = {}

(* Once a customer's page is open, requests that have nothing to do with    *)
(* the payment are no longer under way.                                     *)
MCPage == (\E r \in Requests : watch[r] # Empty) => \A r \in Running : job[r].op = "webhook"

MCSpec == MCInit /\ [][Next /\ MCPage']_vars

MCSymmetry == Permutations(Requests) \union Permutations(Members) \union Permutations(Challenges)
=============================================================================
