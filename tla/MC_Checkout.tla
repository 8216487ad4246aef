----------------------------- MODULE MC_Checkout -----------------------------
(* Bounds: three requests, two of them at a time, two payments of which at  *)
(* most one exists beforehand, a child wallet for each request, and one     *)
(* network of each kind; a single-use link has no other limit at first.  No *)
(* property depends on inSeries, so that all behaviours of requests one at  *)
(* a time are among those in which they may overlap.                        *)
EXTENDS Checkout, TLC

MCLimits == {1}

MCInit ==
    /\ Init /\ ~inSeries
    /\ Cardinality({i \in Intents : Exists(i)}) <= 1
    /\ \A l \in Links : link[l].single => link[l].limit = None

MCSpec == MCInit /\ [][Next]_vars

MCSymmetry == Permutations(Requests) \union Permutations(ChildWallets)
    \union Permutations(Intents) \union Permutations(References)
=============================================================================
