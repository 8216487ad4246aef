------------------------- MODULE MC_PaymentIndexer -------------------------
(* Two intents, with a child wallet each or sharing one, as createChildWallet *)
(* lets them once the first is completed; only the first can be credited.     *)
EXTENDS PaymentIndexer

CONSTANTS i1, i2, w1, w2

MCOwnWallets == [i \in {i1, i2} |-> IF i = i1 THEN w1 ELSE w2]

MCSharedWallet == [i \in {i1, i2} |-> w1]

(* It does not matter what a handler or the command has worked on before.  *)
MCInit ==
    /\ Init
    /\ cur = [h \in Handlers |-> i1]
    /\ rcur = [r \in Reconcilers |-> i1]

(* At most two runs are at work at once; and as overlapping handlers do    *)
(* the same on every network, on all but one they work one at a time.      *)
MCOverlap ==
    /\ Cardinality(Busy') + Cardinality({r \in Reconcilers : rpc'[r] # "idle"}) <= 2
    /\ (\E w \in ChildWallets : network[w] # "evm") => Cardinality(Busy') <= 1

MCSpec == MCInit /\ [][Next /\ MCOverlap]_vars /\ Fairness
=============================================================================
