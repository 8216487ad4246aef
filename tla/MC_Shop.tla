------------------------------- MODULE MC_Shop -------------------------------
(* Bounds: three requests, two of them at a time, all three to carts and    *)
(* products, to the builder or to files, whose steps touch each other's     *)
(* variables in nothing; one product in each of two shops, and one more     *)
(* that the first of them does not allow; a user, a guest, and guests'      *)
(* orders of both products at the price of one shop; an order that exists   *)
(* and one that may be made; a shop that exists and one that may be         *)
(* created; one deposit and one other reference, a buffer of one exchange,  *)
(* one logo and one product with at most two images.                       *)
EXTENDS Shop, TLC

CONSTANTS p1, p2, p3, s1, s2, m1, m2, a, o1, o2

VARIABLE part   \* what the requests are to

MCShopOf == p1 :> s1 @@ p2 :> s2 @@ p3 :> s1

MCGuestLines == {{[product |-> p1, quantity |-> 2], [product |-> p2, quantity |-> 2]}}

(* Which rows exist at first makes no difference but for their names. *)
MCInit ==
    /\ Init
    /\ part \in {"carts", "builder", "files"}
    /\ product[p1] = [stock |-> 1, active |-> TRUE] /\ product[p3] = None
    /\ product[p2] \in {None, product[p1]}
    /\ order[o1] # None /\ order[o2] = None /\ order[o1].shop = s1
    /\ shop[m2] = Null /\ shop[m1].subdomain = a
    /\ part # "carts" => product[p2] = None
    /\ part # "builder" => gateways = 0 /\ ~shop[m1].custom

MCNext ==
    /\ \/ part = "carts" /\ CartNext /\ UNCHANGED <<builderVars, fileVars>>
       \/ part = "builder" /\ BuilderNext /\ UNCHANGED <<cartVars, fileVars>>
       \/ part = "files" /\ FilesNext /\ UNCHANGED <<cartVars, builderVars>>
       \/ \E r \in Requests : BreakRequest(r)
    /\ UNCHANGED part

MCSpec == MCInit /\ [][MCNext]_<<vars, part>>

MCSymmetry == Permutations(Requests) \union Permutations(Items) \union Permutations(Carts)
=============================================================================
