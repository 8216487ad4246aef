--------------------------------- MODULE Shop ---------------------------------
(***************************************************************************)
(* A business's shops: what customers do in them (Cart.tla), what the      *)
(* merchant does to them (ShopBuilder.tla) and their pictures              *)
(* (ShopFiles.tla), served by one process.                                 *)
(***************************************************************************)
EXTENDS Cart, ShopBuilder, ShopFiles

vars == <<requestVars, cartVars, builderVars, fileVars>>

Init == RequestsInit /\ CartInit /\ BuilderInit /\ FilesInit

BreakRequest(r) == Break(r) /\ UNCHANGED <<cartVars, builderVars, fileVars>>

Next ==
    \/ CartNext /\ UNCHANGED <<builderVars, fileVars>>
    \/ BuilderNext /\ UNCHANGED <<cartVars, fileVars>>
    \/ FilesNext /\ UNCHANGED <<cartVars, builderVars>>
    \/ \E r \in Requests : BreakRequest(r)

Spec == Init /\ [][Next]_vars

(* The rows keep their types. *)
TypeOK == CartTypes /\ BuilderTypes /\ FilesTypes

(* What a cart or a customer's order asks for, one shop could deliver: its *)
(* items are of one shop and within what was once in stock.  (Of a guest's *)
(* order nothing is looked up.)                                            *)
OrdersAreSound == OrderOfOneShop /\ CartOfOneShop /\ WithinStock

(* Payments by Paystack, which tells of each several times: an order and a *)
(* deposit are credited as their rows say, and the assistant is unlocked   *)
(* by a deposit of the shop's that was credited, or by a payment to the    *)
(* business that was completed under a reference the shop has had.         *)
CreditsMatch == OrderCreditedOnce /\ DepositMatchesCredits /\ AssistantWasPaid

(* Rows and files that are counted or looked for before one more is made   *)
(* are no more than there should be: products and uploaded images no more  *)
(* than the merchant, who sets these limits, ever allowed; one cart, one   *)
(* payment link and one row of delivery settings.                          *)
LimitsHold ==
    ProductsWithinLimit /\ ImagesWithinLimit /\ OneCartEach /\ OneGateway /\ OneDeliveryFee

(* What a merchant has given to the server is still there: pictures that   *)
(* no request has let go of, and what was said to the assistant.           *)
NothingIsLost == PictureIsStored /\ StoreMatchesRows /\ ConversationKept
=============================================================================
