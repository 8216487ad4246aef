------------------------------ MODULE ShopBuilder ------------------------------
(***************************************************************************)
(* The shops of a business, the assistant that customizes them and the     *)
(* payment that gives access to it: ShopBuilderController,                 *)
(* AiShopBuilderService, ShopDeliverySettingController,                     *)
(* ShopCustomizationPaymentController and, for the payment,                *)
(* PaystackDepositWebhookController, StablecoinConversionService and       *)
(* unlockCustomShopAccess of PaymentIndexerService.  The assistant's model *)
(* and the wallet that a deposit is credited to are only called: a call    *)
(* succeeds or fails.                                                      *)
(***************************************************************************)
EXTENDS Requests, Sequences

CONSTANTS
    Sites,          \* rows of shops, existing or not
    Subdomains,     \* subdomains asked for
    Deposits,       \* rows of fiat_deposits, existing or not, and their references
    References,     \* references that merchants choose themselves
    BufferSize,     \* BUFFER_SIZE, in exchanges of two messages
    Null            \* a null column

ASSUME BufferSizeAssumption == BufferSize \in Nat \ {0}
ASSUME NullAssumption == Null \notin Sites \union References \union Deposits
ASSUME SitesAssumption == IsFiniteSet(Sites)

VARIABLES
    shop,       \* the rows of shops
    gateways,   \* payment links made for the shops' checkout
    talk,       \* the conversation of each shop, null before the first
    said,       \* history: the exchanges since the conversation was reset
    deposit,    \* shop and status of each deposit
    credited,   \* how often each deposit was credited to the wallet
    bought,     \* references of the business's completed payments
    tagged,     \* history: references that each shop has had
    delivery    \* the rows of shop_delivery_settings of each shop

builderVars == <<shop, gateways, talk, said, deposit, credited, bought, tagged, delivery>>

DepositStatuses == {"pending", "fiat_received", "converting", "credited", "failed"}

Payable == References \union Deposits

(* theme is who wrote themeConfig last: the preset, the merchant or the    *)
(* assistant.  reference is customizationPaymentReferenceId.               *)
ShopRow == [subdomain : Subdomains, custom : BOOLEAN, paid : BOOLEAN,
            reference : Payable \union {Null},
            theme : {"none", "preset", "merchant", "assistant"}]

Talk == [messages : Seq(Requests), summary : SUBSET Requests]

Deposit == [shop : Sites, status : DepositStatuses]

ASSUME MissingShopAssumption == Null \notin ShopRow /\ Null \notin Talk /\ Null \notin Deposit

NoTalk == [messages |-> <<>>, summary |-> {}]

(* The settings a request made.  fee is who set it, usd the fee that       *)
(* deliveryFeeUsd was converted from, null where there is no rate.         *)
Delivery == [made : Requests, fee : Requests \union {"free"},
             usd : Requests \union {"free", Null}]

(* A shop may exist already, with or without a link for its checkout. *)
BuilderInit ==
    /\ shop \in [Sites -> {Null} \union [subdomain : Subdomains, custom : BOOLEAN,
                     paid : {FALSE}, reference : {Null}, theme : {"preset"}]]
    /\ Cardinality({s \in Sites : shop[s] # Null}) = 1
    /\ gateways \in {0, 1}
    /\ talk = [s \in Sites |-> Null]
    /\ said = [s \in Sites |-> {}]
    /\ deposit = [d \in Deposits |-> Null]
    /\ credited = [d \in Deposits |-> 0]
    /\ bought = {}
    /\ tagged = [s \in Sites |-> {}]
    /\ delivery = [s \in Sites |-> {}]

Members(q) == {q[i] : i \in 1..Len(q)}

-----------------------------------------------------------------------------
(* Conditions the steps test.  A definition named ..._Bug is never used by *)
(* the specification: it is what the next definition would be with a       *)
(* mistake, to see that the properties notice it.                          *)

(* Looked up before the insert, and kept by a unique index. *)
Claimed(sub) == \E s \in Sites : shop[s] # Null /\ shop[s].subdomain = sub

(* The gateway is made anew each time. *)
NeedsGateway_Bug == TRUE

NeedsGateway == gateways = 0

(* Whatever has happened to the deposit since. *)
Fresh_Bug(d) == TRUE

(* handleFiatReceived goes on only with a pending deposit. *)
Fresh(d) == d.status = "pending"

(* Any shop may use the assistant. *)
Allowed_Bug(s) == TRUE

(* ensureAiCustomizationAccess *)
Allowed(s) == shop[s].custom => shop[s].paid

(* The buffer is never cut. *)
Kept_Bug(q) == q

(* The last BUFFER_SIZE messages. *)
Kept(q) == IF Len(q) > BufferSize THEN SubSeq(q, Len(q) - BufferSize + 1, Len(q)) ELSE q

(* What is cut is summarized, and added to the earlier summary. *)
Summary(old, q) == old \union (Members(q) \ Members(Kept(q)))

-----------------------------------------------------------------------------
(* Shops and the payment link behind their checkout. *)

(* The merchant may bring along a reference, of a payment or of nothing.   *)
CreateShop(r, sub, custom, reference) ==
    /\ Begin(r, IF Claimed(sub) THEN Done
                ELSE [op |-> "create", at |-> "insert", subdomain |-> sub, custom |-> custom,
                      reference |-> reference])
    /\ UNCHANGED builderVars

InsertShop(r) ==
    /\ At(r, "create", "insert")
    /\ IF Claimed(job[r].subdomain)
       THEN Finish(r) /\ UNCHANGED <<shop, tagged>>
       ELSE \E s \in Sites :
            /\ shop[s] = Null
            /\ shop' = [shop EXCEPT ![s] = [subdomain |-> job[r].subdomain,
                    custom |-> job[r].custom, paid |-> FALSE,
                    reference |-> job[r].reference, theme |-> "none"]]
            /\ tagged' = [tagged EXCEPT ![s] = {job[r].reference} \ {Null}]
            /\ Continue(r, [op |-> "shop", at |-> "save", shop |-> s, copy |-> shop'[s],
                            theme |-> "preset"])
    /\ UNCHANGED <<gateways, talk, said, deposit, credited, bought, delivery>>

(* PUT shop *)
UpdateShop(r, s) ==
    /\ shop[s] # Null
    /\ Begin(r, [op |-> "shop", at |-> "save", shop |-> s, copy |-> shop[s],
                 theme |-> "merchant"])
    /\ UNCHANGED builderVars

SaveShop(s, copy, new) == shop' = [shop EXCEPT ![s] = Saved(@, copy, new)]

SaveTheme(r) ==
    /\ At(r, "shop", "save")
    /\ SaveShop(job[r].shop, job[r].copy, [job[r].copy EXCEPT !.theme = job[r].theme])
    /\ Continue(r, [op |-> "gateway", at |-> "find"])
    /\ UNCHANGED <<gateways, talk, said, deposit, credited, bought, tagged, delivery>>

(* The merchant's and the public page of a shop make its gateway too. *)
ShowShop(r, s) ==
    /\ shop[s] # Null
    /\ Begin(r, [op |-> "gateway", at |-> "find"])
    /\ UNCHANGED builderVars

(* ensureShopPaymentGateway: any link of the business will do. *)
FindGateway(r) ==
    /\ At(r, "gateway", "find")
    /\ IF NeedsGateway THEN Continue(r, [job[r] EXCEPT !.at = "insert"]) ELSE Finish(r)
    /\ UNCHANGED builderVars

InsertGateway(r) ==
    /\ At(r, "gateway", "insert")
    /\ gateways' = gateways + 1
    /\ Finish(r)
    /\ UNCHANGED <<shop, talk, said, deposit, credited, bought, tagged, delivery>>

(* The list of shops looks for all their gateways at once: find are the    *)
(* shops still to look for, insert those that have found none.             *)
ListShops(r) ==
    /\ Begin(r, [op |-> "list", at |-> "gateways", insert |-> {},
                 find |-> {s \in Sites : shop[s] # Null}])
    /\ UNCHANGED builderVars

FindListed(r, s) ==
    /\ At(r, "list", "gateways") /\ s \in job[r].find
    /\ LET j == [job[r] EXCEPT !.find = @ \ {s},
                               !.insert = IF NeedsGateway THEN @ \union {s} ELSE @]
       IN IF j.find \union j.insert = {} THEN Finish(r) ELSE Continue(r, j)
    /\ UNCHANGED builderVars

InsertListed(r, s) ==
    /\ At(r, "list", "gateways") /\ s \in job[r].insert
    /\ gateways' = gateways + 1
    /\ LET j == [job[r] EXCEPT !.insert = @ \ {s}]
       IN IF j.find \union j.insert = {} THEN Finish(r) ELSE Continue(r, j)
    /\ UNCHANGED <<shop, talk, said, deposit, credited, bought, tagged, delivery>>

-----------------------------------------------------------------------------
(* The assistant. *)

(* The controller reads the shop and looks whether it may be served.       *)
AskedOf(r, s, streamed) ==
    /\ shop[s] # Null
    /\ Begin(r, IF Allowed(s) THEN [op |-> "chat", at |-> "ask", shop |-> s, streamed |-> streamed]
                ELSE Done)
    /\ UNCHANGED builderVars

Chat(r, s) == AskedOf(r, s, FALSE)

(* The reply is streamed to the page as it comes. *)
ChatStream(r, s) == AskedOf(r, s, TRUE)

(* The service reads the shop again and the conversation, which is made if *)
(* there is none, and asks the model.                                      *)
AskModel(r) ==
    /\ At(r, "chat", "ask")
    /\ LET s == job[r].shop IN
       /\ talk' = [talk EXCEPT ![s] = IF @ = Null THEN NoTalk ELSE @]
       /\ Continue(r, [op |-> "chat", at |-> "reply", shop |-> s, row |-> shop[s],
                       copy |-> talk'[s], streamed |-> job[r].streamed])
    /\ UNCHANGED <<shop, gateways, said, deposit, credited, bought, tagged, delivery>>

(* The reply has come, or as much of it as was streamed.  Where the buffer *)
(* overflows the model is asked for a summary; one that fails is logged,   *)
(* and the messages are cut all the same.                                  *)
KeepExchange(r, summarized) ==
    /\ At(r, "chat", "reply")
    /\ LET j == job[r]
           all == Append(j.copy.messages, r)
           new == [messages |-> Kept(all),
                   summary |-> IF summarized THEN Summary(j.copy.summary, all) ELSE j.copy.summary]
       IN /\ talk' = [talk EXCEPT ![j.shop] = Saved(@, j.copy, new)]
          /\ summarized \/ (Len(all) > BufferSize /\ faults < MaxFaults)
          /\ faults' = IF summarized THEN faults ELSE faults + 1
          /\ said' = [said EXCEPT ![j.shop] = @ \union {r}]
          /\ job' = [job EXCEPT ![r] = [op |-> "chat", at |-> "apply", shop |-> j.shop,
                                        row |-> j.row]]
    /\ UNCHANGED <<inSeries, shop, gateways, deposit, credited, bought, tagged, delivery>>

(* A streamed reply that cannot be kept is applied all the same. *)
LoseExchange(r) ==
    /\ At(r, "chat", "reply") /\ job[r].streamed
    /\ faults < MaxFaults
    /\ faults' = faults + 1
    /\ job' = [job EXCEPT ![r] = [op |-> "chat", at |-> "apply", shop |-> job[r].shop,
                                  row |-> job[r].row]]
    /\ UNCHANGED <<inSeries, builderVars>>

(* The theme in the reply, if there is one, is merged into the row as it   *)
(* was before the model was asked.                                         *)
ApplyAction(r, themed) ==
    /\ At(r, "chat", "apply")
    /\ IF themed THEN SaveShop(job[r].shop, job[r].row, [job[r].row EXCEPT !.theme = "assistant"])
                 ELSE UNCHANGED shop
    /\ Finish(r)
    /\ UNCHANGED <<gateways, talk, said, deposit, credited, bought, tagged, delivery>>

ResetMemory(r, s) ==
    /\ shop[s] # Null /\ Allowed(s) /\ talk[s] # Null
    /\ Begin(r, [op |-> "reset", at |-> "save", shop |-> s, copy |-> talk[s]])
    /\ UNCHANGED builderVars

SaveReset(r) ==
    /\ At(r, "reset", "save")
    /\ talk' = [talk EXCEPT ![job[r].shop] = Saved(@, job[r].copy, NoTalk)]
    /\ said' = [said EXCEPT ![job[r].shop] = {}]
    /\ Finish(r)
    /\ UNCHANGED <<shop, gateways, deposit, credited, bought, tagged, delivery>>

-----------------------------------------------------------------------------
(* Paying for the assistant. *)

(* The deposit is created before Paystack is asked for a charge. *)
InitiatePayment(r, s) ==
    /\ shop[s] # Null
    /\ IF shop[s].paid
       THEN Begin(r, Done) /\ UNCHANGED deposit
       ELSE \E d \in Deposits :
            /\ deposit[d] = Null
            /\ deposit' = [deposit EXCEPT ![d] = [shop |-> s, status |-> "pending"]]
            /\ Begin(r, [op |-> "refer", at |-> "save", shop |-> s, deposit |-> d])
    /\ UNCHANGED <<shop, gateways, talk, said, credited, bought, tagged, delivery>>

(* "for indexer compatibility": the reference is a new one, and so written *)
(* whatever the row held.                                                  *)
SaveReference(r) ==
    /\ At(r, "refer", "save")
    /\ shop' = [shop EXCEPT ![job[r].shop].reference = job[r].deposit]
    /\ tagged' = [tagged EXCEPT ![job[r].shop] = @ \union {job[r].deposit}]
    /\ Finish(r)
    /\ UNCHANGED <<gateways, talk, said, deposit, credited, bought, delivery>>

(* Another payment to the business is completed, whatever its amount, as   *)
(* PaymentIndexer.tla and FiberPayment.tla model it.  Its reference is one *)
(* that the merchant has chosen or was shown.                              *)
CompletePayment(r, x) ==
    /\ x \in References \union {d \in Deposits : deposit[d] # Null}
    /\ Begin(r, [op |-> "bought", at |-> "unlock", reference |-> x])
    /\ bought' = bought \union {x}
    /\ UNCHANGED <<shop, gateways, talk, said, deposit, credited, tagged, delivery>>

(* unlockCustomShopAccess: the first shop that has the reference. *)
UnlockBought(r) ==
    /\ At(r, "bought", "unlock")
    /\ LET named == {s \in Sites : shop[s] # Null /\ shop[s].reference = job[r].reference} IN
       IF named = {} THEN UNCHANGED shop
       ELSE \E s \in named : shop' = [shop EXCEPT ![s].paid = TRUE]
    /\ Finish(r)
    /\ UNCHANGED <<gateways, talk, said, deposit, credited, bought, tagged, delivery>>

(* charge.success, told once or several times. *)
FiatReceived(r, d) ==
    /\ deposit[d] # Null
    /\ Begin(r, IF Fresh(deposit[d])
                THEN [op |-> "convert", at |-> "received", deposit |-> d] ELSE Done)
    /\ UNCHANGED builderVars

SetDeposit(d, s) == deposit' = [deposit EXCEPT ![d].status = s]

SaveReceived(r) ==
    /\ At(r, "convert", "received")
    /\ SetDeposit(job[r].deposit, "fiat_received")
    /\ Continue(r, [job[r] EXCEPT !.at = "converting"])
    /\ UNCHANGED <<shop, gateways, talk, said, credited, bought, tagged, delivery>>

StartConversion(r) ==
    /\ At(r, "convert", "converting")
    /\ SetDeposit(job[r].deposit, "converting")
    /\ Continue(r, [job[r] EXCEPT !.at = "credit"])
    /\ UNCHANGED <<shop, gateways, talk, said, credited, bought, tagged, delivery>>

(* Wallet and deposit are saved in one transaction. *)
CreditDeposit(r) ==
    /\ At(r, "convert", "credit")
    /\ SetDeposit(job[r].deposit, "credited")
    /\ credited' = [credited EXCEPT ![job[r].deposit] = @ + 1]
    /\ Continue(r, [job[r] EXCEPT !.at = "unlock"])
    /\ UNCHANGED <<shop, gateways, talk, said, bought, tagged, delivery>>

(* The conversion or the credit throws; the money has been collected. *)
FailDeposit(r) ==
    /\ At(r, "convert", "credit")
    /\ SetDeposit(job[r].deposit, "failed")
    /\ Finish(r)
    /\ UNCHANGED <<shop, gateways, talk, said, credited, bought, tagged, delivery>>

UnlockShop(r) ==
    /\ At(r, "convert", "unlock")
    /\ shop' = [shop EXCEPT ![deposit[job[r].deposit].shop].paid = TRUE]
    /\ Finish(r)
    /\ UNCHANGED <<gateways, talk, said, deposit, credited, bought, tagged, delivery>>

-----------------------------------------------------------------------------
(* The delivery settings of a shop. *)

(* The fee that was stored is converted. *)
Converted_Bug(copy, fee) == copy.fee

Converted(copy, fee) == fee

(* The merchant's page makes the settings if there are none. *)
ShowDelivery(r, s) ==
    /\ shop[s] # Null
    /\ Begin(r, IF delivery[s] = {} THEN [op |-> "delivery", at |-> "default", shop |-> s] ELSE Done)
    /\ UNCHANGED builderVars

InsertDefault(r) ==
    /\ At(r, "delivery", "default")
    /\ delivery' = [delivery EXCEPT ![job[r].shop] =
                        @ \union {[made |-> r, fee |-> "free", usd |-> "free"]}]
    /\ Finish(r)
    /\ UNCHANGED <<shop, gateways, talk, said, deposit, credited, bought, tagged>>

(* A row is read; the fee of the request, or the row's if it brings none,  *)
(* is converted with a rate that is looked up.                             *)
UpdateDelivery(r, s, priced) ==
    /\ shop[s] # Null
    /\ \E copy \in IF delivery[s] = {} THEN {[made |-> r, fee |-> "free", usd |-> "free"]}
                    ELSE delivery[s] :
        Begin(r, [op |-> "delivery", at |-> "save", shop |-> s, copy |-> copy,
                  fee |-> IF priced THEN r ELSE copy.fee])
    /\ UNCHANGED builderVars

(* convertToUsd *)
InUsd(fee) == IF fee = "free" THEN {"free"} ELSE {fee, Null}

(* Settings that were found are saved, others are inserted. *)
SaveDelivery(r) ==
    /\ At(r, "delivery", "save")
    /\ LET copy == job[r].copy
           rows == delivery[job[r].shop]
           old == {d \in rows : d.made = copy.made}
       IN \E usd \in InUsd(Converted(copy, job[r].fee)) :
            LET new == [copy EXCEPT !.fee = job[r].fee, !.usd = usd]
            IN delivery' = [delivery EXCEPT ![job[r].shop] =
                    IF old = {} THEN rows \union {new}
                    ELSE (rows \ old) \union {Saved(d, copy, new) : d \in old}]
    /\ Finish(r)
    /\ UNCHANGED <<shop, gateways, talk, said, deposit, credited, bought, tagged>>

BuilderNext ==
    \E r \in Requests :
        \/ \E sub \in Subdomains, custom \in BOOLEAN, x \in References \union {Null} :
            CreateShop(r, sub, custom, x)
        \/ \E s \in Sites :
            \/ UpdateShop(r, s) \/ ShowShop(r, s)
            \/ ShowDelivery(r, s) \/ \E priced \in BOOLEAN : UpdateDelivery(r, s, priced)
            \/ Chat(r, s) \/ ChatStream(r, s) \/ ResetMemory(r, s) \/ InitiatePayment(r, s)
        \/ \E d \in Deposits : FiatReceived(r, d)
        \/ ListShops(r) \/ \E s \in Sites : FindListed(r, s) \/ InsertListed(r, s)
        \/ InsertShop(r) \/ SaveTheme(r) \/ FindGateway(r) \/ InsertGateway(r)
        \/ AskModel(r) \/ LoseExchange(r) \/ SaveReset(r)
        \/ InsertDefault(r) \/ SaveDelivery(r)
        \/ \E summarized \in BOOLEAN : KeepExchange(r, summarized)
        \/ \E themed \in BOOLEAN : ApplyAction(r, themed)
        \/ SaveReceived(r) \/ StartConversion(r) \/ CreditDeposit(r) \/ FailDeposit(r)
        \/ UnlockShop(r) \/ SaveReference(r) \/ UnlockBought(r)
        \/ \E x \in Payable : CompletePayment(r, x)

-----------------------------------------------------------------------------
(* Properties. *)

BuilderTypes ==
    /\ shop \in [Sites -> ShopRow \union {Null}]
    /\ gateways \in Nat
    /\ talk \in [Sites -> [messages : Seq(Requests), summary : SUBSET Requests] \union {Null}]
    /\ said \in [Sites -> SUBSET Requests]
    /\ deposit \in [Deposits -> Deposit \union {Null}]
    /\ credited \in [Deposits -> Nat]
    /\ bought \subseteq Payable
    /\ tagged \in [Sites -> SUBSET Payable]
    /\ delivery \in [Sites -> SUBSET Delivery]

(* One at a time: a deposit is credited once if its row says so and never  *)
(* otherwise, however often Paystack tells of it and wherever a handler    *)
(* ends.  (The status is compared before it is saved: two handlers that    *)
(* overlap both credit, or one marks failed what the other has credited.)  *)
DepositMatchesCredits ==
    inSeries => \A d \in Deposits : deposit[d] # Null =>
        credited[d] = IF deposit[d].status = "credited" THEN 1 ELSE 0

(* The assistant is unlocked only for a shop one of whose deposits was     *)
(* credited, or after some payment to the business was completed under a   *)
(* reference that the shop has had; a shop that needs it unlocked talks to *)
(* it only then.                                                           *)
AssistantWasPaid ==
    \A s \in Sites : shop[s] # Null =>
        /\ shop[s].paid =>
            \/ \E d \in Deposits : deposit[d] # Null /\ deposit[d].shop = s /\ credited[d] > 0
            \/ tagged[s] \intersect bought # {}
        /\ shop[s].custom /\ said[s] # {} => shop[s].paid

(* However chats overlap, the conversation fits the buffer; one at a time, *)
(* every exchange since the last reset is in it or in the summary, unless  *)
(* the model failed to make one.                                           *)
ConversationKept ==
    \A s \in Sites : talk[s] # Null =>
        /\ Len(talk[s].messages) <= BufferSize
        /\ inSeries /\ faults = 0 => said[s] = Members(talk[s].messages) \union talk[s].summary

(* One at a time: a business is given no more links for the checkout than  *)
(* it has shops (one, unless the list of several shops is the first page   *)
(* that looks for it), by whichever page is opened first and however often.*)
OneGateway ==
    inSeries => gateways <= Cardinality({s \in Sites : shop[s] # Null})

(* One at a time: a shop has one row of delivery settings, and the fee it  *)
(* shows in dollars is that of its fee.  (The row is looked for before it  *)
(* is made, and an update without a fee converts the one it has read: when *)
(* two overlap a shop is left with two rows, of which a customer is shown  *)
(* either, or with another's price in dollars.)                            *)
OneDeliveryFee ==
    inSeries => \A s \in Sites :
        /\ Cardinality(delivery[s]) <= 1
        /\ \A d \in delivery[s] : d.usd \in {d.fee, Null}
=============================================================================
