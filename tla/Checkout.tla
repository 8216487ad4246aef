------------------------------- MODULE Checkout -------------------------------
(***************************************************************************)
(* From a reference to an address to pay to: payment intents as merchants, *)
(* their servers and payment links create them, the links themselves       *)
(* (PaymentLinkController), and the child wallets that PaymentSetupService *)
(* and WalletService give out.  All rows are of one business.              *)
(*                                                                         *)
(* terminateOrReuseWallet is never called, so that no wallet is ever       *)
(* marked reusable and the branches that reuse one never run.  What        *)
(* happens after a payment is found is modelled in PaymentIndexer.tla, an  *)
(* invoice in FiberPayment.tla.                                            *)
(***************************************************************************)
EXTENDS Requests

CONSTANTS
    Intents,        \* rows of payment_intent_tb, existing or not
    ChildWallets,   \* rows of wallets, existing or not
    Links,          \* rows of payment_links
    References,     \* business_reference_id of an intent
    EvmNetworks,    \* networks whose child wallets are contracts
    KeyNetworks,    \* CKB, Solana and Tron: child wallets are key pairs
    FiberNetworks,  \* networks paid to with an invoice
    Limits,         \* usage limits of links
    None,           \* a null column
    Invoice         \* the address of an invoice

Networks == EvmNetworks \union KeyNetworks \union FiberNetworks

ASSUME NetworksAssumption ==
    /\ EvmNetworks \intersect KeyNetworks = {}
    /\ FiberNetworks \intersect (EvmNetworks \union KeyNetworks) = {}
ASSUME ChildNamesAssumption ==
    /\ None \notin ChildWallets \union Networks \union Links \union Limits \union {Invoice}
    /\ Invoice \notin ChildWallets
ASSUME LimitsAssumption == Limits \subseteq Nat

VARIABLES
    intent,     \* the rows of payment_intent_tb
    child,      \* the network of each row of wallets
    link,       \* the rows of payment_links
    shown,      \* the address each intent's customer was shown last
    cut,        \* history: intents whose setup was saved but not answered
    uses,       \* history: the intents created from each link
    completedOn, \* history: child wallets that a completed intent has referred to
    disturbed   \* history: intents and links whose handlers were in each other's way

checkoutVars == <<intent, child, link, shown, cut, uses, completedOn>>
vars == <<requestVars, checkoutVars, disturbed>>

(* from is the link an intent was created from, if any. *)
Intent == [ref : References, status : {"created", "completed"},
           net : Networks \union {None}, wallet : ChildWallets \union {None},
           from : Links \union {None}]

(* A link whose usage limit is null can be used any number of times. *)
Link == [status : {"active", "inactive"}, single : BOOLEAN, used : Nat,
         limit : Limits \union {None}, expired : BOOLEAN]

ASSUME NullRowAssumption == None \notin Intent /\ None \notin Link

Exists(i) == intent[i] # None

NewIntent(ref, from) ==
    [ref |-> ref, status |-> "created", net |-> None, wallet |-> None, from |-> from]

(* POST payment-links, long before the requests of the model. *)
NewLink(single, limit) ==
    [status |-> "active", single |-> single, used |-> 0, limit |-> limit, expired |-> FALSE]

(* No reference was given to two payments other than by links. *)
NoTwins ==
    \A i, j \in {k \in Intents : Exists(k) /\ intent[k].from = None} :
        intent[i].ref = intent[j].ref => i = j

Init ==
    /\ RequestsInit
    /\ intent \in [Intents -> {None} \union {NewIntent(ref, None) : ref \in References}]
    /\ NoTwins
    /\ child = [w \in ChildWallets |-> None]
    /\ link \in [Links -> {NewLink(single, limit) :
                           single \in BOOLEAN, limit \in Limits \union {None}}]
    /\ shown = [i \in Intents |-> None]
    /\ cut = {}
    /\ uses = [l \in Links |-> {}]
    /\ completedOn = {}
    /\ disturbed = {}

-----------------------------------------------------------------------------
(* Conditions and rows.  A definition named ..._Bug is never used by the   *)
(* specification: it is what the next definition would be with a mistake,  *)
(* to see that the properties notice it.                                   *)

(* A link can be used as often as its limit says, and once more. *)
Usable_Bug(l) ==
    l.status = "active" /\ ~l.expired /\ (l.limit = None \/ l.used <= l.limit)

(* PaymentLink.isActive *)
Usable(l) == l.status = "active" /\ ~l.expired /\ (l.limit = None \/ l.used < l.limit)

(* The use is taken back. *)
Used_Bug(l) == [l EXCEPT !.used = @ - 1]

(* The link after a checkout. *)
Used(l) == [l EXCEPT !.used = @ + 1, !.status = IF l.single THEN "inactive" ELSE @]

Taken(ref) == \E i \in Intents : Exists(i) /\ intent[i].ref = ref

(* Any wallet that an intent refers to will do. *)
PaidBefore_Bug(n) ==
    {w \in ChildWallets : child[w] = n /\ \E i \in Intents : Exists(i) /\ intent[i].wallet = w}

(* The wallets of a network on which an intent has been completed. *)
PaidBefore(n) ==
    {w \in ChildWallets : child[w] = n /\
        \E i \in Intents : Exists(i) /\ intent[i].wallet = w /\ intent[i].status = "completed"}

(* The column of an earlier child wallet is left as it is. *)
SetUp_Bug(row, n, address) ==
    [row EXCEPT !.net = n, !.wallet = IF address = Invoice THEN @ ELSE address]

(* The intent once it can be paid on network n at the address. *)
SetUp(row, n, address) ==
    [row EXCEPT !.net = n, !.wallet = IF address = Invoice THEN None ELSE address]

-----------------------------------------------------------------------------
(* Creating an intent. *)

InsertIntent(ref, from, i) ==
    /\ ~Exists(i)
    /\ intent' = [intent EXCEPT ![i] = NewIntent(ref, from)]

(* The merchant's POST payment-intent: the reference is looked up, and the *)
(* request refused if it is known.                                         *)
CreateIntent(r, ref) ==
    /\ Begin(r, IF Taken(ref) THEN Done ELSE [op |-> "create", at |-> "insert", ref |-> ref])
    /\ UNCHANGED checkoutVars

(* The hosted checkout that a merchant's server asks for does the same.    *)
CreateHostedCheckout(r, ref) == CreateIntent(r, ref)

InsertCreated(r) ==
    /\ At(r, "create", "insert")
    /\ \E i \in Intents : InsertIntent(job[r].ref, None, i)
    /\ Finish(r)
    /\ UNCHANGED <<child, link, shown, cut, uses, completedOn>>

(* POST pay/:slug/checkout: the link is read and must be usable. *)
CheckoutLink(r, l, ref) ==
    /\ link[l] # None
    /\ Begin(r, IF Usable(link[l])
                THEN [op |-> "checkout", at |-> "insert", link |-> l, copy |-> link[l], ref |-> ref]
                ELSE Done)
    /\ UNCHANGED checkoutVars

(* The reference is the caller's, and is not looked up. *)
InsertFromLink(r) ==
    /\ At(r, "checkout", "insert")
    /\ \E i \in Intents :
        /\ InsertIntent(job[r].ref, job[r].link, i)
        /\ uses' = [uses EXCEPT ![job[r].link] = @ \union {i}]
    /\ Continue(r, [job[r] EXCEPT !.at = "count"])
    /\ UNCHANGED <<child, link, shown, cut, completedOn>>

SaveLink(l, copy, new) ==
    link' = IF link[l] = None THEN link ELSE [link EXCEPT ![l] = Saved(@, copy, new)]

CountUse(r) ==
    /\ At(r, "checkout", "count")
    /\ SaveLink(job[r].link, job[r].copy, Used(job[r].copy))
    /\ Finish(r)
    /\ UNCHANGED <<intent, child, shown, cut, uses, completedOn>>

-----------------------------------------------------------------------------
(* The merchant's links. *)

(* The fields a PATCH may carry, one at a time: null takes no limit away. *)
Patches == [status : {"active", "inactive"}] \union [limit : Limits]
           \union [expired : {FALSE}] \union [single : BOOLEAN]

Patched(l, patch) == [f \in DOMAIN l |-> IF f \in DOMAIN patch THEN patch[f] ELSE l[f]]

UpdateLink(r, l, patch) ==
    /\ link[l] # None
    /\ Begin(r, [op |-> "update", at |-> "save", link |-> l, copy |-> link[l], patch |-> patch])
    /\ UNCHANGED checkoutVars

SaveUpdate(r) ==
    /\ At(r, "update", "save")
    /\ SaveLink(job[r].link, job[r].copy, Patched(job[r].copy, job[r].patch))
    /\ Finish(r)
    /\ UNCHANGED <<intent, child, shown, cut, uses, completedOn>>

DestroyLink(r, l) ==
    /\ link[l] # None
    /\ Begin(r, Done)
    /\ link' = [link EXCEPT ![l] = None]
    /\ UNCHANGED <<intent, child, shown, cut, uses, completedOn>>

LinkExpires(l) ==
    /\ link[l] # None /\ ~link[l].expired
    /\ link' = [link EXCEPT ![l].expired = TRUE]
    /\ UNCHANGED <<requestVars, intent, child, shown, cut, uses, completedOn>>

-----------------------------------------------------------------------------
(* An address to pay to. *)

Setup(r, i, n, by) ==
    Begin(r, [op |-> "setup", at |-> "wallet", by |-> by, intent |-> i, net |-> n,
              copy |-> intent[i], address |-> None])

(* The payment session of a link and the merchant's own request find the   *)
(* intent by its reference: the first of those that have it.               *)
SetupFromLink(r, l, ref, n) ==
    /\ link[l] # None
    /\ \E i \in Intents : Exists(i) /\ intent[i].ref = ref /\ Setup(r, i, n, "link")
    /\ UNCHANGED checkoutVars

SetupByMerchant(r, ref, n) ==
    /\ \E i \in Intents : Exists(i) /\ intent[i].ref = ref /\ Setup(r, i, n, "merchant")
    /\ UNCHANGED checkoutVars

(* The checkout of a shop's cart, of a customer or a guest, asks for it in *)
(* the name of the shop's owner.                                           *)
SetupFromCart(r, ref, n) == SetupByMerchant(r, ref, n)

SetupFromGuestCart(r, ref, n) == SetupByMerchant(r, ref, n)

GotAddress(r, a) == Continue(r, [job[r] EXCEPT !.at = "save", !.address = a])

NewWallet(r, n) ==
    \E w \in ChildWallets :
        /\ child[w] = None
        /\ child' = [child EXCEPT ![w] = n]
        /\ GotAddress(r, w)

(* On an EVM chain a wallet that has taken a completed payment is given    *)
(* out again; the rows it locks do not include those other calls insert.   *)
CreateEvmWallet(r) ==
    /\ At(r, "setup", "wallet") /\ job[r].net \in EvmNetworks
    /\ IF PaidBefore(job[r].net) = {}
       THEN NewWallet(r, job[r].net)
       ELSE /\ \E w \in PaidBefore(job[r].net) : GotAddress(r, w)
            /\ UNCHANGED child
    /\ UNCHANGED <<intent, link, shown, cut, uses, completedOn>>

CreateKeyWallet(r) ==
    /\ At(r, "setup", "wallet") /\ job[r].net \in KeyNetworks
    /\ NewWallet(r, job[r].net)
    /\ UNCHANGED <<intent, link, shown, cut, uses, completedOn>>

CreateInvoice(r) ==
    /\ At(r, "setup", "wallet") /\ job[r].net \in FiberNetworks
    /\ GotAddress(r, Invoice)
    /\ UNCHANGED checkoutVars

RememberCompleted ==
    completedOn' = completedOn \union {w \in ChildWallets : \E i \in Intents :
        intent'[i] # None /\ intent'[i].wallet = w /\ intent'[i].status = "completed"}

(* Nothing looks at the status: a completed intent can be moved to another *)
(* address.                                                                *)
SaveSetup(r) ==
    /\ At(r, "setup", "save")
    /\ LET j == job[r] IN
       intent' = [intent EXCEPT ![j.intent] = Saved(@, j.copy, SetUp(j.copy, j.net, j.address))]
    /\ Continue(r, [job[r] EXCEPT !.at = "answer"])
    /\ RememberCompleted
    /\ UNCHANGED <<child, link, shown, cut, uses>>

(* The receive transaction is created and the address shown. *)
AnswerSetup(r) ==
    /\ At(r, "setup", "answer")
    /\ shown' = [shown EXCEPT ![job[r].intent] = job[r].address]
    /\ cut' = cut \ {job[r].intent}
    /\ Finish(r)
    /\ UNCHANGED <<intent, child, link, uses, completedOn>>

(* For a link the owner of the transaction is parseInt of the business's   *)
(* unique id, most often nobody, and the insert is refused.                *)
RefuseSetup(r) ==
    /\ At(r, "setup", "answer") /\ job[r].by = "link"
    /\ cut' = cut \union {job[r].intent}
    /\ Finish(r)
    /\ UNCHANGED <<intent, child, link, shown, uses, completedOn>>

(* A customer pays to the child wallet w, and the payment is attributed to *)
(* one of the open intents that refer to it.                               *)
CompletePayment(i) ==
    /\ Exists(i) /\ intent[i].status = "created" /\ intent[i].wallet # None
    /\ \E j \in Intents : shown[j] = intent[i].wallet
    /\ intent' = [intent EXCEPT ![i].status = "completed"]
    /\ RememberCompleted
    /\ UNCHANGED <<requestVars, child, link, shown, cut, uses>>

BreakRequest(r) ==
    /\ Break(r)
    /\ cut' = IF At(r, "setup", "answer") THEN cut \union {job[r].intent} ELSE cut
    /\ UNCHANGED <<intent, child, link, shown, uses, completedOn>>

Step ==
    \/ \E r \in Requests :
        \/ \E ref \in References : CreateHostedCheckout(r, ref)
        \/ \E l \in Links, ref \in References : CheckoutLink(r, l, ref)
        \/ \E l \in Links, patch \in Patches : UpdateLink(r, l, patch)
        \/ \E l \in Links : DestroyLink(r, l)
        \/ \E l \in Links, ref \in References, n \in Networks : SetupFromLink(r, l, ref, n)
        \/ \E ref \in References, n \in Networks :
            SetupFromCart(r, ref, n) \/ SetupFromGuestCart(r, ref, n)
        \/ InsertCreated(r) \/ InsertFromLink(r) \/ CountUse(r) \/ SaveUpdate(r)
        \/ CreateEvmWallet(r) \/ CreateKeyWallet(r) \/ CreateInvoice(r)
        \/ SaveSetup(r) \/ AnswerSetup(r) \/ RefuseSetup(r)
        \/ BreakRequest(r)
    \/ \E l \in Links : LinkExpires(l)
    \/ \E i \in Intents : CompletePayment(i)

(* Handlers at work on one intent, or one link. *)
SetsUp(r, i) == job[r].op = "setup" /\ job[r].intent = i

WorksOn(r, l) == job[r].op \in {"checkout", "update"} /\ job[r].link = l

Overlapped ==
    {i \in Intents : \E r, s \in Requests : r # s /\ SetsUp(r, i) /\ SetsUp(s, i)}
    \union {l \in Links : \E r, s \in Requests : r # s /\ WorksOn(r, l) /\ WorksOn(s, l)}

(* The link of a checkout that ends between its intent and its count. *)
Uncounted ==
    {job[r].link : r \in {x \in Requests :
        At(x, "checkout", "count") /\ job'[x] = Done /\ faults' # faults}}

Next == Step /\ disturbed' = disturbed \union Overlapped' \union Uncounted

Spec == Init /\ [][Next]_vars

-----------------------------------------------------------------------------
(* Properties. *)

RowsOK ==
    /\ intent \in [Intents -> Intent \union {None}]
    /\ child \in [ChildWallets -> Networks \union {None}]
    /\ link \in [Links -> Link \union {None}]
    /\ shown \in [Intents -> ChildWallets \union {None, Invoice}]
    /\ cut \subseteq Intents
    /\ uses \in [Links -> SUBSET Intents]
    /\ completedOn \subseteq ChildWallets

(* The rows keep their types, and a use count never falls below zero. *)
TypeOK == RowsOK /\ disturbed \subseteq Intents \union Links

(* The child wallet of an intent is on the network of its currency, on     *)
(* which the poller looks for the payment, and an intent with a currency   *)
(* and no child wallet is one that is paid with an invoice.                *)
NetworkOfWallet(i) ==
    /\ intent[i].wallet # None => child[intent[i].wallet] = intent[i].net
    /\ intent[i].wallet = None /\ intent[i].net # None => intent[i].net \in FiberNetworks

(* The child wallet that an intent refers to, and the poller therefore     *)
(* looks at, is the one its customer was shown last; it has none once the  *)
(* customer was shown an invoice.                                          *)
ShownIsWatched(i) ==
    intent[i].wallet = IF shown[i] \in ChildWallets THEN shown[i] ELSE None

(* Whatever other requests overlap, and whatever fails: as long as no two  *)
(* setups of one intent were at work at once, a payment to a child wallet  *)
(* is looked for where the customer was told to pay, on the network of the *)
(* currency the intent has by then - but for the time between a setup's    *)
(* save and its answer, and after one that never answered.  (Of two setups *)
(* of one intent each saves only the columns that differ from its own      *)
(* copy: the row can end with the wallet of one and the currency of the    *)
(* other, and the customer with either address.  Nothing polls an intent   *)
(* without a wallet, so none of this says that an invoice is found paid:   *)
(* see FiberPayment.tla.)                                                  *)
PaidWhereWatched ==
    \A i \in Intents \ disturbed : Exists(i) =>
        /\ NetworkOfWallet(i)
        /\ i \in cut \/ (\E r \in Requests : SetsUp(r, i) /\ job[r].at = "answer")
           \/ ShownIsWatched(i)

(* Two intents refer to one child wallet, or two customers were shown one, *)
(* only where a payment was completed on it before, however their setups   *)
(* overlap.  (The comments of createChildWallet promise more, a new wallet *)
(* for every concurrent payment: but once a wallet has taken a payment the *)
(* code gives it to any number of open payments.)                          *)
SharedOnlyAfterPayment ==
    \A i, j \in Intents, w \in ChildWallets : i # j =>
        /\ Exists(i) /\ Exists(j) /\ intent[i].wallet = w /\ intent[j].wallet = w
            => w \in completedOn
        /\ shown[i] = w /\ shown[j] = w => w \in completedOn

(* No checkout starts a payment from a link that it read as expired.  As   *)
(* long as no two handlers were at work on the link at once and none broke *)
(* between its intent and its count, the link is active at that moment if  *)
(* it still exists, and has started no more payments than its limit says,  *)
(* if it has one - whatever the merchant has changed it to in between.     *)
CheckoutWithinLimit ==
    [][\A l \in Links : uses'[l] # uses[l] =>
        /\ \E r \in Requests : /\ WorksOn(r, l) /\ job'[r] # job[r]
                               /\ ~job[r].copy.expired
        /\ l \in disturbed' \/ link[l] = None \/
            /\ link[l].status = "active"
            /\ link[l].limit = None \/ Cardinality(uses'[l]) <= link[l].limit]_vars

(* A link that is inactive becomes active only by the merchant's own       *)
(* request: a checkout that read it before does not bring it back.         *)
DeactivationHolds ==
    [][\A l \in Links :
        link[l] # None /\ link'[l] # None /\ link[l].status = "inactive" =>
            link'[l].status = "inactive" \/ \E r \in Requests :
                At(r, "update", "save") /\ job[r].patch \in [status : {"active"}]
                /\ job'[r] = Done]_vars
=============================================================================
