--------------------------------- MODULE Cart ---------------------------------
(***************************************************************************)
(* Carts of customers and guests, the products they hold and the orders    *)
(* made from them: CartController, ShopProductController and               *)
(* ShopOrderController.  An order is a payment intent whose metadata holds *)
(* its lines; how it is paid is modelled in Checkout.tla.                  *)
(*                                                                         *)
(* Rows are read and written one statement at a time, in no transaction.   *)
(* No order takes anything from the stock, and none empties the cart.  The *)
(* images of products are modelled in ShopFiles.tla.                       *)
(***************************************************************************)
EXTENDS Requests

CONSTANTS
    Products,       \* rows of shop_products, existing or not
    Shops,          \* rows of shops
    ShopOf,         \* the shop of each product
    Users, Guests,  \* customers with an account, and guest tokens
    Carts,          \* rows of carts, existing or not
    Items,          \* rows of cart_items, existing or not
    Orders,         \* orders, made or not
    Quantities,     \* quantities customers ask for
    GuestLines,     \* what guests' pages send as the lines of an order
    Stocks,         \* what merchants have in stock
    Stages,         \* statuses merchants give to orders
    MaxProducts,    \* the most features.max_products of a shop has ever been
    None            \* a null column

ASSUME ShopOfAssumption == ShopOf \in [Products -> Shops]
ASSUME ProductsAssumption == IsFiniteSet(Products)
ASSUME NoneAssumption == None \notin Shops
ASSUME QuantitiesAssumption == Quantities \subseteq Nat \ {0} /\ Stocks \subseteq Nat
ASSUME StagesAssumption ==
    Stages \subseteq {"pending", "processing", "shipped", "delivered", "cancelled"}
ASSUME MaxProductsAssumption == MaxProducts \in Nat

VARIABLES
    product,    \* stock and activity of each product
    cart,       \* owner and shop of each cart
    item,       \* cart, product and quantity of each item
    order,      \* lines, payment status and metadata of each order
    credits,    \* how often the payment of each order was credited
    peak        \* history: the most each product ever had in stock

cartVars == <<product, cart, item, order, credits, peak>>

Owners == Users \union Guests
OrderStatuses == {"pending", "processing", "shipped", "delivered", "cancelled"}
Product == [stock : Stocks, active : BOOLEAN]
CartRow == [owner : Owners, shop : Shops \union {None}]
ItemRow == [cart : Carts, product : Products, quantity : Nat]
Line == [product : Products, quantity : Nat]
Metadata == [stage : OrderStatuses, provider : {"paystack", None}]
Order == [lines : SUBSET Line, shop : Shops, guest : BOOLEAN,
          status : {"created", "completed"}, metadata : Metadata]

ASSUME GuestLinesAssumption == GuestLines \subseteq SUBSET Line

ASSUME MissingRowsAssumption ==
    None \notin Product /\ None \notin CartRow /\ None \notin ItemRow /\ None \notin Order

CartsOf(o) == {k \in Carts : cart[k] # None /\ cart[k].owner = o}
ItemsOf(k) == {x \in Items : item[x] # None /\ item[x].cart = k}
ProductsOf(s) == {p \in Products : product[p] # None /\ ShopOf[p] = s}

(* The order starts in a status that orders do not have. *)
NewOrder_Bug(lines, s, guest) ==
    [lines |-> lines, shop |-> s, guest |-> guest, status |-> "pending",
     metadata |-> [stage |-> "pending", provider |-> None]]

(* businessId is the owner of the shop the order is paid to.  A guest's    *)
(* order has no customerId.                                                *)
NewOrder(lines, s, guest) ==
    [lines |-> lines, shop |-> s, guest |-> guest, status |-> "created",
     metadata |-> [stage |-> "pending", provider |-> None]]

GuestOrders(s) == {NewOrder(lines, s, TRUE) : lines \in GuestLines}

(* Every shop is within its limit so far, no cart exists, and guests may    *)
(* have ordered.                                                           *)
CartInit ==
    /\ product \in [Products -> {None} \union [stock : Stocks, active : {TRUE}]]
    /\ \A s \in Shops : Cardinality(ProductsOf(s)) <= MaxProducts
    /\ cart = [k \in Carts |-> None]
    /\ item = [x \in Items |-> None]
    /\ order \in [Orders -> {None} \union UNION {GuestOrders(s) : s \in Shops}]
    /\ credits = [o \in Orders |-> 0]
    /\ peak = [p \in Products |-> IF product[p] = None THEN 0 ELSE product[p].stock]

-----------------------------------------------------------------------------
(* Conditions the steps test.  A definition named ..._Bug is never used by *)
(* the specification: it is what the next definition would be with a       *)
(* mistake, to see that the properties notice it.                          *)

(* The stock is not looked at. *)
Within_Bug(q, stock) == q

(* Math.min(quantity, product.stock): a quantity of 0 where nothing is in  *)
(* stock, whether or not the product keeps track of it.                    *)
Within(q, stock) == IF q < stock THEN q ELSE stock

(* Only the shop the cart was last labelled with is compared. *)
Foreign_Bug(k, s) == cart[k].shop \notin {None, s} /\ ItemsOf(k) = {}

(* The cart holds an item of another shop. *)
Foreign(k, s) == \E x \in ItemsOf(k) : ShopOf[item[x].product] # s

(* Carts are created without looking for one. *)
Found_Bug(o) == {}

(* The carts that where('userId') or where('guestToken') finds. *)
Found(o) == CartsOf(o)

(* The count is taken as it will be after the insert. *)
Room_Bug(s, limit) == Cardinality(ProductsOf(s)) <= limit

Room(s, limit) == Cardinality(ProductsOf(s)) < limit

(* Items of several shops are ordered together. *)
Orderable_Bug(lines, s) == \E l \in lines : ShopOf[l.product] = s /\ l.quantity > 0

(* The checks of a checkout: the products are all of one shop, and their   *)
(* total is more than 0.                                                   *)
Orderable(lines, s) ==
    /\ \A l \in lines : ShopOf[l.product] = s
    /\ \E l \in lines : l.quantity > 0

(* The metadata is written anew. *)
Paid_Bug(o) == [o EXCEPT !.status = "completed",
                         !.metadata = [stage |-> "pending", provider |-> "paystack"]]

(* What the payment writes into the order: the metadata that was read,     *)
(* with the provider added to it.                                          *)
Paid(o) == [o EXCEPT !.status = "completed", !.metadata.provider = "paystack"]

(* The payment is credited again although it is completed. *)
Credited_Bug(o) == FALSE

Credited(o) == o.status = "completed"

-----------------------------------------------------------------------------
(* Adding to a cart. *)

(* The product must be active; its stock and shop are those read here. *)
AddItem(r, o, p, q) ==
    /\ product[p] # None /\ product[p].active
    /\ Begin(r, [op |-> "add", at |-> "cart", owner |-> o, product |-> p, quantity |-> q,
                 stock |-> product[p].stock])
    /\ UNCHANGED cartVars

GuestAddItem(r, o, p, q) == AddItem(r, o, p, q)

GotCart(r, k) ==
    Continue(r, [op |-> "add", at |-> "check", product |-> job[r].product,
                 quantity |-> job[r].quantity, stock |-> job[r].stock,
                 cart |-> k, copy |-> cart'[k]])

FindCart(r) ==
    /\ At(r, "add", "cart")
    /\ UNCHANGED cartVars
    /\ IF Found(job[r].owner) = {}
       THEN Continue(r, [job[r] EXCEPT !.at = "create"])
       ELSE \E k \in Found(job[r].owner) : GotCart(r, k)

(* guest_token is unique in carts, user_id is not. *)
CreateCart(r) ==
    /\ At(r, "add", "create")
    /\ IF job[r].owner \in Guests /\ CartsOf(job[r].owner) # {}
       THEN Finish(r) /\ UNCHANGED cart
       ELSE \E k \in Carts :
            /\ cart[k] = None
            /\ cart' = [cart EXCEPT ![k] = [owner |-> job[r].owner, shop |-> None]]
            /\ GotCart(r, k)
    /\ UNCHANGED <<product, item, order, credits, peak>>

(* ensureShopConsistency reads the items of the cart. *)
CheckShop(r) ==
    /\ At(r, "add", "check")
    /\ Continue(r, [job[r] EXCEPT !.at =
            IF Foreign(job[r].cart, ShopOf[job[r].product]) THEN "purge" ELSE "label"])
    /\ UNCHANGED cartVars

Emptied(k) == [x \in Items |-> IF x \in ItemsOf(k) THEN None ELSE item[x]]

PurgeCart(r) ==
    /\ At(r, "add", "purge")
    /\ item' = Emptied(job[r].cart)
    /\ Continue(r, [job[r] EXCEPT !.at = "label"])
    /\ UNCHANGED <<product, cart, order, credits, peak>>

SaveCart(r, s) ==
    cart' = [cart EXCEPT ![job[r].cart] = Saved(@, job[r].copy, [job[r].copy EXCEPT !.shop = s])]

LabelCart(r) ==
    /\ At(r, "add", "label")
    /\ SaveCart(r, ShopOf[job[r].product])
    /\ Continue(r, [op |-> "add", at |-> "item", product |-> job[r].product,
                    quantity |-> job[r].quantity, stock |-> job[r].stock, cart |-> job[r].cart])
    /\ UNCHANGED <<product, item, order, credits, peak>>

(* The item of this product that the cart already holds, if any. *)
FindItem(r) ==
    /\ At(r, "add", "item")
    /\ LET held == {x \in ItemsOf(job[r].cart) : item[x].product = job[r].product}
       IN IF held = {}
          THEN Continue(r, [job[r] EXCEPT !.at = "insert"])
          ELSE \E x \in held :
               Continue(r, [op |-> "write", at |-> "save", item |-> x, copy |-> item[x],
                   quantity |-> Within(item[x].quantity + job[r].quantity, job[r].stock)])
    /\ UNCHANGED cartVars

(* An id is not used again, and so not for a row whose id a handler holds. *)
Unused(x) ==
    item[x] = None /\ \A q \in Requests : At(q, "write", "save") => job[q].item # x

InsertItem(r) ==
    /\ At(r, "add", "insert")
    /\ \E x \in Items :
        /\ Unused(x)
        /\ item' = [item EXCEPT ![x] = [cart |-> job[r].cart, product |-> job[r].product,
                                        quantity |-> Within(job[r].quantity, job[r].stock)]]
    /\ Finish(r)
    /\ UNCHANGED <<product, cart, order, credits, peak>>

-----------------------------------------------------------------------------
(* The other operations on a cart: each x is an item, each k a cart, of    *)
(* the customer or guest who asks.  Guests have handlers of their own.     *)

(* Item and product are read; one that is gone in between is not saved. *)
UpdateItem(r, x, q) ==
    /\ Begin(r, [op |-> "write", at |-> "save", item |-> x, copy |-> item[x],
                 quantity |-> Within(q, product[item[x].product].stock)])
    /\ UNCHANGED cartVars

SaveItem(r) ==
    /\ At(r, "write", "save")
    /\ LET j == job[r] IN
       item' = IF item[j.item] = None THEN item ELSE
               [item EXCEPT ![j.item] =
                    Saved(@, j.copy, [j.copy EXCEPT !.quantity = j.quantity])]
    /\ Finish(r)
    /\ UNCHANGED <<product, cart, order, credits, peak>>

GuestUpdateItem(r, x, q) == UpdateItem(r, x, q)

RemoveItem(r, x) ==
    /\ Begin(r, Done)
    /\ item' = [item EXCEPT ![x] = None]
    /\ UNCHANGED <<product, cart, order, credits, peak>>

GuestRemoveItem(r, x) == RemoveItem(r, x)

ClearCart(r, k) ==
    /\ Begin(r, [op |-> "clear", at |-> "label", cart |-> k, copy |-> cart[k]])
    /\ item' = Emptied(k)
    /\ UNCHANGED <<product, cart, order, credits, peak>>

GuestClear(r, k) == ClearCart(r, k)

UnlabelCart(r) ==
    /\ At(r, "clear", "label")
    /\ SaveCart(r, None)
    /\ Finish(r)
    /\ UNCHANGED <<product, item, order, credits, peak>>

-----------------------------------------------------------------------------
(* Orders. *)

LinesOf(k) == {[product |-> item[x].product, quantity |-> item[x].quantity] : x \in ItemsOf(k)}

(* The items and their products are read; rates are awaited after that. *)
CheckoutCart(r, o) ==
    /\ \E k \in CartsOf(o), s \in Shops :
        /\ Orderable(LinesOf(k), s)
        /\ Begin(r, [op |-> "order", at |-> "insert", lines |-> LinesOf(k), shop |-> s,
                     guest |-> FALSE])
    /\ UNCHANGED cartVars

(* A guest's lines, and with each the shop and the price, come from the    *)
(* request.  The shops they name are compared, those of their products are *)
(* not looked up, nor is a cart, a stock or a price.                       *)
GuestCheckout(r, lines, s) ==
    /\ Begin(r, [op |-> "order", at |-> "insert", lines |-> lines, shop |-> s,
                 guest |-> TRUE])
    /\ UNCHANGED cartVars

InsertOrder(r) ==
    /\ At(r, "order", "insert")
    /\ \E o \in Orders :
        /\ order[o] = None
        /\ order' = [order EXCEPT ![o] = NewOrder(job[r].lines, job[r].shop, job[r].guest)]
    /\ Finish(r)
    /\ UNCHANGED <<product, cart, item, credits, peak>>

SaveOrder(o, copy, new) == order' = [order EXCEPT ![o] = Saved(@, copy, new)]

(* The merchant gives an order any status, whatever it was; the metadata   *)
(* is one column.                                                          *)
UpdateOrderStatus(r, o, stage) ==
    /\ order[o] # None
    /\ Begin(r, [op |-> "stage", at |-> "save", order |-> o, copy |-> order[o],
                 stage |-> stage])
    /\ UNCHANGED cartVars

SaveOrderStatus(r) ==
    /\ At(r, "stage", "save")
    /\ SaveOrder(job[r].order, job[r].copy, [job[r].copy EXCEPT !.metadata.stage = job[r].stage])
    /\ Finish(r)
    /\ UNCHANGED <<product, cart, item, credits, peak>>

(* Paystack tells, once or several times, that an order has been paid.     *)
(* handlePaystackShopPayment leaves a completed one alone.                 *)
PaystackCharge(r, o) ==
    /\ order[o] # None
    /\ Begin(r, IF Credited(order[o]) THEN Done
                ELSE [op |-> "pay", at |-> "credit", order |-> o, copy |-> order[o]])
    /\ UNCHANGED cartVars

(* After the conversion. *)
CreditOrder(r) ==
    /\ At(r, "pay", "credit")
    /\ credits' = [credits EXCEPT ![job[r].order] = @ + 1]
    /\ Continue(r, [job[r] EXCEPT !.at = "save"])
    /\ UNCHANGED <<product, cart, item, order, peak>>

CompleteOrder(r) ==
    /\ At(r, "pay", "save")
    /\ SaveOrder(job[r].order, job[r].copy, Paid(job[r].copy))
    /\ Finish(r)
    /\ UNCHANGED <<product, cart, item, credits, peak>>

-----------------------------------------------------------------------------
(* Products. *)

(* The products of the shop are counted.  limit is what the merchant has   *)
(* set as features.max_products: any number, at any time.                  *)
CreateProduct(r, s, n, limit) ==
    /\ Begin(r, IF Room(s, limit)
                THEN [op |-> "product", at |-> "insert", shop |-> s, stock |-> n]
                ELSE Done)
    /\ UNCHANGED cartVars

InsertProduct(r) ==
    /\ At(r, "product", "insert")
    /\ \E p \in Products :
        /\ product[p] = None /\ ShopOf[p] = job[r].shop
        /\ product' = [product EXCEPT ![p] = [stock |-> job[r].stock, active |-> TRUE]]
        /\ peak' = [peak EXCEPT ![p] = job[r].stock]
    /\ Finish(r)
    /\ UNCHANGED <<cart, item, order, credits>>

(* The merchant changes the stock or the activity of a product, or neither.*)
UpdateProduct(r, p, new) ==
    /\ product[p] # None
    /\ Begin(r, [op |-> "product", at |-> "save", product |-> p, copy |-> product[p],
                 new |-> new])
    /\ UNCHANGED cartVars

SaveProduct(r) ==
    /\ At(r, "product", "save")
    /\ LET p == job[r].product IN
       /\ product' = [product EXCEPT ![p] = Saved(@, job[r].copy, job[r].new)]
       /\ peak' = [peak EXCEPT ![p] = IF product'[p].stock > @ THEN product'[p].stock ELSE @]
    /\ Finish(r)
    /\ UNCHANGED <<cart, item, order, credits>>

(* A product is never deleted, only taken out of the shop. *)
DestroyProduct(r, p) ==
    product[p] # None /\ UpdateProduct(r, p, [product[p] EXCEPT !.active = FALSE])

CartNext ==
    \/ \E r \in Requests :
        \/ \E o \in Users, p \in Products, q \in Quantities : AddItem(r, o, p, q)
        \/ \E o \in Guests, p \in Products, q \in Quantities : GuestAddItem(r, o, p, q)
        \/ \E o \in Users : \E k \in CartsOf(o) :
            \/ \E x \in ItemsOf(k) : RemoveItem(r, x) \/ \E q \in Quantities : UpdateItem(r, x, q)
            \/ ClearCart(r, k)
        \/ \E o \in Guests : \E k \in CartsOf(o) :
            \/ \E x \in ItemsOf(k) :
                GuestRemoveItem(r, x) \/ \E q \in Quantities : GuestUpdateItem(r, x, q)
            \/ GuestClear(r, k)
        \/ \E o \in Users : CheckoutCart(r, o)
        \/ \E lines \in GuestLines, s \in Shops : GuestCheckout(r, lines, s)
        \/ \E o \in Orders, stage \in Stages : UpdateOrderStatus(r, o, stage)
        \/ \E o \in Orders : PaystackCharge(r, o)
        \/ \E s \in Shops, n \in Stocks, limit \in 0..MaxProducts : CreateProduct(r, s, n, limit)
        \/ \E p \in Products, new \in Product : UpdateProduct(r, p, new)
        \/ \E p \in Products : DestroyProduct(r, p)
        \/ FindCart(r) \/ CreateCart(r) \/ CheckShop(r) \/ PurgeCart(r) \/ LabelCart(r)
        \/ FindItem(r) \/ InsertItem(r) \/ SaveItem(r) \/ UnlabelCart(r)
        \/ InsertOrder(r) \/ InsertProduct(r) \/ SaveProduct(r)
        \/ SaveOrderStatus(r) \/ CreditOrder(r) \/ CompleteOrder(r)

-----------------------------------------------------------------------------
(* Properties. *)

CartTypes ==
    /\ product \in [Products -> Product \union {None}]
    /\ cart \in [Carts -> CartRow \union {None}]
    /\ item \in [Items -> ItemRow \union {None}]
    /\ order \in [Orders -> Order \union {None}]
    /\ credits \in [Orders -> Nat]
    /\ peak \in [Products -> Nat]

(* The lines of a customer's order are all of the shop that is paid for    *)
(* it, even where two additions that overlap leave items of two shops in a *)
(* cart.  (Nothing of the kind holds of a guest's order.)                  *)
OrderOfOneShop ==
    \A o \in Orders : order[o] # None /\ ~order[o].guest =>
        \A l \in order[o].lines : ShopOf[l.product] = order[o].shop

(* No cart and no customer's order asks for more of a product than was     *)
(* ever in stock: every quantity is capped by a stock that was read,       *)
(* however old.  (It may be more than is in stock now: the stock is        *)
(* changed without a look at the carts, and no order lowers it.)           *)
WithinStock ==
    /\ \A x \in Items : item[x] # None => item[x].quantity <= peak[item[x].product]
    /\ \A o \in Orders : order[o] # None /\ ~order[o].guest =>
        \A l \in order[o].lines : l.quantity <= peak[l.product]

(* One at a time: a cart holds items of one shop, the one it is labelled   *)
(* with, and one row for each product.  (Two additions that overlap both   *)
(* see an empty cart.)                                                     *)
CartOfOneShop ==
    inSeries /\ Running = {} /\ faults = 0 =>
        \A k \in Carts : \A x, y \in ItemsOf(k) :
            /\ cart[k].shop = ShopOf[item[x].product]
            /\ item[x].product = item[y].product => x = y

(* A guest token has one cart always, a user one at a time. *)
OneCartEach == \A o \in Owners : o \in Guests \/ inSeries => Cardinality(CartsOf(o)) <= 1

(* One at a time: no shop has more products than its merchant, who sets    *)
(* the limit, has ever allowed; those taken out of it still count.         *)
ProductsWithinLimit == inSeries => \A s \in Shops : Cardinality(ProductsOf(s)) <= MaxProducts

(* An order is completed only once its payment is credited; one at a time, *)
(* and unless the handler ends between the two, it is credited once,       *)
(* however often Paystack tells of it.                                     *)
OrderCreditedOnce ==
    \A o \in Orders : order[o] # None =>
        /\ order[o].status = "completed" => credits[o] > 0
        /\ inSeries /\ faults = 0 => credits[o] <= 1

(* One at a time: the stage of an order is what the merchant's last request *)
(* made it; a payment, which writes the same column, does not change it.   *)
StatusStays ==
    [][inSeries => \A o \in Orders :
        order[o] # None /\ order'[o].metadata.stage # order[o].metadata.stage =>
            \E r \in Requests : At(r, "stage", "save") /\ job[r].order = o]_order
=============================================================================
