------------------------------ MODULE Shop_proofs ------------------------------
(***************************************************************************)
(* For any requests at any overlap, shops, carts, orders and pictures: the *)
(* types of Shop.tla and of what its handlers hold; that orders and carts  *)
(* are sound; that credits match; that limits hold; that nothing is lost.  *)
(* The steps of carts, of the builder and of the files leave each other's  *)
(* variables and jobs alone, so that each has invariants of its own.       *)
(***************************************************************************)
EXTENDS Shop, TLAPS, FiniteSetTheorems, SequenceTheorems

(* What a handler holds in memory: of Cart.tla, *)
AddJob == [op : {"add"}, at : {"cart", "create"}, owner : Owners, product : Products,
           quantity : Nat, stock : Nat]
CartJob == [op : {"add"}, at : {"check", "purge", "label"}, product : Products,
            quantity : Nat, stock : Nat, cart : Carts, copy : CartRow]
ItemJob == [op : {"add"}, at : {"item", "insert"}, product : Products, quantity : Nat,
            stock : Nat, cart : Carts]
WriteJob == [op : {"write"}, at : {"save"}, item : Items, copy : ItemRow, quantity : Nat]
ClearJob == [op : {"clear"}, at : {"label"}, cart : Carts, copy : CartRow]
OrderJob == [op : {"order"}, at : {"insert"}, lines : SUBSET Line, shop : Shops,
             guest : BOOLEAN]
StageJob == [op : {"stage"}, at : {"save"}, order : Orders, copy : Order, stage : Stages]
PayJob == [op : {"pay"}, at : {"credit", "save"}, order : Orders, copy : Order]
ProductJob == [op : {"product"}, at : {"insert"}, shop : Shops, stock : Stocks]
StockJob == [op : {"product"}, at : {"save"}, product : Products, copy : Product,
             new : Product]
CartJobs == AddJob \union CartJob \union ItemJob \union WriteJob \union ClearJob
            \union OrderJob \union StageJob \union PayJob \union ProductJob \union StockJob

(* of ShopBuilder.tla, *)
CreateJob == [op : {"create"}, at : {"insert"}, subdomain : Subdomains, custom : BOOLEAN,
              reference : Payable \union {Null}]
ThemeJob == [op : {"shop"}, at : {"save"}, shop : Sites, copy : ShopRow,
             theme : {"preset", "merchant"}]
GatewayJob == [op : {"gateway"}, at : {"find", "insert"}]
ListJob == [op : {"list"}, at : {"gateways"}, insert : SUBSET Sites, find : SUBSET Sites]
AskJob == [op : {"chat"}, at : {"ask"}, shop : Sites, streamed : BOOLEAN]
ReplyJob == [op : {"chat"}, at : {"reply"}, shop : Sites, row : ShopRow, copy : Talk,
             streamed : BOOLEAN]
ApplyJob == [op : {"chat"}, at : {"apply"}, shop : Sites, row : ShopRow]
ResetJob == [op : {"reset"}, at : {"save"}, shop : Sites, copy : Talk]
ConvertJob == [op : {"convert"}, at : {"received", "converting", "credit", "unlock"},
               deposit : Deposits]
ReferJob == [op : {"refer"}, at : {"save"}, shop : Sites, deposit : Deposits]
BoughtJob == [op : {"bought"}, at : {"unlock"}, reference : Payable]
DefaultJob == [op : {"delivery"}, at : {"default"}, shop : Sites]
DeliveryJob == [op : {"delivery"}, at : {"save"}, shop : Sites, copy : Delivery,
                fee : Requests \union {"free"}]
BuilderJobs == CreateJob \union ThemeJob \union GatewayJob \union ListJob \union AskJob
               \union ReplyJob \union ApplyJob \union ResetJob \union ConvertJob
               \union ReferJob \union BoughtJob \union DefaultJob \union DeliveryJob

(* and of ShopFiles.tla. *)
PictureJob == [op : {"picture"}, at : {"upload", "save"}, picture : Pictures]
ImageJob == [op : {"image"}, at : {"upload", "save"}, album : Albums, copy : SUBSET Requests]
RelistJob == [op : {"relist"}, at : {"save"}, album : Albums, images : SUBSET Requests]
FileJobs == PictureJob \union ImageJob \union RelistJob

Jobs == {Waiting, Done} \union CartJobs \union BuilderJobs \union FileJobs

JobsOK == job \in [Requests -> Jobs] /\ inSeries \in BOOLEAN /\ faults \in Nat

(* The handlers' operations, which tell whose job a job is. *)
CartOps == {"add", "write", "clear", "order", "stage", "pay", "product"}
BuilderOps == {"create", "shop", "gateway", "list", "chat", "reset", "convert", "refer",
               "bought", "delivery"}
FileOps == {"picture", "image", "relist"}

LEMMA JobOps ==
    /\ \A j \in CartJobs : j.op \in CartOps
    /\ \A j \in BuilderJobs : j.op \in BuilderOps
    /\ \A j \in FileJobs : j.op \in FileOps
    /\ Waiting.op = "waiting" /\ Done.op = "done"
  <1>1. \A j \in CartJobs : j.op \in CartOps
    BY DEF CartJobs, AddJob, CartJob, ItemJob, WriteJob, ClearJob, OrderJob, StageJob, PayJob,
          ProductJob, StockJob, CartOps
  <1>2. \A j \in BuilderJobs : j.op \in BuilderOps
    BY DEF BuilderJobs, CreateJob, ThemeJob, GatewayJob, ListJob, AskJob, ReplyJob, ApplyJob,
          ResetJob, ConvertJob, ReferJob, BoughtJob, DefaultJob, DeliveryJob, BuilderOps
  <1>3. \A j \in FileJobs : j.op \in FileOps
    BY DEF FileJobs, PictureJob, ImageJob, RelistJob, FileOps
  <1>4. QED BY <1>1, <1>2, <1>3 DEF Waiting, Done

LEMMA JobsApart ==
    /\ CartJobs \intersect BuilderJobs = {} /\ CartJobs \intersect FileJobs = {}
    /\ BuilderJobs \intersect FileJobs = {}
    /\ {Waiting, Done} \intersect (CartJobs \union BuilderJobs \union FileJobs) = {}
    /\ Waiting # Done
  BY JobOps DEF CartOps, BuilderOps, FileOps

-----------------------------------------------------------------------------
(* How a step moves the jobs: those of a part S go on, begin or end.       *)

Moves(S) ==
    /\ inSeries' = inSeries /\ faults' \in {faults, faults + 1}
    /\ \E r \in Requests, j \in S \union {Done} :
        /\ job' = [job EXCEPT ![r] = j]
        /\ \/ job[r] \in S
           \/ job[r] = Waiting /\ Cardinality(Running) < IF inSeries THEN 1 ELSE MaxInFlight

LEMMA BeginMoves ==
    ASSUME NEW S, NEW r \in Requests, NEW j \in S \union {Done}, Begin(r, j)
    PROVE  Moves(S) /\ job' = [job EXCEPT ![r] = j] /\ job[r] = Waiting /\ faults' = faults
  BY DEF Begin, Moves

LEMMA ContinueMoves ==
    ASSUME NEW S, NEW r \in Requests, job[r] \in S, NEW j \in S \union {Done}, Continue(r, j)
    PROVE  Moves(S) /\ job' = [job EXCEPT ![r] = j] /\ faults' = faults
  BY DEF Continue, Moves

LEMMA FinishMoves ==
    ASSUME NEW S, NEW r \in Requests, job[r] \in S, Finish(r)
    PROVE  Moves(S) /\ job' = [job EXCEPT ![r] = Done] /\ faults' = faults
  BY ContinueMoves DEF Finish

LEMMA MovesTyped ==
    ASSUME JobsOK, NEW S, S \subseteq Jobs, Moves(S)
    PROVE  JobsOK'
  <1>1. Done \in Jobs
    BY DEF Jobs
  <1>2. faults' \in Nat /\ inSeries' \in BOOLEAN
    BY DEF JobsOK, Moves
  <1>3. job' \in [Requests -> Jobs]
    BY <1>1 DEF JobsOK, Moves
  <1>4. QED BY <1>2, <1>3 DEF JobsOK

(* What a job is, told by its step. *)
LEMMA JobAt ==
    ASSUME JobsOK, NEW r \in Requests, NEW op, NEW step, At(r, op, step)
    PROVE  /\ op = "add" /\ step \in {"cart", "create"} => job[r] \in AddJob
           /\ op = "add" /\ step \in {"check", "purge", "label"} => job[r] \in CartJob
           /\ op = "add" /\ step \in {"item", "insert"} => job[r] \in ItemJob
           /\ op = "write" => job[r] \in WriteJob
           /\ op = "clear" => job[r] \in ClearJob
           /\ op = "order" => job[r] \in OrderJob
           /\ op = "stage" => job[r] \in StageJob
           /\ op = "pay" => job[r] \in PayJob
           /\ op = "product" /\ step = "insert" => job[r] \in ProductJob
           /\ op = "product" /\ step = "save" => job[r] \in StockJob
           /\ op = "create" => job[r] \in CreateJob
           /\ op = "shop" => job[r] \in ThemeJob
           /\ op = "gateway" => job[r] \in GatewayJob
           /\ op = "list" => job[r] \in ListJob
           /\ op = "chat" /\ step = "ask" => job[r] \in AskJob
           /\ op = "chat" /\ step = "reply" => job[r] \in ReplyJob
           /\ op = "chat" /\ step = "apply" => job[r] \in ApplyJob
           /\ op = "reset" => job[r] \in ResetJob
           /\ op = "convert" => job[r] \in ConvertJob
           /\ op = "refer" => job[r] \in ReferJob
           /\ op = "bought" => job[r] \in BoughtJob
           /\ op = "delivery" /\ step = "default" => job[r] \in DefaultJob
           /\ op = "delivery" /\ step = "save" => job[r] \in DeliveryJob
           /\ op = "picture" => job[r] \in PictureJob
           /\ op = "image" => job[r] \in ImageJob
           /\ op = "relist" => job[r] \in RelistJob
           /\ op \in CartOps => job[r] \in CartJobs
           /\ op \in BuilderOps => job[r] \in BuilderJobs
           /\ op \in FileOps => job[r] \in FileJobs
           /\ job[r].op = op /\ job[r].at = step /\ r \in Running
  <1>1. /\ job[r] \in CartJobs \union BuilderJobs \union FileJobs
        /\ job[r].op = op /\ job[r].at = step /\ r \in Running
    BY DEF JobsOK, Jobs, At, Running
  <1>2. CASE job[r] \in CartJobs
    <2>1. op \in CartOps
      BY <1>1, <1>2, JobOps
    <2>2. QED
      BY <1>1, <1>2, <2>1 DEF CartJobs, AddJob, CartJob, ItemJob, WriteJob, ClearJob, OrderJob,
            StageJob, PayJob, ProductJob, StockJob, CartOps, BuilderOps, FileOps
  <1>3. CASE job[r] \in BuilderJobs
    <2>1. op \in BuilderOps
      BY <1>1, <1>3, JobOps
    <2>2. QED
      BY <1>1, <1>3, <2>1 DEF BuilderJobs, CreateJob, ThemeJob, GatewayJob, ListJob, AskJob,
            ReplyJob, ApplyJob, ResetJob, ConvertJob, ReferJob, BoughtJob, DefaultJob, DeliveryJob, CartOps,
            BuilderOps, FileOps
  <1>4. CASE job[r] \in FileJobs
    <2>1. op \in FileOps
      BY <1>1, <1>4, JobOps
    <2>2. QED
      BY <1>1, <1>4, <2>1 DEF FileJobs, PictureJob, ImageJob, RelistJob, CartOps, BuilderOps,
            FileOps
  <1>5. QED BY <1>1, <1>2, <1>3, <1>4

-----------------------------------------------------------------------------
(* Carts and orders.  What a handler has read stays true: rows of products,*)
(* carts and orders are not deleted, a product's peak only grows, and the  *)
(* id of an item that a handler holds is not used again.                   *)

(* What a customer orders, of products that exist. *)
Sells(lines, s) ==
    \A l \in lines : /\ ShopOf[l.product] = s /\ product[l.product] # None
                     /\ l.quantity <= peak[l.product]

CartFits(j) ==
    /\ j \in AddJob \union CartJob \union ItemJob =>
        product[j.product] # None /\ j.stock <= peak[j.product]
    /\ j \in CartJob \union ClearJob => cart[j.cart] # None
    /\ j \in WriteJob =>
        /\ product[j.copy.product] # None /\ j.quantity <= peak[j.copy.product]
        /\ item[j.item] = None \/ item[j.item].product = j.copy.product
    /\ j \in OrderJob => j.guest \/ Sells(j.lines, j.shop)
    /\ j \in StockJob => product[j.product] # None
    /\ j \in StageJob \union PayJob => order[j.order] # None
    /\ j \in PayJob => j.copy.status = "created" /\ (j.at = "save" => credits[j.order] > 0)

CartHeld == \A r \in Requests : CartFits(job[r])

CartSound ==
    /\ \A x \in Items : item[x] # None =>
        product[item[x].product] # None /\ item[x].quantity <= peak[item[x].product]
    /\ \A p \in Products : product[p] # None => product[p].stock <= peak[p]
    /\ \A o \in Orders : order[o] # None =>
        /\ order[o].guest \/ Sells(order[o].lines, order[o].shop)
        /\ order[o].status = "completed" => credits[o] > 0

(* What no step takes back. *)
CartGrows ==
    /\ \A p \in Products : product[p] # None => product'[p] # None /\ peak[p] <= peak'[p]
    /\ \A k \in Carts : cart[k] # None => cart'[k] # None
    /\ \A o \in Orders : (order[o] # None => order'[o] # None) /\ credits[o] <= credits'[o]
    /\ \A r \in Requests : job[r] \in WriteJob =>
        \/ item'[job[r].item] = None
        \/ item[job[r].item] # None /\ item'[job[r].item].product = item[job[r].item].product

LEMMA CartJobKinds ==
    /\ \A j \in AddJob \union CartJob \union ItemJob :
        j.op = "add" /\ j.product \in Products /\ j.quantity \in Nat /\ j.stock \in Nat
    /\ \A j \in CartJob : j.cart \in Carts /\ j.at \in {"check", "purge", "label"}
    /\ \A j \in ClearJob : j.cart \in Carts /\ j.op = "clear"
    /\ \A j \in WriteJob : /\ j.op = "write" /\ j.item \in Items /\ j.quantity \in Nat
                           /\ j.copy \in ItemRow /\ j.copy.product \in Products
    /\ \A j \in StageJob : j.op = "stage" /\ j.order \in Orders /\ j.copy \in Order
    /\ \A j \in PayJob : j.op = "pay" /\ j.order \in Orders /\ j.copy \in Order
    /\ \A j \in OrderJob : /\ j.op = "order" /\ j.lines \in SUBSET Line /\ j.shop \in Shops
                           /\ j.guest \in BOOLEAN
    /\ \A j \in StockJob : /\ j.op = "product" /\ j.product \in Products /\ j.copy \in Product
                           /\ j.new \in Product
    /\ \A j \in ProductJob : j.op = "product" /\ j.shop \in Shops /\ j.stock \in Stocks
    /\ \A j \in AddJob \union ItemJob : j.at \notin {"check", "purge", "label"}
  BY DEF AddJob, CartJob, ItemJob, ClearJob, WriteJob, StageJob, PayJob, OrderJob, ProductJob,
        StockJob, ItemRow

LEMMA SellsKept ==
    ASSUME CartTypes, CartTypes', CartGrows, NEW lines \in SUBSET Line, NEW s, Sells(lines, s)
    PROVE  Sells(lines, s)'
  <1>1. ASSUME NEW l \in lines
        PROVE  /\ ShopOf[l.product] = s /\ product'[l.product] # None
               /\ l.quantity <= peak'[l.product]
    <2>1. l.product \in Products /\ l.quantity \in Nat
      BY DEF Line
    <2>2. /\ ShopOf[l.product] = s /\ product[l.product] # None
          /\ l.quantity <= peak[l.product]
      BY DEF Sells
    <2>3. product'[l.product] # None /\ peak[l.product] <= peak'[l.product]
      BY <2>1, <2>2 DEF CartGrows
    <2>4. peak[l.product] \in Nat /\ peak'[l.product] \in Nat
      BY <2>1 DEF CartTypes
    <2>5. QED BY <2>1, <2>2, <2>3, <2>4
  <1>2. QED BY <1>1 DEF Sells

LEMMA CartFitsKept ==
    ASSUME CartTypes, CartTypes', CartGrows, NEW r \in Requests, NEW j, job[r] = j, CartFits(j)
    PROVE  CartFits(j)'
  <1> USE CartJobKinds
  <1>1. \A p \in Products : peak[p] \in Nat /\ peak'[p] \in Nat
    BY DEF CartTypes
  <1>2. \A o \in Orders : credits[o] \in Nat /\ credits'[o] \in Nat
    BY DEF CartTypes
  <1>3. ASSUME j \in AddJob \union CartJob \union ItemJob
        PROVE  product'[j.product] # None /\ j.stock <= peak'[j.product]
    BY <1>1, <1>3 DEF CartFits, CartGrows
  <1>4. ASSUME j \in CartJob \union ClearJob PROVE cart'[j.cart] # None
    BY <1>4 DEF CartFits, CartGrows
  <1>5. ASSUME j \in WriteJob
        PROVE  /\ product'[j.copy.product] # None /\ j.quantity <= peak'[j.copy.product]
               /\ item'[j.item] = None \/ item'[j.item].product = j.copy.product
    BY <1>1, <1>5 DEF CartFits, CartGrows
  <1>6. ASSUME j \in StageJob \union PayJob PROVE order'[j.order] # None
    BY <1>6 DEF CartFits, CartGrows
  <1>7. ASSUME j \in PayJob, j.at = "save" PROVE credits'[j.order] > 0
    BY <1>2, <1>7 DEF CartFits, CartGrows
  <1>8. ASSUME j \in OrderJob PROVE j.guest \/ Sells(j.lines, j.shop)'
    BY <1>8, SellsKept DEF CartFits
  <1>10. ASSUME j \in StockJob PROVE product'[j.product] # None
    BY <1>10 DEF CartFits, CartGrows
  <1>9. QED BY <1>10, <1>3, <1>4, <1>5, <1>6, <1>7, <1>8 DEF CartFits

LEMMA CartHeldKept ==
    ASSUME JobsOK, CartTypes, CartTypes', CartGrows, CartHeld,
           NEW r \in Requests, NEW j, job' = [job EXCEPT ![r] = j], CartFits(j)'
    PROVE  CartHeld'
  <1>1. ASSUME NEW q \in Requests PROVE CartFits(job[q])'
    <2>1. CASE q = r
      BY <2>1 DEF JobsOK
    <2>2. CASE q # r
      <3>1. PICK i : i = job[q]
        OBVIOUS
      <3>2. CartFits(i)'
        BY <3>1, CartFitsKept DEF CartHeld
      <3>3. job'[q] = i
        BY <2>2, <3>1 DEF JobsOK
      <3>4. QED BY <3>2, <3>3
    <2>3. QED BY <2>1, <2>2
  <1>2. QED BY <1>1 DEF CartHeld

(* What a save writes over the row. *)
LEMMA SavedItem ==
    ASSUME NEW row \in ItemRow, NEW copy \in ItemRow, NEW q \in Nat
    PROVE  \E n \in {row.quantity, q} :
             Saved(row, copy, [copy EXCEPT !.quantity = q]) =
                [cart |-> row.cart, product |-> row.product, quantity |-> n]
  BY DEF Saved, ItemRow

LEMMA SavedCart ==
    ASSUME NEW row \in CartRow, NEW copy \in CartRow, NEW s \in Shops \union {None}
    PROVE  \E t \in {row.shop, s} :
             /\ Saved(row, copy, [copy EXCEPT !.shop = s]) = [owner |-> row.owner, shop |-> t]
             /\ copy = row => t = s
  BY DEF Saved, CartRow

LEMMA SavedStage ==
    ASSUME NEW row \in Order, NEW copy \in Order, NEW stage \in Stages
    PROVE  \E m \in Metadata :
             Saved(row, copy, [copy EXCEPT !.metadata.stage = stage]) =
                [lines |-> row.lines, shop |-> row.shop, guest |-> row.guest,
                 status |-> row.status, metadata |-> m]
  <1>1. PICK m \in Metadata : m = [copy.metadata EXCEPT !.stage = stage]
    BY StagesAssumption DEF Order, Metadata, OrderStatuses
  <1>2. PICK new \in Order : new = [copy EXCEPT !.metadata = m]
    BY DEF Order
  <1>3. new = [copy EXCEPT !.metadata.stage = stage]
    BY <1>1, <1>2
  <1>4. \E n \in {row.metadata, m} :
          Saved(row, copy, new) =
            [lines |-> row.lines, shop |-> row.shop, guest |-> row.guest,
             status |-> row.status, metadata |-> n]
    BY <1>2 DEF Saved, Order
  <1>5. QED BY <1>3, <1>4 DEF Order

LEMMA SavedPaid ==
    ASSUME NEW row \in Order, NEW copy \in Order, copy.status = "created"
    PROVE  \E m \in Metadata :
             /\ Saved(row, copy, Paid(copy)) =
                    [lines |-> row.lines, shop |-> row.shop, guest |-> row.guest,
                     status |-> "completed", metadata |-> m]
             /\ copy = row => m.stage = row.metadata.stage
  <1>1. PICK m : m = [copy.metadata EXCEPT !.provider = "paystack"]
    OBVIOUS
  <1>2. m \in Metadata /\ m.stage = copy.metadata.stage
    BY <1>1 DEF Order, Metadata
  <1>3. PICK new : new = [copy EXCEPT !.status = "completed", !.metadata = m]
    OBVIOUS
  <1>4. /\ new \in Order /\ new.lines = copy.lines /\ new.status = "completed"
        /\ new.metadata = m /\ new.shop = copy.shop /\ new.guest = copy.guest
    BY <1>2, <1>3 DEF Order
  <1>5. new = Paid(copy)
    BY <1>1, <1>3 DEF Paid
  <1>6. PICK n \in {row.metadata, m} : n = IF m = copy.metadata THEN row.metadata ELSE m
    OBVIOUS
  <1>7. Saved(row, copy, new) =
            [lines |-> row.lines, shop |-> row.shop, guest |-> row.guest,
             status |-> "completed", metadata |-> n]
    BY <1>4, <1>6 DEF Saved, Order
  <1>8. QED BY <1>2, <1>5, <1>6, <1>7 DEF Order

(* What a step of a cart's, an order's or a product's handler must do.     *)
CartKept == Moves(CartJobs) /\ CartTypes' /\ CartHeld' /\ CartSound' /\ CartGrows

LEMMA CartGoesOn ==
    ASSUME JobsOK, CartTypes, CartTypes', CartHeld, CartGrows, CartSound', NEW r \in Requests,
           NEW j \in CartJobs \union {Done}, CartFits(j)',
           Begin(r, j) \/ (job[r] \in CartJobs /\ Continue(r, j))
    PROVE  CartKept
  <1>1. Moves(CartJobs) /\ job' = [job EXCEPT ![r] = j]
    BY BeginMoves, ContinueMoves
  <1>2. CartHeld'
    BY <1>1, CartHeldKept
  <1>3. QED BY <1>1, <1>2 DEF CartKept

LEMMA CartUnchanged ==
    ASSUME CartTypes, UNCHANGED cartVars
    PROVE  /\ CartTypes' /\ (CartSound => CartSound')
           /\ \A p \in Products : product[p] # None => product'[p] # None /\ peak[p] <= peak'[p]
           /\ \A k \in Carts : cart[k] # None => cart'[k] # None
           /\ \A o \in Orders : (order[o] # None => order'[o] # None) /\ credits[o] <= credits'[o]
           /\ \A x \in Items : item'[x] = item[x]
           /\ \A j : CartFits(j)' <=> CartFits(j)
  <1>1. /\ product' = product /\ cart' = cart /\ item' = item /\ order' = order
        /\ credits' = credits /\ peak' = peak
    BY DEF cartVars
  <1>2. (\A p \in Products : peak[p] \in Nat) /\ (\A o \in Orders : credits[o] \in Nat)
    BY DEF CartTypes
  <1>3. \A p \in Products : peak[p] <= peak'[p]
    BY <1>1, <1>2
  <1>4. \A o \in Orders : credits[o] <= credits'[o]
    BY <1>1, <1>2
  <1>5. CartTypes' /\ (CartSound => CartSound')
    BY <1>1 DEF CartTypes, CartSound, Sells
  <1>6. \A j : CartFits(j)' <=> CartFits(j)
    BY <1>1 DEF CartFits, Sells
  <1>7. QED BY <1>1, <1>3, <1>4, <1>5, <1>6

(* A step that writes no row. *)
LEMMA CartQuiet ==
    ASSUME JobsOK, CartTypes, CartHeld, CartSound, NEW r \in Requests,
           NEW j \in CartJobs \union {Done}, CartFits(j), UNCHANGED cartVars,
           Begin(r, j) \/ (job[r] \in CartJobs /\ Continue(r, j))
    PROVE  CartKept
  <1>1. CartGrows
    <2>1. \A q \in Requests : job[q] \in WriteJob => job[q].item \in Items
      BY CartJobKinds
    <2>2. ASSUME NEW q \in Requests, job[q] \in WriteJob
          PROVE  \/ item'[job[q].item] = None
                 \/ /\ item[job[q].item] # None
                    /\ item'[job[q].item].product = item[job[q].item].product
      BY <2>1, <2>2, CartUnchanged
    <2>3. QED BY <2>2, CartUnchanged DEF CartGrows
  <1>2. QED BY <1>1, CartUnchanged, CartGoesOn

(* A step that writes items or carts only. *)
LEMMA CartsWritten ==
    ASSUME JobsOK, CartTypes, CartHeld, CartSound, NEW r \in Requests,
           NEW j \in CartJobs \union {Done}, CartFits(j)',
           Begin(r, j) \/ (job[r] \in CartJobs /\ Continue(r, j)),
           UNCHANGED <<product, order, credits, peak>>,
           cart' \in [Carts -> CartRow \union {None}],
           item' \in [Items -> ItemRow \union {None}],
           \A k \in Carts : cart[k] # None => cart'[k] # None,
           \A x \in Items : item'[x] # None =>
                /\ product[item'[x].product] # None
                /\ item'[x].quantity <= peak[item'[x].product],
           \A q \in Requests : job[q] \in WriteJob =>
                \/ item'[job[q].item] = None
                \/ /\ item[job[q].item] # None
                   /\ item'[job[q].item].product = item[job[q].item].product
    PROVE  CartKept
  <1>1. CartTypes'
    BY DEF CartTypes
  <1>2. (\A p \in Products : peak[p] \in Nat) /\ (\A o \in Orders : credits[o] \in Nat)
    BY DEF CartTypes
  <1>3. (\A p \in Products : peak[p] <= peak'[p]) /\ (\A o \in Orders : credits[o] <= credits'[o])
    BY <1>2
  <1>4. CartGrows
    BY <1>3 DEF CartGrows
  <1>5. CartSound'
    BY DEF CartSound, Sells
  <1>6. QED BY <1>1, <1>4, <1>5, CartGoesOn

(* A step that writes one order, or what was credited for it. *)
LEMMA OrderWritten ==
    ASSUME JobsOK, CartTypes, CartHeld, CartSound, NEW r \in Requests,
           NEW j \in CartJobs \union {Done}, CartFits(j)', job[r] \in CartJobs, Continue(r, j),
           NEW o \in Orders, UNCHANGED <<product, cart, item, peak>>,
           NEW row \in Order \union {None}, order' = [order EXCEPT ![o] = row],
           NEW n \in Nat, credits' = [credits EXCEPT ![o] = n], credits[o] <= n,
           order[o] # None => row # None,
           row # None =>
                /\ row.guest \/ Sells(row.lines, row.shop)
                /\ row.status = "completed" => n > 0
    PROVE  CartKept
  <1>1. CartTypes'
    BY DEF CartTypes
  <1>2. (\A p \in Products : peak[p] \in Nat) /\ (\A i \in Orders : credits[i] \in Nat)
    BY DEF CartTypes
  <1>3. (\A p \in Products : peak[p] <= peak'[p]) /\ (\A i \in Orders : credits[i] <= credits'[i])
    BY <1>2 DEF CartTypes
  <1>4. CartGrows
    <2>1. \A i \in Orders : order[i] # None => order'[i] # None
      BY DEF CartTypes
    <2>2. ASSUME NEW q \in Requests, job[q] \in WriteJob
          PROVE  \/ item'[job[q].item] = None
                 \/ /\ item[job[q].item] # None
                    /\ item'[job[q].item].product = item[job[q].item].product
      OBVIOUS
    <2>3. QED BY <1>3, <2>1, <2>2 DEF CartGrows
  <1>5. CartSound'
    <2>1. \A x \in Items : item'[x] # None =>
            product'[item'[x].product] # None /\ item'[x].quantity <= peak'[item'[x].product]
      BY DEF CartSound
    <2>2. \A p \in Products : product'[p] # None => product'[p].stock <= peak'[p]
      BY DEF CartSound
    <2>3. \A lines, s : Sells(lines, s) <=> Sells(lines, s)'
      BY DEF Sells
    <2>4. \A i \in Orders : order'[i] # None =>
            /\ order'[i].guest \/ Sells(order[i].lines, order[i].shop)'
            /\ order'[i].status = "completed" => credits'[i] > 0
      BY <2>3 DEF CartSound, CartTypes
    <2>5. QED BY <2>1, <2>2, <2>3, <2>4 DEF CartSound
  <1>6. QED BY <1>1, <1>4, <1>5, CartGoesOn

(* A step that writes one product. *)
LEMMA ProductWritten ==
    ASSUME JobsOK, CartTypes, CartHeld, CartSound, NEW r \in Requests,
           Begin(r, Done) \/ (job[r] \in CartJobs /\ Continue(r, Done)),
           NEW p \in Products, UNCHANGED <<cart, item, order, credits>>,
           NEW row \in Product, product' = [product EXCEPT ![p] = row],
           NEW n \in Nat, peak' = [peak EXCEPT ![p] = n], row.stock <= n,
           product[p] # None => peak[p] <= n
    PROVE  CartKept
  <1>1. CartTypes'
    BY DEF CartTypes
  <1>2. (\A i \in Products : peak[i] \in Nat) /\ (\A o \in Orders : credits[o] \in Nat)
    BY DEF CartTypes
  <1>3. /\ \A i \in Products : product[i] # None => product'[i] # None /\ peak[i] <= peak'[i]
        /\ \A o \in Orders : credits[o] <= credits'[o]
    BY <1>2, MissingRowsAssumption DEF CartTypes
  <1>4. CartGrows
    <2>1. ASSUME NEW q \in Requests, job[q] \in WriteJob
          PROVE  \/ item'[job[q].item] = None
                 \/ /\ item[job[q].item] # None
                    /\ item'[job[q].item].product = item[job[q].item].product
      OBVIOUS
    <2>2. QED BY <1>3, <2>1 DEF CartGrows
  <1>5. CartSound'
    <2>1. ASSUME NEW x \in Items, item'[x] # None
          PROVE  product'[item'[x].product] # None /\ item'[x].quantity <= peak'[item'[x].product]
      <3>1. /\ item[x] \in ItemRow /\ item[x].product \in Products /\ item[x].quantity \in Nat
            /\ product[item[x].product] # None /\ item[x].quantity <= peak[item[x].product]
        BY <2>1 DEF CartSound, CartTypes, ItemRow
      <3>2. peak[item[x].product] <= peak'[item[x].product] /\ peak' \in [Products -> Nat]
        BY <1>1, <1>3, <3>1 DEF CartTypes
      <3>3. QED BY <1>2, <1>3, <3>1, <3>2
    <2>2. \A i \in Products : product'[i] # None => product'[i].stock <= peak'[i]
      BY DEF CartSound, CartTypes
    <2>3. ASSUME NEW o \in Orders, order'[o] # None
          PROVE  /\ order'[o].guest \/ Sells(order[o].lines, order[o].shop)'
                 /\ order'[o].status = "completed" => credits'[o] > 0
      <3>1. PICK row1 \in Order : row1 = order[o] /\ row1 = order'[o]
        BY <2>3 DEF CartTypes
      <3>2. row1.lines \in SUBSET Line
        BY DEF Order
      <3>3. /\ row1.guest \/ Sells(row1.lines, row1.shop)
            /\ row1.status = "completed" => credits[o] > 0
        BY <2>3, <3>1 DEF CartSound
      <3>4. row1.guest \/ Sells(row1.lines, row1.shop)'
        BY <1>1, <1>4, <3>2, <3>3, SellsKept
      <3>5. QED BY <3>1, <3>3, <3>4
    <2>4. QED BY <2>1, <2>2, <2>3 DEF CartSound
  <1>6. CartFits(Done)'
    BY JobsApart DEF CartFits, CartJobs
  <1>7. QED BY <1>1, <1>4, <1>5, <1>6, CartGoesOn

(* Nothing is held of a handler that is done, waits or makes a product.    *)
LEMMA CartFitsNone ==
    ASSUME NEW j \in {Waiting, Done} \union ProductJob
    PROVE  CartFits(j) /\ CartFits(j)'
  <1>1. j \notin AddJob \union CartJob \union ItemJob \union ClearJob \union WriteJob
            \union OrderJob \union StageJob \union PayJob \union StockJob
    BY CartJobKinds DEF ProductJob, Waiting, Done, AddJob, CartJob, ItemJob, ClearJob, WriteJob,
        OrderJob, StageJob, PayJob, StockJob
  <1>2. QED BY <1>1 DEF CartFits

LEMMA AddItemStep ==
    ASSUME JobsOK, CartTypes, CartHeld, CartSound, NEW r \in Requests,
           \/ \E o \in Users \union Guests, p \in Products, q \in Quantities : AddItem(r, o, p, q)
           \/ FindCart(r) \/ CreateCart(r) \/ CheckShop(r) \/ PurgeCart(r) \/ LabelCart(r)
    PROVE  CartKept
  <1> USE DEF CartTypes
  <1>a. Done \in CartJobs \union {Done} /\ CartFits(Done) /\ CartFits(Done)'
    BY CartFitsNone
  <1>b. /\ \A j \in AddJob : (CartFits(j) <=>
                product[j.product] # None /\ j.stock <= peak[j.product])
        /\ \A j \in CartJob : (CartFits(j) <=>
                product[j.product] # None /\ j.stock <= peak[j.product] /\ cart[j.cart] # None)
        /\ \A j \in ItemJob : (CartFits(j) <=>
                product[j.product] # None /\ j.stock <= peak[j.product])
    BY DEF CartFits, AddJob, CartJob, ItemJob, WriteJob, ClearJob, OrderJob, StageJob, PayJob,
          StockJob
  <1>c. /\ \A j \in CartJob : (CartFits(j)' <=>
                product'[j.product] # None /\ j.stock <= peak'[j.product] /\ cart'[j.cart] # None)
        /\ \A j \in ItemJob : (CartFits(j)' <=>
                product'[j.product] # None /\ j.stock <= peak'[j.product])
    BY DEF CartFits, AddJob, CartJob, ItemJob, WriteJob, ClearJob, OrderJob, StageJob, PayJob,
          StockJob
  <1>d. /\ \A x \in Items : item[x] # None =>
            product[item[x].product] # None /\ item[x].quantity <= peak[item[x].product]
        /\ \A k \in Carts : cart[k] # None => cart[k] \in CartRow
        /\ \A p \in Products : ShopOf[p] \in Shops
    BY ShopOfAssumption DEF CartSound
  <1>e. ASSUME NEW s \in Shops \union {None}, NEW row \in CartRow, NEW copy \in CartRow
        PROVE  Saved(row, copy, [copy EXCEPT !.shop = s]) \in CartRow
    <2>1. PICK t \in {row.shop, s} :
             Saved(row, copy, [copy EXCEPT !.shop = s]) = [owner |-> row.owner, shop |-> t]
      BY SavedCart
    <2>2. QED BY <2>1 DEF CartRow
  <1>1. ASSUME NEW o \in Users \union Guests, NEW p \in Products, NEW q \in Quantities,
               AddItem(r, o, p, q)
        PROVE  CartKept
    <2>1. PICK j : j = [op |-> "add", at |-> "cart", owner |-> o, product |-> p, quantity |-> q,
                        stock |-> product[p].stock]
      OBVIOUS
    <2>2. product[p] \in Product /\ product[p].stock \in Nat /\ q \in Nat
      BY <1>1, QuantitiesAssumption DEF AddItem, Product
    <2>3. j \in AddJob /\ j.product = p /\ j.stock = product[p].stock
      BY <2>1, <2>2 DEF AddJob, Owners
    <2>4. CartFits(j)
      BY <1>1, <1>b, <2>3 DEF AddItem, CartSound
    <2>5. Begin(r, j) /\ UNCHANGED cartVars
      BY <1>1, <2>1 DEF AddItem
    <2>6. QED BY <2>3, <2>4, <2>5, CartQuiet DEF CartJobs
  (* The handler knows its cart. *)
  <1>2. ASSUME NEW k \in Carts, GotCart(r, k), job[r] \in AddJob, cart'[k] # None,
               cart' \in [Carts -> CartRow \union {None}],
               \A l \in Carts : cart[l] # None => cart'[l] # None,
               UNCHANGED <<product, item, order, credits, peak>>
        PROVE  CartKept
    <2>1. PICK j : j = [op |-> "add", at |-> "check", product |-> job[r].product,
                        quantity |-> job[r].quantity, stock |-> job[r].stock,
                        cart |-> k, copy |-> cart'[k]]
      OBVIOUS
    <2>2. CartFits(job[r])
      BY DEF CartHeld
    <2>3. /\ j \in CartJob /\ j.product = job[r].product /\ j.stock = job[r].stock /\ j.cart = k
          /\ job[r] \in CartJobs
      BY <1>2, <2>1 DEF CartJob, AddJob, CartJobs
    <2>4. CartFits(j)'
      BY <1>2, <1>b, <1>c, <2>2, <2>3
    <2>5. Continue(r, j) /\ j \in CartJobs \union {Done}
      BY <1>2, <2>1, <2>3 DEF GotCart, CartJobs
    <2>6. ASSUME NEW q \in Requests, job[q] \in WriteJob
          PROVE  \/ item'[job[q].item] = None
                 \/ /\ item[job[q].item] # None
                    /\ item'[job[q].item].product = item[job[q].item].product
      BY <1>2
    <2>7. \A x \in Items : item'[x] # None =>
            product[item'[x].product] # None /\ item'[x].quantity <= peak[item'[x].product]
      BY <1>2, <1>d
    <2>8. item' \in [Items -> ItemRow \union {None}]
      BY <1>2
    <2>9. QED BY <1>2, <2>3, <2>4, <2>5, <2>6, <2>7, <2>8, CartsWritten
  <1>3. CASE FindCart(r)
    <2>1. job[r] \in AddJob /\ job[r] \in CartJobs /\ UNCHANGED cartVars
      BY <1>3, JobAt DEF FindCart, CartJobs
    <2>2. CASE Continue(r, [job[r] EXCEPT !.at = "create"])
      <3>1. PICK j : j = [job[r] EXCEPT !.at = "create"]
        OBVIOUS
      <3>2. j \in AddJob /\ j.product = job[r].product /\ j.stock = job[r].stock
        BY <2>1, <3>1 DEF AddJob
      <3>3. CartFits(j)
        BY <1>b, <2>1, <3>2 DEF CartHeld
      <3>4. QED BY <2>1, <2>2, <3>1, <3>2, <3>3, CartQuiet DEF CartJobs
    <2>3. ASSUME NEW k \in Found(job[r].owner), GotCart(r, k) PROVE CartKept
      <3>1. k \in Carts /\ cart[k] # None
        BY DEF Found, CartsOf
      <3>2. UNCHANGED <<product, cart, item, order, credits, peak>>
        BY <2>1 DEF cartVars
      <3>3. QED BY <1>2, <2>1, <2>3, <3>1, <3>2
    <2>4. QED BY <1>3, <2>2, <2>3 DEF FindCart
  <1>4. CASE CreateCart(r)
    <2>1. job[r] \in AddJob /\ job[r] \in CartJobs /\ job[r].owner \in Owners
      BY <1>4, JobAt DEF CreateCart, CartJobs, AddJob
    <2>2. CASE Finish(r) /\ UNCHANGED cart
      <3>1. UNCHANGED cartVars
        BY <1>4, <2>2 DEF CreateCart, cartVars
      <3>2. QED BY <1>a, <2>1, <2>2, <3>1, CartQuiet DEF Finish
    <2>3. ASSUME NEW k \in Carts, cart[k] = None, GotCart(r, k),
                 cart' = [cart EXCEPT ![k] = [owner |-> job[r].owner, shop |-> None]]
          PROVE  CartKept
      <3>1. [owner |-> job[r].owner, shop |-> None] \in CartRow
        BY <2>1 DEF CartRow
      <3>2. /\ cart'[k] # None /\ cart' \in [Carts -> CartRow \union {None}]
            /\ \A l \in Carts : cart[l] # None => cart'[l] # None
        BY <2>3, <3>1, MissingRowsAssumption
      <3>3. UNCHANGED <<product, item, order, credits, peak>>
        BY <1>4 DEF CreateCart
      <3>4. QED BY <1>2, <2>1, <2>3, <3>2, <3>3
    <2>4. QED BY <1>4, <2>2, <2>3 DEF CreateCart
  <1>5. CASE CheckShop(r)
    <2>1. job[r] \in CartJob /\ job[r] \in CartJobs /\ UNCHANGED cartVars
      BY <1>5, JobAt DEF CheckShop, CartJobs
    <2>2. PICK at \in {"purge", "label"} : Continue(r, [job[r] EXCEPT !.at = at])
      BY <1>5 DEF CheckShop
    <2>3. PICK j : j = [job[r] EXCEPT !.at = at]
      OBVIOUS
    <2>4. /\ j \in CartJob /\ j.product = job[r].product /\ j.stock = job[r].stock
          /\ j.cart = job[r].cart
      BY <2>1, <2>3 DEF CartJob
    <2>5. CartFits(j)
      BY <1>b, <2>1, <2>4 DEF CartHeld
    <2>6. QED BY <2>1, <2>2, <2>3, <2>4, <2>5, CartQuiet DEF CartJobs
  <1>6. CASE PurgeCart(r)
    <2>1. job[r] \in CartJob /\ job[r] \in CartJobs
      BY <1>6, JobAt DEF PurgeCart, CartJobs
    <2>2. PICK j : j = [job[r] EXCEPT !.at = "label"]
      OBVIOUS
    <2>3. /\ j \in CartJob /\ j.product = job[r].product /\ j.stock = job[r].stock
          /\ j.cart = job[r].cart
      BY <2>1, <2>2 DEF CartJob
    <2>4. UNCHANGED <<product, cart, order, credits, peak>> /\ Continue(r, j)
      BY <1>6, <2>2 DEF PurgeCart
    <2>5. CartFits(j)'
      BY <1>b, <1>c, <2>1, <2>3, <2>4 DEF CartHeld
    <2>6. \A x \in Items : item'[x] \in {item[x], None}
      BY <1>6 DEF PurgeCart, Emptied
    <2>7. item' \in [Items -> ItemRow \union {None}]
      BY <1>6 DEF PurgeCart, Emptied
    <2>8. \A q \in Requests : job[q] \in WriteJob => job[q].item \in Items
      BY CartJobKinds
    <2>9. \A x \in Items : item'[x] # None =>
            product[item'[x].product] # None /\ item'[x].quantity <= peak[item'[x].product]
      BY <1>d, <2>6
    <2>10. ASSUME NEW q \in Requests, job[q] \in WriteJob
           PROVE  \/ item'[job[q].item] = None
                  \/ /\ item[job[q].item] # None
                     /\ item'[job[q].item].product = item[job[q].item].product
      BY <2>6, <2>8, <2>10
    <2>11. j \in CartJobs
      BY <2>3 DEF CartJobs
    <2>12. QED BY <2>1, <2>4, <2>5, <2>7, <2>9, <2>10, <2>11, CartsWritten
  <1>7. CASE LabelCart(r)
    <2>1. job[r] \in CartJob /\ job[r] \in CartJobs
      BY <1>7, JobAt DEF LabelCart, CartJobs
    <2>2. PICK j : j = [op |-> "add", at |-> "item", product |-> job[r].product,
                    quantity |-> job[r].quantity, stock |-> job[r].stock, cart |-> job[r].cart]
      OBVIOUS
    <2>3. j \in ItemJob /\ j.product = job[r].product /\ j.stock = job[r].stock
      BY <2>1, <2>2 DEF ItemJob, CartJob
    <2>4. UNCHANGED <<product, item, order, credits, peak>> /\ Continue(r, j)
      BY <1>7, <2>2 DEF LabelCart
    <2>5. CartFits(j)'
      BY <1>b, <1>c, <2>1, <2>3, <2>4 DEF CartHeld
    <2>6. /\ job[r].cart \in Carts /\ job[r].copy \in CartRow /\ cart[job[r].cart] \in CartRow
          /\ ShopOf[job[r].product] \in Shops \union {None}
      BY <1>b, <1>d, <2>1 DEF CartHeld, CartJob
    <2>7. PICK row \in CartRow : cart' = [cart EXCEPT ![job[r].cart] = row]
      BY <1>7, <1>e, <2>6 DEF LabelCart, SaveCart
    <2>8. /\ cart' \in [Carts -> CartRow \union {None}]
          /\ \A l \in Carts : cart[l] # None => cart'[l] # None
      BY <2>7, MissingRowsAssumption
    <2>9. ASSUME NEW q \in Requests, job[q] \in WriteJob
          PROVE  \/ item'[job[q].item] = None
                 \/ /\ item[job[q].item] # None
                    /\ item'[job[q].item].product = item[job[q].item].product
      BY <2>4
    <2>10. \A x \in Items : item'[x] # None =>
            product[item'[x].product] # None /\ item'[x].quantity <= peak[item'[x].product]
      BY <1>d, <2>4
    <2>11. j \in CartJobs /\ item' \in [Items -> ItemRow \union {None}]
      BY <2>3, <2>4 DEF CartJobs
    <2>12. QED BY <2>1, <2>4, <2>5, <2>8, <2>9, <2>10, <2>11, CartsWritten
  <1>8. QED BY <1>1, <1>3, <1>4, <1>5, <1>6, <1>7

LEMMA WithinStocks ==
    ASSUME NEW q \in Nat, NEW stock \in Nat
    PROVE  Within(q, stock) \in Nat /\ Within(q, stock) <= stock
  BY DEF Within

LEMMA ItemStep ==
    ASSUME JobsOK, CartTypes, CartHeld, CartSound, NEW r \in Requests,
           \/ FindItem(r) \/ InsertItem(r) \/ SaveItem(r) \/ UnlabelCart(r)
           \/ \E k \in Carts :
                \/ \E x \in ItemsOf(k) : RemoveItem(r, x) \/ \E q \in Quantities : UpdateItem(r, x, q)
                \/ cart[k] # None /\ ClearCart(r, k)
    PROVE  CartKept
  <1> USE DEF CartTypes
  <1>a. Done \in CartJobs \union {Done} /\ CartFits(Done) /\ CartFits(Done)'
    BY CartFitsNone
  <1>b. /\ \A j \in ItemJob : (CartFits(j) <=>
                product[j.product] # None /\ j.stock <= peak[j.product])
        /\ \A j \in WriteJob : (CartFits(j) <=>
                /\ product[j.copy.product] # None /\ j.quantity <= peak[j.copy.product]
                /\ item[j.item] = None \/ item[j.item].product = j.copy.product)
        /\ \A j \in ClearJob : (CartFits(j) <=> cart[j.cart] # None)
        /\ \A j \in ClearJob : (CartFits(j)' <=> cart'[j.cart] # None)
    BY DEF CartFits, AddJob, CartJob, ItemJob, WriteJob, ClearJob, OrderJob, StageJob, PayJob,
          StockJob
  <1>c. /\ \A x \in Items : item[x] # None =>
            /\ product[item[x].product] # None /\ item[x].quantity <= peak[item[x].product]
            /\ item[x] \in ItemRow /\ item[x].product \in Products /\ item[x].quantity \in Nat
        /\ \A k \in Carts : cart[k] # None => cart[k] \in CartRow
        /\ \A p \in Products : product[p] # None =>
            product[p] \in Product /\ product[p].stock \in Nat /\ product[p].stock <= peak[p]
        /\ \A p \in Products : peak[p] \in Nat
    BY QuantitiesAssumption DEF CartSound, ItemRow, Product
  <1>d. \A q \in Requests : job[q] \in WriteJob => job[q].item \in Items
    BY CartJobKinds
  <1>e. \A k \in Carts : \A x \in ItemsOf(k) : x \in Items /\ item[x] # None
    BY DEF ItemsOf
  (* Items are taken out, or nothing is done to them. *)
  <1>1. ASSUME NEW j \in CartJobs \union {Done}, CartFits(j)',
               Begin(r, j) \/ (job[r] \in CartJobs /\ Continue(r, j)),
               UNCHANGED <<product, order, credits, peak>>,
               cart' \in [Carts -> CartRow \union {None}],
               \A k \in Carts : cart[k] # None => cart'[k] # None,
               item' \in [Items -> ItemRow \union {None}],
               \A x \in Items : item'[x] \in {item[x], None}
        PROVE  CartKept
    <2>1. \A x \in Items : item'[x] # None =>
            product[item'[x].product] # None /\ item'[x].quantity <= peak[item'[x].product]
      BY <1>1, <1>c
    <2>2. ASSUME NEW q \in Requests, job[q] \in WriteJob
          PROVE  \/ item'[job[q].item] = None
                 \/ /\ item[job[q].item] # None
                    /\ item'[job[q].item].product = item[job[q].item].product
      BY <1>1, <1>d, <2>2
    <2>3. QED BY <1>1, <2>1, <2>2, CartsWritten
  (* A handler goes on to write a quantity. *)
  <1>2. ASSUME NEW x \in Items, item[x] # None, NEW n \in Nat, n <= peak[item[x].product],
               NEW j, j = [op |-> "write", at |-> "save", item |-> x, copy |-> item[x],
                           quantity |-> n]
        PROVE  j \in WriteJob /\ CartFits(j)
    <2>1. j \in WriteJob /\ j.item = x /\ j.copy = item[x] /\ j.quantity = n
      BY <1>2, <1>c DEF WriteJob
    <2>2. QED BY <1>2, <1>b, <1>c, <2>1
  <1>3. CASE FindItem(r)
    <2>1. /\ job[r] \in ItemJob /\ job[r] \in CartJobs /\ CartFits(job[r]) /\ UNCHANGED cartVars
          /\ job[r].cart \in Carts /\ job[r].stock \in Nat /\ job[r].quantity \in Nat
          /\ job[r].product \in Products
      BY <1>3, JobAt DEF FindItem, CartJobs, CartHeld, ItemJob
    <2>2. CASE Continue(r, [job[r] EXCEPT !.at = "insert"])
      <3>1. PICK j : j = [job[r] EXCEPT !.at = "insert"]
        OBVIOUS
      <3>2. j \in ItemJob /\ j.product = job[r].product /\ j.stock = job[r].stock
        BY <2>1, <3>1 DEF ItemJob
      <3>3. CartFits(j)
        BY <1>b, <2>1, <3>2
      <3>4. QED BY <2>1, <2>2, <3>1, <3>2, <3>3, CartQuiet DEF CartJobs
    <2>3. ASSUME NEW x \in ItemsOf(job[r].cart), item[x].product = job[r].product,
                 NEW j, Continue(r, j), j = [op |-> "write", at |-> "save", item |-> x,
                    copy |-> item[x],
                    quantity |-> Within(item[x].quantity + job[r].quantity, job[r].stock)]
          PROVE  CartKept
      <3>1. x \in Items /\ item[x] # None /\ item[x].quantity + job[r].quantity \in Nat
        BY <1>c, <1>e, <2>1
      <3>2. PICK n \in Nat : /\ n = Within(item[x].quantity + job[r].quantity, job[r].stock)
                             /\ n <= job[r].stock
        BY <2>1, <3>1, WithinStocks
      <3>3. n <= peak[item[x].product]
        BY <1>b, <1>c, <2>1, <2>3, <3>2
      <3>4. j \in WriteJob /\ CartFits(j)
        BY <1>2, <2>3, <3>1, <3>2, <3>3
      <3>5. QED BY <2>1, <2>3, <3>4, CartQuiet DEF CartJobs
    <2>4. QED BY <1>3, <2>2, <2>3 DEF FindItem
  <1>4. CASE InsertItem(r)
    <2>1. /\ job[r] \in ItemJob /\ job[r] \in CartJobs /\ CartFits(job[r])
          /\ job[r].cart \in Carts /\ job[r].stock \in Nat /\ job[r].quantity \in Nat
          /\ job[r].product \in Products
      BY <1>4, JobAt DEF InsertItem, CartJobs, CartHeld, ItemJob
    <2>2. PICK n \in Nat : n = Within(job[r].quantity, job[r].stock) /\ n <= job[r].stock
      BY <2>1, WithinStocks
    <2>3. PICK row : row = [cart |-> job[r].cart, product |-> job[r].product, quantity |-> n]
      OBVIOUS
    <2>4. PICK x \in Items : Unused(x) /\ item' = [item EXCEPT ![x] = row]
      BY <1>4, <2>2, <2>3 DEF InsertItem
    <2>5. row \in ItemRow /\ row.product = job[r].product /\ row.quantity = n
      BY <2>1, <2>3 DEF ItemRow
    <2>6. product[row.product] # None /\ row.quantity <= peak[row.product]
      BY <1>b, <1>c, <2>1, <2>2, <2>5
    <2>7. /\ item' \in [Items -> ItemRow \union {None}]
          /\ \A y \in Items : item'[y] # None =>
                product[item'[y].product] # None /\ item'[y].quantity <= peak[item'[y].product]
      BY <1>c, <2>4, <2>5, <2>6
    <2>8. ASSUME NEW q \in Requests, job[q] \in WriteJob
          PROVE  \/ item'[job[q].item] = None
                 \/ /\ item[job[q].item] # None
                    /\ item'[job[q].item].product = item[job[q].item].product
      <3>1. At(q, "write", "save")
        BY <2>8, JobsApart DEF At, WriteJob, CartJobs
      <3>2. job[q].item # x /\ job[q].item \in Items
        BY <1>d, <2>4, <2>8, <3>1 DEF Unused
      <3>3. item'[job[q].item] = item[job[q].item]
        BY <2>4, <3>2
      <3>4. QED BY <3>3
    <2>9. UNCHANGED <<product, cart, order, credits, peak>> /\ Continue(r, Done)
      BY <1>4 DEF InsertItem, Finish
    <2>10. /\ cart' \in [Carts -> CartRow \union {None}]
           /\ \A k \in Carts : cart[k] # None => cart'[k] # None
      BY <2>9
    <2>11. QED BY <1>a, <2>1, <2>7, <2>8, <2>9, <2>10, CartsWritten
  <1>5. CASE SaveItem(r)
    <2>1. /\ job[r] \in WriteJob /\ job[r] \in CartJobs /\ CartFits(job[r])
          /\ job[r].item \in Items /\ job[r].copy \in ItemRow /\ job[r].quantity \in Nat
      BY <1>5, JobAt DEF SaveItem, CartJobs, CartHeld, WriteJob
    <2>2. PICK x \in Items : x = job[r].item
      BY <2>1
    <2>3. UNCHANGED <<product, cart, order, credits, peak>> /\ Continue(r, Done)
      BY <1>5 DEF SaveItem, Finish
    <2>4. /\ cart' \in [Carts -> CartRow \union {None}]
          /\ \A k \in Carts : cart[k] # None => cart'[k] # None
      BY <2>3
    <2>5. CASE item[x] = None
      <3>1. item' = item
        BY <1>5, <2>2, <2>5 DEF SaveItem
      <3>2. QED BY <1>1, <1>a, <2>1, <2>3, <2>4, <3>1
    <2>6. CASE item[x] # None
      <3>1. item' = [item EXCEPT ![x] =
                        Saved(item[x], job[r].copy, [job[r].copy EXCEPT !.quantity = job[r].quantity])]
        BY <1>5, <2>2, <2>6 DEF SaveItem
      <3>a. PICK n \in {item[x].quantity, job[r].quantity} :
                Saved(item[x], job[r].copy, [job[r].copy EXCEPT !.quantity = job[r].quantity]) =
                    [cart |-> item[x].cart, product |-> item[x].product, quantity |-> n]
        BY <1>c, <2>1, <2>6, SavedItem
      <3>b. PICK row :
                row = [cart |-> item[x].cart, product |-> item[x].product, quantity |-> n]
        OBVIOUS
      <3>2. item' = [item EXCEPT ![x] = row]
        BY <3>1, <3>a, <3>b
      <3>3. row \in ItemRow /\ row.product = item[x].product /\ row.quantity = n
        BY <1>c, <2>1, <2>6, <3>a, <3>b DEF ItemRow
      <3>4. product[row.product] # None /\ row.quantity <= peak[row.product]
        <4>1. job[r].quantity <= peak[item[x].product]
          BY <1>b, <2>1, <2>2, <2>6
        <4>2. QED BY <1>c, <2>6, <3>a, <3>3, <4>1
      <3>5. /\ item' \in [Items -> ItemRow \union {None}]
            /\ \A y \in Items : item'[y] # None =>
                product[item'[y].product] # None /\ item'[y].quantity <= peak[item'[y].product]
        BY <1>c, <3>2, <3>3, <3>4
      <3>6. ASSUME NEW q \in Requests, job[q] \in WriteJob
            PROVE  \/ item'[job[q].item] = None
                   \/ /\ item[job[q].item] # None
                      /\ item'[job[q].item].product = item[job[q].item].product
        BY <1>d, <2>6, <3>2, <3>3, <3>5, <3>6
      <3>7. QED BY <1>a, <2>1, <2>3, <2>4, <3>5, <3>6, CartsWritten
    <2>7. QED BY <2>5, <2>6
  <1>6. CASE UnlabelCart(r)
    <2>1. /\ job[r] \in ClearJob /\ job[r] \in CartJobs /\ CartFits(job[r])
          /\ job[r].cart \in Carts /\ job[r].copy \in CartRow
      BY <1>6, JobAt DEF UnlabelCart, CartJobs, CartHeld, ClearJob
    <2>2. UNCHANGED <<product, item, order, credits, peak>> /\ Continue(r, Done)
      BY <1>6 DEF UnlabelCart, Finish
    <2>3. cart[job[r].cart] \in CartRow
      BY <1>b, <1>c, <2>1
    <2>a. None \in Shops \union {None}
      OBVIOUS
    <2>b. PICK t \in {cart[job[r].cart].shop, None} :
             Saved(cart[job[r].cart], job[r].copy, [job[r].copy EXCEPT !.shop = None]) =
                [owner |-> cart[job[r].cart].owner, shop |-> t]
      BY <2>1, <2>3, <2>a, SavedCart
    <2>4. cart' = [cart EXCEPT ![job[r].cart] = [owner |-> cart[job[r].cart].owner, shop |-> t]]
      BY <1>6, <2>b DEF UnlabelCart, SaveCart
    <2>5. [owner |-> cart[job[r].cart].owner, shop |-> t] \in CartRow
      BY <2>3 DEF CartRow
    <2>6. /\ cart' \in [Carts -> CartRow \union {None}]
          /\ \A k \in Carts : cart[k] # None => cart'[k] # None
      BY <2>4, <2>5, MissingRowsAssumption
    <2>7. QED BY <1>1, <1>a, <2>1, <2>2, <2>6
  <1>7. ASSUME NEW k \in Carts, NEW x \in ItemsOf(k), RemoveItem(r, x) PROVE CartKept
    <2>1. /\ Begin(r, Done) /\ UNCHANGED <<product, cart, order, credits, peak>>
          /\ item' \in [Items -> ItemRow \union {None}]
          /\ \A y \in Items : item'[y] \in {item[y], None}
      BY <1>7, <1>e DEF RemoveItem
    <2>2. QED BY <1>1, <1>a, <2>1
  <1>8. ASSUME NEW k \in Carts, NEW x \in ItemsOf(k), NEW q \in Quantities, UpdateItem(r, x, q)
        PROVE  CartKept
    <2>1. x \in Items /\ item[x] # None
      BY <1>e
    <2>2. q \in Nat /\ product[item[x].product].stock \in Nat
      BY <1>c, <2>1, QuantitiesAssumption
    <2>3. PICK n \in Nat : /\ n = Within(q, product[item[x].product].stock)
                           /\ n <= product[item[x].product].stock
      BY <2>2, WithinStocks
    <2>4. n <= peak[item[x].product]
      BY <1>c, <2>1, <2>3
    <2>5. PICK j : j = [op |-> "write", at |-> "save", item |-> x, copy |-> item[x],
                        quantity |-> n]
      OBVIOUS
    <2>6. j \in WriteJob /\ CartFits(j)
      BY <1>2, <2>1, <2>4, <2>5
    <2>7. Begin(r, j) /\ UNCHANGED cartVars
      BY <1>8, <2>3, <2>5 DEF UpdateItem
    <2>8. QED BY <2>6, <2>7, CartQuiet DEF CartJobs
  <1>9. ASSUME NEW k \in Carts, cart[k] # None, ClearCart(r, k) PROVE CartKept
    <2>1. PICK j : j = [op |-> "clear", at |-> "label", cart |-> k, copy |-> cart[k]]
      OBVIOUS
    <2>2. j \in ClearJob /\ j.cart = k
      BY <1>9, <1>c, <2>1 DEF ClearJob
    <2>3. /\ Begin(r, j) /\ UNCHANGED <<product, cart, order, credits, peak>>
          /\ item' \in [Items -> ItemRow \union {None}]
          /\ \A y \in Items : item'[y] \in {item[y], None}
      BY <1>9, <2>1 DEF ClearCart, Emptied
    <2>4. CartFits(j)'
      BY <1>9, <1>b, <2>2, <2>3
    <2>5. QED BY <1>1, <2>2, <2>3, <2>4 DEF CartJobs
  <1>10. QED BY <1>3, <1>4, <1>5, <1>6, <1>7, <1>8, <1>9

LEMMA OrderStep ==
    ASSUME JobsOK, CartTypes, CartHeld, CartSound, NEW r \in Requests,
           \/ \E o \in Users : CheckoutCart(r, o)
           \/ \E lines \in GuestLines, s \in Shops : GuestCheckout(r, lines, s)
           \/ \E o \in Orders, stage \in Stages : UpdateOrderStatus(r, o, stage)
           \/ \E o \in Orders : PaystackCharge(r, o)
           \/ InsertOrder(r) \/ SaveOrderStatus(r) \/ CreditOrder(r) \/ CompleteOrder(r)
    PROVE  CartKept
  <1> USE DEF CartTypes
  <1>a. Done \in CartJobs \union {Done} /\ CartFits(Done) /\ CartFits(Done)'
    BY CartFitsNone
  <1>b. /\ \A j \in OrderJob : (CartFits(j) <=> j.guest \/ Sells(j.lines, j.shop))
        /\ \A j \in StageJob : (CartFits(j) <=> order[j.order] # None)
        /\ \A j \in PayJob : (CartFits(j) <=>
                /\ order[j.order] # None /\ j.copy.status = "created"
                /\ j.at = "save" => credits[j.order] > 0)
        /\ \A j \in PayJob : (CartFits(j)' <=>
                /\ order'[j.order] # None /\ j.copy.status = "created"
                /\ j.at = "save" => credits'[j.order] > 0)
    BY DEF CartFits, AddJob, CartJob, ItemJob, WriteJob, ClearJob, OrderJob, StageJob, PayJob,
          StockJob
  <1>c. \A o \in Orders : /\ credits[o] \in Nat
                          /\ order[o] # None => order[o] \in Order
    OBVIOUS
  <1>d. \A o \in Orders : order[o] # None =>
            /\ order[o].guest \/ Sells(order[o].lines, order[o].shop)
            /\ order[o].status = "completed" => credits[o] > 0
    BY DEF CartSound
  <1>e. \A k \in Carts : LinesOf(k) \in SUBSET Line
    <2>1. ASSUME NEW k \in Carts, NEW x \in ItemsOf(k)
          PROVE  [product |-> item[x].product, quantity |-> item[x].quantity] \in Line
      BY DEF ItemsOf, ItemRow, Line
    <2>2. QED BY <2>1 DEF LinesOf
  <1>1. ASSUME NEW o \in Owners, CheckoutCart(r, o) PROVE CartKept
    <2>1. PICK k \in CartsOf(o), s \in Shops :
            /\ Orderable(LinesOf(k), s)
            /\ Begin(r, [op |-> "order", at |-> "insert", lines |-> LinesOf(k), shop |-> s,
                         guest |-> FALSE])
      BY <1>1 DEF CheckoutCart
    <2>2. PICK lines \in SUBSET Line : lines = LinesOf(k)
      BY <1>e DEF CartsOf
    <2>3. PICK j : j = [op |-> "order", at |-> "insert", lines |-> lines, shop |-> s,
                        guest |-> FALSE]
      OBVIOUS
    <2>4. j \in OrderJob /\ j.lines = lines /\ j.shop = s
      BY <2>3 DEF OrderJob
    <2>5. Sells(lines, s)
      <3>1. ASSUME NEW l \in lines
            PROVE  /\ ShopOf[l.product] = s /\ product[l.product] # None
                   /\ l.quantity <= peak[l.product]
        <4>1. ShopOf[l.product] = s
          BY <2>1, <2>2 DEF Orderable
        <4>2. PICK x \in ItemsOf(k) :
                l = [product |-> item[x].product, quantity |-> item[x].quantity]
          BY <2>2 DEF LinesOf
        <4>3. x \in Items /\ item[x] # None /\ l.product = item[x].product
              /\ l.quantity = item[x].quantity
          BY <4>2 DEF ItemsOf
        <4>4. product[item[x].product] # None /\ item[x].quantity <= peak[item[x].product]
          BY <4>3 DEF CartSound
        <4>5. QED BY <4>1, <4>3, <4>4
      <3>2. QED BY <3>1 DEF Sells
    <2>6. UNCHANGED cartVars /\ CartFits(j)
      BY <1>1, <1>b, <2>4, <2>5 DEF CheckoutCart
    <2>7. QED BY <2>1, <2>2, <2>3, <2>4, <2>6, CartQuiet DEF CartJobs
  <1>2. ASSUME NEW lines \in GuestLines, NEW s \in Shops, GuestCheckout(r, lines, s)
        PROVE  CartKept
    <2>1. PICK j : j = [op |-> "order", at |-> "insert", lines |-> lines, shop |-> s,
                        guest |-> TRUE]
      OBVIOUS
    <2>2. j \in OrderJob /\ j.guest
      BY <2>1, GuestLinesAssumption DEF OrderJob
    <2>3. UNCHANGED cartVars /\ CartFits(j) /\ Begin(r, j)
      BY <1>2, <1>b, <2>1, <2>2 DEF GuestCheckout
    <2>4. QED BY <2>2, <2>3, CartQuiet DEF CartJobs
  <1>4. CASE InsertOrder(r)
    <2>1. /\ job[r] \in OrderJob /\ job[r] \in CartJobs /\ CartFits(job[r])
          /\ job[r].lines \in SUBSET Line /\ job[r].shop \in Shops /\ job[r].guest \in BOOLEAN
      BY <1>4, JobAt DEF InsertOrder, CartJobs, CartHeld, OrderJob
    <2>2. PICK row : row = NewOrder(job[r].lines, job[r].shop, job[r].guest)
      OBVIOUS
    <2>3. /\ row \in Order /\ row.lines = job[r].lines /\ row.status = "created"
          /\ row.shop = job[r].shop /\ row.guest = job[r].guest
      BY <2>1, <2>2 DEF NewOrder, Order, Metadata, OrderStatuses
    <2>4. PICK o \in Orders : order[o] = None /\ order' = [order EXCEPT ![o] = row]
      BY <1>4, <2>2 DEF InsertOrder
    <2>5. /\ UNCHANGED <<product, cart, item, peak>> /\ Continue(r, Done)
          /\ credits' = [credits EXCEPT ![o] = credits[o]]
      BY <1>4 DEF InsertOrder, Finish
    <2>6. row.guest \/ Sells(row.lines, row.shop)
      BY <1>b, <2>1, <2>3
    <2>7. credits[o] <= credits[o]
      BY <1>c
    <2>8. QED BY <1>a, <1>c, <2>1, <2>3, <2>4, <2>5, <2>6, <2>7, OrderWritten
  <1>5. ASSUME NEW o \in Orders, NEW stage \in Stages, UpdateOrderStatus(r, o, stage)
        PROVE  CartKept
    <2>1. PICK j : j = [op |-> "stage", at |-> "save", order |-> o, copy |-> order[o],
                        stage |-> stage]
      OBVIOUS
    <2>2. j \in StageJob /\ j.order = o /\ order[o] # None
      BY <1>5, <1>c, <2>1 DEF StageJob, UpdateOrderStatus
    <2>3. Begin(r, j) /\ UNCHANGED cartVars
      BY <1>5, <2>1 DEF UpdateOrderStatus
    <2>4. QED BY <1>b, <2>2, <2>3, CartQuiet DEF CartJobs
  <1>6. CASE SaveOrderStatus(r)
    <2>1. /\ job[r] \in StageJob /\ job[r] \in CartJobs /\ CartFits(job[r])
          /\ job[r].order \in Orders /\ job[r].copy \in Order /\ job[r].stage \in Stages
      BY <1>6, JobAt DEF SaveOrderStatus, CartJobs, CartHeld, StageJob
    <2>2. PICK o \in Orders : o = job[r].order
      BY <2>1
    <2>3. order[o] # None /\ order[o] \in Order
      BY <1>b, <1>c, <2>1, <2>2
    <2>4. PICK m \in Metadata :
             Saved(order[o], job[r].copy, [job[r].copy EXCEPT !.metadata.stage = job[r].stage]) =
                [lines |-> order[o].lines, shop |-> order[o].shop, guest |-> order[o].guest,
                 status |-> order[o].status, metadata |-> m]
      BY <2>1, <2>3, SavedStage
    <2>5. PICK row : row = [lines |-> order[o].lines, shop |-> order[o].shop,
                          guest |-> order[o].guest, status |-> order[o].status, metadata |-> m]
      OBVIOUS
    <2>6. /\ row \in Order /\ row.lines = order[o].lines /\ row.status = order[o].status
          /\ row.shop = order[o].shop /\ row.guest = order[o].guest
      BY <2>3, <2>5 DEF Order
    <2>7. /\ UNCHANGED <<product, cart, item, peak>> /\ Continue(r, Done)
          /\ order' = [order EXCEPT ![o] = row] /\ credits' = [credits EXCEPT ![o] = credits[o]]
      BY <1>6, <2>2, <2>4, <2>5 DEF SaveOrderStatus, SaveOrder, Finish
    <2>8. credits[o] <= credits[o] /\ row # None
      BY <1>c, <2>6, MissingRowsAssumption
    <2>9. /\ row.guest \/ Sells(row.lines, row.shop)
          /\ row.status = "completed" => credits[o] > 0
      BY <1>d, <2>3, <2>6
    <2>10. QED BY ONLY <1>a, <1>c, <2>1, <2>6, <2>7, <2>8, <2>9, OrderWritten, JobsOK, CartTypes,
              CartHeld, CartSound
  <1>7. ASSUME NEW o \in Orders, PaystackCharge(r, o) PROVE CartKept
    <2>1. PICK j \in PayJob \union {Done} : Begin(r, j) /\ CartFits(j)
      <3>1. order[o] # None /\ order[o] \in Order
        BY <1>7, <1>c DEF PaystackCharge
      <3>2. CASE Credited(order[o])
        BY <1>7, <1>a, <3>2 DEF PaystackCharge
      <3>3. CASE ~Credited(order[o])
        <4>1. PICK j : j = [op |-> "pay", at |-> "credit", order |-> o, copy |-> order[o]]
          OBVIOUS
        <4>2. j \in PayJob /\ j.order = o /\ j.at = "credit" /\ j.copy = order[o]
          BY <3>1, <4>1 DEF PayJob
        <4>3. order[o].status = "created"
          BY <3>1, <3>3 DEF Credited, Order
        <4>4. CartFits(j)
          BY <1>b, <3>1, <4>2, <4>3
        <4>5. QED BY <1>7, <3>3, <4>1, <4>2, <4>4 DEF PaystackCharge
      <3>4. QED BY <3>2, <3>3
    <2>2. UNCHANGED cartVars
      BY <1>7 DEF PaystackCharge
    <2>3. QED BY <2>1, <2>2, CartQuiet DEF CartJobs
  <1>8. CASE CreditOrder(r)
    <2>1. /\ job[r] \in PayJob /\ job[r] \in CartJobs /\ CartFits(job[r])
          /\ job[r].order \in Orders /\ job[r].copy \in Order
      BY <1>8, JobAt DEF CreditOrder, CartJobs, CartHeld, PayJob
    <2>2. PICK o \in Orders : o = job[r].order
      BY <2>1
    <2>3. PICK j : j = [job[r] EXCEPT !.at = "save"]
      OBVIOUS
    <2>4. j \in PayJob /\ j.order = o /\ j.copy = job[r].copy /\ j.at = "save"
      BY <2>1, <2>2, <2>3 DEF PayJob
    <2>5. PICK n \in Nat : n = credits[o] + 1 /\ credits[o] <= n /\ n > 0
      BY <1>c
    <2>6. /\ UNCHANGED <<product, cart, item, peak>> /\ Continue(r, j)
          /\ order' = [order EXCEPT ![o] = order[o]] /\ credits' = [credits EXCEPT ![o] = n]
      BY <1>8, <2>2, <2>3, <2>5 DEF CreditOrder
    <2>7. order[o] # None /\ order[o] \in Order /\ job[r].copy.status = "created"
      BY <1>b, <1>c, <2>1, <2>2
    <2>8. CartFits(j)'
      BY <1>b, <2>4, <2>5, <2>6, <2>7
    <2>9. j \in CartJobs
      BY <2>4 DEF CartJobs
    <2>10. QED BY <1>d, <2>1, <2>5, <2>6, <2>7, <2>8, <2>9, OrderWritten
  <1>9. CASE CompleteOrder(r)
    <2>1. /\ job[r] \in PayJob /\ job[r] \in CartJobs /\ CartFits(job[r]) /\ job[r].at = "save"
          /\ job[r].order \in Orders /\ job[r].copy \in Order
      BY <1>9, JobAt DEF CompleteOrder, CartJobs, CartHeld, PayJob
    <2>2. PICK o \in Orders : o = job[r].order
      BY <2>1
    <2>3. /\ order[o] # None /\ order[o] \in Order /\ job[r].copy.status = "created"
          /\ credits[o] > 0
      BY <1>b, <1>c, <2>1, <2>2
    <2>4. PICK m \in Metadata : Saved(order[o], job[r].copy, Paid(job[r].copy)) =
                [lines |-> order[o].lines, shop |-> order[o].shop, guest |-> order[o].guest,
                 status |-> "completed", metadata |-> m]
      BY <2>1, <2>3, SavedPaid
    <2>5. PICK row : row = [lines |-> order[o].lines, shop |-> order[o].shop,
                          guest |-> order[o].guest, status |-> "completed", metadata |-> m]
      OBVIOUS
    <2>6. /\ row \in Order /\ row.lines = order[o].lines /\ row.shop = order[o].shop
          /\ row.guest = order[o].guest
      BY <2>3, <2>5 DEF Order
    <2>7. /\ UNCHANGED <<product, cart, item, peak>> /\ Continue(r, Done)
          /\ order' = [order EXCEPT ![o] = row] /\ credits' = [credits EXCEPT ![o] = credits[o]]
      BY <1>9, <2>2, <2>4, <2>5 DEF CompleteOrder, SaveOrder, Finish
    <2>8. credits[o] <= credits[o] /\ row # None
      BY <1>c, <2>6, MissingRowsAssumption
    <2>9. /\ row.guest \/ Sells(row.lines, row.shop)
          /\ row.status = "completed" => credits[o] > 0
      BY <1>d, <2>3, <2>6
    <2>10. QED BY ONLY <1>a, <1>c, <2>1, <2>6, <2>7, <2>8, <2>9, OrderWritten, JobsOK, CartTypes,
              CartHeld, CartSound
  <1>10. Users \subseteq Owners
    BY DEF Owners
  <1>11. QED BY <1>10, <1>1, <1>2, <1>4, <1>5, <1>6, <1>7, <1>8, <1>9

LEMMA ProductStep ==
    ASSUME JobsOK, CartTypes, CartHeld, CartSound, NEW r \in Requests,
           \/ \E s \in Shops, n \in Stocks, limit \in 0..MaxProducts : CreateProduct(r, s, n, limit)
           \/ \E p \in Products, new \in Product : UpdateProduct(r, p, new)
           \/ \E p \in Products : DestroyProduct(r, p)
           \/ InsertProduct(r) \/ SaveProduct(r)
    PROVE  CartKept
  <1>a. \A n \in Stocks : n \in Nat
    BY QuantitiesAssumption
  <1>b. \A p \in Products : /\ peak[p] \in Nat
                            /\ product[p] # None => /\ product[p] \in Product
                                                    /\ product[p].stock <= peak[p]
    BY DEF CartTypes, CartSound
  <1>c. CartFits(Done) /\ \A j \in ProductJob : CartFits(j)
    BY CartFitsNone
  <1>d. \A j \in StockJob : (CartFits(j) <=> product[j.product] # None)
    BY DEF CartFits, AddJob, CartJob, ItemJob, WriteJob, ClearJob, OrderJob, StageJob, PayJob,
          StockJob
  <1>1. ASSUME NEW s \in Shops, NEW n \in Stocks, NEW limit \in 0..MaxProducts,
               CreateProduct(r, s, n, limit)
        PROVE  CartKept
    <2>1. [op |-> "product", at |-> "insert", shop |-> s, stock |-> n] \in ProductJob
      BY DEF ProductJob
    <2>2. PICK j \in ProductJob \union {Done} : Begin(r, j)
      BY <1>1, <2>1 DEF CreateProduct
    <2>3. QED BY <1>1, <1>c, <2>2, CartQuiet DEF CreateProduct, CartJobs
  <1>2. CASE InsertProduct(r)
    <2>1. job[r] \in ProductJob /\ job[r] \in CartJobs /\ job[r].stock \in Stocks
      BY <1>2, JobAt DEF InsertProduct, CartJobs, ProductJob
    <2>2. PICK row : row = [stock |-> job[r].stock, active |-> TRUE]
      OBVIOUS
    <2>3. row \in Product /\ row.stock = job[r].stock /\ row.stock <= row.stock /\ row.stock \in Nat
      BY <1>a, <2>1, <2>2 DEF Product
    <2>4. PICK p \in Products : /\ product[p] = None /\ product' = [product EXCEPT ![p] = row]
                                /\ peak' = [peak EXCEPT ![p] = row.stock]
      BY <1>2, <2>2, <2>3 DEF InsertProduct
    <2>5. UNCHANGED <<cart, item, order, credits>> /\ Continue(r, Done)
      BY <1>2 DEF InsertProduct, Finish
    <2>6. QED BY <2>1, <2>3, <2>4, <2>5, ProductWritten
  <1>3. ASSUME NEW p \in Products, NEW new \in Product, UpdateProduct(r, p, new) PROVE CartKept
    <2>1. PICK j : j = [op |-> "product", at |-> "save", product |-> p, copy |-> product[p],
                        new |-> new]
      OBVIOUS
    <2>2. j \in StockJob /\ j.product = p /\ product[p] # None
      BY <1>3, <1>b, <2>1 DEF UpdateProduct, StockJob
    <2>3. Begin(r, j) /\ UNCHANGED cartVars /\ CartFits(j)
      BY <1>3, <1>d, <2>1, <2>2 DEF UpdateProduct
    <2>4. QED BY <2>2, <2>3, CartQuiet DEF CartJobs
  <1>4. ASSUME NEW p \in Products, DestroyProduct(r, p) PROVE CartKept
    <2>1. PICK new \in Product : new = [product[p] EXCEPT !.active = FALSE]
      BY <1>4, <1>b DEF DestroyProduct, Product
    <2>2. QED BY <1>3, <1>4, <2>1 DEF DestroyProduct
  <1>5. CASE SaveProduct(r)
    <2>1. /\ job[r] \in StockJob /\ job[r] \in CartJobs /\ CartFits(job[r])
      BY <1>5, JobAt DEF SaveProduct, CartJobs, CartHeld
    <2>2. PICK p \in Products : p = job[r].product /\ product[p] # None
      BY <1>d, <2>1, CartJobKinds
    <2>3. PICK row : row = Saved(product[p], job[r].copy, job[r].new)
      OBVIOUS
    <2>4. row \in Product /\ row.stock \in Nat
      <3>1. product[p] \in Product /\ job[r].copy \in Product /\ job[r].new \in Product
        BY <1>b, <2>1, <2>2, CartJobKinds
      <3>2. row \in Product
        BY <2>3, <3>1 DEF Saved, Product
      <3>3. QED BY <1>a, <3>2 DEF Product
    <2>5. product' = [product EXCEPT ![p] = row] /\ product'[p] = row
      BY <1>5, <2>2, <2>3 DEF SaveProduct, CartTypes
    <2>6. PICK m \in Nat : /\ m = (IF row.stock > peak[p] THEN row.stock ELSE peak[p])
                           /\ row.stock <= m /\ peak[p] <= m
      BY <1>b, <2>4
    <2>7. /\ UNCHANGED <<cart, item, order, credits>> /\ Continue(r, Done)
          /\ peak' = [peak EXCEPT ![p] = m]
      BY <1>5, <2>2, <2>5, <2>6 DEF SaveProduct, Finish
    <2>8. QED BY <2>1, <2>4, <2>5, <2>6, <2>7, ProductWritten
  <1>6. QED BY <1>1, <1>2, <1>3, <1>4, <1>5

LEMMA CartStep ==
    ASSUME JobsOK, CartTypes, CartHeld, CartSound, CartNext
    PROVE  CartKept
  <1>1. ASSUME NEW r \in Requests, NEW o \in Owners, NEW k \in CartsOf(o), NEW x \in ItemsOf(k),
               \/ RemoveItem(r, x) \/ GuestRemoveItem(r, x)
               \/ \E q \in Quantities : UpdateItem(r, x, q) \/ GuestUpdateItem(r, x, q)
        PROVE  CartKept
    BY <1>1, ItemStep DEF CartsOf, GuestRemoveItem, GuestUpdateItem
  <1>2. ASSUME NEW r \in Requests, NEW o \in Owners, NEW k \in CartsOf(o),
               ClearCart(r, k) \/ GuestClear(r, k)
        PROVE  CartKept
    BY <1>2, ItemStep DEF CartsOf, GuestClear
  <1>3. ASSUME NEW r \in Requests, NEW o \in Owners, NEW p \in Products, NEW q \in Quantities,
               AddItem(r, o, p, q) \/ GuestAddItem(r, o, p, q)
        PROVE  CartKept
    BY <1>3, AddItemStep DEF GuestAddItem, Owners
  <1>4. Users \subseteq Owners /\ Guests \subseteq Owners
    BY DEF Owners
  <1>5. QED
    BY <1>1, <1>2, <1>3, <1>4, AddItemStep, ItemStep, OrderStep, ProductStep DEF CartNext

-----------------------------------------------------------------------------
(* The shop builder: shops, conversations and deposits are not deleted, a  *)
(* shop once paid for stays so, and what is said was paid for.             *)

(* How a shop may have been paid for. *)
PaidFor(s) ==
    \/ \E d \in Deposits : deposit[d] # Null /\ deposit[d].shop = s /\ credited[d] > 0
    \/ tagged[s] \intersect bought # {}

BuilderFits(j) ==
    /\ j \in ThemeJob \union AskJob \union ReplyJob \union ApplyJob \union ReferJob =>
        shop[j.shop] # Null
    /\ j \in BoughtJob => j.reference \in bought
    /\ j \in AskJob \union ReplyJob => Allowed(j.shop)
    /\ j \in ReplyJob \union ResetJob => talk[j.shop] # Null
    /\ j \in ConvertJob =>
        deposit[j.deposit] # Null /\ (j.at = "unlock" => credited[j.deposit] > 0)

BuilderHeld == \A r \in Requests : BuilderFits(job[r])

BuilderSound ==
    /\ AssistantWasPaid
    /\ \A s \in Sites : shop[s] # Null => shop[s].reference \in tagged[s] \union {Null}
    /\ \A d \in Deposits : deposit[d] # Null => shop[deposit[d].shop] # Null
    /\ \A s \in Sites : said[s] # {} => shop[s] # Null /\ talk[s] # Null
    /\ \A s \in Sites : talk[s] # Null => Len(talk[s].messages) <= BufferSize

BuilderGrows ==
    /\ \A s \in Sites : shop[s] # Null =>
        /\ shop'[s] # Null /\ shop'[s].custom = shop[s].custom
        /\ shop[s].paid => shop'[s].paid
        /\ tagged[s] \subseteq tagged'[s]
    /\ bought \subseteq bought'
    /\ \A s \in Sites : talk[s] # Null => talk'[s] # Null
    /\ \A d \in Deposits : /\ deposit[d] # Null =>
                                deposit'[d] # Null /\ deposit'[d].shop = deposit[d].shop
                           /\ credited[d] <= credited'[d]

LEMMA BuilderJobKinds ==
    /\ \A j \in ThemeJob : j.op = "shop" /\ j.shop \in Sites /\ j.copy \in ShopRow
    /\ \A j \in AskJob : j.op = "chat" /\ j.at = "ask" /\ j.shop \in Sites
    /\ \A j \in ReplyJob : j.op = "chat" /\ j.at = "reply" /\ j.shop \in Sites /\ j.copy \in Talk
    /\ \A j \in ApplyJob : j.op = "chat" /\ j.at = "apply" /\ j.shop \in Sites
    /\ \A j \in ResetJob : j.op = "reset" /\ j.shop \in Sites /\ j.copy \in Talk
    /\ \A j \in ConvertJob : j.op = "convert" /\ j.deposit \in Deposits
    /\ \A j \in ReferJob : j.op = "refer" /\ j.shop \in Sites /\ j.deposit \in Deposits
    /\ \A j \in BoughtJob : j.op = "bought" /\ j.reference \in Payable
    /\ \A j \in DefaultJob \union DeliveryJob : j.op = "delivery" /\ j.shop \in Sites
    /\ \A j \in CreateJob : j.op = "create"
    /\ \A j \in GatewayJob : j.op = "gateway"
    /\ \A j \in ListJob : j.op = "list"
  BY DEF ThemeJob, AskJob, ReplyJob, ApplyJob, ResetJob, ConvertJob, ReferJob, BoughtJob,
        DefaultJob, DeliveryJob, CreateJob, GatewayJob, ListJob

LEMMA BuilderFitsNone ==
    ASSUME NEW j \in {Waiting, Done} \union CreateJob \union GatewayJob \union ListJob
                     \union DefaultJob \union DeliveryJob
    PROVE  BuilderFits(j) /\ BuilderFits(j)'
  <1>1. j \notin ThemeJob \union AskJob \union ReplyJob \union ApplyJob \union ResetJob
            \union ConvertJob \union ReferJob \union BoughtJob
    BY JobOps, BuilderJobKinds
  <1>2. QED BY <1>1 DEF BuilderFits

LEMMA BuilderFitsKept ==
    ASSUME BuilderTypes, BuilderTypes', BuilderGrows, NEW j, BuilderFits(j)
    PROVE  BuilderFits(j)'
  <1> USE BuilderJobKinds
  <1>1. \A d \in Deposits : credited[d] \in Nat /\ credited'[d] \in Nat
    BY DEF BuilderTypes
  <1>2. ASSUME j \in ThemeJob \union AskJob \union ReplyJob \union ApplyJob \union ReferJob
        PROVE  shop'[j.shop] # Null
    BY <1>2 DEF BuilderFits, BuilderGrows
  <1>3. ASSUME j \in AskJob \union ReplyJob PROVE Allowed(j.shop)'
    BY <1>3 DEF BuilderFits, BuilderGrows, Allowed
  <1>4. ASSUME j \in ReplyJob \union ResetJob PROVE talk'[j.shop] # Null
    BY <1>4 DEF BuilderFits, BuilderGrows
  <1>5. ASSUME j \in ConvertJob
        PROVE  deposit'[j.deposit] # Null /\ (j.at = "unlock" => credited'[j.deposit] > 0)
    BY <1>1, <1>5 DEF BuilderFits, BuilderGrows
  <1>6. j \in BoughtJob => j.reference \in bought'
    BY DEF BuilderFits, BuilderGrows
  <1>7. QED BY <1>2, <1>3, <1>4, <1>5, <1>6 DEF BuilderFits

LEMMA BuilderHeldKept ==
    ASSUME JobsOK, BuilderTypes, BuilderTypes', BuilderGrows, BuilderHeld,
           NEW r \in Requests, NEW j, job' = [job EXCEPT ![r] = j], BuilderFits(j)'
    PROVE  BuilderHeld'
  <1>1. ASSUME NEW q \in Requests PROVE BuilderFits(job[q])'
    <2>1. CASE q = r
      BY <2>1 DEF JobsOK
    <2>2. CASE q # r
      <3>1. PICK i : i = job[q]
        OBVIOUS
      <3>2. BuilderFits(i)'
        BY <3>1, BuilderFitsKept DEF BuilderHeld
      <3>3. job'[q] = i
        BY <2>2, <3>1 DEF JobsOK
      <3>4. QED BY <3>2, <3>3
    <2>3. QED BY <2>1, <2>2
  <1>2. QED BY <1>1 DEF BuilderHeld

(* What a save writes over the row. *)
LEMMA SavedShop ==
    ASSUME NEW row \in ShopRow, NEW copy \in ShopRow,
           NEW theme \in {"none", "preset", "merchant", "assistant"}
    PROVE  /\ Saved(row, copy, [copy EXCEPT !.theme = theme]) \in ShopRow
           /\ Saved(row, copy, [copy EXCEPT !.theme = theme]).custom = row.custom
           /\ Saved(row, copy, [copy EXCEPT !.theme = theme]).paid = row.paid
           /\ Saved(row, copy, [copy EXCEPT !.theme = theme]).reference = row.reference
  BY DEF Saved, ShopRow

LEMMA SavedTalk ==
    ASSUME NEW row \in Talk, NEW copy \in Talk, NEW new \in Talk
    PROVE  /\ Saved(row, copy, new) \in Talk
           /\ Saved(row, copy, new).messages \in {row.messages, new.messages}
           /\ copy = row => Saved(row, copy, new) = new
  BY DEF Saved, Talk

LEMMA SavedDelivery ==
    ASSUME NEW row \in Delivery, NEW copy \in Delivery, NEW new \in Delivery
    PROVE  /\ Saved(row, copy, new) \in Delivery
           /\ copy = row => Saved(row, copy, new) = new
  BY DEF Saved, Delivery

(* What is kept of a conversation: as much as the buffer holds. *)
LEMMA KeptFits ==
    ASSUME NEW q \in Seq(Requests)
    PROVE  Kept(q) \in Seq(Requests) /\ Len(Kept(q)) <= BufferSize
  <1>1. Len(q) \in Nat /\ BufferSize \in Nat \ {0}
    BY BufferSizeAssumption
  <1>2. CASE Len(q) > BufferSize
    <2>1. PICK m \in 1..Len(q) : m = Len(q) - BufferSize + 1
      BY <1>1, <1>2
    <2>2. SubSeq(q, m, Len(q)) \in Seq(Requests)
      BY <1>1, <2>1
    <2>3. Len(SubSeq(q, m, Len(q))) = BufferSize
      BY <1>1, <2>1
    <2>4. QED BY <1>1, <1>2, <2>1, <2>2, <2>3 DEF Kept
  <1>3. CASE ~(Len(q) > BufferSize)
    BY <1>1, <1>3 DEF Kept
  <1>4. QED BY <1>2, <1>3

LEMMA KeptMembers ==
    ASSUME NEW q \in Seq(Requests)
    PROVE  Members(Kept(q)) \subseteq Members(q) /\ Members(q) \subseteq Requests
  <1>1. Len(q) \in Nat /\ BufferSize \in Nat \ {0}
    BY BufferSizeAssumption
  <1>2. CASE Len(q) > BufferSize
    <2>1. PICK m \in 1..Len(q) : m = Len(q) - BufferSize + 1
      BY <1>1, <1>2
    <2>2. PICK s : s = SubSeq(q, m, Len(q))
      OBVIOUS
    <2>3. Len(s) = Len(q) - m + 1 /\ \A i \in 1..Len(s) : s[i] = q[m + i - 1]
      BY <1>1, <2>1, <2>2
    <2>4. ASSUME NEW i \in 1..Len(s) PROVE s[i] \in Members(q)
      <3>1. m + i - 1 \in 1..Len(q)
        BY <1>1, <2>1, <2>3
      <3>2. QED BY <2>3, <3>1 DEF Members
    <2>5. Members(s) \subseteq Members(q)
      BY <2>4 DEF Members
    <2>6. QED BY <1>2, <2>1, <2>2, <2>5 DEF Kept, Members
  <1>3. CASE ~(Len(q) > BufferSize)
    BY <1>3 DEF Kept, Members
  <1>4. QED BY <1>2, <1>3

LEMMA AppendMembers ==
    ASSUME NEW q \in Seq(Requests), NEW r \in Requests
    PROVE  Append(q, r) \in Seq(Requests) /\ Members(Append(q, r)) = Members(q) \union {r}
  <1>1. PICK s \in Seq(Requests) : s = Append(q, r)
    BY AppendProperties
  <1>2. Len(s) = Len(q) + 1 /\ s[Len(q) + 1] = r /\ \A i \in 1..Len(q) : s[i] = q[i]
    BY <1>1, AppendProperties
  <1>3. Len(q) \in Nat /\ \A i \in 1..Len(s) : i \in 1..Len(q) \/ i = Len(q) + 1
    BY <1>2
  <1>4. ASSUME NEW x \in Members(s) PROVE x \in Members(q) \union {r}
    BY <1>2, <1>3 DEF Members
  <1>5. ASSUME NEW x \in Members(q) \union {r} PROVE x \in Members(s)
    <2>1. CASE x = r
      <3>1. Len(q) + 1 \in 1..Len(s)
        BY <1>2, <1>3
      <3>2. QED BY <1>2, <2>1, <3>1 DEF Members
    <2>2. ASSUME NEW i \in 1..Len(q), x = q[i] PROVE x \in Members(s)
      <3>1. i \in 1..Len(s) /\ s[i] = x
        BY <1>2, <1>3, <2>2
      <3>2. QED BY <3>1 DEF Members
    <2>3. QED BY <2>1, <2>2 DEF Members
  <1>6. QED BY <1>1, <1>4, <1>5

(* What a step of a builder's handler must do. *)
BuilderKept ==
    /\ Moves(BuilderJobs) /\ BuilderTypes' /\ BuilderHeld' /\ BuilderSound' /\ BuilderGrows

LEMMA BuilderGoesOn ==
    ASSUME JobsOK, BuilderTypes, BuilderTypes', BuilderHeld, BuilderGrows, BuilderSound',
           NEW r \in Requests, NEW j, BuilderFits(j)', Moves(BuilderJobs),
           job' = [job EXCEPT ![r] = j]
    PROVE  BuilderKept
  BY BuilderHeldKept DEF BuilderKept

LEMMA BuilderMoves ==
    ASSUME NEW r \in Requests, NEW j \in BuilderJobs \union {Done},
           Begin(r, j) \/ (job[r] \in BuilderJobs /\ Continue(r, j))
    PROVE  Moves(BuilderJobs) /\ job' = [job EXCEPT ![r] = j]
  BY BeginMoves, ContinueMoves

(* A step that writes no shop, conversation or deposit. *)
LEMMA SideWritten ==
    ASSUME JobsOK, BuilderTypes, BuilderHeld, BuilderSound, NEW r \in Requests,
           NEW j, BuilderFits(j), Moves(BuilderJobs), job' = [job EXCEPT ![r] = j],
           UNCHANGED <<shop, talk, said, deposit, credited, bought, tagged>>,
           gateways' \in Nat, delivery' \in [Sites -> SUBSET Delivery]
    PROVE  BuilderKept
  <1>1. BuilderTypes'
    BY DEF BuilderTypes
  <1>2. BuilderGrows
    <2>1. \A d \in Deposits : credited[d] \in Nat
      BY DEF BuilderTypes
    <2>2. QED BY <2>1 DEF BuilderGrows
  <1>3. BuilderSound'
    BY DEF BuilderSound, AssistantWasPaid
  <1>4. BuilderFits(j)'
    BY <1>1, <1>2, BuilderFitsKept
  <1>5. QED BY <1>1, <1>2, <1>3, <1>4, BuilderGoesOn

LEMMA BuilderQuiet ==
    ASSUME JobsOK, BuilderTypes, BuilderHeld, BuilderSound, NEW r \in Requests,
           NEW j \in BuilderJobs \union {Done}, BuilderFits(j), UNCHANGED builderVars,
           Begin(r, j) \/ (job[r] \in BuilderJobs /\ Continue(r, j))
    PROVE  BuilderKept
  <1>1. gateways' \in Nat /\ delivery' \in [Sites -> SUBSET Delivery]
    BY DEF BuilderTypes, builderVars
  <1>2. QED BY <1>1, BuilderMoves, SideWritten DEF builderVars

(* A step that writes one shop, and may refer it to a payment. *)
LEMMA ShopReferred ==
    ASSUME JobsOK, BuilderTypes, BuilderHeld, BuilderSound, NEW r \in Requests,
           NEW j, BuilderFits(j)', Moves(BuilderJobs), job' = [job EXCEPT ![r] = j],
           UNCHANGED <<gateways, talk, said, deposit, credited, bought, delivery>>,
           NEW s \in Sites, NEW row \in ShopRow, shop' = [shop EXCEPT ![s] = row],
           NEW T \in SUBSET Payable, tagged' = [tagged EXCEPT ![s] = T],
           row.reference \in T \union {Null},
           shop[s] # Null => /\ row.custom = shop[s].custom
                             /\ shop[s].paid => row.paid
                             /\ tagged[s] \subseteq T,
           row.paid => shop[s] # Null /\ PaidFor(s)
    PROVE  BuilderKept
  <1>1. BuilderTypes'
    BY DEF BuilderTypes
  <1>2. /\ \A d \in Deposits : credited[d] \in Nat
        /\ shop'[s] = row /\ row # Null /\ \A z \in Sites \ {s} : shop'[z] = shop[z]
        /\ tagged'[s] = T /\ \A z \in Sites \ {s} : tagged'[z] = tagged[z]
    BY MissingShopAssumption DEF BuilderTypes
  <1>3. BuilderGrows
    BY <1>2 DEF BuilderGrows
  <1>4. BuilderSound'
    <2>1. ASSUME NEW z \in Sites, shop'[z] # Null
          PROVE  /\ shop'[z].paid =>
                        \/ \E d \in Deposits :
                            deposit'[d] # Null /\ deposit'[d].shop = z /\ credited'[d] > 0
                        \/ tagged'[z] \intersect bought' # {}
                 /\ shop'[z].custom /\ said'[z] # {} => shop'[z].paid
                 /\ shop'[z].reference \in tagged'[z] \union {Null}
      <3>1. CASE z = s
        BY <1>2, <3>1 DEF BuilderSound, AssistantWasPaid, PaidFor
      <3>2. CASE z # s
        BY <1>2, <2>1, <3>2 DEF BuilderSound, AssistantWasPaid
      <3>3. QED BY <3>1, <3>2
    <2>2. AssistantWasPaid'
      BY <2>1 DEF AssistantWasPaid
    <2>3. \A d \in Deposits : deposit'[d] # Null => shop'[deposit'[d].shop] # Null
      BY <1>2 DEF BuilderSound, BuilderTypes, Deposit
    <2>4. \A z \in Sites : said'[z] # {} => shop'[z] # Null /\ talk'[z] # Null
      BY <1>2 DEF BuilderSound
    <2>5. QED BY <2>1, <2>2, <2>3, <2>4 DEF BuilderSound
  <1>5. QED BY <1>1, <1>3, <1>4, BuilderGoesOn

(* A step that writes one shop and leaves its reference. *)
LEMMA ShopWritten ==
    ASSUME JobsOK, BuilderTypes, BuilderHeld, BuilderSound, NEW r \in Requests,
           NEW j, BuilderFits(j)', Moves(BuilderJobs), job' = [job EXCEPT ![r] = j],
           UNCHANGED <<gateways, talk, said, deposit, credited, bought, tagged, delivery>>,
           NEW s \in Sites, NEW row \in ShopRow, shop' = [shop EXCEPT ![s] = row],
           shop[s] # Null, row.custom = shop[s].custom, row.reference = shop[s].reference,
           shop[s].paid => row.paid, row.paid => PaidFor(s)
    PROVE  BuilderKept
  <1>1. PICK T \in SUBSET Payable : T = tagged[s] /\ tagged' = [tagged EXCEPT ![s] = T]
    BY DEF BuilderTypes
  <1>2. row.reference \in T \union {Null}
    BY <1>1 DEF BuilderSound
  <1>3. QED BY <1>1, <1>2, ShopReferred

(* A step that writes the conversation of one shop. *)
LEMMA TalkWritten ==
    ASSUME JobsOK, BuilderTypes, BuilderHeld, BuilderSound, NEW r \in Requests,
           NEW j, BuilderFits(j)', Moves(BuilderJobs), job' = [job EXCEPT ![r] = j],
           UNCHANGED <<shop, gateways, deposit, credited, bought, tagged, delivery>>,
           NEW s \in Sites, NEW row \in Talk, talk' = [talk EXCEPT ![s] = row],
           Len(row.messages) <= BufferSize, NEW S \in SUBSET Requests,
           said' = [said EXCEPT ![s] = S],
           S # {} => shop[s] # Null /\ Allowed(s)
    PROVE  BuilderKept
  <1>1. BuilderTypes'
    BY DEF BuilderTypes, Talk
  <1>2. /\ \A d \in Deposits : credited[d] \in Nat
        /\ talk'[s] = row /\ row # Null /\ \A z \in Sites \ {s} : talk'[z] = talk[z]
        /\ said'[s] = S /\ \A z \in Sites \ {s} : said'[z] = said[z]
    BY MissingShopAssumption DEF BuilderTypes
  <1>3. BuilderGrows
    BY <1>2 DEF BuilderGrows
  <1>4. BuilderSound'
    <2>1. AssistantWasPaid'
      BY <1>2 DEF BuilderSound, AssistantWasPaid, Allowed
    <2>2. \A z \in Sites : said'[z] # {} => shop'[z] # Null /\ talk'[z] # Null
      BY <1>2 DEF BuilderSound
    <2>3. /\ \A z \in Sites : talk'[z] # Null => Len(talk'[z].messages) <= BufferSize
          /\ \A z \in Sites : shop'[z] # Null => shop'[z].reference \in tagged'[z] \union {Null}
      BY <1>2 DEF BuilderSound
    <2>4. QED BY <2>1, <2>2, <2>3 DEF BuilderSound
  <1>5. QED BY <1>1, <1>3, <1>4, BuilderGoesOn

(* A step that writes one deposit. *)
LEMMA DepositWritten ==
    ASSUME JobsOK, BuilderTypes, BuilderHeld, BuilderSound, NEW r \in Requests,
           NEW j, BuilderFits(j)', Moves(BuilderJobs), job' = [job EXCEPT ![r] = j],
           UNCHANGED <<shop, gateways, talk, said, bought, tagged, delivery>>,
           NEW d \in Deposits, NEW row \in Deposit, deposit' = [deposit EXCEPT ![d] = row],
           deposit[d] # Null => row.shop = deposit[d].shop, shop[row.shop] # Null,
           NEW n \in Nat, credited' = [credited EXCEPT ![d] = n], credited[d] <= n
    PROVE  BuilderKept
  <1>1. BuilderTypes'
    BY DEF BuilderTypes
  <1>2. /\ \A e \in Deposits : credited[e] \in Nat /\ credited[e] <= credited'[e]
        /\ \A e \in Deposits : credited'[e] \in Nat
        /\ deposit'[d] = row /\ row # Null /\ \A e \in Deposits \ {d} : deposit'[e] = deposit[e]
    BY MissingShopAssumption DEF BuilderTypes
  <1>3. BuilderGrows
    BY <1>2 DEF BuilderGrows
  <1>4. BuilderSound'
    <2>1. ASSUME NEW s \in Sites, shop'[s] # Null, shop'[s].paid
          PROVE  \/ \E e \in Deposits :
                        deposit'[e] # Null /\ deposit'[e].shop = s /\ credited'[e] > 0
                 \/ tagged'[s] \intersect bought' # {}
      <3>1. CASE \E e \in Deposits : deposit[e] # Null /\ deposit[e].shop = s /\ credited[e] > 0
        <4>1. PICK e \in Deposits : deposit[e] # Null /\ deposit[e].shop = s /\ credited[e] > 0
          BY <3>1
        <4>2. deposit'[e] # Null /\ deposit'[e].shop = s /\ credited'[e] > 0
          BY <1>2, <1>3, <4>1 DEF BuilderGrows
        <4>3. QED BY <4>2
      <3>2. QED BY <2>1, <3>1 DEF BuilderSound, AssistantWasPaid
    <2>2. AssistantWasPaid'
      BY <2>1 DEF BuilderSound, AssistantWasPaid
    <2>3. \A e \in Deposits : deposit'[e] # Null => shop'[deposit'[e].shop] # Null
      BY <1>2 DEF BuilderSound
    <2>4. QED BY <2>2, <2>3 DEF BuilderSound
  <1>5. QED BY <1>1, <1>3, <1>4, BuilderGoesOn

(* What the handlers' jobs must fit, of each kind. *)
LEMMA BuilderFitsOf ==
    /\ \A j \in ThemeJob \union ApplyJob \union ReferJob :
            (BuilderFits(j) <=> shop[j.shop] # Null)
    /\ \A j \in BoughtJob : (BuilderFits(j) <=> j.reference \in bought)
    /\ \A j \in AskJob : (BuilderFits(j) <=> shop[j.shop] # Null /\ Allowed(j.shop))
    /\ \A j \in ReplyJob : (BuilderFits(j) <=>
            shop[j.shop] # Null /\ Allowed(j.shop) /\ talk[j.shop] # Null)
    /\ \A j \in ResetJob : (BuilderFits(j) <=> talk[j.shop] # Null)
    /\ \A j \in ConvertJob : (BuilderFits(j) <=>
            deposit[j.deposit] # Null /\ (j.at = "unlock" => credited[j.deposit] > 0))
  BY DEF BuilderFits, ThemeJob, AskJob, ReplyJob, ApplyJob, ResetJob, ConvertJob, ReferJob,
        BoughtJob

LEMMA BuilderFitsThen ==
    /\ \A j \in ThemeJob \union ApplyJob \union ReferJob :
            (BuilderFits(j)' <=> shop'[j.shop] # Null)
    /\ \A j \in BoughtJob : (BuilderFits(j)' <=> j.reference \in bought')
    /\ \A j \in ReplyJob : (BuilderFits(j)' <=>
            shop'[j.shop] # Null /\ Allowed(j.shop)' /\ talk'[j.shop] # Null)
    /\ \A j \in ConvertJob : (BuilderFits(j)' <=>
            deposit'[j.deposit] # Null /\ (j.at = "unlock" => credited'[j.deposit] > 0))
  BY DEF BuilderFits, ThemeJob, AskJob, ReplyJob, ApplyJob, ResetJob, ConvertJob, ReferJob,
        BoughtJob

LEMMA SiteStep ==
    ASSUME JobsOK, BuilderTypes, BuilderHeld, BuilderSound, NEW r \in Requests,
           \/ \E sub \in Subdomains, custom \in BOOLEAN, x \in References \union {Null} :
                CreateShop(r, sub, custom, x)
           \/ \E s \in Sites : UpdateShop(r, s) \/ ShowShop(r, s)
           \/ ListShops(r) \/ \E s \in Sites : FindListed(r, s) \/ InsertListed(r, s)
           \/ InsertShop(r) \/ SaveTheme(r) \/ FindGateway(r) \/ InsertGateway(r)
    PROVE  BuilderKept
  <1> USE DEF BuilderTypes
  <1>a. Done \in BuilderJobs \union {Done} /\ BuilderFits(Done) /\ BuilderFits(Done)'
    BY BuilderFitsNone
  <1>b. \A j \in CreateJob \union GatewayJob \union ListJob :
            j \in BuilderJobs /\ BuilderFits(j) /\ BuilderFits(j)'
    BY BuilderFitsNone DEF BuilderJobs
  <1>c. \A s \in Sites : shop[s] # Null => shop[s] \in ShopRow
    OBVIOUS
  <1>1. ASSUME NEW sub \in Subdomains, NEW custom \in BOOLEAN,
               NEW x \in References \union {Null}, CreateShop(r, sub, custom, x)
        PROVE  BuilderKept
    <2>1. [op |-> "create", at |-> "insert", subdomain |-> sub, custom |-> custom,
           reference |-> x] \in CreateJob
      BY DEF CreateJob, Payable
    <2>2. PICK j \in CreateJob \union {Done} : Begin(r, j)
      BY <1>1, <2>1 DEF CreateShop
    <2>3. QED BY <1>1, <1>a, <1>b, <2>2, BuilderQuiet DEF CreateShop
  <1>2. CASE InsertShop(r)
    <2>1. /\ job[r] \in CreateJob /\ job[r] \in BuilderJobs
          /\ job[r].subdomain \in Subdomains /\ job[r].custom \in BOOLEAN
          /\ job[r].reference \in Payable \union {Null}
          /\ UNCHANGED <<gateways, talk, said, deposit, credited, bought, delivery>>
      BY <1>2, JobAt DEF InsertShop, BuilderJobs, CreateJob
    <2>2. CASE Finish(r) /\ UNCHANGED <<shop, tagged>>
      BY <1>a, <2>1, <2>2, BuilderQuiet DEF Finish, builderVars
    <2>3. ASSUME NEW s \in Sites, shop[s] = Null,
                 shop' = [shop EXCEPT ![s] = [subdomain |-> job[r].subdomain,
                            custom |-> job[r].custom, paid |-> FALSE,
                            reference |-> job[r].reference, theme |-> "none"]],
                 tagged' = [tagged EXCEPT ![s] = {job[r].reference} \ {Null}],
                 Continue(r, [op |-> "shop", at |-> "save", shop |-> s, copy |-> shop'[s],
                              theme |-> "preset"])
          PROVE  BuilderKept
      <3>1. PICK row : row = [subdomain |-> job[r].subdomain, custom |-> job[r].custom,
                              paid |-> FALSE, reference |-> job[r].reference,
                              theme |-> "none"]
        OBVIOUS
      <3>a. row \in ShopRow /\ row.paid = FALSE /\ row.reference = job[r].reference
        BY <2>1, <3>1 DEF ShopRow
      <3>b. shop' = [shop EXCEPT ![s] = row]
        BY <2>3, <3>1
      <3>2. row \in ShopRow /\ row.paid = FALSE /\ shop' = [shop EXCEPT ![s] = row]
            /\ shop'[s] = row /\ row # Null
        BY <3>a, <3>b, MissingShopAssumption
      <3>3. PICK j : j = [op |-> "shop", at |-> "save", shop |-> s, copy |-> row,
                          theme |-> "preset"]
        OBVIOUS
      <3>4. j \in ThemeJob /\ j \in BuilderJobs /\ j.shop = s /\ Continue(r, j)
        BY <2>3, <3>2, <3>3 DEF ThemeJob, BuilderJobs
      <3>5. BuilderFits(j)'
        BY <3>2, <3>4, BuilderFitsThen
      <3>6. Moves(BuilderJobs) /\ job' = [job EXCEPT ![r] = j]
        BY <2>1, <3>4, BuilderMoves
      <3>7. PICK T \in SUBSET Payable : T = {job[r].reference} \ {Null}
        BY <2>1
      <3>8. row.reference \in T \union {Null} /\ tagged' = [tagged EXCEPT ![s] = T]
        BY <2>3, <3>a, <3>7
      <3>9. /\ row.paid => shop[s] # Null /\ PaidFor(s)
            /\ shop[s] # Null => /\ row.custom = shop[s].custom
                                 /\ shop[s].paid => row.paid
                                 /\ tagged[s] \subseteq T
        BY <2>3, <3>2
      <3>10. QED BY <2>1, <3>2, <3>5, <3>6, <3>8, <3>9, ShopReferred
    <2>4. QED BY <1>2, <2>2, <2>3 DEF InsertShop
  <1>3. ASSUME NEW s \in Sites, UpdateShop(r, s) PROVE BuilderKept
    <2>1. PICK j : j = [op |-> "shop", at |-> "save", shop |-> s, copy |-> shop[s],
                        theme |-> "merchant"]
      OBVIOUS
    <2>2. j \in ThemeJob /\ j.shop = s /\ shop[s] # Null
      BY <1>3, <1>c, <2>1 DEF UpdateShop, ThemeJob
    <2>3. BuilderFits(j)
      BY <2>2, BuilderFitsOf
    <2>4. QED BY <1>3, <2>1, <2>2, <2>3, BuilderQuiet DEF UpdateShop, BuilderJobs
  <1>4. CASE SaveTheme(r)
    <2>1. /\ job[r] \in ThemeJob /\ job[r] \in BuilderJobs /\ BuilderFits(job[r])
          /\ job[r].shop \in Sites /\ job[r].copy \in ShopRow
          /\ job[r].theme \in {"none", "preset", "merchant", "assistant"}
      BY <1>4, JobAt DEF SaveTheme, BuilderJobs, ThemeJob, BuilderHeld
    <2>2. PICK s \in Sites : s = job[r].shop
      BY <2>1
    <2>3. shop[s] # Null /\ shop[s] \in ShopRow
      BY <1>c, <2>1, <2>2, BuilderFitsOf
    <2>a. PICK row :
            row = Saved(shop[s], job[r].copy, [job[r].copy EXCEPT !.theme = job[r].theme])
      OBVIOUS
    <2>4. /\ row \in ShopRow /\ row.custom = shop[s].custom /\ row.paid = shop[s].paid
          /\ row.reference = shop[s].reference
      BY <2>1, <2>3, <2>a, SavedShop
    <2>5. PICK j : j = [op |-> "gateway", at |-> "find"]
      OBVIOUS
    <2>6. /\ shop' = [shop EXCEPT ![s] = row] /\ Continue(r, j)
          /\ UNCHANGED <<gateways, talk, said, deposit, credited, bought, tagged, delivery>>
      BY <1>4, <2>2, <2>a, <2>5 DEF SaveTheme, SaveShop
    <2>7. j \in GatewayJob
      BY <2>5 DEF GatewayJob
    <2>8. Moves(BuilderJobs) /\ job' = [job EXCEPT ![r] = j]
      BY <1>b, <2>1, <2>6, <2>7, BuilderMoves
    <2>9. row.paid => PaidFor(s)
      BY <2>3, <2>4 DEF BuilderSound, AssistantWasPaid, PaidFor
    <2>10. QED BY <1>b, <2>3, <2>4, <2>6, <2>7, <2>8, <2>9, ShopWritten
  <1>5. ASSUME NEW s \in Sites, ShowShop(r, s) PROVE BuilderKept
    <2>1. [op |-> "gateway", at |-> "find"] \in GatewayJob
      BY DEF GatewayJob
    <2>2. QED BY <1>5, <1>b, <2>1, BuilderQuiet DEF ShowShop
  <1>6. CASE FindGateway(r)
    <2>1. job[r] \in GatewayJob /\ job[r] \in BuilderJobs
      BY <1>6, JobAt DEF FindGateway, BuilderJobs
    <2>2. [job[r] EXCEPT !.at = "insert"] \in GatewayJob
      BY <2>1 DEF GatewayJob
    <2>3. PICK j \in GatewayJob \union {Done} : Continue(r, j)
      BY <1>6, <2>2 DEF FindGateway, Finish
    <2>4. QED BY <1>6, <1>a, <1>b, <2>1, <2>3, BuilderQuiet DEF FindGateway
  <1>7. CASE InsertGateway(r)
    <2>1. job[r] \in GatewayJob /\ job[r] \in BuilderJobs /\ Continue(r, Done)
      BY <1>7, JobAt DEF InsertGateway, BuilderJobs, Finish
    <2>2. Moves(BuilderJobs) /\ job' = [job EXCEPT ![r] = Done]
      BY <2>1, BuilderMoves
    <2>3. gateways' \in Nat /\ delivery' \in [Sites -> SUBSET Delivery]
      BY <1>7 DEF InsertGateway
    <2>4. QED BY <1>7, <1>a, <2>2, <2>3, SideWritten DEF InsertGateway
  <1>8. CASE ListShops(r)
    <2>1. PICK j : j = [op |-> "list", at |-> "gateways", insert |-> {},
                        find |-> {s \in Sites : shop[s] # Null}]
      OBVIOUS
    <2>2. j \in ListJob /\ Begin(r, j)
      BY <1>8, <2>1 DEF ListJob, ListShops
    <2>3. QED BY <1>8, <1>b, <2>2, BuilderQuiet DEF ListShops
  <1>9. ASSUME NEW s \in Sites, FindListed(r, s) PROVE BuilderKept
    <2>1. job[r] \in ListJob /\ job[r] \in BuilderJobs
      BY <1>9, JobAt DEF FindListed, BuilderJobs
    <2>2. PICK j : j = [job[r] EXCEPT !.find = @ \ {s},
                            !.insert = IF NeedsGateway THEN @ \union {s} ELSE @]
      OBVIOUS
    <2>3. j \in ListJob
      BY <2>1, <2>2 DEF ListJob
    <2>4. PICK i \in {j, Done} : Continue(r, i)
      BY <1>9, <2>2 DEF FindListed, Finish
    <2>5. QED BY <1>9, <1>a, <1>b, <2>1, <2>3, <2>4, BuilderQuiet DEF FindListed
  <1>10. ASSUME NEW s \in Sites, InsertListed(r, s) PROVE BuilderKept
    <2>1. job[r] \in ListJob /\ job[r] \in BuilderJobs
      BY <1>10, JobAt DEF InsertListed, BuilderJobs
    <2>2. PICK j : j = [job[r] EXCEPT !.insert = @ \ {s}]
      OBVIOUS
    <2>3. j \in ListJob
      BY <2>1, <2>2 DEF ListJob
    <2>4. PICK i \in {j, Done} : Continue(r, i)
      BY <1>10, <2>2 DEF InsertListed, Finish
    <2>5. Moves(BuilderJobs) /\ job' = [job EXCEPT ![r] = i] /\ BuilderFits(i)
      BY <1>a, <1>b, <2>1, <2>3, <2>4, BuilderMoves
    <2>6. gateways' \in Nat /\ delivery' \in [Sites -> SUBSET Delivery]
      BY <1>10 DEF InsertListed
    <2>7. QED BY <1>10, <2>5, <2>6, SideWritten DEF InsertListed
  <1>11. QED BY <1>1, <1>2, <1>3, <1>4, <1>5, <1>6, <1>7, <1>8, <1>9, <1>10

LEMMA DeliveryStep ==
    ASSUME JobsOK, BuilderTypes, BuilderHeld, BuilderSound, NEW r \in Requests,
           \/ \E s \in Sites :
                ShowDelivery(r, s) \/ \E priced \in BOOLEAN : UpdateDelivery(r, s, priced)
           \/ InsertDefault(r) \/ SaveDelivery(r)
    PROVE  BuilderKept
  <1>a. Done \in BuilderJobs \union {Done} /\ BuilderFits(Done)
    BY BuilderFitsNone
  <1>b. \A j \in DefaultJob \union DeliveryJob : j \in BuilderJobs /\ BuilderFits(j)
    BY BuilderFitsNone DEF BuilderJobs
  <1>c. delivery \in [Sites -> SUBSET Delivery] /\ gateways \in Nat
    BY DEF BuilderTypes
  <1>d. [made |-> r, fee |-> "free", usd |-> "free"] \in Delivery
    BY DEF Delivery
  <1>1. ASSUME NEW s \in Sites, ShowDelivery(r, s) PROVE BuilderKept
    <2>1. [op |-> "delivery", at |-> "default", shop |-> s] \in DefaultJob
      BY DEF DefaultJob
    <2>2. PICK j \in DefaultJob \union {Done} : Begin(r, j)
      BY <1>1, <2>1 DEF ShowDelivery
    <2>3. QED BY <1>1, <1>a, <1>b, <2>2, BuilderQuiet DEF ShowDelivery
  <1>2. ASSUME NEW s \in Sites, NEW priced \in BOOLEAN, UpdateDelivery(r, s, priced)
        PROVE  BuilderKept
    <2>1. PICK copy \in Delivery :
            Begin(r, [op |-> "delivery", at |-> "save", shop |-> s, copy |-> copy,
                      fee |-> IF priced THEN r ELSE copy.fee])
      BY <1>2, <1>c, <1>d DEF UpdateDelivery
    <2>2. PICK fee \in Requests \union {"free"} : fee = IF priced THEN r ELSE copy.fee
      BY DEF Delivery
    <2>3. [op |-> "delivery", at |-> "save", shop |-> s, copy |-> copy, fee |-> fee]
                \in DeliveryJob
      BY DEF DeliveryJob
    <2>4. QED BY <1>2, <1>b, <2>1, <2>2, <2>3, BuilderQuiet DEF UpdateDelivery
  (* A row of a shop is made or saved. *)
  <1>3. ASSUME NEW s \in Sites, NEW rows \in SUBSET Delivery,
               delivery' = [delivery EXCEPT ![s] = rows],
               job[r] \in BuilderJobs, Continue(r, Done),
               UNCHANGED <<shop, gateways, talk, said, deposit, credited, bought, tagged>>
        PROVE  BuilderKept
    <2>1. delivery' \in [Sites -> SUBSET Delivery] /\ gateways' \in Nat
      BY <1>3, <1>c
    <2>2. Moves(BuilderJobs) /\ job' = [job EXCEPT ![r] = Done]
      BY <1>3, BuilderMoves
    <2>3. QED BY <1>3, <1>a, <2>1, <2>2, SideWritten
  <1>4. CASE InsertDefault(r)
    <2>1. job[r] \in BuilderJobs /\ job[r].shop \in Sites
      BY <1>4, JobAt DEF InsertDefault, DefaultJob, BuilderJobs
    <2>2. PICK rows \in SUBSET Delivery :
             rows = delivery[job[r].shop] \union {[made |-> r, fee |-> "free", usd |-> "free"]}
      BY <1>c, <1>d, <2>1
    <2>3. QED BY <1>3, <1>4, <2>1, <2>2 DEF InsertDefault, Finish
  <1>5. CASE SaveDelivery(r)
    <2>1. /\ job[r] \in BuilderJobs /\ job[r].shop \in Sites /\ job[r].copy \in Delivery
          /\ job[r].fee \in Requests \union {"free"}
      BY <1>5, JobAt DEF SaveDelivery, DeliveryJob, BuilderJobs
    <2> DEFINE rows == delivery[job[r].shop]
               old == {d \in rows : d.made = job[r].copy.made}
    <2>a. PICK usd \in InUsd(Converted(job[r].copy, job[r].fee)) :
             delivery' = [delivery EXCEPT ![job[r].shop] =
                    IF old = {} THEN rows \union {[job[r].copy EXCEPT !.fee = job[r].fee, !.usd = usd]}
                    ELSE (rows \ old) \union {Saved(d, job[r].copy,
                            [job[r].copy EXCEPT !.fee = job[r].fee, !.usd = usd]) : d \in old}]
      BY <1>5 DEF SaveDelivery
    <2>b. PICK new : new = [job[r].copy EXCEPT !.fee = job[r].fee, !.usd = usd]
      OBVIOUS
    <2>2. delivery' = [delivery EXCEPT ![job[r].shop] =
                    IF old = {} THEN rows \union {new}
                    ELSE (rows \ old) \union {Saved(d, job[r].copy, new) : d \in old}]
      BY <2>a, <2>b
    <2>3. new \in Delivery
      BY <2>1, <2>a, <2>b DEF Delivery, InUsd, Converted
    <2>4. rows \subseteq Delivery
      BY <1>c, <2>1
    <2>5. \A d \in old : Saved(d, job[r].copy, new) \in Delivery
      BY <2>1, <2>3, <2>4, SavedDelivery
    <2>6. PICK all \in SUBSET Delivery : all =
                IF old = {} THEN rows \union {new}
                ELSE (rows \ old) \union {Saved(d, job[r].copy, new) : d \in old}
      BY <2>3, <2>4, <2>5
    <2> HIDE DEF old, rows
    <2>7. /\ delivery' = [delivery EXCEPT ![job[r].shop] = all] /\ Continue(r, Done)
          /\ UNCHANGED <<shop, gateways, talk, said, deposit, credited, bought, tagged>>
      BY <1>5, <2>2, <2>6 DEF SaveDelivery, Finish
    <2>8. QED BY <1>3, <2>1, <2>7
  <1>6. QED BY <1>1, <1>2, <1>4, <1>5

(* What an exchange leaves of the conversation. *)
NewTalk(r, j, summarized) ==
    [messages |-> Kept(Append(j.copy.messages, r)),
     summary |-> IF summarized THEN Summary(j.copy.summary, Append(j.copy.messages, r))
                               ELSE j.copy.summary]

LEMMA NewTalkFits ==
    ASSUME NEW r \in Requests, NEW j \in ReplyJob, NEW summarized \in BOOLEAN
    PROVE  /\ NewTalk(r, j, summarized) \in Talk
           /\ Len(NewTalk(r, j, summarized).messages) <= BufferSize
  <1>1. j.copy \in Talk /\ j.copy.messages \in Seq(Requests) /\ j.copy.summary \in SUBSET Requests
    BY DEF ReplyJob, Talk
  <1>2. PICK q \in Seq(Requests) : q = Append(j.copy.messages, r)
    BY <1>1, AppendMembers
  <1>3. Kept(q) \in Seq(Requests) /\ Len(Kept(q)) <= BufferSize
    BY KeptFits
  <1>4. Summary(j.copy.summary, q) \in SUBSET Requests
    BY <1>1, KeptMembers DEF Summary
  <1>5. QED BY <1>1, <1>2, <1>3, <1>4 DEF NewTalk, Talk

LEMMA NoTalkFits == NoTalk \in Talk /\ Len(NoTalk.messages) <= BufferSize
  <1>1. <<>> \in Seq(Requests) /\ Len(<<>>) <= BufferSize
    BY BufferSizeAssumption
  <1>2. QED BY <1>1 DEF NoTalk, Talk

LEMMA ChatStep ==
    ASSUME JobsOK, BuilderTypes, BuilderHeld, BuilderSound, NEW r \in Requests,
           \/ \E s \in Sites : Chat(r, s) \/ ChatStream(r, s) \/ ResetMemory(r, s)
           \/ AskModel(r) \/ LoseExchange(r) \/ SaveReset(r)
           \/ \E summarized \in BOOLEAN : KeepExchange(r, summarized)
           \/ \E themed \in BOOLEAN : ApplyAction(r, themed)
    PROVE  BuilderKept
  <1>a. Done \in BuilderJobs \union {Done} /\ BuilderFits(Done) /\ BuilderFits(Done)'
    BY BuilderFitsNone
  <1>b. /\ shop \in [Sites -> ShopRow \union {Null}] /\ talk \in [Sites -> Talk \union {Null}]
        /\ said \in [Sites -> SUBSET Requests]
        /\ \A s \in Sites : shop[s] # Null => shop[s] \in ShopRow
        /\ \A s \in Sites : talk[s] # Null =>
                talk[s] \in Talk /\ Len(talk[s].messages) <= BufferSize
    BY DEF BuilderTypes, BuilderSound, Talk
  <1>c. AskJob \union ReplyJob \union ApplyJob \union ResetJob \subseteq BuilderJobs
    BY DEF BuilderJobs
  <1>1. ASSUME NEW s \in Sites, NEW streamed \in BOOLEAN, AskedOf(r, s, streamed)
        PROVE  BuilderKept
    <2>1. PICK j : j = [op |-> "chat", at |-> "ask", shop |-> s, streamed |-> streamed]
      OBVIOUS
    <2>2. j \in AskJob /\ j.shop = s /\ shop[s] # Null
      BY <1>1, <2>1 DEF AskJob, AskedOf
    <2>3. PICK i \in {j, Done} : Begin(r, i) /\ BuilderFits(i)
      BY <1>1, <1>a, <2>1, <2>2, BuilderFitsOf DEF AskedOf
    <2>4. QED BY <1>1, <1>a, <1>c, <2>2, <2>3, BuilderQuiet DEF AskedOf
  <1>2. ASSUME NEW s \in Sites, ResetMemory(r, s) PROVE BuilderKept
    <2>1. PICK j : j = [op |-> "reset", at |-> "save", shop |-> s, copy |-> talk[s]]
      OBVIOUS
    <2>2. j \in ResetJob /\ j.shop = s /\ talk[s] # Null
      BY <1>2, <1>b, <2>1 DEF ResetJob, ResetMemory
    <2>3. BuilderFits(j)
      BY <2>2, BuilderFitsOf
    <2>4. QED BY <1>2, <1>c, <2>1, <2>2, <2>3, BuilderQuiet DEF ResetMemory
  <1>3. CASE AskModel(r)
    <2>1. /\ job[r] \in AskJob /\ job[r] \in BuilderJobs /\ BuilderFits(job[r])
          /\ job[r].shop \in Sites /\ job[r].streamed \in BOOLEAN
      BY <1>3, JobAt DEF AskModel, BuilderJobs, AskJob, BuilderHeld
    <2>2. PICK s \in Sites : s = job[r].shop
      BY <2>1
    <2>3. shop[s] # Null /\ shop[s] \in ShopRow /\ Allowed(s)
      BY <1>b, <2>1, <2>2, BuilderFitsOf
    <2>4. PICK row : row = IF talk[s] = Null THEN NoTalk ELSE talk[s]
      OBVIOUS
    <2>5. row \in Talk /\ Len(row.messages) <= BufferSize
      BY <1>b, <2>4, NoTalkFits
    <2>6. talk' = [talk EXCEPT ![s] = row] /\ talk'[s] = row /\ row # Null
      BY <1>3, <1>b, <2>2, <2>4, <2>5, MissingShopAssumption DEF AskModel
    <2>7. PICK j : j = [op |-> "chat", at |-> "reply", shop |-> s, row |-> shop[s],
                        copy |-> row, streamed |-> job[r].streamed]
      OBVIOUS
    <2>8. j \in ReplyJob /\ j.shop = s
      BY <2>1, <2>3, <2>5, <2>7 DEF ReplyJob
    <2>9. /\ Continue(r, j) /\ UNCHANGED <<shop, gateways, deposit, credited, bought, tagged, delivery>>
          /\ said' = [said EXCEPT ![s] = said[s]]
      BY <1>3, <1>b, <2>2, <2>6, <2>7 DEF AskModel
    <2>10. Allowed(s)'
      BY <2>3, <2>9 DEF Allowed
    <2>11. BuilderFits(j)'
      BY <2>3, <2>6, <2>8, <2>9, <2>10, BuilderFitsThen
    <2>12. Moves(BuilderJobs) /\ job' = [job EXCEPT ![r] = j]
      BY <1>c, <2>1, <2>8, <2>9, BuilderMoves
    <2>13. said[s] \in SUBSET Requests
      BY <1>b
    <2>14. QED BY <2>3, <2>5, <2>6, <2>9, <2>11, <2>12, <2>13, TalkWritten
  (* An exchange is over: what the model asked for is still to be applied. *)
  <1>4. ASSUME job[r] \in ReplyJob, NEW j, job' = [job EXCEPT ![r] = j],
               j = [op |-> "chat", at |-> "apply", shop |-> job[r].shop, row |-> job[r].row],
               inSeries' = inSeries, faults' \in {faults, faults + 1}, UNCHANGED shop
        PROVE  Moves(BuilderJobs) /\ j \in ApplyJob /\ BuilderFits(j) /\ BuilderFits(j)'
    <2>1. job[r] \in BuilderJobs /\ BuilderFits(job[r])
      BY <1>4, <1>c DEF BuilderHeld
    <2>2. j \in ApplyJob /\ j.shop = job[r].shop
      BY <1>4 DEF ApplyJob, ReplyJob
    <2>3. shop[j.shop] # Null /\ shop'[j.shop] # Null
      BY <1>4, <2>1, <2>2, BuilderFitsOf
    <2>4. BuilderFits(j) /\ BuilderFits(j)'
      BY <2>2, <2>3, BuilderFitsOf, BuilderFitsThen
    <2>5. j \in BuilderJobs \union {Done}
      BY <1>c, <2>2
    <2>6. QED BY <1>4, <2>1, <2>2, <2>4, <2>5 DEF Moves
  <1>5. ASSUME NEW summarized \in BOOLEAN, KeepExchange(r, summarized) PROVE BuilderKept
    <2>1. /\ job[r] \in ReplyJob /\ BuilderFits(job[r])
          /\ job[r].shop \in Sites /\ job[r].copy \in Talk
      BY <1>5, JobAt DEF KeepExchange, ReplyJob, BuilderHeld
    <2>2. PICK s \in Sites : s = job[r].shop
      BY <2>1
    <2>3. shop[s] # Null /\ talk[s] # Null /\ talk[s] \in Talk /\ Allowed(s)
      BY <1>b, <2>1, <2>2, BuilderFitsOf
    <2>4. PICK new : new = NewTalk(r, job[r], summarized)
      OBVIOUS
    <2>5. new \in Talk /\ Len(new.messages) <= BufferSize
      BY <2>1, <2>4, NewTalkFits
    <2>6. PICK row : row = Saved(talk[s], job[r].copy, new)
      OBVIOUS
    <2>7. row \in Talk /\ row.messages \in {talk[s].messages, new.messages}
      BY <2>1, <2>3, <2>5, <2>6, SavedTalk
    <2>8. Len(row.messages) <= BufferSize
      BY <1>b, <2>3, <2>5, <2>7
    <2>9. PICK j : j = [op |-> "chat", at |-> "apply", shop |-> job[r].shop, row |-> job[r].row]
      OBVIOUS
    <2>10. /\ talk' = [talk EXCEPT ![s] = row] /\ said' = [said EXCEPT ![s] = said[s] \union {r}]
           /\ job' = [job EXCEPT ![r] = j] /\ inSeries' = inSeries
           /\ faults' \in {faults, faults + 1}
           /\ UNCHANGED <<shop, gateways, deposit, credited, bought, tagged, delivery>>
      BY <1>5, <2>2, <2>4, <2>6, <2>9 DEF KeepExchange, NewTalk
    <2>11. Moves(BuilderJobs) /\ BuilderFits(j)'
      BY <1>4, <2>1, <2>9, <2>10
    <2>12. said[s] \union {r} \in SUBSET Requests
      BY <1>b
    <2>13. QED BY <2>3, <2>7, <2>8, <2>10, <2>11, <2>12, TalkWritten
  <1>6. CASE LoseExchange(r)
    <2>1. job[r] \in ReplyJob
      BY <1>6, JobAt DEF LoseExchange
    <2>2. PICK j : j = [op |-> "chat", at |-> "apply", shop |-> job[r].shop, row |-> job[r].row]
      OBVIOUS
    <2>3. /\ job' = [job EXCEPT ![r] = j] /\ inSeries' = inSeries
          /\ faults' \in {faults, faults + 1}
          /\ UNCHANGED <<shop, gateways, talk, said, deposit, credited, bought, tagged, delivery>>
      BY <1>6, <2>2 DEF LoseExchange, builderVars
    <2>4. Moves(BuilderJobs) /\ BuilderFits(j)
      BY <1>4, <2>1, <2>2, <2>3
    <2>5. gateways' \in Nat /\ delivery' \in [Sites -> SUBSET Delivery]
      BY <2>3 DEF BuilderTypes
    <2>6. QED BY <2>3, <2>4, <2>5, SideWritten
  <1>7. ASSUME NEW themed \in BOOLEAN, ApplyAction(r, themed) PROVE BuilderKept
    <2>1. /\ job[r] \in ApplyJob /\ job[r] \in BuilderJobs /\ BuilderFits(job[r])
          /\ job[r].shop \in Sites /\ job[r].row \in ShopRow
      BY <1>7, JobAt DEF ApplyAction, BuilderJobs, ApplyJob, BuilderHeld
    <2>2. PICK s \in Sites : s = job[r].shop
      BY <2>1
    <2>3. /\ UNCHANGED <<gateways, talk, said, deposit, credited, bought, tagged, delivery>>
          /\ Continue(r, Done) /\ Moves(BuilderJobs) /\ job' = [job EXCEPT ![r] = Done]
      BY <1>7, <2>1, BuilderMoves DEF ApplyAction, Finish
    <2>4. CASE ~themed
      <3>1. UNCHANGED builderVars
        BY <1>7, <2>3, <2>4 DEF ApplyAction, builderVars
      <3>2. QED BY <1>a, <2>1, <2>3, <3>1, BuilderQuiet
    <2>5. CASE themed
      <3>1. shop[s] # Null /\ shop[s] \in ShopRow
        BY <1>b, <2>1, <2>2, BuilderFitsOf
      <3>2. PICK row : row = Saved(shop[s], job[r].row, [job[r].row EXCEPT !.theme = "assistant"])
        OBVIOUS
      <3>3. /\ row \in ShopRow /\ row.custom = shop[s].custom /\ row.paid = shop[s].paid
            /\ row.reference = shop[s].reference
        BY <2>1, <3>1, <3>2, SavedShop
      <3>4. shop' = [shop EXCEPT ![s] = row]
        BY <1>7, <2>2, <2>5, <3>2 DEF ApplyAction, SaveShop
      <3>5. row.paid => PaidFor(s)
        BY <3>1, <3>3 DEF BuilderSound, AssistantWasPaid, PaidFor
      <3>6. QED BY <1>a, <2>3, <3>1, <3>3, <3>4, <3>5, ShopWritten
    <2>6. QED BY <2>4, <2>5
  <1>8. CASE SaveReset(r)
    <2>1. /\ job[r] \in ResetJob /\ job[r] \in BuilderJobs /\ BuilderFits(job[r])
          /\ job[r].shop \in Sites /\ job[r].copy \in Talk
      BY <1>8, JobAt DEF SaveReset, BuilderJobs, ResetJob, BuilderHeld
    <2>2. PICK s \in Sites : s = job[r].shop
      BY <2>1
    <2>3. talk[s] # Null /\ talk[s] \in Talk
      BY <1>b, <2>1, <2>2, BuilderFitsOf
    <2>4. PICK row : row = Saved(talk[s], job[r].copy, NoTalk)
      OBVIOUS
    <2>5. row \in Talk /\ row.messages \in {talk[s].messages, NoTalk.messages}
      BY <2>1, <2>3, <2>4, SavedTalk, NoTalkFits
    <2>6. Len(row.messages) <= BufferSize
      BY <1>b, <2>3, <2>5, NoTalkFits
    <2>7. /\ talk' = [talk EXCEPT ![s] = row] /\ said' = [said EXCEPT ![s] = {}]
          /\ UNCHANGED <<shop, gateways, deposit, credited, bought, tagged, delivery>>
          /\ Moves(BuilderJobs) /\ job' = [job EXCEPT ![r] = Done]
      BY <1>8, <2>1, <2>2, <2>4, BuilderMoves DEF SaveReset, Finish
    <2>8. QED BY <1>a, <2>5, <2>6, <2>7, TalkWritten
  <1>9. QED BY <1>1, <1>2, <1>3, <1>5, <1>6, <1>7, <1>8 DEF Chat, ChatStream

LEMMA DepositStep ==
    ASSUME JobsOK, BuilderTypes, BuilderHeld, BuilderSound, NEW r \in Requests,
           \/ \E s \in Sites : InitiatePayment(r, s)
           \/ \E d \in Deposits : FiatReceived(r, d)
           \/ SaveReceived(r) \/ StartConversion(r) \/ CreditDeposit(r) \/ FailDeposit(r)
           \/ UnlockShop(r) \/ SaveReference(r) \/ UnlockBought(r)
           \/ \E x \in Payable : CompletePayment(r, x)
    PROVE  BuilderKept
  <1>a. Done \in BuilderJobs \union {Done} /\ BuilderFits(Done) /\ BuilderFits(Done)'
    BY BuilderFitsNone
  <1>b. /\ deposit \in [Deposits -> Deposit \union {Null}] /\ credited \in [Deposits -> Nat]
        /\ \A d \in Deposits : deposit[d] # Null =>
            /\ deposit[d] \in Deposit /\ deposit[d].shop \in Sites
            /\ shop[deposit[d].shop] # Null
        /\ tagged \in [Sites -> SUBSET Payable]
        /\ \A s \in Sites : shop[s] # Null => shop[s] \in ShopRow
    BY DEF BuilderTypes, BuilderSound, Deposit
  <1>1. ASSUME NEW s \in Sites, InitiatePayment(r, s) PROVE BuilderKept
    <2>1. /\ shop[s] # Null
          /\ UNCHANGED <<shop, gateways, talk, said, credited, bought, tagged, delivery>>
      BY <1>1 DEF InitiatePayment
    <2>2. CASE Begin(r, Done) /\ UNCHANGED deposit
      BY <1>a, <2>1, <2>2, BuilderQuiet DEF builderVars
    <2>3. ASSUME NEW d \in Deposits, deposit[d] = Null,
                 deposit' = [deposit EXCEPT ![d] = [shop |-> s, status |-> "pending"]],
                 Begin(r, [op |-> "refer", at |-> "save", shop |-> s, deposit |-> d])
          PROVE  BuilderKept
      <3>1. PICK row : row = [shop |-> s, status |-> "pending"]
        OBVIOUS
      <3>2. row \in Deposit /\ row.shop = s
        BY <3>1 DEF Deposit, DepositStatuses
      <3>a. PICK j : j = [op |-> "refer", at |-> "save", shop |-> s, deposit |-> d]
        OBVIOUS
      <3>b. j \in ReferJob /\ j \in BuilderJobs /\ j.shop = s
        BY <3>a DEF ReferJob, BuilderJobs
      <3>c. BuilderFits(j)'
        BY <2>1, <3>b, BuilderFitsThen
      <3>3. Moves(BuilderJobs) /\ job' = [job EXCEPT ![r] = j]
        BY <2>3, <3>a, <3>b, BuilderMoves
      <3>4. credited[d] \in Nat /\ credited[d] <= credited[d]
        BY <1>b
      <3>5. credited' = [credited EXCEPT ![d] = credited[d]]
        BY <1>b, <2>1
      <3>6. QED BY <2>1, <2>3, <3>1, <3>2, <3>3, <3>4, <3>5, <3>c, DepositWritten
    <2>4. QED BY <1>1, <2>2, <2>3 DEF InitiatePayment
  <1>2. ASSUME NEW d \in Deposits, FiatReceived(r, d) PROVE BuilderKept
    <2>1. PICK j : j = [op |-> "convert", at |-> "received", deposit |-> d]
      OBVIOUS
    <2>2. j \in ConvertJob /\ j.deposit = d /\ j.at = "received" /\ j \in BuilderJobs
      BY <2>1 DEF ConvertJob, BuilderJobs
    <2>3. BuilderFits(j)
      BY <1>2, <2>2, BuilderFitsOf DEF FiatReceived
    <2>4. QED BY <1>2, <1>a, <2>1, <2>2, <2>3, BuilderQuiet DEF FiatReceived
  (* The status of a deposit is set, and it may be credited. *)
  <1>3. ASSUME job[r] \in ConvertJob, NEW status \in DepositStatuses, NEW n \in Nat,
               SetDeposit(job[r].deposit, status), credited[job[r].deposit] <= n,
               credited' = [credited EXCEPT ![job[r].deposit] = n],
               UNCHANGED <<shop, gateways, talk, said, bought, tagged, delivery>>,
               NEW at \in {"converting", "credit", "unlock"}, NEW j,
               j \in {Done, [job[r] EXCEPT !.at = at]}, Continue(r, j),
               at = "unlock" => n > 0
        PROVE  BuilderKept
    <2>1. PICK d \in Deposits : d = job[r].deposit
      BY <1>3, BuilderJobKinds
    <2>2. BuilderFits(job[r]) /\ job[r] \in BuilderJobs
      BY <1>3 DEF BuilderHeld, BuilderJobs
    <2>3. deposit[d] # Null /\ deposit[d] \in Deposit
      BY <1>3, <1>b, <2>1, <2>2, BuilderFitsOf
    <2>4. PICK row : row = [deposit[d] EXCEPT !.status = status]
      OBVIOUS
    <2>5. row \in Deposit /\ row.shop = deposit[d].shop /\ row # Null
      BY <2>3, <2>4, MissingShopAssumption DEF Deposit
    <2>6. deposit' = [deposit EXCEPT ![d] = row] /\ deposit'[d] # Null /\ credited'[d] = n
      BY <1>3, <1>b, <2>1, <2>4, <2>5 DEF SetDeposit
    <2>7. j \in ConvertJob => j.deposit = d /\ j.at = at
      BY <1>3, <2>1, JobOps, BuilderJobKinds DEF ConvertJob
    <2>8. j = Done \/ j \in ConvertJob
      BY <1>3 DEF ConvertJob
    <2>9. BuilderFits(j)'
      BY <1>3, <1>a, <2>6, <2>7, <2>8, BuilderFitsThen
    <2>10. Moves(BuilderJobs) /\ job' = [job EXCEPT ![r] = j]
      BY <1>3, <2>2, <2>8, BuilderMoves DEF BuilderJobs
    <2>11. shop[row.shop] # Null
      BY <1>b, <2>3, <2>5
    <2>12. credited' = [credited EXCEPT ![d] = n] /\ credited[d] <= n
      BY <1>3, <2>1
    <2>13. QED BY <1>3, <2>5, <2>6, <2>9, <2>10, <2>11, <2>12, DepositWritten
  <1>4. CASE SaveReceived(r) \/ StartConversion(r) \/ FailDeposit(r)
    <2>1. job[r] \in ConvertJob /\ job[r].deposit \in Deposits
      BY <1>4, JobAt DEF SaveReceived, StartConversion, FailDeposit, ConvertJob
    <2>2. PICK status \in DepositStatuses : SetDeposit(job[r].deposit, status)
      BY <1>4 DEF SaveReceived, StartConversion, FailDeposit, DepositStatuses
    <2>3. PICK at \in {"converting", "credit"} :
            Continue(r, [job[r] EXCEPT !.at = at]) \/ Continue(r, Done)
      BY <1>4 DEF SaveReceived, StartConversion, FailDeposit, Finish
    <2>4. PICK n \in Nat : n = credited[job[r].deposit] /\ n <= n
      BY <1>b, <2>1
    <2>5. /\ credited' = [credited EXCEPT ![job[r].deposit] = n]
          /\ UNCHANGED <<shop, gateways, talk, said, bought, tagged, delivery>>
      BY <1>4, <1>b, <2>4 DEF SaveReceived, StartConversion, FailDeposit
    <2>6. PICK j : j \in {Done, [job[r] EXCEPT !.at = at]} /\ Continue(r, j)
      BY <2>3
    <2>7. credited[job[r].deposit] <= n /\ at # "unlock"
      BY <2>4
    <2>8. QED BY <1>3, <2>1, <2>2, <2>5, <2>6, <2>7
  <1>5. CASE CreditDeposit(r)
    <2>1. job[r] \in ConvertJob /\ job[r].deposit \in Deposits
      BY <1>5, JobAt DEF CreditDeposit, ConvertJob
    <2>2. PICK n \in Nat : /\ n = credited[job[r].deposit] + 1 /\ n > 0
                           /\ credited[job[r].deposit] <= n
      <3>1. PICK c \in Nat : c = credited[job[r].deposit]
        BY <1>b, <2>1
      <3>2. c + 1 \in Nat /\ c + 1 > 0 /\ c <= c + 1
        OBVIOUS
      <3>3. QED BY <3>1, <3>2
    <2>3. /\ credited' = [credited EXCEPT ![job[r].deposit] = n]
          /\ SetDeposit(job[r].deposit, "credited") /\ Continue(r, [job[r] EXCEPT !.at = "unlock"])
          /\ UNCHANGED <<shop, gateways, talk, said, bought, tagged, delivery>>
          /\ "credited" \in DepositStatuses
      BY <1>5, <2>2 DEF CreditDeposit, DepositStatuses
    <2>4. QED BY <1>3, <2>1, <2>2, <2>3
  <1>6. CASE UnlockShop(r)
    <2>1. /\ job[r] \in ConvertJob /\ job[r] \in BuilderJobs /\ BuilderFits(job[r])
          /\ job[r].deposit \in Deposits /\ job[r].at = "unlock"
      BY <1>6, JobAt DEF UnlockShop, BuilderJobs, ConvertJob, BuilderHeld
    <2>2. PICK d \in Deposits : d = job[r].deposit
      BY <2>1
    <2>3. /\ deposit[d] # Null /\ credited[d] > 0 /\ deposit[d].shop \in Sites
          /\ shop[deposit[d].shop] # Null
      BY <1>b, <2>1, <2>2, BuilderFitsOf
    <2>4. PICK s \in Sites : s = deposit[d].shop
      BY <2>3
    <2>5. shop[s] \in ShopRow
      BY <2>3, <2>4 DEF BuilderTypes
    <2>6. PICK row : row = [shop[s] EXCEPT !.paid = TRUE]
      OBVIOUS
    <2>7. /\ row \in ShopRow /\ row.custom = shop[s].custom /\ row.paid
          /\ row.reference = shop[s].reference /\ PaidFor(s)
      BY <2>3, <2>4, <2>5, <2>6 DEF ShopRow, PaidFor
    <2>8. /\ shop' = [shop EXCEPT ![s] = row]
          /\ UNCHANGED <<gateways, talk, said, deposit, credited, bought, tagged, delivery>>
          /\ Moves(BuilderJobs) /\ job' = [job EXCEPT ![r] = Done]
      BY <1>6, <2>1, <2>2, <2>4, <2>6, BuilderMoves DEF UnlockShop, Finish
    <2>9. QED BY <1>a, <2>2, <2>3, <2>4, <2>7, <2>8, ShopWritten
  <1>7. CASE SaveReference(r)
    <2>1. /\ job[r] \in ReferJob /\ job[r] \in BuilderJobs /\ BuilderFits(job[r])
          /\ job[r].shop \in Sites /\ job[r].deposit \in Deposits
      BY <1>7, JobAt DEF SaveReference, BuilderJobs, ReferJob, BuilderHeld
    <2>2. PICK s \in Sites, d \in Payable : s = job[r].shop /\ d = job[r].deposit
      BY <2>1 DEF Payable
    <2>3. shop[s] # Null /\ shop[s] \in ShopRow
      BY <1>b, <2>1, <2>2, BuilderFitsOf
    <2>4. PICK row : row = [shop[s] EXCEPT !.reference = d]
      OBVIOUS
    <2>5. /\ row \in ShopRow /\ row.custom = shop[s].custom /\ row.paid = shop[s].paid
          /\ row.reference = d
      BY <2>2, <2>3, <2>4 DEF ShopRow
    <2>6. row.paid => PaidFor(s)
      BY <2>3, <2>5 DEF BuilderSound, AssistantWasPaid, PaidFor
    <2>7. PICK T \in SUBSET Payable : T = tagged[s] \union {d}
      BY <1>b
    <2>8. /\ shop' = [shop EXCEPT ![s] = row] /\ tagged' = [tagged EXCEPT ![s] = T]
          /\ UNCHANGED <<gateways, talk, said, deposit, credited, bought, delivery>>
          /\ Moves(BuilderJobs) /\ job' = [job EXCEPT ![r] = Done]
      BY <1>7, <2>1, <2>2, <2>4, <2>7, BuilderMoves DEF SaveReference, Finish
    <2>9. QED BY <1>a, <2>3, <2>5, <2>6, <2>7, <2>8, ShopReferred
  <1>8. CASE UnlockBought(r)
    <2>1. /\ job[r] \in BoughtJob /\ job[r] \in BuilderJobs /\ BuilderFits(job[r])
      BY <1>8, JobAt DEF UnlockBought, BuilderJobs, BuilderHeld
    <2>2. /\ UNCHANGED <<gateways, talk, said, deposit, credited, bought, tagged, delivery>>
          /\ Continue(r, Done) /\ Moves(BuilderJobs) /\ job' = [job EXCEPT ![r] = Done]
      BY <1>8, <2>1, BuilderMoves DEF UnlockBought, Finish
    <2>3. CASE UNCHANGED shop
      BY <1>a, <2>1, <2>2, <2>3, BuilderQuiet DEF builderVars
    <2>4. ASSUME NEW s \in Sites, shop[s] # Null, shop[s].reference = job[r].reference,
                 shop' = [shop EXCEPT ![s].paid = TRUE]
          PROVE  BuilderKept
      <3>1. shop[s] \in ShopRow /\ shop[s].reference \in bought
        BY <1>b, <2>1, <2>4, BuilderFitsOf
      <3>2. shop[s].reference \in tagged[s]
        BY <2>1, <2>4, NullAssumption, BuilderJobKinds DEF BuilderSound, Payable
      <3>3. PICK row : row = [shop[s] EXCEPT !.paid = TRUE]
        OBVIOUS
      <3>4. /\ row \in ShopRow /\ row.custom = shop[s].custom /\ row.paid
            /\ row.reference = shop[s].reference /\ PaidFor(s)
        BY <3>1, <3>2, <3>3 DEF ShopRow, PaidFor
      <3>5. shop' = [shop EXCEPT ![s] = row]
        BY <2>4, <3>3
      <3>6. QED BY <1>a, <2>2, <2>4, <3>4, <3>5, ShopWritten
    <2>5. QED BY <1>8, <2>3, <2>4 DEF UnlockBought
  <1>9. ASSUME NEW x \in Payable, CompletePayment(r, x) PROVE BuilderKept
    <2>1. PICK j : j = [op |-> "bought", at |-> "unlock", reference |-> x]
      OBVIOUS
    <2>2. /\ Begin(r, j) /\ bought' = bought \union {x}
          /\ UNCHANGED <<shop, gateways, talk, said, deposit, credited, tagged, delivery>>
      BY <1>9, <2>1 DEF CompletePayment
    <2>3. j \in BoughtJob /\ j \in BuilderJobs /\ j.reference = x
      BY <2>1 DEF BoughtJob, BuilderJobs
    <2>4. BuilderTypes'
      BY <2>2 DEF BuilderTypes
    <2>5. BuilderGrows
      BY <1>b, <2>2 DEF BuilderGrows
    <2>6. BuilderSound'
      <3>1. AssistantWasPaid'
        BY <2>2 DEF BuilderSound, AssistantWasPaid
      <3>2. QED BY <2>2, <3>1 DEF BuilderSound
    <2>7. BuilderFits(j)'
      BY <2>2, <2>3, BuilderFitsThen
    <2>8. Moves(BuilderJobs) /\ job' = [job EXCEPT ![r] = j]
      BY <2>2, <2>3, BuilderMoves
    <2>9. QED BY <2>4, <2>5, <2>6, <2>7, <2>8, BuilderGoesOn
  <1>10. QED BY <1>1, <1>2, <1>4, <1>5, <1>6, <1>7, <1>8, <1>9

LEMMA BuilderStep ==
    ASSUME JobsOK, BuilderTypes, BuilderHeld, BuilderSound, BuilderNext
    PROVE  BuilderKept
  BY SiteStep, DeliveryStep, ChatStep, DepositStep DEF BuilderNext

-----------------------------------------------------------------------------
(* The pictures. *)

LEMMA FilesStep ==
    ASSUME JobsOK, FilesTypes, FilesNext
    PROVE  Moves(FileJobs) /\ FilesTypes'
  <1> USE DEF FilesTypes
  <1>a. Done \in FileJobs \union {Done}
    OBVIOUS
  <1>b. PictureJob \union ImageJob \union RelistJob \subseteq FileJobs
    BY DEF FileJobs
  <1>1. ASSUME NEW r \in Requests, NEW p \in Pictures, UploadPicture(r, p)
        PROVE  Moves(FileJobs) /\ FilesTypes'
    <2>1. [op |-> "picture", at |-> "upload", picture |-> p] \in PictureJob
      BY DEF PictureJob
    <2>2. Moves(FileJobs)
      BY <1>1, <1>b, <2>1, BeginMoves DEF UploadPicture
    <2>3. picture[p] = NoFile \/ picture[p] \in Requests
      OBVIOUS
    <2>4. files' \subseteq Requests /\ loose' \subseteq Requests
      BY <1>1, <2>3 DEF UploadPicture, DeleteFile
    <2>5. QED BY <1>1, <2>2, <2>4 DEF UploadPicture
  <1>c. Known \subseteq Requests
    BY DEF Known
  <1>2. ASSUME NEW r \in Requests, NEW a \in Albums, NEW limit, UploadImage(r, a, limit)
        PROVE  Moves(FileJobs) /\ FilesTypes'
    <2>1. [op |-> "image", at |-> "upload", album |-> a, copy |-> album[a]] \in ImageJob
      BY DEF ImageJob
    <2>2. PICK j \in ImageJob \union {Done} : Begin(r, j)
      BY <1>2, <2>1 DEF UploadImage
    <2>3. QED BY <1>2, <1>b, <2>2, BeginMoves DEF UploadImage, fileVars
  <1>3. ASSUME NEW r \in Requests, NEW a \in Albums, NEW f \in Known, DeleteImage(r, a, f)
        PROVE  Moves(FileJobs) /\ FilesTypes'
    <2>1. /\ Begin(r, [op |-> "relist", at |-> "save", album |-> a,
                       images |-> Without(album[a], f)])
          /\ UNCHANGED <<picture, album>>
      BY <1>3 DEF DeleteImage
    <2>2. [op |-> "relist", at |-> "save", album |-> a, images |-> Without(album[a], f)]
                \in RelistJob
      BY DEF RelistJob, Without
    <2>3. files' \subseteq Requests /\ loose' \subseteq Requests
      BY <1>3, <1>c DEF DeleteImage, DeleteFile
    <2>4. QED BY <1>b, <2>1, <2>2, <2>3, BeginMoves
  <1>d. ASSUME NEW r \in Requests, NEW a \in Albums, NEW names \in SUBSET Known,
               ListImages(r, a, names)
        PROVE  Moves(FileJobs) /\ FilesTypes'
    <2>1. [op |-> "relist", at |-> "save", album |-> a, images |-> names] \in RelistJob
      BY <1>c DEF RelistJob
    <2>2. loose' \subseteq Requests
      BY <1>c, <1>d DEF ListImages
    <2>3. QED BY <1>b, <1>d, <2>1, <2>2, BeginMoves DEF ListImages
  <1>e. ASSUME NEW r \in Requests, NEW a \in Albums, NEW names \in SUBSET Known, NEW limit,
               ListAndUpload(r, a, names, limit)
        PROVE  Moves(FileJobs) /\ FilesTypes'
    <2>1. [op |-> "image", at |-> "upload", album |-> a, copy |-> names] \in ImageJob
      BY <1>c DEF ImageJob
    <2>2. loose' \subseteq Requests
      BY <1>c, <1>e DEF ListAndUpload
    <2>3. QED BY <1>b, <1>e, <2>1, <2>2, BeginMoves DEF ListAndUpload
  <1>4. ASSUME NEW r \in Requests, StorePicture(r) \/ StoreImage(r)
        PROVE  Moves(FileJobs) /\ FilesTypes'
    <2>1. job[r] \in PictureJob \union ImageJob
      BY <1>4, JobAt DEF StorePicture, StoreImage
    <2>2. [job[r] EXCEPT !.at = "save"] \in PictureJob \union ImageJob
      BY <2>1 DEF PictureJob, ImageJob
    <2>3. QED BY <1>4, <1>b, <2>1, <2>2, ContinueMoves DEF StorePicture, StoreImage
  <1>5. ASSUME NEW r \in Requests, SavePicture(r) PROVE Moves(FileJobs) /\ FilesTypes'
    <2>1. job[r] \in FileJobs
      BY <1>5, <1>b, JobAt DEF SavePicture
    <2>2. QED BY <1>5, <2>1, FinishMoves DEF SavePicture
  <1>6. ASSUME NEW r \in Requests, SaveImage(r) PROVE Moves(FileJobs) /\ FilesTypes'
    <2>1. job[r] \in FileJobs /\ job[r].copy \in SUBSET Requests
      BY <1>6, <1>b, JobAt DEF SaveImage, ImageJob
    <2>2. QED BY <1>6, <2>1, FinishMoves DEF SaveImage
  <1>7. ASSUME NEW r \in Requests, RelistImages(r) PROVE Moves(FileJobs) /\ FilesTypes'
    <2>1. job[r] \in FileJobs /\ job[r].images \in SUBSET Requests
      BY <1>7, <1>b, JobAt DEF RelistImages, RelistJob
    <2>2. QED BY <1>7, <2>1, FinishMoves DEF RelistImages
  <1>8. QED BY <1>1, <1>2, <1>3, <1>d, <1>e, <1>4, <1>5, <1>6, <1>7 DEF FilesNext

-----------------------------------------------------------------------------
(* All parts together. *)

Types ==
    /\ JobsOK /\ CartTypes /\ CartHeld /\ CartSound /\ BuilderTypes /\ BuilderHeld
    /\ BuilderSound /\ FilesTypes

(* What the steps of the other parts do to the jobs of S: nothing, or a    *)
(* handler is ended early.                                                 *)
Framed(S) ==
    /\ inSeries' = inSeries /\ faults' \in {faults, faults + 1}
    /\ \A r \in Requests :
        /\ job'[r] \in S => job'[r] = job[r]
        /\ job[r] \in S /\ faults' = faults => job'[r] = job[r]
        /\ job[r] = Done => job'[r] = Done

LEMMA MovesFrame ==
    ASSUME JobsOK, NEW S, NEW T, S \intersect T = {}, Waiting \notin S \union T,
           Done \notin S \union T, Moves(S)
    PROVE  Framed(T)
  <1>1. Waiting # Done
    BY JobsApart
  <1>2. QED BY <1>1 DEF JobsOK, Moves, Framed

LEMMA BreakFrame ==
    ASSUME JobsOK, NEW r \in Requests, Break(r), NEW T, Waiting \notin T, Done \notin T
    PROVE  Framed(T) /\ JobsOK'
  <1>1. Framed(T)
    BY DEF Break, Framed, JobsOK, Running
  <1>2. Done \in Jobs
    BY DEF Jobs
  <1>3. QED BY <1>1, <1>2 DEF Break, JobsOK

LEMMA StutterFrame ==
    ASSUME UNCHANGED requestVars, NEW T, JobsOK
    PROVE  Framed(T) /\ JobsOK'
  BY DEF requestVars, Framed, JobsOK

LEMMA CartFrame ==
    ASSUME CartTypes, CartHeld, CartSound, Framed(CartJobs), UNCHANGED cartVars
    PROVE  CartTypes' /\ CartHeld' /\ CartSound'
  <1>1. ASSUME NEW q \in Requests PROVE CartFits(job[q])'
    <2>1. PICK j : j = job'[q]
      OBVIOUS
    <2>2. CASE j \in CartJobs
      <3>1. job[q] = j
        BY <2>1, <2>2 DEF Framed
      <3>2. CartFits(j)'
        BY <3>1, CartUnchanged DEF CartHeld
      <3>3. QED BY <2>1, <3>2
    <2>3. CASE j \notin CartJobs
      BY <2>1, <2>3 DEF CartFits, CartJobs
    <2>4. QED BY <2>2, <2>3
  <1>2. QED BY <1>1, CartUnchanged DEF CartHeld

LEMMA BuilderFrame ==
    ASSUME BuilderTypes, BuilderHeld, BuilderSound, Framed(BuilderJobs), UNCHANGED builderVars
    PROVE  BuilderTypes' /\ BuilderHeld' /\ BuilderSound'
  <1>1. BuilderTypes'
    BY DEF BuilderTypes, builderVars
  <1>2. BuilderGrows
    <2>1. \A d \in Deposits : credited[d] \in Nat
      BY DEF BuilderTypes
    <2>2. QED BY <2>1 DEF BuilderGrows, builderVars
  <1>3. ASSUME NEW q \in Requests PROVE BuilderFits(job[q])'
    <2>1. PICK j : j = job'[q]
      OBVIOUS
    <2>2. CASE j \in BuilderJobs
      <3>1. job[q] = j
        BY <2>1, <2>2 DEF Framed
      <3>2. BuilderFits(j)
        BY <3>1 DEF BuilderHeld
      <3>3. BuilderFits(j)'
        BY <1>1, <1>2, <3>2, BuilderFitsKept
      <3>4. QED BY <2>1, <3>3
    <2>3. CASE j \notin BuilderJobs
      BY <2>1, <2>3 DEF BuilderFits, BuilderJobs
    <2>4. QED BY <2>2, <2>3
  <1>4. BuilderSound'
    BY DEF BuilderSound, AssistantWasPaid, builderVars
  <1>5. QED BY <1>1, <1>3, <1>4 DEF BuilderHeld

(* A step is one of a part of the shop, seen from which the others are     *)
(* framed.                                                                 *)
LEMMA PartSteps ==
    ASSUME Types, [Next]_vars
    PROVE  /\ JobsOK'
           /\ \/ CartNext /\ CartKept /\ Framed(BuilderJobs) /\ Framed(FileJobs)
                 /\ UNCHANGED <<builderVars, fileVars>>
              \/ BuilderNext /\ BuilderKept /\ Framed(CartJobs) /\ Framed(FileJobs)
                 /\ UNCHANGED <<cartVars, fileVars>>
              \/ FilesNext /\ Moves(FileJobs) /\ FilesTypes' /\ Framed(CartJobs)
                 /\ Framed(BuilderJobs) /\ UNCHANGED <<cartVars, builderVars>>
              \/ Framed(CartJobs) /\ Framed(BuilderJobs) /\ Framed(FileJobs)
                 /\ (\A r \in Running' : r \in Running)
                 /\ (job' = job \/ faults' = faults + 1)
                 /\ UNCHANGED <<cartVars, builderVars, fileVars>>
  <1> USE DEF Types
  <1>a. CartJobs \subseteq Jobs /\ BuilderJobs \subseteq Jobs /\ FileJobs \subseteq Jobs
    BY DEF Jobs
  <1>1. CASE CartNext /\ UNCHANGED <<builderVars, fileVars>>
    <2>1. CartKept /\ Moves(CartJobs)
      BY <1>1, CartStep DEF CartKept
    <2>2. JobsOK' /\ Framed(BuilderJobs) /\ Framed(FileJobs)
      BY <1>a, <2>1, MovesTyped, MovesFrame, JobsApart
    <2>3. QED BY <1>1, <2>1, <2>2
  <1>2. CASE BuilderNext /\ UNCHANGED <<cartVars, fileVars>>
    <2>1. BuilderKept /\ Moves(BuilderJobs)
      BY <1>2, BuilderStep DEF BuilderKept
    <2>2. JobsOK' /\ Framed(CartJobs) /\ Framed(FileJobs)
      BY <1>a, <2>1, MovesTyped, MovesFrame, JobsApart
    <2>3. QED BY <1>2, <2>1, <2>2
  <1>3. CASE FilesNext /\ UNCHANGED <<cartVars, builderVars>>
    <2>1. Moves(FileJobs) /\ FilesTypes'
      BY <1>3, FilesStep
    <2>2. JobsOK' /\ Framed(CartJobs) /\ Framed(BuilderJobs)
      BY <1>a, <2>1, MovesTyped, MovesFrame, JobsApart
    <2>3. QED BY <1>3, <2>1, <2>2
  <1>4. ASSUME NEW r \in Requests, BreakRequest(r)
        PROVE  /\ JobsOK' /\ Framed(CartJobs) /\ Framed(BuilderJobs) /\ Framed(FileJobs)
               /\ UNCHANGED <<cartVars, builderVars, fileVars>>
               /\ \A q \in Running' : q \in Running
               /\ faults' = faults + 1
    <2>1. /\ JobsOK' /\ Framed(CartJobs) /\ Framed(BuilderJobs) /\ Framed(FileJobs)
          /\ UNCHANGED <<cartVars, builderVars, fileVars>>
      BY <1>4, BreakFrame, JobsApart DEF BreakRequest
    <2>2. /\ \A q \in Running' : q \in Running
          /\ faults' = faults + 1
      BY <1>4 DEF BreakRequest, Break, Running, JobsOK
    <2>3. QED BY <2>1, <2>2
  <1>5. CASE UNCHANGED vars
    <2>1. UNCHANGED requestVars /\ UNCHANGED <<cartVars, builderVars, fileVars>>
      BY <1>5 DEF vars
    <2>2. QED BY <2>1, StutterFrame DEF requestVars, Running
  <1>6. QED BY <1>1, <1>2, <1>3, <1>4, <1>5 DEF Next

LEMMA TypesKept ==
    ASSUME Types, [Next]_vars
    PROVE  Types'
  <1> USE DEF Types
  <1>1. JobsOK'
    BY PartSteps
  <1>2. CartTypes' /\ CartHeld' /\ CartSound'
    BY PartSteps, CartFrame DEF CartKept
  <1>3. BuilderTypes' /\ BuilderHeld' /\ BuilderSound'
    BY PartSteps, BuilderFrame DEF BuilderKept
  <1>4. FilesTypes'
    <2>1. UNCHANGED fileVars => FilesTypes'
      BY DEF FilesTypes, fileVars
    <2>2. QED BY <2>1, PartSteps
  <1>5. QED BY <1>1, <1>2, <1>3, <1>4

LEMMA TypesInit == ASSUME Init PROVE Types
  <1> USE DEF Init
  <1>1. JobsOK
    BY DEF RequestsInit, JobsOK, Jobs
  <1>2. \A r \in Requests : job[r] = Waiting
    BY DEF RequestsInit
  <1>3. \A p \in Products : product[p] # None =>
            product[p] \in Product /\ product[p].stock \in Nat
    <2>a. product \in [Products -> {None} \union [stock : Stocks, active : {TRUE}]]
      BY DEF CartInit
    <2>1. \A p \in Products : product[p] # None =>
            product[p] \in [stock : Stocks, active : {TRUE}]
      BY ONLY <2>a
    <2>2. QED BY <2>1, QuantitiesAssumption DEF Product
  <1>4. \A o \in Orders : order[o] # None =>
            order[o] \in Order /\ order[o].status = "created" /\ order[o].guest
    <2>1. ASSUME NEW lines \in GuestLines, NEW s \in Shops, NEW row, row = NewOrder(lines, s, TRUE)
          PROVE  row \in Order /\ row.status = "created" /\ row.guest
      <3>1. lines \in SUBSET Line
        BY GuestLinesAssumption
      <3>2. QED BY <2>1, <3>1 DEF NewOrder, Order, Metadata, OrderStatuses
    <2>2. order \in [Orders -> {None} \union UNION {GuestOrders(s) : s \in Shops}]
      BY DEF CartInit
    <2>3. ASSUME NEW o \in Orders, order[o] # None
          PROVE  \E lines \in GuestLines, s \in Shops : order[o] = NewOrder(lines, s, TRUE)
      <3>1. PICK s \in Shops : order[o] \in GuestOrders(s)
        BY <2>2, <2>3
      <3>2. QED BY <3>1 DEF GuestOrders
    <2>4. ASSUME NEW o \in Orders, order[o] # None
          PROVE  order[o] \in Order /\ order[o].status = "created" /\ order[o].guest
      <3>1. PICK lines \in GuestLines, s \in Shops : order[o] = NewOrder(lines, s, TRUE)
        BY <2>3, <2>4
      <3>2. QED BY <2>1, <3>1
    <2>5. QED BY <2>4
  <1>5. CartTypes
    <2>1. \A p \in Products : peak[p] \in Nat
      BY <1>3 DEF CartInit
    <2>2. peak \in [Products -> Nat]
      BY <2>1 DEF CartInit
    <2>3. product \in [Products -> Product \union {None}]
      BY <1>3 DEF CartInit
    <2>4. order \in [Orders -> Order \union {None}]
      BY <1>4 DEF CartInit
    <2>5. QED BY <2>2, <2>3, <2>4 DEF CartInit, CartTypes
  <1>6. CartSound
    <2>1. \A p \in Products : product[p] # None => product[p].stock <= peak[p]
      BY <1>3 DEF CartInit
    <2>2. QED BY <1>4, <2>1 DEF CartInit, CartSound
  <1>7. CartHeld /\ BuilderHeld
    BY <1>2, CartFitsNone, BuilderFitsNone DEF CartHeld, BuilderHeld
  <1>8. BuilderTypes
    <2>1. shop \in [Sites -> ShopRow \union {Null}]
      <3>1. [subdomain : Subdomains, custom : BOOLEAN, paid : {FALSE}, reference : {Null},
             theme : {"preset"}] \subseteq ShopRow
        BY DEF ShopRow
      <3>2. QED BY <3>1 DEF BuilderInit
    <2>2. gateways \in Nat
      BY DEF BuilderInit
    <2>3. QED BY <2>1, <2>2 DEF BuilderInit, BuilderTypes
  <1>9. BuilderSound
    <2>1. ASSUME NEW s \in Sites, shop[s] # Null
          PROVE  shop[s].paid = FALSE /\ shop[s].reference = Null
      BY <2>1 DEF BuilderInit
    <2>2. QED BY <2>1 DEF BuilderInit, BuilderSound, AssistantWasPaid
  <1>10. FilesTypes
    BY DEF FilesInit, FilesTypes
  <1>11. QED BY <1>1, <1>5, <1>6, <1>7, <1>8, <1>9, <1>10 DEF Types

(* The rows of carts, orders, shops, conversations, deposits and pictures  *)
(* keep their types, for any number of requests that overlap in any way.   *)
THEOREM TypeCorrect == Spec => []TypeOK
  <1>1. Init => Types
    BY TypesInit
  <1>2. Types /\ [Next]_vars => Types'
    BY TypesKept
  <1>3. Types => TypeOK
    BY DEF Types, TypeOK
  <1>4. QED BY <1>1, <1>2, <1>3, PTL DEF Spec

-----------------------------------------------------------------------------
(* One at a time: a handler that runs is alone.                            *)

Alone == inSeries => \A r, q \in Running : r = q

LEMMA RestsBefore ==
    ASSUME Alone, inSeries, Cardinality(Running) < 1
    PROVE  Running = {}
  <1>1. SUFFICES ASSUME NEW q \in Running PROVE FALSE
    OBVIOUS
  <1>2. Running = {q}
    BY <1>1 DEF Alone
  <1>3. Cardinality({q}) = 1
    BY FS_Singleton
  <1>4. QED BY <1>2, <1>3

(* The handler of r goes on with j, and no other runs. *)
Turn(r, j) ==
    /\ job' = [job EXCEPT ![r] = j] /\ job'[r] = j
    /\ inSeries /\ inSeries' = inSeries /\ faults' = faults
    /\ \A q \in Requests \ {r} : job[q] \in {Waiting, Done} /\ job'[q] = job[q]

LEMMA Turns ==
    ASSUME JobsOK, Alone, inSeries, NEW r \in Requests, NEW j,
           Begin(r, j) \/ (r \in Running /\ Continue(r, j))
    PROVE  Turn(r, j)
  <1>1. Running \subseteq {r}
    BY RestsBefore DEF Begin, Alone
  <1>2. job' = [job EXCEPT ![r] = j] /\ inSeries' = inSeries /\ faults' = faults
    BY DEF Begin, Continue
  <1>3. \A q \in Requests \ {r} : job[q] \in {Waiting, Done}
    BY <1>1 DEF Running
  <1>4. QED BY <1>2, <1>3 DEF Turn, JobsOK

LEMMA AloneKeptByMoves ==
    ASSUME JobsOK, Alone, NEW S, Waiting \notin S, Done \notin S, Moves(S)
    PROVE  Alone'
  <1> SUFFICES ASSUME inSeries, NEW q \in Running', NEW z \in Running' PROVE q = z
    BY DEF Moves, Alone
  <1>1. PICK r \in Requests, j \in S \union {Done} :
            /\ job' = [job EXCEPT ![r] = j]
            /\ job[r] \in S \/ Cardinality(Running) < 1
    BY DEF Moves
  <1>2. Running \subseteq {r}
    BY <1>1, RestsBefore DEF Alone, Running
  <1>3. QED BY <1>1, <1>2 DEF Running, JobsOK

LEMMA AloneKept ==
    ASSUME Types, Alone, [Next]_vars
    PROVE  Alone'
  <1>1. CASE Moves(CartJobs) \/ Moves(BuilderJobs) \/ Moves(FileJobs)
    BY <1>1, AloneKeptByMoves, JobsApart DEF Types
  <1>2. CASE Framed(CartJobs) /\ \A r \in Running' : r \in Running
    BY <1>2 DEF Framed, Alone
  <1>3. QED BY <1>1, <1>2, PartSteps DEF CartKept, BuilderKept

LEMMA AloneInit == ASSUME Init PROVE Alone
  BY DEF Init, RequestsInit, Alone, Running

-----------------------------------------------------------------------------
(* One at a time, a cart holds items of the shop it is labelled with, and  *)
(* one of each product; a handler that is to label it or to add to it has  *)
(* made room for that.                                                     *)

CartOrdered(k) ==
    \A x, y \in ItemsOf(k) :
        /\ cart[k] # None /\ cart[k].shop = ShopOf[item[x].product]
        /\ item[x].product = item[y].product => x = y

AddFits(j) ==
    /\ j \in CartJob \union ClearJob => j.copy = cart[j.cart]
    /\ j \in CartJob /\ j.at = "label" =>
        \A x \in ItemsOf(j.cart) : ShopOf[item[x].product] = ShopOf[j.product]
    /\ j \in ItemJob =>
        /\ cart[j.cart] # None /\ cart[j.cart].shop = ShopOf[j.product]
        /\ j.at = "insert" => \A x \in ItemsOf(j.cart) : item[x].product # j.product
    /\ j \in ClearJob => ItemsOf(j.cart) = {}

CartsOrdered ==
    inSeries => /\ \A k \in Carts : CartOrdered(k)
                /\ \A r \in Requests : AddFits(job[r])

CartKinds == CartJob \union ItemJob \union ClearJob

LEMMA AddFitsNone ==
    /\ \A j : j \notin CartKinds => AddFits(j) /\ AddFits(j)'
    /\ Waiting \notin CartKinds /\ Done \notin CartKinds
    /\ AddJob \intersect CartKinds = {} /\ WriteJob \intersect CartKinds = {}
    /\ OrderJob \intersect CartKinds = {} /\ StageJob \intersect CartKinds = {}
    /\ PayJob \intersect CartKinds = {} /\ ProductJob \intersect CartKinds = {}
    /\ StockJob \intersect CartKinds = {}
    /\ CartKinds \subseteq CartJobs
  <1>1. \A j : j \notin CartKinds => AddFits(j) /\ AddFits(j)'
    BY DEF AddFits, CartKinds
  <1>2. \A j \in CartKinds : j.op \in {"add", "clear"}
    BY DEF CartKinds, CartJob, ItemJob, ClearJob
  <1>3. AddJob \intersect CartKinds = {}
    BY DEF CartKinds, CartJob, ItemJob, ClearJob, AddJob
  <1>4. QED
    BY <1>1, <1>2, <1>3, JobOps, CartJobKinds DEF CartJobs, CartKinds

(* The handler that has its turn is all there is to look at. *)
LEMMA CartsTurn ==
    ASSUME JobsOK, NEW r \in Requests, NEW j, Turn(r, j), AddFits(j)',
           \A k \in Carts : CartOrdered(k)'
    PROVE  CartsOrdered'
  <1>1. \A q \in Requests : job'[q] = j \/ job'[q] \in {Waiting, Done}
    BY DEF Turn
  <1>2. \A q \in Requests : AddFits(job[q])'
    <2>1. TAKE q \in Requests
    <2>2. PICK i : i = job'[q]
      OBVIOUS
    <2>3. AddFits(i)'
      BY <1>1, <2>2, AddFitsNone
    <2>4. QED BY <2>2, <2>3
  <1>3. QED BY <1>2 DEF CartsOrdered

LEMMA CartsSame ==
    ASSUME UNCHANGED <<cart, item>>
    PROVE  /\ \A k : ItemsOf(k)' = ItemsOf(k) /\ (CartOrdered(k)' <=> CartOrdered(k))
           /\ \A j : AddFits(j)' <=> AddFits(j)
  BY DEF ItemsOf, CartOrdered, AddFits

(* A handler that writes neither carts nor items. *)
LEMMA CartsAside ==
    ASSUME JobsOK, CartsOrdered, inSeries, NEW r \in Requests, NEW j, Turn(r, j),
           j \notin CartKinds, UNCHANGED <<cart, item>>
    PROVE  CartsOrdered'
  BY CartsSame, CartsTurn, AddFitsNone DEF CartsOrdered

LEMMA CartsStepAside ==
    ASSUME JobsOK, CartTypes, CartHeld, CartSound, Alone, inSeries, CartsOrdered,
           NEW r \in Requests,
           \/ \E o \in Users, p \in Products, q \in Quantities : AddItem(r, o, p, q)
           \/ \E o \in Guests, p \in Products, q \in Quantities : GuestAddItem(r, o, p, q)
           \/ \E o \in Users : CheckoutCart(r, o)
           \/ \E lines \in GuestLines, s \in Shops : GuestCheckout(r, lines, s)
           \/ \E o \in Orders, stage \in Stages : UpdateOrderStatus(r, o, stage)
           \/ \E o \in Orders : PaystackCharge(r, o)
           \/ \E s \in Shops, n \in Stocks, limit \in 0..MaxProducts :
                CreateProduct(r, s, n, limit)
           \/ \E p \in Products, new \in Product : UpdateProduct(r, p, new)
           \/ \E p \in Products : DestroyProduct(r, p)
           \/ \E k \in Carts : \E x \in ItemsOf(k), q \in Quantities : UpdateItem(r, x, q)
           \/ InsertOrder(r) \/ InsertProduct(r) \/ SaveProduct(r)
           \/ SaveOrderStatus(r) \/ CreditOrder(r) \/ CompleteOrder(r)
    PROVE  CartsOrdered'
  <1>a. ASSUME NEW j, j.op \in {"write", "order", "stage", "pay", "product", "done"}
        PROVE  j \notin CartKinds
    BY <1>a DEF CartKinds, CartJob, ItemJob, ClearJob
  <1>b. ASSUME NEW j, j.op = "add", j.at = "cart" PROVE j \notin CartKinds
    BY <1>b DEF CartKinds, CartJob, ItemJob, ClearJob
  <1>c. Done.op = "done"
    BY DEF Done
  <1>d. ASSUME NEW j, j \notin CartKinds, UNCHANGED <<cart, item>>,
               Begin(r, j) \/ (r \in Running /\ Continue(r, j))
        PROVE  CartsOrdered'
    BY <1>d, Turns, CartsAside
  <1>1. ASSUME NEW o, NEW p, NEW q, AddItem(r, o, p, q) PROVE CartsOrdered'
    <2>1. PICK j : /\ Begin(r, j) /\ j.op = "add" /\ j.at = "cart"
                   /\ UNCHANGED <<cart, item>>
      BY <1>1 DEF AddItem, cartVars
    <2>2. QED BY <1>b, <1>d, <2>1
  <1>2. CASE \/ \E o \in Users : CheckoutCart(r, o)
             \/ \E lines \in GuestLines, s \in Shops : GuestCheckout(r, lines, s)
             \/ \E o \in Orders, stage \in Stages : UpdateOrderStatus(r, o, stage)
             \/ \E k \in Carts : \E x \in ItemsOf(k), q \in Quantities : UpdateItem(r, x, q)
    <2>1. PICK j : /\ Begin(r, j) /\ j.op \in {"order", "stage", "write"}
                   /\ UNCHANGED <<cart, item>>
      BY <1>2 DEF CheckoutCart, GuestCheckout, UpdateOrderStatus, UpdateItem, cartVars
    <2>2. QED BY <1>a, <1>d, <2>1
  <1>3. CASE \/ \E o \in Orders : PaystackCharge(r, o)
             \/ \E s \in Shops, n \in Stocks, limit \in 0..MaxProducts :
                    CreateProduct(r, s, n, limit)
             \/ \E p \in Products, new \in Product : UpdateProduct(r, p, new)
             \/ \E p \in Products : DestroyProduct(r, p)
    <2>1. PICK j : /\ Begin(r, j) /\ j.op \in {"pay", "product", "done"}
                   /\ UNCHANGED <<cart, item>>
      BY <1>3, <1>c DEF PaystackCharge, CreateProduct, UpdateProduct, DestroyProduct, cartVars
    <2>2. QED BY <1>a, <1>d, <2>1
  <1>4. CASE CreditOrder(r)
    <2>1. r \in Running /\ job[r] \in PayJob
      BY <1>4, JobAt DEF CreditOrder
    <2>2. PICK j : Continue(r, j) /\ j.op = "pay" /\ UNCHANGED <<cart, item>>
      BY <1>4, <2>1 DEF CreditOrder, PayJob
    <2>3. QED BY <1>a, <1>d, <2>1, <2>2
  <1>5. CASE \/ InsertOrder(r) \/ InsertProduct(r) \/ SaveProduct(r) \/ SaveOrderStatus(r)
             \/ CompleteOrder(r)
    <2>1. r \in Running
      BY <1>5, JobAt DEF InsertOrder, InsertProduct, SaveProduct, SaveOrderStatus, CompleteOrder
    <2>2. Continue(r, Done) /\ UNCHANGED <<cart, item>>
      BY <1>5 DEF InsertOrder, InsertProduct, SaveProduct, SaveOrderStatus, CompleteOrder, Finish
    <2>3. QED BY <1>a, <1>c, <1>d, <2>1, <2>2
  <1>6. QED BY <1>1, <1>2, <1>3, <1>4, <1>5 DEF GuestAddItem

LEMMA CartsAddStep ==
    ASSUME JobsOK, CartTypes, CartHeld, Alone, inSeries, CartsOrdered, NEW r \in Requests,
           \/ FindCart(r) \/ CreateCart(r) \/ CheckShop(r) \/ PurgeCart(r) \/ LabelCart(r)
    PROVE  CartsOrdered'
  <1> USE DEF CartTypes
  <1>a. \A k \in Carts : CartOrdered(k)
    BY DEF CartsOrdered
  <1>b. AddFits(job[r]) /\ CartFits(job[r])
    BY DEF CartsOrdered, CartHeld
  <1>c. \A j \in CartJob : (AddFits(j)' <=>
            /\ j.copy = cart'[j.cart]
            /\ j.at = "label" => \A x \in ItemsOf(j.cart)' :
                    ShopOf[item'[x].product] = ShopOf[j.product])
    BY DEF AddFits, CartJob, ItemJob, ClearJob
  <1>d. \A j \in ItemJob : (AddFits(j)' <=>
            /\ cart'[j.cart] # None /\ cart'[j.cart].shop = ShopOf[j.product]
            /\ j.at = "insert" => \A x \in ItemsOf(j.cart)' : item'[x].product # j.product)
    BY DEF AddFits, CartJob, ItemJob, ClearJob
  <1>e. \A p \in Products : ShopOf[p] \in Shops
    BY ShopOfAssumption
  <1>1. ASSUME NEW k \in Carts, r \in Running, GotCart(r, k), \A l \in Carts : CartOrdered(l)'
        PROVE  CartsOrdered'
    <2>1. PICK j : j = [op |-> "add", at |-> "check", product |-> job[r].product,
                        quantity |-> job[r].quantity, stock |-> job[r].stock,
                        cart |-> k, copy |-> cart'[k]]
      OBVIOUS
    <2>2. AddFits(j)'
      BY <2>1 DEF AddFits, ItemJob, ClearJob
    <2>3. Turn(r, j)
      BY <1>1, <2>1, Turns DEF GotCart
    <2>4. QED BY <1>1, <2>2, <2>3, CartsTurn
  <1>2. CASE FindCart(r)
    <2>1. job[r] \in AddJob /\ r \in Running /\ UNCHANGED <<cart, item>>
      BY <1>2, JobAt DEF FindCart, cartVars
    <2>2. CASE Continue(r, [job[r] EXCEPT !.at = "create"])
      <3>1. PICK j : j = [job[r] EXCEPT !.at = "create"]
        OBVIOUS
      <3>2. j \in AddJob
        BY <2>1, <3>1 DEF AddJob
      <3>3. QED BY <2>1, <2>2, <3>1, <3>2, Turns, CartsAside, AddFitsNone
    <2>3. \A l \in Carts : CartOrdered(l)'
      BY <1>a, <2>1, CartsSame
    <2>4. QED BY <1>1, <1>2, <2>1, <2>2, <2>3 DEF FindCart, Found, CartsOf
  <1>3. CASE CreateCart(r)
    <2>1. job[r] \in AddJob /\ r \in Running /\ item' = item
      BY <1>3, JobAt DEF CreateCart
    <2>2. CASE Finish(r) /\ UNCHANGED cart
      BY <2>1, <2>2, Turns, CartsAside, AddFitsNone DEF Finish
    <2>3. ASSUME NEW k \in Carts, cart[k] = None, GotCart(r, k), NEW row,
                 cart' = [cart EXCEPT ![k] = row]
          PROVE  CartsOrdered'
      <3>1. ItemsOf(k) = {}
        BY <1>a, <2>3 DEF CartOrdered
      <3>2. ASSUME NEW l \in Carts PROVE CartOrdered(l)'
        <4>1. ItemsOf(l)' = ItemsOf(l)
          BY <2>1 DEF ItemsOf
        <4>2. l = k \/ cart'[l] = cart[l]
          BY <2>3
        <4>3. QED BY <1>a, <2>1, <3>1, <4>1, <4>2 DEF CartOrdered
      <3>3. QED BY <1>1, <2>1, <2>3, <3>2
    <2>4. QED BY <1>3, <2>2, <2>3 DEF CreateCart
  <1>4. CASE CheckShop(r)
    <2>1. job[r] \in CartJob /\ r \in Running /\ UNCHANGED <<cart, item>>
      BY <1>4, JobAt DEF CheckShop, cartVars
    <2>2. \A l \in Carts : CartOrdered(l)'
      BY <1>a, <2>1, CartsSame
    <2>3. PICK at \in {"purge", "label"} :
            /\ at = IF Foreign(job[r].cart, ShopOf[job[r].product]) THEN "purge" ELSE "label"
            /\ Continue(r, [job[r] EXCEPT !.at = at])
      BY <1>4 DEF CheckShop
    <2>4. PICK j : j = [job[r] EXCEPT !.at = at]
      OBVIOUS
    <2>5. /\ j \in CartJob /\ j.at = at /\ j.cart = job[r].cart /\ j.copy = job[r].copy
          /\ j.product = job[r].product /\ job[r].copy = cart[job[r].cart]
      BY <1>b, <2>1, <2>4 DEF CartJob, AddFits
    <2>6. at = "label" => \A x \in ItemsOf(j.cart)' : ShopOf[item'[x].product] = ShopOf[j.product]
      BY <2>1, <2>3, <2>5, CartsSame DEF Foreign
    <2>7. AddFits(j)'
      BY <1>c, <2>1, <2>5, <2>6
    <2>8. QED BY <2>1, <2>2, <2>3, <2>4, <2>7, Turns, CartsTurn
  <1>5. CASE PurgeCart(r)
    <2>1. job[r] \in CartJob /\ r \in Running /\ cart' = cart /\ item' = Emptied(job[r].cart)
      BY <1>5, JobAt DEF PurgeCart
    <2>2. PICK k : k = job[r].cart
      OBVIOUS
    <2>0. ItemsOf(k)' = {}
      BY <2>1, <2>2 DEF ItemsOf, Emptied
    <2>3. ASSUME NEW l \in Carts PROVE CartOrdered(l)'
      <3>1. \A x \in ItemsOf(l)' : x \in ItemsOf(l) /\ item'[x] = item[x]
        BY <2>1 DEF ItemsOf, Emptied
      <3>2. QED BY <1>a, <2>1, <3>1 DEF CartOrdered
    <2>4. PICK j : j = [job[r] EXCEPT !.at = "label"]
      OBVIOUS
    <2>5. j \in CartJob /\ j.cart = k /\ j.copy = cart[k]
      BY <1>b, <2>1, <2>2, <2>4 DEF CartJob, AddFits
    <2>6. AddFits(j)'
      BY <1>c, <2>0, <2>1, <2>5
    <2>7. QED BY <1>5, <2>1, <2>3, <2>4, <2>6, Turns, CartsTurn DEF PurgeCart
  <1>6. CASE LabelCart(r)
    <2>1. /\ job[r] \in CartJob /\ job[r].at = "label" /\ r \in Running /\ item' = item
          /\ job[r].cart \in Carts /\ job[r].product \in Products
      BY <1>6, JobAt, CartJobKinds DEF LabelCart
    <2>2. PICK s \in Shops : s = ShopOf[job[r].product]
      BY <1>e, <2>1
    <2>3. /\ job[r].copy = cart[job[r].cart] /\ cart[job[r].cart] \in CartRow
          /\ \A x \in ItemsOf(job[r].cart) : ShopOf[item[x].product] = s
      BY <1>b, <2>1, <2>2 DEF AddFits, CartFits
    <2>4. PICK row \in CartRow : row.shop = s /\ cart' = [cart EXCEPT ![job[r].cart] = row]
      <3>1. PICK t \in {cart[job[r].cart].shop, s} :
             /\ Saved(cart[job[r].cart], job[r].copy, [job[r].copy EXCEPT !.shop = s])
                    = [owner |-> cart[job[r].cart].owner, shop |-> t]
             /\ t = s
        BY <2>3, SavedCart
      <3>2. cart' = [cart EXCEPT ![job[r].cart] = [owner |-> cart[job[r].cart].owner, shop |-> s]]
        BY <1>6, <2>1, <2>2, <3>1 DEF LabelCart, SaveCart
      <3>3. PICK row : row = [owner |-> cart[job[r].cart].owner, shop |-> s]
        OBVIOUS
      <3>4. row \in CartRow /\ row.shop = s
        BY <2>3, <3>3 DEF CartRow
      <3>5. QED BY <3>2, <3>3, <3>4
    <2>5. cart'[job[r].cart] = row /\ row # None
      BY <2>1, <2>4, MissingRowsAssumption
    <2>6. ASSUME NEW l \in Carts PROVE CartOrdered(l)'
      <3>1. ItemsOf(l)' = ItemsOf(l)
        BY <2>1 DEF ItemsOf
      <3>2. l = job[r].cart \/ cart'[l] = cart[l]
        BY <2>4
      <3>3. QED BY <1>a, <2>1, <2>3, <2>4, <2>5, <3>1, <3>2 DEF CartOrdered
    <2>7. PICK j : j = [op |-> "add", at |-> "item", product |-> job[r].product,
                    quantity |-> job[r].quantity, stock |-> job[r].stock, cart |-> job[r].cart]
      OBVIOUS
    <2>8. /\ j \in ItemJob /\ j.product = job[r].product /\ j.cart = job[r].cart
          /\ j.at = "item"
      BY <2>1, <2>7 DEF ItemJob, CartJob
    <2>9. AddFits(j)'
      BY <1>d, <2>2, <2>4, <2>5, <2>8
    <2>10. QED BY <1>6, <2>1, <2>6, <2>7, <2>9, Turns, CartsTurn DEF LabelCart
  <1>7. QED BY <1>2, <1>3, <1>4, <1>5, <1>6

LEMMA CartsItemStep ==
    ASSUME JobsOK, CartTypes, CartHeld, Alone, inSeries, CartsOrdered, NEW r \in Requests,
           \/ FindItem(r) \/ InsertItem(r) \/ SaveItem(r) \/ UnlabelCart(r)
           \/ \E k \in Carts : \/ \E x \in ItemsOf(k) : RemoveItem(r, x)
                               \/ ClearCart(r, k)
    PROVE  CartsOrdered'
  <1> USE DEF CartTypes
  <1>a. \A k \in Carts : CartOrdered(k)
    BY DEF CartsOrdered
  <1>b. AddFits(job[r]) /\ CartFits(job[r])
    BY DEF CartsOrdered, CartHeld
  <1>c. \A j \in ItemJob : (AddFits(j)' <=>
            /\ cart'[j.cart] # None /\ cart'[j.cart].shop = ShopOf[j.product]
            /\ j.at = "insert" => \A x \in ItemsOf(j.cart)' : item'[x].product # j.product)
    BY DEF AddFits, CartJob, ItemJob, ClearJob
  <1>d. Done \notin CartKinds /\ AddFits(Done)'
    BY AddFitsNone
  (* Items are taken out. *)
  <1>e. ASSUME NEW l \in Carts, cart' = cart,
               \A x \in ItemsOf(l)' : x \in ItemsOf(l) /\ item'[x] = item[x]
        PROVE  CartOrdered(l)'
    BY <1>a, <1>e DEF CartOrdered
  <1>1. CASE FindItem(r)
    <2>1. /\ job[r] \in ItemJob /\ r \in Running /\ UNCHANGED <<cart, item>>
      BY <1>1, JobAt DEF FindItem, cartVars
    <2>2. \A l \in Carts : CartOrdered(l)'
      BY <1>a, <2>1, CartsSame
    <2>3. CASE /\ Continue(r, [job[r] EXCEPT !.at = "insert"])
               /\ {x \in ItemsOf(job[r].cart) : item[x].product = job[r].product} = {}
      <3>1. PICK j : j = [job[r] EXCEPT !.at = "insert"]
        OBVIOUS
      <3>2. j \in ItemJob /\ j.product = job[r].product /\ j.cart = job[r].cart
        BY <2>1, <3>1 DEF ItemJob
      <3>3. \A x \in ItemsOf(j.cart)' : item'[x].product # j.product
        BY <2>1, <2>3, <3>2, CartsSame
      <3>4. cart'[j.cart] # None /\ cart'[j.cart].shop = ShopOf[j.product]
        BY <1>b, <2>1, <3>2 DEF AddFits
      <3>5. AddFits(j)'
        BY <1>c, <3>2, <3>3, <3>4
      <3>6. QED BY <2>1, <2>2, <2>3, <3>1, <3>5, Turns, CartsTurn
    <2>4. ASSUME NEW j, Continue(r, j), j.op = "write" PROVE CartsOrdered'
      <3>1. j \notin CartKinds
        BY <2>4 DEF CartKinds, CartJob, ItemJob, ClearJob
      <3>2. QED BY <2>1, <2>4, <3>1, Turns, CartsAside
    <2>5. QED
      <3>1. CASE {x \in ItemsOf(job[r].cart) : item[x].product = job[r].product} = {}
        BY <1>1, <2>3, <3>1 DEF FindItem
      <3>2. CASE {x \in ItemsOf(job[r].cart) : item[x].product = job[r].product} # {}
        <4>1. PICK x : Continue(r, [op |-> "write", at |-> "save", item |-> x, copy |-> item[x],
                   quantity |-> Within(item[x].quantity + job[r].quantity, job[r].stock)])
          BY <1>1, <3>2 DEF FindItem
        <4>2. PICK j : j = [op |-> "write", at |-> "save", item |-> x, copy |-> item[x],
                   quantity |-> Within(item[x].quantity + job[r].quantity, job[r].stock)]
          OBVIOUS
        <4>3. j.op = "write"
          BY <4>2
        <4>4. QED BY <2>4, <4>1, <4>2, <4>3
      <3>3. QED BY <3>1, <3>2
  <1>2. CASE InsertItem(r)
    <2>1. /\ job[r] \in ItemJob /\ job[r].at = "insert" /\ r \in Running /\ cart' = cart
          /\ job[r].cart \in Carts
      BY <1>2, JobAt DEF InsertItem, ItemJob
    <2>2. /\ cart[job[r].cart] # None /\ cart[job[r].cart].shop = ShopOf[job[r].product]
          /\ \A x \in ItemsOf(job[r].cart) : item[x].product # job[r].product
      BY <1>b, <2>1 DEF AddFits
    <2>3. PICK row : row = [cart |-> job[r].cart, product |-> job[r].product,
                            quantity |-> Within(job[r].quantity, job[r].stock)]
      OBVIOUS
    <2>4. PICK x \in Items : item[x] = None /\ item' = [item EXCEPT ![x] = row]
      BY <1>2, <2>3 DEF InsertItem, Unused
    <2>5. row.cart = job[r].cart /\ row.product = job[r].product
      BY <2>3
    <2>6. ASSUME NEW l \in Carts PROVE CartOrdered(l)'
      <3>1. \A y \in ItemsOf(l)' : \/ y \in ItemsOf(l) /\ item'[y] = item[y] /\ y # x
                                   \/ y = x /\ item'[y] = row /\ l = job[r].cart
        BY <2>4, <2>5 DEF ItemsOf
      <3>2. QED BY <1>a, <2>1, <2>2, <2>5, <3>1 DEF CartOrdered
    <2>7. QED BY <1>2, <1>d, <2>1, <2>6, Turns, CartsTurn DEF InsertItem, Finish
  <1>3. CASE SaveItem(r)
    <2>1. /\ job[r] \in WriteJob /\ r \in Running /\ cart' = cart
          /\ job[r].item \in Items /\ job[r].copy \in ItemRow /\ job[r].quantity \in Nat
      BY <1>3, JobAt DEF SaveItem, WriteJob
    <2>2. PICK x \in Items : x = job[r].item
      BY <2>1
    <2>3. \A y \in Items : /\ item'[y] # None => item[y] # None
                           /\ item[y] # None /\ item'[y] # None =>
                                /\ item'[y].cart = item[y].cart
                                /\ item'[y].product = item[y].product
      <3>1. CASE item[x] = None
        BY <1>3, <2>2, <3>1 DEF SaveItem
      <3>2. CASE item[x] # None
        <4>0. item[x] \in ItemRow
          BY <3>2
        <4>1. PICK n \in {item[x].quantity, job[r].quantity} :
                Saved(item[x], job[r].copy, [job[r].copy EXCEPT !.quantity = job[r].quantity]) =
                    [cart |-> item[x].cart, product |-> item[x].product, quantity |-> n]
          BY <2>1, <4>0, SavedItem
        <4>2. PICK row :
                row = [cart |-> item[x].cart, product |-> item[x].product, quantity |-> n]
          OBVIOUS
        <4>3. item' = [item EXCEPT ![x] = row]
          BY <1>3, <2>2, <3>2, <4>1, <4>2 DEF SaveItem
        <4>4. row.cart = item[x].cart /\ row.product = item[x].product
          BY <4>2
        <4>5. QED BY <3>2, <4>3, <4>4
      <3>3. QED BY <3>1, <3>2
    <2>4. ASSUME NEW l \in Carts PROVE CartOrdered(l)'
      <3>1. \A y \in ItemsOf(l)' : y \in ItemsOf(l) /\ item'[y].product = item[y].product
        BY <2>3 DEF ItemsOf
      <3>2. QED BY <1>a, <2>1, <3>1 DEF CartOrdered
    <2>5. QED BY <1>3, <1>d, <2>1, <2>4, Turns, CartsTurn DEF SaveItem, Finish
  <1>4. CASE UnlabelCart(r)
    <2>1. /\ job[r] \in ClearJob /\ r \in Running /\ item' = item /\ job[r].cart \in Carts
      BY <1>4, JobAt, CartJobKinds DEF UnlabelCart
    <2>2. ItemsOf(job[r].cart) = {}
      BY <1>b, <2>1 DEF AddFits
    <2>3. PICK row : cart' = [cart EXCEPT ![job[r].cart] = row]
      BY <1>4 DEF UnlabelCart, SaveCart
    <2>4. ASSUME NEW l \in Carts PROVE CartOrdered(l)'
      <3>1. ItemsOf(l)' = ItemsOf(l)
        BY <2>1 DEF ItemsOf
      <3>2. l = job[r].cart \/ cart'[l] = cart[l]
        BY <2>3
      <3>3. QED BY <1>a, <2>1, <2>2, <3>1, <3>2 DEF CartOrdered
    <2>5. QED BY <1>4, <1>d, <2>1, <2>4, Turns, CartsTurn DEF UnlabelCart, Finish
  <1>5. ASSUME NEW x, RemoveItem(r, x) PROVE CartsOrdered'
    <2>1. item' = [item EXCEPT ![x] = None] /\ cart' = cart
      BY <1>5 DEF RemoveItem
    <2>2. ASSUME NEW l \in Carts PROVE CartOrdered(l)'
      <3>1. \A y \in ItemsOf(l)' : y \in ItemsOf(l) /\ item'[y] = item[y]
        BY <2>1 DEF ItemsOf
      <3>2. QED BY <1>e, <2>1, <3>1
    <2>3. QED BY <1>5, <1>d, <2>2, Turns, CartsTurn DEF RemoveItem
  <1>6. ASSUME NEW k \in Carts, ClearCart(r, k) PROVE CartsOrdered'
    <2>1. item' = Emptied(k) /\ cart' = cart
      BY <1>6 DEF ClearCart
    <2>2. ASSUME NEW l \in Carts PROVE CartOrdered(l)'
      <3>1. \A y \in ItemsOf(l)' : y \in ItemsOf(l) /\ item'[y] = item[y]
        BY <2>1 DEF ItemsOf, Emptied
      <3>2. QED BY <1>e, <2>1, <3>1
    <2>3. ItemsOf(k)' = {}
      BY <2>1 DEF ItemsOf, Emptied
    <2>4. PICK j : j = [op |-> "clear", at |-> "label", cart |-> k, copy |-> cart[k]]
      OBVIOUS
    <2>5. AddFits(j)'
      BY <2>1, <2>3, <2>4 DEF AddFits, CartJob, ItemJob
    <2>6. QED BY <1>6, <2>2, <2>4, <2>5, Turns, CartsTurn DEF ClearCart
  <1>7. QED BY <1>1, <1>2, <1>3, <1>4, <1>5, <1>6

LEMMA CartsOrderedKept ==
    ASSUME Types, Alone, CartsOrdered, [Next]_vars
    PROVE  CartsOrdered'
  <1> USE DEF Types
  <1>1. CASE CartNext /\ inSeries
    <2> USE <1>1
    <2>1. \A o : CartsOf(o) \subseteq Carts
      BY DEF CartsOf
    <2>2. PICK r \in Requests :
            \/ \E o \in Users, p \in Products, q \in Quantities : AddItem(r, o, p, q)
            \/ \E o \in Guests, p \in Products, q \in Quantities : GuestAddItem(r, o, p, q)
            \/ \E o \in Users : \E k \in CartsOf(o) :
                \/ \E x \in ItemsOf(k) :
                    RemoveItem(r, x) \/ \E q \in Quantities : UpdateItem(r, x, q)
                \/ ClearCart(r, k)
            \/ \E o \in Guests : \E k \in CartsOf(o) :
                \/ \E x \in ItemsOf(k) :
                    GuestRemoveItem(r, x) \/ \E q \in Quantities : GuestUpdateItem(r, x, q)
                \/ GuestClear(r, k)
            \/ \E o \in Users : CheckoutCart(r, o)
            \/ \E lines \in GuestLines, s \in Shops : GuestCheckout(r, lines, s)
            \/ \E o \in Orders, stage \in Stages : UpdateOrderStatus(r, o, stage)
            \/ \E o \in Orders : PaystackCharge(r, o)
            \/ \E s \in Shops, n \in Stocks, limit \in 0..MaxProducts :
                    CreateProduct(r, s, n, limit)
            \/ \E p \in Products, new \in Product : UpdateProduct(r, p, new)
            \/ \E p \in Products : DestroyProduct(r, p)
            \/ FindCart(r) \/ CreateCart(r) \/ CheckShop(r) \/ PurgeCart(r) \/ LabelCart(r)
            \/ FindItem(r) \/ InsertItem(r) \/ SaveItem(r) \/ UnlabelCart(r)
            \/ InsertOrder(r) \/ InsertProduct(r) \/ SaveProduct(r)
            \/ SaveOrderStatus(r) \/ CreditOrder(r) \/ CompleteOrder(r)
      BY DEF CartNext
    <2>3. CASE \E o : \E k \in CartsOf(o) :
                \/ \E x \in ItemsOf(k) :
                    RemoveItem(r, x) \/ \E q \in Quantities : UpdateItem(r, x, q)
                \/ ClearCart(r, k)
      BY <2>1, <2>3, CartsItemStep, CartsStepAside
    <2>4. QED BY <2>2, <2>3, CartsAddStep, CartsItemStep, CartsStepAside
             DEF GuestRemoveItem, GuestUpdateItem, GuestClear
  <1>2. CASE Framed(CartJobs) /\ UNCHANGED cartVars /\ inSeries
    <2>1. UNCHANGED <<cart, item>>
      BY <1>2 DEF cartVars
    <2>2. \A k \in Carts : CartOrdered(k)'
      BY <1>2, <2>1, CartsSame DEF CartsOrdered
    <2>3. ASSUME NEW q \in Requests PROVE AddFits(job[q])'
      <3>1. PICK j : j = job'[q]
        OBVIOUS
      <3>2. j \in CartKinds => j = job[q]
        BY <1>2, <3>1, AddFitsNone DEF Framed
      <3>3. AddFits(j)'
        BY <1>2, <2>1, <3>2, CartsSame, AddFitsNone DEF CartsOrdered
      <3>4. QED BY <3>1, <3>3
    <2>4. QED BY <2>2, <2>3 DEF CartsOrdered
  <1>3. inSeries' = inSeries
    BY PartSteps DEF CartKept, Moves, Framed
  <1>4. QED BY <1>1, <1>2, <1>3, PartSteps DEF CartsOrdered

LEMMA CartsOrderedInit == ASSUME Init PROVE CartsOrdered
  <1>1. \A k : ItemsOf(k) = {}
    BY DEF Init, CartInit, ItemsOf
  <1>2. \A r \in Requests : AddFits(job[r])
    BY AddFitsNone DEF Init, RequestsInit
  <1>3. QED BY <1>1, <1>2 DEF CartsOrdered, CartOrdered

(* A customer's order is of the one shop that is paid for it and, as every *)
(* cart, asks for no more than was ever in stock, however requests         *)
(* overlap; one at a time, a cart is of one shop too.                      *)
THEOREM OrdersStaySound == Spec => []OrdersAreSound
  <1>1. Init => Types /\ Alone /\ CartsOrdered
    BY TypesInit, AloneInit, CartsOrderedInit
  <1>2. Types /\ Alone /\ CartsOrdered /\ [Next]_vars => (Types /\ Alone /\ CartsOrdered)'
    BY TypesKept, AloneKept, CartsOrderedKept
  <1>3. Types /\ CartsOrdered => OrdersAreSound
    <2>1. CartsOrdered => CartOfOneShop
      BY DEF CartsOrdered, CartOrdered, CartOfOneShop
    <2>2. Types => OrderOfOneShop /\ WithinStock
      BY DEF Types, CartSound, OrderOfOneShop, WithinStock, Sells
    <2>3. QED BY <2>1, <2>2 DEF OrdersAreSound
  <1>4. QED BY <1>1, <1>2, <1>3, PTL DEF Spec

-----------------------------------------------------------------------------
(* One at a time, an order is credited as often as it says, but for the    *)
(* handler that has credited it and is to say so.                          *)

Due(o) == IF order[o] # None /\ order[o].status = "completed" THEN 1 ELSE 0

Pays(r, o) == job[r] \in PayJob /\ job[r].at = "save" /\ job[r].order = o

PayFits(j) ==
    /\ j \in StageJob \union PayJob => order[j.order] = j.copy
    /\ j \in PayJob /\ faults = 0 => credits[j.order] = IF j.at = "credit" THEN 0 ELSE 1

OrdersPaid ==
    inSeries => /\ \A r \in Requests : PayFits(job[r])
                /\ faults = 0 => \A o \in Orders :
                        credits[o] = Due(o) \/ \E r \in Requests : Pays(r, o)

LEMMA PayFitsNone ==
    /\ \A j : j \notin StageJob \union PayJob => PayFits(j) /\ PayFits(j)'
    /\ \A j : j.op \notin {"stage", "pay"} => j \notin StageJob \union PayJob
    /\ StageJob \union PayJob \subseteq CartJobs
    /\ Waiting.op \notin {"stage", "pay"} /\ Done.op \notin {"stage", "pay"}
  BY JobOps, CartJobKinds DEF PayFits, CartJobs

LEMMA PaidTurn ==
    ASSUME JobsOK, NEW r \in Requests, NEW j, Turn(r, j), PayFits(j)',
           faults = 0 => \A o \in Orders : \/ credits'[o] = Due(o)'
                                           \/ j \in PayJob /\ j.at = "save" /\ j.order = o
    PROVE  OrdersPaid'
  <1>1. \A q \in Requests : job'[q] = j \/ job'[q] \in {Waiting, Done}
    BY DEF Turn
  <1>2. ASSUME NEW q \in Requests PROVE PayFits(job[q])'
    <2>2. PICK i : i = job'[q]
      OBVIOUS
    <2>3. PayFits(i)'
      BY <1>1, <2>2, PayFitsNone
    <2>4. QED BY <2>2, <2>3
  <1>3. ASSUME NEW o \in Orders, faults = 0
        PROVE  credits'[o] = Due(o)' \/ \E q \in Requests : Pays(q, o)'
    BY <1>3 DEF Pays, Turn
  <1>4. QED BY <1>2, <1>3 DEF OrdersPaid, Turn

(* Nothing that counts was running before. *)
LEMMA PaidBefore ==
    ASSUME OrdersPaid, NEW r \in Requests, NEW j, Turn(r, j), faults = 0,
           job[r] \notin PayJob \/ job[r].at # "save"
    PROVE  \A o \in Orders : credits[o] = Due(o)
  <1>1. ASSUME NEW q \in Requests, NEW o PROVE ~Pays(q, o)
    BY PayFitsNone DEF Pays, Turn
  <1>2. QED BY <1>1 DEF OrdersPaid, Turn

LEMMA PaidAside ==
    ASSUME JobsOK, Alone, OrdersPaid, inSeries, NEW r \in Requests, NEW j,
           Begin(r, j) \/ (r \in Running /\ Continue(r, j)),
           job[r].op \notin {"stage", "pay"}, j.op \notin {"stage", "pay"},
           UNCHANGED <<order, credits>>
    PROVE  OrdersPaid'
  <1>1. Turn(r, j)
    BY Turns
  <1>2. faults = 0 => \A o \in Orders : credits'[o] = Due(o)'
    BY <1>1, PaidBefore, PayFitsNone DEF Due
  <1>3. QED BY <1>1, <1>2, PaidTurn, PayFitsNone

LEMMA PaidStepAside ==
    ASSUME JobsOK, CartTypes, Alone, inSeries, OrdersPaid, NEW r \in Requests,
           \/ \E o, p, q : AddItem(r, o, p, q)
           \/ \E x : RemoveItem(r, x) \/ \E q : UpdateItem(r, x, q)
           \/ \E k : ClearCart(r, k)
           \/ \E o : CheckoutCart(r, o)
           \/ \E lines, s : GuestCheckout(r, lines, s)
           \/ \E s, n, limit : CreateProduct(r, s, n, limit)
           \/ \E p, new : UpdateProduct(r, p, new)
           \/ \E p : DestroyProduct(r, p)
           \/ FindCart(r) \/ CreateCart(r) \/ CheckShop(r) \/ PurgeCart(r) \/ LabelCart(r)
           \/ FindItem(r) \/ InsertItem(r) \/ SaveItem(r) \/ UnlabelCart(r)
           \/ InsertProduct(r) \/ SaveProduct(r)
    PROVE  OrdersPaid'
  <1>a. Done.op = "done" /\ Waiting.op = "waiting"
    BY DEF Done, Waiting
  <1>b. \A j : Begin(r, j) => job[r] = Waiting
    BY DEF Begin
  <1>c. ASSUME NEW k, GotCart(r, k) PROVE \E j : Continue(r, j) /\ j.op = "add"
    <2>1. PICK j : j = [op |-> "add", at |-> "check", product |-> job[r].product,
                        quantity |-> job[r].quantity, stock |-> job[r].stock,
                        cart |-> k, copy |-> cart'[k]]
      OBVIOUS
    <2>2. QED BY <1>c, <2>1 DEF GotCart
  <1>1. ASSUME NEW o, NEW p, NEW q, AddItem(r, o, p, q) PROVE OrdersPaid'
    <2>1. PICK j : Begin(r, j) /\ j.op = "add" /\ UNCHANGED <<order, credits>>
      BY <1>1 DEF AddItem, cartVars
    <2>2. QED BY <1>a, <1>b, <2>1, PaidAside
  <1>2. CASE \/ \E x : RemoveItem(r, x) \/ \E q : UpdateItem(r, x, q)
             \/ \E k : ClearCart(r, k)
             \/ \E o : CheckoutCart(r, o)
             \/ \E lines, s : GuestCheckout(r, lines, s)
    <2>1. PICK j : /\ Begin(r, j) /\ j.op \in {"done", "write", "clear", "order"}
                   /\ UNCHANGED <<order, credits>>
      BY <1>2, <1>a
         DEF RemoveItem, UpdateItem, ClearCart, CheckoutCart, GuestCheckout, cartVars
    <2>2. QED BY <1>a, <1>b, <2>1, PaidAside
  <1>3. CASE \/ \E s, n, limit : CreateProduct(r, s, n, limit)
             \/ \E p, new : UpdateProduct(r, p, new)
             \/ \E p : DestroyProduct(r, p)
    <2>1. PICK j : /\ Begin(r, j) /\ j.op \in {"done", "product"}
                   /\ UNCHANGED <<order, credits>>
      BY <1>3, <1>a DEF CreateProduct, UpdateProduct, DestroyProduct, cartVars
    <2>2. QED BY <1>a, <1>b, <2>1, PaidAside
  <1>4. CASE FindCart(r)
    <2>1. /\ job[r].op = "add" /\ [job[r] EXCEPT !.at = "create"].op = "add" /\ r \in Running
          /\ UNCHANGED <<order, credits>>
      BY <1>4, JobAt DEF FindCart, AddJob, cartVars
    <2>2. PICK j : Continue(r, j) /\ j.op = "add"
      BY <1>4, <1>c, <2>1 DEF FindCart
    <2>3. QED BY <2>1, <2>2, PaidAside
  <1>5. CASE CreateCart(r)
    <2>1. job[r].op = "add" /\ r \in Running /\ UNCHANGED <<order, credits>>
      BY <1>5, JobAt DEF CreateCart
    <2>2. PICK j : Continue(r, j) /\ j.op \in {"done", "add"}
      BY <1>5, <1>a, <1>c DEF CreateCart, Finish
    <2>3. QED BY <2>1, <2>2, PaidAside
  <1>6. CASE CheckShop(r) \/ PurgeCart(r) \/ LabelCart(r)
    <2>1. /\ job[r].op = "add" /\ r \in Running /\ UNCHANGED <<order, credits>>
          /\ job[r] \in CartJob
      BY <1>6, JobAt DEF CheckShop, PurgeCart, LabelCart, cartVars
    <2>2. \A at : [job[r] EXCEPT !.at = at].op = "add"
      BY <2>1 DEF CartJob
    <2>3. PICK j : Continue(r, j) /\ j.op = "add"
      BY <1>6, <2>2 DEF CheckShop, PurgeCart, LabelCart
    <2>4. QED BY <2>1, <2>3, PaidAside
  <1>7. CASE FindItem(r)
    <2>1. /\ job[r].op = "add" /\ r \in Running /\ UNCHANGED <<order, credits>>
          /\ [job[r] EXCEPT !.at = "insert"].op = "add"
      BY <1>7, JobAt DEF FindItem, ItemJob, cartVars
    <2>2. CASE {x \in ItemsOf(job[r].cart) : item[x].product = job[r].product} = {}
      BY <1>7, <2>1, <2>2, PaidAside DEF FindItem
    <2>3. CASE {x \in ItemsOf(job[r].cart) : item[x].product = job[r].product} # {}
      <3>1. PICK x : Continue(r, [op |-> "write", at |-> "save", item |-> x, copy |-> item[x],
                   quantity |-> Within(item[x].quantity + job[r].quantity, job[r].stock)])
        BY <1>7, <2>3 DEF FindItem
      <3>2. PICK j : j = [op |-> "write", at |-> "save", item |-> x, copy |-> item[x],
                   quantity |-> Within(item[x].quantity + job[r].quantity, job[r].stock)]
        OBVIOUS
      <3>3. j.op = "write"
        BY <3>2
      <3>4. QED BY <2>1, <3>1, <3>2, <3>3, PaidAside
    <2>4. QED BY <2>2, <2>3
  <1>8. CASE \/ InsertItem(r) \/ SaveItem(r) \/ UnlabelCart(r)
             \/ InsertProduct(r) \/ SaveProduct(r)
    <2>1. job[r].op \in {"add", "write", "clear", "product"} /\ r \in Running
      BY <1>8, JobAt DEF InsertItem, SaveItem, UnlabelCart, InsertProduct, SaveProduct
    <2>2. Continue(r, Done) /\ UNCHANGED <<order, credits>>
      BY <1>8 DEF InsertItem, SaveItem, UnlabelCart, InsertProduct, SaveProduct, Finish
    <2>3. QED BY <1>a, <2>1, <2>2, PaidAside
  <1>9. QED BY <1>1, <1>2, <1>3, <1>4, <1>5, <1>6, <1>7, <1>8

LEMMA PaidOrderStep ==
    ASSUME JobsOK, CartTypes, CartHeld, Alone, inSeries, OrdersPaid, NEW r \in Requests,
           \/ InsertOrder(r)
           \/ \E o \in Orders, stage \in Stages : UpdateOrderStatus(r, o, stage)
           \/ SaveOrderStatus(r)
           \/ \E o \in Orders : PaystackCharge(r, o)
           \/ CreditOrder(r) \/ CompleteOrder(r)
    PROVE  OrdersPaid'
  <1> USE DEF CartTypes
  <1>a. PayFits(job[r]) /\ CartFits(job[r])
    BY DEF OrdersPaid, CartHeld
  <1>b. PayFits(Done)' /\ Done \notin PayJob
    BY PayFitsNone
  <1>1. CASE InsertOrder(r)
    <2>1. job[r].op = "order" /\ r \in Running /\ credits' = credits
      BY <1>1, JobAt DEF InsertOrder
    <2>2. Turn(r, Done)
      BY <1>1, <2>1, Turns DEF InsertOrder, Finish
    <2>3. PICK o \in Orders :
            /\ order[o] = None
            /\ order' = [order EXCEPT ![o] = NewOrder(job[r].lines, job[r].shop, job[r].guest)]
      BY <1>1 DEF InsertOrder
    <2>4. ASSUME NEW i \in Orders PROVE Due(i)' = Due(i)
      BY <2>3 DEF Due, NewOrder
    <2>5. faults = 0 => \A i \in Orders : credits'[i] = Due(i)'
      BY <2>1, <2>2, <2>4, PaidBefore, PayFitsNone
    <2>6. QED BY <1>b, <2>2, <2>5, PaidTurn
  <1>2. ASSUME NEW o \in Orders, NEW stage \in Stages, UpdateOrderStatus(r, o, stage)
        PROVE  OrdersPaid'
    <2>1. PICK j : j = [op |-> "stage", at |-> "save", order |-> o, copy |-> order[o],
                        stage |-> stage]
      OBVIOUS
    <2>2. Turn(r, j) /\ UNCHANGED <<order, credits>> /\ job[r] = Waiting
      BY <1>2, <2>1, Turns DEF UpdateOrderStatus, Begin, cartVars
    <2>3. PayFits(j)'
      BY <2>1, <2>2, CartJobKinds DEF PayFits
    <2>4. faults = 0 => \A i \in Orders : credits'[i] = Due(i)'
      BY <2>2, PaidBefore, PayFitsNone DEF Due
    <2>5. QED BY <2>2, <2>3, <2>4, PaidTurn
  <1>3. CASE SaveOrderStatus(r)
    <2>1. /\ job[r] \in StageJob /\ r \in Running /\ credits' = credits
          /\ job[r].order \in Orders /\ job[r].copy \in Order /\ job[r].stage \in Stages
          /\ job[r].op = "stage"
      BY <1>3, JobAt, CartJobKinds DEF SaveOrderStatus, StageJob
    <2>2. Turn(r, Done)
      BY <1>3, <2>1, Turns DEF SaveOrderStatus, Finish
    <2>3. PICK o \in Orders : o = job[r].order
      BY <2>1
    <2>4. order[o] \in Order /\ order[o] # None
      BY <1>a, <2>1, <2>3 DEF CartFits
    <2>5. PICK m \in Metadata :
             Saved(order[o], job[r].copy, [job[r].copy EXCEPT !.metadata.stage = job[r].stage]) =
                [lines |-> order[o].lines, shop |-> order[o].shop,
                   guest |-> order[o].guest, status |-> order[o].status, metadata |-> m]
      BY <2>1, <2>4, SavedStage
    <2>6. PICK row : row = [lines |-> order[o].lines, shop |-> order[o].shop,
                   guest |-> order[o].guest, status |-> order[o].status, metadata |-> m]
      OBVIOUS
    <2>7. order' = [order EXCEPT ![o] = row]
      BY <1>3, <2>3, <2>5, <2>6 DEF SaveOrderStatus, SaveOrder
    <2>8. row.status = order[o].status /\ row # None
      <3>1. row \in Order /\ row.status = order[o].status
        BY <2>4, <2>6 DEF Order
      <3>2. QED BY <3>1, MissingRowsAssumption
    <2>9. ASSUME NEW i \in Orders PROVE Due(i)' = Due(i)
      BY <2>4, <2>7, <2>8 DEF Due
    <2>10. job[r] \notin PayJob
      BY <2>1, CartJobKinds
    <2>11. faults = 0 => \A i \in Orders : credits'[i] = Due(i)'
      BY <2>1, <2>2, <2>9, <2>10, PaidBefore
    <2>12. QED BY <1>b, <2>2, <2>11, PaidTurn
  <1>4. ASSUME NEW o \in Orders, PaystackCharge(r, o)
        PROVE  OrdersPaid'
    <2>1. UNCHANGED <<order, credits>> /\ order[o] # None
      BY <1>4 DEF PaystackCharge, cartVars
    <2>2. CASE Credited(order[o])
      BY <1>4, <2>1, <2>2, PaidAside, PayFitsNone DEF PaystackCharge, Begin
    <2>3. CASE ~Credited(order[o])
      <3>1. PICK j : j = [op |-> "pay", at |-> "credit", order |-> o, copy |-> order[o]]
        OBVIOUS
      <3>2. Turn(r, j) /\ job[r] = Waiting
        BY <1>4, <2>3, <3>1, Turns DEF PaystackCharge, Begin
      <3>3. faults = 0 => \A i \in Orders : credits'[i] = Due(i)' /\ credits[i] = Due(i)
        BY <2>1, <3>2, PaidBefore, PayFitsNone DEF Due
      <3>4. Due(o) = 0
        BY <2>3 DEF Due, Credited
      <3>5. faults' = faults
        BY <3>2 DEF Turn
      <3>6. PayFits(j)'
        BY <2>1, <3>1, <3>3, <3>4, <3>5, CartJobKinds DEF PayFits
      <3>7. QED BY <3>2, <3>3, <3>6, PaidTurn
    <2>4. QED BY <2>2, <2>3
  <1>5. CASE CreditOrder(r)
    <2>1. /\ job[r] \in PayJob /\ job[r].at = "credit" /\ r \in Running /\ order' = order
          /\ job[r].order \in Orders
      BY <1>5, JobAt, CartJobKinds DEF CreditOrder
    <2>2. PICK o \in Orders : o = job[r].order
      BY <2>1
    <2>3. credits' = [credits EXCEPT ![o] = credits[o] + 1]
      BY <1>5, <2>2 DEF CreditOrder
    <2>4. PICK j : j = [job[r] EXCEPT !.at = "save"]
      OBVIOUS
    <2>5. j \in PayJob /\ j.at = "save" /\ j.order = o /\ j.copy = job[r].copy
      BY <2>1, <2>2, <2>4 DEF PayJob
    <2>6. Turn(r, j)
      BY <1>5, <2>1, <2>4, Turns DEF CreditOrder
    <2>7. faults' = faults
      BY <2>6 DEF Turn
    <2>8. order[o] = j.copy /\ (faults = 0 => credits[o] = 0)
      BY <1>a, <2>1, <2>2, <2>5 DEF PayFits
    <2>9. PayFits(j)'
      BY <2>1, <2>2, <2>3, <2>5, <2>7, <2>8 DEF PayFits
    <2>10. ASSUME faults = 0, NEW i \in Orders, i # o PROVE credits'[i] = Due(i)'
      BY <2>1, <2>3, <2>6, <2>10, PaidBefore DEF Due
    <2>11. QED BY <2>5, <2>6, <2>9, <2>10, PaidTurn
  <1>6. CASE CompleteOrder(r)
    <2>1. /\ job[r] \in PayJob /\ job[r].at = "save" /\ r \in Running /\ credits' = credits
          /\ job[r].order \in Orders /\ job[r].copy \in Order
      BY <1>6, JobAt, CartJobKinds DEF CompleteOrder
    <2>2. Turn(r, Done)
      BY <1>6, <2>1, Turns DEF CompleteOrder, Finish
    <2>3. PICK o \in Orders : o = job[r].order
      BY <2>1
    <2>4. /\ order[o] \in Order /\ order[o] # None /\ job[r].copy.status = "created"
          /\ faults = 0 => credits[o] = 1
      BY <1>a, <2>1, <2>3 DEF CartFits, PayFits
    <2>5. PICK m \in Metadata :
             Saved(order[o], job[r].copy, Paid(job[r].copy)) =
                [lines |-> order[o].lines, shop |-> order[o].shop,
                   guest |-> order[o].guest, status |-> "completed", metadata |-> m]
      BY <2>1, <2>4, SavedPaid
    <2>6. PICK row : row = [lines |-> order[o].lines, shop |-> order[o].shop,
                   guest |-> order[o].guest, status |-> "completed", metadata |-> m]
      OBVIOUS
    <2>7. order' = [order EXCEPT ![o] = row]
      BY <1>6, <2>3, <2>5, <2>6 DEF CompleteOrder, SaveOrder
    <2>8. row.status = "completed" /\ row # None
      <3>1. row \in Order /\ row.status = "completed"
        BY <2>4, <2>6 DEF Order
      <3>2. QED BY <3>1, MissingRowsAssumption
    <2>9. ASSUME faults = 0, NEW i \in Orders PROVE credits'[i] = Due(i)'
      <3>1. CASE i = o
        BY <2>1, <2>4, <2>7, <2>8, <2>9, <3>1 DEF Due
      <3>2. CASE i # o
        <4>1. \A q \in Requests : ~Pays(q, i)
          BY <2>2, <2>3, <3>2, PayFitsNone DEF Pays, Turn
        <4>2. credits[i] = Due(i)
          BY <2>9, <4>1 DEF OrdersPaid
        <4>3. QED BY <2>1, <2>7, <3>2, <4>2 DEF Due
      <3>3. QED BY <3>1, <3>2
    <2>10. QED BY <1>b, <2>2, <2>9, PaidTurn
  <1>7. QED BY <1>1, <1>2, <1>3, <1>4, <1>5, <1>6

LEMMA OrdersPaidKept ==
    ASSUME Types, Alone, OrdersPaid, [Next]_vars
    PROVE  OrdersPaid'
  <1> USE DEF Types
  <1>1. CASE CartNext /\ inSeries
    BY <1>1, PaidStepAside, PaidOrderStep
       DEF CartNext, GuestAddItem, GuestRemoveItem, GuestUpdateItem, GuestClear
  <1>2. CASE Framed(CartJobs) /\ UNCHANGED cartVars /\ inSeries
    <2>1. /\ UNCHANGED <<order, credits>> /\ faults \in Nat
          /\ faults' \in {faults, faults + 1}
          /\ \A q \in Requests : job'[q] \in StageJob \union PayJob => job'[q] = job[q]
      BY <1>2, PayFitsNone DEF cartVars, Framed, JobsOK
    <2>2. ASSUME NEW q \in Requests PROVE PayFits(job[q])'
      <3>1. PICK j : j = job'[q]
        OBVIOUS
      <3>2. CASE j \in StageJob \union PayJob
        <4>1. j = job[q]
          BY <2>1, <3>1, <3>2
        <4>2. PayFits(j)
          BY <1>2, <4>1 DEF OrdersPaid
        <4>3. faults' = 0 => faults = 0
          BY <2>1
        <4>4. PayFits(j)'
          BY <2>1, <4>2, <4>3 DEF PayFits
        <4>5. QED BY <3>1, <4>4
      <3>3. QED BY <3>1, <3>2, PayFitsNone
    <2>3. ASSUME faults' = 0, NEW o \in Orders
          PROVE  credits'[o] = Due(o)' \/ \E r \in Requests : Pays(r, o)'
      <3>1. faults = 0 /\ faults' = faults
        BY <2>1, <2>3
      <3>2. \A r \in Requests : job[r] \in PayJob => job'[r] = job[r]
        BY <1>2, <3>1, PayFitsNone DEF Framed
      <3>3. credits[o] = Due(o) \/ \E r \in Requests : Pays(r, o)
        BY <1>2, <3>1 DEF OrdersPaid
      <3>4. QED BY <2>1, <3>2, <3>3 DEF Due, Pays
    <2>4. QED BY <2>2, <2>3 DEF OrdersPaid
  <1>3. inSeries' = inSeries
    BY PartSteps DEF CartKept, Moves, Framed
  <1>4. QED BY <1>1, <1>2, <1>3, PartSteps DEF OrdersPaid

(* Orders are written by the handlers that make one, that give it a status *)
(* and that complete it.                                                   *)
LEMMA OrderWriters ==
    ASSUME CartNext, order' # order
    PROVE  \E r \in Requests : InsertOrder(r) \/ SaveOrderStatus(r) \/ CompleteOrder(r)
  <1>1. PICK r \in Requests :
            \/ \E o, p, q : AddItem(r, o, p, q)
            \/ \E x : RemoveItem(r, x) \/ \E q : UpdateItem(r, x, q)
            \/ \E k : ClearCart(r, k)
            \/ \E o : CheckoutCart(r, o)
            \/ \E lines, s : GuestCheckout(r, lines, s)
            \/ \E o, stage : UpdateOrderStatus(r, o, stage)
            \/ \E o : PaystackCharge(r, o)
            \/ \E s, n, limit : CreateProduct(r, s, n, limit)
            \/ \E p, new : UpdateProduct(r, p, new)
            \/ \E p : DestroyProduct(r, p)
            \/ FindCart(r) \/ CreateCart(r) \/ CheckShop(r) \/ PurgeCart(r) \/ LabelCart(r)
            \/ FindItem(r) \/ InsertItem(r) \/ SaveItem(r) \/ UnlabelCart(r)
            \/ InsertOrder(r) \/ InsertProduct(r) \/ SaveProduct(r)
            \/ SaveOrderStatus(r) \/ CreditOrder(r) \/ CompleteOrder(r)
    BY DEF CartNext, GuestAddItem, GuestRemoveItem, GuestUpdateItem, GuestClear
  <1>2. CASE \/ \E o, p, q : AddItem(r, o, p, q)
             \/ \E x : RemoveItem(r, x) \/ \E q : UpdateItem(r, x, q)
             \/ \E k : ClearCart(r, k)
             \/ \E o : CheckoutCart(r, o)
             \/ \E lines, s : GuestCheckout(r, lines, s)
             \/ \E o, stage : UpdateOrderStatus(r, o, stage)
             \/ \E o : PaystackCharge(r, o)
    BY <1>2 DEF AddItem, RemoveItem, UpdateItem, ClearCart, CheckoutCart, GuestCheckout,
          UpdateOrderStatus, PaystackCharge, cartVars
  <1>3. CASE \/ \E s, n, limit : CreateProduct(r, s, n, limit)
             \/ \E p, new : UpdateProduct(r, p, new)
             \/ \E p : DestroyProduct(r, p)
             \/ FindCart(r) \/ CreateCart(r) \/ CheckShop(r) \/ PurgeCart(r) \/ LabelCart(r)
    BY <1>3 DEF CreateProduct, UpdateProduct, DestroyProduct, FindCart, CreateCart, CheckShop,
          PurgeCart, LabelCart, cartVars
  <1>4. CASE \/ FindItem(r) \/ InsertItem(r) \/ SaveItem(r) \/ UnlabelCart(r)
             \/ InsertProduct(r) \/ SaveProduct(r) \/ CreditOrder(r)
    BY <1>4 DEF FindItem, InsertItem, SaveItem, UnlabelCart, InsertProduct,
          SaveProduct, CreditOrder, cartVars
  <1>5. QED BY <1>1, <1>2, <1>3, <1>4

(* Neither payments nor anything else but the merchant changes the stage   *)
(* of an order.                                                            *)
LEMMA StageKept ==
    ASSUME Types, OrdersPaid, [Next]_vars, inSeries, order' # order,
           NEW o \in Orders, order[o] # None,
           order'[o].metadata.stage # order[o].metadata.stage
    PROVE  \E r \in Requests : At(r, "stage", "save") /\ job[r].order = o
  <1> USE DEF Types, CartTypes
  <1>1. PICK r \in Requests : InsertOrder(r) \/ SaveOrderStatus(r) \/ CompleteOrder(r)
    BY PartSteps, OrderWriters DEF cartVars
  <1>2. CASE InsertOrder(r)
    BY <1>2 DEF InsertOrder
  <1>3. CASE SaveOrderStatus(r)
    BY <1>3 DEF SaveOrderStatus, SaveOrder
  <1>4. CASE CompleteOrder(r)
    <2>1. /\ job[r] \in PayJob /\ job[r].order \in Orders /\ job[r].copy \in Order
      BY <1>4, JobAt, CartJobKinds DEF CompleteOrder
    <2>2. job[r].order = o
      BY <1>4, <2>1 DEF CompleteOrder, SaveOrder
    <2>3. PayFits(job[r]) /\ CartFits(job[r])
      BY DEF OrdersPaid, CartHeld
    <2>4. job[r].copy = order[o] /\ job[r].copy.status = "created" /\ order[o] \in Order
      BY <2>1, <2>2, <2>3 DEF PayFits, CartFits
    <2>5. PICK m \in Metadata :
             /\ Saved(order[o], job[r].copy, Paid(job[r].copy)) =
                    [lines |-> order[o].lines, shop |-> order[o].shop,
                   guest |-> order[o].guest, status |-> "completed", metadata |-> m]
             /\ m.stage = order[o].metadata.stage
      BY <2>1, <2>4, SavedPaid
    <2>6. PICK row : row = [lines |-> order[o].lines, shop |-> order[o].shop,
                   guest |-> order[o].guest, status |-> "completed", metadata |-> m]
      OBVIOUS
    <2>7. order' = [order EXCEPT ![o] = row] /\ row.metadata = m
      BY <1>4, <2>2, <2>5, <2>6 DEF CompleteOrder, SaveOrder
    <2>8. QED BY <2>5, <2>7
  <1>5. QED BY <1>1, <1>2, <1>3, <1>4

LEMMA OrdersPaidInit == ASSUME Init PROVE Types /\ OrdersPaid
  <1>1. Types
    BY TypesInit
  <1>2. \A o \in Orders : order[o] # None => order[o].status = "created"
    <2>1. CartSound /\ credits = [o \in Orders |-> 0]
      BY <1>1 DEF Types, Init, CartInit
    <2>2. \A o \in Orders : order[o] # None => order[o] \in Order
      BY <1>1 DEF Types, CartTypes
    <2>3. QED BY <2>1, <2>2 DEF CartSound, Order
  <1>3. \A o \in Orders : credits[o] = Due(o)
    BY <1>2 DEF Init, CartInit, Due
  <1>4. \A r \in Requests : PayFits(job[r])
    BY PayFitsNone DEF Init, RequestsInit
  <1>5. QED BY <1>1, <1>3, <1>4 DEF OrdersPaid

(* One at a time, an order has the stage that the merchant last gave it.   *)
THEOREM StatusesStay == Spec => StatusStays
  <1>1. Init => Types /\ Alone /\ OrdersPaid
    BY OrdersPaidInit, AloneInit
  <1>2. Types /\ Alone /\ OrdersPaid /\ [Next]_vars => (Types /\ Alone /\ OrdersPaid)'
    BY TypesKept, AloneKept, OrdersPaidKept
  <1>3. Types /\ OrdersPaid /\ [Next]_vars =>
            [inSeries => \A o \in Orders :
                order[o] # None /\ order'[o].metadata.stage # order[o].metadata.stage =>
                    \E r \in Requests : At(r, "stage", "save") /\ job[r].order = o]_order
    BY StageKept
  <1>4. QED BY <1>1, <1>2, <1>3, PTL DEF Spec, StatusStays

-----------------------------------------------------------------------------
(* One at a time, an owner for whom a cart is to be made has none, and a   *)
(* shop that is to get a product has room for it.                          *)

ToMake(j) == j.op = "add" /\ j.at = "create"

RoomFits(j) ==
    /\ j \in AddJob /\ ToMake(j) => CartsOf(j.owner) = {}
    /\ j \in ProductJob => Cardinality(ProductsOf(j.shop)) < MaxProducts

RoomKept ==
    /\ \A o \in Owners : o \in Guests \/ inSeries => \A k, l \in CartsOf(o) : k = l
    /\ inSeries => /\ \A r \in Requests : RoomFits(job[r])
                   /\ \A s \in Shops : Cardinality(ProductsOf(s)) <= MaxProducts

(* No cart or product is made, and none is to be made. *)
Roomy ==
    /\ \A k \in Carts : /\ cart'[k] = None <=> cart[k] = None
                        /\ cart[k] # None => cart'[k].owner = cart[k].owner
    /\ \A p \in Products : product'[p] = None <=> product[p] = None
    /\ inSeries' = inSeries
    /\ \A r \in Requests :
        job'[r] = job[r] \/ (~ToMake(job'[r]) /\ job'[r] \notin ProductJob)

LEMMA RoomyKept ==
    ASSUME RoomKept, Roomy
    PROVE  RoomKept'
  <1>1. \A o : CartsOf(o)' = CartsOf(o)
    BY DEF Roomy, CartsOf
  <1>2. \A s : ProductsOf(s)' = ProductsOf(s)
    BY DEF Roomy, ProductsOf
  <1>3. ASSUME inSeries, NEW r \in Requests PROVE RoomFits(job[r])'
    <2>1. PICK j : j = job'[r]
      OBVIOUS
    <2>2. RoomFits(j) => RoomFits(j)'
      BY <1>1, <1>2 DEF RoomFits
    <2>3. CASE j = job[r]
      BY <1>3, <2>1, <2>2, <2>3 DEF RoomKept
    <2>4. CASE ~ToMake(j) /\ j \notin ProductJob
      BY <2>1, <2>4 DEF RoomFits
    <2>5. QED BY <2>1, <2>3, <2>4 DEF Roomy
  <1>4. QED BY <1>1, <1>2, <1>3 DEF RoomKept, Roomy

LEMMA RoomStepAside ==
    ASSUME JobsOK, CartTypes, CartHeld, CartTypes', NEW r \in Requests,
           \/ \E o, p, q : AddItem(r, o, p, q)
           \/ \E x : RemoveItem(r, x) \/ \E q : UpdateItem(r, x, q)
           \/ \E k : ClearCart(r, k)
           \/ \E o : CheckoutCart(r, o)
           \/ \E lines, s : GuestCheckout(r, lines, s)
           \/ \E o, stage : UpdateOrderStatus(r, o, stage)
           \/ \E o : PaystackCharge(r, o)
           \/ \E p, new : UpdateProduct(r, p, new)
           \/ \E p : DestroyProduct(r, p)
           \/ SaveProduct(r)
           \/ CheckShop(r) \/ PurgeCart(r) \/ LabelCart(r)
           \/ FindItem(r) \/ InsertItem(r) \/ SaveItem(r) \/ UnlabelCart(r)
           \/ InsertOrder(r) \/ SaveOrderStatus(r) \/ CreditOrder(r) \/ CompleteOrder(r)
    PROVE  Roomy
  <1>a. Done.op = "done"
    BY DEF Done
  <1>b. ASSUME NEW j, Begin(r, j) \/ Continue(r, j), ~ToMake(j), j \notin ProductJob,
               \A k \in Carts : /\ cart'[k] = None <=> cart[k] = None
                                /\ cart[k] # None => cart'[k].owner = cart[k].owner,
               \A p \in Products : product'[p] = None <=> product[p] = None
        PROVE  Roomy
    <2>1. \A q \in Requests : job'[q] = job[q] \/ job'[q] = j
      BY <1>b DEF Begin, Continue, JobsOK
    <2>2. inSeries' = inSeries
      BY <1>b DEF Begin, Continue
    <2>3. QED BY <1>b, <2>1, <2>2 DEF Roomy
  <1>c. ASSUME NEW j, Begin(r, j) \/ Continue(r, j), ~ToMake(j), j \notin ProductJob,
               UNCHANGED <<cart, product>>
        PROVE  Roomy
    BY <1>b, <1>c
  <1>d. \A j : j.op # "add" \/ j.at # "create" => ~ToMake(j)
    BY DEF ToMake
  <1>e. \A j : j.op # "product" => j \notin ProductJob
    BY CartJobKinds
  <1>1. ASSUME NEW o, NEW p, NEW q, AddItem(r, o, p, q) PROVE Roomy
    <2>1. PICK j : Begin(r, j) /\ j.op = "add" /\ j.at = "cart" /\ UNCHANGED <<cart, product>>
      BY <1>1 DEF AddItem, cartVars
    <2>2. QED BY <1>c, <1>d, <1>e, <2>1
  <1>2. CASE \/ \E x : RemoveItem(r, x) \/ \E q : UpdateItem(r, x, q)
             \/ \E k : ClearCart(r, k)
             \/ \E o : CheckoutCart(r, o)
             \/ \E lines, s : GuestCheckout(r, lines, s)
             \/ \E o, stage : UpdateOrderStatus(r, o, stage)
    <2>1. PICK j : /\ Begin(r, j) /\ j.op \in {"done", "write", "clear", "order", "stage"}
                   /\ UNCHANGED <<cart, product>>
      BY <1>2, <1>a DEF RemoveItem, UpdateItem, ClearCart, CheckoutCart, GuestCheckout,
            UpdateOrderStatus, cartVars
    <2>2. QED BY <1>c, <1>d, <1>e, <2>1
  <1>3. CASE \E o : PaystackCharge(r, o)
    <2>1. PICK j : Begin(r, j) /\ j.op \in {"done", "pay"} /\ UNCHANGED <<cart, product>>
      BY <1>3, <1>a DEF PaystackCharge, cartVars
    <2>2. QED BY <1>c, <1>d, <1>e, <2>1
  <1>4. CASE \/ \E p, new : UpdateProduct(r, p, new)
             \/ \E p : DestroyProduct(r, p)
    <2>1. PICK p, new : UpdateProduct(r, p, new)
      BY <1>4 DEF DestroyProduct
    <2>2. PICK j : j = [op |-> "product", at |-> "save", product |-> p, copy |-> product[p],
                        new |-> new]
      OBVIOUS
    <2>3. ~ToMake(j) /\ j \notin ProductJob
      BY <2>2 DEF ToMake, ProductJob
    <2>4. QED BY <1>c, <2>1, <2>2, <2>3 DEF UpdateProduct, cartVars
  <1>5. CASE SaveProduct(r)
    <2>1. job[r] \in StockJob /\ CartFits(job[r]) /\ cart' = cart /\ Continue(r, Done)
      BY <1>5, JobAt DEF SaveProduct, CartHeld, Finish
    <2>2. PICK p \in Products : p = job[r].product /\ product[p] # None
      BY <2>1, CartJobKinds DEF CartFits, AddJob, CartJob, ItemJob, WriteJob, ClearJob, OrderJob,
            StageJob, PayJob, StockJob
    <2>3. PICK row : row = Saved(product[p], job[r].copy, job[r].new)
      OBVIOUS
    <2>4. row \in Product
      BY <2>1, <2>2, <2>3, CartJobKinds DEF CartTypes, Saved, Product
    <2>5. product' = [product EXCEPT ![p] = row]
      BY <1>5, <2>2, <2>3 DEF SaveProduct
    <2>6. \A q \in Products : product'[q] = None <=> product[q] = None
      BY <2>2, <2>4, <2>5, MissingRowsAssumption DEF CartTypes
    <2>7. QED BY <1>a, <1>b, <1>d, <1>e, <2>1, <2>6
  <1>6. CASE CheckShop(r) \/ PurgeCart(r)
    <2>1. job[r] \in CartJob /\ UNCHANGED <<cart, product>>
      BY <1>6, JobAt DEF CheckShop, PurgeCart, cartVars
    <2>2. \A at \in {"purge", "label"} : ~ToMake([job[r] EXCEPT !.at = at])
                                         /\ [job[r] EXCEPT !.at = at].op = "add"
      BY <2>1 DEF CartJob, ToMake
    <2>3. PICK j : Continue(r, j) /\ ~ToMake(j) /\ j.op = "add"
      BY <1>6, <2>2 DEF CheckShop, PurgeCart
    <2>4. QED BY <1>c, <1>e, <2>1, <2>3
  <1>7. ASSUME LabelCart(r) \/ UnlabelCart(r) PROVE Roomy
    <2>1. PICK s \in Shops \union {None} :
            /\ SaveCart(r, s) /\ job[r].cart \in Carts /\ job[r].copy \in CartRow
            /\ job[r] \in CartJob \union ClearJob /\ product' = product
      <3>1. ShopOf \in [Products -> Shops]
        BY ShopOfAssumption
      <3>2. CASE LabelCart(r)
        <4>1. job[r] \in CartJob
          BY <3>2, JobAt DEF LabelCart
        <4>2. QED BY <3>1, <3>2, <4>1 DEF LabelCart, CartJob
      <3>3. CASE UnlabelCart(r)
        <4>1. job[r] \in ClearJob
          BY <3>3, JobAt DEF UnlabelCart
        <4>2. QED BY <3>3, <4>1 DEF UnlabelCart, ClearJob
      <3>4. QED BY <1>7, <3>2, <3>3
    <2>2. PICK k \in Carts : k = job[r].cart
      BY <2>1
    <2>3. cart[k] \in CartRow
      BY <2>1, <2>2 DEF CartHeld, CartFits, CartTypes
    <2>4. PICK t \in {cart[k].shop, s} :
             Saved(cart[k], job[r].copy, [job[r].copy EXCEPT !.shop = s])
                = [owner |-> cart[k].owner, shop |-> t]
      BY <2>1, <2>3, SavedCart
    <2>5. PICK row : row = [owner |-> cart[k].owner, shop |-> t]
      OBVIOUS
    <2>6. cart' = [cart EXCEPT ![k] = row] /\ row.owner = cart[k].owner
      BY <2>1, <2>2, <2>4, <2>5 DEF SaveCart
    <2>7. row \in CartRow
      BY <2>1, <2>3, <2>4, <2>5 DEF CartRow
    <2>8. \A l \in Carts : /\ cart'[l] = None <=> cart[l] = None
                           /\ cart[l] # None => cart'[l].owner = cart[l].owner
      BY <2>3, <2>6, <2>7, MissingRowsAssumption DEF CartTypes
    <2>9. PICK j : Continue(r, j) /\ ~ToMake(j) /\ j \notin ProductJob
      <3>1. CASE LabelCart(r)
        <4>1. PICK j : j = [op |-> "add", at |-> "item", product |-> job[r].product,
                    quantity |-> job[r].quantity, stock |-> job[r].stock, cart |-> job[r].cart]
          OBVIOUS
        <4>2. j.op = "add" /\ j.at = "item"
          BY <4>1
        <4>3. QED BY <1>d, <1>e, <3>1, <4>1, <4>2 DEF LabelCart
      <3>2. QED BY <1>7, <1>a, <1>d, <1>e, <3>1 DEF UnlabelCart, Finish
    <2>10. QED BY <1>b, <2>1, <2>8, <2>9
  <1>8. CASE FindItem(r)
    <2>1. job[r] \in ItemJob /\ UNCHANGED <<cart, product>>
      BY <1>8, JobAt DEF FindItem, cartVars
    <2>2. CASE {x \in ItemsOf(job[r].cart) : item[x].product = job[r].product} = {}
      <3>1. ~ToMake([job[r] EXCEPT !.at = "insert"])
            /\ [job[r] EXCEPT !.at = "insert"].op = "add"
        BY <2>1 DEF ItemJob, ToMake
      <3>2. QED BY <1>8, <1>c, <1>e, <2>1, <2>2, <3>1 DEF FindItem
    <2>3. CASE {x \in ItemsOf(job[r].cart) : item[x].product = job[r].product} # {}
      <3>1. PICK x : Continue(r, [op |-> "write", at |-> "save", item |-> x, copy |-> item[x],
                   quantity |-> Within(item[x].quantity + job[r].quantity, job[r].stock)])
        BY <1>8, <2>3 DEF FindItem
      <3>2. PICK j : j = [op |-> "write", at |-> "save", item |-> x, copy |-> item[x],
                   quantity |-> Within(item[x].quantity + job[r].quantity, job[r].stock)]
        OBVIOUS
      <3>3. j.op = "write"
        BY <3>2
      <3>4. QED BY <1>c, <1>d, <1>e, <2>1, <3>1, <3>2, <3>3
    <2>4. QED BY <2>2, <2>3
  <1>9. CASE \/ InsertItem(r) \/ SaveItem(r) \/ InsertOrder(r) \/ SaveOrderStatus(r)
              \/ CompleteOrder(r)
    <2>1. Continue(r, Done) /\ UNCHANGED <<cart, product>>
      BY <1>9 DEF InsertItem, SaveItem, InsertOrder, SaveOrderStatus, CompleteOrder, Finish
    <2>2. QED BY <1>a, <1>c, <1>d, <1>e, <2>1
  <1>10. CASE CreditOrder(r)
    <2>1. job[r] \in PayJob /\ UNCHANGED <<cart, product>>
      BY <1>10, JobAt DEF CreditOrder
    <2>2. [job[r] EXCEPT !.at = "save"].op = "pay"
      BY <2>1 DEF PayJob
    <2>3. PICK j : Continue(r, j) /\ j.op = "pay"
      BY <1>10, <2>2 DEF CreditOrder
    <2>4. QED BY <1>c, <1>d, <1>e, <2>1, <2>3
  <1>11. QED BY <1>1, <1>2, <1>3, <1>4, <1>5, <1>6, <1>7, <1>8, <1>9, <1>10

LEMMA RoomStep ==
    ASSUME JobsOK, CartTypes, Alone, RoomKept, NEW r \in Requests,
           \/ FindCart(r) \/ CreateCart(r)
           \/ \E s \in Shops, n \in Stocks, limit \in 0..MaxProducts : CreateProduct(r, s, n, limit)
           \/ InsertProduct(r)
    PROVE  RoomKept'
  <1>a. Done.op = "done" /\ ~ToMake(Done)
    BY DEF Done, ToMake
  <1>b. ASSUME NEW j, Begin(r, j) \/ Continue(r, j), ~ToMake(j), j \notin ProductJob,
               UNCHANGED <<cart, product>>
        PROVE  RoomKept'
    <2>1. \A q \in Requests : job'[q] = job[q] \/ job'[q] = j
      BY <1>b DEF Begin, Continue, JobsOK
    <2>2. inSeries' = inSeries
      BY <1>b DEF Begin, Continue
    <2>3. QED BY <1>b, <2>1, <2>2, RoomyKept DEF Roomy
  <1>d. \A j : j.op # "product" => j \notin ProductJob
    BY CartJobKinds
  (* Whether others run or not, r goes on with j. *)
  <1>c. ASSUME NEW j, Begin(r, j) \/ (r \in Running /\ Continue(r, j)), RoomFits(j)',
               \A o \in Owners : o \in Guests \/ inSeries => \A k, l \in CartsOf(o)' : k = l,
               inSeries => \A s \in Shops : Cardinality(ProductsOf(s)') <= MaxProducts
        PROVE  RoomKept'
    <2>1. inSeries' = inSeries
      BY <1>c DEF Begin, Continue
    <2>2. ASSUME inSeries, NEW q \in Requests PROVE RoomFits(job[q])'
      <3>1. Turn(r, j)
        BY <1>c, <2>2, Turns
      <3>2. job'[q] = j \/ job'[q] \in {Waiting, Done}
        BY <3>1 DEF Turn
      <3>3. Waiting \notin AddJob \union ProductJob /\ Done \notin AddJob \union ProductJob
        BY JobsApart DEF CartJobs
      <3>4. QED BY <1>c, <3>2, <3>3 DEF RoomFits
    <2>3. QED BY <1>c, <2>1, <2>2 DEF RoomKept
  <1>1. CASE FindCart(r)
    <2>1. job[r] \in AddJob /\ r \in Running /\ UNCHANGED <<cart, product>>
      BY <1>1, JobAt DEF FindCart, cartVars
    <2>2. CASE Found(job[r].owner) = {}
      <3>1. PICK j : j = [job[r] EXCEPT !.at = "create"]
        OBVIOUS
      <3>2. j \in AddJob /\ j.owner = job[r].owner
        BY <2>1, <3>1 DEF AddJob
      <3>3. RoomFits(j)'
        BY <2>1, <2>2, <3>2, CartJobKinds DEF RoomFits, Found, CartsOf
      <3>4. \A o : CartsOf(o)' = CartsOf(o)
        BY <2>1 DEF CartsOf
      <3>5. \A s : ProductsOf(s)' = ProductsOf(s)
        BY <2>1 DEF ProductsOf
      <3>6. QED BY <1>1, <1>c, <2>1, <2>2, <3>1, <3>3, <3>4, <3>5 DEF FindCart, RoomKept
    <2>3. ASSUME NEW k, GotCart(r, k) PROVE RoomKept'
      <3>1. PICK j : j = [op |-> "add", at |-> "check", product |-> job[r].product,
                        quantity |-> job[r].quantity, stock |-> job[r].stock,
                        cart |-> k, copy |-> cart'[k]]
        OBVIOUS
      <3>2. j.op = "add" /\ ~ToMake(j)
        BY <3>1 DEF ToMake
      <3>3. QED BY <1>b, <1>d, <2>1, <2>3, <3>1, <3>2 DEF GotCart
    <2>4. QED BY <1>1, <2>2, <2>3 DEF FindCart
  <1>2. CASE CreateCart(r)
    <2>1. /\ job[r] \in AddJob /\ ToMake(job[r]) /\ r \in Running /\ product' = product
          /\ job[r].owner \in Owners
      BY <1>2, JobAt DEF CreateCart, ToMake, AddJob
    <2>2. CASE Finish(r) /\ UNCHANGED cart
      BY <1>a, <1>b, <1>d, <2>1, <2>2 DEF Finish
    <2>3. CASE ~(job[r].owner \in Guests /\ CartsOf(job[r].owner) # {})
      <3>1. PICK k \in Carts :
                /\ cart[k] = None /\ GotCart(r, k)
                /\ cart' = [cart EXCEPT ![k] = [owner |-> job[r].owner, shop |-> None]]
        BY <1>2, <2>3 DEF CreateCart
      <3>2. PICK row : row = [owner |-> job[r].owner, shop |-> None]
        OBVIOUS
      <3>3. cart' = [cart EXCEPT ![k] = row] /\ row.owner = job[r].owner
        BY <3>1, <3>2
      <3>4. job[r].owner \in Guests \/ inSeries => CartsOf(job[r].owner) = {}
        BY <2>1, <2>3 DEF RoomKept, RoomFits
      <3>5. ASSUME NEW o \in Owners, o \in Guests \/ inSeries, NEW l \in CartsOf(o)',
                   NEW m \in CartsOf(o)'
            PROVE  l = m
        <4>1. CASE o = job[r].owner
          BY <3>3, <3>4, <3>5, <4>1 DEF CartsOf, CartTypes
        <4>2. CASE o # job[r].owner
          <5>1. l \in CartsOf(o) /\ m \in CartsOf(o)
            BY <3>3, <4>2 DEF CartsOf, CartTypes
          <5>2. QED BY <3>5, <5>1 DEF RoomKept
        <4>3. QED BY <4>1, <4>2
      <3>6. \A s : ProductsOf(s)' = ProductsOf(s)
        BY <2>1 DEF ProductsOf
      <3>7. PICK j : j = [op |-> "add", at |-> "check", product |-> job[r].product,
                        quantity |-> job[r].quantity, stock |-> job[r].stock,
                        cart |-> k, copy |-> cart'[k]]
        OBVIOUS
      <3>8. RoomFits(j)'
        BY <3>7, CartJobKinds DEF RoomFits, ToMake
      <3>9. Continue(r, j)
        BY <3>1, <3>7 DEF GotCart
      <3>10. QED BY <1>c, <2>1, <3>5, <3>6, <3>8, <3>9 DEF RoomKept
    <2>4. QED BY <1>2, <2>2, <2>3 DEF CreateCart
  <1>3. ASSUME NEW s \in Shops, NEW n \in Stocks, NEW limit \in 0..MaxProducts,
               CreateProduct(r, s, n, limit)
        PROVE  RoomKept'
    <2>1. UNCHANGED <<cart, product>>
      BY <1>3 DEF CreateProduct, cartVars
    <2>2. CASE ~Room(s, limit)
      BY <1>3, <1>a, <1>b, <1>d, <2>1, <2>2 DEF CreateProduct
    <2>3. CASE Room(s, limit)
      <3>1. PICK j : j = [op |-> "product", at |-> "insert", shop |-> s, stock |-> n]
        OBVIOUS
      <3>2. \A t : ProductsOf(t)' = ProductsOf(t)
        BY <2>1 DEF ProductsOf
      <3>3. \A o : CartsOf(o)' = CartsOf(o)
        BY <2>1 DEF CartsOf
      <3>4. j.op = "product" /\ j.shop = s
        BY <3>1
      <3>5. RoomFits(j)'
        <4>1. Cardinality(ProductsOf(s)) \in Nat
          BY ProductsAssumption, FS_Subset, FS_CardinalityType DEF ProductsOf
        <4>2. Cardinality(ProductsOf(s)) < MaxProducts
          BY <2>3, <4>1, MaxProductsAssumption DEF Room
        <4>3. QED BY <3>2, <3>4, <4>2, CartJobKinds DEF RoomFits
      <3>6. QED BY <1>3, <1>c, <2>3, <3>1, <3>2, <3>3, <3>5 DEF CreateProduct, RoomKept
    <2>4. QED BY <2>2, <2>3
  <1>4. CASE InsertProduct(r)
    <2>1. job[r] \in ProductJob /\ r \in Running /\ cart' = cart /\ Continue(r, Done)
      BY <1>4, JobAt DEF InsertProduct, Finish
    <2>2. PICK p \in Products :
            /\ ShopOf[p] = job[r].shop
            /\ \E row : product' = [product EXCEPT ![p] = row]
      BY <1>4 DEF InsertProduct
    <2>3. ASSUME inSeries, NEW s \in Shops PROVE Cardinality(ProductsOf(s)') <= MaxProducts
      <3>1. IsFiniteSet(ProductsOf(s)) /\ Cardinality(ProductsOf(s)) \in Nat
        BY ProductsAssumption, FS_Subset, FS_CardinalityType DEF ProductsOf
      <3>2. ProductsOf(s)' \subseteq ProductsOf(s) \union {p}
        BY <2>2 DEF ProductsOf, CartTypes
      <3>3. s # job[r].shop => ProductsOf(s)' \subseteq ProductsOf(s)
        BY <2>2 DEF ProductsOf, CartTypes
      <3>4. /\ Cardinality(ProductsOf(s)) <= MaxProducts
            /\ s = job[r].shop => Cardinality(ProductsOf(s)) < MaxProducts
        BY <2>1, <2>3 DEF RoomKept, RoomFits
      <3>5. /\ IsFiniteSet(ProductsOf(s) \union {p})
            /\ Cardinality(ProductsOf(s) \union {p}) <= Cardinality(ProductsOf(s)) + 1
            /\ Cardinality(ProductsOf(s) \union {p}) \in Nat
        <4>1. PICK before : before = ProductsOf(s)
          OBVIOUS
        <4>2. IsFiniteSet(before) /\ Cardinality(before) \in Nat
          BY <3>1, <4>1
        <4>3. /\ IsFiniteSet(before \union {p})
              /\ Cardinality(before \union {p}) \in {Cardinality(before), Cardinality(before) + 1}
          BY <4>2, FS_AddElement
        <4>4. QED BY <4>1, <4>2, <4>3
      <3>6. /\ Cardinality(ProductsOf(s)') \in Nat
            /\ Cardinality(ProductsOf(s)') <= Cardinality(ProductsOf(s) \union {p})
        BY <3>2, <3>5, FS_Subset, FS_CardinalityType
      <3>7. s # job[r].shop => Cardinality(ProductsOf(s)') <= Cardinality(ProductsOf(s))
        BY <3>1, <3>3, FS_Subset
      <3>8. QED BY <3>1, <3>4, <3>5, <3>6, <3>7, MaxProductsAssumption
    <2>4. \A o : CartsOf(o)' = CartsOf(o)
      BY <2>1 DEF CartsOf
    <2>5. RoomFits(Done)'
      BY <1>a, CartJobKinds DEF RoomFits
    <2>6. QED BY <1>c, <2>1, <2>3, <2>4, <2>5 DEF RoomKept
  <1>5. QED BY <1>1, <1>2, <1>3, <1>4

LEMMA RoomKeptKept ==
    ASSUME Types, Alone, RoomKept, [Next]_vars
    PROVE  RoomKept'
  <1> USE DEF Types
  <1>0. CartTypes'
    BY TypesKept
  <1>1. CASE CartNext
    <2>1. PICK r \in Requests :
            \/ \E o, p, q : AddItem(r, o, p, q)
            \/ \E x : RemoveItem(r, x) \/ \E q : UpdateItem(r, x, q)
            \/ \E k : ClearCart(r, k)
            \/ \E o : CheckoutCart(r, o)
            \/ \E lines, s : GuestCheckout(r, lines, s)
            \/ \E o, stage : UpdateOrderStatus(r, o, stage)
            \/ \E o : PaystackCharge(r, o)
            \/ \E s \in Shops, n \in Stocks, limit \in 0..MaxProducts :
                    CreateProduct(r, s, n, limit)
            \/ \E p \in Products, new \in Product : UpdateProduct(r, p, new)
            \/ \E p \in Products : DestroyProduct(r, p)
            \/ FindCart(r) \/ CreateCart(r) \/ CheckShop(r) \/ PurgeCart(r) \/ LabelCart(r)
            \/ FindItem(r) \/ InsertItem(r) \/ SaveItem(r) \/ UnlabelCart(r)
            \/ InsertOrder(r) \/ InsertProduct(r) \/ SaveProduct(r)
            \/ SaveOrderStatus(r) \/ CreditOrder(r) \/ CompleteOrder(r)
      BY <1>1 DEF CartNext, GuestAddItem, GuestRemoveItem, GuestUpdateItem, GuestClear
    <2>2. CASE \/ FindCart(r) \/ CreateCart(r) \/ InsertProduct(r)
               \/ \E s \in Shops, n \in Stocks, limit \in 0..MaxProducts :
                    CreateProduct(r, s, n, limit)
      BY <2>2, RoomStep
    <2>3. QED BY <1>0, <2>1, <2>2, RoomStepAside, RoomyKept
  <1>2. CASE Framed(CartJobs) /\ UNCHANGED cartVars
    <2>1. \A r \in Requests : job'[r] \in CartJobs \/ job'[r] = job[r]
                              \/ job'[r] \in {Waiting, Done} \union BuilderJobs \union FileJobs
      BY PartSteps DEF JobsOK, Jobs
    <2>2. \A j \in {Waiting, Done} \union BuilderJobs \union FileJobs :
            ~ToMake(j) /\ j \notin ProductJob
      BY JobOps, CartJobKinds DEF ToMake, BuilderOps, FileOps
    <2>3. Roomy
      BY <1>2, <2>1, <2>2 DEF Roomy, Framed, cartVars
    <2>4. QED BY <2>3, RoomyKept
  <1>3. QED BY <1>1, <1>2, PartSteps

LEMMA RoomInit == ASSUME Init PROVE RoomKept
  <1>1. \A r \in Requests : RoomFits(job[r])
    <2>1. Waiting \notin AddJob \union ProductJob
      BY JobsApart DEF CartJobs
    <2>2. QED BY <2>1 DEF Init, RequestsInit, RoomFits
  <1>2. \A o : CartsOf(o) = {}
    BY DEF Init, CartInit, CartsOf
  <1>3. QED BY <1>1, <1>2 DEF Init, CartInit, RoomKept

LEMMA RoomHolds ==
    ASSUME RoomKept
    PROVE  ProductsWithinLimit /\ OneCartEach
  <1>1. ASSUME NEW o \in Owners, o \in Guests \/ inSeries
        PROVE  Cardinality(CartsOf(o)) <= 1
    <2>0. \A k, l \in CartsOf(o) : k = l
      BY <1>1 DEF RoomKept
    <2>1. CASE CartsOf(o) = {}
      BY <2>1, FS_EmptySet
    <2>2. ASSUME NEW k \in CartsOf(o) PROVE Cardinality(CartsOf(o)) <= 1
      <3>1. CartsOf(o) = {k}
        BY <2>0
      <3>2. Cardinality({k}) = 1
        BY FS_Singleton
      <3>3. QED BY <3>1, <3>2
    <2>3. QED BY <2>1, <2>2
  <1>2. QED BY <1>1 DEF RoomKept, ProductsWithinLimit, OneCartEach

-----------------------------------------------------------------------------
(* The builder's actions are of four families: shops and links, the        *)
(* assistant, deposits, delivery settings.  None writes what another's     *)
(* invariant is about, nor begins or moves its handlers.                   *)

SiteAct(r) ==
    \/ \E sub \in Subdomains, custom \in BOOLEAN, x \in References \union {Null} :
        CreateShop(r, sub, custom, x)
    \/ \E s \in Sites : UpdateShop(r, s) \/ ShowShop(r, s)
    \/ ListShops(r) \/ \E s \in Sites : FindListed(r, s) \/ InsertListed(r, s)
    \/ InsertShop(r) \/ SaveTheme(r) \/ FindGateway(r) \/ InsertGateway(r)

ChatAct(r) ==
    \/ \E s \in Sites : Chat(r, s) \/ ChatStream(r, s) \/ ResetMemory(r, s)
    \/ AskModel(r) \/ LoseExchange(r) \/ SaveReset(r)
    \/ \E summarized \in BOOLEAN : KeepExchange(r, summarized)
    \/ \E themed \in BOOLEAN : ApplyAction(r, themed)

DepositAct(r) ==
    \/ \E s \in Sites : InitiatePayment(r, s)
    \/ \E d \in Deposits : FiatReceived(r, d)
    \/ SaveReceived(r) \/ StartConversion(r) \/ CreditDeposit(r) \/ FailDeposit(r)
    \/ UnlockShop(r) \/ SaveReference(r) \/ UnlockBought(r)
    \/ \E x \in Payable : CompletePayment(r, x)

FeeAct(r) ==
    \/ \E s \in Sites : ShowDelivery(r, s) \/ \E priced \in BOOLEAN : UpdateDelivery(r, s, priced)
    \/ InsertDefault(r) \/ SaveDelivery(r)

LEMMA BuilderActs ==
    BuilderNext => \E r \in Requests : SiteAct(r) \/ ChatAct(r) \/ DepositAct(r) \/ FeeAct(r)
  BY DEF BuilderNext, SiteAct, ChatAct, DepositAct, FeeAct

(* Nothing happens to the handlers of ops but that one may end early. *)
Leaves(ops) ==
    /\ inSeries' = inSeries /\ (faults' = 0 => faults = 0)
    /\ \A r \in Requests : /\ job'[r].op \in ops => job'[r] = job[r]
                           /\ job[r].op \in ops /\ faults' = faults => job'[r] = job[r]

SiteOps == {"create", "shop", "gateway", "list"}

(* The handler of r goes on with j, whether it counts as a fault or not.   *)
Goes(r, j) ==
    job' = [job EXCEPT ![r] = j] /\ inSeries' = inSeries /\ (faults' = 0 => faults = 0)

LEMMA LeavesOf ==
    ASSUME JobsOK, NEW r \in Requests, NEW j, NEW ops, j.op \notin ops, job[r].op \notin ops,
           Begin(r, j) \/ Continue(r, j) \/ Goes(r, j)
    PROVE  Leaves(ops)
  <1>1. job' = [job EXCEPT ![r] = j] /\ inSeries' = inSeries /\ (faults' = 0 => faults = 0)
    BY DEF Begin, Continue, Goes
  <1>2. QED BY <1>1 DEF Leaves, JobsOK

LEMMA FramedLeaves ==
    ASSUME JobsOK, JobsOK', Framed(BuilderJobs), NEW ops, ops \subseteq BuilderOps
    PROVE  Leaves(ops)
  <1>1. \A j \in Jobs : j.op \in ops => j \in BuilderJobs
    BY JobOps DEF Jobs, CartOps, BuilderOps, FileOps
  <1>2. faults \in Nat
    BY DEF JobsOK
  <1>3. QED BY <1>1, <1>2 DEF Framed, Leaves, JobsOK

LEMMA SiteLeaves ==
    ASSUME JobsOK, NEW r \in Requests, SiteAct(r)
    PROVE  /\ Leaves({"chat", "reset", "convert", "delivery"})
           /\ UNCHANGED <<talk, said, deposit, credited, delivery>>
  <1>a. Done.op = "done" /\ Waiting.op = "waiting"
    BY DEF Done, Waiting
  <1>b. ASSUME NEW j, Begin(r, j), j.op \in SiteOps \union {"done"}
        PROVE  Leaves({"chat", "reset", "convert", "delivery"})
    <2>1. job[r].op = "waiting"
      BY <1>a, <1>b DEF Begin
    <2>2. QED BY <1>b, <2>1, LeavesOf DEF SiteOps
  <1>c. ASSUME NEW j, Continue(r, j), job[r].op \in SiteOps, j.op \in SiteOps \union {"done"}
        PROVE  Leaves({"chat", "reset", "convert", "delivery"})
    BY <1>c, LeavesOf DEF SiteOps
  <1> USE DEF SiteOps
  <1>1. CASE \E sub \in Subdomains, custom \in BOOLEAN, x \in References \union {Null} :
                CreateShop(r, sub, custom, x)
    <2>1. PICK j : Begin(r, j) /\ j.op \in {"create", "done"} /\ UNCHANGED builderVars
      BY <1>1, <1>a DEF CreateShop
    <2>2. QED BY <1>b, <2>1 DEF builderVars
  <1>2. CASE \E s \in Sites : UpdateShop(r, s) \/ ShowShop(r, s)
    <2>1. PICK j : Begin(r, j) /\ j.op \in {"shop", "gateway"} /\ UNCHANGED builderVars
      BY <1>2 DEF UpdateShop, ShowShop
    <2>2. QED BY <1>b, <2>1 DEF builderVars
  <1>3. CASE ListShops(r)
    <2>1. PICK j : Begin(r, j) /\ j.op = "list" /\ UNCHANGED builderVars
      BY <1>3 DEF ListShops
    <2>2. QED BY <1>b, <2>1 DEF builderVars
  <1>4. ASSUME NEW s \in Sites, FindListed(r, s) \/ InsertListed(r, s)
        PROVE  /\ Leaves({"chat", "reset", "convert", "delivery"})
               /\ UNCHANGED <<talk, said, deposit, credited, delivery>>
    <2>1. job[r] \in ListJob /\ job[r].op = "list"
      BY <1>4, JobAt DEF FindListed, InsertListed
    <2>2. PICK j : \/ j = [job[r] EXCEPT !.find = @ \ {s},
                               !.insert = IF NeedsGateway THEN @ \union {s} ELSE @]
                      /\ FindListed(r, s)
                   \/ j = [job[r] EXCEPT !.insert = @ \ {s}] /\ InsertListed(r, s)
      BY <1>4
    <2>3. \E i : Continue(r, i) /\ i.op \in {"list", "done"}
      <3>1. j.op = "list"
        BY <2>1, <2>2 DEF ListJob
      <3>2. Continue(r, j) \/ Continue(r, Done)
        BY <2>2 DEF FindListed, InsertListed, Finish
      <3>3. QED BY <1>a, <3>1, <3>2
    <2>4. UNCHANGED <<talk, said, deposit, credited, delivery>>
      BY <1>4 DEF FindListed, InsertListed, builderVars
    <2>5. QED BY <1>c, <2>1, <2>3, <2>4
  <1>5. CASE InsertShop(r)
    <2>1. job[r].op = "create" /\ UNCHANGED <<talk, said, deposit, credited, delivery>>
      BY <1>5, JobAt DEF InsertShop
    <2>2. ASSUME NEW s, NEW row, Continue(r, [op |-> "shop", at |-> "save", shop |-> s,
                    copy |-> row, theme |-> "preset"])
          PROVE  Leaves({"chat", "reset", "convert", "delivery"})
      <3>1. PICK j : j = [op |-> "shop", at |-> "save", shop |-> s, copy |-> row,
                          theme |-> "preset"]
        OBVIOUS
      <3>2. j.op = "shop"
        BY <3>1
      <3>3. QED BY <1>c, <2>1, <2>2, <3>1, <3>2
    <2>3. CASE Finish(r)
      BY <1>a, <1>c, <2>1, <2>3 DEF Finish
    <2>4. QED BY <1>5, <2>1, <2>2, <2>3 DEF InsertShop
  <1>6. CASE SaveTheme(r)
    <2>1. job[r].op = "shop" /\ UNCHANGED <<talk, said, deposit, credited, delivery>>
      BY <1>6, JobAt DEF SaveTheme
    <2>2. PICK j : Continue(r, j) /\ j.op = "gateway"
      BY <1>6 DEF SaveTheme
    <2>3. QED BY <1>c, <2>1, <2>2
  <1>7. CASE FindGateway(r) \/ InsertGateway(r)
    <2>1. /\ job[r] \in GatewayJob /\ job[r].op = "gateway"
          /\ UNCHANGED <<talk, said, deposit, credited, delivery>>
      BY <1>7, JobAt DEF FindGateway, InsertGateway, builderVars
    <2>2. [job[r] EXCEPT !.at = "insert"].op = "gateway"
      BY <2>1 DEF GatewayJob
    <2>3. PICK j : Continue(r, j) /\ j.op \in {"gateway", "done"}
      BY <1>7, <1>a, <2>2 DEF FindGateway, InsertGateway, Finish
    <2>4. QED BY <1>c, <2>1, <2>3
  <1>8. QED BY <1>1, <1>2, <1>3, <1>4, <1>5, <1>6, <1>7 DEF SiteAct

LEMMA ChatLeaves ==
    ASSUME JobsOK, NEW r \in Requests, ChatAct(r)
    PROVE  /\ Leaves({"create", "shop", "gateway", "list", "convert", "delivery"})
           /\ UNCHANGED <<gateways, deposit, credited, delivery>>
  <1>a. Done.op = "done" /\ Waiting.op = "waiting"
    BY DEF Done, Waiting
  <1>b. ASSUME NEW j, Begin(r, j) \/ Continue(r, j) \/ Goes(r, j),
               job[r].op \in {"waiting", "chat", "reset"}, j.op \in {"chat", "reset", "done"}
        PROVE  Leaves({"create", "shop", "gateway", "list", "convert", "delivery"})
    BY <1>b, LeavesOf
  <1>c. ASSUME NEW j, Begin(r, j) PROVE job[r].op = "waiting"
    BY <1>a, <1>c DEF Begin
  <1>1. ASSUME NEW s, NEW streamed, AskedOf(r, s, streamed)
        PROVE  /\ Leaves({"create", "shop", "gateway", "list", "convert", "delivery"})
               /\ UNCHANGED <<gateways, deposit, credited, delivery>>
    <2>1. PICK j : Begin(r, j) /\ j.op \in {"chat", "done"} /\ UNCHANGED builderVars
      BY <1>1, <1>a DEF AskedOf
    <2>2. QED BY <1>b, <1>c, <2>1 DEF builderVars
  <1>2. CASE \E s \in Sites : ResetMemory(r, s)
    <2>1. PICK j : Begin(r, j) /\ j.op = "reset" /\ UNCHANGED builderVars
      BY <1>2 DEF ResetMemory
    <2>2. QED BY <1>b, <1>c, <2>1 DEF builderVars
  <1>3. CASE AskModel(r)
    <2>1. job[r].op = "chat" /\ UNCHANGED <<gateways, deposit, credited, delivery>>
      BY <1>3, JobAt DEF AskModel
    <2>2. PICK j : j = [op |-> "chat", at |-> "reply", shop |-> job[r].shop,
                       row |-> shop[job[r].shop], copy |-> talk'[job[r].shop],
                       streamed |-> job[r].streamed]
      OBVIOUS
    <2>3. j.op = "chat" /\ Continue(r, j)
      BY <1>3, <2>2 DEF AskModel
    <2>4. QED BY <1>b, <2>1, <2>3
  <1>4. ASSUME LoseExchange(r) \/ \E summarized \in BOOLEAN : KeepExchange(r, summarized)
        PROVE  /\ Leaves({"create", "shop", "gateway", "list", "convert", "delivery"})
               /\ UNCHANGED <<gateways, deposit, credited, delivery>>
    <2>1. /\ job[r].op = "chat" /\ UNCHANGED <<gateways, deposit, credited, delivery>>
          /\ inSeries' = inSeries /\ faults' \in {faults, faults + 1}
      BY <1>4, JobAt DEF LoseExchange, KeepExchange, builderVars
    <2>0. faults' = 0 => faults = 0
      BY <2>1 DEF JobsOK
    <2>2. PICK j : j = [op |-> "chat", at |-> "apply", shop |-> job[r].shop,
                        row |-> job[r].row]
      OBVIOUS
    <2>3. job' = [job EXCEPT ![r] = j] /\ j.op = "chat"
      BY <1>4, <2>2 DEF LoseExchange, KeepExchange
    <2>4. Goes(r, j)
      BY <2>0, <2>1, <2>3 DEF Goes
    <2>5. QED BY <1>b, <2>1, <2>3, <2>4
  <1>5. CASE SaveReset(r) \/ \E themed \in BOOLEAN : ApplyAction(r, themed)
    <2>1. /\ job[r].op \in {"chat", "reset"} /\ Continue(r, Done)
          /\ UNCHANGED <<gateways, deposit, credited, delivery>>
      BY <1>5, JobAt DEF SaveReset, ApplyAction, Finish
    <2>2. QED BY <1>a, <1>b, <2>1
  <1>6. QED BY <1>1, <1>2, <1>3, <1>4, <1>5 DEF ChatAct, Chat, ChatStream

LEMMA DepositLeaves ==
    ASSUME JobsOK, NEW r \in Requests, DepositAct(r)
    PROVE  /\ Leaves({"create", "shop", "gateway", "list", "chat", "reset", "delivery"})
           /\ UNCHANGED <<gateways, talk, said, delivery>>
  <1>a. Done.op = "done" /\ Waiting.op = "waiting"
    BY DEF Done, Waiting
  <1>b. ASSUME NEW j, Begin(r, j), j.op \in {"convert", "refer", "bought", "done"}
        PROVE  Leaves({"create", "shop", "gateway", "list", "chat", "reset", "delivery"})
    <2>1. job[r].op = "waiting"
      BY <1>a, <1>b DEF Begin
    <2>2. QED BY <1>b, <2>1, LeavesOf
  <1>1. CASE \E s \in Sites : InitiatePayment(r, s)
    <2>1. PICK j : /\ Begin(r, j) /\ j.op \in {"refer", "done"}
                   /\ UNCHANGED <<gateways, talk, said, delivery>>
      BY <1>1, <1>a DEF InitiatePayment
    <2>2. QED BY <1>b, <2>1
  <1>2. CASE \/ \E d \in Deposits : FiatReceived(r, d)
             \/ \E x \in Payable : CompletePayment(r, x)
    <2>1. PICK j : /\ Begin(r, j) /\ j.op \in {"convert", "bought", "done"}
                   /\ UNCHANGED <<gateways, talk, said, delivery>>
      BY <1>2, <1>a DEF FiatReceived, CompletePayment, builderVars
    <2>2. QED BY <1>b, <2>1
  <1>3. ASSUME \/ SaveReceived(r) \/ StartConversion(r) \/ CreditDeposit(r) \/ FailDeposit(r)
               \/ UnlockShop(r)
        PROVE  /\ Leaves({"create", "shop", "gateway", "list", "chat", "reset", "delivery"})
               /\ UNCHANGED <<gateways, talk, said, delivery>>
    <2>1. job[r] \in ConvertJob /\ job[r].op = "convert"
      BY <1>3, JobAt DEF SaveReceived, StartConversion, CreditDeposit, FailDeposit, UnlockShop
    <2>2. \A at : [job[r] EXCEPT !.at = at].op = "convert"
      BY <2>1 DEF ConvertJob
    <2>3. PICK j : Continue(r, j) /\ j.op \in {"convert", "done"}
      BY <1>3, <1>a, <2>2 DEF SaveReceived, StartConversion, CreditDeposit, FailDeposit,
            UnlockShop, Finish
    <2>4. UNCHANGED <<gateways, talk, said, delivery>>
      BY <1>3 DEF SaveReceived, StartConversion, CreditDeposit, FailDeposit, UnlockShop
    <2>5. QED BY <2>1, <2>3, <2>4, LeavesOf
  <1>4. CASE SaveReference(r) \/ UnlockBought(r)
    <2>1. job[r].op \in {"refer", "bought"}
      BY <1>4, JobAt DEF SaveReference, UnlockBought
    <2>2. Continue(r, Done) /\ UNCHANGED <<gateways, talk, said, delivery>>
      BY <1>4 DEF SaveReference, UnlockBought, Finish
    <2>3. QED BY <1>a, <2>1, <2>2, LeavesOf
  <1>5. QED BY <1>1, <1>2, <1>3, <1>4 DEF DepositAct

LEMMA FeeLeaves ==
    ASSUME JobsOK, NEW r \in Requests, FeeAct(r)
    PROVE  /\ Leaves({"create", "shop", "gateway", "list", "chat", "reset", "convert"})
           /\ UNCHANGED <<shop, gateways, talk, said, deposit, credited>>
  <1>a. Done.op = "done" /\ Waiting.op = "waiting"
    BY DEF Done, Waiting
  <1>b. ASSUME NEW j, Begin(r, j), j.op \in {"delivery", "done"}
        PROVE  Leaves({"create", "shop", "gateway", "list", "chat", "reset", "convert"})
    <2>1. job[r].op = "waiting"
      BY <1>a, <1>b DEF Begin
    <2>2. QED BY <1>b, <2>1, LeavesOf
  <1>1. CASE \E s \in Sites : ShowDelivery(r, s)
    <2>1. PICK j : Begin(r, j) /\ j.op \in {"delivery", "done"} /\ UNCHANGED builderVars
      BY <1>1, <1>a DEF ShowDelivery
    <2>2. QED BY <1>b, <2>1 DEF builderVars
  <1>2. CASE \E s \in Sites, priced \in BOOLEAN : UpdateDelivery(r, s, priced)
    <2>1. PICK j : Begin(r, j) /\ j.op = "delivery" /\ UNCHANGED builderVars
      BY <1>2 DEF UpdateDelivery
    <2>2. QED BY <1>b, <2>1 DEF builderVars
  <1>3. CASE InsertDefault(r) \/ SaveDelivery(r)
    <2>1. job[r].op = "delivery" /\ Continue(r, Done)
      BY <1>3, JobAt DEF InsertDefault, SaveDelivery, Finish
    <2>2. UNCHANGED <<shop, gateways, talk, said, deposit, credited>>
      BY <1>3 DEF InsertDefault, SaveDelivery
    <2>3. QED BY <1>a, <2>1, <2>2, LeavesOf
  <1>4. QED BY <1>1, <1>2, <1>3 DEF FeeAct

-----------------------------------------------------------------------------
(* One at a time, a deposit is credited as its row says; a handler that is *)
(* to credit one has one that is not credited.                             *)

Given(d) == IF deposit[d] # Null /\ deposit[d].status = "credited" THEN 1 ELSE 0

GiftFits(j) ==
    j \in ConvertJob /\ j.at # "unlock" =>
        deposit[j.deposit] # Null /\ deposit[j.deposit].status # "credited"

DepositsRight ==
    inSeries => /\ \A d \in Deposits : credited[d] = Given(d)
                /\ \A r \in Requests : GiftFits(job[r])

LEMMA DepositsLeft ==
    ASSUME DepositsRight, Leaves({"convert"}), UNCHANGED <<deposit, credited>>
    PROVE  DepositsRight'
  <1>1. ASSUME inSeries, NEW r \in Requests PROVE GiftFits(job[r])'
    <2>1. PICK j : j = job'[r]
      OBVIOUS
    <2>2. j.op = "convert" => j = job[r]
      BY <2>1 DEF Leaves
    <2>3. GiftFits(j)'
      BY <1>1, <2>2, BuilderJobKinds DEF GiftFits, DepositsRight
    <2>4. QED BY <2>1, <2>3
  <1>2. QED BY <1>1 DEF DepositsRight, Given, Leaves

LEMMA DepositsStep ==
    ASSUME JobsOK, BuilderTypes, Alone, inSeries, DepositsRight, NEW r \in Requests,
           DepositAct(r)
    PROVE  DepositsRight'
  <1>a. deposit \in [Deposits -> Deposit \union {Null}] /\ credited \in [Deposits -> Nat]
    BY DEF BuilderTypes
  <1>b. Done \notin ConvertJob /\ Waiting \notin ConvertJob
    BY JobOps, BuilderJobKinds DEF Done, Waiting
  (* r goes on with j, having written d. *)
  <1>c. ASSUME NEW j, Turn(r, j), GiftFits(j)', \A d \in Deposits : credited'[d] = Given(d)'
        PROVE  DepositsRight'
    <2>1. ASSUME NEW q \in Requests PROVE GiftFits(job[q])'
      <3>1. job'[q] = j \/ job'[q] \in {Waiting, Done}
        BY <1>c DEF Turn
      <3>2. QED BY <1>b, <1>c, <3>1 DEF GiftFits
    <2>2. QED BY <1>c, <2>1 DEF DepositsRight
  <1>d. ASSUME NEW d \in Deposits, NEW row, row # Null, deposit' = [deposit EXCEPT ![d] = row],
               credited'[d] = IF row.status = "credited" THEN 1 ELSE 0,
               \A e \in Deposits \ {d} : credited'[e] = credited[e]
        PROVE  \A e \in Deposits : credited'[e] = Given(e)'
    BY <1>a, <1>d DEF DepositsRight, Given
  <1>1. ASSUME NEW s \in Sites, InitiatePayment(r, s) PROVE DepositsRight'
    <2>1. credited' = credited
      BY <1>1 DEF InitiatePayment
    <2>2. CASE shop[s].paid
      <3>1. Turn(r, Done) /\ deposit' = deposit
        BY <1>1, <2>2, Turns DEF InitiatePayment
      <3>2. QED BY <1>b, <1>c, <2>1, <3>1 DEF GiftFits, DepositsRight, Given
    <2>3. CASE ~shop[s].paid
      <3>1. PICK d \in Deposits :
              /\ deposit[d] = Null
              /\ deposit' = [deposit EXCEPT ![d] = [shop |-> s, status |-> "pending"]]
              /\ Begin(r, [op |-> "refer", at |-> "save", shop |-> s, deposit |-> d])
        BY <1>1, <2>3 DEF InitiatePayment
      <3>2. PICK row : row = [shop |-> s, status |-> "pending"]
        OBVIOUS
      <3>3. row \in Deposit /\ row.status = "pending"
        BY <3>2 DEF Deposit, DepositStatuses
      <3>4. row # Null
        BY <3>3, MissingShopAssumption
      <3>5. credited[d] = 0
        BY <3>1 DEF DepositsRight, Given
      <3>6. \A e \in Deposits : credited'[e] = Given(e)'
        BY <1>d, <2>1, <3>1, <3>2, <3>3, <3>4, <3>5
      <3>7. PICK j : j = [op |-> "refer", at |-> "save", shop |-> s, deposit |-> d]
        OBVIOUS
      <3>8. j \notin ConvertJob
        <4>1. j.op = "refer"
          BY <3>7
        <4>2. QED BY <4>1, BuilderJobKinds
      <3>9. Turn(r, j)
        BY <3>1, <3>7, Turns
      <3>10. QED BY <1>c, <3>6, <3>8, <3>9 DEF GiftFits
    <2>4. QED BY <2>2, <2>3
  <1>2. ASSUME NEW d \in Deposits, FiatReceived(r, d) PROVE DepositsRight'
    <2>1. UNCHANGED <<deposit, credited>> /\ deposit[d] # Null
      BY <1>2 DEF FiatReceived, builderVars
    <2>2. \A e \in Deposits : credited'[e] = Given(e)'
      BY <2>1 DEF DepositsRight, Given
    <2>3. CASE Fresh(deposit[d])
      <3>1. PICK j : j = [op |-> "convert", at |-> "received", deposit |-> d]
        OBVIOUS
      <3>2. GiftFits(j)' /\ Turn(r, j)
        BY <1>2, <2>1, <2>3, <3>1, Turns DEF GiftFits, FiatReceived, Fresh
      <3>3. QED BY <1>c, <2>2, <3>2
    <2>4. CASE ~Fresh(deposit[d])
      <3>1. Turn(r, Done)
        BY <1>2, <2>4, Turns DEF FiatReceived
      <3>2. QED BY <1>b, <1>c, <2>2, <3>1 DEF GiftFits
    <2>5. QED BY <2>3, <2>4
  (* The handler saves another status. *)
  <1>3. ASSUME r \in Running, job[r] \in ConvertJob, job[r].at # "unlock", NEW j,
               NEW status \in DepositStatuses, NEW n, SetDeposit(job[r].deposit, status), Continue(r, j),
               n = IF status = "credited" THEN credited[job[r].deposit] + 1
                                          ELSE credited[job[r].deposit],
               credited' = [credited EXCEPT ![job[r].deposit] = n],
               j = Done \/ (j \in ConvertJob /\ j.deposit = job[r].deposit
                            /\ (status = "credited" => j.at = "unlock"))
        PROVE  DepositsRight'
    <2>1. PICK d \in Deposits : d = job[r].deposit
      BY <1>3, BuilderJobKinds
    <2>2. /\ deposit[d] \in Deposit /\ deposit[d].status # "credited" /\ credited[d] = 0
          /\ deposit[d] # Null
      BY <1>3, <1>a, <2>1 DEF DepositsRight, GiftFits, Given
    <2>3. PICK row : row = [deposit[d] EXCEPT !.status = status]
      OBVIOUS
    <2>4. /\ deposit' = [deposit EXCEPT ![d] = row] /\ row.status = status
          /\ deposit'[d] = row
      BY <1>3, <1>a, <2>1, <2>2, <2>3 DEF SetDeposit, Deposit
    <2>5. row # Null
      <3>1. row \in Deposit
        BY <2>2, <2>3 DEF Deposit
      <3>2. QED BY <3>1, MissingShopAssumption
    <2>6. \A e \in Deposits : credited'[e] = Given(e)'
      <3>1. n = IF row.status = "credited" THEN 1 ELSE 0
        BY <1>3, <2>1, <2>2, <2>4
      <3>2. credited'[d] = n /\ \A e \in Deposits \ {d} : credited'[e] = credited[e]
        BY <1>3, <1>a, <2>1
      <3>3. deposit' = [deposit EXCEPT ![d] = row]
        BY <2>4
      <3>4. QED BY <1>d, <2>5, <3>1, <3>2, <3>3
    <2>7. GiftFits(j)'
      BY <1>3, <1>b, <2>1, <2>4, <2>5 DEF GiftFits
    <2>8. QED BY <1>3, <1>c, <2>6, <2>7, Turns
  <1>4. CASE SaveReceived(r) \/ StartConversion(r)
    <2>1. job[r] \in ConvertJob /\ r \in Running /\ job[r].at # "unlock"
      BY <1>4, JobAt DEF SaveReceived, StartConversion
    <2>2. PICK at \in {"converting", "credit"}, status \in {"fiat_received", "converting"} :
            /\ SetDeposit(job[r].deposit, status) /\ Continue(r, [job[r] EXCEPT !.at = at])
            /\ credited' = credited
      BY <1>4 DEF SaveReceived, StartConversion
    <2>3. PICK j : j = [job[r] EXCEPT !.at = at]
      OBVIOUS
    <2>4. j \in ConvertJob /\ j.deposit = job[r].deposit
      BY <2>1, <2>3 DEF ConvertJob
    <2>5. credited' = [credited EXCEPT ![job[r].deposit] = credited[job[r].deposit]]
      BY <1>a, <2>2
    <2>6. QED BY <1>3, <2>1, <2>2, <2>3, <2>4, <2>5 DEF DepositStatuses
  <1>5. CASE CreditDeposit(r)
    <2>1. job[r] \in ConvertJob /\ r \in Running /\ job[r].at # "unlock"
      BY <1>5, JobAt DEF CreditDeposit
    <2>2. PICK j : j = [job[r] EXCEPT !.at = "unlock"]
      OBVIOUS
    <2>3. j \in ConvertJob /\ j.deposit = job[r].deposit /\ j.at = "unlock"
      BY <2>1, <2>2 DEF ConvertJob
    <2>4. /\ SetDeposit(job[r].deposit, "credited") /\ Continue(r, j)
          /\ credited' = [credited EXCEPT ![job[r].deposit] = credited[job[r].deposit] + 1]
      BY <1>5, <2>2 DEF CreditDeposit
    <2>5. QED BY <1>3, <2>1, <2>3, <2>4 DEF DepositStatuses
  <1>6. CASE FailDeposit(r)
    <2>1. job[r] \in ConvertJob /\ r \in Running /\ job[r].at # "unlock"
      BY <1>6, JobAt DEF FailDeposit
    <2>2. SetDeposit(job[r].deposit, "failed") /\ Continue(r, Done) /\ credited' = credited
      BY <1>6 DEF FailDeposit, Finish
    <2>3. credited' = [credited EXCEPT ![job[r].deposit] = credited[job[r].deposit]]
      BY <1>a, <2>2
    <2>4. QED BY <1>3, <2>1, <2>2, <2>3 DEF DepositStatuses
  <1>7. CASE UnlockShop(r)
    <2>1. r \in Running /\ Continue(r, Done) /\ UNCHANGED <<deposit, credited>>
      BY <1>7, JobAt DEF UnlockShop, Finish
    <2>2. QED BY <1>b, <1>c, <2>1, Turns DEF GiftFits, DepositsRight, Given
  <1>8. ASSUME NEW x \in Payable, CompletePayment(r, x) PROVE DepositsRight'
    <2>1. PICK j : Begin(r, j) /\ j.op = "bought" /\ UNCHANGED <<deposit, credited>>
      BY <1>8 DEF CompletePayment
    <2>2. Turn(r, j) /\ j \notin ConvertJob
      BY <2>1, Turns, BuilderJobKinds
    <2>3. QED BY <1>c, <2>1, <2>2 DEF GiftFits, DepositsRight, Given
  <1>9. CASE SaveReference(r) \/ UnlockBought(r)
    <2>1. r \in Running /\ Continue(r, Done) /\ UNCHANGED <<deposit, credited>>
      BY <1>9, JobAt DEF SaveReference, UnlockBought, Finish
    <2>2. QED BY <1>b, <1>c, <2>1, Turns DEF GiftFits, DepositsRight, Given
  <1>10. QED BY <1>1, <1>2, <1>4, <1>5, <1>6, <1>7, <1>8, <1>9 DEF DepositAct

(* A step of another part of the shop, or a handler that ends early. *)
LEMMA BuilderRests ==
    ASSUME Types, [Next]_vars, ~BuilderNext
    PROVE  Leaves(BuilderOps) /\ UNCHANGED builderVars
  <1>1. Framed(BuilderJobs) /\ UNCHANGED builderVars /\ JobsOK /\ JobsOK'
    BY PartSteps DEF Types
  <1>2. QED BY <1>1, FramedLeaves

LEMMA DepositsKept ==
    ASSUME Types, Alone, DepositsRight, [Next]_vars
    PROVE  DepositsRight'
  <1> USE DEF Types
  <1>1. CASE ~BuilderNext
    <2>1. Leaves({"convert"}) /\ UNCHANGED <<deposit, credited>>
      BY <1>1, BuilderRests DEF Leaves, BuilderOps, builderVars
    <2>2. QED BY <2>1, DepositsLeft
  <1>2. ASSUME NEW r \in Requests, SiteAct(r) \/ ChatAct(r) \/ FeeAct(r) PROVE DepositsRight'
    <2>1. Leaves({"convert"}) /\ UNCHANGED <<deposit, credited>>
      BY <1>2, SiteLeaves, ChatLeaves, FeeLeaves DEF Leaves
    <2>2. QED BY <2>1, DepositsLeft
  <1>3. ASSUME NEW r \in Requests, DepositAct(r), inSeries PROVE DepositsRight'
    BY <1>3, DepositsStep
  <1>4. inSeries' = inSeries
    BY PartSteps DEF BuilderKept, Moves, Framed
  <1>5. QED BY <1>1, <1>2, <1>3, <1>4, BuilderActs DEF DepositsRight

LEMMA DepositsInit == ASSUME Init PROVE DepositsRight
  <1>1. \A r \in Requests : job[r] \notin ConvertJob
    BY JobOps, BuilderJobKinds DEF Init, RequestsInit, Waiting
  <1>2. QED BY <1>1 DEF Init, BuilderInit, DepositsRight, Given, GiftFits

(* Orders and deposits are credited as their rows say: never completed     *)
(* without a credit, and one at a time never credited twice; and no shop   *)
(* has its assistant unlocked but by a deposit that was credited, or by a  *)
(* payment that was completed under a reference the shop has had.          *)
THEOREM CreditsAlwaysMatch == Spec => []CreditsMatch
  <1>1. Init => Types /\ Alone /\ OrdersPaid /\ DepositsRight
    BY OrdersPaidInit, AloneInit, DepositsInit
  <1>2. Types /\ Alone /\ OrdersPaid /\ DepositsRight /\ [Next]_vars
            => (Types /\ Alone /\ OrdersPaid /\ DepositsRight)'
    BY TypesKept, AloneKept, OrdersPaidKept, DepositsKept
  <1>3. Types /\ OrdersPaid /\ DepositsRight => CreditsMatch
    <2> SUFFICES ASSUME Types, OrdersPaid, DepositsRight PROVE CreditsMatch
      OBVIOUS
    <2>1. ASSUME NEW o \in Orders, order[o] # None, inSeries, faults = 0 PROVE credits[o] <= 1
      <3>1. credits[o] = Due(o) \/ \E r \in Requests : Pays(r, o)
        BY <2>1 DEF OrdersPaid
      <3>2. CASE credits[o] = Due(o)
        BY <3>2 DEF Due
      <3>3. ASSUME NEW r \in Requests, Pays(r, o) PROVE credits[o] <= 1
        <4>1. PayFits(job[r])
          BY <2>1 DEF OrdersPaid
        <4>2. credits[o] = 1
          BY <2>1, <3>3, <4>1 DEF Pays, PayFits
        <4>3. QED BY <4>2
      <3>4. QED BY <3>1, <3>2, <3>3
    <2>2. OrderCreditedOnce
      BY <2>1 DEF Types, CartSound, OrderCreditedOnce
    <2>3. DepositMatchesCredits
      BY DEF DepositsRight, Given, DepositMatchesCredits
    <2>4. QED BY <2>2, <2>3 DEF Types, BuilderSound, CreditsMatch
  <1>4. QED BY <1>1, <1>2, <1>3, PTL DEF Spec

-----------------------------------------------------------------------------
(* One at a time, a handler that is to make links has found none, and has  *)
(* a shop for each.                                                        *)

Existing == {s \in Sites : shop[s] # Null}

LinkFits(j) ==
    /\ j \in GatewayJob => Existing # {} /\ (j.at = "insert" => gateways = 0)
    /\ j \in ListJob =>
        /\ j.insert \subseteq Existing /\ j.find \subseteq Existing
        /\ gateways + Cardinality(j.insert) <= Cardinality(Existing)

LinksRight ==
    inSeries => /\ gateways <= Cardinality(Existing)
                /\ \A r \in Requests : LinkFits(job[r])

LEMMA ExistingFinite ==
    ASSUME NEW S, S \subseteq Sites
    PROVE  IsFiniteSet(S) /\ Cardinality(S) \in Nat
  BY SitesAssumption, FS_Subset, FS_CardinalityType

(* Shops are not deleted. *)
LEMMA ExistingGrow ==
    ASSUME BuilderGrows
    PROVE  Existing \subseteq Existing' /\ Cardinality(Existing) <= Cardinality(Existing')
  <1>1. Existing \subseteq Existing' /\ Existing' \subseteq Sites
    BY DEF BuilderGrows, Existing
  <1>2. QED BY <1>1, ExistingFinite, FS_Subset

LEMMA LinksLeft ==
    ASSUME BuilderTypes, LinksRight, Leaves(SiteOps), BuilderGrows, gateways' = gateways
    PROVE  LinksRight'
  <1>a. /\ Existing \subseteq Existing' /\ Cardinality(Existing) <= Cardinality(Existing')
        /\ Cardinality(Existing) \in Nat /\ Cardinality(Existing') \in Nat /\ gateways \in Nat
    <2>1. Existing \subseteq Sites /\ Existing' \subseteq Sites
      BY DEF Existing
    <2>2. QED BY <2>1, ExistingGrow, ExistingFinite DEF BuilderTypes
  <1>1. ASSUME inSeries, NEW r \in Requests PROVE LinkFits(job[r])'
    <2>1. PICK j : j = job'[r]
      OBVIOUS
    <2>2. j \in GatewayJob \union ListJob => LinkFits(j)
      BY <1>1, <2>1, BuilderJobKinds DEF Leaves, SiteOps, LinksRight
    <2>3. ASSUME j \in ListJob
          PROVE  gateways + Cardinality(j.insert) <= Cardinality(Existing')
      <3>1. /\ j.insert \subseteq Sites
            /\ gateways + Cardinality(j.insert) <= Cardinality(Existing)
        BY <2>2, <2>3 DEF LinkFits, ListJob
      <3>2. Cardinality(j.insert) \in Nat
        BY <3>1, ExistingFinite
      <3>3. QED BY <1>a, <3>1, <3>2
    <2>4. LinkFits(j)'
      BY <1>a, <2>2, <2>3 DEF LinkFits
    <2>5. QED BY <2>1, <2>4
  <1>2. inSeries' = inSeries
    BY DEF Leaves
  <1>3. QED BY <1>a, <1>1, <1>2 DEF LinksRight

LEMMA LinksStep ==
    ASSUME JobsOK, BuilderTypes, BuilderHeld, BuilderGrows, Alone, inSeries, LinksRight,
           NEW r \in Requests, SiteAct(r)
    PROVE  LinksRight'
  <1>a. /\ Existing \subseteq Existing' /\ Cardinality(Existing) <= Cardinality(Existing')
        /\ Cardinality(Existing) \in Nat /\ Cardinality(Existing') \in Nat
        /\ gateways \in Nat /\ gateways <= Cardinality(Existing)
    <2>1. Existing \subseteq Sites /\ Existing' \subseteq Sites
      BY DEF Existing
    <2>2. QED BY <2>1, ExistingGrow, ExistingFinite DEF BuilderTypes, LinksRight
  <1>b. /\ Done \notin GatewayJob \union ListJob /\ Waiting \notin GatewayJob \union ListJob
        /\ \A j : j.op \notin {"gateway", "list"} => j \notin GatewayJob \union ListJob
    BY JobOps, BuilderJobKinds DEF Done, Waiting
  <1>c. LinkFits(job[r])
    BY DEF LinksRight
  (* r goes on with j. *)
  <1>d. ASSUME NEW j, Turn(r, j), LinkFits(j)', gateways' <= Cardinality(Existing')
        PROVE  LinksRight'
    <2>1. ASSUME NEW q \in Requests PROVE LinkFits(job[q])'
      <3>1. job'[q] = j \/ job'[q] \in {Waiting, Done}
        BY <1>d DEF Turn
      <3>2. QED BY <1>b, <1>d, <3>1 DEF LinkFits
    <2>2. QED BY <1>d, <2>1 DEF LinksRight
  (* No link is made and none is to be made. *)
  <1>e. ASSUME NEW j, Turn(r, j), gateways' = gateways,
               j \notin GatewayJob \union ListJob
        PROVE  LinksRight'
    BY <1>a, <1>d, <1>e DEF LinkFits
  <1>1. CASE \E sub \in Subdomains, custom \in BOOLEAN, x \in References \union {Null} :
                CreateShop(r, sub, custom, x)
    <2>1. PICK j : Begin(r, j) /\ j.op \in {"create", "done"} /\ UNCHANGED builderVars
      BY <1>1 DEF CreateShop, Done
    <2>2. QED BY <1>b, <1>e, <2>1, Turns DEF builderVars
  <1>2. CASE \E s \in Sites : UpdateShop(r, s)
    <2>1. PICK j : Begin(r, j) /\ j.op = "shop" /\ UNCHANGED builderVars
      BY <1>2 DEF UpdateShop
    <2>2. QED BY <1>b, <1>e, <2>1, Turns DEF builderVars
  (* A handler is to look for a link. *)
  <1>3. ASSUME Begin(r, [op |-> "gateway", at |-> "find"])
               \/ (r \in Running /\ Continue(r, [op |-> "gateway", at |-> "find"])),
               gateways' = gateways, Existing' # {}
        PROVE  LinksRight'
    <2>1. PICK j : j = [op |-> "gateway", at |-> "find"]
      OBVIOUS
    <2>2. Turn(r, j)
      BY <1>3, <2>1, Turns
    <2>3. LinkFits(j)'
      BY <1>3, <2>1, BuilderJobKinds DEF LinkFits
    <2>4. QED BY <1>3, <1>a, <1>d, <2>2, <2>3
  <1>4. ASSUME NEW s \in Sites, ShowShop(r, s) PROVE LinksRight'
    <2>1. s \in Existing' /\ gateways' = gateways
      BY <1>4 DEF ShowShop, Existing, builderVars
    <2>2. QED BY <1>3, <1>4, <2>1 DEF ShowShop
  <1>5. CASE SaveTheme(r)
    <2>1. job[r] \in ThemeJob /\ r \in Running /\ gateways' = gateways
      BY <1>5, JobAt DEF SaveTheme
    <2>2. job[r].shop \in Existing
      BY <2>1, BuilderJobKinds DEF BuilderHeld, BuilderFits, Existing
    <2>3. QED BY <1>3, <1>5, <1>a, <2>1, <2>2 DEF SaveTheme
  <1>6. CASE InsertShop(r)
    <2>1. r \in Running /\ gateways' = gateways
      BY <1>6, JobAt DEF InsertShop
    <2>2. ASSUME NEW s, NEW row, Continue(r, [op |-> "shop", at |-> "save", shop |-> s,
                    copy |-> row, theme |-> "preset"])
          PROVE  LinksRight'
      <3>1. PICK j : j = [op |-> "shop", at |-> "save", shop |-> s, copy |-> row,
                          theme |-> "preset"]
        OBVIOUS
      <3>2. j.op = "shop"
        BY <3>1
      <3>3. QED BY <1>b, <1>e, <2>1, <2>2, <3>1, <3>2, Turns
    <2>3. CASE Finish(r)
      BY <1>b, <1>e, <2>1, <2>3, Turns DEF Finish
    <2>4. QED BY <1>6, <2>2, <2>3 DEF InsertShop
  <1>7. CASE FindGateway(r)
    <2>1. job[r] \in GatewayJob /\ r \in Running /\ gateways' = gateways /\ shop' = shop
      BY <1>7, JobAt DEF FindGateway, builderVars
    <2>2. CASE ~NeedsGateway
      BY <1>7, <1>b, <1>e, <2>1, <2>2, Turns DEF FindGateway, Finish
    <2>3. CASE NeedsGateway
      <3>1. PICK j : j = [job[r] EXCEPT !.at = "insert"]
        OBVIOUS
      <3>2. j \in GatewayJob
        BY <2>1, <3>1 DEF GatewayJob
      <3>3. LinkFits(j)'
        BY <1>a, <1>c, <2>1, <2>3, <3>2, BuilderJobKinds DEF LinkFits, NeedsGateway
      <3>4. QED BY <1>7, <1>a, <1>d, <2>1, <2>3, <3>1, <3>3, Turns DEF FindGateway
    <2>4. QED BY <2>2, <2>3
  <1>8. CASE InsertGateway(r)
    <2>1. /\ job[r] \in GatewayJob /\ job[r].at = "insert" /\ r \in Running
          /\ gateways' = gateways + 1 /\ Continue(r, Done) /\ shop' = shop
      BY <1>8, JobAt DEF InsertGateway, Finish
    <2>2. gateways = 0 /\ Existing # {}
      BY <1>c, <2>1 DEF LinkFits
    <2>3. Cardinality(Existing) # 0
      <3>1. IsFiniteSet(Existing)
        BY ExistingFinite DEF Existing
      <3>2. QED BY <2>2, <3>1, FS_EmptySet
    <2>4. Existing' = Existing
      BY <2>1 DEF Existing
    <2>5. QED BY <1>a, <1>b, <1>d, <2>1, <2>2, <2>3, <2>4, Turns DEF LinkFits
  <1>9. CASE ListShops(r)
    <2>1. PICK j : j = [op |-> "list", at |-> "gateways", insert |-> {},
                        find |-> {s \in Sites : shop[s] # Null}]
      OBVIOUS
    <2>2. gateways' = gateways /\ Existing' = Existing /\ Begin(r, j)
      BY <1>9, <2>1 DEF ListShops, builderVars, Existing
    <2>3. j.op = "list" /\ j.insert = {} /\ j.find = Existing
      BY <2>1 DEF Existing
    <2>4. Cardinality({}) = 0
      BY FS_EmptySet
    <2>5. LinkFits(j)'
      BY <1>a, <2>2, <2>3, <2>4, BuilderJobKinds DEF LinkFits
    <2>6. QED BY <1>a, <1>d, <2>2, <2>5, Turns
  <1>10. ASSUME NEW s \in Sites, FindListed(r, s) PROVE LinksRight'
    <2>1. /\ job[r] \in ListJob /\ r \in Running /\ s \in job[r].find
          /\ gateways' = gateways /\ shop' = shop
      BY <1>10, JobAt DEF FindListed, builderVars
    <2>2. PICK j : j = [job[r] EXCEPT !.find = @ \ {s},
                               !.insert = IF NeedsGateway THEN @ \union {s} ELSE @]
      OBVIOUS
    <2>3. Continue(r, Done) \/ Continue(r, j)
      BY <1>10, <2>2 DEF FindListed, Finish
    <2>4. /\ j \in ListJob /\ j.op = "list" /\ j.find \subseteq job[r].find
          /\ j.insert = IF NeedsGateway THEN job[r].insert \union {s} ELSE job[r].insert
      <3>1. /\ job[r].find \subseteq Sites /\ job[r].insert \subseteq Sites
            /\ job[r].op = "list" /\ job[r].at = "gateways"
        BY <2>1 DEF ListJob
      <3>2. PICK insert \in SUBSET Sites :
                insert = IF NeedsGateway THEN job[r].insert \union {s} ELSE job[r].insert
        BY <3>1
      <3>3. PICK find \in SUBSET Sites : find = job[r].find \ {s}
        BY <3>1
      <3>4. j = [job[r] EXCEPT !.find = find, !.insert = insert]
        BY <2>2, <3>2, <3>3
      <3>5. /\ j \in ListJob /\ j.op = "list" /\ j.find = find /\ j.insert = insert
        BY <2>1, <3>4 DEF ListJob
      <3>6. QED BY <3>2, <3>3, <3>5
    <2>5. /\ job[r].insert \subseteq Existing /\ job[r].find \subseteq Existing
          /\ gateways + Cardinality(job[r].insert) <= Cardinality(Existing)
      BY <1>c, <2>1 DEF LinkFits
    <2>6. j.insert \subseteq Existing /\ j.find \subseteq Existing
      BY <2>1, <2>4, <2>5
    <2>7. gateways + Cardinality(j.insert) <= Cardinality(Existing)
      <3>1. CASE NeedsGateway
        <4>1. IsFiniteSet(Existing)
          BY ExistingFinite DEF Existing
        <4>2. Cardinality(j.insert) <= Cardinality(Existing)
          BY <2>6, <4>1, FS_Subset
        <4>3. Cardinality(j.insert) \in Nat
          BY <2>6, ExistingFinite DEF Existing
        <4>4. gateways = 0
          BY <3>1 DEF NeedsGateway
        <4>5. QED BY <1>a, <4>2, <4>3, <4>4
      <3>2. CASE ~NeedsGateway
        BY <2>4, <2>5, <3>2
      <3>3. QED BY <3>1, <3>2
    <2>8. Existing' = Existing
      BY <2>1 DEF Existing
    <2>9. LinkFits(j)'
      BY <2>1, <2>4, <2>6, <2>7, <2>8, BuilderJobKinds DEF LinkFits
    <2>10. CASE Continue(r, j)
      BY <1>a, <1>d, <2>1, <2>9, <2>10, Turns
    <2>11. CASE Continue(r, Done)
      BY <1>b, <1>e, <2>1, <2>11, Turns
    <2>12. QED BY <2>3, <2>10, <2>11
  <1>11. ASSUME NEW s \in Sites, InsertListed(r, s) PROVE LinksRight'
    <2>1. /\ job[r] \in ListJob /\ r \in Running /\ s \in job[r].insert
          /\ gateways' = gateways + 1 /\ shop' = shop
      BY <1>11, JobAt DEF InsertListed
    <2>2. PICK j : j = [job[r] EXCEPT !.insert = @ \ {s}]
      OBVIOUS
    <2>3. Continue(r, Done) \/ Continue(r, j)
      BY <1>11, <2>2 DEF InsertListed, Finish
    <2>4. /\ j \in ListJob /\ j.op = "list" /\ j.find = job[r].find
          /\ j.insert = job[r].insert \ {s}
      BY <2>1, <2>2 DEF ListJob
    <2>5. /\ job[r].insert \subseteq Existing /\ job[r].find \subseteq Existing
          /\ gateways + Cardinality(job[r].insert) <= Cardinality(Existing)
      BY <1>c, <2>1 DEF LinkFits
    <2>6. /\ Cardinality(j.insert) \in Nat
          /\ gateways + 1 + Cardinality(j.insert) <= Cardinality(Existing)
      <3>1. PICK insert : insert = job[r].insert
        OBVIOUS
      <3>2. insert \subseteq Sites /\ s \in insert
        BY <2>1, <2>5, <3>1 DEF Existing
      <3>3. IsFiniteSet(insert) /\ Cardinality(insert) \in Nat
        BY <3>2, ExistingFinite
      <3>4. Cardinality(insert \ {s}) = Cardinality(insert) - 1
        BY <3>2, <3>3, FS_RemoveElement
      <3>5. Cardinality(insert \ {s}) \in Nat
        BY <3>2, ExistingFinite
      <3>6. QED BY <1>a, <2>4, <2>5, <3>1, <3>3, <3>4, <3>5
    <2>7. Existing' = Existing
      BY <2>1 DEF Existing
    <2>8. LinkFits(j)'
      BY <2>1, <2>4, <2>5, <2>6, <2>7, BuilderJobKinds DEF LinkFits
    <2>9. gateways' <= Cardinality(Existing')
      BY <1>a, <2>1, <2>6, <2>7
    <2>10. LinkFits(Done)'
      BY <1>b DEF LinkFits
    <2>11. QED BY <1>d, <2>1, <2>3, <2>8, <2>9, <2>10, Turns
  <1>12. QED BY <1>1, <1>2, <1>4, <1>5, <1>6, <1>7, <1>8, <1>9, <1>10, <1>11 DEF SiteAct

LEMMA LinksKept ==
    ASSUME Types, Alone, LinksRight, [Next]_vars
    PROVE  LinksRight'
  <1> USE DEF Types
  <1>1. CASE ~BuilderNext
    <2>1. Leaves(SiteOps) /\ gateways' = gateways /\ shop' = shop /\ talk' = talk
          /\ deposit' = deposit /\ credited' = credited /\ bought' = bought /\ tagged' = tagged
      BY <1>1, BuilderRests DEF Leaves, BuilderOps, SiteOps, builderVars
    <2>2. BuilderGrows
      BY <2>1 DEF BuilderGrows, BuilderTypes
    <2>3. QED BY <2>1, <2>2, LinksLeft
  <1>2. BuilderNext => BuilderGrows
    BY BuilderStep DEF BuilderKept
  <1>3. ASSUME NEW r \in Requests, DepositAct(r) \/ ChatAct(r) \/ FeeAct(r), BuilderNext
        PROVE  LinksRight'
    <2>1. Leaves(SiteOps) /\ gateways' = gateways
      BY <1>3, DepositLeaves, ChatLeaves, FeeLeaves DEF Leaves, SiteOps
    <2>2. QED BY <1>2, <1>3, <2>1, LinksLeft
  <1>4. ASSUME NEW r \in Requests, SiteAct(r), inSeries, BuilderNext PROVE LinksRight'
    BY <1>2, <1>4, LinksStep
  <1>5. inSeries' = inSeries
    BY PartSteps DEF BuilderKept, Moves, Framed
  <1>6. QED BY <1>1, <1>3, <1>4, <1>5, BuilderActs DEF LinksRight

LEMMA LinksInit == ASSUME Init PROVE LinksRight
  <1>1. \A r \in Requests : job[r] \notin GatewayJob \union ListJob
    BY JobOps, BuilderJobKinds DEF Init, RequestsInit, Waiting
  <1>2. QED BY <1>1 DEF Init, BuilderInit, LinksRight, LinkFits, Existing

-----------------------------------------------------------------------------
(* One at a time, a shop has one row of delivery settings; a handler that  *)
(* is to make one has found none, and one that is to save one holds it.    *)

FeeFits(j) ==
    /\ j \in DefaultJob => delivery[j.shop] = {}
    /\ j \in DeliveryJob => delivery[j.shop] = {} \/ delivery[j.shop] = {j.copy}

FeesRight ==
    inSeries => /\ \A s \in Sites : \A d \in delivery[s] : d.usd \in {d.fee, Null}
                /\ \A s \in Sites : \A d, e \in delivery[s] : d = e
                /\ \A r \in Requests : FeeFits(job[r])

LEMMA FeesLeft ==
    ASSUME FeesRight, Leaves({"delivery"}), delivery' = delivery
    PROVE  FeesRight'
  <1>1. ASSUME inSeries, NEW r \in Requests PROVE FeeFits(job[r])'
    <2>1. PICK j : j = job'[r]
      OBVIOUS
    <2>2. j.op = "delivery" => j = job[r]
      BY <2>1 DEF Leaves
    <2>3. FeeFits(j)'
      BY <1>1, <2>2, BuilderJobKinds DEF FeeFits, FeesRight
    <2>4. QED BY <2>1, <2>3
  <1>2. QED BY <1>1 DEF FeesRight, Leaves

LEMMA FeesStep ==
    ASSUME JobsOK, BuilderTypes, Alone, inSeries, FeesRight, NEW r \in Requests, FeeAct(r)
    PROVE  FeesRight'
  <1>a. delivery \in [Sites -> SUBSET Delivery]
    BY DEF BuilderTypes
  <1>b. /\ \A j \in {Waiting, Done} : j \notin DefaultJob \union DeliveryJob
        /\ DefaultJob \intersect DeliveryJob = {}
    <2>1. \A j \in DefaultJob \union DeliveryJob : j.op = "delivery"
      BY BuilderJobKinds
    <2>2. QED BY <2>1, JobOps DEF DefaultJob, DeliveryJob
  (* r goes on with j, or is done having left one row. *)
  <1>c. ASSUME NEW j, Turn(r, j), FeeFits(j)', delivery' = delivery
        PROVE  FeesRight'
    <2>1. ASSUME NEW q \in Requests PROVE FeeFits(job[q])'
      <3>1. job'[q] = j \/ job'[q] \in {Waiting, Done}
        BY <1>c DEF Turn
      <3>2. QED BY <1>b, <1>c, <3>1 DEF FeeFits
    <2>2. QED BY <1>c, <2>1 DEF FeesRight
  <1>d. ASSUME NEW s \in Sites, NEW d, Turn(r, Done), d.usd \in {d.fee, Null},
               delivery' = [delivery EXCEPT ![s] = {d}]
        PROVE  FeesRight'
    <2>1. \A q \in Requests : job'[q] \in {Waiting, Done}
      BY <1>d DEF Turn
    <2>2. \A q \in Requests : FeeFits(job[q])'
      BY <1>b, <2>1 DEF FeeFits
    <2>3. delivery'[s] = {d} /\ \A z \in Sites \ {s} : delivery'[z] = delivery[z]
      BY <1>a, <1>d
    <2>4. \A z \in Sites : \A e \in delivery'[z] : e.usd \in {e.fee, Null}
      BY <1>d, <2>3 DEF FeesRight
    <2>5. \A z \in Sites : \A e, f \in delivery'[z] : e = f
      BY <2>3 DEF FeesRight
    <2>6. QED BY <2>2, <2>4, <2>5 DEF FeesRight
  <1>1. ASSUME NEW s \in Sites, ShowDelivery(r, s) PROVE FeesRight'
    <2>0. delivery' = delivery
      BY <1>1 DEF ShowDelivery, builderVars
    <2>1. CASE delivery[s] = {}
      <3>1. PICK j : j = [op |-> "delivery", at |-> "default", shop |-> s]
        OBVIOUS
      <3>2. Begin(r, j) /\ j \in DefaultJob /\ j.shop = s
        BY <1>1, <2>1, <3>1 DEF ShowDelivery, DefaultJob
      <3>3. FeeFits(j)'
        BY <1>b, <2>0, <2>1, <3>2 DEF FeeFits
      <3>4. QED BY <1>c, <2>0, <3>2, <3>3, Turns
    <2>2. CASE delivery[s] # {}
      <3>1. Begin(r, Done)
        BY <1>1, <2>2 DEF ShowDelivery
      <3>2. QED BY <1>b, <1>c, <2>0, <3>1, Turns DEF FeeFits
    <2>3. QED BY <2>1, <2>2
  <1>2. ASSUME NEW s \in Sites, NEW priced \in BOOLEAN, UpdateDelivery(r, s, priced)
        PROVE  FeesRight'
    <2>0. delivery' = delivery
      BY <1>2 DEF UpdateDelivery, builderVars
    <2>1. PICK copy \in IF delivery[s] = {} THEN {[made |-> r, fee |-> "free", usd |-> "free"]}
                        ELSE delivery[s] :
            Begin(r, [op |-> "delivery", at |-> "save", shop |-> s, copy |-> copy,
                      fee |-> IF priced THEN r ELSE copy.fee])
      BY <1>2 DEF UpdateDelivery
    <2>2. delivery[s] = {} \/ delivery[s] = {copy}
      BY <2>1 DEF FeesRight
    <2>3. PICK j : j = [op |-> "delivery", at |-> "save", shop |-> s, copy |-> copy,
                        fee |-> IF priced THEN r ELSE copy.fee]
      OBVIOUS
    <2>4. j.shop = s /\ j.copy = copy /\ Begin(r, j) /\ j \notin DefaultJob
      BY <2>1, <2>3 DEF DefaultJob
    <2>5. FeeFits(j)'
      BY <2>0, <2>2, <2>4 DEF FeeFits
    <2>6. QED BY <1>c, <2>0, <2>4, <2>5, Turns
  <1>3. CASE InsertDefault(r)
    <2>1. job[r] \in DefaultJob /\ r \in Running
      BY <1>3, JobAt DEF InsertDefault
    <2>2. PICK s \in Sites : s = job[r].shop
      BY <2>1 DEF DefaultJob
    <2>3. delivery[s] = {}
      BY <2>1, <2>2 DEF FeesRight, FeeFits
    <2>4. PICK d : d = [made |-> r, fee |-> "free", usd |-> "free"]
      OBVIOUS
    <2>5. d.usd = d.fee
      BY <2>4
    <2>6. delivery' = [delivery EXCEPT ![s] = {d}] /\ Continue(r, Done)
      BY <1>3, <2>2, <2>3, <2>4 DEF InsertDefault, Finish
    <2>7. QED BY <1>d, <2>1, <2>5, <2>6, Turns
  <1>4. CASE SaveDelivery(r)
    <2>1. job[r] \in DeliveryJob /\ r \in Running
      BY <1>4, JobAt DEF SaveDelivery
    <2>2. PICK s \in Sites : s = job[r].shop
      BY <2>1 DEF DeliveryJob
    <2>3. PICK copy \in Delivery : copy = job[r].copy
      BY <2>1 DEF DeliveryJob
    <2>4. PICK fee \in Requests \union {"free"} : fee = job[r].fee
      BY <2>1 DEF DeliveryJob
    <2>5. delivery[s] = {} \/ delivery[s] = {copy}
      BY <2>1, <2>2, <2>3 DEF FeesRight, FeeFits
    <2> DEFINE rows == delivery[job[r].shop]
               old == {d \in rows : d.made = job[r].copy.made}
    <2>6. PICK usd \in InUsd(Converted(job[r].copy, job[r].fee)) :
             delivery' = [delivery EXCEPT ![job[r].shop] =
                    IF old = {} THEN rows \union {[job[r].copy EXCEPT !.fee = job[r].fee, !.usd = usd]}
                    ELSE (rows \ old) \union {Saved(d, job[r].copy,
                            [job[r].copy EXCEPT !.fee = job[r].fee, !.usd = usd]) : d \in old}]
      BY <1>4 DEF SaveDelivery
    <2>a. usd \in InUsd(fee)
      BY <2>4, <2>6 DEF Converted
    <2>b. PICK new : new = [copy EXCEPT !.fee = fee, !.usd = usd]
      OBVIOUS
    <2>7. delivery' = [delivery EXCEPT ![s] =
                    IF old = {} THEN rows \union {new}
                    ELSE (rows \ old) \union {Saved(d, copy, new) : d \in old}]
      BY <2>2, <2>3, <2>4, <2>6, <2>b
    <2>8. new \in Delivery /\ new.fee = fee /\ new.usd = usd
      BY <2>a, <2>b DEF Delivery, InUsd
    <2>9. new.usd \in {new.fee, Null}
      BY <2>8, <2>a DEF InUsd
    <2>10. Saved(copy, copy, new) = new
      BY <2>8, SavedDelivery
    <2>11. delivery' = [delivery EXCEPT ![s] = {new}]
      <3>1. CASE delivery[s] = {}
        <4>1. rows = {} /\ old = {}
          BY <2>2, <3>1
        <4>2. QED BY <2>7, <4>1
      <3>2. CASE delivery[s] = {copy}
        <4>1. rows = {copy} /\ old = {copy}
          BY <2>2, <2>3, <3>2
        <4>2. {Saved(d, copy, new) : d \in old} = {new}
          BY <2>10, <4>1
        <4>3. (rows \ old) \union {Saved(d, copy, new) : d \in old} = {new} /\ old # {}
          BY <4>1, <4>2
        <4>4. QED BY <2>7, <4>3
      <3>3. QED BY <2>5, <3>1, <3>2
    <2>12. Continue(r, Done)
      BY <1>4 DEF SaveDelivery, Finish
    <2>13. QED BY <1>d, <2>1, <2>9, <2>11, <2>12, Turns
  <1>5. QED BY <1>1, <1>2, <1>3, <1>4 DEF FeeAct

LEMMA FeesKept ==
    ASSUME Types, Alone, FeesRight, [Next]_vars
    PROVE  FeesRight'
  <1> USE DEF Types
  <1>1. CASE ~BuilderNext
    <2>1. Leaves({"delivery"}) /\ delivery' = delivery
      BY <1>1, BuilderRests DEF Leaves, BuilderOps, builderVars
    <2>2. QED BY <2>1, FeesLeft
  <1>2. ASSUME NEW r \in Requests, SiteAct(r) \/ ChatAct(r) \/ DepositAct(r) PROVE FeesRight'
    <2>1. Leaves({"delivery"}) /\ delivery' = delivery
      BY <1>2, SiteLeaves, ChatLeaves, DepositLeaves DEF Leaves
    <2>2. QED BY <2>1, FeesLeft
  <1>3. ASSUME NEW r \in Requests, FeeAct(r), inSeries PROVE FeesRight'
    BY <1>3, FeesStep
  <1>4. inSeries' = inSeries
    BY PartSteps DEF BuilderKept, Moves, Framed
  <1>5. QED BY <1>1, <1>2, <1>3, <1>4, BuilderActs DEF FeesRight

LEMMA FeesInit == ASSUME Init PROVE FeesRight
  <1>1. \A r \in Requests : job[r] \notin DefaultJob \union DeliveryJob
    BY JobOps, BuilderJobKinds DEF Init, RequestsInit, Waiting
  <1>2. QED BY <1>1 DEF Init, BuilderInit, FeesRight, FeeFits

-----------------------------------------------------------------------------
(* However uploads overlap, what a handler is to save fits the limit, but  *)
(* for files that a request has let go of.                                 *)

Tracked(images) == images \ loose

AlbumFits(j) ==
    /\ j \in ImageJob => Cardinality(Tracked(j.copy)) + 1 <= MaxImages
    /\ j \in RelistJob => Cardinality(Tracked(j.images)) <= MaxImages

AlbumsFit ==
    /\ \A a \in Albums : Cardinality(Tracked(album[a])) <= MaxImages
    /\ \A r \in Requests : AlbumFits(job[r])

LEMMA FileJobKinds ==
    /\ \A j \in PictureJob : j.op = "picture" /\ j.picture \in Pictures
    /\ \A j \in ImageJob : j.op = "image" /\ j.album \in Albums /\ j.copy \in SUBSET Requests
    /\ \A j \in RelistJob : j.op = "relist" /\ j.album \in Albums /\ j.images \in SUBSET Requests
    /\ \A j \in {Waiting, Done} : j \notin PictureJob \union ImageJob \union RelistJob
  BY JobOps DEF PictureJob, ImageJob, RelistJob

LEMMA Fewer ==
    ASSUME NEW more, more \subseteq Requests, NEW less, less \subseteq more
    PROVE  /\ Cardinality(less) \in Nat /\ Cardinality(more) \in Nat
           /\ Cardinality(less) <= Cardinality(more)
  <1>1. IsFiniteSet(more)
    BY FilesAssumption, FS_Subset
  <1>2. IsFiniteSet(less) /\ Cardinality(less) <= Cardinality(more)
    BY <1>1, FS_Subset
  <1>3. QED BY <1>1, <1>2, FS_CardinalityType

LEMMA OneMore ==
    ASSUME NEW images, images \subseteq Requests, NEW f
    PROVE  /\ IsFiniteSet(images \union {f}) /\ Cardinality(images \union {f}) \in Nat
           /\ Cardinality(images \union {f}) <= Cardinality(images) + 1
  <1>1. IsFiniteSet(images) /\ Cardinality(images) \in Nat
    BY FilesAssumption, FS_Subset, FS_CardinalityType
  <1>2. /\ IsFiniteSet(images \union {f})
        /\ Cardinality(images \union {f}) \in {Cardinality(images), Cardinality(images) + 1}
    BY <1>1, FS_AddElement
  <1>3. QED BY <1>1, <1>2

(* What has been let go of stays so. *)
LEMMA StaysLoose ==
    ASSUME FilesNext
    PROVE  loose \subseteq loose'
  BY DEF FilesNext, UploadPicture, StorePicture, SavePicture, UploadImage, StoreImage, SaveImage,
        ListImages, ListAndUpload, DeleteImage, DeleteFile, RelistImages, fileVars

LEMMA AlbumFitsOn ==
    ASSUME JobsOK, loose \subseteq loose', NEW j, AlbumFits(j)
    PROVE  AlbumFits(j)'
  <1>1. ASSUME j \in ImageJob PROVE Cardinality(j.copy \ loose') + 1 <= MaxImages
    <2>1. PICK s : s = j.copy \ loose
      OBVIOUS
    <2>2. j.copy \ loose' \subseteq s /\ s \subseteq Requests
      BY <1>1, <2>1, FileJobKinds
    <2>3. Cardinality(s) + 1 <= MaxImages
      BY <1>1, <2>1 DEF AlbumFits, Tracked
    <2>4. QED BY <2>2, <2>3, Fewer, MaxImagesAssumption
  <1>2. ASSUME j \in RelistJob PROVE Cardinality(j.images \ loose') <= MaxImages
    <2>1. PICK s : s = j.images \ loose
      OBVIOUS
    <2>2. j.images \ loose' \subseteq s /\ s \subseteq Requests
      BY <1>2, <2>1, FileJobKinds
    <2>3. Cardinality(s) <= MaxImages
      BY <1>2, <2>1 DEF AlbumFits, Tracked
    <2>4. QED BY <2>2, <2>3, Fewer, MaxImagesAssumption
  <1>3. QED BY <1>1, <1>2 DEF AlbumFits, Tracked

LEMMA AlbumsStep ==
    ASSUME JobsOK, FilesTypes, AlbumsFit, FilesNext
    PROVE  AlbumsFit'
  <1>a. album \in [Albums -> SUBSET Requests] /\ loose \subseteq loose'
    BY StaysLoose DEF FilesTypes
  (* r goes on with j, and writes the images of a at most. *)
  <1>b. ASSUME NEW r \in Requests, NEW j, Begin(r, j) \/ Continue(r, j), AlbumFits(j)',
               \/ album' = album
               \/ \E a \in Albums : \E s \in SUBSET Requests :
                    /\ Cardinality(s \ loose) <= MaxImages
                    /\ album' = [album EXCEPT ![a] = s]
        PROVE  AlbumsFit'
    <2>1. ASSUME NEW a \in Albums PROVE Cardinality(album'[a] \ loose') <= MaxImages
      <3>1. PICK s : s = album'[a]
        OBVIOUS
      <3>2. s \in SUBSET Requests /\ Cardinality(s \ loose) <= MaxImages
        BY <1>a, <1>b, <3>1 DEF AlbumsFit, Tracked
      <3>3. PICK t : t = s \ loose
        OBVIOUS
      <3>4. s \ loose' \subseteq t /\ t \subseteq Requests /\ Cardinality(t) <= MaxImages
        BY <1>a, <3>2, <3>3
      <3>5. Cardinality(s \ loose') <= MaxImages
        BY <3>4, Fewer, MaxImagesAssumption
      <3>6. QED BY <3>1, <3>5
    <2>2. ASSUME NEW q \in Requests PROVE AlbumFits(job[q])'
      <3>1. PICK i : i = job'[q]
        OBVIOUS
      <3>2. i = j \/ i = job[q]
        BY <1>b, <3>1 DEF Begin, Continue, JobsOK
      <3>3. AlbumFits(i)'
        BY <1>a, <1>b, <3>2, AlbumFitsOn DEF AlbumsFit
      <3>4. QED BY <3>1, <3>3
    <2>3. QED BY <2>1, <2>2 DEF AlbumsFit, Tracked
  <1>c. AlbumFits(Done)' /\ \A j \in PictureJob : AlbumFits(j)'
    BY FileJobKinds DEF AlbumFits
  <1>1. ASSUME NEW r \in Requests, NEW p \in Pictures, UploadPicture(r, p) PROVE AlbumsFit'
    <2>1. PICK j : j = [op |-> "picture", at |-> "upload", picture |-> p]
      OBVIOUS
    <2>2. j \in PictureJob /\ Begin(r, j) /\ album' = album
      BY <1>1, <2>1 DEF PictureJob, UploadPicture
    <2>3. QED BY <1>b, <1>c, <2>2
  (* A list that leaves room for one more is to be saved with one more. *)
  <1>2. ASSUME NEW r \in Requests, NEW a \in Albums, NEW images \in SUBSET Requests,
               NEW limit \in 0..MaxImages, RoomFor(images, limit), album' = album,
               Begin(r, [op |-> "image", at |-> "upload", album |-> a, copy |-> images])
        PROVE  AlbumsFit'
    <2>1. PICK j : j = [op |-> "image", at |-> "upload", album |-> a, copy |-> images]
      OBVIOUS
    <2>2. j.copy = images /\ j.op = "image" /\ Begin(r, j)
      BY <1>2, <2>1
    <2>3. Cardinality(images \ loose') + 1 <= MaxImages
      <3>1. Cardinality(images) + 1 <= limit
        BY <1>2 DEF RoomFor
      <3>2. PICK less : less = images \ loose'
        OBVIOUS
      <3>3. /\ Cardinality(less) \in Nat /\ Cardinality(images) \in Nat
            /\ Cardinality(less) <= Cardinality(images)
        BY <3>2, Fewer
      <3>4. Cardinality(less) + 1 <= MaxImages
        BY <3>1, <3>3, MaxImagesAssumption
      <3>5. QED BY <3>2, <3>4
    <2>4. AlbumFits(j)'
      BY <2>2, <2>3, FileJobKinds DEF AlbumFits, Tracked
    <2>5. QED BY <1>2, <1>b, <2>2, <2>4
  <1>3. ASSUME NEW r \in Requests, NEW a \in Albums, NEW limit \in 0..MaxImages,
               UploadImage(r, a, limit)
        PROVE  AlbumsFit'
    <2>1. album' = album /\ album[a] \in SUBSET Requests
      BY <1>3, <1>a DEF UploadImage, fileVars
    <2>2. CASE RoomFor(album[a], limit)
      BY <1>2, <1>3, <2>1, <2>2 DEF UploadImage
    <2>3. CASE ~RoomFor(album[a], limit)
      BY <1>3, <1>b, <1>c, <2>1, <2>3 DEF UploadImage
    <2>4. QED BY <2>2, <2>3
  <1>4. ASSUME NEW r \in Requests, NEW a \in Albums, NEW names \in SUBSET Known \ {{}},
               NEW limit \in 0..MaxImages, ListAndUpload(r, a, names, limit)
        PROVE  AlbumsFit'
    BY <1>2, <1>4 DEF ListAndUpload, Known
  (* Another list is to be saved. *)
  <1>5. ASSUME NEW r \in Requests, NEW a \in Albums, NEW images, album' = album,
               Cardinality(images \ loose') <= MaxImages,
               Begin(r, [op |-> "relist", at |-> "save", album |-> a, images |-> images])
        PROVE  AlbumsFit'
    <2>1. PICK j : j = [op |-> "relist", at |-> "save", album |-> a, images |-> images]
      OBVIOUS
    <2>2. j.op = "relist" /\ j.images = images /\ Begin(r, j)
      BY <1>5, <2>1
    <2>3. AlbumFits(j)'
      BY <1>5, <2>2, FileJobKinds DEF AlbumFits, Tracked
    <2>4. QED BY <1>5, <1>b, <2>2, <2>3
  <1>6. ASSUME NEW r \in Requests, NEW a \in Albums, NEW names \in SUBSET Known \ {{}},
               ListImages(r, a, names)
        PROVE  AlbumsFit'
    <2>1. names \ loose' = {}
      <3>1. loose' = loose \union names \union album[a]
        BY <1>6 DEF ListImages
      <3>2. QED BY ONLY <3>1
    <2>2. Cardinality(names \ loose') <= MaxImages
      <3>1. Cardinality({}) = 0 /\ 0 <= MaxImages
        BY FS_EmptySet, MaxImagesAssumption
      <3>2. QED BY <2>1, <3>1
    <2>3. PICK images : images = names
      OBVIOUS
    <2>4. /\ Begin(r, [op |-> "relist", at |-> "save", album |-> a, images |-> images])
          /\ album' = album /\ Cardinality(images \ loose') <= MaxImages
      BY <1>6, <2>2, <2>3 DEF ListImages
    <2>5. QED BY ONLY <1>5, <2>4, r \in Requests, a \in Albums
  <1>7. ASSUME NEW r \in Requests, NEW a \in Albums, NEW f \in Known, DeleteImage(r, a, f)
        PROVE  AlbumsFit'
    <2>1. PICK images : images = Without(album[a], f)
      OBVIOUS
    <2>2. PICK s : s = album[a] \ loose
      OBVIOUS
    <2>3. images \ loose' \subseteq s /\ s \subseteq Requests
      BY <1>a, <2>1, <2>2 DEF Without
    <2>4. Cardinality(s) <= MaxImages
      BY <2>2 DEF AlbumsFit, Tracked
    <2>5. Cardinality(images \ loose') <= MaxImages
      BY <2>3, <2>4, Fewer, MaxImagesAssumption
    <2>6. QED BY <1>5, <1>7, <2>1, <2>5 DEF DeleteImage
  <1>8. ASSUME NEW r \in Requests, StorePicture(r) \/ StoreImage(r) PROVE AlbumsFit'
    <2>1. job[r] \in PictureJob \union ImageJob
      BY <1>8, JobAt DEF StorePicture, StoreImage
    <2>2. PICK j : j = [job[r] EXCEPT !.at = "save"]
      OBVIOUS
    <2>3. /\ job[r] \in PictureJob => j \in PictureJob
          /\ job[r] \in ImageJob => j \in ImageJob /\ j.copy = job[r].copy
      BY <2>2 DEF PictureJob, ImageJob
    <2>4. AlbumFits(job[r])
      BY DEF AlbumsFit
    <2>5. AlbumFits(j)'
      <3>1. CASE job[r] \in PictureJob
        BY <1>c, <2>3, <3>1
      <3>2. CASE job[r] \in ImageJob
        <4>1. AlbumFits(j)
          BY <2>3, <2>4, <3>2, FileJobKinds DEF AlbumFits
        <4>2. QED BY <1>a, <4>1, AlbumFitsOn
      <3>3. QED BY <2>1, <3>1, <3>2
    <2>6. Continue(r, j) /\ album' = album
      BY <1>8, <2>2 DEF StorePicture, StoreImage
    <2>7. QED BY <1>b, <2>5, <2>6
  <1>9. ASSUME NEW r \in Requests, SavePicture(r) PROVE AlbumsFit'
    BY <1>9, <1>b, <1>c DEF SavePicture, Finish
  <1>10. ASSUME NEW r \in Requests, SaveImage(r) PROVE AlbumsFit'
    <2>1. job[r] \in ImageJob /\ job[r].album \in Albums /\ job[r].copy \in SUBSET Requests
      BY <1>10, JobAt, FileJobKinds DEF SaveImage
    <2>2. PICK s : s = job[r].copy \union {r}
      OBVIOUS
    <2>3. PICK t : t = job[r].copy \ loose
      OBVIOUS
    <2>4. Cardinality(t) + 1 <= MaxImages
      BY <2>1, <2>3 DEF AlbumsFit, AlbumFits, Tracked
    <2>5. Cardinality(s \ loose) <= MaxImages
      <3>1. s \ loose \subseteq t \union {r} /\ t \union {r} \subseteq Requests
        BY <2>1, <2>2, <2>3
      <3>2. Cardinality(t \union {r}) <= Cardinality(t) + 1 /\ Cardinality(t) \in Nat
        BY <2>1, <2>3, OneMore, Fewer
      <3>3. PICK u : u = t \union {r}
        OBVIOUS
      <3>4. /\ Cardinality(s \ loose) \in Nat /\ Cardinality(u) \in Nat
            /\ Cardinality(s \ loose) <= Cardinality(u)
        BY <3>1, <3>3, Fewer
      <3>5. QED BY <2>4, <3>2, <3>3, <3>4, MaxImagesAssumption
    <2>6. album' = [album EXCEPT ![job[r].album] = s] /\ Continue(r, Done)
      BY <1>10, <2>2 DEF SaveImage, Finish
    <2>7. s \in SUBSET Requests
      BY <2>1, <2>2
    <2>8. QED BY <1>b, <1>c, <2>1, <2>5, <2>6, <2>7
  <1>11. ASSUME NEW r \in Requests, RelistImages(r) PROVE AlbumsFit'
    <2>1. job[r] \in RelistJob /\ job[r].album \in Albums /\ job[r].images \in SUBSET Requests
      BY <1>11, JobAt, FileJobKinds DEF RelistImages
    <2>2. PICK s : s = job[r].images
      OBVIOUS
    <2>3. Cardinality(s \ loose) <= MaxImages
      BY <2>1, <2>2 DEF AlbumsFit, AlbumFits, Tracked
    <2>4. album' = [album EXCEPT ![job[r].album] = s] /\ Continue(r, Done)
      BY <1>11, <2>2 DEF RelistImages, Finish
    <2>5. QED BY <1>b, <1>c, <2>1, <2>2, <2>3, <2>4
  <1>12. QED BY <1>1, <1>3, <1>4, <1>6, <1>7, <1>8, <1>9, <1>10, <1>11 DEF FilesNext

LEMMA AlbumsKept ==
    ASSUME Types, AlbumsFit, [Next]_vars
    PROVE  AlbumsFit'
  <1> USE DEF Types
  <1>1. CASE FilesNext
    BY <1>1, AlbumsStep
  <1>2. CASE Framed(FileJobs) /\ UNCHANGED fileVars
    <2>1. \A r \in Requests : job'[r] \in FileJobs => job'[r] = job[r]
      BY <1>2 DEF Framed
    <2>2. UNCHANGED <<album, loose>>
      BY <1>2 DEF fileVars
    <2>3. ASSUME NEW r \in Requests PROVE AlbumFits(job[r])'
      <3>1. PICK i : i = job'[r]
        OBVIOUS
      <3>2. AlbumFits(i)
        BY <2>1, <3>1 DEF AlbumsFit, AlbumFits, FileJobs
      <3>3. AlbumFits(i)'
        BY <2>2, <3>2 DEF AlbumFits, Tracked
      <3>4. QED BY <3>1, <3>3
    <2>4. QED BY <2>2, <2>3 DEF AlbumsFit, Tracked
  <1>3. QED BY <1>1, <1>2, PartSteps

LEMMA AlbumsInit == ASSUME Init PROVE AlbumsFit
  <1>1. \A r \in Requests : AlbumFits(job[r])
    BY FileJobKinds DEF Init, RequestsInit, AlbumFits
  <1>2. \A a \in Albums : Tracked(album[a]) = {}
    BY DEF Init, FilesInit, Tracked
  <1>3. QED BY <1>1, <1>2, FS_EmptySet, MaxImagesAssumption DEF AlbumsFit

(* However requests overlap, no product has more images that were uploaded *)
(* to it than its merchant ever allowed and no guest a second cart; and    *)
(* one at a time, no shop has more products than its merchant ever allowed,*)
(* no user a second cart, no business a link too many and no shop a second *)
(* row of delivery settings or a fee it does not charge.                   *)
THEOREM LimitsAlwaysHold == Spec => []LimitsHold
  <1>1. Init => Types /\ Alone /\ RoomKept /\ AlbumsFit /\ LinksRight /\ FeesRight
    BY TypesInit, AloneInit, RoomInit, AlbumsInit, LinksInit, FeesInit
  <1>2. Types /\ Alone /\ RoomKept /\ AlbumsFit /\ LinksRight /\ FeesRight /\ [Next]_vars
            => (Types /\ Alone /\ RoomKept /\ AlbumsFit /\ LinksRight /\ FeesRight)'
    BY TypesKept, AloneKept, RoomKeptKept, AlbumsKept, LinksKept, FeesKept
  <1>3. RoomKept /\ AlbumsFit /\ LinksRight /\ FeesRight => LimitsHold
    <2> SUFFICES ASSUME RoomKept, AlbumsFit, LinksRight, FeesRight PROVE LimitsHold
      OBVIOUS
    <2>1. ProductsWithinLimit /\ OneCartEach
      BY RoomHolds
    <2>2. ImagesWithinLimit
      BY DEF AlbumsFit, Tracked, ImagesWithinLimit
    <2>3. OneGateway
      BY DEF LinksRight, Existing, OneGateway
    <2>4. ASSUME inSeries, NEW s \in Sites PROVE Cardinality(delivery[s]) <= 1
      <3>1. CASE delivery[s] = {}
        BY <3>1, FS_EmptySet
      <3>2. ASSUME NEW d \in delivery[s] PROVE Cardinality(delivery[s]) <= 1
        <4>1. delivery[s] = {d}
          BY <2>4 DEF FeesRight
        <4>2. Cardinality({d}) = 1
          BY FS_Singleton
        <4>3. QED BY <4>1, <4>2
      <3>3. QED BY <3>1, <3>2
    <2>5. OneDeliveryFee
      BY <2>4 DEF FeesRight, OneDeliveryFee
    <2>6. QED BY <2>1, <2>2, <2>3, <2>5 DEF LimitsHold
  <1>4. QED BY <1>1, <1>2, <1>3, PTL DEF Spec

-----------------------------------------------------------------------------
(* One at a time, and while no handler has ended early, the conversation   *)
(* and its summary are what was said; a handler that is to save one holds  *)
(* the one that is stored.                                                 *)

Holds(t) == Members(t.messages) \union t.summary

TalkFits(j) == j \in ReplyJob \union ResetJob => talk[j.shop] = j.copy

TalksRight ==
    inSeries /\ faults = 0 =>
        /\ \A s \in Sites : talk[s] # Null => said[s] = Holds(talk[s])
        /\ \A r \in Requests : TalkFits(job[r])

LEMMA NewTalkHolds ==
    ASSUME NEW r \in Requests, NEW j \in ReplyJob
    PROVE  Holds(NewTalk(r, j, TRUE)) = Holds(j.copy) \union {r}
  <1>1. j.copy \in Talk /\ j.copy.messages \in Seq(Requests)
    BY DEF ReplyJob, Talk
  <1>2. PICK q \in Seq(Requests) : q = Append(j.copy.messages, r)
    BY <1>1, AppendMembers
  <1>3. Members(q) = Members(j.copy.messages) \union {r}
    BY <1>1, <1>2, AppendMembers
  <1>4. PICK t : t = NewTalk(r, j, TRUE)
    OBVIOUS
  <1>5. t.messages = Kept(q) /\ t.summary = j.copy.summary \union (Members(q) \ Members(Kept(q)))
    BY <1>2, <1>4 DEF NewTalk, Summary
  <1>6. Members(Kept(q)) \subseteq Members(q)
    BY KeptMembers
  <1>7. QED BY <1>3, <1>4, <1>5, <1>6 DEF Holds

LEMMA NoTalkHolds == Holds(NoTalk) = {}
  <1>1. Members(<<>>) = {}
    BY DEF Members
  <1>2. QED BY <1>1 DEF Holds, NoTalk

LEMMA TalksLeft ==
    ASSUME TalksRight, Leaves({"chat", "reset"}), UNCHANGED <<talk, said>>
    PROVE  TalksRight'
  <1>1. ASSUME inSeries, faults = 0, NEW r \in Requests PROVE TalkFits(job[r])'
    <2>1. PICK j : j = job'[r]
      OBVIOUS
    <2>2. j.op \in {"chat", "reset"} => j = job[r]
      BY <2>1 DEF Leaves
    <2>3. TalkFits(j)'
      BY <1>1, <2>2, BuilderJobKinds DEF TalkFits, TalksRight
    <2>4. QED BY <2>1, <2>3
  <1>2. QED BY <1>1 DEF TalksRight, Holds, Leaves

LEMMA TalksStep ==
    ASSUME JobsOK, BuilderTypes, BuilderSound, BuilderHeld, Alone, inSeries, faults = 0,
           TalksRight, NEW r \in Requests, ChatAct(r), faults' = 0
    PROVE  TalksRight'
  <1>a. talk \in [Sites -> Talk \union {Null}] /\ said \in [Sites -> SUBSET Requests]
    BY DEF BuilderTypes, Talk
  <1>b. \A j \in {Waiting, Done} : j \notin ReplyJob \union ResetJob
    <2>1. \A j \in ReplyJob \union ResetJob : j.op \in {"chat", "reset"}
      BY BuilderJobKinds
    <2>2. QED BY <2>1, JobOps
  (* r goes on with j, and leaves t as the conversation of s. *)
  <1>c. ASSUME NEW j, Turn(r, j), TalkFits(j)',
               \A s \in Sites : talk'[s] # Null => said'[s] = Holds(talk'[s])
        PROVE  TalksRight'
    <2>1. ASSUME NEW q \in Requests PROVE TalkFits(job[q])'
      <3>1. job'[q] = j \/ job'[q] \in {Waiting, Done}
        BY <1>c DEF Turn
      <3>2. QED BY <1>b, <1>c, <3>1 DEF TalkFits
    <2>2. QED BY <1>c, <2>1 DEF TalksRight, Holds
  <1>d. ASSUME NEW s \in Sites, NEW t, talk' = [talk EXCEPT ![s] = t],
               NEW all, said' = [said EXCEPT ![s] = all], all = Holds(t)
        PROVE  \A z \in Sites : talk'[z] # Null => said'[z] = Holds(talk'[z])
    BY <1>a, <1>d DEF TalksRight
  <1>e. ASSUME UNCHANGED <<talk, said>>
        PROVE  \A z \in Sites : talk'[z] # Null => said'[z] = Holds(talk'[z])
    BY <1>e DEF TalksRight
  <1>1. ASSUME NEW s \in Sites, NEW streamed \in BOOLEAN, AskedOf(r, s, streamed)
        PROVE  TalksRight'
    <2>1. PICK j : j = [op |-> "chat", at |-> "ask", shop |-> s, streamed |-> streamed]
      OBVIOUS
    <2>2. j \notin ReplyJob \union ResetJob
      BY <2>1, BuilderJobKinds
    <2>3. PICK i \in {j, Done} : Begin(r, i)
      BY <1>1, <2>1 DEF AskedOf
    <2>4. UNCHANGED <<talk, said>>
      BY <1>1 DEF AskedOf, builderVars
    <2>5. TalkFits(i)' /\ Turn(r, i)
      BY <1>b, <2>2, <2>3, Turns DEF TalkFits
    <2>6. QED BY <1>c, <1>e, <2>4, <2>5
  <1>2. ASSUME NEW s \in Sites, ResetMemory(r, s) PROVE TalksRight'
    <2>1. PICK j : j = [op |-> "reset", at |-> "save", shop |-> s, copy |-> talk[s]]
      OBVIOUS
    <2>2. j.shop = s /\ j.copy = talk[s] /\ Begin(r, j)
      BY <1>2, <2>1 DEF ResetMemory
    <2>3. UNCHANGED <<talk, said>>
      BY <1>2 DEF ResetMemory, builderVars
    <2>4. TalkFits(j)' /\ Turn(r, j)
      BY <2>2, <2>3, Turns DEF TalkFits
    <2>5. QED BY <1>c, <1>e, <2>3, <2>4
  <1>3. CASE AskModel(r)
    <2>1. job[r] \in AskJob /\ r \in Running
      BY <1>3, JobAt DEF AskModel
    <2>2. PICK s \in Sites : s = job[r].shop
      BY <2>1 DEF AskJob
    <2>3. PICK t : t = IF talk[s] = Null THEN NoTalk ELSE talk[s]
      OBVIOUS
    <2>4. talk' = [talk EXCEPT ![s] = t] /\ talk'[s] = t
      BY <1>3, <1>a, <2>2, <2>3 DEF AskModel
    <2>5. said[s] = Holds(t)
      <3>1. CASE talk[s] = Null
        BY <2>3, <3>1, NoTalkHolds DEF BuilderSound
      <3>2. CASE talk[s] # Null
        BY <2>3, <3>2 DEF TalksRight
      <3>3. QED BY <3>1, <3>2
    <2>6. said' = [said EXCEPT ![s] = said[s]]
      BY <1>3, <1>a DEF AskModel
    <2>7. PICK j : j = [op |-> "chat", at |-> "reply", shop |-> s, row |-> shop[s],
                        copy |-> t, streamed |-> job[r].streamed]
      OBVIOUS
    <2>8. j.shop = s /\ j.copy = t /\ Continue(r, j)
      BY <1>3, <2>2, <2>4, <2>7 DEF AskModel
    <2>9. TalkFits(j)' /\ Turn(r, j)
      BY <2>1, <2>4, <2>8, Turns DEF TalkFits
    <2>10. \A z \in Sites : talk'[z] # Null => said'[z] = Holds(talk'[z])
      BY <1>d, <2>4, <2>5, <2>6
    <2>11. QED BY <1>c, <2>9, <2>10
  <1>4. ASSUME NEW summarized \in BOOLEAN, KeepExchange(r, summarized) PROVE TalksRight'
    <2>1. job[r] \in ReplyJob /\ r \in Running
      BY <1>4, JobAt DEF KeepExchange
    <2>0. summarized = TRUE /\ faults' = faults /\ inSeries' = inSeries
      BY <1>4 DEF KeepExchange
    <2>2. PICK s \in Sites : s = job[r].shop
      BY <2>1 DEF ReplyJob
    <2>3. PICK new : new = NewTalk(r, job[r], TRUE)
      OBVIOUS
    <2>4. new \in Talk /\ Holds(new) = Holds(job[r].copy) \union {r}
      BY <2>1, <2>3, NewTalkFits, NewTalkHolds
    <2>5. job[r].copy \in Talk /\ talk[s] = job[r].copy /\ talk[s] # Null
      BY <2>1, <2>2, BuilderJobKinds, MissingShopAssumption DEF TalksRight, TalkFits
    <2>6. said[s] = Holds(talk[s])
      BY <2>5 DEF TalksRight
    <2>7. PICK row : row = Saved(talk[s], job[r].copy, new)
      OBVIOUS
    <2>8. row = new
      BY <2>4, <2>5, <2>7, SavedTalk
    <2>9. PICK j : j = [op |-> "chat", at |-> "apply", shop |-> job[r].shop, row |-> job[r].row]
      OBVIOUS
    <2>10. /\ talk' = [talk EXCEPT ![s] = row] /\ said' = [said EXCEPT ![s] = said[s] \union {r}]
           /\ job' = [job EXCEPT ![r] = j]
      BY <1>4, <2>0, <2>2, <2>3, <2>7, <2>9 DEF KeepExchange, NewTalk
    <2>11. j \notin ReplyJob \union ResetJob
      BY <2>9, BuilderJobKinds
    <2>12. Continue(r, j)
      BY <2>0, <2>10 DEF Continue
    <2>13. Turn(r, j) /\ TalkFits(j)'
      BY <2>1, <2>11, <2>12, Turns DEF TalkFits
    <2>14. said[s] \union {r} = Holds(row)
      BY <2>4, <2>5, <2>6, <2>8
    <2>15. \A z \in Sites : talk'[z] # Null => said'[z] = Holds(talk'[z])
      BY <1>d, <2>10, <2>14
    <2>16. QED BY <1>c, <2>13, <2>15
  <1>5. CASE LoseExchange(r)
    BY <1>5 DEF LoseExchange
  <1>6. ASSUME NEW themed \in BOOLEAN, ApplyAction(r, themed) PROVE TalksRight'
    <2>1. r \in Running /\ Continue(r, Done) /\ UNCHANGED <<talk, said>>
      BY <1>6, JobAt DEF ApplyAction, Finish
    <2>2. Turn(r, Done) /\ TalkFits(Done)'
      BY <1>b, <2>1, Turns DEF TalkFits
    <2>3. QED BY <1>c, <1>e, <2>1, <2>2
  <1>7. CASE SaveReset(r)
    <2>1. job[r] \in ResetJob /\ r \in Running
      BY <1>7, JobAt DEF SaveReset
    <2>2. PICK s \in Sites : s = job[r].shop
      BY <2>1 DEF ResetJob
    <2>3. job[r].copy \in Talk /\ talk[s] = job[r].copy
      BY <2>1, <2>2, BuilderJobKinds DEF TalksRight, TalkFits
    <2>4. PICK row : row = Saved(talk[s], job[r].copy, NoTalk)
      OBVIOUS
    <2>5. row = NoTalk
      BY <2>3, <2>4, SavedTalk, NoTalkFits
    <2>6. /\ talk' = [talk EXCEPT ![s] = row] /\ said' = [said EXCEPT ![s] = {}]
          /\ Continue(r, Done)
      BY <1>7, <2>2, <2>4 DEF SaveReset, Finish
    <2>7. \A z \in Sites : talk'[z] # Null => said'[z] = Holds(talk'[z])
      BY <1>d, <2>5, <2>6, NoTalkHolds
    <2>8. Turn(r, Done) /\ TalkFits(Done)'
      BY <1>b, <2>1, <2>6, Turns DEF TalkFits
    <2>9. QED BY <1>c, <2>7, <2>8
  <1>8. QED BY <1>1, <1>2, <1>3, <1>4, <1>5, <1>6, <1>7 DEF ChatAct, Chat, ChatStream

LEMMA TalksKept ==
    ASSUME Types, Alone, TalksRight, [Next]_vars
    PROVE  TalksRight'
  <1> USE DEF Types
  <1>1. CASE ~BuilderNext
    <2>1. Leaves({"chat", "reset"}) /\ UNCHANGED <<talk, said>>
      BY <1>1, BuilderRests DEF Leaves, BuilderOps, builderVars
    <2>2. QED BY <2>1, TalksLeft
  <1>2. ASSUME NEW r \in Requests, SiteAct(r) \/ DepositAct(r) \/ FeeAct(r) PROVE TalksRight'
    <2>1. Leaves({"chat", "reset"}) /\ UNCHANGED <<talk, said>>
      BY <1>2, SiteLeaves, DepositLeaves, FeeLeaves DEF Leaves
    <2>2. QED BY <2>1, TalksLeft
  <1>3. ASSUME NEW r \in Requests, ChatAct(r), inSeries, faults' = 0 PROVE TalksRight'
    <2>1. faults = 0
      BY <1>3, ChatLeaves DEF Leaves
    <2>2. QED BY <1>3, <2>1, TalksStep
  <1>4. inSeries' = inSeries
    BY PartSteps DEF BuilderKept, Moves, Framed
  <1>5. QED BY <1>1, <1>2, <1>3, <1>4, BuilderActs DEF TalksRight

LEMMA TalksInit == ASSUME Init PROVE TalksRight
  <1>1. \A r \in Requests : job[r] \notin ReplyJob \union ResetJob
    BY JobOps, BuilderJobKinds DEF Init, RequestsInit, Waiting
  <1>2. QED BY <1>1 DEF Init, BuilderInit, TalksRight, TalkFits

-----------------------------------------------------------------------------
(* However uploads overlap, a file that no request has let go of is named  *)
(* by the handler that uploaded it, once that is done, and only in the     *)
(* picture or the album it was uploaded for; and such a picture is missing *)
(* only while another is uploaded in its place, or because an upload ended *)
(* early.                                                                  *)

(* f is in album a, or is to be by a handler that runs. *)
Lists(f, a) ==
    \/ f \in album[a]
    \/ \E r \in Requests : /\ job[r] \in ImageJob /\ job[r].album = a /\ f \in job[r].copy
    \/ \E r \in Requests : /\ job[r] \in RelistJob /\ job[r].album = a /\ f \in job[r].images

FilesNamed ==
    /\ \A f \in Requests \ loose, a \in Albums : Lists(f, a) =>
        /\ job[f] = Done /\ \A p \in Pictures : picture[p] # f
        /\ \A b \in Albums : Lists(f, b) => b = a
    /\ \A p \in Pictures : picture[p] # NoFile =>
        job[picture[p]] = Done /\ \A q \in Pictures : picture[q] = picture[p] => q = p

Replaces(r, p) == job[r] \in PictureJob /\ job[r].picture = p

PicturesStored ==
    /\ \A r \in Requests : job[r] \in PictureJob /\ job[r].at = "save" => r \in files
    /\ faults = 0 => \A p \in Pictures :
        picture[p] \in files \union loose \union {NoFile} \/ \E r \in Requests : Replaces(r, p)

LEMMA FileJobsApart ==
    /\ PictureJob \intersect ImageJob = {} /\ PictureJob \intersect RelistJob = {}
    /\ ImageJob \intersect RelistJob = {}
  BY DEF PictureJob, ImageJob, RelistJob

(* A step that names no more files than before. *)
LEMMA NamedKept ==
    ASSUME FilesTypes, FilesTypes', FilesNamed, loose \subseteq loose',
           \A f \in Requests : job[f] = Done => job'[f] = Done,
           \A f \in Requests \ loose', a \in Albums : Lists(f, a)' => Lists(f, a),
           picture' = picture
    PROVE  FilesNamed'
  <1>1. \A p \in Pictures : picture[p] \in Requests \union {NoFile}
    BY DEF FilesTypes
  <1>2. ASSUME NEW f \in Requests \ loose', NEW a \in Albums, Lists(f, a)'
        PROVE  /\ job'[f] = Done /\ \A p \in Pictures : picture'[p] # f
               /\ \A b \in Albums : Lists(f, b)' => b = a
    BY <1>2 DEF FilesNamed
  <1>3. ASSUME NEW p \in Pictures, picture'[p] # NoFile
        PROVE  job'[picture'[p]] = Done /\ \A q \in Pictures : picture'[q] = picture'[p] => q = p
    BY <1>1, <1>3 DEF FilesNamed
  <1>4. QED BY <1>2, <1>3 DEF FilesNamed

(* r ends, and has named its file in one place only. *)
LEMMA NamedListed ==
    ASSUME JobsOK, FilesTypes, FilesNamed, NEW r \in Requests, NEW a \in Albums,
           job[r] # Done, job' = [job EXCEPT ![r] = Done], picture' = picture,
           loose \subseteq loose',
           \A f \in Requests \ loose', b \in Albums :
                Lists(f, b)' => Lists(f, b) \/ (f = r /\ b = a)
    PROVE  FilesNamed'
  <1>1. /\ \A p \in Pictures : picture[p] \in Requests \union {NoFile}
        /\ \A p \in Pictures : picture[p] # r
        /\ r \notin loose' => \A b \in Albums : ~Lists(r, b)
        /\ \A f \in Requests : job[f] = Done => job'[f] = Done
        /\ job'[r] = Done
    BY NoFileAssumption DEF FilesTypes, FilesNamed, JobsOK
  <1>2. ASSUME NEW f \in Requests \ loose', NEW b \in Albums, Lists(f, b)'
        PROVE  /\ job'[f] = Done /\ \A p \in Pictures : picture'[p] # f
               /\ \A c \in Albums : Lists(f, c)' => c = b
    BY <1>1, <1>2 DEF FilesNamed
  <1>3. ASSUME NEW p \in Pictures, picture'[p] # NoFile
        PROVE  job'[picture'[p]] = Done /\ \A q \in Pictures : picture'[q] = picture'[p] => q = p
    BY <1>1, <1>3 DEF FilesNamed
  <1>4. QED BY <1>2, <1>3 DEF FilesNamed

LEMMA NamedPictured ==
    ASSUME JobsOK, FilesTypes, FilesNamed, NEW r \in Requests, NEW p \in Pictures,
           job[r] # Done, job' = [job EXCEPT ![r] = Done],
           picture' = [picture EXCEPT ![p] = r],
           loose \subseteq loose',
           \A f \in Requests \ loose', b \in Albums : Lists(f, b)' => Lists(f, b)
    PROVE  FilesNamed'
  <1>1. /\ \A q \in Pictures : picture[q] \in Requests \union {NoFile}
        /\ \A q \in Pictures : picture[q] # r
        /\ r \notin loose' => \A b \in Albums : ~Lists(r, b)
        /\ \A f \in Requests : job[f] = Done => job'[f] = Done
        /\ job'[r] = Done
        /\ picture'[p] = r /\ \A q \in Pictures \ {p} : picture'[q] = picture[q]
    BY NoFileAssumption DEF FilesTypes, FilesNamed, JobsOK
  <1>2. ASSUME NEW f \in Requests \ loose', NEW b \in Albums, Lists(f, b)'
        PROVE  /\ job'[f] = Done /\ \A q \in Pictures : picture'[q] # f
               /\ \A c \in Albums : Lists(f, c)' => c = b
    BY <1>1, <1>2 DEF FilesNamed
  <1>3. ASSUME NEW q \in Pictures, picture'[q] # NoFile
        PROVE  job'[picture'[q]] = Done /\ \A z \in Pictures : picture'[z] = picture'[q] => z = q
    <2>1. CASE q = p
      BY <1>1, <2>1
    <2>2. CASE q # p
      <3>1. picture'[q] = picture[q] /\ picture[q] \in Requests /\ job[picture[q]] = Done
        BY <1>1, <1>3, <2>2 DEF FilesNamed
      <3>2. \A z \in Pictures : picture'[z] = picture'[q] => z = q
        BY <1>1, <1>3, <2>2, <3>1 DEF FilesNamed
      <3>3. QED BY <1>1, <3>1, <3>2
    <2>3. QED BY <2>1, <2>2
  <1>4. QED BY <1>2, <1>3 DEF FilesNamed

(* Of the files no request lets go of, the step lists only what was listed *)
(* already, but for g in c: in albums, in what a handler holds, and so in  *)
(* all.                                                                    *)
Saves(g, c) ==
    \A f \in Requests \ loose', a \in Albums :
        f \in album'[a] => Lists(f, a) \/ (f = g /\ a = c)

Keeps(j) ==
    /\ j \in ImageJob => \A f \in Requests \ loose' : f \in j.copy => Lists(f, j.album)
    /\ j \in RelistJob => \A f \in Requests \ loose' : f \in j.images => Lists(f, j.album)

Adds(g, c) ==
    \A f \in Requests \ loose', a \in Albums :
        Lists(f, a)' => Lists(f, a) \/ (f = g /\ a = c)

LEMMA ListsThen ==
    ASSUME JobsOK, NEW r \in Requests, NEW j, job' = [job EXCEPT ![r] = j], NEW g, NEW c,
           Saves(g, c), Keeps(j)
    PROVE  Adds(g, c)
  <1> SUFFICES ASSUME NEW f \in Requests \ loose', NEW a \in Albums, Lists(f, a)'
               PROVE  Lists(f, a) \/ (f = g /\ a = c)
    BY DEF Adds
  <1>1. \A q \in Requests : job'[q] = j \/ job'[q] = job[q]
    BY DEF JobsOK
  <1>2. CASE f \in album'[a]
    BY <1>2 DEF Saves
  <1>3. ASSUME NEW q \in Requests, job'[q] \in ImageJob, job'[q].album = a, f \in job'[q].copy
        PROVE  Lists(f, a)
    BY <1>1, <1>3 DEF Lists, Keeps
  <1>4. ASSUME NEW q \in Requests, job'[q] \in RelistJob, job'[q].album = a, f \in job'[q].images
        PROVE  Lists(f, a)
    BY <1>1, <1>4 DEF Lists, Keeps
  <1>5. QED BY <1>2, <1>3, <1>4 DEF Lists

LEMMA DoneStays ==
    ASSUME JobsOK, FilesNext
    PROVE  \A f \in Requests : job[f] = Done => job'[f] = Done
  <1>1. Waiting # Done
    BY JobsApart
  <1>2. QED BY <1>1 DEF FilesNext, UploadPicture, UploadImage, ListImages, ListAndUpload,
          DeleteImage, StorePicture, SavePicture, StoreImage, SaveImage, RelistImages, Begin, At,
          Continue, Finish, JobsOK

LEMMA NamedStep ==
    ASSUME JobsOK, FilesTypes, FilesTypes', FilesNamed, FilesNext
    PROVE  FilesNamed'
  <1>a. album \in [Albums -> SUBSET Requests] /\ \A f \in Requests : f # NoFile
    BY NoFileAssumption DEF FilesTypes
  <1>b. \A f \in Requests, a \in Albums : f \in album[a] => Lists(f, a)
    BY DEF Lists
  <1>c. Done \notin ImageJob \union RelistJob
    BY FileJobKinds
  (* Nothing is saved. *)
  <1>d. ASSUME NEW r \in Requests, NEW j, Begin(r, j) \/ Continue(r, j),
               UNCHANGED <<picture, album>>,
               Keeps(j)
        PROVE  FilesNamed'
    <2>1. job' = [job EXCEPT ![r] = j]
      BY <1>d DEF Begin, Continue
    <2>2. Saves(NoFile, 0)
      BY <1>b, <1>d DEF Saves
    <2>3. Adds(NoFile, 0)
      BY <1>d, <2>1, <2>2, ListsThen
    <2>4. \A f \in Requests \ loose', a \in Albums : Lists(f, a)' => Lists(f, a)
      BY <1>a, <2>3 DEF Adds
    <2>5. QED BY <1>d, <2>4, DoneStays, StaysLoose, NamedKept
  <1>1. ASSUME NEW r \in Requests, NEW p \in Pictures, UploadPicture(r, p) PROVE FilesNamed'
    <2>1. PICK j : j = [op |-> "picture", at |-> "upload", picture |-> p]
      OBVIOUS
    <2>2. j.op = "picture" /\ Begin(r, j) /\ UNCHANGED <<picture, album>>
      BY <1>1, <2>1 DEF UploadPicture
    <2>3. j \notin ImageJob \union RelistJob
      BY <2>2, FileJobKinds
    <2>4. QED BY <1>d, <2>2, <2>3 DEF Keeps
  <1>2. ASSUME NEW r \in Requests, NEW a \in Albums, NEW limit, UploadImage(r, a, limit)
        PROVE  FilesNamed'
    <2>0. UNCHANGED <<picture, album>>
      BY <1>2 DEF UploadImage, fileVars
    <2>1. CASE RoomFor(album[a], limit)
      <3>1. PICK j : j = [op |-> "image", at |-> "upload", album |-> a, copy |-> album[a]]
        OBVIOUS
      <3>2. j.copy = album[a] /\ j.op = "image" /\ j.album = a /\ Begin(r, j)
        BY <1>2, <2>1, <3>1 DEF UploadImage
      <3>3. j \notin RelistJob /\ \A f \in Requests : f \in j.copy => Lists(f, j.album)
        BY <1>b, <3>2, FileJobKinds
      <3>4. QED BY <1>d, <2>0, <3>2, <3>3 DEF Keeps
    <2>2. CASE ~RoomFor(album[a], limit)
      BY <1>2, <1>c, <1>d, <2>0, <2>2 DEF UploadImage, Keeps
    <2>3. QED BY <2>1, <2>2
  (* What is listed without having been looked up is let go of. *)
  <1>e. ASSUME NEW r \in Requests, NEW a \in Albums, NEW names,
               ListImages(r, a, names) \/ \E limit \in 0..MaxImages : ListAndUpload(r, a, names, limit)
        PROVE  FilesNamed'
    <2>1. PICK j : /\ j.copy = names \/ j.images = names
                   /\ j.op = "image" => j.copy = names
                   /\ j.op = "relist" => j.images = names
                   /\ Begin(r, j)
      <3>1. CASE ListImages(r, a, names)
        <4>1. PICK j : j = [op |-> "relist", at |-> "save", album |-> a, images |-> names]
          OBVIOUS
        <4>2. j.op = "relist" /\ j.images = names /\ Begin(r, j)
          BY <3>1, <4>1 DEF ListImages
        <4>3. QED BY <4>2
      <3>2. CASE \E limit \in 0..MaxImages : ListAndUpload(r, a, names, limit)
        <4>1. PICK j : j = [op |-> "image", at |-> "upload", album |-> a, copy |-> names]
          OBVIOUS
        <4>2. j.op = "image" /\ j.copy = names /\ Begin(r, j)
          BY <3>2, <4>1 DEF ListAndUpload
        <4>3. QED BY <4>2
      <3>3. QED BY <1>e, <3>1, <3>2
    <2>2. UNCHANGED <<picture, album>> /\ names \subseteq loose'
      BY <1>e DEF ListImages, ListAndUpload
    <2>3. /\ j \in ImageJob => j.copy = names
          /\ j \in RelistJob => j.images = names
      BY <2>1, FileJobKinds
    <2>4. Keeps(j)
      BY <2>2, <2>3 DEF Keeps
    <2>5. QED BY <1>d, <2>1, <2>2, <2>4
  <1>3. ASSUME NEW r \in Requests, NEW a \in Albums, NEW f, DeleteImage(r, a, f)
        PROVE  FilesNamed'
    <2>1. PICK j : j = [op |-> "relist", at |-> "save", album |-> a,
                        images |-> Without(album[a], f)]
      OBVIOUS
    <2>2. /\ j.op = "relist" /\ j.images = album[a] \ {f} /\ j.album = a /\ Begin(r, j)
          /\ UNCHANGED <<picture, album>>
      BY <1>3, <2>1 DEF DeleteImage, Without
    <2>3. j \notin ImageJob /\ \A g \in Requests : g \in j.images => Lists(g, j.album)
      BY <1>b, <2>2, FileJobKinds
    <2>4. QED BY <1>d, <2>2, <2>3 DEF Keeps
  <1>4. ASSUME NEW r \in Requests, StorePicture(r) \/ StoreImage(r) PROVE FilesNamed'
    <2>1. job[r] \in PictureJob \union ImageJob
      BY <1>4, JobAt DEF StorePicture, StoreImage
    <2>2. PICK j : j = [job[r] EXCEPT !.at = "save"]
      OBVIOUS
    <2>3. /\ job[r] \in PictureJob => j \in PictureJob
          /\ job[r] \in ImageJob =>
                j \in ImageJob /\ j.copy = job[r].copy /\ j.album = job[r].album
      BY <2>2 DEF PictureJob, ImageJob
    <2>4. /\ j \notin RelistJob
          /\ j \in ImageJob => \A f \in Requests : f \in j.copy => Lists(f, j.album)
      BY <2>1, <2>3, FileJobsApart DEF Lists
    <2>5. Continue(r, j) /\ UNCHANGED <<picture, album>>
      BY <1>4, <2>2 DEF StorePicture, StoreImage
    <2>6. QED BY <1>d, <2>4, <2>5 DEF Keeps
  <1>5. ASSUME NEW r \in Requests, SavePicture(r) PROVE FilesNamed'
    <2>1. job[r] \in PictureJob
      BY <1>5, JobAt DEF SavePicture
    <2>2. PICK p \in Pictures : p = job[r].picture
      BY <2>1, FileJobKinds
    <2>3. job[r] # Done /\ job' = [job EXCEPT ![r] = Done] /\ album' = album
          /\ picture' = [picture EXCEPT ![p] = r]
      BY <1>5, <2>1, <2>2, FileJobKinds DEF SavePicture, Finish, Continue
    <2>4. Saves(NoFile, 0) /\ Keeps(Done)
      BY <1>b, <1>c, <2>3 DEF Saves, Keeps
    <2>5. Adds(NoFile, 0)
      BY <2>3, <2>4, ListsThen
    <2>6. \A f \in Requests \ loose', a \in Albums : Lists(f, a)' => Lists(f, a)
      BY <1>a, <2>5 DEF Adds
    <2>7. QED BY <2>3, <2>6, StaysLoose, NamedPictured
  <1>6. ASSUME NEW r \in Requests, SaveImage(r) PROVE FilesNamed'
    <2>1. job[r] \in ImageJob
      BY <1>6, JobAt DEF SaveImage
    <2>2. PICK a \in Albums : a = job[r].album
      BY <2>1, FileJobKinds
    <2>3. job[r] # Done /\ job' = [job EXCEPT ![r] = Done] /\ picture' = picture
          /\ album' = [album EXCEPT ![a] = job[r].copy \union {r}]
      BY <1>6, <2>1, <2>2, FileJobKinds DEF SaveImage, Finish, Continue
    <2>4. \A f \in Requests : f \in job[r].copy => Lists(f, a)
      BY <2>1, <2>2 DEF Lists
    <2>5. Saves(r, a) /\ Keeps(Done)
      BY <1>a, <1>b, <1>c, <2>3, <2>4 DEF Saves, Keeps
    <2>6. Adds(r, a)
      BY <2>3, <2>5, ListsThen
    <2>7. \A f \in Requests \ loose', b \in Albums :
            Lists(f, b)' => Lists(f, b) \/ (f = r /\ b = a)
      BY <2>6 DEF Adds
    <2>8. QED BY <2>3, <2>7, StaysLoose, NamedListed
  <1>7. ASSUME NEW r \in Requests, RelistImages(r) PROVE FilesNamed'
    <2>1. job[r] \in RelistJob
      BY <1>7, JobAt DEF RelistImages
    <2>2. PICK a \in Albums : a = job[r].album
      BY <2>1, FileJobKinds
    <2>3. job[r] # Done /\ job' = [job EXCEPT ![r] = Done] /\ picture' = picture
          /\ album' = [album EXCEPT ![a] = job[r].images]
      BY <1>7, <2>1, <2>2, FileJobKinds DEF RelistImages, Finish, Continue
    <2>4. \A f \in Requests : f \in job[r].images => Lists(f, a)
      BY <2>1, <2>2 DEF Lists
    <2>5. Saves(r, a) /\ Keeps(Done)
      BY <1>a, <1>b, <1>c, <2>3, <2>4 DEF Saves, Keeps
    <2>6. Adds(r, a)
      BY <2>3, <2>5, ListsThen
    <2>7. \A f \in Requests \ loose', b \in Albums :
            Lists(f, b)' => Lists(f, b) \/ (f = r /\ b = a)
      BY <2>6 DEF Adds
    <2>8. QED BY <2>3, <2>7, StaysLoose, NamedListed
  <1>8. QED BY <1>1, <1>2, <1>3, <1>4, <1>5, <1>6, <1>7, <1>e DEF FilesNext

(* A step of the rest of the shop, or one that ends a handler. *)
LEMMA NamedLeft ==
    ASSUME JobsOK, FilesTypes, FilesTypes', FilesNamed, Framed(FileJobs), UNCHANGED fileVars
    PROVE  FilesNamed'
  <1>1. \A r \in Requests : /\ job[r] = Done => job'[r] = Done
                            /\ job'[r] \in FileJobs => job'[r] = job[r]
    BY DEF Framed
  <1>2. picture' = picture /\ album' = album /\ loose' = loose
    BY DEF fileVars
  <1>3. \A f \in Requests, a \in Albums : Lists(f, a)' => Lists(f, a)
    BY <1>1, <1>2 DEF Lists, FileJobs
  <1>4. QED BY <1>1, <1>2, <1>3, NamedKept

LEMMA NamedKeptAlways ==
    ASSUME Types, FilesNamed, [Next]_vars
    PROVE  FilesNamed'
  BY TypesKept, PartSteps, NamedStep, NamedLeft DEF Types

LEMMA NamedInit == ASSUME Init PROVE FilesNamed
  <1>1. \A r \in Requests : job[r] \notin ImageJob \union RelistJob
    BY FileJobKinds DEF Init, RequestsInit
  <1>2. \A f \in Requests, a \in Albums : ~Lists(f, a)
    BY <1>1 DEF Init, FilesInit, Lists
  <1>3. QED BY <1>2 DEF Init, FilesInit, FilesNamed

LEMMA PicturesStep ==
    ASSUME JobsOK, FilesTypes, FilesNamed, PicturesStored, FilesNext
    PROVE  PicturesStored'
  <1>a. \A p \in Pictures : picture[p] \in Requests \union {NoFile}
    BY DEF FilesTypes
  <1>b. \A r \in Requests : job[r] \in PictureJob => job[r] # Done
    BY FileJobKinds
  <1>d. loose \subseteq loose'
    BY StaysLoose
  (* A step that keeps the pictures, and deletes x at most. *)
  <1>c. ASSUME NEW r \in Requests, NEW j, Begin(r, j) \/ Continue(r, j), picture' = picture,
               NEW x, files \ {x} \subseteq files',
               \A q \in Requests : job[q] \in PictureJob => q # x,
               \A p \in Pictures : picture[p] = x /\ x # NoFile =>
                    (j \in PictureJob /\ j.picture = p) \/ x \in loose',
               j \in PictureJob /\ j.at = "save" => r \in files',
               job[r] \in PictureJob => j \in PictureJob /\ j.picture = job[r].picture
        PROVE  PicturesStored'
    <2>1. job' = [job EXCEPT ![r] = j] /\ faults' = faults
      BY <1>c DEF Begin, Continue
    <2>2. \A q \in Requests : job'[q] = IF q = r THEN j ELSE job[q]
      BY <2>1 DEF JobsOK
    <2>3. ASSUME NEW q \in Requests, job'[q] \in PictureJob, job'[q].at = "save" PROVE q \in files'
      BY <1>c, <2>2, <2>3 DEF PicturesStored
    <2>4. ASSUME faults' = 0, NEW p \in Pictures
          PROVE  \/ picture'[p] \in files' \union loose' \union {NoFile}
                 \/ \E q \in Requests : Replaces(q, p)'
      <3>1. CASE picture[p] \in files \union loose \union {NoFile} /\ (picture[p] # x \/ x = NoFile)
        BY <1>c, <1>d, <3>1
      <3>2. CASE picture[p] = x /\ x # NoFile
        <4>1. Replaces(r, p)' \/ picture'[p] \in loose'
          BY <1>c, <2>2, <3>2 DEF Replaces
        <4>2. QED BY <4>1
      <3>3. ASSUME NEW q \in Requests, Replaces(q, p) PROVE Replaces(q, p)'
        BY <1>c, <2>2, <3>3 DEF Replaces
      <3>4. picture[p] \in files \union loose \union {NoFile} \/ \E q \in Requests : Replaces(q, p)
        BY <2>1, <2>4 DEF PicturesStored
      <3>5. QED BY <3>1, <3>2, <3>3, <3>4
    <2>5. QED BY <2>3, <2>4 DEF PicturesStored
  <1>1. ASSUME NEW r \in Requests, NEW p \in Pictures, UploadPicture(r, p) PROVE PicturesStored'
    <2>1. PICK j : j = [op |-> "picture", at |-> "upload", picture |-> p]
      OBVIOUS
    <2>2. j \in PictureJob /\ j.at = "upload" /\ j.picture = p /\ Begin(r, j)
      BY <1>1, <2>1 DEF UploadPicture, PictureJob
    <2>3. PICK x : x = picture[p]
      OBVIOUS
    <2>4. picture' = picture /\ files \ {x} \subseteq files' /\ job[r] = Waiting
      BY <1>1, <2>3 DEF UploadPicture, DeleteFile, Begin
    <2>5. \A q \in Requests : job[q] \in PictureJob => q # x
      BY <1>a, <1>b, <2>3, NoFileAssumption DEF FilesNamed
    <2>6. \A q \in Pictures : picture[q] = x /\ x # NoFile => q = p
      BY <2>3 DEF FilesNamed
    <2>7. QED BY <1>c, <2>2, <2>4, <2>5, <2>6, FileJobKinds
  (* One that begins with the images of a product, and deletes nothing. *)
  <1>e. ASSUME NEW r \in Requests, NEW j, Begin(r, j), j.op \in {"image", "relist", "done"},
               UNCHANGED <<picture, files>>
        PROVE  PicturesStored'
    <2>1. j \notin PictureJob /\ job[r] = Waiting
      BY <1>e, FileJobKinds DEF Begin
    <2>2. \A q \in Requests : q # NoFile
      BY NoFileAssumption
    <2>3. QED BY <1>c, <1>e, <2>1, <2>2, FileJobKinds
  <1>2. ASSUME NEW r \in Requests, NEW a \in Albums, NEW limit, UploadImage(r, a, limit)
        PROVE  PicturesStored'
    <2>1. PICK j : j = IF RoomFor(album[a], limit)
                       THEN [op |-> "image", at |-> "upload", album |-> a, copy |-> album[a]]
                       ELSE Done
      OBVIOUS
    <2>2. Begin(r, j) /\ j.op \in {"image", "done"} /\ UNCHANGED <<picture, files>>
      BY <1>2, <2>1 DEF UploadImage, Done, fileVars
    <2>3. QED BY <1>e, <2>2
  <1>f. ASSUME NEW r \in Requests, NEW a \in Albums, NEW names,
               ListImages(r, a, names) \/ \E limit \in 0..MaxImages : ListAndUpload(r, a, names, limit)
        PROVE  PicturesStored'
    <2>1. CASE ListImages(r, a, names)
      <3>1. PICK j : j = [op |-> "relist", at |-> "save", album |-> a, images |-> names]
        OBVIOUS
      <3>2. j.op = "relist" /\ Begin(r, j) /\ UNCHANGED <<picture, files>>
        BY <2>1, <3>1 DEF ListImages
      <3>3. QED BY <1>e, <3>2
    <2>2. CASE \E limit \in 0..MaxImages : ListAndUpload(r, a, names, limit)
      <3>1. PICK j : j = [op |-> "image", at |-> "upload", album |-> a, copy |-> names]
        OBVIOUS
      <3>2. j.op = "image" /\ Begin(r, j) /\ UNCHANGED <<picture, files>>
        BY <2>2, <3>1 DEF ListAndUpload
      <3>3. QED BY <1>e, <3>2
    <2>3. QED BY <1>f, <2>1, <2>2
  <1>3. ASSUME NEW r \in Requests, NEW a \in Albums, NEW f \in Known, DeleteImage(r, a, f)
        PROVE  PicturesStored'
    <2>1. PICK j : j = [op |-> "relist", at |-> "save", album |-> a,
                        images |-> Without(album[a], f)]
      OBVIOUS
    <2>2. /\ j.op = "relist" /\ Begin(r, j) /\ job[r] = Waiting /\ picture' = picture
          /\ files \ {f} \subseteq files'
          /\ f \in album[a] \/ f \in loose'
      BY <1>3, <2>1 DEF DeleteImage, DeleteFile, Begin
    <2>3. j \notin PictureJob /\ job[r] \notin PictureJob
      BY <2>2, FileJobKinds
    <2>4. f \in Requests /\ job[f] = Done
      BY DEF Known
    <2>5. f \in loose' \/ \A p \in Pictures : picture[p] # f
      BY <1>d, <2>2, <2>4 DEF FilesNamed, Lists
    <2>6. QED BY <1>b, <1>c, <2>2, <2>3, <2>4, <2>5
  <1>4. ASSUME NEW r \in Requests, StorePicture(r) \/ StoreImage(r) PROVE PicturesStored'
    <2>1. job[r] \in PictureJob \union ImageJob
      BY <1>4, JobAt DEF StorePicture, StoreImage
    <2>2. PICK j : j = [job[r] EXCEPT !.at = "save"]
      OBVIOUS
    <2>3. /\ job[r] \in PictureJob => j \in PictureJob /\ j.picture = job[r].picture
          /\ job[r] \in ImageJob => j \in ImageJob
      BY <2>2 DEF PictureJob, ImageJob
    <2>4. Continue(r, j) /\ picture' = picture /\ files' = files \union {r}
      BY <1>4, <2>2 DEF StorePicture, StoreImage
    <2>5. \A q \in Requests : q # NoFile
      BY NoFileAssumption
    <2>6. QED BY <1>c, <2>1, <2>3, <2>4, <2>5, FileJobsApart
  <1>5. ASSUME NEW r \in Requests, SavePicture(r) PROVE PicturesStored'
    <2>1. job[r] \in PictureJob /\ job[r].at = "save"
      BY <1>5, JobAt DEF SavePicture
    <2>2. PICK p \in Pictures : p = job[r].picture
      BY <2>1, FileJobKinds
    <2>3. /\ job' = [job EXCEPT ![r] = Done] /\ faults' = faults
          /\ UNCHANGED <<files, loose>>
          /\ picture' = [picture EXCEPT ![p] = r]
      BY <1>5, <2>2 DEF SavePicture, Finish, Continue
    <2>4. picture'[p] = r /\ \A q \in Pictures \ {p} : picture'[q] = picture[q]
      BY <2>3 DEF FilesTypes
    <2>5. job'[r] = Done /\ \A q \in Requests \ {r} : job'[q] = job[q]
      BY <2>3 DEF JobsOK
    <2>6. \A q \in Requests : job'[q] \in PictureJob /\ job'[q].at = "save" => q \in files'
      BY <2>3, <2>5, FileJobKinds DEF PicturesStored
    <2>7. ASSUME faults' = 0, NEW q \in Pictures
          PROVE  \/ picture'[q] \in files' \union loose' \union {NoFile}
                 \/ \E z \in Requests : Replaces(z, q)'
      <3>1. CASE q = p
        BY <2>1, <2>3, <2>4, <3>1 DEF PicturesStored
      <3>2. CASE q # p
        <4>1. ASSUME NEW z \in Requests, Replaces(z, q) PROVE Replaces(z, q)'
          BY <2>2, <2>5, <3>2, <4>1 DEF Replaces
        <4>2. picture[q] \in files \union loose \union {NoFile} \/ \E z \in Requests : Replaces(z, q)
          BY <2>3, <2>7 DEF PicturesStored
        <4>3. QED BY <2>3, <2>4, <3>2, <4>1, <4>2
      <3>3. QED BY <3>1, <3>2
    <2>8. QED BY <2>6, <2>7 DEF PicturesStored
  <1>6. ASSUME NEW r \in Requests, SaveImage(r) \/ RelistImages(r) PROVE PicturesStored'
    <2>1. job[r] \in ImageJob \union RelistJob
      BY <1>6, JobAt DEF SaveImage, RelistImages
    <2>2. Continue(r, Done) /\ UNCHANGED <<picture, files>>
      BY <1>6 DEF SaveImage, RelistImages, Finish
    <2>3. \A q \in Requests : q # NoFile
      BY NoFileAssumption
    <2>4. QED BY <1>c, <2>1, <2>2, <2>3, FileJobsApart, FileJobKinds
  <1>7. QED BY <1>1, <1>2, <1>3, <1>4, <1>5, <1>6, <1>f DEF FilesNext

LEMMA PicturesLeft ==
    ASSUME JobsOK, PicturesStored, Framed(FileJobs), UNCHANGED fileVars
    PROVE  PicturesStored'
  <1>1. UNCHANGED <<picture, files, loose>>
    BY DEF fileVars
  <1>2. \A r \in Requests : job'[r] \in PictureJob => job'[r] = job[r]
    BY DEF Framed, FileJobs
  <1>3. ASSUME faults' = 0 PROVE faults = 0 /\ \A r \in Requests : job[r] \in PictureJob => job'[r] = job[r]
    BY <1>3 DEF Framed, FileJobs, JobsOK
  <1>4. \A r \in Requests : job'[r] \in PictureJob /\ job'[r].at = "save" => r \in files'
    BY <1>1, <1>2 DEF PicturesStored
  <1>5. ASSUME faults' = 0, NEW p \in Pictures
        PROVE  \/ picture'[p] \in files' \union loose' \union {NoFile}
               \/ \E r \in Requests : Replaces(r, p)'
    <2>1. \A r \in Requests : Replaces(r, p) => Replaces(r, p)'
      BY <1>3, <1>5 DEF Replaces
    <2>2. QED BY <1>1, <1>3, <1>5, <2>1 DEF PicturesStored
  <1>6. QED BY <1>4, <1>5 DEF PicturesStored

LEMMA PicturesKept ==
    ASSUME Types, FilesNamed, PicturesStored, [Next]_vars
    PROVE  PicturesStored'
  BY PartSteps, PicturesStep, PicturesLeft DEF Types

LEMMA PicturesInit == ASSUME Init PROVE PicturesStored
  <1>1. \A r \in Requests : job[r] \notin PictureJob
    BY FileJobKinds DEF Init, RequestsInit
  <1>2. QED BY <1>1 DEF Init, FilesInit, PicturesStored

-----------------------------------------------------------------------------
(* One at a time, and while no handler has ended early, the store holds    *)
(* what is shown, but for what the handler that runs has deleted or        *)
(* uploaded already, and for the files a request has let go of.            *)

Shown(f) == (\E a \in Albums : f \in album[a]) \/ \E p \in Pictures : picture[p] = f

(* All that is shown but minus, and plus. *)
Stored(minus, plus) ==
    \A f \in Requests \ loose : f \in files <=> f = plus \/ (Shown(f) /\ f # minus)

(* Of the same files, but for those that were let go of and for minus. *)
Lacks(names, minus, images) ==
    \A f \in Requests \ loose : f \in names <=> f \in images /\ f # minus

StoreFits(r, j) ==
    /\ j \notin FileJobs => Stored(NoFile, NoFile)
    /\ j \in PictureJob => Stored(picture[j.picture], IF j.at = "save" THEN r ELSE NoFile)
    /\ j \in ImageJob => /\ Lacks(j.copy, NoFile, album[j.album])
                         /\ Stored(NoFile, IF j.at = "save" THEN r ELSE NoFile)
    /\ j \in RelistJob => \E g \in album[j.album] \union loose \union {NoFile} :
                            Lacks(j.images, g, album[j.album]) /\ Stored(g, NoFile)

NoFileJob == \A r \in Requests : job[r] \notin FileJobs

StoreRight ==
    inSeries /\ faults = 0 =>
        /\ NoFileJob => Stored(NoFile, NoFile)
        /\ \A r \in Requests : job[r] \in FileJobs => StoreFits(r, job[r])

LEMMA StoreStep ==
    ASSUME JobsOK, FilesTypes, FilesNamed, Alone, inSeries, faults = 0, StoreRight, FilesNext
    PROVE  StoreRight'
  <1>a. /\ album \in [Albums -> SUBSET Requests] /\ \A f \in Requests : f # NoFile
        /\ picture \in [Pictures -> Requests \union {NoFile}]
    BY NoFileAssumption DEF FilesTypes
  <1>b. \A f \in Requests, a \in Albums : f \in album[a] => Lists(f, a)
    BY DEF Lists
  (* r goes on with j. *)
  <1>c. ASSUME NEW r \in Requests, NEW j, Turn(r, j), StoreFits(r, j)'
        PROVE  StoreRight'
    <2>1. \A q \in Requests \ {r} : job'[q] \notin FileJobs
      BY <1>c, FileJobKinds DEF Turn, FileJobs
    <2>2. job'[r] = j
      BY <1>c DEF Turn
    <2>3. NoFileJob' => Stored(NoFile, NoFile)'
      BY <1>c, <2>2 DEF NoFileJob, StoreFits
    <2>4. ASSUME NEW q \in Requests, job'[q] \in FileJobs PROVE StoreFits(q, job[q])'
      BY <1>c, <2>1, <2>2, <2>4
    <2>5. QED BY <2>3, <2>4 DEF StoreRight
  (* Before r begins, nothing runs. *)
  <1>d. ASSUME NEW r \in Requests, NEW j, Begin(r, j)
        PROVE  Turn(r, j) /\ Stored(NoFile, NoFile)
    <2>1. Turn(r, j)
      BY <1>d, Turns
    <2>2. \A q \in Requests : job[q] \in {Waiting, Done}
      BY <1>d, <2>1 DEF Turn, Begin
    <2>3. NoFileJob
      BY <2>2, FileJobKinds DEF NoFileJob, FileJobs
    <2>4. QED BY <2>1, <2>3 DEF StoreRight
  <1>e. ASSUME Stored(NoFile, NoFile)' PROVE \A r \in Requests : StoreFits(r, Done)'
    BY <1>e, FileJobKinds DEF StoreFits
  <1>f. PictureJob \union ImageJob \union RelistJob = FileJobs
    BY DEF FileJobs
  <1>g. ASSUME UNCHANGED <<picture, album>> PROVE \A f \in Requests : Shown(f)' <=> Shown(f)
    BY <1>g DEF Shown
  <1>h. loose \subseteq loose'
    BY StaysLoose
  <1>1. ASSUME NEW r \in Requests, NEW p \in Pictures, UploadPicture(r, p) PROVE StoreRight'
    <2>1. PICK j : j = [op |-> "picture", at |-> "upload", picture |-> p]
      OBVIOUS
    <2>2. j \in PictureJob /\ j.at = "upload" /\ j.picture = p /\ Begin(r, j)
      BY <1>1, <2>1 DEF UploadPicture, PictureJob
    <2>3. PICK x : x = picture[p]
      OBVIOUS
    <2>4. UNCHANGED <<picture, album>>
      BY <1>1 DEF UploadPicture
    <2>5. Turn(r, j) /\ Stored(NoFile, NoFile)
      BY <1>d, <2>2
    <2>6. \/ x = NoFile /\ UNCHANGED <<files, loose>>
          \/ files' = files \ {x} /\ UNCHANGED loose
          \/ UNCHANGED files /\ loose' = loose \union {x}
      BY <1>1, <2>3 DEF UploadPicture, DeleteFile
    <2>7. \A f \in Requests \ loose' : f \in files' <=> f = NoFile \/ (Shown(f)' /\ f # x)
      BY <1>a, <1>g, <1>h, <2>4, <2>5, <2>6 DEF Stored
    <2>8. Stored(x, NoFile)' /\ picture'[p] = x
      BY <2>3, <2>4, <2>7 DEF Stored
    <2>9. Stored(picture[p], NoFile)'
      BY <2>8 DEF Stored
    <2>10. StoreFits(r, j)'
      BY <1>f, <2>2, <2>9, FileJobsApart DEF StoreFits
    <2>11. QED BY <1>c, <2>5, <2>10
  <1>2. ASSUME NEW r \in Requests, NEW a \in Albums, NEW limit, UploadImage(r, a, limit)
        PROVE  StoreRight'
    <2>0. UNCHANGED <<picture, album, files, loose>>
      BY <1>2 DEF UploadImage, fileVars
    <2>1. Stored(NoFile, NoFile)' <=> Stored(NoFile, NoFile)
      BY <1>g, <2>0 DEF Stored
    <2>2. CASE RoomFor(album[a], limit)
      <3>1. PICK j : j = [op |-> "image", at |-> "upload", album |-> a, copy |-> album[a]]
        OBVIOUS
      <3>2. j.copy = album[a] /\ j \in ImageJob /\ j.album = a /\ j.at = "upload" /\ Begin(r, j)
        BY <1>2, <1>a, <2>2, <3>1 DEF UploadImage, ImageJob
      <3>3. Turn(r, j) /\ Stored(NoFile, NoFile)'
        BY <1>d, <2>1, <3>2
      <3>4. Lacks(j.copy, NoFile, album[j.album])'
        BY <1>a, <2>0, <3>2 DEF Lacks
      <3>5. StoreFits(r, j)'
        BY <1>f, <3>2, <3>3, <3>4, FileJobsApart DEF StoreFits
      <3>6. QED BY <1>c, <3>3, <3>5
    <2>3. CASE ~RoomFor(album[a], limit)
      <3>1. Begin(r, Done)
        BY <1>2, <2>3 DEF UploadImage
      <3>2. QED BY <1>c, <1>d, <1>e, <2>1, <3>1
    <2>4. QED BY <2>2, <2>3
  (* Nothing that was let go of is looked at. *)
  <1>i. ASSUME NEW r \in Requests, NEW a \in Albums, NEW j, j.album = a,
               \/ j \in RelistJob /\ j.images \subseteq loose'
               \/ j \in ImageJob /\ j.at = "upload" /\ j.copy \subseteq loose',
               Begin(r, j), album[a] \subseteq loose', UNCHANGED <<picture, album, files>>
        PROVE  StoreRight'
    <2>1. Turn(r, j) /\ Stored(NoFile, NoFile)
      BY <1>d, <1>i
    <2>2. Stored(NoFile, NoFile)'
      BY <1>g, <1>h, <1>i, <2>1 DEF Stored
    <2>3. j \in RelistJob => Lacks(j.images, NoFile, album[j.album])'
      BY <1>i, FileJobsApart DEF Lacks
    <2>4. j \in ImageJob => Lacks(j.copy, NoFile, album[j.album])'
      BY <1>i, FileJobsApart DEF Lacks
    <2>5. StoreFits(r, j)'
      BY <1>f, <1>i, <2>2, <2>3, <2>4, FileJobsApart DEF StoreFits
    <2>6. QED BY <1>c, <2>1, <2>5
  <1>j. ASSUME NEW r \in Requests, NEW a \in Albums, NEW names \in SUBSET Known,
               ListImages(r, a, names) \/ \E limit \in 0..MaxImages : ListAndUpload(r, a, names, limit)
        PROVE  StoreRight'
    <2>0. /\ UNCHANGED <<picture, album, files>> /\ album[a] \subseteq loose'
          /\ names \subseteq loose' /\ names \subseteq Requests
      BY <1>j DEF ListImages, ListAndUpload, Known
    <2>1. CASE ListImages(r, a, names)
      <3>1. PICK j : j = [op |-> "relist", at |-> "save", album |-> a, images |-> names]
        OBVIOUS
      <3>2. j \in RelistJob /\ j.album = a /\ j.images = names /\ Begin(r, j)
        BY <2>0, <2>1, <3>1 DEF ListImages, RelistJob
      <3>3. QED BY <1>i, <2>0, <3>2
    <2>2. CASE \E limit \in 0..MaxImages : ListAndUpload(r, a, names, limit)
      <3>1. PICK j : j = [op |-> "image", at |-> "upload", album |-> a, copy |-> names]
        OBVIOUS
      <3>2. j \in ImageJob /\ j.at = "upload" /\ j.album = a /\ j.copy = names /\ Begin(r, j)
        BY <2>0, <2>2, <3>1 DEF ListAndUpload, ImageJob
      <3>3. QED BY <1>i, <2>0, <3>2
    <2>3. QED BY <1>j, <2>1, <2>2
  <1>3. ASSUME NEW r \in Requests, NEW a \in Albums, NEW g \in Known, DeleteImage(r, a, g)
        PROVE  StoreRight'
    <2>1. PICK j : j = [op |-> "relist", at |-> "save", album |-> a,
                        images |-> Without(album[a], g)]
      OBVIOUS
    <2>2. /\ j \in RelistJob /\ j.album = a /\ j.images = album[a] \ {g} /\ Begin(r, j)
          /\ UNCHANGED <<picture, album>>
      BY <1>3, <1>a, <2>1 DEF DeleteImage, Without, RelistJob
    <2>3. /\ g \in album[a] \/ g \in loose'
          /\ files' = files \ {g} \/ (UNCHANGED files /\ g \in loose')
      BY <1>3 DEF DeleteImage, DeleteFile
    <2>4. Turn(r, j) /\ Stored(NoFile, NoFile)
      BY <1>d, <2>2
    <2>5. \A f \in Requests \ loose' : f \in files' <=> f = NoFile \/ (Shown(f)' /\ f # g)
      BY <1>a, <1>g, <1>h, <2>2, <2>3, <2>4 DEF Stored
    <2>6. Stored(g, NoFile)'
      BY <2>5 DEF Stored
    <2>7. (g \in album[a] \union loose)' /\ Lacks(j.images, g, album[a])'
      BY <2>2, <2>3 DEF Lacks
    <2>8. StoreFits(r, j)'
      BY <1>f, <2>2, <2>6, <2>7, FileJobsApart DEF StoreFits
    <2>9. QED BY <1>c, <2>4, <2>8
  <1>4. ASSUME NEW r \in Requests, StorePicture(r) \/ StoreImage(r) PROVE StoreRight'
    <2>1. /\ job[r] \in PictureJob \union ImageJob /\ job[r].at = "upload"
          /\ r \in Running
      BY <1>4, JobAt DEF StorePicture, StoreImage
    <2>2. PICK j : j = [job[r] EXCEPT !.at = "save"]
      OBVIOUS
    <2>3. /\ job[r] \in PictureJob => j \in PictureJob /\ j.picture = job[r].picture
          /\ job[r] \in ImageJob => j \in ImageJob /\ j.album = job[r].album
                                    /\ j.copy = job[r].copy
          /\ j.at = "save"
      BY <2>1, <2>2 DEF PictureJob, ImageJob
    <2>4. Continue(r, j) /\ UNCHANGED <<picture, album, loose>> /\ files' = files \union {r}
      BY <1>4, <2>2 DEF StorePicture, StoreImage
    <2>5. StoreFits(r, job[r])
      BY <1>f, <2>1 DEF StoreRight
    <2>6. ASSUME NEW x, Stored(x, NoFile) PROVE Stored(x, r)'
      <3>1. \A f \in Requests \ loose : f \in files' <=> f = r \/ (Shown(f)' /\ f # x)
        BY <1>a, <1>g, <2>4, <2>6 DEF Stored
      <3>2. QED BY <2>4, <3>1 DEF Stored
    <2>7. CASE job[r] \in PictureJob
      <3>1. PICK x : x = picture[job[r].picture]
        OBVIOUS
      <3>2. Stored(x, NoFile)
        BY <2>1, <2>5, <2>7, <3>1 DEF StoreFits
      <3>3. Stored(x, r)' /\ picture'[j.picture] = x
        BY <2>3, <2>4, <2>6, <2>7, <3>1, <3>2
      <3>4. Stored(picture[j.picture], r)'
        BY <3>3 DEF Stored
      <3>5. StoreFits(r, j)'
        BY <1>f, <2>3, <2>7, <3>4, FileJobsApart DEF StoreFits
      <3>6. QED BY <1>c, <2>1, <2>4, <3>5, Turns
    <2>8. CASE job[r] \in ImageJob
      <3>1. Lacks(job[r].copy, NoFile, album[job[r].album]) /\ Stored(NoFile, NoFile)
        BY <2>1, <2>5, <2>8 DEF StoreFits
      <3>2. Stored(NoFile, r)' /\ Lacks(j.copy, NoFile, album[j.album])'
        BY <2>3, <2>4, <2>6, <2>8, <3>1 DEF Lacks
      <3>3. StoreFits(r, j)'
        BY <1>f, <2>3, <2>8, <3>2, FileJobsApart DEF StoreFits
      <3>4. QED BY <1>c, <2>1, <2>4, <3>3, Turns
    <2>9. QED BY <2>1, <2>7, <2>8
  <1>5. ASSUME NEW r \in Requests, SavePicture(r) PROVE StoreRight'
    <2>1. job[r] \in PictureJob /\ job[r].at = "save" /\ r \in Running
      BY <1>5, JobAt DEF SavePicture
    <2>2. PICK p \in Pictures : p = job[r].picture
      BY <2>1, FileJobKinds
    <2>3. /\ Continue(r, Done) /\ files' = files /\ album' = album /\ loose' = loose
          /\ picture' = [picture EXCEPT ![p] = r]
      BY <1>5, <2>2 DEF SavePicture, Finish
    <2>4. PICK x : x = picture[p]
      OBVIOUS
    <2>5. Stored(x, r)
      <3>1. StoreFits(r, job[r])
        BY <1>f, <2>1 DEF StoreRight
      <3>2. QED BY <2>1, <2>2, <2>4, <3>1 DEF StoreFits
    <2>6. picture'[p] = r /\ \A q \in Pictures \ {p} : picture'[q] = picture[q]
      BY <1>a, <2>3
    <2>7. ASSUME NEW f \in Requests \ loose PROVE f \in files' <=> Shown(f)'
      <3>1. Shown(f)' <=> f = r \/ (\E a \in Albums : f \in album[a])
                            \/ \E q \in Pictures \ {p} : picture[q] = f
        BY <2>3, <2>6 DEF Shown
      <3>2. Shown(f) <=> f = x \/ (\E a \in Albums : f \in album[a])
                            \/ \E q \in Pictures \ {p} : picture[q] = f
        BY <2>4 DEF Shown
      <3>3. (\E a \in Albums : f \in album[a]) => f # x
        BY <1>b, <2>4 DEF FilesNamed
      <3>4. (\E q \in Pictures \ {p} : picture[q] = f) => f # x
        BY <1>a, <2>4 DEF FilesNamed
      <3>5. QED BY <2>3, <2>5, <3>1, <3>2, <3>3, <3>4 DEF Stored
    <2>8. Stored(NoFile, NoFile)'
      BY <1>a, <2>3, <2>7 DEF Stored
    <2>9. QED BY <1>c, <1>e, <2>1, <2>3, <2>8, Turns
  <1>6. ASSUME NEW r \in Requests, SaveImage(r) PROVE StoreRight'
    <2>1. job[r] \in ImageJob /\ job[r].at = "save" /\ r \in Running
      BY <1>6, JobAt DEF SaveImage
    <2>2. PICK a \in Albums : a = job[r].album
      BY <2>1, FileJobKinds
    <2>3. Lacks(job[r].copy, NoFile, album[a]) /\ Stored(NoFile, r)
      <3>1. StoreFits(r, job[r])
        BY <1>f, <2>1 DEF StoreRight
      <3>2. QED BY <2>1, <2>2, <3>1 DEF StoreFits
    <2>4. /\ Continue(r, Done) /\ files' = files /\ picture' = picture /\ loose' = loose
          /\ album' = [album EXCEPT ![a] = job[r].copy \union {r}]
      BY <1>6, <2>2 DEF SaveImage, Finish
    <2>5. ASSUME NEW f \in Requests \ loose PROVE f \in files' <=> Shown(f)'
      <3>1. \A b \in Albums : f \in album'[b] <=> f \in album[b] \/ (f = r /\ b = a)
        BY <1>a, <2>3, <2>4 DEF Lacks
      <3>2. Shown(f)' <=> f = r \/ Shown(f)
        BY <2>4, <3>1 DEF Shown
      <3>3. QED BY <1>a, <2>3, <2>4, <3>2 DEF Stored
    <2>6. Stored(NoFile, NoFile)'
      BY <1>a, <2>4, <2>5 DEF Stored
    <2>7. QED BY <1>c, <1>e, <2>1, <2>4, <2>6, Turns
  <1>7. ASSUME NEW r \in Requests, RelistImages(r) PROVE StoreRight'
    <2>1. job[r] \in RelistJob /\ r \in Running
      BY <1>7, JobAt DEF RelistImages
    <2>2. PICK a \in Albums : a = job[r].album
      BY <2>1, FileJobKinds
    <2>3. PICK g \in album[a] \union loose \union {NoFile} :
            Lacks(job[r].images, g, album[a]) /\ Stored(g, NoFile)
      <3>1. StoreFits(r, job[r])
        BY <1>f, <2>1 DEF StoreRight
      <3>2. QED BY <2>1, <2>2, <3>1 DEF StoreFits
    <2>4. /\ Continue(r, Done) /\ files' = files /\ picture' = picture /\ loose' = loose
          /\ album' = [album EXCEPT ![a] = job[r].images]
      BY <1>7, <2>2 DEF RelistImages, Finish
    <2>5. ASSUME NEW f \in Requests \ loose PROVE f \in files' <=> Shown(f)'
      <3>1. f = g => /\ \A p \in Pictures : picture[p] # f
                     /\ \A b \in Albums : f \in album[b] => b = a
        BY <1>a, <1>b DEF FilesNamed
      <3>2. \A b \in Albums : f \in album'[b] <=> f \in album[b] /\ f # g
        BY <1>a, <2>3, <2>4, <3>1 DEF Lacks
      <3>3. Shown(f)' <=> Shown(f) /\ f # g
        BY <2>4, <3>1, <3>2 DEF Shown
      <3>4. QED BY <1>a, <2>3, <2>4, <3>3 DEF Stored
    <2>6. Stored(NoFile, NoFile)'
      BY <1>a, <2>4, <2>5 DEF Stored
    <2>7. QED BY <1>c, <1>e, <2>1, <2>4, <2>6, Turns
  <1>8. QED BY <1>1, <1>2, <1>3, <1>4, <1>5, <1>6, <1>7, <1>j DEF FilesNext

LEMMA StoreLeft ==
    ASSUME JobsOK, StoreRight, Framed(FileJobs), UNCHANGED fileVars
    PROVE  StoreRight'
  <1> SUFFICES ASSUME inSeries', faults' = 0
               PROVE  /\ NoFileJob' => Stored(NoFile, NoFile)'
                      /\ \A r \in Requests : job'[r] \in FileJobs => StoreFits(r, job[r])'
    BY DEF StoreRight
  <1>1. inSeries /\ faults = 0 /\ faults' = faults
    BY DEF Framed, JobsOK
  <1>2. \A r \in Requests : (job[r] \in FileJobs \/ job'[r] \in FileJobs) => job'[r] = job[r]
    BY <1>1 DEF Framed
  <1>3. picture' = picture /\ album' = album /\ files' = files /\ loose' = loose
    BY DEF fileVars
  <1>4. NoFileJob' => NoFileJob
    BY <1>2 DEF NoFileJob
  <1>5. \A x, y : Stored(x, y) => Stored(x, y)'
    BY <1>3 DEF Stored, Shown
  <1>6. ASSUME NEW r \in Requests, job'[r] \in FileJobs PROVE StoreFits(r, job[r])'
    <2>1. PICK j : j = job[r]
      OBVIOUS
    <2>2. StoreFits(r, j)
      BY <1>1, <1>2, <1>6, <2>1 DEF StoreRight
    <2>3. StoreFits(r, j)'
      BY <1>3, <2>2 DEF StoreFits, Lacks, Stored, Shown
    <2>4. job'[r] = j
      BY <1>2, <1>6, <2>1
    <2>5. QED BY <2>3, <2>4
  <1>7. QED BY <1>1, <1>4, <1>5, <1>6 DEF StoreRight

LEMMA StoreKept ==
    ASSUME Types, FilesNamed, Alone, StoreRight, [Next]_vars
    PROVE  StoreRight'
  <1>1. CASE FilesNext
    <2>1. inSeries' = inSeries /\ faults' = faults
      BY <1>1 DEF FilesNext, UploadPicture, UploadImage, ListImages, ListAndUpload,
            DeleteImage, StorePicture, SavePicture, StoreImage, SaveImage, RelistImages, Begin,
            Continue, Finish
    <2>2. QED BY <1>1, <2>1, StoreStep DEF StoreRight, Types
  <1>2. CASE Framed(FileJobs) /\ UNCHANGED fileVars
    BY <1>2, StoreLeft DEF Types
  <1>3. QED BY <1>1, <1>2, PartSteps

LEMMA StoreInit == ASSUME Init PROVE StoreRight
  <1>1. NoFileJob
    BY FileJobKinds DEF Init, RequestsInit, NoFileJob, FileJobs
  <1>2. Stored(NoFile, NoFile)
    BY NoFileAssumption DEF Init, FilesInit, Stored, Shown
  <1>3. QED BY <1>1, <1>2 DEF NoFileJob, StoreRight

(* What a merchant gave is still there.  Of the files that no request has  *)
(* let go of, the logo or banner a shop is left with, however uploads      *)
(* overlap, is in the store unless an upload ended early; and one at a     *)
(* time the store holds what is shown and no more, and the assistant's     *)
(* memory what was said to it.                                             *)
THEOREM NothingIsEverLost == Spec => []NothingIsLost
  <1> DEFINE IInv == /\ Types /\ Alone /\ FilesNamed /\ PicturesStored /\ StoreRight
                     /\ TalksRight
  <1>1. Init => IInv
    BY TypesInit, AloneInit, NamedInit, PicturesInit, StoreInit, TalksInit
  <1>2. IInv /\ [Next]_vars => IInv'
    BY TypesKept, AloneKept, NamedKeptAlways, PicturesKept, StoreKept, TalksKept
  <1>3. IInv => NothingIsLost
    <2> SUFFICES ASSUME IInv PROVE NothingIsLost
      OBVIOUS
    <2>1. Running = {} => NoFileJob /\ \A r \in Requests : job[r] \notin PictureJob
      BY FileJobKinds DEF Running, NoFileJob, FileJobs
    <2>2. PictureIsStored
      BY <2>1 DEF PicturesStored, Replaces, PictureIsStored
    <2>3. ASSUME inSeries, Running = {}, faults = 0
          PROVE  files \ loose = ((UNION {album[a] : a \in Albums})
                            \union ({picture[p] : p \in Pictures} \ {NoFile})) \ loose
      <3>1. Stored(NoFile, NoFile)
        BY <2>1, <2>3 DEF StoreRight
      <3>2. \A f \in Requests \ loose : f \in files <=> Shown(f)
        BY <3>1, NoFileAssumption DEF Stored
      <3>3. /\ files \subseteq Requests /\ \A a \in Albums : album[a] \subseteq Requests
            /\ \A p \in Pictures : picture[p] \in Requests \union {NoFile}
        BY DEF Types, FilesTypes
      <3>4. PICK listed, pictured : /\ listed = UNION {album[a] : a \in Albums}
                                    /\ pictured = {picture[p] : p \in Pictures}
        OBVIOUS
      <3>5. \A f : f \in listed <=> \E a \in Albums : f \in album[a]
        BY <3>4
      <3>6. \A f : f \in pictured <=> \E p \in Pictures : picture[p] = f
        BY <3>4
      <3>7. \A f : f \in listed \union (pictured \ {NoFile}) <=> f \in Requests /\ Shown(f)
        BY <3>3, <3>5, <3>6, NoFileAssumption DEF Shown
      <3>8. files \ loose = (listed \union (pictured \ {NoFile})) \ loose
        BY <3>2, <3>3, <3>7
      <3>9. QED BY <3>4, <3>8
    <2>4. StoreMatchesRows
      BY <2>3 DEF StoreMatchesRows
    <2>5. ConversationKept
      BY DEF TalksRight, Holds, Types, BuilderSound, ConversationKept
    <2>6. QED BY <2>2, <2>4, <2>5 DEF NothingIsLost
  <1>4. QED BY <1>1, <1>2, <1>3, PTL DEF Spec

=============================================================================
