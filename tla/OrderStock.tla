----------------------------- MODULE OrderStock -----------------------------
(***************************************************************************)
(* Stock of the storefront's products while staff complete, cancel and     *)
(* reopen orders, edit products and delete them.                           *)
(*                                                                         *)
(* A pending order takes no stock.  UpdateAffiliateOrderStatus, one SQL    *)
(* statement, locks the order row, then its product row, then writes both: *)
(* it takes a unit when an order without one is completed, and gives the   *)
(* unit back when the order is canceled.  The steps of such a transaction  *)
(* interleave with other transactions here, held apart only by the row     *)
(* locks.  An admin page loads a product into a form and saves all of its  *)
(* fields later.                                                           *)
(***************************************************************************)
EXTENDS Integers, FiniteSets

CONSTANTS
    Orders, Products,
    Staff,        \* admin requests that can be in progress at the same time
    NoProduct,    \* the product of an order whose product was deleted
    NoForm,       \* no product is loaded in the page
    StockLevels,  \* bound: the stock an operator may type, -1 is unlimited
    MaxEdits      \* bound: product edits

ASSUME ProductAssumption == NoProduct \notin Products
ASSUME FormAssumption == NoForm \notin Products \X Int \X Int
ASSUME OrdersAssumption == IsFiniteSet(Orders)
ASSUME StockAssumption == StockLevels \subseteq Nat \cup {-1} /\ MaxEdits \in Nat

Unlimited == -1
Statuses  == {"pending", "completed", "canceled"}
Shelves   == {"draft", "published"}

VARIABLES
    stock,     \* [Products -> units left, or Unlimited]
    sold,      \* [Products -> sold_count]
    shelf,     \* [Products -> status of the product, or "deleted"]
    status,    \* [Orders -> order_status, or "absent"]
    item,      \* [Orders -> product_id]
    reserved,  \* [Orders -> stock_reserved]
    pc,        \* [Staff -> locks its transaction holds: "none", "order", "both", "product"]
    target,    \* [Staff -> the order (or, deleting, the product) of its transaction]
    wanted,    \* [Staff -> the order status it is going to write]
    seen,      \* [Staff -> current_stock read under the product's lock]
    form,      \* product, stock and sold_count loaded in the page's form, or NoForm
    supplied,  \* history: units the last edit of a product accounted for
    stale,     \* history: products whose stock or sold_count an edit reset unawares
    edits      \* product edits so far

product == <<stock, sold, shelf>>
orders  == <<status, item, reserved>>
tx      == <<pc, target, wanted, seen>>
history == <<supplied, stale, edits>>
vars    == <<product, orders, tx, form, history>>

Completed(p) == {o \in Orders : item[o] = p /\ status[o] = "completed"}
Reserved(p)  == {o \in Orders : item[o] = p /\ reserved[o]}

(* Orders of earlier releases: pending ones may hold a unit, completed ones *)
(* may not (stock_reserved was added by migration 0015 with FALSE).         *)
Init ==
    /\ stock \in [Products -> StockLevels]
    /\ shelf = [p \in Products |-> "published"]
    /\ status \in [Orders -> {"absent", "pending", "completed"}]
    /\ item \in [Orders -> Products \cup {NoProduct}]
    /\ reserved \in [Orders -> BOOLEAN]
    /\ \A o \in Orders : (item[o] = NoProduct) = (status[o] = "absent")
                         /\ (reserved[o] => status[o] = "pending")
    /\ sold = [p \in Products |-> Cardinality(Completed(p))]
    /\ pc = [s \in Staff |-> "none"]
    /\ target = [s \in Staff |-> NoProduct]
    /\ wanted = [s \in Staff |-> "pending"]
    /\ seen = [s \in Staff |-> 0]
    /\ form = NoForm
    /\ supplied = [p \in Products |->
                     IF stock[p] = Unlimited THEN Unlimited
                     ELSE stock[p] + Cardinality(Reserved(p))]
    /\ stale = {}
    /\ edits = 0

-----------------------------------------------------------------------------
(* Row locks. *)
OrderFree(o)   == \A s \in Staff : pc[s] \in {"order", "both"} => target[s] # o

(* Mutant: products are read without FOR UPDATE. *)
ProductNeverLocked(p) == TRUE

ProductFree(p) == \A s \in Staff :
    /\ pc[s] = "both" => item[target[s]] # p
    /\ pc[s] = "product" => target[s] # p

(* Commit or rollback: the locks are gone. *)
Release(s) ==
    /\ pc' = [pc EXCEPT ![s] = "none"]
    /\ target' = [target EXCEPT ![s] = NoProduct]
    /\ wanted' = [wanted EXCEPT ![s] = "pending"]
    /\ seen' = [seen EXCEPT ![s] = 0]

-----------------------------------------------------------------------------
(* A customer's order: FOR UPDATE of the product waits for its lock. *)
CreateOrder(o, p) ==
    /\ status[o] = "absent"
    /\ shelf[p] = "published"
    /\ stock[p] # 0
    /\ ProductFree(p)
    /\ status' = [status EXCEPT ![o] = "pending"]
    /\ item' = [item EXCEPT ![o] = p]
    /\ reserved' = [reserved EXCEPT ![o] = FALSE]
    /\ UNCHANGED <<product, tx, form, history>>

(* order_lock *)
LockOrder(s, o, st) ==
    /\ pc[s] = "none"
    /\ status[o] # "absent"
    /\ OrderFree(o)
    /\ pc' = [pc EXCEPT ![s] = "order"]
    /\ target' = [target EXCEPT ![s] = o]
    /\ wanted' = [wanted EXCEPT ![s] = st]
    /\ UNCHANGED <<product, orders, seen, form, history>>

ProductReady(s) == item[target[s]] # NoProduct => ProductFree(item[target[s]])

(* product_lock; an order without a product has current_stock NULL, which *)
(* the conditions treat like an unlimited product.                        *)
LockProduct(s) ==
    LET p == item[target[s]] IN
    /\ pc[s] = "order"
    /\ ProductReady(s)
    /\ pc' = [pc EXCEPT ![s] = "both"]
    /\ seen' = [seen EXCEPT ![s] = IF p = NoProduct THEN Unlimited ELSE stock[p]]
    /\ UNCHANGED <<product, orders, target, wanted, form, history>>

(* The WHERE of updated: a sale needs a unit, unless it has one already. *)
Allowed(s) ==
    LET o == target[s] IN
    \/ wanted[s] # "completed"
    \/ status[o] = "completed"
    \/ reserved[o]
    \/ seen[s] # 0

(* The CASE for stock_reserved. *)
Reserves(s) ==
    LET o == target[s] IN
    IF wanted[s] = "canceled" THEN FALSE
    ELSE IF status[o] # "completed" /\ wanted[s] = "completed" /\ ~reserved[o]
         THEN seen[s] > 0
         ELSE reserved[o]

(* Mutant: a reopened sale stays counted. *)
SoldOnlyGrows(n, from, to) ==
    IF from # "completed" /\ to = "completed" THEN n + 1 ELSE n

(* sold_sync: the change of sold_count and of stock, as the product row is *)
(* now (not as it was seen).                                               *)
SoldAfter(n, from, to) ==
    CASE from # "completed" /\ to = "completed" -> n + 1
      [] from = "completed" /\ to # "completed" /\ n > 0 -> n - 1
      [] OTHER -> n

(* Mutant: a cancelled order gives a unit back whether it had one or not. *)
StockReturnedTwice(n, had, has) ==
    IF n < 0 THEN n ELSE IF ~has THEN n + 1 ELSE IF ~had /\ has THEN n - 1 ELSE n

StockAfter(n, had, has) ==
    IF n < 0 THEN n
    ELSE IF had /\ ~has THEN n + 1
    ELSE IF ~had /\ has THEN n - 1
    ELSE n

UpdateStatus(s) ==
    LET o == target[s]
        p == item[o]
    IN
    /\ pc[s] = "both"
    /\ Allowed(s)
    /\ status' = [status EXCEPT ![o] = wanted[s]]
    /\ reserved' = [reserved EXCEPT ![o] = Reserves(s)]
    /\ sold' = [q \in Products |->
                  IF q = p THEN SoldAfter(sold[q], status[o], wanted[s]) ELSE sold[q]]
    /\ stock' = [q \in Products |->
                   IF q = p THEN StockAfter(stock[q], reserved[o], Reserves(s)) ELSE stock[q]]
    /\ Release(s)
    /\ UNCHANGED <<shelf, item, form, history>>

(* No row is updated: PRODUCT_OUT_OF_STOCK. *)
RejectStatus(s) ==
    /\ pc[s] = "both"
    /\ ~Allowed(s)
    /\ Release(s)
    /\ UNCHANGED <<product, orders, form, history>>

-----------------------------------------------------------------------------
LoadForm(p) ==
    /\ shelf[p] # "deleted"
    /\ form = NoForm
    /\ form' = <<p, stock[p], sold[p]>>
    /\ UNCHANGED <<product, orders, tx, history>>

(* UpdateProduct writes every field of the form; n is the stock field.     *)
(* Its history: the operator vouches for n units besides those sold; when  *)
(* a field was left as loaded, and the row has changed since, the edit was *)
(* not meant to touch it.                                                  *)
SaveForm(n, sh) ==
    LET p == form[1] IN
    /\ form # NoForm
    /\ edits < MaxEdits
    /\ shelf[p] # "deleted"
    /\ ProductFree(p)
    /\ stock' = [stock EXCEPT ![p] = n]
    /\ shelf' = [shelf EXCEPT ![p] = sh]
    /\ form' = NoForm
    /\ supplied' = [supplied EXCEPT ![p] =
                      IF n = Unlimited THEN Unlimited ELSE n + Cardinality(Reserved(p))]
    /\ sold' = [sold EXCEPT ![p] = form[3]]
    /\ stale' = IF form[3] # sold[p] \/ (n = form[2] /\ n # stock[p])
                THEN stale \cup {p} ELSE stale
    /\ edits' = edits + 1
    /\ UNCHANGED <<orders, tx>>

OrdersReady(s) == \A o \in Orders : item[o] = target[s] => OrderFree(o)

(* DELETE locks the product; ON DELETE SET NULL then needs the rows of its *)
(* orders.                                                                 *)
LockForDelete(s, p) ==
    /\ pc[s] = "none"
    /\ shelf[p] # "deleted"
    /\ ProductFree(p)
    /\ pc' = [pc EXCEPT ![s] = "product"]
    /\ target' = [target EXCEPT ![s] = p]
    /\ UNCHANGED <<product, orders, wanted, seen, form, history>>

DeleteProduct(s) ==
    LET p == target[s] IN
    /\ pc[s] = "product"
    /\ OrdersReady(s)
    /\ shelf' = [shelf EXCEPT ![p] = "deleted"]
    /\ item' = [o \in Orders |-> IF item[o] = p THEN NoProduct ELSE item[o]]
    /\ Release(s)
    /\ UNCHANGED <<stock, sold, status, reserved, form, history>>

-----------------------------------------------------------------------------
(* PostgreSQL's deadlock detection: a status change waits for the product  *)
(* that a deletion holds, the deletion for the order it holds.             *)
Deadlocked(s, t) ==
    /\ pc[s] = "order"
    /\ pc[t] = "product"
    /\ item[target[s]] = target[t]

(* Mutant: nobody is chosen. *)
NoVictim(v) == FALSE

Victim(v) == \E s \in Staff : Deadlocked(v, s) \/ Deadlocked(s, v)

BreakDeadlock(v) ==
    /\ Victim(v)
    /\ Release(v)
    /\ UNCHANGED <<product, orders, form, history>>

(* The connection or the process is lost: PostgreSQL rolls back. *)
Crash(s) ==
    /\ pc[s] # "none"
    /\ Release(s)
    /\ UNCHANGED <<product, orders, form, history>>

Next ==
    \/ \E o \in Orders, p \in Products : CreateOrder(o, p)
    \/ \E p \in Products : LoadForm(p)
    \/ \E n \in StockLevels, sh \in Shelves : SaveForm(n, sh)
    \/ \E s \in Staff :
          \/ \E o \in Orders, st \in Statuses : LockOrder(s, o, st)
          \/ LockProduct(s)
          \/ UpdateStatus(s)
          \/ RejectStatus(s)
          \/ \E p \in Products : LockForDelete(s, p)
          \/ DeleteProduct(s)
          \/ BreakDeadlock(s)
          \/ Crash(s)

Spec == Init /\ [][Next]_vars

-----------------------------------------------------------------------------
TypeOK ==
    /\ stock \in [Products -> Int]
    /\ sold \in [Products -> Nat]
    /\ shelf \in [Products -> Shelves \cup {"deleted"}]
    /\ status \in [Orders -> Statuses \cup {"absent"}]
    /\ item \in [Orders -> Products \cup {NoProduct}]
    /\ reserved \in [Orders -> BOOLEAN]
    /\ pc \in [Staff -> {"none", "order", "both", "product"}]
    /\ target \in [Staff -> Orders \cup Products \cup {NoProduct}]
    /\ \A s \in Staff : /\ pc[s] \in {"order", "both"} => target[s] \in Orders
                        /\ pc[s] = "product" => target[s] \in Products
    /\ wanted \in [Staff -> Statuses]
    /\ seen \in [Staff -> Int]
    /\ supplied \in [Products -> Int]
    /\ stale \subseteq Products
    /\ edits \in Nat

(* What is left and what orders hold add up to what the last edit of the   *)
(* product accounted for: no unit is sold twice, given back twice or lost, *)
(* and a product never becomes unlimited by selling it.                    *)
StockConserved ==
    \A p \in Products : shelf[p] # "deleted" =>
        IF supplied[p] = Unlimited
        THEN stock[p] = Unlimited
        ELSE stock[p] >= 0 /\ stock[p] + Cardinality(Reserved(p)) = supplied[p]

(* sold_count follows the orders, whatever sequence of completions,        *)
(* cancellations and reopenings they go through (save for stale edits).    *)
SoldCountsCompleted ==
    \A p \in Products \ stale : shelf[p] # "deleted" => sold[p] = Cardinality(Completed(p))

(* The guards of LockProduct, UpdateStatus and RejectStatus, DeleteProduct, *)
(* and BreakDeadlock.                                                      *)
CanGoOn(s) ==
    \/ pc[s] = "order" /\ ProductReady(s)
    \/ pc[s] = "both"
    \/ pc[s] = "product" /\ OrdersReady(s)
    \/ Victim(s)

WaitsFor(s, t) ==
    \/ pc[s] = "order" /\ pc[t] = "both" /\ item[target[t]] = item[target[s]]
    \/ pc[s] = "order" /\ pc[t] = "product" /\ target[t] = item[target[s]]
    \/ pc[s] = "product" /\ pc[t] \in {"order", "both"} /\ item[target[t]] = target[s]

(* Status changes lock order then product, deletions product then orders:  *)
(* a transaction in progress can go on, or waits for one that can, and is  *)
(* never behind a queue of transactions that wait.                         *)
NoStandstill ==
    \A s \in Staff : pc[s] # "none" => CanGoOn(s) \/ \E t \in Staff : WaitsFor(s, t) /\ CanGoOn(t)

(* Status changes are as if each happened in one step, on the stock of     *)
(* that moment, whatever was read before waiting for a lock: the stock     *)
(* keeps what Inventory promises.                                          *)
Shop == INSTANCE Inventory WITH holders <- {o \in Orders : reserved[o]}

KeepsInventory == Shop!Spec
=============================================================================
