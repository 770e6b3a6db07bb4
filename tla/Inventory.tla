----------------------------- MODULE Inventory -----------------------------
(***************************************************************************)
(* What the storefront's stock promises customers and the operator,        *)
(* without transactions, locks or page forms: a sale takes a unit in one   *)
(* step, from a product that has one at that moment; a cancellation gives  *)
(* back what its order holds; nothing else but the operator's edits        *)
(* changes the stock.  OrderStock implements it.                           *)
(***************************************************************************)
EXTENDS Integers

CONSTANTS Orders, Products, NoProduct, StockLevels

VARIABLES
    stock,    \* [Products -> units left, or -1 when they are not counted]
    sold,     \* [Products -> sales shown]
    shelf,    \* [Products -> "draft", "published" or "deleted"]
    status,   \* [Orders -> status, or "absent"]
    item,     \* [Orders -> product, or NoProduct]
    holders   \* the orders that hold a unit

vars == <<stock, sold, shelf, status, item, holders>>

Init ==
    /\ stock \in [Products -> StockLevels]
    /\ sold \in [Products -> Nat]
    /\ shelf = [p \in Products |-> "published"]
    /\ status \in [Orders -> {"absent", "pending", "completed"}]
    /\ item \in [Orders -> Products \cup {NoProduct}]
    /\ \A o \in Orders : item[o] = NoProduct <=> status[o] = "absent"
    /\ holders \subseteq {o \in Orders : status[o] = "pending"}

Counted(p) == p \in Products /\ stock[p] >= 0

Order(o, p) ==
    /\ status[o] = "absent"
    /\ shelf[p] = "published" /\ stock[p] # 0
    /\ status' = [status EXCEPT ![o] = "pending"]
    /\ item' = [item EXCEPT ![o] = p]
    /\ UNCHANGED <<stock, sold, shelf, holders>>

(* The order of a product is marked, and counted when it becomes a sale or *)
(* is one no more.                                                         *)
SalesBy(o, st, n) ==
    IF status[o] = st \/ "completed" \notin {status[o], st} THEN n
    ELSE IF st = "completed" THEN n + 1
    ELSE IF n > 0 THEN n - 1 ELSE n

Mark(o, st) ==
    /\ status[o] # "absent"
    /\ status' = [status EXCEPT ![o] = st]
    /\ sold' = [p \in Products |-> IF p = item[o] THEN SalesBy(o, st, sold[p]) ELSE sold[p]]
    /\ UNCHANGED <<shelf, item>>

Take(o) ==
    /\ status[o] # "completed" /\ o \notin holders
    /\ Counted(item[o]) /\ stock[item[o]] > 0
    /\ stock' = [stock EXCEPT ![item[o]] = @ - 1]
    /\ holders' = holders \cup {o}
    /\ Mark(o, "completed")

Return(o) ==
    /\ o \in holders
    /\ stock' = IF Counted(item[o]) THEN [stock EXCEPT ![item[o]] = @ + 1] ELSE stock
    /\ holders' = holders \ {o}
    /\ Mark(o, "canceled")

(* No unit moves: the order holds none or keeps it, and needs none. *)
Settle(o, st) ==
    /\ st = "canceled" => o \notin holders
    /\ st = "completed" => status[o] = "completed" \/ o \in holders \/ ~Counted(item[o])
    /\ UNCHANGED <<stock, holders>>
    /\ Mark(o, st)

(* The operator's word on one product. *)
Edit(p) ==
    /\ shelf[p] # "deleted"
    /\ \E n \in StockLevels : stock' = [stock EXCEPT ![p] = n]
    /\ sold'[p] \in Nat /\ sold' = [sold EXCEPT ![p] = sold'[p]]
    /\ \E sh \in {"draft", "published"} : shelf' = [shelf EXCEPT ![p] = sh]
    /\ UNCHANGED <<status, item, holders>>

Withdraw(p) ==
    /\ shelf[p] # "deleted"
    /\ shelf' = [shelf EXCEPT ![p] = "deleted"]
    /\ item' = [o \in Orders |-> IF item[o] = p THEN NoProduct ELSE item[o]]
    /\ UNCHANGED <<stock, sold, status, holders>>

Next ==
    \/ \E o \in Orders :
          \/ \E p \in Products : Order(o, p)
          \/ Take(o) \/ Return(o)
          \/ \E st \in {"pending", "completed", "canceled"} : Settle(o, st)
    \/ \E p \in Products : Edit(p) \/ Withdraw(p)

Spec == Init /\ [][Next]_vars
=============================================================================
