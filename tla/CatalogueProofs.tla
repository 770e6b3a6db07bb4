--------------------------- MODULE CatalogueProofs ---------------------------
(* Proofs about what administrators edit while customers buy and visitors  *)
(* read: OrderStock for any products, orders, staff and edits, and then    *)
(* ArticleReading for any articles, slugs and requests.                    *)
EXTENDS OrderStock, ArticleReading, FiniteSetTheorems, TLAPS

(***************************************************************************)
(* What has to be true for the properties to last                          *)
(***************************************************************************)

HasOrder(s) == pc[s] \in {"order", "both"}

(* The product whose row the transaction of s has locked. *)
LockedProduct(s) == IF pc[s] = "both" THEN item[target[s]] ELSE target[s]
HasProduct(s) == pc[s] \in {"both", "product"} /\ LockedProduct(s) \in Products

(* Row locks exclude each other. *)
OrdersLocked == \A s, t \in Staff : HasOrder(s) /\ HasOrder(t) /\ target[s] = target[t] => s = t
ProductsLocked ==
    \A s, t \in Staff : HasProduct(s) /\ HasProduct(t) /\ LockedProduct(s) = LockedProduct(t) => s = t

(* What a status change read of its order and product is still so.         *)
LockedExists == \A s \in Staff : HasOrder(s) => status[target[s]] # "absent"
SeenIsStock ==
    \A s \in Staff : pc[s] = "both" =>
        seen[s] = IF item[target[s]] = NoProduct THEN Unlimited ELSE stock[item[target[s]]]

(* An order that was not made has no product, and no unit. *)
AbsentIsBlank == \A o \in Orders : status[o] = "absent" => item[o] = NoProduct /\ ~reserved[o]

(* A product that is being deleted is not deleted yet. *)
DeletesShelved == \A s \in Staff : pc[s] = "product" => shelf[target[s]] # "deleted"

FormLoaded == form = NoForm \/ form \in Products \X Int \X Nat

IInv ==
    /\ TypeOK /\ StockConserved /\ SoldCountsCompleted
    /\ OrdersLocked /\ ProductsLocked /\ LockedExists /\ SeenIsStock /\ AbsentIsBlank /\ FormLoaded
    /\ DeletesShelved

(***************************************************************************)
(* Counting orders                                                         *)
(***************************************************************************)

(* Sets of orders are finite, so that they can be counted. *)
LEMMA Countable ==
  ASSUME NEW p
  PROVE  /\ IsFiniteSet(Reserved(p)) /\ Cardinality(Reserved(p)) \in Nat
         /\ IsFiniteSet(Completed(p)) /\ Cardinality(Completed(p)) \in Nat
<1>1. Reserved(p) \subseteq Orders /\ Completed(p) \subseteq Orders
  BY DEF Reserved, Completed
<1> QED
  BY <1>1, OrdersAssumption, FS_Subset, FS_CardinalityType

(* A set with one member more, or less, counts one more, or less. *)
LEMMA OneMore ==
  ASSUME NEW S, IsFiniteSet(S), NEW x, x \notin S
  PROVE  Cardinality(S \cup {x}) = Cardinality(S) + 1
  BY FS_AddElement

(* Taking an element out of a finite set. *)
LEMMA OneLess ==
  ASSUME NEW S, IsFiniteSet(S), NEW x, x \in S
  PROVE  Cardinality(S \ {x}) = Cardinality(S) - 1
  BY FS_RemoveElement

(* The units that orders hold follow the change of one order. *)
LEMMA ReservedCount ==
  ASSUME TypeOK, NEW o \in Orders, NEW b \in BOOLEAN, NEW p \in Products,
         reserved' = [reserved EXCEPT ![o] = b], UNCHANGED item
  PROVE  /\ item[o] = p /\ b /\ ~reserved[o] =>
              Cardinality(Reserved(p)') = Cardinality(Reserved(p)) + 1
         /\ item[o] = p /\ ~b /\ reserved[o] =>
              Cardinality(Reserved(p)') = Cardinality(Reserved(p)) - 1
         /\ item[o] # p \/ (b <=> reserved[o]) => Reserved(p)' = Reserved(p)
<1>1. /\ reserved'[o] = b /\ \A q \in Orders \ {o} : reserved'[q] = reserved[q]
      /\ item' = item
  BY DEF TypeOK
<1>2. CASE item[o] = p /\ b /\ ~reserved[o]
  <2>1. Reserved(p)' = Reserved(p) \cup {o} /\ o \notin Reserved(p)
    BY <1>1, <1>2 DEF Reserved
  <2> QED
    BY <1>2, <2>1, Countable, OneMore
<1>3. CASE item[o] = p /\ ~b /\ reserved[o]
  <2>1. Reserved(p)' = Reserved(p) \ {o} /\ o \in Reserved(p)
    BY <1>1, <1>3 DEF Reserved
  <2> QED
    BY <1>3, <2>1, Countable, OneLess
<1>4. CASE item[o] # p \/ (b <=> reserved[o])
  <2>1. Reserved(p)' = Reserved(p)
    BY <1>1, <1>4 DEF Reserved
  <2> QED
    BY <1>4, <2>1
<1> QED
  BY <1>2, <1>3, <1>4

(* So do the completed ones. *)
LEMMA CompletedCount ==
  ASSUME TypeOK, NEW o \in Orders, NEW st \in Statuses, NEW p \in Products,
         status' = [status EXCEPT ![o] = st], UNCHANGED item
  PROVE  /\ item[o] = p /\ st = "completed" /\ status[o] # "completed" =>
              Cardinality(Completed(p)') = Cardinality(Completed(p)) + 1
         /\ item[o] = p /\ st # "completed" /\ status[o] = "completed" =>
              Cardinality(Completed(p)') = Cardinality(Completed(p)) - 1
         /\ item[o] # p \/ (st = "completed" <=> status[o] = "completed") => Completed(p)' = Completed(p)
<1>1. /\ status'[o] = st /\ \A q \in Orders \ {o} : status'[q] = status[q]
      /\ item' = item
  BY DEF TypeOK
<1>2. CASE item[o] = p /\ st = "completed" /\ status[o] # "completed"
  <2>1. Completed(p)' = Completed(p) \cup {o} /\ o \notin Completed(p)
    BY <1>1, <1>2 DEF Completed
  <2> QED
    BY <1>2, <2>1, Countable, OneMore
<1>3. CASE item[o] = p /\ st # "completed" /\ status[o] = "completed"
  <2>1. Completed(p)' = Completed(p) \ {o} /\ o \in Completed(p)
    BY <1>1, <1>3 DEF Completed
  <2> QED
    BY <1>3, <2>1, Countable, OneLess
<1>4. CASE item[o] # p \/ (st = "completed" <=> status[o] = "completed")
  <2>1. Completed(p)' = Completed(p)
    BY <1>1, <1>4 DEF Completed
  <2> QED
    BY <1>4, <2>1
<1> QED
  BY <1>2, <1>3, <1>4

(* An order that was not made, and is made now, holds nothing and counts nowhere. *)
LEMMA CreateCounts ==
  ASSUME TypeOK, AbsentIsBlank, NEW o \in Orders, NEW q \in Products, CreateOrder(o, q), NEW p \in Products
  PROVE  Reserved(p)' = Reserved(p) /\ Completed(p)' = Completed(p)
<1>1. /\ status[o] = "absent" /\ item[o] = NoProduct /\ ~reserved[o]
      /\ status'[o] = "pending" /\ ~reserved'[o]
      /\ \A x \in Orders \ {o} : status'[x] = status[x] /\ reserved'[x] = reserved[x] /\ item'[x] = item[x]
  BY DEF CreateOrder, AbsentIsBlank, TypeOK
<1> QED
  BY <1>1, ProductAssumption DEF Reserved, Completed

(* The orders of other products are the same after a deletion. *)
LEMMA DeleteCounts ==
  ASSUME TypeOK, NEW s \in Staff, DeleteProduct(s), NEW p \in Products, p # target[s]
  PROVE  Reserved(p)' = Reserved(p) /\ Completed(p)' = Completed(p)
  BY ProductAssumption DEF DeleteProduct, Reserved, Completed, TypeOK

(***************************************************************************)
(* What each step does                                                     *)
(***************************************************************************)

(* Commit or rollback lets go of what s had locked, and of nothing else. *)
LEMMA ReleaseEffect ==
  ASSUME TypeOK, NEW s \in Staff, Release(s)
  PROVE  /\ pc' \in [Staff -> {"none", "order", "both", "product"}]
         /\ target' \in [Staff -> Orders \cup Products \cup {NoProduct}]
         /\ wanted' \in [Staff -> Statuses] /\ seen' \in [Staff -> Int]
         /\ pc'[s] = "none"
         /\ \A t \in Staff \ {s} : /\ pc'[t] = pc[t] /\ target'[t] = target[t]
                                   /\ wanted'[t] = wanted[t] /\ seen'[t] = seen[t]
  BY DEF Release, TypeOK, Statuses

(* The stock of a product never becomes negative, nor limited or unlimited. *)
LEMMA StockChange ==
  ASSUME NEW n \in Int, NEW had \in BOOLEAN, NEW has \in BOOLEAN
  PROVE  /\ StockAfter(n, had, has) \in Int
         /\ n < 0 => StockAfter(n, had, has) = n
         /\ n >= 0 /\ (had <=> has) => StockAfter(n, had, has) = n
         /\ n >= 0 /\ had /\ ~has => StockAfter(n, had, has) = n + 1
         /\ n >= 0 /\ ~had /\ has => StockAfter(n, had, has) = n - 1
  BY DEF StockAfter

(* What a status change does to the counter of completed sales. *)
LEMMA SoldChange ==
  ASSUME NEW n \in Nat, NEW from, NEW to
  PROVE  /\ SoldAfter(n, from, to) \in Nat
         /\ (from = "completed" <=> to = "completed") => SoldAfter(n, from, to) = n
         /\ from # "completed" /\ to = "completed" => SoldAfter(n, from, to) = n + 1
         /\ from = "completed" /\ to # "completed" /\ n > 0 => SoldAfter(n, from, to) = n - 1
  BY DEF SoldAfter

(* A status change decides about one unit, and writes one order and its product. *)
LEMMA ReservesChoice ==
  ASSUME TypeOK, NEW s \in Staff, HasOrder(s)
  PROVE  /\ target[s] \in Orders
         /\ Reserves(s) \in BOOLEAN
         /\ Reserves(s) /\ ~reserved[target[s]] =>
              wanted[s] = "completed" /\ status[target[s]] # "completed" /\ seen[s] > 0
<1>1. target[s] \in Orders /\ seen[s] \in Int /\ reserved[target[s]] \in BOOLEAN
  BY DEF TypeOK, HasOrder
<1>2. CASE wanted[s] = "canceled"
  BY <1>1, <1>2 DEF Reserves
<1>3. CASE wanted[s] # "canceled" /\ status[target[s]] # "completed" /\ wanted[s] = "completed" /\ ~reserved[target[s]]
  <2>1. Reserves(s) <=> seen[s] > 0
    BY <1>3 DEF Reserves
  <2>2. Reserves(s) = (seen[s] > 0)
    BY <1>3, Zenon DEF Reserves
  <2> QED
    BY <1>1, <1>3, <2>1, <2>2
<1>4. CASE wanted[s] # "canceled" /\ ~(status[target[s]] # "completed" /\ wanted[s] = "completed" /\ ~reserved[target[s]])
  <2>1. Reserves(s) = reserved[target[s]]
    BY <1>4, Zenon DEF Reserves
  <2> QED
    BY <1>1, <2>1
<1> QED
  BY <1>2, <1>3, <1>4

(* A status change keeps the types of the order and its product. *)
LEMMA UpdateTypes ==
  ASSUME TypeOK, NEW s \in Staff, UpdateStatus(s)
  PROVE  /\ HasOrder(s)
         /\ status' \in [Orders -> Statuses \cup {"absent"}]
         /\ reserved' \in [Orders -> BOOLEAN]
         /\ sold' \in [Products -> Nat] /\ stock' \in [Products -> Int]
<1>1. HasOrder(s)
  BY DEF UpdateStatus, HasOrder
<1>2. target[s] \in Orders /\ Reserves(s) \in BOOLEAN /\ wanted[s] \in Statuses
  BY <1>1, ReservesChoice DEF TypeOK
<1>3. \A q \in Products : SoldAfter(sold[q], status[target[s]], wanted[s]) \in Nat
  BY SoldChange DEF TypeOK
<1>4. \A q \in Products : StockAfter(stock[q], reserved[target[s]], Reserves(s)) \in Int
  BY <1>2, StockChange DEF TypeOK
<1>5. status' \in [Orders -> Statuses \cup {"absent"}] /\ reserved' \in [Orders -> BOOLEAN]
  BY <1>2 DEF UpdateStatus, TypeOK
<1>6. sold' \in [Products -> Nat]
  BY <1>3 DEF UpdateStatus, TypeOK
<1>7. stock' \in [Products -> Int]
  BY <1>4 DEF UpdateStatus, TypeOK
<1> QED
  BY <1>1, <1>5, <1>6, <1>7

(***************************************************************************)
(* Each part of IInv is preserved                                          *)
(***************************************************************************)

(* Rows, transactions and the form keep their types. *)
LEMMA TypeStep == ASSUME IInv, [Next]_vars PROVE TypeOK'
<1> USE ProductAssumption, StockAssumption DEF IInv, TypeOK, FormLoaded, Statuses, Shelves, Unlimited, product, orders, tx, history
<1>1. ASSUME NEW o \in Orders, NEW p \in Products, CreateOrder(o, p) PROVE TypeOK'
  BY <1>1 DEF CreateOrder
<1>2. ASSUME NEW p \in Products, LoadForm(p) PROVE TypeOK'
  BY <1>2 DEF LoadForm
<1>3. ASSUME NEW n \in StockLevels, NEW sh \in Shelves, SaveForm(n, sh) PROVE TypeOK'
  <2>1. form[1] \in Products /\ form[3] \in Nat /\ Cardinality(Reserved(form[1])) \in Nat
    BY <1>3, Countable DEF SaveForm
  <2> QED
    BY <1>3, <2>1 DEF SaveForm
<1>4. ASSUME NEW s \in Staff, NEW o \in Orders, NEW st \in Statuses, LockOrder(s, o, st) PROVE TypeOK'
  BY <1>4 DEF LockOrder
<1>5. ASSUME NEW s \in Staff, LockProduct(s) PROVE TypeOK'
  BY <1>5 DEF LockProduct
<1>6. ASSUME NEW s \in Staff, UpdateStatus(s) PROVE TypeOK'
  BY <1>6, ReleaseEffect, UpdateTypes DEF UpdateStatus
<1>7. ASSUME NEW s \in Staff, NEW p \in Products, LockForDelete(s, p) PROVE TypeOK'
  BY <1>7 DEF LockForDelete
<1>8. ASSUME NEW s \in Staff, DeleteProduct(s) PROVE TypeOK'
  BY <1>8, ReleaseEffect DEF DeleteProduct
<1>9. ASSUME NEW s \in Staff, RejectStatus(s) \/ BreakDeadlock(s) \/ Crash(s) PROVE TypeOK'
  BY <1>9, ReleaseEffect DEF RejectStatus, BreakDeadlock, Crash
<1>10. CASE UNCHANGED vars
  BY <1>10 DEF vars
<1> HIDE DEF IInv, TypeOK, FormLoaded, Statuses, Shelves, Unlimited, product, orders, tx, history
<1> QED
  BY <1>1, <1>2, <1>3, <1>4, <1>5, <1>6, <1>7, <1>8, <1>9, <1>10 DEF Next

(* The form has a product, its stock and its sold_count. *)
LEMMA FormStep == ASSUME IInv, [Next]_vars PROVE FormLoaded'
<1> USE ProductAssumption DEF IInv, TypeOK, FormLoaded, product, orders, tx, history
<1>1. ASSUME NEW o \in Orders, NEW p \in Products, CreateOrder(o, p) PROVE FormLoaded'
  BY <1>1 DEF CreateOrder
<1>2. ASSUME NEW p \in Products, LoadForm(p) PROVE FormLoaded'
  BY <1>2 DEF LoadForm
<1>3. ASSUME NEW n \in StockLevels, NEW sh \in Shelves, SaveForm(n, sh) PROVE FormLoaded'
  BY <1>3 DEF SaveForm
<1>4. ASSUME NEW s \in Staff, NEW o \in Orders, NEW st \in Statuses, LockOrder(s, o, st) PROVE FormLoaded'
  BY <1>4 DEF LockOrder
<1>5. ASSUME NEW s \in Staff, LockProduct(s) PROVE FormLoaded'
  BY <1>5 DEF LockProduct
<1>6. ASSUME NEW s \in Staff, UpdateStatus(s) PROVE FormLoaded'
  BY <1>6, ReleaseEffect DEF UpdateStatus
<1>7. ASSUME NEW s \in Staff, NEW p \in Products, LockForDelete(s, p) PROVE FormLoaded'
  BY <1>7 DEF LockForDelete
<1>8. ASSUME NEW s \in Staff, DeleteProduct(s) PROVE FormLoaded'
  BY <1>8, ReleaseEffect DEF DeleteProduct
<1>9. ASSUME NEW s \in Staff, RejectStatus(s) \/ BreakDeadlock(s) \/ Crash(s) PROVE FormLoaded'
  BY <1>9, ReleaseEffect DEF RejectStatus, BreakDeadlock, Crash
<1>10. CASE UNCHANGED vars
  BY <1>10 DEF vars
<1> HIDE DEF IInv, TypeOK, FormLoaded, product, orders, tx, history
<1> QED
  BY <1>1, <1>2, <1>3, <1>4, <1>5, <1>6, <1>7, <1>8, <1>9, <1>10 DEF Next

(* An order is locked while nobody else has it. *)
LEMMA OrdersStep == ASSUME IInv, [Next]_vars PROVE OrdersLocked'
<1> USE ProductAssumption DEF IInv, TypeOK, OrdersLocked, HasOrder, OrderFree, product, orders, tx, history
<1>1. ASSUME NEW o \in Orders, NEW p \in Products, CreateOrder(o, p) PROVE OrdersLocked'
  BY <1>1 DEF CreateOrder
<1>2. ASSUME NEW p \in Products, LoadForm(p) PROVE OrdersLocked'
  BY <1>2 DEF LoadForm
<1>3. ASSUME NEW n \in StockLevels, NEW sh \in Shelves, SaveForm(n, sh) PROVE OrdersLocked'
  BY <1>3 DEF SaveForm
<1>4. ASSUME NEW s \in Staff, NEW o \in Orders, NEW st \in Statuses, LockOrder(s, o, st) PROVE OrdersLocked'
  BY <1>4 DEF LockOrder
<1>5. ASSUME NEW s \in Staff, LockProduct(s) PROVE OrdersLocked'
  BY <1>5 DEF LockProduct
<1>6. ASSUME NEW s \in Staff, UpdateStatus(s) PROVE OrdersLocked'
  BY <1>6, ReleaseEffect DEF UpdateStatus
<1>7. ASSUME NEW s \in Staff, NEW p \in Products, LockForDelete(s, p) PROVE OrdersLocked'
  BY <1>7 DEF LockForDelete
<1>8. ASSUME NEW s \in Staff, DeleteProduct(s) PROVE OrdersLocked'
  BY <1>8, ReleaseEffect DEF DeleteProduct
<1>9. ASSUME NEW s \in Staff, RejectStatus(s) \/ BreakDeadlock(s) \/ Crash(s) PROVE OrdersLocked'
  BY <1>9, ReleaseEffect DEF RejectStatus, BreakDeadlock, Crash
<1>10. CASE UNCHANGED vars
  BY <1>10 DEF vars
<1> HIDE DEF IInv, TypeOK, OrdersLocked, HasOrder, OrderFree, product, orders, tx, history
<1> QED
  BY <1>1, <1>2, <1>3, <1>4, <1>5, <1>6, <1>7, <1>8, <1>9, <1>10 DEF Next

(* A product is locked while nobody else has it. *)
LEMMA ProductsStep == ASSUME IInv, [Next]_vars PROVE ProductsLocked'
<1> USE ProductAssumption DEF IInv, TypeOK, ProductsLocked, HasProduct, LockedProduct, ProductFree, HasOrder, OrderFree, LockedExists, AbsentIsBlank, OrdersLocked, product, orders, tx, history
<1>1. ASSUME NEW o \in Orders, NEW p \in Products, CreateOrder(o, p) PROVE ProductsLocked'
  BY <1>1 DEF CreateOrder
<1>2. ASSUME NEW p \in Products, LoadForm(p) PROVE ProductsLocked'
  BY <1>2 DEF LoadForm
<1>3. ASSUME NEW n \in StockLevels, NEW sh \in Shelves, SaveForm(n, sh) PROVE ProductsLocked'
  BY <1>3 DEF SaveForm
<1>4. ASSUME NEW s \in Staff, NEW o \in Orders, NEW st \in Statuses, LockOrder(s, o, st) PROVE ProductsLocked'
  BY <1>4 DEF LockOrder
<1>5. ASSUME NEW s \in Staff, LockProduct(s) PROVE ProductsLocked'
  BY <1>5 DEF LockProduct, ProductReady
<1>6. ASSUME NEW s \in Staff, UpdateStatus(s) PROVE ProductsLocked'
  BY <1>6, ReleaseEffect DEF UpdateStatus
<1>7. ASSUME NEW s \in Staff, NEW p \in Products, LockForDelete(s, p) PROVE ProductsLocked'
  BY <1>7 DEF LockForDelete
<1>8. ASSUME NEW s \in Staff, DeleteProduct(s) PROVE ProductsLocked'
  BY <1>8, ReleaseEffect DEF DeleteProduct
<1>9. ASSUME NEW s \in Staff, RejectStatus(s) \/ BreakDeadlock(s) \/ Crash(s) PROVE ProductsLocked'
  BY <1>9, ReleaseEffect DEF RejectStatus, BreakDeadlock, Crash
<1>10. CASE UNCHANGED vars
  BY <1>10 DEF vars
<1> HIDE DEF IInv, TypeOK, ProductsLocked, HasProduct, LockedProduct, ProductFree, HasOrder, OrderFree, LockedExists, AbsentIsBlank, OrdersLocked, product, orders, tx, history
<1> QED
  BY <1>1, <1>2, <1>3, <1>4, <1>5, <1>6, <1>7, <1>8, <1>9, <1>10 DEF Next

(* An order that is locked was made. *)
LEMMA ExistsStep == ASSUME IInv, [Next]_vars PROVE LockedExists'
<1> USE ProductAssumption DEF IInv, TypeOK, LockedExists, HasOrder, Statuses, product, orders, tx, history
<1>1. ASSUME NEW o \in Orders, NEW p \in Products, CreateOrder(o, p) PROVE LockedExists'
  BY <1>1 DEF CreateOrder
<1>2. ASSUME NEW p \in Products, LoadForm(p) PROVE LockedExists'
  BY <1>2 DEF LoadForm
<1>3. ASSUME NEW n \in StockLevels, NEW sh \in Shelves, SaveForm(n, sh) PROVE LockedExists'
  BY <1>3 DEF SaveForm
<1>4. ASSUME NEW s \in Staff, NEW o \in Orders, NEW st \in Statuses, LockOrder(s, o, st) PROVE LockedExists'
  BY <1>4 DEF LockOrder
<1>5. ASSUME NEW s \in Staff, LockProduct(s) PROVE LockedExists'
  BY <1>5 DEF LockProduct
<1>6. ASSUME NEW s \in Staff, UpdateStatus(s) PROVE LockedExists'
  BY <1>6, ReleaseEffect DEF UpdateStatus
<1>7. ASSUME NEW s \in Staff, NEW p \in Products, LockForDelete(s, p) PROVE LockedExists'
  BY <1>7 DEF LockForDelete
<1>8. ASSUME NEW s \in Staff, DeleteProduct(s) PROVE LockedExists'
  BY <1>8, ReleaseEffect DEF DeleteProduct
<1>9. ASSUME NEW s \in Staff, RejectStatus(s) \/ BreakDeadlock(s) \/ Crash(s) PROVE LockedExists'
  BY <1>9, ReleaseEffect DEF RejectStatus, BreakDeadlock, Crash
<1>10. CASE UNCHANGED vars
  BY <1>10 DEF vars
<1> HIDE DEF IInv, TypeOK, LockedExists, HasOrder, Statuses, product, orders, tx, history
<1> QED
  BY <1>1, <1>2, <1>3, <1>4, <1>5, <1>6, <1>7, <1>8, <1>9, <1>10 DEF Next

(* The stock that a status change read is the product's while it holds its lock. *)
LEMMA SeenStep == ASSUME IInv, [Next]_vars PROVE SeenIsStock'
<1> USE ProductAssumption DEF IInv, TypeOK, SeenIsStock, ProductFree, OrderFree, HasOrder, LockedExists, ProductsLocked, HasProduct, LockedProduct, AbsentIsBlank, Unlimited, product, orders, tx, history
<1>1. ASSUME NEW o \in Orders, NEW p \in Products, CreateOrder(o, p) PROVE SeenIsStock'
  BY <1>1 DEF CreateOrder
<1>2. ASSUME NEW p \in Products, LoadForm(p) PROVE SeenIsStock'
  BY <1>2 DEF LoadForm
<1>3. ASSUME NEW n \in StockLevels, NEW sh \in Shelves, SaveForm(n, sh) PROVE SeenIsStock'
  BY <1>3 DEF SaveForm
<1>4. ASSUME NEW s \in Staff, NEW o \in Orders, NEW st \in Statuses, LockOrder(s, o, st) PROVE SeenIsStock'
  BY <1>4 DEF LockOrder
<1>5. ASSUME NEW s \in Staff, LockProduct(s) PROVE SeenIsStock'
  BY <1>5 DEF LockProduct
<1>6. ASSUME NEW s \in Staff, UpdateStatus(s) PROVE SeenIsStock'
  BY <1>6, ReleaseEffect DEF UpdateStatus
<1>7. ASSUME NEW s \in Staff, NEW p \in Products, LockForDelete(s, p) PROVE SeenIsStock'
  BY <1>7 DEF LockForDelete
<1>8. ASSUME NEW s \in Staff, DeleteProduct(s) PROVE SeenIsStock'
  BY <1>8, ReleaseEffect DEF DeleteProduct
<1>9. ASSUME NEW s \in Staff, RejectStatus(s) \/ BreakDeadlock(s) \/ Crash(s) PROVE SeenIsStock'
  BY <1>9, ReleaseEffect DEF RejectStatus, BreakDeadlock, Crash
<1>10. CASE UNCHANGED vars
  BY <1>10 DEF vars
<1> HIDE DEF IInv, TypeOK, SeenIsStock, ProductFree, OrderFree, HasOrder, LockedExists, ProductsLocked, HasProduct, LockedProduct, AbsentIsBlank, Unlimited, product, orders, tx, history
<1> QED
  BY <1>1, <1>2, <1>3, <1>4, <1>5, <1>6, <1>7, <1>8, <1>9, <1>10 DEF Next

(* An order has a product and units only once it was made. *)
LEMMA BlankStep == ASSUME IInv, [Next]_vars PROVE AbsentIsBlank'
<1> USE ProductAssumption DEF IInv, TypeOK, AbsentIsBlank, Statuses, LockedExists, HasOrder, product, orders, tx, history
<1>1. ASSUME NEW o \in Orders, NEW p \in Products, CreateOrder(o, p) PROVE AbsentIsBlank'
  BY <1>1 DEF CreateOrder
<1>2. ASSUME NEW p \in Products, LoadForm(p) PROVE AbsentIsBlank'
  BY <1>2 DEF LoadForm
<1>3. ASSUME NEW n \in StockLevels, NEW sh \in Shelves, SaveForm(n, sh) PROVE AbsentIsBlank'
  BY <1>3 DEF SaveForm
<1>4. ASSUME NEW s \in Staff, NEW o \in Orders, NEW st \in Statuses, LockOrder(s, o, st) PROVE AbsentIsBlank'
  BY <1>4 DEF LockOrder
<1>5. ASSUME NEW s \in Staff, LockProduct(s) PROVE AbsentIsBlank'
  BY <1>5 DEF LockProduct
<1>6. ASSUME NEW s \in Staff, UpdateStatus(s) PROVE AbsentIsBlank'
  BY <1>6, ReleaseEffect DEF UpdateStatus
<1>7. ASSUME NEW s \in Staff, NEW p \in Products, LockForDelete(s, p) PROVE AbsentIsBlank'
  BY <1>7 DEF LockForDelete
<1>8. ASSUME NEW s \in Staff, DeleteProduct(s) PROVE AbsentIsBlank'
  BY <1>8, ReleaseEffect DEF DeleteProduct
<1>9. ASSUME NEW s \in Staff, RejectStatus(s) \/ BreakDeadlock(s) \/ Crash(s) PROVE AbsentIsBlank'
  BY <1>9, ReleaseEffect DEF RejectStatus, BreakDeadlock, Crash
<1>10. CASE UNCHANGED vars
  BY <1>10 DEF vars
<1> HIDE DEF IInv, TypeOK, AbsentIsBlank, Statuses, LockedExists, HasOrder, product, orders, tx, history
<1> QED
  BY <1>1, <1>2, <1>3, <1>4, <1>5, <1>6, <1>7, <1>8, <1>9, <1>10 DEF Next

(* Only its own deletion takes a product that is being deleted. *)
LEMMA ShelvedStep == ASSUME IInv, [Next]_vars PROVE DeletesShelved'
<1> USE ProductAssumption DEF IInv, TypeOK, DeletesShelved, Statuses, Shelves, product, orders, tx, history
<1>1. ASSUME NEW o \in Orders, NEW p \in Products, CreateOrder(o, p) PROVE DeletesShelved'
  BY <1>1 DEF CreateOrder
<1>2. ASSUME NEW p \in Products, LoadForm(p) PROVE DeletesShelved'
  BY <1>2 DEF LoadForm
<1>3. ASSUME NEW n \in StockLevels, NEW sh \in Shelves, SaveForm(n, sh) PROVE DeletesShelved'
  BY <1>3 DEF SaveForm
<1>4. ASSUME NEW s \in Staff, NEW o \in Orders, NEW st \in Statuses, LockOrder(s, o, st) PROVE DeletesShelved'
  BY <1>4 DEF LockOrder
<1>5. ASSUME NEW s \in Staff, LockProduct(s) PROVE DeletesShelved'
  BY <1>5 DEF LockProduct
<1>6. ASSUME NEW s \in Staff, UpdateStatus(s) PROVE DeletesShelved'
  BY <1>6, ReleaseEffect DEF UpdateStatus
<1>7. ASSUME NEW s \in Staff, NEW p \in Products, LockForDelete(s, p) PROVE DeletesShelved'
  BY <1>7 DEF LockForDelete
<1>8. ASSUME NEW s \in Staff, DeleteProduct(s) PROVE DeletesShelved'
  <2>1. \A t \in Staff \ {s} : pc[t] = "product" => target[t] # target[s]
    BY <1>8 DEF DeleteProduct, ProductsLocked, HasProduct, LockedProduct
  <2> QED
    BY <1>8, <2>1, ReleaseEffect DEF DeleteProduct
<1>9. ASSUME NEW s \in Staff, RejectStatus(s) \/ BreakDeadlock(s) \/ Crash(s) PROVE DeletesShelved'
  BY <1>9, ReleaseEffect DEF RejectStatus, BreakDeadlock, Crash
<1>10. CASE UNCHANGED vars
  BY <1>10 DEF vars
<1> HIDE DEF IInv, TypeOK, DeletesShelved, Statuses, Shelves, product, orders, tx, history
<1> QED
  BY <1>1, <1>2, <1>3, <1>4, <1>5, <1>6, <1>7, <1>8, <1>9, <1>10 DEF Next

(* A completed order of a product counts. *)
LEMMA CountedOnce ==
  ASSUME NEW p, NEW o \in Completed(p)
  PROVE  Cardinality(Completed(p)) > 0
<1>1. IsFiniteSet(Completed(p)) /\ Cardinality(Completed(p)) \in Nat
  BY Countable
<1>2. Cardinality(Completed(p)) # 0
  BY <1>1, FS_EmptySet
<1> QED
  BY <1>1, <1>2

(* Steps that leave the orders alone leave the counts alone. *)
LEMMA SameCounts ==
  ASSUME UNCHANGED orders, NEW p
  PROVE  Reserved(p)' = Reserved(p) /\ Completed(p)' = Completed(p)
  BY DEF orders, Reserved, Completed

(* A unit that an order takes leaves the product, and the one it gives up   *)
(* comes back, because the product is still as it was seen.                 *)
LEMMA StockUpdated ==
  ASSUME TypeOK, StockConserved, SeenIsStock, NEW s \in Staff, UpdateStatus(s)
  PROVE  StockConserved'
<1> DEFINE o == target[s]
<1> DEFINE has == Reserves(s)
<1>1. /\ o \in Orders /\ has \in BOOLEAN /\ reserved[o] \in BOOLEAN
      /\ has /\ ~reserved[o] => seen[s] > 0
  BY UpdateTypes, ReservesChoice DEF TypeOK
<1>2. SUFFICES ASSUME NEW p \in Products, shelf[p] # "deleted"
               PROVE  IF supplied[p] = Unlimited THEN stock'[p] = Unlimited
                      ELSE stock'[p] >= 0 /\ stock'[p] + Cardinality(Reserved(p)') = supplied[p]
  BY DEF StockConserved, UpdateStatus, history
<1>3. /\ stock[p] \in Int /\ supplied[p] \in Int /\ Cardinality(Reserved(p)) \in Nat
      /\ IF supplied[p] = Unlimited THEN stock[p] = Unlimited
         ELSE stock[p] >= 0 /\ stock[p] + Cardinality(Reserved(p)) = supplied[p]
  BY <1>2, Countable DEF StockConserved, TypeOK
<1>4. reserved' = [reserved EXCEPT ![o] = has] /\ UNCHANGED item
  BY DEF UpdateStatus
<1>5. CASE item[o] # p
  <2>1. stock'[p] = stock[p]
    BY <1>5 DEF UpdateStatus
  <2>2. Reserved(p)' = Reserved(p)
    BY <1>1, <1>4, <1>5, ReservedCount
  <2> QED
    BY <1>3, <2>1, <2>2
<1>6. CASE item[o] = p
  <2>1. stock'[p] = StockAfter(stock[p], reserved[o], has)
    BY <1>6 DEF UpdateStatus
  <2>2. has /\ ~reserved[o] => stock[p] > 0
    BY <1>1, <1>6, ProductAssumption DEF SeenIsStock, UpdateStatus
  <2>3. CASE supplied[p] = Unlimited
    BY <1>1, <1>3, <2>1, <2>3, StockChange DEF Unlimited
  <2>4. CASE supplied[p] # Unlimited /\ has /\ ~reserved[o]
    <3>1. Cardinality(Reserved(p)') = Cardinality(Reserved(p)) + 1
      BY <1>1, <1>4, <1>6, <2>4, ReservedCount
    <3>2. stock'[p] = stock[p] - 1
      BY <1>1, <1>3, <2>1, <2>4, StockChange
    <3> QED
      BY <1>3, <2>2, <2>4, <3>1, <3>2
  <2>5. CASE supplied[p] # Unlimited /\ ~has /\ reserved[o]
    <3>1. Cardinality(Reserved(p)') = Cardinality(Reserved(p)) - 1
      BY <1>1, <1>4, <1>6, <2>5, ReservedCount
    <3>2. stock'[p] = stock[p] + 1
      BY <1>1, <1>3, <2>1, <2>5, StockChange
    <3> QED
      BY <1>3, <2>5, <3>1, <3>2
  <2>6. CASE supplied[p] # Unlimited /\ (has <=> reserved[o])
    <3>1. Reserved(p)' = Reserved(p)
      BY <1>1, <1>4, <2>6, ReservedCount
    <3>2. stock'[p] = stock[p]
      BY <1>1, <1>3, <2>1, <2>6, StockChange
    <3> QED
      BY <1>3, <2>6, <3>1, <3>2
  <2> QED
    BY <2>3, <2>4, <2>5, <2>6
<1> QED
  BY <1>5, <1>6

(* What is left and what orders hold add up after every step. *)
LEMMA StockStep == ASSUME IInv, [Next]_vars PROVE StockConserved'
<1> USE DEF IInv
<1>1. ASSUME NEW o \in Orders, NEW p \in Products, CreateOrder(o, p) PROVE StockConserved'
  BY <1>1, CreateCounts DEF CreateOrder, StockConserved, product, history
<1>2. ASSUME NEW n \in StockLevels, NEW sh \in Shelves, SaveForm(n, sh) PROVE StockConserved'
  <2>1. form[1] \in Products /\ \A p \in Products : Reserved(p)' = Reserved(p) /\ Cardinality(Reserved(p)) \in Nat
    BY <1>2, SameCounts, Countable DEF SaveForm, FormLoaded
  <2>2. n = Unlimited \/ n \in Nat
    BY StockAssumption DEF Unlimited
  <2> QED
    BY <1>2, <2>1, <2>2 DEF SaveForm, StockConserved, TypeOK, Unlimited
<1>3. ASSUME NEW s \in Staff, UpdateStatus(s) PROVE StockConserved'
  BY <1>3, StockUpdated
<1>4. ASSUME NEW s \in Staff, DeleteProduct(s) PROVE StockConserved'
  <2>1. target[s] \in Products
    BY <1>4 DEF DeleteProduct, TypeOK
  <2> QED
    BY <1>4, <2>1, DeleteCounts DEF DeleteProduct, StockConserved, TypeOK, history
<1>5. CASE UNCHANGED <<product, orders, history>>
  BY <1>5, SameCounts DEF StockConserved, product, history
<1> QED
  BY <1>1, <1>2, <1>3, <1>4, <1>5
  DEF Next, vars, LoadForm, LockOrder, LockProduct, RejectStatus, LockForDelete, BreakDeadlock, Crash

(* A completed order is counted, and a reopened or canceled one no longer. *)
LEMMA SoldUpdated ==
  ASSUME TypeOK, SoldCountsCompleted, NEW s \in Staff, UpdateStatus(s)
  PROVE  SoldCountsCompleted'
<1> DEFINE o == target[s]
<1>1. o \in Orders /\ wanted[s] \in Statuses
  BY UpdateTypes, ReservesChoice DEF TypeOK
<1>2. SUFFICES ASSUME NEW p \in Products \ stale, shelf[p] # "deleted"
               PROVE  sold'[p] = Cardinality(Completed(p)')
  BY DEF SoldCountsCompleted, UpdateStatus, history
<1>3. sold[p] \in Nat /\ sold[p] = Cardinality(Completed(p))
  BY <1>2 DEF SoldCountsCompleted, TypeOK
<1>4. status' = [status EXCEPT ![o] = wanted[s]] /\ UNCHANGED item
  BY DEF UpdateStatus
<1>5. CASE item[o] # p
  <2>1. sold'[p] = sold[p]
    BY <1>5 DEF UpdateStatus
  <2>2. Completed(p)' = Completed(p)
    BY <1>1, <1>4, <1>5, CompletedCount
  <2> QED
    BY <1>3, <2>1, <2>2
<1>6. CASE item[o] = p
  <2>1. sold'[p] = SoldAfter(sold[p], status[o], wanted[s])
    BY <1>6 DEF UpdateStatus
  <2>2. CASE status[o] # "completed" /\ wanted[s] = "completed"
    <3>1. Cardinality(Completed(p)') = Cardinality(Completed(p)) + 1
      BY <1>1, <1>4, <1>6, <2>2, CompletedCount
    <3> QED
      BY <1>3, <2>1, <2>2, <3>1, SoldChange
  <2>3. CASE status[o] = "completed" /\ wanted[s] # "completed"
    <3>1. Cardinality(Completed(p)') = Cardinality(Completed(p)) - 1
      BY <1>1, <1>4, <1>6, <2>3, CompletedCount
    <3>2. sold[p] > 0
      BY <1>1, <1>3, <1>6, <2>3, CountedOnce DEF Completed
    <3> QED
      BY <1>3, <2>1, <2>3, <3>1, <3>2, SoldChange
  <2>4. CASE status[o] = "completed" <=> wanted[s] = "completed"
    <3>1. Completed(p)' = Completed(p)
      BY <1>1, <1>4, <2>4, CompletedCount
    <3> QED
      BY <1>3, <2>1, <2>4, <3>1, SoldChange
  <2> QED
    BY <2>2, <2>3, <2>4
<1> QED
  BY <1>5, <1>6

(* sold_count is the number of completed orders after every step, or an     *)
(* edit has written one that it had loaded before.                          *)
LEMMA SoldStep == ASSUME IInv, [Next]_vars PROVE SoldCountsCompleted'
<1> USE DEF IInv
<1>1. ASSUME NEW o \in Orders, NEW p \in Products, CreateOrder(o, p) PROVE SoldCountsCompleted'
  BY <1>1, CreateCounts DEF CreateOrder, SoldCountsCompleted, product, history
<1>2. ASSUME NEW n \in StockLevels, NEW sh \in Shelves, SaveForm(n, sh) PROVE SoldCountsCompleted'
  <2>1. \A p \in Products : Completed(p)' = Completed(p)
    BY <1>2, SameCounts DEF SaveForm
  <2>2. /\ shelf[form[1]] # "deleted"
        /\ stale \subseteq stale' /\ (form[1] \in stale' \/ form[3] = sold[form[1]])
        /\ \A p \in Products : /\ sold'[p] = IF p = form[1] THEN form[3] ELSE sold[p]
                               /\ p # form[1] => shelf'[p] = shelf[p]
    BY <1>2 DEF SaveForm, TypeOK
  <2> QED
    BY <2>1, <2>2 DEF SoldCountsCompleted
<1>3. ASSUME NEW s \in Staff, UpdateStatus(s) PROVE SoldCountsCompleted'
  BY <1>3, SoldUpdated
<1>4. ASSUME NEW s \in Staff, DeleteProduct(s) PROVE SoldCountsCompleted'
  <2>1. target[s] \in Products
    BY <1>4 DEF DeleteProduct, TypeOK
  <2> QED
    BY <1>4, <2>1, DeleteCounts DEF DeleteProduct, SoldCountsCompleted, TypeOK, history
<1>5. CASE UNCHANGED <<product, orders, history>>
  BY <1>5, SameCounts DEF SoldCountsCompleted, product, history
<1> QED
  BY <1>1, <1>2, <1>3, <1>4, <1>5
  DEF Next, vars, LoadForm, LockOrder, LockProduct, RejectStatus, LockForDelete, BreakDeadlock, Crash

(***************************************************************************)
(* The theorems                                                            *)
(***************************************************************************)

(* Nobody has a lock at first, and what is left and held was supplied. *)
LEMMA InitEstablishesIInv == Init => IInv
<1> SUFFICES ASSUME Init PROVE IInv
  OBVIOUS
<1>1. \A p \in Products : Cardinality(Reserved(p)) \in Nat /\ Cardinality(Completed(p)) \in Nat
  BY Countable
<1>2. \A p \in Products : stock[p] \in Int /\ (stock[p] = Unlimited \/ stock[p] \in Nat)
  <2>1. ASSUME NEW p \in Products PROVE stock[p] \in Int /\ (stock[p] = Unlimited \/ stock[p] \in Nat)
    <3>1. stock[p] \in StockLevels
      BY DEF Init
    <3>2. stock[p] = Unlimited \/ stock[p] \in Nat
      BY <3>1, StockAssumption DEF Unlimited
    <3> QED
      BY <3>2 DEF Unlimited
  <2> QED
    BY <2>1
<1>3. supplied \in [Products -> Int] /\ sold \in [Products -> Nat]
  BY <1>1, <1>2 DEF Init, Unlimited
<1>4. stock \in [Products -> Int]
  BY <1>2 DEF Init
<1>5. TypeOK
  BY <1>3, <1>4 DEF Init, TypeOK, Statuses, Shelves
<1>6. StockConserved
  BY <1>1, <1>2 DEF Init, StockConserved, Unlimited
<1>7. SoldCountsCompleted
  BY DEF Init, SoldCountsCompleted
<1>8. OrdersLocked /\ ProductsLocked /\ LockedExists /\ SeenIsStock /\ FormLoaded
  BY DEF Init, OrdersLocked, ProductsLocked, LockedExists, SeenIsStock, FormLoaded, HasOrder, HasProduct
<1>9. AbsentIsBlank /\ DeletesShelved
  BY DEF Init, AbsentIsBlank, DeletesShelved
<1> QED
  BY <1>5, <1>6, <1>7, <1>8, <1>9 DEF IInv

(* The stock, the orders and the locks keep what the properties rest on. *)
THEOREM Invariance == Spec => []IInv
<1>1. Init => IInv
  BY InitEstablishesIInv
<1>2. IInv /\ [Next]_vars => IInv'
  BY TypeStep, FormStep, OrdersStep, ProductsStep, ExistsStep, SeenStep, BlankStep, ShelvedStep, StockStep, SoldStep DEF IInv
<1> QED
  BY <1>1, <1>2, PTL DEF Spec

(* Rows of products and orders, transactions and the form have their types. *)
THEOREM TypeCorrect == Spec => []TypeOK
  BY Invariance, PTL DEF IInv

(* UpdateAffiliateOrderStatus sells no unit twice and gives none back twice, *)
(* with any number of orders, products and admins.                           *)
THEOREM StockIsConserved == Spec => []StockConserved
  BY Invariance, PTL DEF IInv

(* sold_count is the number of completed orders of the product. *)
THEOREM SoldIsCounted == Spec => []SoldCountsCompleted
  BY Invariance, PTL DEF IInv

(* A transaction in progress can go on, or waits for one that can: one that *)
(* waits for a status change with both locks waits for its last step, and   *)
(* a status change and a deletion that wait for each other have a victim.   *)
THEOREM NobodyStandsStill == Spec => []NoStandstill
<1>1. TypeOK => NoStandstill
  <2> SUFFICES ASSUME TypeOK, NEW s \in Staff, pc[s] # "none", ~CanGoOn(s)
               PROVE  \E t \in Staff : WaitsFor(s, t) /\ CanGoOn(t)
    BY DEF NoStandstill
  <2>1. CASE pc[s] = "order"
    <3>1. PICK t \in Staff : \/ pc[t] = "both" /\ item[target[t]] = item[target[s]]
                             \/ pc[t] = "product" /\ target[t] = item[target[s]]
      BY <2>1 DEF CanGoOn, ProductReady, ProductFree
    <3>2. pc[t] = "both"
      BY <2>1, <3>1 DEF CanGoOn, Victim, Deadlocked
    <3> QED
      BY <2>1, <3>1, <3>2 DEF WaitsFor, CanGoOn
  <2>2. CASE pc[s] = "product"
    <3>1. PICK o \in Orders : item[o] = target[s] /\ ~OrderFree(o)
      BY <2>2 DEF CanGoOn, OrdersReady
    <3>2. PICK t \in Staff : pc[t] \in {"order", "both"} /\ target[t] = o
      BY <3>1 DEF OrderFree
    <3>3. pc[t] = "both"
      BY <2>2, <3>1, <3>2 DEF CanGoOn, Victim, Deadlocked
    <3> QED
      BY <2>2, <3>1, <3>2, <3>3 DEF WaitsFor, CanGoOn
  <2> QED
    BY <2>1, <2>2 DEF TypeOK, CanGoOn
<1> QED
  BY <1>1, TypeCorrect, PTL

(***************************************************************************)
(* The stock keeps what Inventory promises                                 *)
(***************************************************************************)

(* The orders that hold a unit, as Inventory has them. *)
Holders == {o \in Orders : reserved[o]}

(* What a status change does to its order and product, as Inventory says   *)
(* it: the sale is counted, and the order holds a unit or does not.        *)
LEMMA MarksOrder ==
  ASSUME TypeOK, LockedExists, NEW s \in Staff, UpdateStatus(s),
         NEW o \in Orders, o = target[s], NEW st \in Statuses, st = wanted[s]
  PROVE  Shop!Mark(o, st)
<1>1. status[o] # "absent"
  BY UpdateTypes DEF LockedExists
<1>2. \A q \in Products : SoldAfter(sold[q], status[o], st) = Shop!SalesBy(o, st, sold[q])
  BY DEF SoldAfter, Shop!SalesBy
<1>3. sold' = [q \in Products |-> IF q = item[o] THEN Shop!SalesBy(o, st, sold[q]) ELSE sold[q]]
  BY <1>2 DEF UpdateStatus
<1> QED
  BY <1>1, <1>3 DEF UpdateStatus, Shop!Mark

(* The holders after a status change are those before, with or without its *)
(* order.                                                                  *)
LEMMA HoldersAfter ==
  ASSUME TypeOK, NEW s \in Staff, UpdateStatus(s)
  PROVE  /\ Reserves(s) => Holders' = Holders \cup {target[s]}
         /\ ~Reserves(s) => Holders' = Holders \ {target[s]}
<1>1. target[s] \in Orders /\ reserved' = [reserved EXCEPT ![target[s]] = Reserves(s)]
  BY UpdateTypes, ReservesChoice DEF UpdateStatus
<1>2. \A o \in Orders : reserved'[o] = IF o = target[s] THEN Reserves(s) ELSE reserved[o]
  BY <1>1 DEF TypeOK
<1> QED
  BY <1>1, <1>2 DEF Holders

(* A status change sells a unit, gives one back, or moves none.            *)
LEMMA UpdateRefines ==
  ASSUME IInv, NEW s \in Staff, UpdateStatus(s),
         NEW o \in Orders, o = target[s], NEW st \in Statuses, st = wanted[s]
  PROVE  Shop!Take(o) \/ Shop!Return(o) \/ Shop!Settle(o, st)
<1> DEFINE p == item[o]
<1>1. /\ TypeOK /\ HasOrder(s) /\ reserved[o] \in BOOLEAN /\ Reserves(s) \in BOOLEAN
      /\ p \in Products \cup {NoProduct} /\ wanted[s] = st /\ target[s] = o
      /\ Reserves(s) /\ ~reserved[o] => st = "completed" /\ status[o] # "completed" /\ seen[s] > 0
  BY UpdateTypes, ReservesChoice DEF IInv, TypeOK
<1>2. Shop!Mark(o, st)
  BY MarksOrder DEF IInv
<1>3. /\ p \in Products => seen[s] = stock[p] /\ stock[p] \in Int
      /\ p \notin Products => seen[s] = -1
  BY <1>1, ProductAssumption DEF IInv, TypeOK, SeenIsStock, UpdateStatus, Unlimited
<1>4. stock' = [q \in Products |-> IF q = p THEN StockAfter(stock[q], reserved[o], Reserves(s)) ELSE stock[q]]
  BY DEF UpdateStatus
<1>5. stock \in [Products -> Int]
  BY <1>1 DEF TypeOK
<1>6. CASE Reserves(s) /\ ~reserved[o]
  <2>1. p \in Products /\ stock[p] > 0 /\ stock[p] \in Int
    BY <1>1, <1>3, <1>6
  <2>2. stock' = [stock EXCEPT ![p] = @ - 1]
    <3>1. StockAfter(stock[p], reserved[o], Reserves(s)) = stock[p] - 1
      BY <1>6, <2>1 DEF StockAfter
    <3> QED
      BY <1>4, <1>5, <2>1, <3>1
  <2>3. Holders' = Holders \cup {o} /\ o \notin Holders
    BY <1>1, <1>6, HoldersAfter DEF Holders
  <2> QED
    BY <1>1, <1>2, <1>6, <2>1, <2>2, <2>3 DEF Shop!Take, Shop!Counted, Holders
<1>7. CASE ~Reserves(s) /\ reserved[o]
  <2>1. st = "canceled"
    BY <1>1, <1>7 DEF Reserves
  <2>2. stock' = IF Shop!Counted(p) THEN [stock EXCEPT ![p] = @ + 1] ELSE stock
    <3>1. CASE Shop!Counted(p)
      <4>1. p \in Products /\ stock[p] >= 0 /\ stock[p] \in Int
        BY <1>3, <3>1 DEF Shop!Counted
      <4>2. StockAfter(stock[p], reserved[o], Reserves(s)) = stock[p] + 1
        BY <1>7, <4>1 DEF StockAfter
      <4> QED
        BY <1>4, <1>5, <3>1, <4>1, <4>2
    <3>2. CASE ~Shop!Counted(p)
      <4>1. ASSUME p \in Products PROVE StockAfter(stock[p], reserved[o], Reserves(s)) = stock[p]
        <5>1. stock[p] \in Int /\ stock[p] < 0
          BY <1>3, <3>2, <4>1 DEF Shop!Counted
        <5> QED
          BY <1>1, <5>1, StockChange
      <4> QED
        BY <1>4, <1>5, <3>2, <4>1
    <3> QED
      BY <3>1, <3>2
  <2>3. Holders' = Holders \ {o} /\ o \in Holders
    BY <1>1, <1>7, HoldersAfter DEF Holders
  <2> QED
    BY <1>2, <2>1, <2>2, <2>3 DEF Shop!Return, Holders
<1>8. CASE Reserves(s) <=> reserved[o]
  <2>1. stock' = stock
    <3>1. \A q \in Products : StockAfter(stock[q], reserved[o], Reserves(s)) = stock[q]
      BY <1>1, <1>8, StockChange DEF TypeOK
    <3> QED
      BY <1>1, <1>4, <3>1 DEF TypeOK
  <2>2. Holders' = Holders
    BY <1>1, <1>8, HoldersAfter DEF Holders
  <2>3. st = "canceled" => o \notin Holders
    BY <1>1, <1>8 DEF Reserves, Holders
  <2>4. st = "completed" => status[o] = "completed" \/ o \in Holders \/ ~Shop!Counted(p)
    <3> SUFFICES ASSUME st = "completed", status[o] # "completed", ~reserved[o], Shop!Counted(p) PROVE FALSE
      BY <1>1 DEF Holders
    <3>1. ~(seen[s] > 0)
      BY <1>1, <1>8 DEF Reserves
    <3>2. seen[s] # 0
      BY <1>1 DEF UpdateStatus, Allowed
    <3> QED
      BY <1>3, <3>1, <3>2 DEF Shop!Counted
  <2> QED
    BY <1>1, <1>2, <2>1, <2>2, <2>3, <2>4 DEF Shop!Settle, Holders, Statuses
<1> QED
  BY <1>1, <1>6, <1>7, <1>8

(* What customers, the operator's form and deletions do is what Inventory  *)
(* says they do.                                                           *)
LEMMA OtherRefines ==
  ASSUME IInv
  PROVE  /\ \A o \in Orders, p \in Products : CreateOrder(o, p) => Shop!Order(o, p)
         /\ \A n \in StockLevels, sh \in Shelves : SaveForm(n, sh) => \E p \in Products : Shop!Edit(p)
         /\ \A s \in Staff : DeleteProduct(s) => \E p \in Products : Shop!Withdraw(p)
<1>1. ASSUME NEW o \in Orders, NEW p \in Products, CreateOrder(o, p) PROVE Shop!Order(o, p)
  <2>1. Holders' = Holders
    BY <1>1 DEF CreateOrder, IInv, TypeOK, AbsentIsBlank, Holders
  <2> QED
    BY <1>1, <2>1 DEF CreateOrder, Shop!Order, product, Holders
<1>2. ASSUME NEW n \in StockLevels, NEW sh \in Shelves, SaveForm(n, sh)
      PROVE  \E p \in Products : Shop!Edit(p)
  <2> DEFINE p == form[1]
  <2>1. p \in Products /\ form[3] \in Nat
    BY <1>2 DEF SaveForm, IInv, FormLoaded
  <2>2. sold'[p] = form[3] /\ sold' = [sold EXCEPT ![p] = sold'[p]]
    BY <1>2, <2>1 DEF SaveForm, IInv, TypeOK
  <2>3. Shop!Edit(p)
    BY <1>2, <2>1, <2>2 DEF SaveForm, Shop!Edit, Shelves, orders
  <2> QED
    BY <2>1, <2>3
<1>3. ASSUME NEW s \in Staff, DeleteProduct(s) PROVE \E p \in Products : Shop!Withdraw(p)
  <2>1. target[s] \in Products
    BY <1>3 DEF DeleteProduct, IInv, TypeOK
  <2>2. shelf[target[s]] # "deleted"
    BY <1>3, <2>1 DEF DeleteProduct, IInv, DeletesShelved
  <2>3. Shop!Withdraw(target[s])
    BY <1>3, <2>2 DEF DeleteProduct, Shop!Withdraw
  <2> QED
    BY <2>1, <2>3
<1> QED
  BY <1>1, <1>2, <1>3

(* The stock starts as any operator leaves it. *)
LEMMA InitRefines == Init => Shop!Init
<1> SUFFICES ASSUME Init PROVE Shop!Init
  OBVIOUS
<1>1. sold \in [Products -> Nat]
  BY InitEstablishesIInv DEF IInv, TypeOK
<1> QED
  BY <1>1 DEF Init, Shop!Init

(* Every step is one of Inventory, or changes nothing it can see. *)
LEMMA StepRefines == ASSUME IInv, [Next]_vars PROVE [Shop!Next]_Shop!vars
<1> USE DEF product, orders, tx, history
<1>1. ASSUME NEW o \in Orders, NEW p \in Products, CreateOrder(o, p) PROVE Shop!Next
  BY <1>1, OtherRefines DEF Shop!Next
<1>2. ASSUME NEW n \in StockLevels, NEW sh \in Shelves, SaveForm(n, sh) PROVE Shop!Next
  BY <1>2, OtherRefines DEF Shop!Next
<1>3. ASSUME NEW s \in Staff, UpdateStatus(s) PROVE Shop!Next
  <2>1. target[s] \in Orders /\ wanted[s] \in Statuses
    BY <1>3, UpdateTypes, ReservesChoice DEF IInv, TypeOK
  <2>2. PICK o \in Orders, st \in Statuses : o = target[s] /\ st = wanted[s]
    BY <2>1
  <2>3. Shop!Take(o) \/ Shop!Return(o) \/ Shop!Settle(o, st)
    BY <1>3, <2>2, UpdateRefines
  <2> QED
    BY <2>2, <2>3 DEF Shop!Next, Statuses
<1>4. ASSUME NEW s \in Staff, DeleteProduct(s) PROVE Shop!Next
  BY <1>4, OtherRefines DEF Shop!Next
<1>5. ASSUME NEW p \in Products, LoadForm(p) PROVE UNCHANGED Shop!vars
  BY <1>5 DEF LoadForm, Shop!vars
<1>6. ASSUME NEW s \in Staff, NEW o \in Orders, NEW st \in Statuses, LockOrder(s, o, st)
      PROVE  UNCHANGED Shop!vars
  BY <1>6 DEF LockOrder, Shop!vars
<1>7. ASSUME NEW s \in Staff, NEW p \in Products, LockForDelete(s, p) PROVE UNCHANGED Shop!vars
  BY <1>7 DEF LockForDelete, Shop!vars
<1>8. ASSUME NEW s \in Staff, LockProduct(s) \/ RejectStatus(s) \/ BreakDeadlock(s) \/ Crash(s)
      PROVE  UNCHANGED Shop!vars
  BY <1>8 DEF LockProduct, RejectStatus, BreakDeadlock, Crash, Shop!vars
<1>9. CASE UNCHANGED vars
  BY <1>9 DEF vars, Shop!vars
<1> HIDE DEF product, orders, tx, history
<1> QED
  BY <1>1, <1>2, <1>3, <1>4, <1>5, <1>6, <1>7, <1>8, <1>9 DEF Next

(* UpdateAffiliateOrderStatus, the product form and deletions change the   *)
(* stock as if each were one step on the stock of its moment, with any     *)
(* number of orders, products and admins.                                  *)
THEOREM ImplementsInventory == Spec => KeepsInventory
  BY InitRefines, StepRefines, Invariance, PTL DEF Spec, KeepsInventory, Shop!Spec

(***************************************************************************)
(*                                                                         *)
(* Reading: what has to be true for its properties to last                 *)
(***************************************************************************)

Rows == [at : {"absent", "live", "deleted"}, slug : Slugs \cup {None}, vis : Visibilities, cites : BOOLEAN]

Stages == {"idle", "begun", "staged", "committed", "check", "account", "found", "allowed", "resolved",
           "building", "built", "done"}
RequestRows == [kind : Kinds, at : Stages, user : {"reader", "admin"}, slug : Slugs \cup {None},
                post : Articles, asked : Slugs \cup Articles, vis : Visibilities, got : Articles,
                ever : SUBSET (FactNames \X Posts), moved : BOOLEAN]

(* One live article has a slug, and held it last.  An alias leads to the   *)
(* last holder, which exists, and the last holder is found if it exists.   *)
OneNamed == \A p, q \in Posts : Live(p) /\ Live(q) /\ post[p].slug = post[q].slug => p = q
NameHeld == \A p \in Posts : Live(p) => post[p].slug \in Slugs /\ holder[post[p].slug] = p
AliasHeld == \A s \in Slugs : alias[s] # None => alias[s] = holder[s] /\ Live(alias[s])
HeldFound ==
    \A s \in Slugs : holder[s] # None =>
        /\ post[holder[s]].at # "absent"
        /\ Live(holder[s]) => post[holder[s]].slug = s \/ alias[s] = holder[s]

RightsLive == \A p \in reader.rights : Live(p)

(* No index that was read before a save outlives the answer of the save. *)
CacheSound == cache.age # "behind" /\ (cache.at = "none" => cache.age = "fresh")

(* The fields a request of each kind uses. *)
Shaped(r) ==
    /\ r.at # "done" => r.got = None
    /\ r.kind = "media" /\ r.at \notin {"idle", "done"} => r.post \in Posts /\ r.at # "resolved"
    /\ r.kind = "slug" /\ r.at \notin {"idle", "done"} => r.slug \in Slugs /\ r.user = "reader"
    /\ r.kind = "slug" /\ r.at \notin {"idle", "done", "resolved"} => r.post = None
    /\ r.at = "begun" => r.asked = None
    /\ r.at \in {"staged", "committed"} => r.kind = "media"
    /\ r.at \in {"check", "account", "found", "allowed"} => r.kind # "search"
    /\ r.at = "resolved" => r.kind = "slug"

Known(r, fact, p) == <<fact, p>> \in r.ever

(* What was the reader's to read, and for an attachment in the article.    *)
Granted(r, p) ==
    /\ p \in Posts
    /\ Known(r, "public", p) \/ (Known(r, "paid", p) /\ Known(r, "bought", p) /\ Known(r, "session", p))
    /\ r.kind = "media" => Known(r, "cited", p)

(* The article a request is about. *)
Target(r) == IF r.kind = "media" THEN r.post ELSE holder[r.slug]

(* The article paid-access is asked about. *)
Subject(r) == IF r.asked \in Slugs THEN holder[r.asked] ELSE r.asked

(* What a request has found out at each stage, and relies on later.        *)
Gathered(r) ==
    /\ r.at \in {"staged", "committed"} /\ r.asked # None =>
          /\ r.asked \in Slugs /\ holder[r.asked] = r.post
          /\ r.vis # "private" => Known(r, r.vis, r.post)
    /\ r.at \in {"check", "account"} =>
          /\ Subject(r) \in Posts /\ post[Subject(r)].at # "absent" /\ Known(r, "paid", Subject(r))
          /\ r.asked \in Slugs => Subject(r) = Target(r)
          /\ r.asked \in Posts => r.kind = "slug"
          /\ r.kind = "media" => Known(r, "cited", r.post)
    /\ r.at = "account" /\ Live(Subject(r)) => Known(r, "session", Subject(r))
    /\ r.at = "found" =>
          /\ r.asked \in Posts /\ r.asked = Target(r)
          /\ Known(r, "paid", r.asked) /\ Known(r, "session", r.asked)
          /\ r.kind = "media" => Known(r, "cited", r.post)
    /\ r.at = "allowed" => Granted(r, Target(r))
    /\ r.at = "resolved" => Granted(r, r.post)

(* A request knows what is true now, and has gathered what its stage needs. *)
Informed(r) ==
    r.at # "idle" /\ ~r.moved /\ r.user = "reader" =>
        /\ r.at # "done" => Facts(r, post, reader) \subseteq r.ever
        /\ Gathered(r)
        /\ r.at = "done" /\ r.got # None => Granted(r, r.got)

RequestOK(r) == Shaped(r) /\ Informed(r)

RowsOK ==
    /\ post \in [Posts -> Rows] /\ alias \in [Slugs -> Articles] /\ holder \in [Slugs -> Articles]
    /\ reader \in [session : {"none", "valid", "ended"}, rights : SUBSET Posts]
    /\ OneNamed /\ NameHeld /\ AliasHeld /\ HeldFound /\ RightsLive
CacheOK ==
    /\ cache \in [at : {"none", "locked", "built", "ready"}, age : {"fresh", "older", "behind"}]
    /\ saving \in 0..MaxSaving /\ events \in 0..MaxEvents
    /\ CacheSound
RequestsOK == request \in [Requests -> RequestRows] /\ \A q \in Requests : RequestOK(request[q])

ReadingInv == RowsOK /\ CacheOK /\ RequestsOK

(***************************************************************************)
(* What a request may conclude from the rows                               *)
(***************************************************************************)

(* The invariant contains the types. *)
LEMMA TypesFollow ==
  ASSUME ReadingInv
  PROVE  ReadingTypeOK
<1>1. \A q \in Requests : request[q].got \in Articles /\ request[q].ever \subseteq FactNames \X Posts
  BY DEF ReadingInv, RequestsOK, RequestRows
<1> QED
  BY <1>1 DEF ReadingInv, RowsOK, CacheOK, ReadingTypeOK, Rows, NameHeld

(* Names, aliases and last holders agree, so every link leads to its last  *)
(* holder or nowhere.                                                      *)
LEMMA LinksFollow ==
  ASSUME RowsOK
  PROVE  OldLinksLive
<1> SUFFICES ASSUME NEW s \in Slugs
             PROVE  Resolve(s) = IF holder[s] # None /\ Live(holder[s]) THEN holder[s] ELSE None
  BY DEF OldLinksLive
<1>0. holder[s] \in Articles /\ alias[s] \in Articles /\ \A p \in Posts : p # None
  BY ArticleReadingAssumption DEF RowsOK
<1>1. CASE Named(s) # {}
  <2>1. Resolve(s) \in Named(s)
    BY <1>1 DEF Resolve
  <2> QED
    BY <1>0, <2>1 DEF Named, RowsOK, NameHeld
<1>2. CASE Named(s) = {}
  <2>1. Resolve(s) = alias[s]
    BY <1>2 DEF Resolve
  <2>2. CASE holder[s] # None /\ Live(holder[s])
    BY <1>0, <1>2, <2>1, <2>2 DEF Named, RowsOK, HeldFound, Articles
  <2>3. CASE ~(holder[s] # None /\ Live(holder[s]))
    BY <1>0, <2>1, <2>3 DEF RowsOK, AliasHeld
  <2> QED
    BY <2>2, <2>3
<1> QED
  BY <1>1, <1>2

(* A slug that leads anywhere leads to its last holder, which exists. *)
LEMMA ResolvedIs ==
  ASSUME RowsOK, NEW s \in Slugs, Resolve(s) # None
  PROVE  Resolve(s) \in Posts /\ Live(Resolve(s)) /\ Resolve(s) = holder[s] /\ post[Resolve(s)].at # "absent"
  BY LinksFollow DEF OldLinksLive, RowsOK, Articles, Live

(* Facts are pairs of a name and an article. *)
LEMMA FactsTyped ==
  ASSUME NEW r, NEW row \in [Posts -> Rows], NEW who
  PROVE  Facts(r, row, who) \subseteq FactNames \X Posts
  BY DEF Facts, FactNames, Rows, Visibilities

(* What is true of a live article that the request is about is among its   *)
(* facts.                                                                  *)
LEMMA FactsAre ==
  ASSUME NEW r, NEW row, NEW who, NEW p \in Posts, row[p].at = "live", r.post \in {None, p}, r.kind # "search",
         r.user = "reader"
  PROVE  /\ row[p].vis # "private" => <<row[p].vis, p>> \in Facts(r, row, who)
         /\ row[p].cites /\ r.kind = "media" => <<"cited", p>> \in Facts(r, row, who)
         /\ p \in who.rights => <<"bought", p>> \in Facts(r, row, who)
         /\ who.session = "valid" => <<"session", p>> \in Facts(r, row, who)
  BY DEF Facts

(* Facts depend on the kind of a request, its user and its article alone. *)
LEMMA FactsSame ==
  ASSUME NEW r, NEW n, NEW row, NEW who, n.kind = r.kind, n.user = r.user, n.post = r.post
  PROVE  Facts(n, row, who) = Facts(r, row, who)
  BY DEF Facts

(***************************************************************************)
(* Changes of the world, which requests in progress live through           *)
(***************************************************************************)

(* No article comes back; unless a slug passes on, its holder stays.       *)
Evolves(moved) ==
    /\ \A p \in Posts : post[p].at # "absent" => post'[p].at # "absent" /\ (post'[p].at = "live" => Live(p))
    /\ ~moved => \A s \in Slugs : holder[s] # None => holder'[s] = holder[s]

(* Facts and articles a request has found stay found while it learns more. *)
LEMMA GatheredStays ==
  ASSUME ReadingInv, Evolves(FALSE), NEW r \in RequestRows, NEW more, Gathered(r), Shaped(r), ~r.moved, r.user = "reader"
  PROVE  Gathered([r EXCEPT !.ever = r.ever \cup more])'
<1> DEFINE n == [r EXCEPT !.ever = r.ever \cup more]
<1>1. /\ n.kind = r.kind /\ n.at = r.at /\ n.slug = r.slug /\ n.post = r.post /\ n.asked = r.asked /\ n.vis = r.vis
      /\ n.ever = r.ever \cup more
      /\ r.at \in Stages /\ r.asked \in Slugs \cup Posts \cup {None} /\ r.post \in Posts \cup {None}
  BY DEF RequestRows, Articles
<1>2. \A fact, p : Known(r, fact, p) => Known(n, fact, p)
  BY <1>1 DEF Known
<1>3. None \notin Posts /\ \A s \in Slugs : holder[s] \in Posts => holder'[s] = holder[s]
  BY ArticleReadingAssumption DEF Evolves
<1> HIDE DEF n
<1>4. \A p : Granted(r, p) => Granted(n, p)
  BY <1>1, <1>2 DEF Granted
<1>5. Subject(r) \in Posts => Subject(n)' = Subject(r)
  BY <1>1, <1>3 DEF Subject
<1>6. Target(r) \in Posts /\ (r.kind # "media" => r.slug \in Slugs) => Target(n)' = Target(r)
  BY <1>1, <1>3 DEF Target
<1>7. r.at \in {"check", "account", "found", "allowed"} /\ r.kind # "media" => r.slug \in Slugs
  BY DEF Shaped, RequestRows, Kinds
<1>8. r.at \in {"staged", "committed"} => r.post \in Posts
  BY DEF Shaped
<1>a. n.at \in {"staged", "committed"} /\ n.asked # None =>
        n.asked \in Slugs /\ holder'[n.asked] = n.post /\ (n.vis # "private" => Known(n, n.vis, n.post))
  BY <1>1, <1>2, <1>3, <1>8 DEF Gathered
<1>b. n.at \in {"check", "account"} =>
        /\ Subject(n)' \in Posts /\ post'[Subject(n)'].at # "absent" /\ Known(n, "paid", Subject(n)')
        /\ n.asked \in Slugs => Subject(n)' = Target(n)'
        /\ n.asked \in Posts => n.kind = "slug"
        /\ n.kind = "media" => Known(n, "cited", n.post)
  <2> SUFFICES ASSUME r.at \in {"check", "account"}
               PROVE  /\ Subject(n)' \in Posts /\ post'[Subject(n)'].at # "absent" /\ Known(n, "paid", Subject(n)')
                      /\ n.asked \in Slugs => Subject(n)' = Target(n)'
                      /\ n.asked \in Posts => n.kind = "slug"
                      /\ n.kind = "media" => Known(n, "cited", n.post)
    BY <1>1
  <2>1. /\ Subject(r) \in Posts /\ post[Subject(r)].at # "absent" /\ Known(r, "paid", Subject(r))
        /\ r.asked \in Slugs => Subject(r) = Target(r)
        /\ r.asked \in Posts => r.kind = "slug"
        /\ r.kind = "media" => Known(r, "cited", r.post)
    BY DEF Gathered
  <2>2. post'[Subject(r)].at # "absent"
    BY <2>1 DEF Evolves
  <2> QED
    BY <1>1, <1>2, <1>5, <1>6, <1>7, <2>1, <2>2
<1>c. n.at = "account" /\ post'[Subject(n)'].at = "live" => Known(n, "session", Subject(n)')
  <2> SUFFICES ASSUME r.at = "account", post'[Subject(n)'].at = "live"
               PROVE  Known(n, "session", Subject(n)')
    BY <1>1
  <2>1. Subject(r) \in Posts /\ post[Subject(r)].at # "absent" /\ (Live(Subject(r)) => Known(r, "session", Subject(r)))
    BY DEF Gathered
  <2> QED
    BY <1>2, <1>5, <2>1 DEF Evolves
<1>d. n.at = "found" =>
        /\ n.asked \in Posts /\ n.asked = Target(n)'
        /\ Known(n, "paid", n.asked) /\ Known(n, "session", n.asked)
        /\ n.kind = "media" => Known(n, "cited", n.post)
  <2> SUFFICES ASSUME r.at = "found"
               PROVE  /\ n.asked \in Posts /\ n.asked = Target(n)'
                      /\ Known(n, "paid", n.asked) /\ Known(n, "session", n.asked)
                      /\ n.kind = "media" => Known(n, "cited", n.post)
    BY <1>1
  <2>1. /\ r.asked \in Posts /\ r.asked = Target(r) /\ Known(r, "paid", r.asked) /\ Known(r, "session", r.asked)
        /\ r.kind = "media" => Known(r, "cited", r.post)
    BY DEF Gathered
  <2> QED
    BY <1>1, <1>2, <1>6, <1>7, <2>1
<1>e. n.at = "allowed" => Granted(n, Target(n)')
  <2>1. r.at = "allowed" => Granted(r, Target(r)) /\ Target(r) \in Posts
    BY DEF Gathered, Granted
  <2> QED
    BY <1>1, <1>4, <1>6, <1>7, <2>1
<1>f. n.at = "resolved" => Granted(n, n.post)
  BY <1>1, <1>4 DEF Gathered
<1> QED
  BY <1>a, <1>b, <1>c, <1>d, <1>e, <1>f DEF Gathered, Live, n

(* Requests in progress live through a change of the articles.             *)
LEMMA ObserveKeeps ==
  ASSUME ReadingInv, RowsOK', NEW moved \in BOOLEAN, Evolves(moved), Observe(moved)
  PROVE  RequestsOK'
<1> SUFFICES ASSUME NEW q \in Requests, NEW r, r = request[q], NEW n, n = request'[q]
             PROVE  n \in RequestRows /\ RequestOK(n)'
  <2>1. \A q \in Requests : \A n : n = request'[q] => n \in RequestRows /\ RequestOK(n)'
    OBVIOUS
  <2> QED
    <3>1. request' \in [Requests -> RequestRows]
      BY <2>1 DEF Observe
    <3>2. ASSUME NEW q \in Requests
          PROVE  RequestOK(request[q])'
      <4>1. PICK n : n = request'[q]
        OBVIOUS
      <4>2. RequestOK(n)'
        BY <2>1, <4>1
      <4> QED
        BY <4>1, <4>2 DEF RequestOK, Shaped, Informed, Gathered, Granted, Known, Target, Subject, Live, Facts
    <3> QED
      BY <3>1, <3>2 DEF RequestsOK
<1> DEFINE more == Facts(r, post', reader')
<1>1. r \in RequestRows /\ Shaped(r) /\ Informed(r)
  BY DEF ReadingInv, RequestsOK, RequestOK, Shaped, Informed, Gathered, Granted, Known, Target, Subject, Live
<1>2. n = IF r.at = "idle" \/ r.moved THEN r
                    ELSE IF moved THEN [r EXCEPT !.moved = TRUE, !.ever = {}]
                    ELSE [r EXCEPT !.ever = r.ever \cup more]
  BY DEF Observe
<1>3. more \subseteq FactNames \X Posts
  <2>1. post' \in [Posts -> Rows]
    BY DEF RowsOK
  <2> QED
    BY <2>1, FactsTyped
<1> HIDE DEF more
<1>4. CASE r.at = "idle" \/ r.moved
  BY <1>1, <1>2, <1>4 DEF RequestOK, Shaped, Informed
<1>5. CASE r.at # "idle" /\ ~r.moved /\ moved
  <2>1. n = [r EXCEPT !.moved = TRUE, !.ever = {}]
    BY <1>2, <1>5
  <2>2. n \in RequestRows
    BY <1>1, <2>1 DEF RequestRows
  <2>3. /\ n.kind = r.kind /\ n.at = r.at /\ n.slug = r.slug /\ n.post = r.post /\ n.asked = r.asked
        /\ n.user = r.user /\ n.got = r.got /\ n.moved
    BY <1>1, <2>1 DEF RequestRows
  <2>4. Shaped(n)
    BY <1>1, <2>3 DEF Shaped
  <2> QED
    BY <2>2, <2>3, <2>4 DEF RequestOK, Informed
<1>6. CASE r.at # "idle" /\ ~r.moved /\ ~moved
  <2>1. n = [r EXCEPT !.ever = r.ever \cup more]
    BY <1>2, <1>6
  <2>2. n \in RequestRows
    BY <1>1, <1>3, <2>1 DEF RequestRows
  <2>3. /\ n.kind = r.kind /\ n.at = r.at /\ n.slug = r.slug /\ n.post = r.post /\ n.asked = r.asked
        /\ n.vis = r.vis /\ n.user = r.user /\ n.got = r.got /\ n.moved = r.moved
        /\ n.ever = r.ever \cup more
    BY <1>1, <2>1 DEF RequestRows
  <2>4. Shaped(n)
    BY <1>1, <2>3 DEF Shaped
  <2>5. ASSUME r.user = "reader"
        PROVE  Gathered(n)'
    <3>1. Gathered(r)
      BY <1>1, <1>6, <2>5 DEF Informed
    <3>2. Evolves(FALSE) /\ ~r.moved
      BY <1>6
    <3> QED
      BY <1>1, <2>1, <2>5, <3>1, <3>2, GatheredStays
  <2>6. Facts(n, post', reader') = more
    BY <2>3, FactsSame DEF more
  <2>7. ASSUME r.user = "reader", r.at = "done", r.got # None
        PROVE  Granted(n, n.got)
    BY <1>1, <1>6, <2>3, <2>7 DEF Informed, Granted, Known
  <2>8. Informed(n)'
    BY <2>3, <2>5, <2>6, <2>7 DEF Informed
  <2> QED
    BY <2>1, <2>2, <2>4, <2>8 DEF RequestOK
<1> QED
  BY <1>4, <1>5, <1>6

(* A commit leaves the index within what the lock allows. *)
LEMMA AgedIsSound ==
  ASSUME CacheOK, Event, cache' = Aged, saving < MaxSaving, saving' \in {saving, saving + 1}
  PROVE  CacheOK'
<1>1. MaxEvents \in Nat /\ MaxSaving \in Nat /\ events' = events + 1 /\ events < MaxEvents
  BY ArticleReadingAssumption DEF Event
<1>2. saving' \in 0..MaxSaving /\ events' \in 0..MaxEvents
  BY <1>1 DEF CacheOK
<1>3. /\ cache' \in [at : {"none", "locked", "built", "ready"}, age : {"fresh", "older", "behind"}]
      /\ cache'.age # "behind" /\ (cache'.at = "none" => cache'.age = "fresh")
  BY DEF CacheOK, CacheSound, Aged
<1> QED
  BY <1>2, <1>3 DEF CacheOK, CacheSound

(* A new article takes a slug that leads nowhere, and becomes its holder. *)
LEMMA CreatedRows ==
  ASSUME RowsOK, NEW p \in Posts, NEW s \in Slugs, NEW vis \in Visibilities, NEW cites \in BOOLEAN,
         CreatePost(p, s, vis, cites)
  PROVE  RowsOK' /\ Evolves(holder[s] \notin {p, None})
<1>0. /\ None \notin Posts /\ None \notin Slugs
      /\ post[p].at = "absent" /\ ~Live(p) /\ Named(s) = {} /\ alias[s] = None
      /\ alias' = alias /\ reader' = reader
  <2>1. Resolve(s) = None /\ None \notin Posts /\ None \notin Slugs /\ post[p] = NoPost
    BY ArticleReadingAssumption DEF CreatePost, uniquePostSlug
  <2>2. Named(s) = {}
    BY <2>1 DEF Resolve, Named
  <2> QED
    BY <2>1, <2>2 DEF Resolve, CreatePost, Committed, NoPost, Live
<1>1. /\ post' = [post EXCEPT ![p] = [at |-> "live", slug |-> s, vis |-> vis, cites |-> cites]]
      /\ holder' = [holder EXCEPT ![s] = p]
  BY DEF CreatePost
<1>2. /\ post' \in [Posts -> Rows] /\ alias' \in [Slugs -> Articles] /\ holder' \in [Slugs -> Articles]
      /\ reader' \in [session : {"none", "valid", "ended"}, rights : SUBSET Posts]
  BY <1>0, <1>1 DEF RowsOK, Rows, Articles
<1>3. /\ post'[p].at = "live" /\ post'[p].slug = s
      /\ \A q \in Posts : q # p => post'[q] = post[q]
      /\ holder'[s] = p /\ \A x \in Slugs : x # s => holder'[x] = holder[x]
  BY <1>1 DEF RowsOK
<1>4. \A q \in Posts : Live(q) => post[q].slug # s
  BY <1>0 DEF Named
<1>5. OneNamed'
  BY <1>3, <1>4 DEF OneNamed, RowsOK, Live
<1>6. NameHeld'
  BY <1>3, <1>4 DEF NameHeld, RowsOK, Live
<1>7. AliasHeld'
  <2> SUFFICES ASSUME NEW x \in Slugs, alias[x] # None
               PROVE  alias[x] = holder'[x] /\ post'[alias[x]].at = "live"
    BY <1>0 DEF AliasHeld, Live
  <2>1. alias[x] = holder[x] /\ Live(alias[x]) /\ alias[x] \in Posts /\ x # s
    BY <1>0 DEF RowsOK, AliasHeld, Articles
  <2> QED
    BY <1>0, <1>3, <2>1 DEF Live
<1>8. HeldFound'
  <2> SUFFICES ASSUME NEW x \in Slugs, holder'[x] # None
               PROVE  /\ post'[holder'[x]].at # "absent"
                      /\ post'[holder'[x]].at = "live" => post'[holder'[x]].slug = x \/ alias[x] = holder'[x]
    BY <1>0 DEF HeldFound, Live
  <2>1. CASE x = s
    BY <1>3, <2>1
  <2>2. CASE x # s
    <3>1. holder'[x] = holder[x] /\ holder[x] \in Posts /\ post[holder[x]].at # "absent"
      BY <1>3, <2>2 DEF RowsOK, HeldFound, Articles
    <3>2. post'[holder[x]] = post[holder[x]]
      BY <1>0, <1>3, <3>1
    <3> QED
      BY <3>1, <3>2 DEF RowsOK, HeldFound, Live
  <2> QED
    BY <2>1, <2>2
<1>9. RightsLive'
  BY <1>0, <1>3 DEF RightsLive, RowsOK, Live
<1>a. Evolves(holder[s] \notin {p, None})
  BY <1>0, <1>3 DEF Evolves, Live
<1> QED
  BY <1>2, <1>5, <1>6, <1>7, <1>8, <1>9, <1>a DEF RowsOK

(* A rename leaves an alias and takes the new slug, with its alias, for    *)
(* the article.                                                            *)
LEMMA UpdatedRows ==
  ASSUME RowsOK, NEW p \in Posts, NEW s \in Slugs, NEW vis \in Visibilities, NEW cites \in BOOLEAN,
         Update(p, s, vis, cites)
  PROVE  RowsOK' /\ Evolves(\E x \in Slugs \cap {s} : holder[x] \notin {p, None})
<1> DEFINE old == post[p].slug
<1>0. /\ None \notin Posts /\ None \notin Slugs /\ Live(p) /\ Named(s) \subseteq {p}
      /\ old \in Slugs /\ holder[old] = p /\ reader' = reader
  BY ArticleReadingAssumption DEF RowsOK, NameHeld, Update, Committed
<1>1. /\ post' = [post EXCEPT ![p] = [at |-> "live", slug |-> s, vis |-> vis, cites |-> cites]]
      /\ holder' = [x \in Slugs |-> IF x = s THEN p ELSE holder[x]]
      /\ alias' = IF old = s THEN alias ELSE [alias EXCEPT ![old] = p, ![s] = None]
  BY DEF Update, Renamed
<1> HIDE DEF old
<1>2. /\ post' \in [Posts -> Rows] /\ alias' \in [Slugs -> Articles] /\ holder' \in [Slugs -> Articles]
      /\ reader' \in [session : {"none", "valid", "ended"}, rights : SUBSET Posts]
  <2>1. alias' \in [Slugs -> Articles]
    BY <1>0, <1>1 DEF RowsOK, Articles
  <2> QED
    BY <1>0, <1>1, <2>1 DEF RowsOK, Rows, Articles
<1>3. /\ post'[p].at = "live" /\ post'[p].slug = s
      /\ \A q \in Posts : q # p => post'[q] = post[q]
      /\ holder'[s] = p /\ \A x \in Slugs : x # s => holder'[x] = holder[x]
  BY <1>1 DEF RowsOK
<1>4. /\ old = s => alias' = alias
      /\ old # s => /\ alias'[old] = p /\ alias'[s] = None
                    /\ \A x \in Slugs : x \notin {old, s} => alias'[x] = alias[x]
  BY <1>0, <1>1 DEF RowsOK
<1>5. \A q \in Posts : q # p /\ Live(q) => post[q].slug # s /\ post[q].slug # old
  BY <1>0 DEF Named, RowsOK, OneNamed, old
<1>6. OneNamed'
  BY <1>3, <1>5 DEF OneNamed, RowsOK, Live
<1>7. NameHeld'
  BY <1>3, <1>5 DEF NameHeld, RowsOK, Live
<1>8. AliasHeld'
  <2> SUFFICES ASSUME NEW x \in Slugs, alias'[x] # None
               PROVE  alias'[x] = holder'[x] /\ post'[alias'[x]].at = "live"
    BY DEF AliasHeld, Live
  <2>1. CASE alias'[x] = alias[x]
    <3>1. alias[x] = holder[x] /\ Live(alias[x]) /\ alias[x] \in Posts
      BY <2>1 DEF RowsOK, AliasHeld, Articles
    <3>2. x = s => alias[x] = p
      BY <1>0, <1>4, <2>1, <3>1
    <3> QED
      BY <1>3, <2>1, <3>1, <3>2 DEF Live
  <2>2. CASE alias'[x] # alias[x]
    BY <1>0, <1>3, <1>4, <2>2
  <2> QED
    BY <2>1, <2>2
<1>9. HeldFound'
  <2> SUFFICES ASSUME NEW x \in Slugs, holder'[x] # None
               PROVE  /\ post'[holder'[x]].at # "absent"
                      /\ post'[holder'[x]].at = "live" => post'[holder'[x]].slug = x \/ alias'[x] = holder'[x]
    BY DEF HeldFound, Live
  <2>1. CASE x = s
    BY <1>3, <2>1
  <2>2. CASE x # s
    <3>1. holder'[x] = holder[x] /\ holder[x] \in Posts /\ post[holder[x]].at # "absent"
          /\ (Live(holder[x]) => post[holder[x]].slug = x \/ alias[x] = holder[x])
      BY <1>3, <2>2 DEF RowsOK, HeldFound, Articles
    <3>2. CASE holder[x] # p
      <4>1. x # old /\ alias'[x] = alias[x] /\ post'[holder[x]] = post[holder[x]]
        BY <1>0, <1>3, <1>4, <2>2, <3>1, <3>2
      <4> QED
        BY <3>1, <4>1 DEF Live
    <3>3. CASE holder[x] = p
      BY <1>0, <1>3, <1>4, <2>2, <3>1, <3>3 DEF old
    <3> QED
      BY <3>2, <3>3
  <2> QED
    BY <2>1, <2>2
<1>a. RightsLive'
  BY <1>0, <1>3 DEF RightsLive, RowsOK, Live
<1>b. Evolves(\E x \in Slugs \cap {s} : holder[x] \notin {p, None})
  BY <1>0, <1>3 DEF Evolves, Live
<1> QED
  BY <1>2, <1>6, <1>7, <1>8, <1>9, <1>a, <1>b DEF RowsOK

(* Aliases and rights go with a deleted article, and its slugs lead        *)
(* nowhere.                                                                *)
LEMMA DeletedRows ==
  ASSUME RowsOK, NEW p \in Posts, DeletePost(p)
  PROVE  RowsOK' /\ Evolves(FALSE)
<1> DEFINE gone == [NoPost EXCEPT !.at = "deleted"]
<1>0. /\ None \notin Posts /\ None \notin Slugs /\ Live(p) /\ holder' = holder
      /\ post' = [post EXCEPT ![p] = gone]
      /\ alias' = [s \in Slugs |-> IF alias[s] = p THEN None ELSE alias[s]]
      /\ reader' = [reader EXCEPT !.rights = reader.rights \ {p}]
  BY ArticleReadingAssumption DEF DeletePost, Unlinked
<1>g. gone \in Rows /\ gone.at = "deleted"
  BY DEF NoPost, Rows, Visibilities
<1> HIDE DEF gone
<1>1. /\ post' \in [Posts -> Rows] /\ alias' \in [Slugs -> Articles] /\ holder' \in [Slugs -> Articles]
      /\ reader' \in [session : {"none", "valid", "ended"}, rights : SUBSET Posts]
      /\ reader'.rights = reader.rights \ {p}
  BY <1>0, <1>g DEF RowsOK, Rows, Articles, Visibilities
<1>2. /\ post'[p].at = "deleted"
      /\ \A q \in Posts : q # p => post'[q] = post[q]
      /\ \A s \in Slugs : alias'[s] = IF alias[s] = p THEN None ELSE alias[s]
  BY <1>0, <1>g DEF RowsOK
<1>3. OneNamed' /\ NameHeld' /\ RightsLive'
  BY <1>0, <1>1, <1>2 DEF OneNamed, NameHeld, RightsLive, RowsOK, Live
<1>4. AliasHeld'
  BY <1>0, <1>2 DEF AliasHeld, RowsOK, Live, Articles
<1>5. HeldFound'
  BY <1>0, <1>2 DEF HeldFound, RowsOK, Live, Articles
<1>6. Evolves(FALSE)
  BY <1>0, <1>2 DEF Evolves, Live
<1> QED
  BY <1>1, <1>3, <1>4, <1>5, <1>6 DEF RowsOK

(* Creations and updates keep the invariant. *)
LEMMA SavesKeep ==
  ASSUME ReadingInv, NEW p \in Posts, NEW vis \in Visibilities, NEW cites \in BOOLEAN,
         \/ \E s \in Slugs : CreatePost(p, s, vis, cites)
         \/ \E s \in (Slugs \ {post[p].slug}) \cup {None} : UpdatePost(p, s, vis, cites)
  PROVE  ReadingInv'
<1>1. CASE \E s \in Slugs : CreatePost(p, s, vis, cites)
  <2>1. PICK s \in Slugs : CreatePost(p, s, vis, cites)
    BY <1>1
  <2>2. RowsOK' /\ Evolves(holder[s] \notin {p, None})
    BY <2>1, CreatedRows DEF ReadingInv
  <2>3. CacheOK' /\ Observe(holder[s] \notin {p, None})
    BY <2>1, AgedIsSound DEF ReadingInv, CreatePost, Committed
  <2>4. (holder[s] \notin {p, None}) \in BOOLEAN
    OBVIOUS
  <2> QED
    BY <2>2, <2>3, <2>4, ObserveKeeps DEF ReadingInv
<1>2. CASE \E s \in (Slugs \ {post[p].slug}) \cup {None} : UpdatePost(p, s, vis, cites)
  <2>1. PICK sent \in (Slugs \ {post[p].slug}) \cup {None} : UpdatePost(p, sent, vis, cites)
    BY <1>2
  <2>2. PICK s : s = NewSlug(p, sent)
    OBVIOUS
  <2>3. Update(p, s, vis, cites)
    BY <2>1, <2>2 DEF UpdatePost
  <2>4. s \in Slugs
    BY <2>1, <2>2, <2>3 DEF NewSlug, Update, ReadingInv, RowsOK, NameHeld
  <2>5. PICK moved \in BOOLEAN : moved <=> \E x \in Slugs \cap {s} : holder[x] \notin {p, None}
    OBVIOUS
  <2>6. RowsOK' /\ Evolves(moved)
    BY <2>3, <2>4, <2>5, UpdatedRows DEF ReadingInv, Evolves
  <2>7. CacheOK' /\ Observe(moved)
    BY <2>3, <2>5, AgedIsSound DEF ReadingInv, Update, Committed, Observe
  <2> QED
    BY <2>6, <2>7, ObserveKeeps DEF ReadingInv
<1> QED
  BY <1>1, <1>2

(* Deletions keep the invariant. *)
LEMMA DeletionKeeps ==
  ASSUME ReadingInv, NEW p \in Posts, DeletePost(p)
  PROVE  ReadingInv'
<1>1. RowsOK' /\ Evolves(FALSE)
  BY DeletedRows DEF ReadingInv
<1>2. CacheOK' /\ Observe(FALSE)
  BY AgedIsSound DEF ReadingInv, DeletePost
<1> QED
  BY <1>1, <1>2, ObserveKeeps DEF ReadingInv

(* The end of a session and a completed order keep the invariant. *)
LEMMA ReaderKeeps ==
  ASSUME ReadingInv, EndSession \/ \E p \in Posts : Grant(p)
  PROVE  ReadingInv'
<1>1. /\ post' = post /\ alias' = alias /\ holder' = holder /\ cache' = cache /\ saving' = saving
      /\ Event /\ Observe(FALSE)
      /\ reader' \in [session : {"none", "valid", "ended"}, rights : SUBSET Posts]
      /\ \A p \in reader'.rights : Live(p)
  <2>1. CASE EndSession
    BY <2>1 DEF EndSession, rows, ReadingInv, RowsOK, RightsLive
  <2>2. CASE \E p \in Posts : Grant(p)
    BY <2>2 DEF Grant, rows, ReadingInv, RowsOK, RightsLive
  <2> QED
    BY <2>1, <2>2
<1>2. RowsOK'
  BY <1>1 DEF ReadingInv, RowsOK, OneNamed, NameHeld, AliasHeld, HeldFound, RightsLive, Live
<1>3. Evolves(FALSE)
  BY <1>1 DEF Evolves, Live
<1>4. CacheOK'
  <2>1. MaxEvents \in Nat /\ events' = events + 1 /\ events < MaxEvents
    BY <1>1, ArticleReadingAssumption DEF Event
  <2>2. events' \in 0..MaxEvents
    BY <2>1 DEF ReadingInv, CacheOK
  <2> QED
    BY <1>1, <2>2 DEF ReadingInv, CacheOK, CacheSound
<1> QED
  BY <1>1, <1>2, <1>3, <1>4, ObserveKeeps DEF ReadingInv

(***************************************************************************)
(* Steps of one request, and of the index                                  *)
(***************************************************************************)

(* The articles stay as they are.                                          *)
LEMMA RowsStay ==
  ASSUME RowsOK, UNCHANGED <<rows, reader>>
  PROVE  RowsOK'
  BY DEF RowsOK, rows, OneNamed, NameHeld, AliasHeld, HeldFound, RightsLive, Live

(* The index stays as it is. *)
LEMMA CacheStays ==
  ASSUME CacheOK, UNCHANGED <<cache, saving, events>>
  PROVE  CacheOK'
  BY DEF CacheOK, CacheSound

(* What a request has gathered holds as long as the articles and the       *)
(* reader stay.                                                            *)
LEMMA RequestStays ==
  ASSUME UNCHANGED <<rows, reader>>, NEW r
  PROVE  RequestOK(r)' <=> RequestOK(r)
  BY DEF rows, RequestOK, Shaped, Informed, Gathered, Granted, Known, Target, Subject, Live, Facts

(* Requests that do nothing stay sound. *)
LEMMA RequestsStay ==
  ASSUME RequestsOK, UNCHANGED <<rows, reader>>, request' = request
  PROVE  RequestsOK'
<1>1. ASSUME NEW q \in Requests
      PROVE  RequestOK(request[q])'
  <2>1. PICK r : r = request[q]
    OBVIOUS
  <2>2. RequestOK(r)
    BY <2>1 DEF RequestsOK
  <2>3. RequestOK(r)'
    BY <2>2, RequestStays
  <2> QED
    BY <2>1, <2>3 DEF RequestOK, Shaped, Informed, Gathered, Granted, Known, Target, Subject, Live, Facts
<1> QED
  BY <1>1 DEF RequestsOK

(* One request goes on. *)
LEMMA OneRequest ==
  ASSUME RequestsOK, UNCHANGED <<rows, reader>>, NEW q \in Requests, NEW n,
         request' = [request EXCEPT ![q] = n], n \in RequestRows, RequestOK(n)
  PROVE  RequestsOK'
<1>1. request' \in [Requests -> RequestRows]
  BY DEF RequestsOK
<1>2. ASSUME NEW x \in Requests
      PROVE  RequestOK(request[x])'
  <2>1. PICK r : r = request'[x]
    OBVIOUS
  <2>2. r = IF x = q THEN n ELSE request[x]
    BY <2>1 DEF RequestsOK
  <2>3. RequestOK(r)
    <3>1. RequestOK(request[x])
      BY DEF RequestsOK
    <3>2. CASE x = q
      BY <2>2, <3>2
    <3>3. CASE x # q
      BY <2>2, <3>1, <3>3
    <3> QED
      BY <3>2, <3>3
  <2>4. RequestOK(r)'
    BY <2>3, RequestStays
  <2> QED
    BY <2>1, <2>4 DEF RequestOK, Shaped, Informed, Gathered, Granted, Known, Target, Subject, Live, Facts
<1> QED
  BY <1>1, <1>2 DEF RequestsOK

(* A request that settles on one article has no more facts than before. *)
LEMMA FactsNarrow ==
  ASSUME NEW r, NEW n, NEW row, NEW who, n.kind = r.kind, n.user = r.user, r.post = None
  PROVE  Facts(n, row, who) \subseteq Facts(r, row, who)
  BY DEF Facts

(* A step of one request keeps the invariant when the request stays sound. *)
LEMMA StepKeeps ==
  ASSUME ReadingInv, UNCHANGED World, NEW q \in Requests, NEW n,
         request' = [request EXCEPT ![q] = n], n \in RequestRows, RequestOK(n)
  PROVE  ReadingInv'
  BY RowsStay, CacheStays, OneRequest DEF ReadingInv, World

(* A request that is over is sound. *)
LEMMA NoRequestOK ==
  /\ NoRequest \in RequestRows /\ RequestOK(NoRequest)
  /\ NoRequest.at = "idle" /\ NoRequest.got = None
<1>1. NoRequest \in RequestRows /\ NoRequest.at = "idle" /\ NoRequest.got = None
  BY DEF NoRequest, RequestRows, Kinds, Stages, Articles, Visibilities
<1>2. /\ NoRequest.kind = "search" /\ NoRequest.post = None
  BY DEF NoRequest
<1> QED
  BY <1>1, <1>2 DEF RequestOK, Shaped, Informed

(* A refusal keeps the invariant. *)
LEMMA RefusalKeeps ==
  ASSUME ReadingInv, UNCHANGED World, NEW q \in Requests, Refuse(q)
  PROVE  ReadingInv'
  BY NoRequestOK, StepKeeps DEF Refuse

(* The invariant, for one request. *)
LEMMA RequestIs ==
  ASSUME ReadingInv, NEW q \in Requests
  PROVE  /\ request[q] \in RequestRows /\ Shaped(request[q]) /\ Informed(request[q])
         /\ request \in [Requests -> RequestRows]
  BY DEF ReadingInv, RequestsOK, RequestOK

(* What is obtained has to be granted. *)
LEMMA ObtainKeeps ==
  ASSUME ReadingInv, UNCHANGED World, NEW q \in Requests, NEW p \in Articles, Obtain(q, p), request[q].at # "idle",
         ~request[q].moved /\ request[q].user = "reader" /\ p # None => Granted(request[q], p)
  PROVE  ReadingInv'
<1> DEFINE r == request[q]
           n == [NoRequest EXCEPT !.at = "done", !.kind = r.kind, !.user = r.user,
                                  !.got = p, !.ever = r.ever, !.moved = r.moved]
<1>1. r \in RequestRows
  BY RequestIs
<1>2. n \in RequestRows
  BY <1>1, NoRequestOK DEF RequestRows, Stages
<1>3. n.at = "done" /\ n.kind = r.kind /\ n.user = r.user /\ n.got = p /\ n.ever = r.ever /\ n.moved = r.moved
  BY DEF NoRequest
<1>4. request' = [request EXCEPT ![q] = n]
  BY DEF Obtain
<1> HIDE DEF n
<1>5. RequestOK(n)
  BY <1>3 DEF RequestOK, Shaped, Informed, Gathered, Granted, Known
<1> QED
  BY <1>2, <1>4, <1>5, StepKeeps

(* Steps that change the stage, and what the request holds.               *)
LEMMA AllowKeeps ==
  ASSUME ReadingInv, UNCHANGED World, NEW q \in Requests, Allow(q),
         request[q].at \notin {"idle", "done", "resolved"}, request[q].kind # "search",
         ~request[q].moved /\ request[q].user = "reader" => Granted(request[q], Target(request[q]))
  PROVE  ReadingInv'
<1> DEFINE r == request[q]
           n == [r EXCEPT !.at = "allowed", !.asked = None]
<1>1. r \in RequestRows /\ Shaped(r) /\ Informed(r) /\ request \in [Requests -> RequestRows]
  BY RequestIs
<1>2. n \in RequestRows
  BY <1>1 DEF RequestRows, Stages, Articles
<1>3. /\ n.at = "allowed" /\ n.asked = None /\ n.kind = r.kind /\ n.user = r.user /\ n.slug = r.slug
      /\ n.post = r.post /\ n.vis = r.vis /\ n.got = r.got /\ n.ever = r.ever /\ n.moved = r.moved
  BY <1>1 DEF RequestRows
<1>4. request' = [request EXCEPT ![q] = n]
  BY <1>1 DEF Allow, RequestRows
<1> HIDE DEF n
<1>5. Shaped(n)
  BY <1>1, <1>3 DEF Shaped
<1>6. Facts(n, post, reader) = Facts(r, post, reader)
  BY <1>3, FactsSame
<1>7. Informed(n)
  BY <1>1, <1>3, <1>6 DEF Informed, Gathered, Granted, Known, Target
<1> QED
  BY <1>2, <1>4, <1>5, <1>7, StepKeeps DEF RequestOK

(* A step to another stage needs what that stage relies on. *)
LEMMA GoKeeps ==
  ASSUME ReadingInv, UNCHANGED <<rows, reader>>, NEW q \in Requests, NEW at \in Stages, Go(q, at), request[q].at # "idle",
         Shaped([request[q] EXCEPT !.at = at]),
         ~request[q].moved /\ request[q].user = "reader" =>
            /\ Gathered([request[q] EXCEPT !.at = at])
            /\ request[q].at # "done"
            /\ at = "done" => request[q].got = None
  PROVE  RequestsOK'
<1> DEFINE r == request[q]
           n == [r EXCEPT !.at = at]
<1>1. r \in RequestRows /\ Shaped(r) /\ Informed(r) /\ request \in [Requests -> RequestRows]
  BY RequestIs
<1>2. n \in RequestRows
  BY <1>1 DEF RequestRows
<1>3. /\ n.at = at /\ n.asked = r.asked /\ n.kind = r.kind /\ n.user = r.user /\ n.slug = r.slug
      /\ n.post = r.post /\ n.vis = r.vis /\ n.got = r.got /\ n.ever = r.ever /\ n.moved = r.moved
  BY <1>1 DEF RequestRows
<1>4. request' = [request EXCEPT ![q] = n]
  BY <1>1 DEF Go, RequestRows
<1>5. Shaped(n) /\ (~r.moved /\ r.user = "reader" => Gathered(n))
  OBVIOUS
<1> HIDE DEF n
<1>6. Facts(n, post, reader) = Facts(r, post, reader)
  BY <1>3, FactsSame
<1>7. Informed(n)
  BY <1>1, <1>3, <1>5, <1>6 DEF Informed
<1> QED
  BY <1>2, <1>4, <1>5, <1>7, OneRequest DEF RequestOK, ReadingInv

(* What is true of a live article is known to a request that is about it.  *)
LEMMA NowKnown ==
  ASSUME ReadingInv, NEW q \in Requests, request[q].at \notin {"idle", "done"}, ~request[q].moved, request[q].user = "reader",
         request[q].kind # "search", NEW p \in Posts, Live(p), request[q].post \in {None, p}
  PROVE  /\ post[p].vis # "private" => Known(request[q], post[p].vis, p)
         /\ post[p].cites /\ request[q].kind = "media" => Known(request[q], "cited", p)
         /\ p \in reader.rights => Known(request[q], "bought", p)
         /\ reader.session = "valid" => Known(request[q], "session", p)
<1>1. Facts(request[q], post, reader) \subseteq request[q].ever
  BY RequestIs DEF Informed
<1> QED
  BY <1>1, FactsAre DEF Known, Live

(* A request begins with the facts that are true. *)
LEMMA BeginKeeps ==
  ASSUME ReadingInv, NEW q \in Requests, NEW kind \in Kinds, NEW user \in {"reader", "admin"},
         NEW s \in Slugs \cup {None}, NEW p \in Posts \cup {None}, Begin(q, kind, user, s, p)
  PROVE  ReadingInv'
<1> DEFINE r == [NoRequest EXCEPT !.kind = kind, !.at = "begun", !.user = user, !.slug = s, !.post = p]
           n == [r EXCEPT !.ever = Facts(r, post, reader)]
<1>1. request' = [request EXCEPT ![q] = n] /\ UNCHANGED World
  BY DEF Begin
<1>2. r \in RequestRows
  BY NoRequestOK DEF RequestRows, Stages, Articles
<1>3. /\ r.kind = kind /\ r.at = "begun" /\ r.user = user /\ r.slug = s /\ r.post = p
      /\ r.asked = None /\ r.got = None
  BY DEF NoRequest
<1>4. Facts(r, post, reader) \subseteq FactNames \X Posts
  BY FactsTyped DEF ReadingInv, RowsOK
<1> HIDE DEF r
<1>5. n \in RequestRows
  BY <1>2, <1>4 DEF RequestRows
<1>6. /\ n.kind = kind /\ n.at = "begun" /\ n.user = user /\ n.slug = s /\ n.post = p
      /\ n.asked = None /\ n.got = None /\ n.ever = Facts(r, post, reader)
  BY <1>2, <1>3 DEF RequestRows
<1> HIDE DEF n
<1>7. Facts(n, post, reader) = Facts(r, post, reader)
  BY <1>3, <1>6, FactsSame
<1>8. Shaped(n)
  BY <1>6 DEF Shaped, Begin
<1>9. Informed(n)
  BY <1>6, <1>7 DEF Informed, Gathered
<1> QED
  BY <1>1, <1>5, <1>8, <1>9, StepKeeps DEF RequestOK

(* The end of a request keeps the invariant. *)
LEMMA EndKeeps ==
  ASSUME ReadingInv, NEW q \in Requests, Fail(q) \/ Finish(q)
  PROVE  ReadingInv'
  BY RefusalKeeps DEF Fail, Finish

(* A step to another stage that leaves the index alone. *)
LEMMA GoOnly ==
  ASSUME ReadingInv, UNCHANGED World, RequestsOK'
  PROVE  ReadingInv'
  BY RowsStay, CacheStays DEF ReadingInv, World

(* The session was valid while the article that is asked about existed. *)
LEMMA AccountKeeps ==
  ASSUME ReadingInv, NEW q \in Requests, FindAccountBySession(q)
  PROVE  ReadingInv'
<1> DEFINE r == request[q]
           n == [r EXCEPT !.at = "account"]
<1>1. CASE reader.session # "valid"
  BY <1>1, RefusalKeeps DEF FindAccountBySession
<1>2. CASE reader.session = "valid"
  <2>1. Go(q, "account") /\ UNCHANGED World /\ UNCHANGED <<rows, reader>> /\ r.at = "check"
    BY <1>2 DEF FindAccountBySession, World
  <2>2. r \in RequestRows /\ Shaped(r) /\ Informed(r)
    BY RequestIs
  <2>3. /\ n.at = "account" /\ n.asked = r.asked /\ n.kind = r.kind /\ n.user = r.user /\ n.slug = r.slug
        /\ n.post = r.post /\ n.vis = r.vis /\ n.got = r.got /\ n.ever = r.ever /\ n.moved = r.moved
    BY <2>2 DEF RequestRows
  <2> HIDE DEF n
  <2>4. Shaped(n)
    BY <2>1, <2>2, <2>3 DEF Shaped
  <2>5. ASSUME ~r.moved, r.user = "reader"
        PROVE  Gathered(n)
    <3>1. Gathered(r)
      BY <2>1, <2>2, <2>5 DEF Informed
    <3>2. /\ Subject(r) \in Posts /\ post[Subject(r)].at # "absent" /\ Known(r, "paid", Subject(r))
          /\ r.asked \in Slugs => Subject(r) = Target(r)
          /\ r.asked \in Posts => r.kind = "slug"
          /\ r.kind = "media" => Known(r, "cited", r.post)
      BY <2>1, <3>1 DEF Gathered
    <3>3. r.kind \in {"media", "slug"} /\ (r.kind = "slug" => r.post = None)
      BY <2>1, <2>2 DEF Shaped, RequestRows, Kinds
    <3>4. r.post \in {None, Subject(r)}
      BY <3>2, <3>3 DEF Subject, Target
    <3>5. Live(Subject(r)) => Known(r, "session", Subject(r))
      BY <1>2, <2>1, <2>5, <3>2, <3>3, <3>4, NowKnown
    <3>6. Subject(n) = Subject(r) /\ Target(n) = Target(r) /\ \A f, p : Known(n, f, p) <=> Known(r, f, p)
      BY <2>3 DEF Subject, Target, Known
    <3> QED
      BY <2>3, <3>2, <3>5, <3>6 DEF Gathered
  <2>6. RequestsOK'
    <3>1. "account" \in Stages /\ r.at # "idle" /\ r.at # "done"
      BY <2>1 DEF Stages
    <3> QED
      BY <2>1, <2>4, <2>5, <3>1, GoKeeps DEF n
  <2> QED
    BY <2>1, <2>6, GoOnly
<1> QED
  BY <1>1, <1>2

(* The second lookup of the slug finds the article that was asked about,   *)
(* or nothing.                                                             *)
LEMMA FoundKeeps ==
  ASSUME ReadingInv, NEW q \in Requests, FindArticle(q)
  PROVE  ReadingInv'
<1> DEFINE r == request[q]
           p == Resolve(r.asked)
           n == [r EXCEPT !.at = "found", !.asked = p]
<1>1. /\ r \in RequestRows /\ Shaped(r) /\ Informed(r) /\ request \in [Requests -> RequestRows]
      /\ r.at = "account" /\ r.asked \in Slugs /\ UNCHANGED World /\ None \notin Posts /\ Posts \cap Slugs = {}
  BY RequestIs, ArticleReadingAssumption DEF FindArticle
<1>2. r.kind \in {"media", "slug"} /\ (r.kind = "slug" => r.post = None)
  BY <1>1 DEF Shaped, RequestRows, Kinds
<1>3. p # None => p \in Posts /\ Live(p) /\ p = holder[r.asked]
  BY <1>1, ResolvedIs DEF ReadingInv
<1>4. ASSUME p # None, ~r.moved, r.user = "reader"
      PROVE  /\ p = Target(r) /\ Known(r, "paid", p) /\ Known(r, "session", p)
             /\ r.kind = "media" => Known(r, "cited", p) /\ p = r.post
             /\ r.post \in {None, p}
  <2>1. Gathered(r)
    BY <1>1, <1>4 DEF Informed
  <2>2. Subject(r) = p
    BY <1>1, <1>3, <1>4 DEF Subject
  <2> QED
    BY <1>1, <1>2, <1>3, <1>4, <2>1, <2>2 DEF Gathered, Target
<1>5. \/ p # None /\ Open(p) /\ Allow(q)
      \/ p # None /\ request' = [request EXCEPT ![q].at = "found", ![q].asked = p]
      \/ Refuse(q)
  BY DEF FindArticle
<1> HIDE DEF p
<1>6. CASE p # None /\ Open(p) /\ Allow(q)
  <2>1. ASSUME ~r.moved, r.user = "reader"
        PROVE  Granted(r, Target(r))
    <3>1. Known(r, "public", p)
      <4>1. post[p].vis = "public"
        BY <1>6 DEF Open
      <4> QED
        BY <1>1, <1>2, <1>3, <1>4, <1>6, <2>1, <4>1, NowKnown
    <3> QED
      BY <1>3, <1>4, <1>6, <2>1, <3>1 DEF Granted
  <2> QED
    BY <1>1, <1>2, <1>6, <2>1, AllowKeeps
<1>7. CASE p # None /\ request' = [request EXCEPT ![q].at = "found", ![q].asked = p]
  <2>1. n \in RequestRows
    BY <1>1, <1>3, <1>7 DEF RequestRows, Stages, Articles
  <2>2. /\ n.at = "found" /\ n.asked = p /\ n.kind = r.kind /\ n.user = r.user /\ n.slug = r.slug
        /\ n.post = r.post /\ n.vis = r.vis /\ n.got = r.got /\ n.ever = r.ever /\ n.moved = r.moved
    BY <1>1 DEF RequestRows
  <2>3. request' = [request EXCEPT ![q] = n]
    BY <1>1, <1>7 DEF RequestRows
  <2> HIDE DEF n
  <2>4. Shaped(n)
    BY <1>1, <2>2 DEF Shaped
  <2>5. Facts(n, post, reader) = Facts(r, post, reader)
    BY <2>2, FactsSame
  <2>6. ASSUME ~r.moved, r.user = "reader"
        PROVE  Gathered(n)
    BY <1>3, <1>4, <1>7, <2>2, <2>6 DEF Gathered, Known, Target
  <2>7. Informed(n)
    BY <1>1, <2>2, <2>5, <2>6 DEF Informed
  <2> QED
    BY <1>1, <2>1, <2>3, <2>4, <2>7, StepKeeps DEF RequestOK
<1>8. CASE Refuse(q)
  BY <1>1, <1>8, RefusalKeeps
<1> QED
  BY <1>5, <1>6, <1>7, <1>8

(* A right that is found completes what is needed to read a paid article. *)
LEMMA EntitlementKeeps ==
  ASSUME ReadingInv, NEW q \in Requests, HasEntitlement(q)
  PROVE  ReadingInv'
<1> DEFINE r == request[q]
<1>1. r \in RequestRows /\ Shaped(r) /\ Informed(r) /\ r.at = "found" /\ UNCHANGED World
  BY RequestIs DEF HasEntitlement
<1>2. CASE r.asked \in reader.rights
  <2>1. Allow(q)
    BY <1>2 DEF HasEntitlement
  <2>2. r.kind \in {"media", "slug"} /\ (r.kind = "slug" => r.post = None)
    BY <1>1 DEF Shaped, RequestRows, Kinds
  <2>3. r.asked \in Posts /\ Live(r.asked)
    BY <1>2 DEF ReadingInv, RowsOK, RightsLive
  <2>4. ASSUME ~r.moved, r.user = "reader"
        PROVE  Granted(r, Target(r))
    <3>1. Gathered(r)
      BY <1>1, <2>4 DEF Informed
    <3>2. /\ r.asked = Target(r) /\ Known(r, "paid", r.asked) /\ Known(r, "session", r.asked)
          /\ r.kind = "media" => Known(r, "cited", r.post)
      BY <1>1, <3>1 DEF Gathered
    <3>3. r.post \in {None, r.asked}
      BY <2>2, <3>2 DEF Target
    <3>4. Known(r, "bought", r.asked)
      BY <1>1, <1>2, <2>2, <2>3, <2>4, <3>3, NowKnown
    <3> QED
      BY <2>3, <3>2, <3>4 DEF Granted, Target
  <2> QED
    BY <1>1, <2>1, <2>2, <2>4, AllowKeeps
<1>3. CASE r.asked \notin reader.rights
  BY <1>1, <1>3, RefusalKeeps DEF HasEntitlement
<1> QED
  BY <1>2, <1>3

(***************************************************************************)
(* Attachments                                                             *)
(***************************************************************************)

(* Reading the attachment keeps the invariant. *)
LEMMA AttachmentKeeps ==
  ASSUME ReadingInv, NEW q \in Requests, GetManagedAttachment(q)
  PROVE  ReadingInv'
<1> DEFINE r == request[q]
<1>1. PICK at \in {"staged", "committed"} : Go(q, at)
  BY DEF GetManagedAttachment
<1> DEFINE n == [r EXCEPT !.at = at]
<1>2. /\ r \in RequestRows /\ Shaped(r) /\ r.at = "begun" /\ r.kind = "media"
      /\ UNCHANGED World /\ UNCHANGED <<rows, reader>>
  BY RequestIs DEF GetManagedAttachment, At, World
<1>3. /\ n.at = at /\ n.asked = r.asked /\ n.kind = r.kind /\ n.user = r.user /\ n.slug = r.slug
      /\ n.post = r.post /\ n.vis = r.vis /\ n.got = r.got /\ n.ever = r.ever /\ n.moved = r.moved
  BY <1>2 DEF RequestRows
<1> HIDE DEF n
<1>4. Shaped(n) /\ Gathered(n)
  BY <1>2, <1>3 DEF Shaped, Gathered
<1>5. RequestsOK'
  BY <1>1, <1>2, <1>4, GoKeeps DEF n, Stages
<1> QED
  BY <1>2, <1>5, GoOnly

(* The row that is read names the article by a slug it holds. *)
LEMMA PostKeeps ==
  ASSUME ReadingInv, NEW q \in Requests, GetPostByID(q)
  PROVE  ReadingInv'
<1> DEFINE r == request[q]
           p == r.post
           n == [r EXCEPT !.asked = post[p].slug, !.vis = post[p].vis]
<1>1. /\ r \in RequestRows /\ Shaped(r) /\ Informed(r) /\ request \in [Requests -> RequestRows]
      /\ r.at \in {"staged", "committed"} /\ UNCHANGED World
  BY RequestIs DEF GetPostByID
<1>2. r.kind = "media" /\ p \in Posts
  BY <1>1 DEF Shaped
<1>3. CASE Live(p)
  <2>1. post[p] \in Rows /\ post[p].slug \in Slugs /\ holder[post[p].slug] = p
    BY <1>2, <1>3 DEF ReadingInv, RowsOK, NameHeld
  <2>2. n \in RequestRows
    BY <1>1, <2>1 DEF RequestRows, Rows
  <2>3. /\ n.at = r.at /\ n.asked = post[p].slug /\ n.kind = r.kind /\ n.user = r.user /\ n.slug = r.slug
        /\ n.post = r.post /\ n.vis = post[p].vis /\ n.got = r.got /\ n.ever = r.ever /\ n.moved = r.moved
    BY <1>1 DEF RequestRows
  <2>4. request' = [request EXCEPT ![q] = n]
    BY <1>1, <1>3 DEF GetPostByID, RequestRows
  <2> HIDE DEF n
  <2>5. Shaped(n)
    BY <1>1, <2>3 DEF Shaped
  <2>6. Facts(n, post, reader) = Facts(r, post, reader)
    BY <2>3, FactsSame
  <2>7. ASSUME ~r.moved, r.user = "reader"
        PROVE  post[p].vis # "private" => Known(r, post[p].vis, p)
    BY <1>1, <1>2, <1>3, <2>7, NowKnown
  <2>8. Informed(n)
    BY <1>1, <2>1, <2>3, <2>6, <2>7 DEF Informed, Gathered, Known
  <2> QED
    BY <1>1, <2>2, <2>4, <2>5, <2>8, StepKeeps DEF RequestOK
<1>4. CASE ~Live(p)
  BY <1>1, <1>4, RefusalKeeps DEF GetPostByID
<1> QED
  BY <1>3, <1>4

(* Only the administrator previews an upload. *)
LEMMA PreviewKeeps ==
  ASSUME ReadingInv, NEW q \in Requests, Preview(q)
  PROVE  ReadingInv'
<1>1. request[q].post \in Articles /\ request[q].at # "idle" /\ UNCHANGED World
  BY RequestIs DEF RequestRows, Preview
<1>2. CASE request[q].user = "admin" /\ Obtain(q, request[q].post)
  BY <1>1, <1>2, ObtainKeeps
<1>3. CASE Refuse(q)
  BY <1>1, <1>3, RefusalKeeps
<1> QED
  BY <1>2, <1>3 DEF Preview

(* What the old row allows was true during the request, and the reference  *)
(* is checked now.                                                         *)
LEMMA ServingKeeps ==
  ASSUME ReadingInv, NEW q \in Requests, serveManagedMedia(q)
  PROVE  ReadingInv'
<1> DEFINE r == request[q]
           n == [r EXCEPT !.at = "check"]
<1>1. /\ r \in RequestRows /\ Shaped(r) /\ Informed(r)
      /\ r.at = "committed" /\ r.asked # None /\ UNCHANGED World /\ UNCHANGED <<rows, reader>>
  BY RequestIs DEF serveManagedMedia, World
<1>2. r.kind = "media" /\ r.post \in Posts /\ r.user \in {"reader", "admin"} /\ Posts \cap Slugs = {}
  BY <1>1, ArticleReadingAssumption DEF Shaped, RequestRows
<1>3. \/ HasPostAttachmentReference(r.post) /\ (r.user = "admin" \/ r.vis = "public") /\ Allow(q)
      \/ HasPostAttachmentReference(r.post) /\ r.user # "admin" /\ r.vis = "paid" /\ Go(q, "check")
      \/ Refuse(q)
  BY DEF serveManagedMedia
<1>4. ASSUME ~r.moved, r.user = "reader"
      PROVE  /\ r.asked \in Slugs /\ holder[r.asked] = r.post
             /\ r.vis # "private" => Known(r, r.vis, r.post)
             /\ HasPostAttachmentReference(r.post) => Known(r, "cited", r.post)
  <2>1. Gathered(r)
    BY <1>1, <1>4 DEF Informed
  <2>2. HasPostAttachmentReference(r.post) => Known(r, "cited", r.post)
    BY <1>1, <1>2, <1>4, NowKnown DEF HasPostAttachmentReference
  <2> QED
    BY <1>1, <2>1, <2>2 DEF Gathered
<1>5. CASE HasPostAttachmentReference(r.post) /\ (r.user = "admin" \/ r.vis = "public") /\ Allow(q)
  <2>1. ASSUME ~r.moved, r.user = "reader"
        PROVE  Granted(r, Target(r))
    BY <1>2, <1>4, <1>5, <2>1 DEF Granted, Target
  <2> QED
    BY <1>1, <1>2, <1>5, <2>1, AllowKeeps
<1>6. CASE HasPostAttachmentReference(r.post) /\ r.user # "admin" /\ r.vis = "paid" /\ Go(q, "check")
  <2>1. /\ n.at = "check" /\ n.asked = r.asked /\ n.kind = r.kind /\ n.user = r.user /\ n.slug = r.slug
        /\ n.post = r.post /\ n.vis = r.vis /\ n.got = r.got /\ n.ever = r.ever /\ n.moved = r.moved
    BY <1>1 DEF RequestRows
  <2> HIDE DEF n
  <2>2. Shaped(n)
    BY <1>1, <1>2, <2>1 DEF Shaped
  <2>3. ASSUME ~r.moved, r.user = "reader"
        PROVE  Gathered(n)
    <3>1. Subject(n) = r.post /\ Target(n) = r.post /\ n.asked \notin Posts
      BY <1>2, <1>4, <2>1, <2>3 DEF Subject, Target
    <3>2. Known(n, "paid", r.post) /\ Known(n, "cited", r.post)
      BY <1>4, <1>6, <2>1, <2>3 DEF Known
    <3>3. post[r.post].at # "absent"
      BY <1>6 DEF HasPostAttachmentReference, Live
    <3> QED
      BY <1>2, <2>1, <3>1, <3>2, <3>3 DEF Gathered
  <2>4. RequestsOK'
    BY <1>1, <1>6, <2>2, <2>3, GoKeeps DEF n, Stages
  <2> QED
    BY <1>1, <2>4, GoOnly
<1>7. CASE Refuse(q)
  BY <1>1, <1>7, RefusalKeeps
<1> QED
  BY <1>3, <1>5, <1>6, <1>7

(* An attachment is opened after it was allowed. *)
LEMMA OpeningKeeps ==
  ASSUME ReadingInv, NEW q \in Requests, OpenObject(q)
  PROVE  ReadingInv'
<1> DEFINE r == request[q]
<1>1. /\ r \in RequestRows /\ Informed(r) /\ r.at = "allowed" /\ r.kind = "media"
      /\ UNCHANGED World /\ Obtain(q, r.post)
  BY RequestIs DEF OpenObject, At
<1>2. ASSUME ~r.moved, r.user = "reader"
      PROVE  Granted(r, r.post)
  BY <1>1, <1>2 DEF Informed, Gathered, Target
<1>3. r.post \in Articles
  BY <1>1 DEF RequestRows
<1> QED
  BY <1>1, <1>2, <1>3, ObtainKeeps

(***************************************************************************)
(* Articles, comments and views                                            *)
(***************************************************************************)

(* The slug that is asked for leads to its holder, about which the request *)
(* knows what is true.                                                     *)
LEMMA AskedFor ==
  ASSUME ReadingInv, NEW q \in Requests, request[q].kind = "slug", request[q].at \notin {"idle", "done", "resolved"},
         NEW p, p = Resolve(request[q].slug), p # None
  PROVE  /\ p \in Posts /\ Live(p) /\ p = Target(request[q]) /\ post[p].at # "absent"
         /\ post[p].slug \in Slugs /\ holder[post[p].slug] = p
         /\ request[q].user = "reader" /\ ~request[q].moved =>
               /\ post[p].vis # "private" => Known(request[q], post[p].vis, p)
               /\ p \in reader.rights => Known(request[q], "bought", p)
               /\ reader.session = "valid" => Known(request[q], "session", p)
<1> DEFINE r == request[q]
<1>1. r.slug \in Slugs /\ r.post = None
  BY RequestIs DEF Shaped
<1>2. p \in Posts /\ Live(p) /\ p = holder[r.slug] /\ post[p].at # "absent"
  BY <1>1, ResolvedIs DEF ReadingInv
<1>3. post[p].slug \in Slugs /\ holder[post[p].slug] = p
  BY <1>2 DEF ReadingInv, RowsOK, NameHeld
<1> QED
  BY <1>1, <1>2, <1>3, NowKnown DEF Target

(* The first lookup of a slug allows, asks about or refuses the article it *)
(* finds.                                                                  *)
LEMMA ReadableKeeps ==
  ASSUME ReadingInv, NEW q \in Requests, requireReadablePost(q) \/ article(q) \/ getPost(q)
  PROVE  ReadingInv'
<1> DEFINE r == request[q]
<1>1. PICK p : p = Resolve(r.slug)
  OBVIOUS
<1>2. /\ r \in RequestRows /\ Shaped(r) /\ Informed(r) /\ request \in [Requests -> RequestRows]
      /\ r.at = "begun" /\ r.kind = "slug" /\ UNCHANGED World /\ Posts \cap Slugs = {}
      /\ None \notin Posts
  BY RequestIs, ArticleReadingAssumption DEF requireReadablePost, article, getPost, At
<1>3. \/ p # None /\ Open(p) /\ (Allow(q) \/ Obtain(q, p))
      \/ p # None /\ post[p].vis = "paid" /\ \E x \in {p, post[p].slug} : Ask(q, x)
      \/ Refuse(q)
  BY <1>1 DEF requireReadablePost, article, getPost
<1>4. p # None =>
         /\ p \in Posts /\ Live(p) /\ p = Target(r) /\ post[p].at # "absent"
         /\ post[p].slug \in Slugs /\ holder[post[p].slug] = p
         /\ r.user = "reader" /\ ~r.moved /\ post[p].vis # "private" => Known(r, post[p].vis, p)
  BY <1>1, <1>2, AskedFor
<1>5. CASE p # None /\ Open(p) /\ (Allow(q) \/ Obtain(q, p))
  <2>1. ASSUME ~r.moved, r.user = "reader"
        PROVE  Granted(r, p)
    BY <1>2, <1>4, <1>5, <2>1 DEF Granted, Open
  <2>2. p \in Articles
    BY <1>4, <1>5 DEF Articles
  <2> QED
    BY <1>2, <1>4, <1>5, <2>1, <2>2, AllowKeeps, ObtainKeeps
<1>6. CASE p # None /\ post[p].vis = "paid" /\ \E x \in {p, post[p].slug} : Ask(q, x)
  <2>1. PICK x \in {p, post[p].slug} : Ask(q, x)
    BY <1>6
  <2> DEFINE n == [r EXCEPT !.at = "check", !.asked = x]
  <2>2. n \in RequestRows
    BY <1>2, <1>4, <1>6 DEF RequestRows, Stages, Articles
  <2>3. /\ n.at = "check" /\ n.asked = x /\ n.kind = r.kind /\ n.user = r.user /\ n.slug = r.slug
        /\ n.post = r.post /\ n.vis = r.vis /\ n.got = r.got /\ n.ever = r.ever /\ n.moved = r.moved
    BY <1>2 DEF RequestRows
  <2>4. request' = [request EXCEPT ![q] = n]
    BY <1>2, <2>1 DEF Ask, RequestRows
  <2> HIDE DEF n
  <2>5. Shaped(n)
    BY <1>2, <2>3 DEF Shaped
  <2>6. Facts(n, post, reader) = Facts(r, post, reader)
    BY <2>3, FactsSame
  <2>7. Subject(n) = p /\ Target(n) = p
    BY <1>2, <1>4, <1>6, <2>3 DEF Subject, Target
  <2>8. Informed(n)
    BY <1>2, <1>4, <1>6, <2>3, <2>6, <2>7 DEF Informed, Gathered, Known
  <2> QED
    BY <1>2, <2>2, <2>4, <2>5, <2>8, StepKeeps DEF RequestOK
<1>7. CASE Refuse(q)
  BY <1>2, <1>7, RefusalKeeps
<1> QED
  BY <1>3, <1>5, <1>6, <1>7

(* The second lookup of the slug finds the article that was allowed. *)
LEMMA ResolutionKeeps ==
  ASSUME ReadingInv, NEW q \in Requests, GetPostBySlug(q)
  PROVE  ReadingInv'
<1> DEFINE r == request[q]
<1>1. PICK p : p = Resolve(r.slug)
  OBVIOUS
<1> DEFINE n == [r EXCEPT !.at = "resolved", !.post = p]
<1>2. /\ r \in RequestRows /\ Shaped(r) /\ Informed(r) /\ request \in [Requests -> RequestRows]
      /\ r.at = "allowed" /\ r.kind = "slug" /\ UNCHANGED World
  BY RequestIs DEF GetPostBySlug, At
<1>3. CASE p = None
  BY <1>1, <1>2, <1>3, RefusalKeeps DEF GetPostBySlug
<1>4. CASE p # None
  <2>1. p \in Posts /\ p = Target(r) /\ r.post = None
    BY <1>1, <1>2, <1>4, AskedFor DEF Shaped
  <2>2. n \in RequestRows
    BY <1>2, <2>1 DEF RequestRows, Stages, Articles
  <2>3. /\ n.at = "resolved" /\ n.asked = r.asked /\ n.kind = r.kind /\ n.user = r.user /\ n.slug = r.slug
        /\ n.post = p /\ n.vis = r.vis /\ n.got = r.got /\ n.ever = r.ever /\ n.moved = r.moved
    BY <1>2 DEF RequestRows
  <2>4. request' = [request EXCEPT ![q] = n]
    BY <1>1, <1>2, <1>4 DEF GetPostBySlug, RequestRows
  <2> HIDE DEF n
  <2>5. Shaped(n)
    BY <1>2, <2>3 DEF Shaped
  <2>6. Facts(n, post, reader) \subseteq Facts(r, post, reader)
    BY <2>1, <2>3, FactsNarrow
  <2>7. ASSUME ~r.moved, r.user = "reader"
        PROVE  Granted(n, p)
    BY <1>2, <2>1, <2>3, <2>7 DEF Informed, Gathered, Granted, Known
  <2>8. Informed(n)
    BY <1>2, <2>3, <2>6, <2>7 DEF Informed, Gathered
  <2> QED
    BY <1>2, <2>2, <2>4, <2>5, <2>8, StepKeeps DEF RequestOK
<1> QED
  BY <1>3, <1>4

(* Comments and views go by the article that was allowed. *)
LEMMA AnswerKeeps ==
  ASSUME ReadingInv, NEW q \in Requests, ListComments(q) \/ CreateComment(q) \/ RecordView(q)
  PROVE  ReadingInv'
<1> DEFINE r == request[q]
<1>1. /\ r \in RequestRows /\ Informed(r) /\ r.at = "resolved" /\ UNCHANGED World
      /\ Obtain(q, r.post) \/ Refuse(q)
  BY RequestIs DEF ListComments, CreateComment, RecordView, At
<1>2. CASE Obtain(q, r.post)
  <2>1. ASSUME ~r.moved, r.user = "reader"
        PROVE  Granted(r, r.post)
    BY <1>1, <2>1 DEF Informed, Gathered
  <2>2. r.post \in Articles
    BY <1>1 DEF RequestRows
  <2> QED
    BY <1>1, <1>2, <2>1, <2>2, ObtainKeeps
<1>3. CASE Refuse(q)
  BY <1>1, <1>3, RefusalKeeps
<1> QED
  BY <1>1, <1>2, <1>3

(* The content is left in the answer for a reader with the right. *)
LEMMA UnlockKeeps ==
  ASSUME ReadingInv, NEW q \in Requests, unlock(q)
  PROVE  ReadingInv'
<1> DEFINE r == request[q]
           p == r.asked
<1>1. /\ r \in RequestRows /\ Shaped(r) /\ Informed(r) /\ r.at = "account" /\ p \in Posts /\ UNCHANGED World
      /\ Posts \cap Slugs = {}
  BY RequestIs, ArticleReadingAssumption DEF unlock
<1>2. CASE p \in reader.rights
  <2>1. Obtain(q, p) /\ p \in Articles /\ Live(p)
    BY <1>1, <1>2 DEF unlock, ReadingInv, RowsOK, RightsLive, Articles
  <2>2. ASSUME ~r.moved, r.user = "reader"
        PROVE  Granted(r, p)
    <3>1. Gathered(r)
      BY <1>1, <2>2 DEF Informed
    <3>2. Subject(r) = p
      BY <1>1 DEF Subject
    <3>3. r.kind = "slug" /\ Known(r, "paid", p) /\ Known(r, "session", p)
      BY <1>1, <2>1, <3>1, <3>2 DEF Gathered
    <3>4. r.post = None
      BY <1>1, <3>3 DEF Shaped
    <3>5. Known(r, "bought", p)
      BY <1>1, <1>2, <2>1, <2>2, <3>3, <3>4, NowKnown
    <3> QED
      BY <1>1, <3>3, <3>5 DEF Granted
  <2> QED
    BY <1>1, <2>1, <2>2, ObtainKeeps
<1>3. CASE p \notin reader.rights
  BY <1>1, <1>3, RefusalKeeps DEF unlock
<1> QED
  BY <1>2, <1>3

(***************************************************************************)
(* Search                                                                  *)
(***************************************************************************)

(* Searches rely on nothing. *)
LEMMA SearchGoes ==
  ASSUME ReadingInv, NEW q \in Requests, UNCHANGED <<rows, reader>>, request[q].kind = "search",
         NEW at \in {"building", "built", "done"}, Go(q, at), request[q].at \in {"begun", "building", "built"}
  PROVE  RequestsOK'
<1> DEFINE r == request[q]
           n == [r EXCEPT !.at = at]
<1>1. r \in RequestRows /\ Shaped(r)
  BY RequestIs
<1>2. /\ n.at = at /\ n.asked = r.asked /\ n.kind = r.kind /\ n.user = r.user /\ n.slug = r.slug
      /\ n.post = r.post /\ n.vis = r.vis /\ n.got = r.got /\ n.ever = r.ever /\ n.moved = r.moved
  BY <1>1 DEF RequestRows
<1> HIDE DEF n
<1>3. Shaped(n) /\ Gathered(n) /\ r.got = None
  BY <1>1, <1>2 DEF Shaped, Gathered
<1> QED
  BY <1>3, GoKeeps DEF n, Stages

(* Steps of a search keep the invariant. *)
LEMMA SearchKeeps ==
  ASSUME ReadingInv, NEW q \in Requests,
         \/ HitIndex(q) \/ GetOrBuild(q) \/ GetSearchDocuments(q) \/ StoreIndex(q) \/ BuildFails(q)
  PROVE  ReadingInv'
<1>1. CASE HitIndex(q)
  <2>1. RequestsOK' /\ UNCHANGED World
    BY <1>1, SearchGoes DEF HitIndex, At, World
  <2> QED
    BY <2>1, GoOnly
<1>2. CASE GetOrBuild(q) \/ GetSearchDocuments(q) \/ StoreIndex(q)
  <2>1. RequestsOK' /\ UNCHANGED <<rows, reader, saving, events>>
    BY <1>2, SearchGoes DEF GetOrBuild, GetSearchDocuments, StoreIndex, Build, At
  <2>2. cache' \in {[at |-> "locked", age |-> "fresh"], [at |-> "built", age |-> "fresh"], [cache EXCEPT !.at = "ready"]}
    BY <1>2 DEF GetOrBuild, GetSearchDocuments, StoreIndex, Build
  <2>3. /\ cache' \in [at : {"none", "locked", "built", "ready"}, age : {"fresh", "older", "behind"}]
        /\ cache'.age # "behind" /\ cache'.at # "none"
    BY <2>2 DEF ReadingInv, CacheOK, CacheSound
  <2>4. CacheOK'
    BY <2>1, <2>3 DEF ReadingInv, CacheOK, CacheSound
  <2> QED
    BY <2>1, <2>4, RowsStay DEF ReadingInv
<1>3. CASE BuildFails(q)
  <2>1. /\ Refuse(q) /\ cache' = NoIndex /\ UNCHANGED <<rows, reader, saving, events>>
    BY <1>3 DEF BuildFails
  <2>2. RequestsOK'
    BY <2>1, NoRequestOK, OneRequest DEF ReadingInv, Refuse
  <2>3. CacheOK'
    BY <2>1 DEF ReadingInv, CacheOK, CacheSound, NoIndex
  <2> QED
    BY <2>1, <2>2, <2>3, RowsStay DEF ReadingInv
<1> QED
  BY <1>1, <1>2, <1>3

(* No index older than a save outlives its answer: it is thrown away, and  *)
(* an index that is still being read holds the lock.                       *)
LEMMA InvalidateKeeps ==
  ASSUME ReadingInv, Invalidate
  PROVE  ReadingInv'
<1>1. /\ saving > 0 /\ saving' = saving - 1 /\ cache.at \in {"none", "ready"} /\ cache' = Invalidated
      /\ UNCHANGED <<rows, reader>> /\ request' = request /\ events' = events
  BY DEF Invalidate, Unlocked, rows
<1>2. saving' \in 0..MaxSaving
  BY <1>1, ArticleReadingAssumption DEF ReadingInv, CacheOK
<1>3. /\ cache' \in [at : {"none", "locked", "built", "ready"}, age : {"fresh", "older", "behind"}]
      /\ cache'.age # "behind" /\ (cache'.at = "none" => cache'.age = "fresh")
  BY <1>1 DEF ReadingInv, CacheOK, CacheSound, Invalidated, NoIndex
<1>4. CacheOK'
  BY <1>1, <1>2, <1>3 DEF ReadingInv, CacheOK, CacheSound
<1>5. RequestsOK'
  BY <1>1, RequestsStay DEF ReadingInv
<1> QED
  BY <1>1, <1>4, <1>5, RowsStay DEF ReadingInv

(* A restart leaves nothing behind. *)
LEMMA RestartKeeps ==
  ASSUME ReadingInv, Restart
  PROVE  ReadingInv'
<1>1. /\ UNCHANGED <<rows, reader>> /\ events' = events /\ cache' = NoIndex /\ saving' = 0
      /\ request' = [q \in Requests |-> NoRequest]
  BY DEF Restart
<1>2. CacheOK'
  BY <1>1, ArticleReadingAssumption DEF ReadingInv, CacheOK, CacheSound, NoIndex
<1>3. ASSUME NEW q \in Requests
      PROVE  RequestOK(request[q])'
  <2>1. PICK n : n = request'[q]
    OBVIOUS
  <2>2. n.at = "idle" /\ RequestOK(n)
    BY <1>1, <2>1, NoRequestOK
  <2>3. RequestOK(n)'
    BY <2>2 DEF RequestOK, Shaped, Informed
  <2> QED
    BY <2>1, <2>3 DEF RequestOK, Shaped, Informed, Gathered, Granted, Known, Target, Subject, Live, Facts
<1>4. RequestsOK'
  BY <1>1, <1>3, NoRequestOK DEF RequestsOK
<1> QED
  BY <1>1, <1>2, <1>4, RowsStay DEF ReadingInv

(***************************************************************************)
(* Theorems                                                                *)
(***************************************************************************)

(* The invariant holds in every initial state. *)
LEMMA Initially ==
  ASSUME ReadingInit
  PROVE  ReadingInv
<1>1. /\ None \notin Posts /\ None \notin Slugs /\ MaxEvents \in Nat /\ MaxSaving \in Nat
  BY ArticleReadingAssumption
<1>2. post \in [Posts -> Rows]
  <2>1. \A p \in Posts : post[p] \in {NoPost} \cup [at : {"live"}, slug : Slugs, vis : {"public", "paid"}, cites : {FALSE}]
    BY DEF ReadingInit
  <2>2. NoPost \in Rows
    BY DEF NoPost, Rows, Visibilities
  <2>3. [at : {"live"}, slug : Slugs, vis : {"public", "paid"}, cites : {FALSE}] \subseteq Rows
    BY DEF Rows, Visibilities
  <2> QED
    BY <2>1, <2>2, <2>3 DEF ReadingInit
<1>3. \A p \in Posts : Live(p) => post[p].slug \in Slugs
  <2>1. \A p \in Posts : post[p] \in {NoPost} \cup [at : {"live"}, slug : Slugs, vis : {"public", "paid"}, cites : {FALSE}]
    BY DEF ReadingInit
  <2>2. NoPost.at = "absent"
    BY DEF NoPost
  <2> QED
    BY <2>1, <2>2 DEF Live
<1>4. OneNamed
  BY DEF ReadingInit, OneNamed
<1>5. \A s \in Slugs : alias[s] = None /\ holder[s] = Resolve(s)
  BY DEF ReadingInit
<1>6. \A s \in Slugs : Resolve(s) = None \/ (Resolve(s) \in Posts /\ Live(Resolve(s)) /\ post[Resolve(s)].slug = s)
  <2> SUFFICES ASSUME NEW s \in Slugs
               PROVE  Resolve(s) = None \/ (Resolve(s) \in Posts /\ Live(Resolve(s)) /\ post[Resolve(s)].slug = s)
    OBVIOUS
  <2>1. CASE Named(s) # {}
    <3>1. Resolve(s) \in Named(s)
      BY <2>1 DEF Resolve
    <3> QED
      BY <3>1 DEF Named
  <2>2. CASE Named(s) = {}
    BY <1>5, <2>2 DEF Resolve
  <2> QED
    BY <2>1, <2>2
<1>7. ASSUME NEW p \in Posts, Live(p)
      PROVE  holder[post[p].slug] = p
  <2>1. PICK s : s = post[p].slug
    OBVIOUS
  <2>2. s \in Slugs /\ p \in Named(s)
    BY <1>3, <1>7, <2>1 DEF Named
  <2>3. Resolve(s) \in Named(s)
    BY <2>2 DEF Resolve
  <2>4. Resolve(s) = p
    BY <1>4, <1>7, <2>1, <2>3 DEF OneNamed, Named
  <2> QED
    BY <1>5, <2>1, <2>2, <2>4
<1>8. RowsOK
  <2>1. alias \in [Slugs -> Articles] /\ holder \in [Slugs -> Articles]
    BY <1>5, <1>6 DEF ReadingInit, Articles
  <2>2. reader \in [session : {"none", "valid", "ended"}, rights : SUBSET Posts] /\ reader.rights = {}
    BY DEF ReadingInit
  <2>3. NameHeld /\ AliasHeld /\ RightsLive
    BY <1>3, <1>5, <1>7, <2>2 DEF NameHeld, AliasHeld, RightsLive
  <2>4. HeldFound
    BY <1>1, <1>5, <1>6 DEF HeldFound, Live
  <2> QED
    BY <1>2, <1>4, <2>1, <2>2, <2>3, <2>4 DEF RowsOK
<1>9. CacheOK
  BY <1>1 DEF ReadingInit, CacheOK, CacheSound, NoIndex
<1>a. RequestsOK
  BY NoRequestOK DEF ReadingInit, RequestsOK
<1> QED
  BY <1>8, <1>9, <1>a DEF ReadingInv

(* Every step of the program, and a stutter, keep the invariant.           *)
LEMMA StepsKeep ==
  ASSUME ReadingInv, [ReadingNext]_readingVars
  PROVE  ReadingInv'
<1>1. CASE UNCHANGED readingVars
  <2>1. UNCHANGED World /\ request' = request
    BY <1>1 DEF readingVars, World
  <2>2. RequestsOK'
    BY <2>1, RequestsStay DEF ReadingInv, World
  <2> QED
    BY <2>1, <2>2, GoOnly
<1>2. ASSUME NEW p \in Posts,
             \/ \E vis \in Visibilities, cites \in BOOLEAN :
                   \/ \E s \in Slugs : CreatePost(p, s, vis, cites)
                   \/ \E s \in (Slugs \ {post[p].slug}) \cup {None} : UpdatePost(p, s, vis, cites)
             \/ DeletePost(p) \/ Grant(p)
      PROVE  ReadingInv'
  BY <1>2, SavesKeep, DeletionKeeps, ReaderKeeps
<1>3. CASE Invalidate \/ Restart \/ EndSession
  BY <1>3, InvalidateKeeps, RestartKeeps, ReaderKeeps
<1>4. ASSUME NEW q \in Requests,
             \/ \E kind \in Kinds, user \in {"reader", "admin"},
                   s \in Slugs \cup {None}, p \in Posts \cup {None} : Begin(q, kind, user, s, p)
             \/ FindAccountBySession(q) \/ FindArticle(q) \/ HasEntitlement(q)
             \/ GetManagedAttachment(q) \/ GetPostByID(q) \/ Preview(q)
             \/ serveManagedMedia(q) \/ OpenObject(q)
             \/ Fail(q) \/ Finish(q)
      PROVE  ReadingInv'
  BY <1>4, BeginKeeps, AccountKeeps, FoundKeeps, EntitlementKeeps, AttachmentKeeps, PostKeeps, PreviewKeeps,
     ServingKeeps, OpeningKeeps, EndKeeps
<1>5. ASSUME NEW q \in Requests,
             \/ requireReadablePost(q) \/ GetPostBySlug(q)
             \/ ListComments(q) \/ CreateComment(q) \/ RecordView(q)
             \/ getPost(q) \/ article(q) \/ unlock(q)
             \/ HitIndex(q) \/ GetOrBuild(q) \/ GetSearchDocuments(q) \/ StoreIndex(q) \/ BuildFails(q)
      PROVE  ReadingInv'
  BY <1>5, ReadableKeeps, ResolutionKeeps, AnswerKeeps, UnlockKeeps, SearchKeeps
<1> QED
  BY <1>1, <1>2, <1>3, <1>4, <1>5 DEF ReadingNext

(* The invariant holds in every reachable state. *)
THEOREM ReadingInvariance == ReadingSpec => []ReadingInv
BY Initially, StepsKeep, PTL DEF ReadingSpec

(* Every variable stays in its type. *)
THEOREM ReadingTypes == ReadingSpec => []ReadingTypeOK
BY ReadingInvariance, TypesFollow, PTL

(* A link leads to the last holder of its slug while it exists, and then   *)
(* nowhere.                                                                *)
THEOREM LinksLive == ReadingSpec => []OldLinksLive
<1>1. ReadingInv => OldLinksLive
  BY LinksFollow DEF ReadingInv
<1> QED
  BY <1>1, ReadingInvariance, PTL

(* The index that searches share lacks no save that was answered. *)
THEOREM SearchIsCurrent == ReadingSpec => []IndexHasAnsweredSaves
<1>1. ReadingInv => IndexHasAnsweredSaves
  BY DEF ReadingInv, CacheOK, CacheSound, IndexHasAnsweredSaves
<1> QED
  BY <1>1, ReadingInvariance, PTL

(* What a visitor obtains was that visitor's to read during the request.   *)
THEOREM ShownIsReadable == ReadingSpec => []ShownWasReadable
<1>1. ReadingInv => ShownWasReadable
  <2> SUFFICES ASSUME ReadingInv, NEW q \in Requests, request[q].at = "done", request[q].got # None, ~request[q].moved
               PROVE  /\ \/ request[q].user = "admin"
                         \/ Was(q, "public")
                         \/ Was(q, "paid") /\ Was(q, "bought") /\ Was(q, "session")
                      /\ request[q].kind = "media" /\ request[q].user # "admin" => Was(q, "cited")
    BY DEF ShownWasReadable
  <2>1. request[q] \in RequestRows /\ Informed(request[q])
    BY RequestIs
  <2>2. CASE request[q].user = "admin"
    BY <2>2
  <2>3. CASE request[q].user = "reader"
    BY <2>1, <2>3 DEF Informed, Granted, Known, Was
  <2> QED
    BY <2>1, <2>2, <2>3 DEF RequestRows
<1> QED
  BY <1>1, ReadingInvariance, PTL
==============================================================================
