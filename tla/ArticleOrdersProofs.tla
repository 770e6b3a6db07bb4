------------------------ MODULE ArticleOrdersProofs ------------------------
(* Proofs about ArticleOrders for any readers, articles, orders and prices. *)
EXTENDS ArticleOrders, TLAPS

(***************************************************************************)
(* What each step does to the fields of requests and orders                *)
(***************************************************************************)

Ats == {"idle", "started", "locked", "finding", "inserting", "not paid",
        "entitled", "existing", "created", "conflict", "failed"}

Moves(r, at) ==
    /\ req' \in [Requests -> RequestStates]
    /\ req'[r].at = at /\ req'[r].price = req[r].price
    /\ req'[r].reader = req[r].reader /\ req'[r].article = req[r].article
    /\ \A s \in Requests \ {r} : req'[s] = req[s]

(* Goto moves one request and nothing else. *)
LEMMA GotoEffect ==
  ASSUME req \in [Requests -> RequestStates], NEW r \in Requests, NEW at \in Ats, Goto(r, at)
  PROVE  Moves(r, at)
<1>1. req[r] \in RequestStates
  OBVIOUS
<1>2. [req[r] EXCEPT !.at = at] \in RequestStates
  BY <1>1 DEF RequestStates, Ats
<1>3. req' = [req EXCEPT ![r] = [req[r] EXCEPT !.at = at]]
  BY DEF Goto
<1>4. req' \in [Requests -> RequestStates]
  BY <1>2, <1>3
<1>5. /\ [req[r] EXCEPT !.at = at].at = at
      /\ [req[r] EXCEPT !.at = at].reader = req[r].reader
      /\ [req[r] EXCEPT !.at = at].article = req[r].article
      /\ [req[r] EXCEPT !.at = at].price = req[r].price
  BY <1>1 DEF RequestStates
<1>6. req'[r] = [req[r] EXCEPT !.at = at] /\ \A s \in Requests \ {r} : req'[s] = req[s]
  BY <1>3
<1> QED
  BY <1>4, <1>5, <1>6 DEF Moves

(* A request starts with its reader and article. *)
LEMMA StartEffect ==
  ASSUME req \in [Requests -> RequestStates], NEW r \in Requests, NEW x \in Readers, NEW a \in Articles,
         Start(r, x, a)
  PROVE  /\ req' \in [Requests -> RequestStates]
         /\ req'[r].at = "started" /\ req'[r].reader = x /\ req'[r].article = a
         /\ \A s \in Requests \ {r} : req'[s] = req[s]
<1>1. req' = [req EXCEPT ![r] = [at |-> "started", reader |-> x, article |-> a, price |-> 0]]
  BY DEF Start
<1>2. 0 \in 0..MaxPrice
  BY ArticleOrdersAssumption
<1>3. [at |-> "started", reader |-> x, article |-> a, price |-> 0] \in RequestStates
  BY <1>2 DEF RequestStates
<1> QED
  BY <1>1, <1>3

(* A request that has its locks has read the price. *)
LEMMA BeginEffect ==
  ASSUME req \in [Requests -> RequestStates], post \in [Articles -> Posts \cup {Deleted}],
         NEW r \in Requests, req[r].article \in Articles, Begin(r)
  PROVE  /\ req' \in [Requests -> RequestStates]
         /\ req'[r].at = "locked" /\ req'[r].reader = req[r].reader /\ req'[r].article = req[r].article
         /\ req'[r].price = post[req[r].article].price
         /\ \A s \in Requests \ {r} : req'[s] = req[s]
<1> DEFINE price == post[req[r].article].price
<1>1. price \in 0..MaxPrice
  BY ArticleOrdersAssumption DEF Posts, Deleted
<1>2. req' = [req EXCEPT ![r] = [req[r] EXCEPT !.at = "locked", !.price = price]]
  BY DEF Begin
<1>3. req[r] \in RequestStates
  OBVIOUS
<1> HIDE DEF price
<1>4. [req[r] EXCEPT !.at = "locked", !.price = price] \in RequestStates
  BY <1>1, <1>3 DEF RequestStates
<1>5. /\ [req[r] EXCEPT !.at = "locked", !.price = price].at = "locked"
      /\ [req[r] EXCEPT !.at = "locked", !.price = price].price = price
      /\ [req[r] EXCEPT !.at = "locked", !.price = price].reader = req[r].reader
      /\ [req[r] EXCEPT !.at = "locked", !.price = price].article = req[r].article
  BY <1>3 DEF RequestStates
<1>6. req' \in [Requests -> RequestStates] /\ \A s \in Requests \ {r} : req'[s] = req[s]
  BY <1>2, <1>4
<1>7. req'[r] = [req[r] EXCEPT !.at = "locked", !.price = price]
  BY <1>2
<1> QED
  BY <1>5, <1>6, <1>7 DEF price

(* An insertion adds one pending order of an article its request holds. *)
LEMMA InsertEffect ==
  ASSUME TypeOK, PostHeld, NEW r \in Requests, NEW o \in Orders, Insert(r, o)
  PROVE  /\ r \in Locked /\ req[r].at # "idle" /\ Moves(r, "created")
         /\ UNCHANGED <<post, entitled, audit>>
         /\ order' \in [Orders -> OrderRows]
         /\ order[o].status = "none" /\ order'[o].status = "pending" /\ order'[o].price = req[r].price
         /\ order'[o].reader = req[r].reader /\ order'[o].article = req[r].article
         /\ req[r].reader \in Readers /\ req[r].article \in Articles /\ req[r].price > 0
         /\ post[req[r].article].vis = "paid" /\ post[req[r].article].price = req[r].price
         /\ \A q \in Orders \ {o} : order'[q] = order[q]
<1>1. order' = [order EXCEPT ![o] = [status |-> "pending", reader |-> req[r].reader,
                                     article |-> req[r].article, price |-> req[r].price]]
  BY DEF Insert
<1>2. r \in Locked
  BY DEF Insert, Locked
<1>3. req[r].price \in 0..MaxPrice
  BY DEF TypeOK, RequestStates
<1>4. [status |-> "pending", reader |-> req[r].reader, article |-> req[r].article,
       price |-> req[r].price] \in OrderRows
  BY <1>2, <1>3 DEF OrderRows, Statuses, PostHeld
<1>5. order[o].status = "none"
  BY DEF Insert, NoOrder
<1>6. Moves(r, "created")
  BY GotoEffect DEF Insert, Ats, TypeOK
<1>7. order' \in [Orders -> OrderRows]
  BY <1>1, <1>4 DEF TypeOK
<1>8. /\ order'[o] = [status |-> "pending", reader |-> req[r].reader, article |-> req[r].article,
                       price |-> req[r].price]
      /\ \A q \in Orders \ {o} : order'[q] = order[q]
  BY <1>1 DEF TypeOK
<1> QED
  BY <1>2, <1>5, <1>6, <1>7, <1>8 DEF PostHeld, Insert

(* A status change changes one status. *)
LEMMA UpdateEffect ==
  ASSUME order \in [Orders -> OrderRows], NEW o \in Orders, NEW to \in Statuses, UpdateOrderStatus(o, to)
  PROVE  /\ order' \in [Orders -> OrderRows]
         /\ order'[o].status = to /\ order'[o].price = order[o].price
         /\ order'[o].reader = order[o].reader /\ order'[o].article = order[o].article
         /\ \A q \in Orders \ {o} : order'[q] = order[q]
<1>1. order' = [order EXCEPT ![o] = [order[o] EXCEPT !.status = to]]
  BY DEF UpdateOrderStatus
<1>2. order[o] \in OrderRows
  OBVIOUS
<1>3. [order[o] EXCEPT !.status = to] \in OrderRows
  BY <1>2 DEF OrderRows
<1>4. /\ [order[o] EXCEPT !.status = to].status = to
      /\ [order[o] EXCEPT !.status = to].reader = order[o].reader
      /\ [order[o] EXCEPT !.status = to].article = order[o].article
      /\ [order[o] EXCEPT !.status = to].price = order[o].price
  BY <1>2 DEF OrderRows
<1> QED
  BY <1>1, <1>3, <1>4

(* The steps that only move a request on: to what, and on what grounds. *)
Quiet(r) == Refuse(r) \/ CheckEntitled(r) \/ FindPending(r) \/ InsertFails(r) \/ Fail(r)

(* A quiet step of a purchase changes only how far that purchase is. *)
LEMMA QuietEffect ==
  ASSUME TypeOK, NEW r \in Requests, Quiet(r)
  PROVE  /\ UNCHANGED <<post, order, entitled, audit>>
         /\ Moves(r, req'[r].at)
         /\ req[r].at # "idle" /\ req'[r].at # "idle"
         /\ req'[r].at \notin {"started", "locked"}
         /\ req'[r].at \in {"finding", "inserting"} => r \in Locked
         /\ req'[r].at = "inserting" => Pending(req[r].reader, req[r].article) = {}
         /\ req'[r].at = "conflict" =>
              req[r].at = "inserting" /\ Pending(req[r].reader, req[r].article) # {}
<1> USE DEF TypeOK
<1>1. ASSUME NEW at \in Ats, Goto(r, at) PROVE Moves(r, at) /\ req'[r].at = at
  BY <1>1, GotoEffect DEF Moves
<1>2. CASE Refuse(r)
  <2>1. Moves(r, "not paid") /\ req'[r].at = "not paid"
    BY <1>1, <1>2 DEF Refuse, Ats
  <2> QED
    BY <1>2, <2>1 DEF Refuse
<1>3. CASE CheckEntitled(r)
  <2>1. \/ Moves(r, "entitled") /\ req'[r].at = "entitled"
        \/ Moves(r, "finding") /\ req'[r].at = "finding"
    BY <1>1, <1>3 DEF CheckEntitled, Ats
  <2> QED
    BY <1>3, <2>1 DEF CheckEntitled, Locked
<1>4. CASE FindPending(r)
  <2>1. \/ Moves(r, "existing") /\ req'[r].at = "existing"
        \/ /\ Moves(r, "inserting") /\ req'[r].at = "inserting"
           /\ Pending(req[r].reader, req[r].article) = {}
    BY <1>1, <1>4 DEF FindPending, Ats
  <2> QED
    BY <1>4, <2>1 DEF FindPending, Locked
<1>5. CASE InsertFails(r)
  <2>1. Moves(r, "conflict") /\ req'[r].at = "conflict"
    BY <1>1, <1>5 DEF InsertFails, Ats
  <2> QED
    BY <1>5, <2>1 DEF InsertFails, IndexAllows
<1>6. CASE Fail(r)
  <2>1. Moves(r, "failed") /\ req'[r].at = "failed"
    BY <1>1, <1>6 DEF Fail, Ats
  <2> QED
    BY <1>6, <2>1 DEF Fail
<1> QED
  BY <1>2, <1>3, <1>4, <1>5, <1>6 DEF Quiet

(***************************************************************************)
(* Each part of IInv is preserved                                          *)
(***************************************************************************)

(* TypeOK, in two parts. *)
Types ==
    /\ post \in [Articles -> Posts \cup {Deleted}]
    /\ order \in [Orders -> OrderRows]
    /\ entitled \in [Readers -> SUBSET Articles]
    /\ audit \subseteq [order : Orders, from : Statuses, to : Statuses]
    /\ req \in [Requests -> RequestStates]

RowsReal == \A o \in Orders : order[o] = NoOrder \/ Ordered(o)

(* What was pending or reopened stays so while orders and audit do. *)
LEMMA Untouched ==
  ASSUME UNCHANGED <<order, audit>>, NEW x, NEW a
  PROVE  (Pending(x, a)' = Pending(x, a)) /\ (Reopened(x, a)' <=> Reopened(x, a))
  BY DEF Pending, Reopened

(* Inserting an order leaves the pending orders of everyone else alone. *)
LEMMA InsertPending ==
  ASSUME TypeOK, PostHeld, NEW r \in Requests, NEW o \in Orders, Insert(r, o), NEW x, NEW a,
         Pending(x, a) = {}, ~(x = req[r].reader /\ a = req[r].article)
  PROVE  Pending(x, a)' = {}
  BY InsertEffect DEF Pending

(* Inserting an order forgets no order that was reopened. *)
LEMMA InsertReopened ==
  ASSUME TypeOK, PostHeld, NEW r \in Requests, NEW o \in Orders, Insert(r, o),
         NEW x \in Readers, NEW a, Reopened(x, a)
  PROVE  Reopened(x, a)'
<1>1. PICK q \in Orders : /\ [order |-> q, from |-> "canceled", to |-> "pending"] \in audit
                          /\ order[q].reader = x /\ order[q].article = a
  BY DEF Reopened
<1>2. q # o
  BY <1>1, ArticleOrdersAssumption DEF Insert, NoOrder
<1> QED
  BY <1>1, <1>2, InsertEffect DEF Reopened, Insert

(* A status change forgets no order that was reopened. *)
LEMMA UpdateReopened ==
  ASSUME TypeOK, NEW o \in Orders, NEW to \in Statuses, UpdateOrderStatus(o, to), NEW x, NEW a, Reopened(x, a)
  PROVE  Reopened(x, a)'
<1>1. audit \subseteq audit' /\ \A q \in Orders : order'[q].reader = order[q].reader /\ order'[q].article = order[q].article
  BY UpdateEffect DEF UpdateOrderStatus, TypeOK
<1> QED
  BY <1>1 DEF Reopened

(* A status change adds a pending order only by reopening a canceled one. *)
LEMMA UpdatePending ==
  ASSUME TypeOK, NEW o \in Orders, NEW to \in Statuses, UpdateOrderStatus(o, to), NEW x, NEW a, Pending(x, a) = {}
  PROVE  Pending(x, a)' = {} \/ Reopened(x, a)'
<1>1. /\ order'[o].status = to /\ order'[o].reader = order[o].reader /\ order'[o].article = order[o].article
      /\ \A q \in Orders \ {o} : order'[q] = order[q]
  BY UpdateEffect DEF TypeOK
<1>2. CASE to = "pending" /\ order[o].reader = x /\ order[o].article = a
  <2>1. order[o].status = "canceled"
    BY <1>2 DEF Pending, UpdateOrderStatus, Allowed, TypeOK, Ordered, Statuses
  <2>2. [order |-> o, from |-> "canceled", to |-> "pending"] \in audit'
    BY <1>2, <2>1 DEF UpdateOrderStatus
  <2> QED
    BY <1>1, <1>2, <2>2 DEF Reopened
<1>3. CASE ~(to = "pending" /\ order[o].reader = x /\ order[o].article = a)
  BY <1>1, <1>3 DEF Pending
<1> QED
  BY <1>2, <1>3

(* No right and no completed order changes. *)
LEMMA SameRights ==
  ASSUME EntitledIffCompleted, entitled' = entitled,
         \A o \in Orders : \/ order'[o] = order[o]
                           \/ order[o].status # "completed" /\ order'[o].status # "completed"
  PROVE  EntitledIffCompleted'
  BY DEF EntitledIffCompleted

(* A completed order keeps its status, and a new one grants its right. *)
LEMMA UpdateKeepsRights ==
  ASSUME TypeOK, EntitledIffCompleted, NEW o \in Orders, NEW to \in Statuses, UpdateOrderStatus(o, to)
  PROVE  EntitledIffCompleted'
<1> DEFINE x == order[o].reader
           a == order[o].article
<1>1. /\ order'[o].status = to /\ order'[o].reader = x /\ order'[o].article = a
      /\ \A q \in Orders \ {o} : order'[q] = order[q]
  BY UpdateEffect DEF TypeOK
<1>2. order[o].status = "completed" => to = "completed"
  BY DEF UpdateOrderStatus, Allowed
<1>3. x \in Readers /\ a \in Articles
  BY DEF TypeOK, Ordered, UpdateOrderStatus
<1>4. CASE to = "completed"
  <2>1. entitled' = [entitled EXCEPT ![x] = @ \cup {a}]
    BY <1>4 DEF UpdateOrderStatus, Granted
  <2>2. \A y \in Readers, b \in Articles : b \in entitled'[y] <=> b \in entitled[y] \/ (y = x /\ b = a)
    BY <1>3, <2>1 DEF TypeOK
  <2> QED
    BY <1>1, <1>3, <1>4, <2>2 DEF EntitledIffCompleted
<1>5. CASE to # "completed"
  <2>1. entitled' = entitled
    BY <1>5, <1>3 DEF UpdateOrderStatus, Granted, TypeOK
  <2> QED
    BY <1>1, <1>2, <1>5, <2>1, SameRights
<1> QED
  BY <1>4, <1>5

(* An article that was never ordered takes no right with it. *)
LEMMA DeleteKeepsRights ==
  ASSUME TypeOK, EntitledIffCompleted, NEW a \in Articles, DeletePost(a)
  PROVE  EntitledIffCompleted'
<1>1. \A x \in Readers : a \notin entitled[x]
  BY DEF DeletePost, Unordered, EntitledIffCompleted
<1>2. \A x \in Readers, b \in Articles : b \in entitled'[x] <=> b \in entitled[x]
  BY <1>1 DEF DeletePost
<1>3. order' = order
  BY DEF DeletePost
<1> QED
  BY <1>2, <1>3 DEF EntitledIffCompleted

(* Every operation keeps every variable in its type. *)
LEMMA TypeStep == ASSUME IInv, [Next]_vars PROVE Types'
<1> USE ArticleOrdersAssumption DEF IInv, TypeOK, Types
<1>1. ASSUME NEW r \in Requests, NEW x \in Readers, NEW a \in Articles, Start(r, x, a) PROVE Types'
  BY <1>1, StartEffect DEF Start
<1>2. ASSUME NEW r \in Requests, Begin(r) PROVE Types'
  BY <1>2, BeginEffect DEF Begin, StartedForSomething
<1>3. ASSUME NEW r \in Requests, Quiet(r) PROVE Types'
  BY <1>3, QuietEffect DEF Moves
<1>4. ASSUME NEW r \in Requests, NEW o \in Orders, Insert(r, o) PROVE Types'
  BY <1>4, InsertEffect DEF Moves
<1>5. ASSUME NEW o \in Orders, NEW to \in Statuses, UpdateOrderStatus(o, to) PROVE Types'
  <2>1. order[o].reader \in Readers /\ order[o].article \in Articles /\ order[o].status \in Statuses
    BY <1>5 DEF UpdateOrderStatus, Ordered
  <2>2. Granted(o, to) \subseteq Articles
    BY <2>1 DEF Granted
  <2>3. entitled' \in [Readers -> SUBSET Articles]
    BY <1>5, <2>1, <2>2 DEF UpdateOrderStatus
  <2>4. audit' \subseteq [order : Orders, from : Statuses, to : Statuses]
    BY <1>5, <2>1 DEF UpdateOrderStatus
  <2> QED
    BY <1>5, <2>3, <2>4, UpdateEffect DEF UpdateOrderStatus
<1>6. ASSUME NEW a \in Articles, DeletePost(a) PROVE Types'
  BY <1>6 DEF DeletePost, Deleted
<1>7. ASSUME NEW a \in Articles, NEW p \in Posts, EditPost(a, p) PROVE Types'
  BY <1>7 DEF EditPost
<1>8. CASE UNCHANGED vars
  BY <1>8 DEF vars
<1> HIDE DEF IInv, TypeOK, Types
<1> QED
  BY <1>1, <1>2, <1>3, <1>4, <1>5, <1>6, <1>7, <1>8 DEF Next, Quiet

(* Rows stay rows: an inserted order is of an article its request holds. *)
LEMMA RowsStep == ASSUME IInv, [Next]_vars PROVE RowsReal'
<1> USE ArticleOrdersAssumption DEF IInv, TypeOK, RowsReal, Ordered, Statuses
<1>1. ASSUME NEW r \in Requests, NEW x \in Readers, NEW a \in Articles, Start(r, x, a) PROVE RowsReal'
  BY <1>1, StartEffect DEF Start
<1>2. ASSUME NEW r \in Requests, Begin(r) PROVE RowsReal'
  BY <1>2, BeginEffect DEF Begin, StartedForSomething
<1>3. ASSUME NEW r \in Requests, Quiet(r) PROVE RowsReal'
  BY <1>3, QuietEffect DEF Moves
<1>4. ASSUME NEW r \in Requests, NEW o \in Orders, Insert(r, o) PROVE RowsReal'
  <2>1. Deleted.vis # "paid"
    BY DEF Deleted
  <2>2. post'[req[r].article] # Deleted
    BY <1>4, <2>1, InsertEffect
  <2> QED
    BY <1>4, <2>2, InsertEffect
<1>5. ASSUME NEW o \in Orders, NEW to \in Statuses, UpdateOrderStatus(o, to) PROVE RowsReal'
  BY <1>5, UpdateEffect DEF UpdateOrderStatus, NoOrder
<1>6. ASSUME NEW a \in Articles, DeletePost(a) PROVE RowsReal'
  BY <1>6 DEF DeletePost, Unordered
<1>7. ASSUME NEW a \in Articles, NEW p \in Posts, EditPost(a, p) PROVE RowsReal'
  BY <1>7 DEF EditPost, Posts, Deleted
<1>8. CASE UNCHANGED vars
  BY <1>8 DEF vars
<1> HIDE DEF IInv, TypeOK, RowsReal, Ordered, Statuses
<1> QED
  BY <1>1, <1>2, <1>3, <1>4, <1>5, <1>6, <1>7, <1>8 DEF Next, Quiet

(* No step makes a second pending order. *)
LEMMA PendingStep == ASSUME IInv, [Next]_vars PROVE OnePending'
<1> USE ArticleOrdersAssumption DEF IInv, TypeOK, OnePending, Pending
<1>1. ASSUME NEW r \in Requests, NEW x \in Readers, NEW a \in Articles, Start(r, x, a) PROVE OnePending'
  BY <1>1, StartEffect DEF Start
<1>2. ASSUME NEW r \in Requests, Begin(r) PROVE OnePending'
  BY <1>2, BeginEffect DEF Begin, StartedForSomething
<1>3. ASSUME NEW r \in Requests, Quiet(r) PROVE OnePending'
  BY <1>3, QuietEffect DEF Moves
<1>4. ASSUME NEW r \in Requests, NEW o \in Orders, Insert(r, o) PROVE OnePending'
  BY <1>4, InsertEffect DEF Moves, Insert, IndexAllows
<1>5. ASSUME NEW o \in Orders, NEW to \in Statuses, UpdateOrderStatus(o, to) PROVE OnePending'
  BY <1>5, UpdateEffect DEF UpdateOrderStatus, Statuses
<1>6. ASSUME NEW a \in Articles, DeletePost(a) PROVE OnePending'
  BY <1>6 DEF DeletePost
<1>7. ASSUME NEW a \in Articles, NEW p \in Posts, EditPost(a, p) PROVE OnePending'
  BY <1>7 DEF EditPost
<1>8. CASE UNCHANGED vars
  BY <1>8 DEF vars
<1> HIDE DEF IInv, TypeOK, OnePending, Pending
<1> QED
  BY <1>1, <1>2, <1>3, <1>4, <1>5, <1>6, <1>7, <1>8 DEF Next, Quiet

(* Completion grants the right, and neither is ever taken back. *)
LEMMA RightsStep == ASSUME IInv, [Next]_vars PROVE EntitledIffCompleted'
<1> USE ArticleOrdersAssumption DEF IInv, TypeOK
<1>1. ASSUME NEW r \in Requests, NEW x \in Readers, NEW a \in Articles, Start(r, x, a) PROVE EntitledIffCompleted'
  BY <1>1, SameRights DEF Start
<1>2. ASSUME NEW r \in Requests, Begin(r) PROVE EntitledIffCompleted'
  BY <1>2, SameRights DEF Begin
<1>3. ASSUME NEW r \in Requests, Quiet(r) PROVE EntitledIffCompleted'
  BY <1>3, QuietEffect, SameRights
<1>4. ASSUME NEW r \in Requests, NEW o \in Orders, Insert(r, o) PROVE EntitledIffCompleted'
  BY <1>4, InsertEffect, SameRights DEF Insert
<1>5. ASSUME NEW o \in Orders, NEW to \in Statuses, UpdateOrderStatus(o, to) PROVE EntitledIffCompleted'
  BY <1>5, UpdateEffect, UpdateKeepsRights DEF UpdateOrderStatus
<1>6. ASSUME NEW a \in Articles, DeletePost(a) PROVE EntitledIffCompleted'
  BY <1>6, DeleteKeepsRights
<1>7. ASSUME NEW a \in Articles, NEW p \in Posts, EditPost(a, p) PROVE EntitledIffCompleted'
  BY <1>7, SameRights DEF EditPost
<1>8. CASE UNCHANGED vars
  BY <1>8, SameRights DEF vars
<1> HIDE DEF IInv, TypeOK
<1> QED
  BY <1>1, <1>2, <1>3, <1>4, <1>5, <1>6, <1>7, <1>8 DEF Next, Quiet

(* The advisory lock is taken only while nobody holds it. *)
LEMMA LocksStep == ASSUME IInv, [Next]_vars PROVE LocksExclude'
<1> USE ArticleOrdersAssumption DEF IInv, TypeOK, LocksExclude, Locked
<1>1. ASSUME NEW r \in Requests, NEW x \in Readers, NEW a \in Articles, Start(r, x, a) PROVE LocksExclude'
  BY <1>1, StartEffect DEF Start
<1>2. ASSUME NEW r \in Requests, Begin(r) PROVE LocksExclude'
  <2>1. /\ req'[r].reader = req[r].reader /\ req'[r].article = req[r].article
        /\ \A s \in Requests \ {r} : req'[s] = req[s]
    BY <1>2, BeginEffect DEF Begin, StartedForSomething
  <2>2. \A s \in Locked : s # r /\ ~(req[s].reader = req[r].reader /\ req[s].article = req[r].article)
    BY <1>2 DEF Begin, AdvisoryFree
  <2> QED
    BY <2>1, <2>2
<1>3. ASSUME NEW r \in Requests, Quiet(r) PROVE LocksExclude'
  BY <1>3, QuietEffect DEF Moves
<1>4. ASSUME NEW r \in Requests, NEW o \in Orders, Insert(r, o) PROVE LocksExclude'
  BY <1>4, InsertEffect DEF Moves
<1>5. ASSUME NEW o \in Orders, NEW to \in Statuses, UpdateOrderStatus(o, to) PROVE LocksExclude'
  BY <1>5, UpdateEffect DEF UpdateOrderStatus
<1>6. ASSUME NEW a \in Articles, DeletePost(a) PROVE LocksExclude'
  BY <1>6 DEF DeletePost
<1>7. ASSUME NEW a \in Articles, NEW p \in Posts, EditPost(a, p) PROVE LocksExclude'
  BY <1>7 DEF EditPost
<1>8. CASE UNCHANGED vars
  BY <1>8 DEF vars
<1> HIDE DEF IInv, TypeOK, LocksExclude, Locked
<1> QED
  BY <1>1, <1>2, <1>3, <1>4, <1>5, <1>6, <1>7, <1>8 DEF Next, Quiet

(* The article of a request keeps its price until the request ends. *)
LEMMA HeldStep == ASSUME IInv, [Next]_vars PROVE PostHeld'
<1> USE ArticleOrdersAssumption DEF IInv, TypeOK, PostHeld, StartedForSomething, Locked
<1>1. ASSUME NEW r \in Requests, NEW x \in Readers, NEW a \in Articles, Start(r, x, a) PROVE PostHeld'
  BY <1>1, StartEffect DEF Start
<1>2. ASSUME NEW r \in Requests, Begin(r) PROVE PostHeld'
  BY <1>2, BeginEffect DEF Begin, StartedForSomething, ForSale, Deleted, Posts
<1>3. ASSUME NEW r \in Requests, Quiet(r) PROVE PostHeld'
  BY <1>3, QuietEffect DEF Moves
<1>4. ASSUME NEW r \in Requests, NEW o \in Orders, Insert(r, o) PROVE PostHeld'
  BY <1>4, InsertEffect DEF Moves
<1>5. ASSUME NEW o \in Orders, NEW to \in Statuses, UpdateOrderStatus(o, to) PROVE PostHeld'
  BY <1>5, UpdateEffect DEF UpdateOrderStatus
<1>6. ASSUME NEW a \in Articles, DeletePost(a) PROVE PostHeld'
  BY <1>6 DEF DeletePost, PostFree
<1>7. ASSUME NEW a \in Articles, NEW p \in Posts, EditPost(a, p) PROVE PostHeld'
  BY <1>7 DEF EditPost, EditFree, PostFree
<1>8. CASE UNCHANGED vars
  BY <1>8 DEF vars
<1> HIDE DEF IInv, TypeOK, PostHeld, StartedForSomething, Locked
<1> QED
  BY <1>1, <1>2, <1>3, <1>4, <1>5, <1>6, <1>7, <1>8 DEF Next, Quiet

(* A request names its reader and article from the start. *)
LEMMA StartedStep == ASSUME IInv, [Next]_vars PROVE StartedForSomething'
<1> USE ArticleOrdersAssumption DEF IInv, TypeOK, StartedForSomething
<1>1. ASSUME NEW r \in Requests, NEW x \in Readers, NEW a \in Articles, Start(r, x, a) PROVE StartedForSomething'
  BY <1>1, StartEffect DEF Start
<1>2. ASSUME NEW r \in Requests, Begin(r) PROVE StartedForSomething'
  BY <1>2, BeginEffect DEF Begin, StartedForSomething
<1>3. ASSUME NEW r \in Requests, Quiet(r) PROVE StartedForSomething'
  BY <1>3, QuietEffect DEF Moves
<1>4. ASSUME NEW r \in Requests, NEW o \in Orders, Insert(r, o) PROVE StartedForSomething'
  BY <1>4, InsertEffect DEF Moves
<1>5. ASSUME NEW o \in Orders, NEW to \in Statuses, UpdateOrderStatus(o, to) PROVE StartedForSomething'
  BY <1>5, UpdateEffect DEF UpdateOrderStatus
<1>6. ASSUME NEW a \in Articles, DeletePost(a) PROVE StartedForSomething'
  BY <1>6 DEF DeletePost
<1>7. ASSUME NEW a \in Articles, NEW p \in Posts, EditPost(a, p) PROVE StartedForSomething'
  BY <1>7 DEF EditPost
<1>8. CASE UNCHANGED vars
  BY <1>8 DEF vars
<1> HIDE DEF IInv, TypeOK, StartedForSomething
<1> QED
  BY <1>1, <1>2, <1>3, <1>4, <1>5, <1>6, <1>7, <1>8 DEF Next, Quiet

(* Between the search and the insertion a pending order appears only by a
   reopening: a competing request would hold the same advisory lock. *)
LEMMA AbsenceStep == ASSUME IInv, [Next]_vars PROVE AbsenceHolds'
<1> USE ArticleOrdersAssumption DEF IInv, TypeOK, AbsenceHolds
<1>1. ASSUME NEW r \in Requests, NEW x \in Readers, NEW a \in Articles, Start(r, x, a) PROVE AbsenceHolds'
  BY <1>1, StartEffect, Untouched DEF Start
<1>2. ASSUME NEW r \in Requests, Begin(r) PROVE AbsenceHolds'
  <2>1. req'[r].at = "locked" /\ \A s \in Requests \ {r} : req'[s] = req[s]
    BY <1>2, BeginEffect DEF Begin, StartedForSomething
  <2> QED
    BY <1>2, <2>1, Untouched DEF Begin
<1>3. ASSUME NEW r \in Requests, Quiet(r) PROVE AbsenceHolds'
  BY <1>3, QuietEffect, Untouched DEF Moves
<1>4. ASSUME NEW r \in Requests, NEW o \in Orders, Insert(r, o) PROVE AbsenceHolds'
  <2>1. \A s \in Requests \ {r} : req[s].at = "inserting" =>
            ~(req[s].reader = req[r].reader /\ req[s].article = req[r].article)
    BY <1>4, InsertEffect DEF LocksExclude, Locked
  <2> QED
    <3>1. ASSUME NEW s \in Requests, req'[s].at = "inserting",
                 NEW x \in Readers, NEW a \in Articles, x = req[s].reader, a = req[s].article
          PROVE  Pending(x, a)' = {} \/ Reopened(x, a)'
      <4>1. s # r /\ req[s].at = "inserting"
        BY <1>4, <3>1, InsertEffect DEF Moves
      <4>2. ~(x = req[r].reader /\ a = req[r].article)
        BY <2>1, <3>1, <4>1
      <4>3. Pending(x, a) = {} \/ Reopened(x, a)
        BY <3>1, <4>1
      <4> QED
        BY <1>4, <4>2, <4>3, InsertPending, InsertReopened
    <3>2. \A s \in Requests : req'[s].at = "inserting" => req'[s] = req[s]
      BY <1>4, InsertEffect DEF Moves
    <3>3. \A s \in Requests : req[s].at # "idle" => req[s].reader \in Readers /\ req[s].article \in Articles
      BY DEF StartedForSomething
    <3> QED
      BY <3>1, <3>2, <3>3
<1>5. ASSUME NEW o \in Orders, NEW to \in Statuses, UpdateOrderStatus(o, to) PROVE AbsenceHolds'
  BY <1>5, UpdatePending, UpdateReopened DEF UpdateOrderStatus
<1>6. ASSUME NEW a \in Articles, DeletePost(a) PROVE AbsenceHolds'
  BY <1>6, Untouched DEF DeletePost
<1>7. ASSUME NEW a \in Articles, NEW p \in Posts, EditPost(a, p) PROVE AbsenceHolds'
  BY <1>7, Untouched DEF EditPost
<1>8. CASE UNCHANGED vars
  BY <1>8, Untouched DEF vars
<1> HIDE DEF IInv, TypeOK, AbsenceHolds
<1> QED
  BY <1>1, <1>2, <1>3, <1>4, <1>5, <1>6, <1>7, <1>8 DEF Next, Quiet

(* A refused insertion met an order that was reopened. *)
LEMMA RetriesStep == ASSUME IInv, [Next]_vars PROVE RetriesGetTheOrder'
<1> USE ArticleOrdersAssumption DEF IInv, TypeOK, RetriesGetTheOrder
<1>1. ASSUME NEW r \in Requests, NEW x \in Readers, NEW a \in Articles, Start(r, x, a) PROVE RetriesGetTheOrder'
  BY <1>1, StartEffect, Untouched DEF Start
<1>2. ASSUME NEW r \in Requests, Begin(r) PROVE RetriesGetTheOrder'
  BY <1>2, BeginEffect, Untouched DEF Begin, StartedForSomething
<1>3. ASSUME NEW r \in Requests, Quiet(r) PROVE RetriesGetTheOrder'
  BY <1>3, QuietEffect, Untouched DEF Moves, AbsenceHolds
<1>4. ASSUME NEW r \in Requests, NEW o \in Orders, Insert(r, o) PROVE RetriesGetTheOrder'
  BY <1>4, InsertEffect, InsertReopened DEF Moves, StartedForSomething
<1>5. ASSUME NEW o \in Orders, NEW to \in Statuses, UpdateOrderStatus(o, to) PROVE RetriesGetTheOrder'
  BY <1>5, UpdateReopened DEF UpdateOrderStatus
<1>6. ASSUME NEW a \in Articles, DeletePost(a) PROVE RetriesGetTheOrder'
  BY <1>6, Untouched DEF DeletePost
<1>7. ASSUME NEW a \in Articles, NEW p \in Posts, EditPost(a, p) PROVE RetriesGetTheOrder'
  BY <1>7, Untouched DEF EditPost
<1>8. CASE UNCHANGED vars
  BY <1>8, Untouched DEF vars
<1> HIDE DEF IInv, TypeOK, RetriesGetTheOrder
<1> QED
  BY <1>1, <1>2, <1>3, <1>4, <1>5, <1>6, <1>7, <1>8 DEF Next, Quiet

(* Nothing is ordered, granted or requested at first. *)
LEMMA InitEstablishesIInv == Init => IInv
  BY ArticleOrdersAssumption
  DEF Init, IInv, TypeOK, OrderRows, RequestStates, Ordered, OnePending, EntitledIffCompleted,
      RetriesGetTheOrder, LocksExclude, PostHeld, StartedForSomething, AbsenceHolds, Locked,
      Pending, NoOrder, Idle, Posts, Statuses

(* IInv holds in every reachable state. *)
THEOREM Invariance == Spec => []IInv
<1>1. IInv /\ [Next]_vars => IInv'
  BY TypeStep, RowsStep, PendingStep, RightsStep, LocksStep, HeldStep, StartedStep, AbsenceStep, RetriesStep
  DEF IInv, TypeOK, Types, RowsReal
<1> QED
  BY InitEstablishesIInv, <1>1, PTL DEF Spec

(* Rows stay as the schema has them. *)
THEOREM TypeCorrect == Spec => []TypeOK
  BY Invariance, PTL DEF IInv

(* A reader has at most one pending order of an article. *)
THEOREM SinglePending == Spec => []OnePending
  BY Invariance, PTL DEF IInv

(* A reader may read exactly the articles of completed orders. *)
THEOREM RightsArePaid == Spec => []EntitledIffCompleted
  BY Invariance, PTL DEF IInv

(* Retries never end in the 500 of the unique index unless an administrator
   reopened an order in the middle of one. *)
THEOREM RetriesAreServed == Spec => []RetriesGetTheOrder
  BY Invariance, PTL DEF IInv

(* Every order is inserted at the price the article has at that moment. *)
THEOREM PricesArePosted == Spec => OrderedAtPostedPrice
<1> DEFINE AtPostedPrice ==
      \A o \in Orders :
          order[o] = NoOrder /\ order'[o] # NoOrder =>
              LET a == post[order'[o].article]
              IN  a.vis = "paid" /\ a.price = order'[o].price
<1>1. ASSUME IInv, [Next]_vars PROVE AtPostedPrice
  <2>1. ASSUME NEW r \in Requests, NEW o \in Orders, Insert(r, o) PROVE AtPostedPrice
    <3>1. r \in Locked
      BY <2>1 DEF Insert, Locked
    <3> QED
      BY <1>1, <2>1, <3>1, InsertEffect DEF IInv
  <2>2. ASSUME NEW o \in Orders, NEW to \in Statuses, UpdateOrderStatus(o, to) PROVE AtPostedPrice
    BY <1>1, <2>2, UpdateEffect DEF UpdateOrderStatus, IInv, TypeOK
  <2>3. CASE UNCHANGED order
    BY <2>3
  <2> QED
    BY <1>1, <2>1, <2>2, <2>3
    DEF Next, Start, Begin, Refuse, CheckEntitled, FindPending, InsertFails, Fail, DeletePost, EditPost, vars
<1> QED
  BY Invariance, <1>1, PTL DEF Spec, OrderedAtPostedPrice

(***************************************************************************)
(* ArticleOrders implements PaidAccess                                     *)
(***************************************************************************)

(* Nothing is sold, deleted or granted at first. *)
LEMMA InitRefines == Init => Books!Init
<1> SUFFICES ASSUME Init PROVE Books!Init
  OBVIOUS
<1>1. ASSUME NEW a \in Articles PROVE Offered[a] \in (1..MaxPrice) \cup {0}
  <2>1. post[a] \in Posts
    BY DEF Init
  <2> QED
    BY <2>1, ArticleOrdersAssumption DEF Offered, Posts
<1>2. Offered \in [Articles -> (1..MaxPrice) \cup {0}]
  BY <1>1 DEF Offered
<1>3. {a \in Articles : post[a] = Deleted} = {}
  BY DEF Init, Posts, Deleted
<1> QED
  BY <1>2, <1>3 DEF Init, Books!Init

(* A step that leaves articles, orders and rights alone is a stutter. *)
LEMMA Stutter ==
  ASSUME UNCHANGED <<post, order, entitled>>
  PROVE  UNCHANGED Books!vars
  BY DEF Books!vars, Offered

(* An insertion buys the article at the price on offer. *)
LEMMA InsertBuys ==
  ASSUME IInv, NEW r \in Requests, NEW o \in Orders, Insert(r, o)
  PROVE  Books!Next
<1> DEFINE x == req[r].reader
           a == req[r].article
<1>1. /\ x \in Readers /\ a \in Articles
      /\ UNCHANGED <<post, entitled>>
      /\ post[a].vis = "paid" /\ post[a].price = req[r].price /\ req[r].price > 0
  BY InsertEffect DEF IInv
<1>2. Offered[a] = req[r].price /\ UNCHANGED Offered
  BY <1>1 DEF Offered
<1>3. Books!Open(x, a) = {}
  BY DEF Insert, IndexAllows, Pending, Books!Open, Books!Made
<1>4. o \notin Books!Made
  BY DEF Insert, Books!Made
<1>5. order' = [order EXCEPT ![o] = [status |-> "pending", reader |-> x, article |-> a,
                                     price |-> Offered[a]]]
  BY <1>2 DEF Insert
<1>6. Books!Buy(o, x, a)
  BY <1>1, <1>2, <1>3, <1>4, <1>5 DEF Books!Buy
<1> QED
  BY <1>1, <1>6 DEF Books!Next

(* A change of status completes, cancels or reopens. *)
LEMMA UpdateSettles ==
  ASSUME IInv, NEW o \in Orders, NEW to \in Statuses, UpdateOrderStatus(o, to)
  PROVE  Books!Next
<1>1. /\ o \in Books!Made
      /\ order' = [order EXCEPT ![o].status = to]
      /\ entitled' = [entitled EXCEPT ![order[o].reader] = @ \cup Granted(o, to)]
      /\ UNCHANGED Offered /\ UNCHANGED post
  BY DEF UpdateOrderStatus, Books!Made, Offered
<1>2. to # "completed" => order[o].status # "completed"
  BY DEF UpdateOrderStatus, Allowed
<1>3. to # "completed" => UNCHANGED entitled
  BY <1>1 DEF Granted, IInv, TypeOK
<1>4. CASE to = "completed"
  <2>1. Books!Complete(o)
    BY <1>1, <1>4 DEF Books!Complete, Granted
  <2> QED
    BY <2>1 DEF Books!Next
<1>5. CASE to = "canceled"
  <2>1. Books!Cancel(o)
    BY <1>1, <1>2, <1>3, <1>5 DEF Books!Cancel, Books!Unsettled
  <2> QED
    BY <2>1 DEF Books!Next
<1>6. CASE to = "pending"
  <2>1. Books!Open(order[o].reader, order[o].article) \subseteq {o}
    BY <1>6 DEF UpdateOrderStatus, Pending, Books!Open, Books!Made
  <2>2. Books!Reopen(o)
    BY <1>1, <1>2, <1>3, <1>6, <2>1 DEF Books!Reopen, Books!Unsettled
  <2> QED
    BY <2>2 DEF Books!Next
<1> QED
  BY <1>4, <1>5, <1>6 DEF Statuses

(* An edit offers the article at its new price, or no longer. *)
LEMMA EditOffers ==
  ASSUME IInv, NEW a \in Articles, NEW p \in Posts, EditPost(a, p)
  PROVE  Books!Next
<1> DEFINE price == IF p.vis = "paid" THEN p.price ELSE 0
<1>1. price \in (1..MaxPrice) \cup {0} /\ p # Deleted
  BY ArticleOrdersAssumption DEF Posts, Deleted
<1>2. /\ post \in [Articles -> Posts \cup {Deleted}]
      /\ post' = [post EXCEPT ![a] = p] /\ post[a] # Deleted
      /\ UNCHANGED <<order, entitled>>
  BY DEF IInv, TypeOK, EditPost
<1>3. Offered' = [Offered EXCEPT ![a] = price]
  BY <1>2 DEF Offered
<1>4. {b \in Articles : post'[b] = Deleted} = {b \in Articles : post[b] = Deleted}
  BY <1>1, <1>2
<1>5. a \notin {b \in Articles : post[b] = Deleted}
  BY <1>2
<1> HIDE DEF price
<1>6. Books!Offer(a, price)
  BY <1>2, <1>3, <1>4, <1>5 DEF Books!Offer
<1> QED
  BY <1>1, <1>6 DEF Books!Next

(* A deletion withdraws an article nobody ordered, so no right goes. *)
LEMMA DeleteWithdraws ==
  ASSUME IInv, NEW a \in Articles, DeletePost(a)
  PROVE  Books!Next
<1>1. /\ post \in [Articles -> Posts \cup {Deleted}]
      /\ entitled \in [Readers -> SUBSET Articles]
      /\ post' = [post EXCEPT ![a] = Deleted] /\ UNCHANGED order
      /\ entitled' = [x \in Readers |-> entitled[x] \ {a}]
      /\ \A o \in Orders : order[o].article # a
  BY DEF IInv, TypeOK, DeletePost, Unordered
<1>2. \A x \in Readers : a \notin entitled[x]
  BY <1>1 DEF IInv, EntitledIffCompleted
<1>3. UNCHANGED entitled
  BY <1>1, <1>2
<1>4. Offered' = [Offered EXCEPT ![a] = 0]
  BY <1>1 DEF Offered, Deleted
<1>5. {b \in Articles : post'[b] = Deleted} = {b \in Articles : post[b] = Deleted} \cup {a}
  BY <1>1
<1>6. Books!Withdraw(a)
  BY <1>1, <1>3, <1>4, <1>5 DEF Books!Withdraw, Books!Made
<1> QED
  BY <1>6 DEF Books!Next

(* Every step is a step of PaidAccess or a stutter. *)
LEMMA StepRefines ==
  ASSUME IInv, [Next]_vars
  PROVE  [Books!Next]_(Books!vars)
<1>1. CASE UNCHANGED <<post, order, entitled>>
  BY <1>1, Stutter
<1> QED
  BY <1>1, InsertBuys, UpdateSettles, EditOffers, DeleteWithdraws
  DEF Next, Start, Begin, Refuse, CheckEntitled, FindPending, InsertFails, Fail, vars

(* Buying under locks, settling and editing together implement PaidAccess. *)
THEOREM Implements == Spec => KeepsBooks
  BY InitRefines, StepRefines, Invariance, PTL DEF Spec, KeepsBooks, Books!Spec

=============================================================================
