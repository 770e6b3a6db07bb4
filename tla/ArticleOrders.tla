--------------------------- MODULE ArticleOrders ---------------------------
(***************************************************************************)
(* Orders of paid articles and the reading rights they grant               *)
(* (services/paid-access).                                                 *)
(*                                                                         *)
(* A reader's request to buy runs under READ COMMITTED: each statement     *)
(* has its own snapshot, so each is an action.  The transaction holds an   *)
(* advisory lock on its reader and article, and a share lock on the        *)
(* article, until it ends.  The administrator's change of an order's       *)
(* status is SERIALIZABLE and one action; one that the database aborts     *)
(* has no effect.  The main API edits and deletes articles meanwhile.      *)
(***************************************************************************)
EXTENDS Integers

CONSTANTS
    Readers, Articles,
    Orders,         \* orders that can be inserted: the bound on their number
    Requests,       \* requests to buy: the bound on concurrent and repeated ones
    MaxPrice,       \* bound: prices are 0..MaxPrice
    None

ASSUME ArticleOrdersAssumption ==
    /\ MaxPrice \in Nat \ {0}
    /\ None \notin Readers \cup Articles \cup Orders

VARIABLES
    post,      \* [Articles -> [vis, price]], a row of posts
    order,     \* [Orders -> row of article_orders]
    entitled,  \* article_entitlements: [Readers -> the articles granted]
    audit,     \* status changes in article_access_audit_log: [order, from, to]
    req        \* [Requests -> state of one createOrder handler]

vars == <<post, order, entitled, audit, req>>

Statuses == {"pending", "completed", "canceled"}

(* posts_paid_price_check *)
Posts == [vis : {"public", "private"}, price : 0..MaxPrice] \cup [vis : {"paid"}, price : 1..MaxPrice]

Deleted == [vis |-> "deleted", price |-> 0]

NoOrder == [status |-> "none", reader |-> None, article |-> None, price |-> 0]

Idle == [at |-> "idle", reader |-> None, article |-> None, price |-> 0]

Init ==
    /\ post \in [Articles -> Posts]
    /\ order = [o \in Orders |-> NoOrder]
    /\ entitled = [x \in Readers |-> {}]
    /\ audit = {}
    /\ req = [r \in Requests |-> Idle]

(* Requests inside their transaction, holding both locks. *)
Locked == {r \in Requests : req[r].at \in {"locked", "finding", "inserting"}}

NoAdvisoryLock(r) == TRUE

AdvisoryFree(r) ==
    \A s \in Locked : ~(req[s].reader = req[r].reader /\ req[s].article = req[r].article)

PostFree(a) == \A r \in Locked : req[r].article # a

Pending(x, a) == {o \in Orders : order[o].status = "pending" /\ order[o].reader = x /\ order[o].article = a}

Goto(r, at) == req' = [req EXCEPT ![r].at = at]

(***************************************************************************)
(* A request to buy                                                        *)
(***************************************************************************)

(* The handler finds the article, which must be paid, and calls the store. *)
Start(r, x, a) ==
    /\ req[r] = Idle
    /\ post[a].vis = "paid"
    /\ req' = [req EXCEPT ![r] = [at |-> "started", reader |-> x, article |-> a, price |-> 0]]
    /\ UNCHANGED <<post, order, entitled, audit>>

ForSale(a) == post[a].vis = "paid" /\ post[a].price > 0

(* The locks, and the article read again under them. *)
Begin(r) ==
    /\ req[r].at = "started"
    /\ AdvisoryFree(r)
    /\ ForSale(req[r].article)
    /\ req' = [req EXCEPT ![r].at = "locked", ![r].price = post[req[r].article].price]
    /\ UNCHANGED <<post, order, entitled, audit>>

Refuse(r) ==
    /\ req[r].at = "started"
    /\ AdvisoryFree(r)
    /\ ~ForSale(req[r].article)
    /\ Goto(r, "not paid")
    /\ UNCHANGED <<post, order, entitled, audit>>

CheckEntitled(r) ==
    /\ req[r].at = "locked"
    /\ \/ req[r].article \in entitled[req[r].reader] /\ Goto(r, "entitled")
       \/ req[r].article \notin entitled[req[r].reader] /\ Goto(r, "finding")
    /\ UNCHANGED <<post, order, entitled, audit>>

FindPending(r) ==
    /\ req[r].at = "finding"
    /\ \/ Pending(req[r].reader, req[r].article) # {} /\ Goto(r, "existing")
       \/ Pending(req[r].reader, req[r].article) = {} /\ Goto(r, "inserting")
    /\ UNCHANGED <<post, order, entitled, audit>>

(* uniq_article_orders_pending_account_post *)
NoIndex(x, a) == TRUE
IndexAllows(x, a) == Pending(x, a) = {}

Insert(r, o) ==
    /\ req[r].at = "inserting"
    /\ IndexAllows(req[r].reader, req[r].article)
    /\ order[o] = NoOrder
    /\ order' = [order EXCEPT ![o] = [status |-> "pending", reader |-> req[r].reader,
                                      article |-> req[r].article, price |-> req[r].price]]
    /\ Goto(r, "created")
    /\ UNCHANGED <<post, entitled, audit>>

(* The index refuses the order: the handler answers 500. *)
InsertFails(r) ==
    /\ req[r].at = "inserting"
    /\ ~IndexAllows(req[r].reader, req[r].article)
    /\ Goto(r, "conflict")
    /\ UNCHANGED <<post, order, entitled, audit>>

(* A database error, a canceled request or a crash rolls the request back. *)
Fail(r) ==
    /\ req[r].at \in {"started", "locked", "finding", "inserting"}
    /\ Goto(r, "failed")
    /\ UNCHANGED <<post, order, entitled, audit>>

(***************************************************************************)
(* The administrator                                                       *)
(***************************************************************************)

AllowedAnyhow(from, to) == TRUE
Allowed(from, to) == from = "completed" => to = "completed"

Granted(o, to) == IF to = "completed" THEN {order[o].article} ELSE {}

UpdateOrderStatus(o, to) ==
    /\ order[o] # NoOrder
    /\ Allowed(order[o].status, to)
    /\ to = "pending" => Pending(order[o].reader, order[o].article) \subseteq {o}
    /\ order' = [order EXCEPT ![o].status = to]
    /\ entitled' = [entitled EXCEPT ![order[o].reader] = @ \cup Granted(o, to)]
    /\ audit' = audit \cup {[order |-> o, from |-> order[o].status, to |-> to]}
    /\ UNCHANGED <<post, req>>

EditAnytime(a) == TRUE
EditFree(a) == PostFree(a)

(* UpdatePost of the main API waits for the share locks. *)
EditPost(a, p) ==
    /\ post[a] # Deleted
    /\ EditFree(a)
    /\ p # post[a]
    /\ post' = [post EXCEPT ![a] = p]
    /\ UNCHANGED <<order, entitled, audit, req>>

UnorderedOrCanceled(a) == \A o \in Orders : order[o].article = a => order[o].status # "pending"
Unordered(a) == \A o \in Orders : order[o].article # a

(* Orders RESTRICT the deletion of their article; rights would go with it. *)
DeletePost(a) ==
    /\ post[a] # Deleted
    /\ PostFree(a)
    /\ Unordered(a)
    /\ post' = [post EXCEPT ![a] = Deleted]
    /\ entitled' = [x \in Readers |-> entitled[x] \ {a}]
    /\ UNCHANGED <<order, audit, req>>

Next ==
    \/ \E r \in Requests :
          \/ \E x \in Readers, a \in Articles : Start(r, x, a)
          \/ Begin(r)
          \/ Refuse(r)
          \/ CheckEntitled(r)
          \/ FindPending(r)
          \/ \E o \in Orders : Insert(r, o)
          \/ InsertFails(r)
          \/ Fail(r)
    \/ \E o \in Orders, to \in Statuses : UpdateOrderStatus(o, to)
    \/ \E a \in Articles : DeletePost(a) \/ \E p \in Posts : EditPost(a, p)

Spec == Init /\ [][Next]_vars

(***************************************************************************)
(* Properties                                                              *)
(***************************************************************************)

OrderRows == [status : Statuses \cup {"none"}, reader : Readers \cup {None},
              article : Articles \cup {None}, price : 0..MaxPrice]

RequestStates == [at : {"idle", "started", "locked", "finding", "inserting", "not paid",
                        "entitled", "existing", "created", "conflict", "failed"},
                  reader : Readers \cup {None}, article : Articles \cup {None},
                  price : 0..MaxPrice]

Ordered(o) ==
    /\ order[o].status \in Statuses
    /\ order[o].reader \in Readers /\ order[o].article \in Articles /\ order[o].price > 0
    /\ post[order[o].article] # Deleted

(* Rows are as the schema has them: an order has a reader, a positive      *)
(* price, and an article that still exists.                                *)
TypeOK ==
    /\ post \in [Articles -> Posts \cup {Deleted}]
    /\ order \in [Orders -> OrderRows]
    /\ \A o \in Orders : order[o] = NoOrder \/ Ordered(o)
    /\ entitled \in [Readers -> SUBSET Articles]
    /\ audit \subseteq [order : Orders, from : Statuses, to : Statuses]
    /\ req \in [Requests -> RequestStates]

(* docs/paid-article-access.md:23: a reader has at most one pending order  *)
(* of an article, whatever requests and reopenings race.                   *)
OnePending ==
    \A o1, o2 \in Orders :
        /\ order[o1].status = "pending" /\ order[o2].status = "pending"
        /\ order[o1].reader = order[o2].reader /\ order[o1].article = order[o2].article
        => o1 = o2

(* docs/paid-article-access.md:23: a reader may read exactly the articles  *)
(* of the completed orders: no payment loses its right, no right appears   *)
(* without one, through any sequence of changes, edits and deletions.      *)
EntitledIffCompleted ==
    \A x \in Readers, a \in Articles :
        a \in entitled[x] <=>
            \E o \in Orders : order[o].status = "completed" /\ order[o].reader = x /\ order[o].article = a

Reopened(x, a) ==
    \E o \in Orders :
        /\ [order |-> o, from |-> "canceled", to |-> "pending"] \in audit
        /\ order[o].reader = x /\ order[o].article = a

(* The comment on the advisory lock in CreateOrder: concurrent retries get *)
(* the existing order instead of a 500.  Only an administrator who reopens *)
(* a canceled order in the middle of a request can make it fail so.        *)
RetriesGetTheOrder ==
    \A r \in Requests : req[r].at = "conflict" => Reopened(req[r].reader, req[r].article)

(* An order is made at the price the article has when it is committed, and *)
(* only while it is for sale: the request read both several statements     *)
(* earlier.                                                                *)
OrderedAtPostedPrice ==
    [][\A o \in Orders :
          order[o] = NoOrder /\ order'[o] # NoOrder =>
              LET a == post[order'[o].article]
              IN  a.vis = "paid" /\ a.price = order'[o].price]_vars

Offered == [a \in Articles |-> IF post[a].vis = "paid" THEN post[a].price ELSE 0]

Books == INSTANCE PaidAccess WITH
    offer <- Offered,
    gone <- {a \in Articles : post[a] = Deleted},
    book <- order,
    may <- entitled,
    Prices <- 1..MaxPrice

(* docs/paid-article-access.md:23: buying, with its locks and statements,  *)
(* the administrator's transactions and the main API's edits together do   *)
(* what PaidAccess does in single steps: among others, an order is of an   *)
(* article that is for sale at that moment, and no step but a completion   *)
(* gives or takes a right.                                                 *)
KeepsBooks == Books!Spec

(* What the locks of CreateOrder give, inductively: requests for the same  *)
(* right exclude each other, the article stays as they read it, and what   *)
(* the search for a pending order did not find can appear only by being    *)
(* reopened.                                                               *)
LocksExclude ==
    \A r, s \in Locked : req[r].reader = req[s].reader /\ req[r].article = req[s].article => r = s

PostHeld ==
    \A r \in Locked :
        /\ req[r].reader \in Readers /\ req[r].article \in Articles
        /\ post[req[r].article].vis = "paid" /\ post[req[r].article].price = req[r].price
        /\ req[r].price > 0

StartedForSomething ==
    \A r \in Requests : req[r].at # "idle" => req[r].reader \in Readers /\ req[r].article \in Articles

AbsenceHolds ==
    \A r \in Requests :
        req[r].at = "inserting" =>
            \/ Pending(req[r].reader, req[r].article) = {}
            \/ Reopened(req[r].reader, req[r].article)

IInv ==
    /\ TypeOK /\ OnePending /\ EntitledIffCompleted /\ RetriesGetTheOrder
    /\ LocksExclude /\ PostHeld /\ StartedForSomething /\ AbsenceHolds
=============================================================================
