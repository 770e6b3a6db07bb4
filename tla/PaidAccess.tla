----------------------------- MODULE PaidAccess -----------------------------
(***************************************************************************)
(* What the sale of articles promises readers and the publisher, without   *)
(* requests, locks or statements: an order is made in one step, at the     *)
(* price on offer, of an article that is for sale and has no open order of *)
(* the reader; completing an order grants the article, for good; and an    *)
(* article that was ever ordered stays.  ArticleOrders implements it.      *)
(***************************************************************************)
EXTENDS Naturals

CONSTANTS Readers, Articles, Orders, Prices, NoOrder

VARIABLES
    offer,   \* [Articles -> its price, or 0 when it is not for sale]
    gone,    \* the articles that were deleted
    book,    \* [Orders -> [status, reader, article, price], or NoOrder]
    may      \* [Readers -> the articles a reader may read]

vars == <<offer, gone, book, may>>

Init ==
    /\ offer \in [Articles -> Prices \cup {0}]
    /\ gone = {}
    /\ book = [o \in Orders |-> NoOrder]
    /\ may = [x \in Readers |-> {}]

Made == {o \in Orders : book[o] # NoOrder}
Open(x, a) == {o \in Made : book[o].status = "pending" /\ book[o].reader = x /\ book[o].article = a}

Offer(a, price) ==
    /\ a \notin gone
    /\ offer' = [offer EXCEPT ![a] = price]
    /\ UNCHANGED <<gone, book, may>>

Withdraw(a) ==
    /\ \A o \in Made : book[o].article # a
    /\ offer' = [offer EXCEPT ![a] = 0]
    /\ gone' = gone \cup {a}
    /\ UNCHANGED <<book, may>>

Buy(o, x, a) ==
    /\ o \notin Made
    /\ offer[a] > 0
    /\ Open(x, a) = {}
    /\ book' = [book EXCEPT ![o] = [status |-> "pending", reader |-> x, article |-> a, price |-> offer[a]]]
    /\ UNCHANGED <<offer, gone, may>>

Complete(o) ==
    /\ o \in Made
    /\ book' = [book EXCEPT ![o].status = "completed"]
    /\ may' = [may EXCEPT ![book[o].reader] = @ \cup {book[o].article}]
    /\ UNCHANGED <<offer, gone>>

Unsettled(o) == o \in Made /\ book[o].status # "completed"

Cancel(o) ==
    /\ Unsettled(o)
    /\ book' = [book EXCEPT ![o].status = "canceled"]
    /\ UNCHANGED <<offer, gone, may>>

Reopen(o) ==
    /\ Unsettled(o)
    /\ Open(book[o].reader, book[o].article) \subseteq {o}
    /\ book' = [book EXCEPT ![o].status = "pending"]
    /\ UNCHANGED <<offer, gone, may>>

Next ==
    \/ \E a \in Articles : Withdraw(a) \/ \E price \in Prices \cup {0} : Offer(a, price)
    \/ \E o \in Orders :
          \/ \E x \in Readers, a \in Articles : Buy(o, x, a)
          \/ Complete(o) \/ Cancel(o) \/ Reopen(o)

Spec == Init /\ [][Next]_vars
=============================================================================
