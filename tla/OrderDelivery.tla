---------------------------- MODULE OrderDelivery ----------------------------
(***************************************************************************)
(* What the order hand-off promises a customer, without leases, attempts,  *)
(* HTTP requests or the network: an order is placed once; it is bound to   *)
(* one verified support visitor and never to another; its message is       *)
(* stored at most once, for that visitor; and delivery is confirmed only   *)
(* for a message that is stored.  OrderHandoff implements this module.     *)
(***************************************************************************)
CONSTANTS Orders, Bindings, NoBinding

VARIABLES
    placed,     \* the orders that exist
    boundTo,    \* [Orders -> the visitor an order belongs to, or NoBinding]
    mailed,     \* the orders whose message the support system holds
    confirmed   \* the orders whose delivery the website has confirmed

vars == <<placed, boundTo, mailed, confirmed>>

Init ==
    /\ placed = {}
    /\ boundTo = [o \in Orders |-> NoBinding]
    /\ mailed = {}
    /\ confirmed = {}

Place(o) ==
    /\ o \notin placed
    /\ placed' = placed \cup {o}
    /\ UNCHANGED <<boundTo, mailed, confirmed>>

Bind(o, b) ==
    /\ o \in placed
    /\ boundTo[o] = NoBinding
    /\ boundTo' = [boundTo EXCEPT ![o] = b]
    /\ UNCHANGED <<placed, mailed, confirmed>>

Mail(o) ==
    /\ boundTo[o] # NoBinding
    /\ o \notin mailed
    /\ mailed' = mailed \cup {o}
    /\ UNCHANGED <<placed, boundTo, confirmed>>

Confirm(o) ==
    /\ o \in mailed
    /\ o \notin confirmed
    /\ confirmed' = confirmed \cup {o}
    /\ UNCHANGED <<placed, boundTo, mailed>>

Next ==
    \E o \in Orders :
        \/ Place(o)
        \/ \E b \in Bindings : Bind(o, b)
        \/ Mail(o)
        \/ Confirm(o)

Spec == Init /\ [][Next]_vars
==============================================================================
