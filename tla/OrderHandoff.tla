---------------------------- MODULE OrderHandoff ----------------------------
(***************************************************************************)
(* Delivery of an order to the customer's support conversation.            *)
(*                                                                         *)
(* A storefront order gets one row in affiliate_order_support_deliveries.  *)
(* Every POST /api/orders/{id}/support-delivery runs the handler           *)
(* sendOrderSupportDelivery, which touches the row in short transactions   *)
(* and calls Chatwoot between them: read the row, ask Chatwoot which       *)
(* visitor the conversation cookie belongs to, claim a sending lease, POST *)
(* the message, save the outcome.  Handlers of several requests interleave *)
(* at those points, may die at any of them, and may see their POST fail    *)
(* without knowing whether Chatwoot stored the message.                    *)
(*                                                                         *)
(* Chatwoot is external: it stores one message per order id and answers a  *)
(* repeated order id with the message it has.  A message is identified by  *)
(* the attempt whose POST created it.                                      *)
(***************************************************************************)
EXTENDS Naturals

CONSTANTS
    Orders,     \* order ids
    Bindings,   \* visitors Chatwoot can verify
    Requests,   \* HTTP requests that can be in progress at the same time
    NoBinding,  \* the row has no visitor / the browser has no conversation
    NoOrder,    \* a request slot that is not in use
    NoMessage,  \* Chatwoot holds no message for the order
    MaxAttempts,          \* bound: claims per order
    MaxFaults             \* bound: failures of the network, Chatwoot, PostgreSQL or the process,
                          \* and POSTs that outlast their lease of 30 s

ASSUME BindingAssumption == NoBinding \notin Bindings
ASSUME OrderAssumption == NoOrder \notin Orders
ASSUME BoundAssumption == MaxAttempts \in Nat /\ MaxFaults \in Nat
ASSUME MessageAssumption == NoMessage \notin [binding : Bindings, attempt : Nat]

Waiting  == {"awaiting_session", "retry_wait", "action_required"}
Failures == {"reconciling", "retry_wait", "action_required"}
Statuses == Waiting \cup {"sending", "reconciling", "sent"}
Visitors == Bindings \cup {NoBinding}
Posts    == [order : Orders, binding : Bindings, attempt : Nat]

VARIABLES
    status,     \* [Orders -> status of the delivery row, or "absent"]
    boundTo,    \* [Orders -> binding_id]
    attempts,   \* [Orders -> attempts]
    leased,     \* [Orders -> lease_until > now()]
    receipt,    \* [Orders -> message_id, 0 when NULL]
    pc,         \* [Requests -> where the handler is]
    order,      \* [Requests -> the order it delivers]
    expected,   \* [Requests -> expectedBindingId of the request body]
    visitor,    \* [Requests -> the visitor its cw_conversation cookie proves]
    attempt,    \* [Requests -> the attempt it claimed]
    outcome,    \* [Requests -> the status it is going to save, or "none"]
    message,    \* [Requests -> the message id of the receipt it holds]
    inflight,   \* POSTs that left a handler and have not reached Chatwoot
    stored,     \* [Orders -> the message Chatwoot holds]
    faults,     \* failures so far
    overran     \* history: orders whose lease ended under the handler that held it

row     == <<status, boundTo, attempts, leased, receipt>>
request == <<pc, order, expected, visitor, attempt, outcome, message>>
vars    == <<row, request, inflight, stored, faults, overran>>

Init ==
    /\ status   = [o \in Orders |-> "absent"]
    /\ boundTo  = [o \in Orders |-> NoBinding]
    /\ attempts = [o \in Orders |-> 0]
    /\ leased   = [o \in Orders |-> FALSE]
    /\ receipt  = [o \in Orders |-> 0]
    /\ pc       = [r \in Requests |-> "idle"]
    /\ order    = [r \in Requests |-> NoOrder]
    /\ expected = [r \in Requests |-> NoBinding]
    /\ visitor  = [r \in Requests |-> NoBinding]
    /\ attempt  = [r \in Requests |-> 0]
    /\ outcome  = [r \in Requests |-> "none"]
    /\ message  = [r \in Requests |-> 0]
    /\ inflight = {}
    /\ stored   = [o \in Orders |-> NoMessage]
    /\ faults   = 0
    /\ overran  = {}

Fault == faults < MaxFaults /\ faults' = faults + 1

(* The handler returns: its slot is free and its locals are gone. *)
Return(r) ==
    /\ pc'       = [pc EXCEPT ![r] = "idle"]
    /\ order'    = [order EXCEPT ![r] = NoOrder]
    /\ expected' = [expected EXCEPT ![r] = NoBinding]
    /\ visitor'  = [visitor EXCEPT ![r] = NoBinding]
    /\ attempt'  = [attempt EXCEPT ![r] = 0]
    /\ outcome'  = [outcome EXCEPT ![r] = "none"]
    /\ message'  = [message EXCEPT ![r] = 0]

-----------------------------------------------------------------------------
(* The steps of the website.                                               *)

(* The transaction that creates the order also creates its delivery row. *)
CreateOrder(o) ==
    /\ status[o] = "absent"
    /\ status' = [status EXCEPT ![o] = "awaiting_session"]
    /\ UNCHANGED <<boundTo, attempts, leased, receipt, request, inflight, stored, faults, overran>>

(* A request arrives and reads the row.  A row bound to another visitor or *)
(* already sent is answered at once and changes nothing.                   *)
Begin(r, o, e, v) ==
    /\ pc[r] = "idle"
    /\ status[o] \notin {"absent", "sent"}
    /\ boundTo[o] \in {NoBinding, e}
    /\ pc'       = [pc EXCEPT ![r] = IF v = NoBinding THEN "wait" ELSE "capability"]
    /\ outcome'  = [outcome EXCEPT ![r] = IF v = NoBinding THEN "awaiting_session" ELSE "none"]
    /\ order'    = [order EXCEPT ![r] = o]
    /\ expected' = [expected EXCEPT ![r] = e]
    /\ visitor'  = [visitor EXCEPT ![r] = v]
    /\ UNCHANGED <<row, attempt, message, inflight, stored, faults, overran>>

(* Chatwoot names the visitor of the cookie: the one the page expects, ... *)
CapabilityVerified(r) ==
    /\ pc[r] = "capability"
    /\ visitor[r] = expected[r]
    /\ pc' = [pc EXCEPT ![r] = "claim"]
    /\ UNCHANGED <<row, order, expected, visitor, attempt, outcome, message,
                   inflight, stored, faults, overran>>

(* ... or another one, and the request is refused. *)
CapabilityMismatch(r) ==
    /\ pc[r] = "capability"
    /\ visitor[r] # expected[r]
    /\ Return(r)
    /\ UNCHANGED <<row, inflight, stored, faults, overran>>

(* A failed capability GET has no effect at Chatwoot: never "reconciling". *)
CapabilityFailed(r, s) ==
    /\ pc[r] = "capability"
    /\ Fault
    /\ pc'      = [pc EXCEPT ![r] = "wait"]
    /\ outcome' = [outcome EXCEPT ![r] = s]
    /\ UNCHANGED <<row, order, expected, visitor, attempt, message, inflight, stored, overran>>

SetWaiting(r) ==
    LET o == order[r] IN
    /\ pc[r] = "wait"
    /\ status' = [status EXCEPT ![o] =
                    IF @ \in {"sent", "sending", "reconciling"} THEN @ ELSE outcome[r]]
    /\ Return(r)
    /\ UNCHANGED <<boundTo, attempts, leased, receipt, inflight, stored, faults, overran>>

(* Mutants: the row is claimed whoever it is bound to; while its lease is  *)
(* live; only when nobody was sending it.                                  *)
ClaimableByAnyone(o, b) == status[o] # "sent" /\ ~leased[o]
ClaimableUnderLease(o, b) == boundTo[o] \in {NoBinding, b} /\ status[o] # "sent"
ClaimableUnlessSending(o, b) ==
    boundTo[o] \in {NoBinding, b} /\ status[o] \notin {"sent", "sending"}

Claimable(o, b) ==
    /\ boundTo[o] \in {NoBinding, b}
    /\ status[o] # "sent"
    /\ ~leased[o]

(* One transaction: bind the row, take the lease, number the attempt. *)
Claim(r) ==
    LET o == order[r] IN
    /\ pc[r] = "claim"
    /\ Claimable(o, visitor[r])
    /\ attempts[o] < MaxAttempts
    /\ boundTo'  = [boundTo EXCEPT ![o] = visitor[r]]
    /\ status'   = [status EXCEPT ![o] = "sending"]
    /\ attempts' = [attempts EXCEPT ![o] = @ + 1]
    /\ leased'   = [leased EXCEPT ![o] = TRUE]
    /\ pc'       = [pc EXCEPT ![r] = "post"]
    /\ attempt'  = [attempt EXCEPT ![r] = attempts[o] + 1]
    /\ UNCHANGED <<receipt, order, expected, visitor, outcome, message,
                   inflight, stored, faults, overran>>

(* Another visitor's row, a delivered order, or somebody else's lease. *)
ClaimDenied(r) ==
    /\ pc[r] = "claim"
    /\ ~Claimable(order[r], visitor[r])
    /\ Return(r)
    /\ UNCHANGED <<row, inflight, stored, faults, overran>>

Post(r) ==
    /\ pc[r] = "post"
    /\ pc' = [pc EXCEPT ![r] = "posting"]
    /\ inflight' = inflight \cup
         {[order |-> order[r], binding |-> visitor[r], attempt |-> attempt[r]]}
    /\ UNCHANGED <<row, order, expected, visitor, attempt, outcome, message, stored, faults, overran>>

(* Mutant: a POST without an answer counts as delivered. *)
UnknownIsSent == "sent"

(* handoffFailure of an error whose outcome is unknown. *)
UnknownOutcome == "reconciling"

(* Timeout, broken connection, unreadable or invalid receipt: the message  *)
(* may be stored, may never be, or may still be on its way.                *)
LoseAnswer(r) ==
    /\ pc[r] = "posting"
    /\ Fault
    /\ outcome' = [outcome EXCEPT ![r] = UnknownOutcome]
    /\ message' = [message EXCEPT ![r] = 0]
    /\ UNCHANGED <<row, pc, order, expected, visitor, attempt, inflight, stored, overran>>

Answered(r) == outcome[r] # "none"

(* Mutants: any attempt may save its failure; only the newest attempt may  *)
(* save its receipt.                                                       *)
FinishableByAnyAttempt(r) ==
    boundTo[order[r]] = visitor[r] /\ status[order[r]] # "sent"
FinishableByNewestOnly(r) ==
    /\ boundTo[order[r]] = visitor[r]
    /\ attempts[order[r]] = attempt[r]
    /\ status[order[r]] = "sending"

(* The UPDATE of FinishOrderSupportDelivery finds the row only for the     *)
(* current attempt, or for a receipt of any attempt that is still missing. *)
Finishable(r) ==
    LET o == order[r] IN
    /\ boundTo[o] = visitor[r]
    /\ \/ attempts[o] = attempt[r] /\ status[o] = "sending"
       \/ outcome[r] = "sent" /\ status[o] # "sent"

Finish(r) ==
    LET o == order[r] IN
    /\ pc[r] = "posting"
    /\ Answered(r)
    /\ Finishable(r)
    /\ status'  = [status EXCEPT ![o] = outcome[r]]
    /\ leased'  = [leased EXCEPT ![o] = FALSE]
    /\ receipt' = [receipt EXCEPT ![o] = message[r]]
    /\ Return(r)
    /\ UNCHANGED <<boundTo, attempts, inflight, stored, faults, overran>>

(* The UPDATE matches no row: a newer attempt or a receipt has come first. *)
FinishLate(r) ==
    /\ pc[r] = "posting"
    /\ Answered(r)
    /\ ~Finishable(r)
    /\ Return(r)
    /\ UNCHANGED <<row, inflight, stored, faults, overran>>

(* The process dies, or the detached save of the outcome fails: the row    *)
(* keeps its lease until that expires.                                     *)
Abandon(r) ==
    /\ pc[r] # "idle"
    /\ Fault
    /\ Return(r)
    /\ UNCHANGED <<row, inflight, stored, overran>>

Posting(r) == pc[r] \in {"post", "posting"}

Senders(o) == {r \in Requests : Posting(r) /\ order[r] = o /\ attempt[r] = attempts[o]}

(* The lease of a handler that is gone, or of one whose POST outlasts it:  *)
(* nothing bounds CHATWOOT_TIMEOUT_MS by the 30 s of a lease.              *)
LeaseExpires(o) ==
    /\ leased[o]
    /\ leased' = [leased EXCEPT ![o] = FALSE]
    /\ \/ Senders(o) = {} /\ UNCHANGED <<faults, overran>>
       \/ Senders(o) # {} /\ Fault /\ overran' = overran \cup {o}
    /\ UNCHANGED <<status, boundTo, attempts, receipt, request, inflight, stored>>

-----------------------------------------------------------------------------
(* The steps of Chatwoot.                                                  *)

(* The handler that still waits for the answer to POST p. *)
Awaits(r, p) ==
    /\ pc[r] = "posting"
    /\ outcome[r] = "none"
    /\ order[r] = p.order
    /\ attempt[r] = p.attempt

Answer(p, s, m) ==
    /\ outcome' = [r \in Requests |-> IF Awaits(r, p) THEN s ELSE outcome[r]]
    /\ message' = [r \in Requests |-> IF Awaits(r, p) THEN m ELSE message[r]]

Held(p) == IF stored[p.order] = NoMessage
           THEN [binding |-> p.binding, attempt |-> p.attempt]
           ELSE stored[p.order]

(* A new order id is stored; a known one is answered with its message,     *)
(* and refused when the conversation belongs to another visitor.           *)
Receive(p) ==
    /\ p \in inflight
    /\ inflight' = inflight \ {p}
    /\ stored' = [stored EXCEPT ![p.order] = Held(p)]
    /\ IF Held(p).binding = p.binding
       THEN Answer(p, "sent", Held(p).attempt)
       ELSE Answer(p, "action_required", 0)
    /\ UNCHANGED <<row, pc, order, expected, visitor, attempt, faults, overran>>

(* 4xx: nothing stored; 429 may be retried. *)
Refuse(p, s) ==
    /\ p \in inflight
    /\ Fault
    /\ inflight' = inflight \ {p}
    /\ Answer(p, s, 0)
    /\ UNCHANGED <<row, pc, order, expected, visitor, attempt, stored, overran>>

(* 5xx: the transaction may or may not have committed. *)
Break(p) ==
    /\ p \in inflight
    /\ Fault
    /\ inflight' = inflight \ {p}
    /\ \/ stored' = [stored EXCEPT ![p.order] = Held(p)]
       \/ UNCHANGED stored
    /\ Answer(p, "reconciling", 0)
    /\ UNCHANGED <<row, pc, order, expected, visitor, attempt, overran>>

-----------------------------------------------------------------------------
Website ==
    \/ \E o \in Orders : CreateOrder(o) \/ LeaseExpires(o)
    \/ \E r \in Requests, o \in Orders, e \in Bindings, v \in Visitors : Begin(r, o, e, v)
    \/ \E r \in Requests :
          \/ CapabilityVerified(r)
          \/ CapabilityMismatch(r)
          \/ \E s \in {"retry_wait", "action_required"} : CapabilityFailed(r, s)
          \/ SetWaiting(r)
          \/ Claim(r)
          \/ ClaimDenied(r)
          \/ Post(r)
          \/ LoseAnswer(r)
          \/ Finish(r)
          \/ FinishLate(r)
          \/ Abandon(r)

Chatwoot ==
    \E p \in inflight :
        \/ Receive(p)
        \/ \E s \in {"retry_wait", "action_required"} : Refuse(p, s)
        \/ Break(p)

Next == Website \/ Chatwoot

Spec == Init /\ [][Next]_vars

(* A started handler runs to its end (its HTTP client and its database     *)
(* calls have deadlines), clocks advance past leases, Chatwoot works off   *)
(* what it has received, and the visitor's page keeps retrying its order:  *)
(* strong fairness, because a slot of the bounded request pool may be in   *)
(* use whenever the page looks.                                            *)
Fairness ==
    /\ \A r \in Requests : WF_vars(\/ CapabilityVerified(r) \/ CapabilityMismatch(r)
                                   \/ SetWaiting(r) \/ Claim(r) \/ ClaimDenied(r)
                                   \/ Post(r) \/ Finish(r) \/ FinishLate(r))
    /\ \A o \in Orders : WF_vars(Senders(o) = {} /\ LeaseExpires(o))
    /\ WF_vars(\E p \in inflight : Receive(p))
    /\ \A o \in Orders, b \in Bindings : SF_vars(\E r \in Requests : Begin(r, o, b, b))

FairSpec == Spec /\ Fairness

-----------------------------------------------------------------------------
(* Properties.                                                             *)

TypeOK ==
    /\ status   \in [Orders -> Statuses \cup {"absent"}]
    /\ boundTo  \in [Orders -> Visitors]
    /\ attempts \in [Orders -> Nat]
    /\ leased   \in [Orders -> BOOLEAN]
    /\ receipt  \in [Orders -> Nat]
    /\ pc       \in [Requests -> {"idle", "wait", "capability", "claim", "post", "posting"}]
    /\ order    \in [Requests -> Orders \cup {NoOrder}]
    /\ expected \in [Requests -> Visitors]
    /\ visitor  \in [Requests -> Visitors]
    /\ attempt  \in [Requests -> Nat]
    /\ outcome  \in [Requests -> Waiting \cup {"reconciling", "sent", "none"}]
    /\ message  \in [Requests -> Nat]
    /\ inflight \subseteq Posts
    /\ stored   \in [Orders -> [binding : Bindings, attempt : Nat] \cup {NoMessage}]
    /\ faults   \in Nat
    /\ overran \subseteq Orders

(* What keeps ReceiptTruthful and OneVisitor true: a working handler has   *)
(* its row bound to its visitor and holds an attempt no other handler has, *)
(* a receipt in hand is the message at Chatwoot, and an order without a    *)
(* row has left no trace anywhere.                                         *)
RequestsConsistent ==
    \A r \in Requests :
        /\ pc[r] # "idle" => order[r] \in Orders /\ status[order[r]] # "absent"
        /\ pc[r] = "wait" => outcome[r] \in Waiting
        /\ pc[r] = "posting" => outcome[r] \in Failures \cup {"sent", "none"}
        /\ pc[r] \in {"idle", "capability", "claim", "post"} => outcome[r] = "none"
        /\ pc[r] \in {"capability", "claim"} => visitor[r] \in Bindings
        /\ Posting(r) =>
              /\ visitor[r] \in Bindings
              /\ boundTo[order[r]] = visitor[r]
              /\ attempt[r] <= attempts[order[r]]
        /\ outcome[r] = "sent" =>
              /\ stored[order[r]] # NoMessage
              /\ message[r] = stored[order[r]].attempt

AttemptsDistinct ==
    \A r, s \in Requests :
        Posting(r) /\ Posting(s) /\ order[r] = order[s] /\ attempt[r] = attempt[s] => r = s

AbsentIsBlank == \A o \in Orders : status[o] = "absent" => boundTo[o] = NoBinding

(* A delivery shown as sent is a message Chatwoot really holds, for the    *)
(* visitor the row is bound to, and the row names that message.  It must   *)
(* survive lost answers, late POSTs of abandoned attempts and retries.     *)
ReceiptTruthful ==
    \A o \in Orders :
        status[o] = "sent" => stored[o] = [binding |-> boundTo[o], attempt |-> receipt[o]]

(* Whatever is on its way to Chatwoot, or already there, for an order was  *)
(* posted for the visitor its row is bound to: two visitors never see the  *)
(* same order, even when their requests race for the first claim.          *)
OneVisitor ==
    \A o \in Orders :
        /\ \A p \in inflight : p.order = o => p.binding = boundTo[o]
        /\ stored[o] # NoMessage => stored[o].binding = boundTo[o]

(* While the handler of the newest attempt is at work, the row says so: no *)
(* older attempt, and no request that only reports a missing session,      *)
(* takes the row back to a state that hides the message being posted.      *)
CurrentAttemptShown ==
    \A r \in Requests :
        Posting(r) /\ attempt[r] = attempts[order[r]]
            => status[order[r]] \in {"sending", "sent"}

(* The inductive invariant of the proofs. *)
IInv ==
    /\ TypeOK
    /\ RequestsConsistent
    /\ AttemptsDistinct
    /\ AbsentIsBlank
    /\ CurrentAttemptShown
    /\ ReceiptTruthful
    /\ OneVisitor

(* "concurrent requests do not send at the same time", unless one of them  *)
(* took longer than its lease.                                             *)
OneSender ==
    \A r, s \in Requests :
        Posting(r) /\ Posting(s) /\ order[r] = order[s] /\ order[r] \notin overran => r = s

(* Why OneSender holds: whoever is posting holds the lease it claimed. *)
SenderLeased ==
    \A r \in Requests :
        Posting(r) /\ order[r] \notin overran =>
            leased[order[r]] /\ attempt[r] = attempts[order[r]]

(* The row's visitor is fixed by the first claim. *)
BindingKept == \A o \in Orders : boundTo[o] # NoBinding => boundTo'[o] = boundTo[o]
BindingImmutable == [][BindingKept]_vars

(* A saved receipt is final: no retry, late failure or missing session     *)
(* ever changes a sent row again.                                          *)
SentKept ==
    \A o \in Orders : status[o] = "sent" =>
        /\ status'[o] = "sent"
        /\ receipt'[o] = receipt[o]
        /\ attempts'[o] = attempts[o]
SentFinal == [][SentKept]_vars

(* A handler that got a receipt and saves it leaves the row sent, also     *)
(* when its lease was lost and other attempts were made since.             *)
ReceiptUsed ==
    \A r \in Requests :
        /\ pc[r] = "posting" /\ outcome[r] = "sent"
        /\ pc'[r] = "idle" /\ faults' = faults
        => status'[order[r]] = "sent"
ReceiptNeverDropped == [][ReceiptUsed]_vars

(* Once bound, an order whose visitor keeps retrying is delivered, whatever *)
(* finitely many failures, crashes and other visitors' requests happen.    *)
BoundIsDelivered ==
    \A o \in Orders : (boundTo[o] # NoBinding) ~> (status[o] = "sent")

-----------------------------------------------------------------------------
(* The customer's view of this system. *)
Promise == INSTANCE OrderDelivery WITH
    placed    <- {o \in Orders : status[o] # "absent"},
    mailed    <- {o \in Orders : stored[o] # NoMessage},
    confirmed <- {o \in Orders : status[o] = "sent"}

(* Every step of the website and of Chatwoot is a step of the promise. *)
KeepsPromise == Promise!Spec

=============================================================================
