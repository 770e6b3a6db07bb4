------------------------- MODULE OrderHandoffProofs -------------------------
(* Proofs about OrderHandoff for any orders, visitors, requests and bounds. *)
EXTENDS OrderHandoff, TLAPS

(* In the initial state there are no rows, requests or messages. *)
LEMMA InitEstablishesIInv == Init => IInv
  BY BindingAssumption, OrderAssumption, BoundAssumption
  DEF Init, IInv, TypeOK, RequestsConsistent, AttemptsDistinct, AbsentIsBlank,
      CurrentAttemptShown, ReceiptTruthful, OneVisitor, Posting, Statuses, Visitors

(* Every operation keeps every variable in its type. *)
LEMMA TypeStep == ASSUME IInv, [Next]_vars PROVE TypeOK'
<1> USE BindingAssumption, OrderAssumption, BoundAssumption
    DEF IInv, TypeOK, Statuses, Waiting, Visitors, row, request
<1>1. ASSUME NEW o \in Orders, CreateOrder(o) PROVE TypeOK'
  BY <1>1 DEF CreateOrder
<1>2. ASSUME NEW o \in Orders, LeaseExpires(o) PROVE TypeOK'
  BY <1>2 DEF LeaseExpires, Fault
<1>3. ASSUME NEW r \in Requests, NEW o \in Orders, NEW e \in Bindings, NEW v \in Visitors,
             Begin(r, o, e, v)
      PROVE TypeOK'
  BY <1>3 DEF Begin
<1>4. ASSUME NEW r \in Requests, CapabilityVerified(r) PROVE TypeOK'
  BY <1>4 DEF CapabilityVerified, Return
<1>5. ASSUME NEW r \in Requests, NEW s \in {"retry_wait", "action_required"},
             CapabilityFailed(r, s)
      PROVE TypeOK'
  BY <1>5 DEF CapabilityFailed, Fault
<1>6. ASSUME NEW r \in Requests, SetWaiting(r) PROVE TypeOK'
  <2>1. outcome[r] \in Waiting
    BY <1>6 DEF SetWaiting, RequestsConsistent
  <2>2. status' \in [Orders -> Statuses \cup {"absent"}]
    BY <1>6, <2>1 DEF SetWaiting
  <2> QED
    BY <1>6, <2>2 DEF SetWaiting, Return
<1>7. ASSUME NEW r \in Requests, Claim(r) PROVE TypeOK'
  <2>1. order[r] \in Orders /\ visitor[r] \in Bindings
    BY <1>7 DEF Claim, RequestsConsistent
  <2>2. attempts[order[r]] + 1 \in Nat
    BY <2>1
  <2> QED
    BY <1>7, <2>1, <2>2 DEF Claim
<1>8. ASSUME NEW r \in Requests, ClaimDenied(r) PROVE TypeOK'
  BY <1>8 DEF ClaimDenied, Return
<1>9. ASSUME NEW r \in Requests, CapabilityMismatch(r) PROVE TypeOK'
  BY <1>9 DEF CapabilityMismatch, Return
<1>10. ASSUME NEW r \in Requests, Post(r) PROVE TypeOK'
  BY <1>10 DEF Post, Posts, RequestsConsistent, Posting
<1>11. ASSUME NEW r \in Requests, LoseAnswer(r) PROVE TypeOK'
  BY <1>11 DEF LoseAnswer, Fault, UnknownOutcome
<1>12. ASSUME NEW r \in Requests, Finish(r) PROVE TypeOK'
  BY <1>12 DEF Finish, Finishable, Answered, Return, RequestsConsistent, Failures
<1>13. ASSUME NEW r \in Requests, FinishLate(r) PROVE TypeOK'
  BY <1>13 DEF FinishLate, Return
<1>14. ASSUME NEW r \in Requests, Abandon(r) PROVE TypeOK'
  BY <1>14 DEF Abandon, Fault, Return
<1>15. ASSUME NEW p \in inflight PROVE Held(p) \in [binding : Bindings, attempt : Nat]
  BY <1>15 DEF Held, Posts
<1>16. ASSUME NEW p \in inflight, Receive(p) PROVE TypeOK'
  BY <1>15, <1>16 DEF Receive, Answer, Posts
<1>17. ASSUME NEW p \in inflight, NEW s \in {"retry_wait", "action_required"}, Refuse(p, s)
       PROVE TypeOK'
  BY <1>17 DEF Refuse, Answer, Fault
<1>18. ASSUME NEW p \in inflight, Break(p) PROVE TypeOK'
  BY <1>15, <1>18 DEF Break, Answer, Fault, Posts
<1>19. CASE UNCHANGED vars
  BY <1>19 DEF vars
<1> QED
  BY <1>1, <1>2, <1>3, <1>4, <1>5, <1>6, <1>7, <1>8, <1>9,
     <1>10, <1>11,
     <1>12, <1>13, <1>14, <1>16, <1>17, <1>18, <1>19
  DEF Next, Website, Chatwoot

(* Every operation keeps the handlers consistent with their rows: Chatwoot's
   answer reaches only the handler that awaits it, and no step moves a row
   away from a handler that is posting for it. *)
LEMMA RequestsStep == ASSUME IInv, [Next]_vars PROVE RequestsConsistent'
<1> USE BindingAssumption, OrderAssumption, BoundAssumption, MessageAssumption
    DEF IInv, TypeOK, Statuses, Waiting, Failures, Visitors, row, request,
        RequestsConsistent, Posting
<1>1. ASSUME NEW o \in Orders, CreateOrder(o) PROVE RequestsConsistent'
  BY <1>1 DEF CreateOrder
<1>2. ASSUME NEW o \in Orders, LeaseExpires(o) PROVE RequestsConsistent'
  BY <1>2 DEF LeaseExpires
<1>3. ASSUME NEW r \in Requests, NEW o \in Orders, NEW e \in Bindings, NEW v \in Visitors,
             Begin(r, o, e, v) PROVE RequestsConsistent'
  BY <1>3 DEF Begin
<1>4. ASSUME NEW r \in Requests, CapabilityVerified(r) PROVE RequestsConsistent'
  BY <1>4 DEF CapabilityVerified
<1>5. ASSUME NEW r \in Requests, CapabilityMismatch(r) PROVE RequestsConsistent'
  BY <1>5 DEF CapabilityMismatch, Return
<1>6. ASSUME NEW r \in Requests, NEW s \in {"retry_wait", "action_required"},
             CapabilityFailed(r, s) PROVE RequestsConsistent'
  BY <1>6 DEF CapabilityFailed, Fault
<1>7. ASSUME NEW r \in Requests, SetWaiting(r) PROVE RequestsConsistent'
  BY <1>7 DEF SetWaiting, Return
<1>8. ASSUME NEW r \in Requests, Claim(r) PROVE RequestsConsistent'
  BY <1>8 DEF Claim, Claimable
<1>9. ASSUME NEW r \in Requests, ClaimDenied(r) PROVE RequestsConsistent'
  BY <1>9 DEF ClaimDenied, Return
<1>10. ASSUME NEW r \in Requests, Post(r) PROVE RequestsConsistent'
  BY <1>10 DEF Post
<1>11. ASSUME NEW r \in Requests, LoseAnswer(r) PROVE RequestsConsistent'
  BY <1>11 DEF LoseAnswer, Fault, UnknownOutcome
<1>12. ASSUME NEW r \in Requests, Finish(r) PROVE RequestsConsistent'
  BY <1>12 DEF Finish, Finishable, Answered, Return
<1>13. ASSUME NEW r \in Requests, FinishLate(r) PROVE RequestsConsistent'
  BY <1>13 DEF FinishLate, Return
<1>14. ASSUME NEW r \in Requests, Abandon(r) PROVE RequestsConsistent'
  BY <1>14 DEF Abandon, Fault, Return
<1>15. ASSUME NEW p \in inflight, Receive(p) PROVE RequestsConsistent'
  BY <1>15 DEF Receive, Held, Answer, Awaits, Posts
<1>16. ASSUME NEW p \in inflight, NEW s \in {"retry_wait", "action_required"},
             Refuse(p, s) PROVE RequestsConsistent'
  BY <1>16 DEF Refuse, Fault, Answer, Awaits, Posts
<1>17. ASSUME NEW p \in inflight, Break(p) PROVE RequestsConsistent'
  <2>1. Held(p) \in [binding : Bindings, attempt : Nat] /\ Held(p) # NoMessage
    BY <1>17 DEF Held, Posts
  <2>2. \A o \in Orders : stored[o] # NoMessage => stored'[o] = stored[o]
    BY <1>17 DEF Break, Held, Posts
  <2>3. \A q \in Requests :
          /\ outcome'[q] = "sent" => outcome[q] = "sent" /\ message'[q] = message[q]
          /\ pc[q] # "posting" => outcome'[q] = outcome[q]
          /\ outcome'[q] \in {outcome[q], "reconciling"}
    BY <1>17 DEF Break, Answer, Awaits
  <2>4. UNCHANGED <<status, boundTo, attempts, pc, order, visitor, attempt>>
    BY <1>17 DEF Break
  <2>5. \A q \in Requests : outcome[q] = "sent" => order[q] \in Orders
    OBVIOUS
  <2> QED
    BY <2>2, <2>3, <2>4, <2>5
<1>18. CASE UNCHANGED vars
  BY <1>18 DEF vars
<1> QED
  BY <1>1, <1>2, <1>3, <1>4, <1>5, <1>6, <1>7, <1>8, <1>9,
     <1>10, <1>11, <1>12, <1>13, <1>14, <1>15, <1>16, <1>17, <1>18
  DEF Next, Website, Chatwoot

(* An attempt number is handed out once: Claim increments the counter of the
   row in the transaction that reads it. *)
LEMMA DistinctStep == ASSUME IInv, [Next]_vars PROVE AttemptsDistinct'
<1> USE BindingAssumption, OrderAssumption, BoundAssumption, MessageAssumption
    DEF IInv, TypeOK, Statuses, Waiting, Failures, Visitors, row, request,
        RequestsConsistent, AttemptsDistinct, Posting
<1>1. ASSUME NEW o \in Orders, CreateOrder(o) PROVE AttemptsDistinct'
  BY <1>1 DEF CreateOrder
<1>2. ASSUME NEW o \in Orders, LeaseExpires(o) PROVE AttemptsDistinct'
  BY <1>2 DEF LeaseExpires
<1>3. ASSUME NEW r \in Requests, NEW o \in Orders, NEW e \in Bindings, NEW v \in Visitors,
             Begin(r, o, e, v) PROVE AttemptsDistinct'
  BY <1>3 DEF Begin
<1>4. ASSUME NEW r \in Requests, CapabilityVerified(r) PROVE AttemptsDistinct'
  BY <1>4 DEF CapabilityVerified
<1>5. ASSUME NEW r \in Requests, CapabilityMismatch(r) PROVE AttemptsDistinct'
  BY <1>5 DEF CapabilityMismatch, Return
<1>6. ASSUME NEW r \in Requests, NEW s \in {"retry_wait", "action_required"},
             CapabilityFailed(r, s) PROVE AttemptsDistinct'
  BY <1>6 DEF CapabilityFailed, Fault
<1>7. ASSUME NEW r \in Requests, SetWaiting(r) PROVE AttemptsDistinct'
  BY <1>7 DEF SetWaiting, Return
<1>8. ASSUME NEW r \in Requests, Claim(r) PROVE AttemptsDistinct'
  BY <1>8 DEF Claim, Claimable
<1>9. ASSUME NEW r \in Requests, ClaimDenied(r) PROVE AttemptsDistinct'
  BY <1>9 DEF ClaimDenied, Return
<1>10. ASSUME NEW r \in Requests, Post(r) PROVE AttemptsDistinct'
  BY <1>10 DEF Post
<1>11. ASSUME NEW r \in Requests, LoseAnswer(r) PROVE AttemptsDistinct'
  BY <1>11 DEF LoseAnswer, Fault, UnknownOutcome
<1>12. ASSUME NEW r \in Requests, Finish(r) PROVE AttemptsDistinct'
  BY <1>12 DEF Finish, Finishable, Answered, Return
<1>13. ASSUME NEW r \in Requests, FinishLate(r) PROVE AttemptsDistinct'
  BY <1>13 DEF FinishLate, Return
<1>14. ASSUME NEW r \in Requests, Abandon(r) PROVE AttemptsDistinct'
  BY <1>14 DEF Abandon, Fault, Return
<1>15. ASSUME NEW p \in inflight, Receive(p) PROVE AttemptsDistinct'
  BY <1>15 DEF Receive, Held, Answer, Awaits, Posts
<1>16. ASSUME NEW p \in inflight, NEW s \in {"retry_wait", "action_required"},
             Refuse(p, s) PROVE AttemptsDistinct'
  BY <1>16 DEF Refuse, Fault, Answer, Awaits, Posts
<1>17. ASSUME NEW p \in inflight, Break(p) PROVE AttemptsDistinct'
  BY <1>17 DEF Break, Held, Fault, Answer, Awaits, Posts
<1>18. CASE UNCHANGED vars
  BY <1>18 DEF vars
<1> QED
  BY <1>1, <1>2, <1>3, <1>4, <1>5, <1>6, <1>7, <1>8, <1>9,
     <1>10, <1>11, <1>12, <1>13, <1>14, <1>15, <1>16, <1>17, <1>18
  DEF Next, Website, Chatwoot

(* Only Claim binds a row, and it needs a handler of an existing order. *)
LEMMA AbsentStep == ASSUME IInv, [Next]_vars PROVE AbsentIsBlank'
<1> USE BindingAssumption, OrderAssumption, BoundAssumption, MessageAssumption
    DEF IInv, TypeOK, Statuses, Waiting, Failures, Visitors, row, request,
        RequestsConsistent, AbsentIsBlank, Posting
<1>1. ASSUME NEW o \in Orders, CreateOrder(o) PROVE AbsentIsBlank'
  BY <1>1 DEF CreateOrder
<1>2. ASSUME NEW o \in Orders, LeaseExpires(o) PROVE AbsentIsBlank'
  BY <1>2 DEF LeaseExpires
<1>3. ASSUME NEW r \in Requests, NEW o \in Orders, NEW e \in Bindings, NEW v \in Visitors,
             Begin(r, o, e, v) PROVE AbsentIsBlank'
  BY <1>3 DEF Begin
<1>4. ASSUME NEW r \in Requests, CapabilityVerified(r) PROVE AbsentIsBlank'
  BY <1>4 DEF CapabilityVerified
<1>5. ASSUME NEW r \in Requests, CapabilityMismatch(r) PROVE AbsentIsBlank'
  BY <1>5 DEF CapabilityMismatch, Return
<1>6. ASSUME NEW r \in Requests, NEW s \in {"retry_wait", "action_required"},
             CapabilityFailed(r, s) PROVE AbsentIsBlank'
  BY <1>6 DEF CapabilityFailed, Fault
<1>7. ASSUME NEW r \in Requests, SetWaiting(r) PROVE AbsentIsBlank'
  BY <1>7 DEF SetWaiting, Return
<1>8. ASSUME NEW r \in Requests, Claim(r) PROVE AbsentIsBlank'
  BY <1>8 DEF Claim, Claimable
<1>9. ASSUME NEW r \in Requests, ClaimDenied(r) PROVE AbsentIsBlank'
  BY <1>9 DEF ClaimDenied, Return
<1>10. ASSUME NEW r \in Requests, Post(r) PROVE AbsentIsBlank'
  BY <1>10 DEF Post
<1>11. ASSUME NEW r \in Requests, LoseAnswer(r) PROVE AbsentIsBlank'
  BY <1>11 DEF LoseAnswer, Fault, UnknownOutcome
<1>12. ASSUME NEW r \in Requests, Finish(r) PROVE AbsentIsBlank'
  BY <1>12 DEF Finish, Finishable, Answered, Return
<1>13. ASSUME NEW r \in Requests, FinishLate(r) PROVE AbsentIsBlank'
  BY <1>13 DEF FinishLate, Return
<1>14. ASSUME NEW r \in Requests, Abandon(r) PROVE AbsentIsBlank'
  BY <1>14 DEF Abandon, Fault, Return
<1>15. ASSUME NEW p \in inflight, Receive(p) PROVE AbsentIsBlank'
  BY <1>15 DEF Receive, Held, Answer, Awaits, Posts
<1>16. ASSUME NEW p \in inflight, NEW s \in {"retry_wait", "action_required"},
             Refuse(p, s) PROVE AbsentIsBlank'
  BY <1>16 DEF Refuse, Fault, Answer, Awaits, Posts
<1>17. ASSUME NEW p \in inflight, Break(p) PROVE AbsentIsBlank'
  BY <1>17 DEF Break, Held, Fault, Answer, Awaits, Posts
<1>18. CASE UNCHANGED vars
  BY <1>18 DEF vars
<1> QED
  BY <1>1, <1>2, <1>3, <1>4, <1>5, <1>6, <1>7, <1>8, <1>9,
     <1>10, <1>11, <1>12, <1>13, <1>14, <1>15, <1>16, <1>17, <1>18
  DEF Next, Website, Chatwoot

(* No operation other than the newest attempt's own Finish takes the row out
   of sending: SetWaiting leaves it alone, Finish of an older attempt needs a
   receipt. *)
LEMMA ShownStep == ASSUME IInv, [Next]_vars PROVE CurrentAttemptShown'
<1> USE BindingAssumption, OrderAssumption, BoundAssumption, MessageAssumption
    DEF IInv, TypeOK, Statuses, Waiting, Failures, Visitors, row, request,
        RequestsConsistent, AttemptsDistinct, CurrentAttemptShown, Posting
<1>1. ASSUME NEW o \in Orders, CreateOrder(o) PROVE CurrentAttemptShown'
  BY <1>1 DEF CreateOrder
<1>2. ASSUME NEW o \in Orders, LeaseExpires(o) PROVE CurrentAttemptShown'
  BY <1>2 DEF LeaseExpires
<1>3. ASSUME NEW r \in Requests, NEW o \in Orders, NEW e \in Bindings, NEW v \in Visitors,
             Begin(r, o, e, v) PROVE CurrentAttemptShown'
  BY <1>3 DEF Begin
<1>4. ASSUME NEW r \in Requests, CapabilityVerified(r) PROVE CurrentAttemptShown'
  BY <1>4 DEF CapabilityVerified
<1>5. ASSUME NEW r \in Requests, CapabilityMismatch(r) PROVE CurrentAttemptShown'
  BY <1>5 DEF CapabilityMismatch, Return
<1>6. ASSUME NEW r \in Requests, NEW s \in {"retry_wait", "action_required"},
             CapabilityFailed(r, s) PROVE CurrentAttemptShown'
  BY <1>6 DEF CapabilityFailed, Fault
<1>7. ASSUME NEW r \in Requests, SetWaiting(r) PROVE CurrentAttemptShown'
  BY <1>7 DEF SetWaiting, Return
<1>8. ASSUME NEW r \in Requests, Claim(r) PROVE CurrentAttemptShown'
  BY <1>8 DEF Claim, Claimable
<1>9. ASSUME NEW r \in Requests, ClaimDenied(r) PROVE CurrentAttemptShown'
  BY <1>9 DEF ClaimDenied, Return
<1>10. ASSUME NEW r \in Requests, Post(r) PROVE CurrentAttemptShown'
  BY <1>10 DEF Post
<1>11. ASSUME NEW r \in Requests, LoseAnswer(r) PROVE CurrentAttemptShown'
  BY <1>11 DEF LoseAnswer, Fault, UnknownOutcome
<1>12. ASSUME NEW r \in Requests, Finish(r) PROVE CurrentAttemptShown'
  BY <1>12 DEF Finish, Finishable, Answered, Return
<1>13. ASSUME NEW r \in Requests, FinishLate(r) PROVE CurrentAttemptShown'
  BY <1>13 DEF FinishLate, Return
<1>14. ASSUME NEW r \in Requests, Abandon(r) PROVE CurrentAttemptShown'
  BY <1>14 DEF Abandon, Fault, Return
<1>15. ASSUME NEW p \in inflight, Receive(p) PROVE CurrentAttemptShown'
  BY <1>15 DEF Receive, Held, Answer, Awaits, Posts
<1>16. ASSUME NEW p \in inflight, NEW s \in {"retry_wait", "action_required"},
             Refuse(p, s) PROVE CurrentAttemptShown'
  BY <1>16 DEF Refuse, Fault, Answer, Awaits, Posts
<1>17. ASSUME NEW p \in inflight, Break(p) PROVE CurrentAttemptShown'
  BY <1>17 DEF Break, Held, Fault, Answer, Awaits, Posts
<1>18. CASE UNCHANGED vars
  BY <1>18 DEF vars
<1> QED
  BY <1>1, <1>2, <1>3, <1>4, <1>5, <1>6, <1>7, <1>8, <1>9,
     <1>10, <1>11, <1>12, <1>13, <1>14, <1>15, <1>16, <1>17, <1>18
  DEF Next, Website, Chatwoot

(* A row becomes sent only with the message Chatwoot holds, and Chatwoot's
   message and the visitor of the row never change afterwards. *)
LEMMA TruthfulStep == ASSUME IInv, [Next]_vars PROVE ReceiptTruthful'
<1> USE BindingAssumption, OrderAssumption, BoundAssumption, MessageAssumption
    DEF IInv, TypeOK, Statuses, Waiting, Failures, Visitors, row, request,
        RequestsConsistent, ReceiptTruthful, OneVisitor, Posting
<1>1. ASSUME NEW o \in Orders, CreateOrder(o) PROVE ReceiptTruthful'
  BY <1>1 DEF CreateOrder
<1>2. ASSUME NEW o \in Orders, LeaseExpires(o) PROVE ReceiptTruthful'
  BY <1>2 DEF LeaseExpires
<1>3. ASSUME NEW r \in Requests, NEW o \in Orders, NEW e \in Bindings, NEW v \in Visitors,
             Begin(r, o, e, v) PROVE ReceiptTruthful'
  BY <1>3 DEF Begin
<1>4. ASSUME NEW r \in Requests, CapabilityVerified(r) PROVE ReceiptTruthful'
  BY <1>4 DEF CapabilityVerified
<1>5. ASSUME NEW r \in Requests, CapabilityMismatch(r) PROVE ReceiptTruthful'
  BY <1>5 DEF CapabilityMismatch, Return
<1>6. ASSUME NEW r \in Requests, NEW s \in {"retry_wait", "action_required"},
             CapabilityFailed(r, s) PROVE ReceiptTruthful'
  BY <1>6 DEF CapabilityFailed, Fault
<1>7. ASSUME NEW r \in Requests, SetWaiting(r) PROVE ReceiptTruthful'
  BY <1>7 DEF SetWaiting, Return
<1>8. ASSUME NEW r \in Requests, Claim(r) PROVE ReceiptTruthful'
  BY <1>8 DEF Claim, Claimable
<1>9. ASSUME NEW r \in Requests, ClaimDenied(r) PROVE ReceiptTruthful'
  BY <1>9 DEF ClaimDenied, Return
<1>10. ASSUME NEW r \in Requests, Post(r) PROVE ReceiptTruthful'
  BY <1>10 DEF Post
<1>11. ASSUME NEW r \in Requests, LoseAnswer(r) PROVE ReceiptTruthful'
  BY <1>11 DEF LoseAnswer, Fault, UnknownOutcome
<1>12. ASSUME NEW r \in Requests, Finish(r) PROVE ReceiptTruthful'
  BY <1>12 DEF Finish, Finishable, Answered, Return
<1>13. ASSUME NEW r \in Requests, FinishLate(r) PROVE ReceiptTruthful'
  BY <1>13 DEF FinishLate, Return
<1>14. ASSUME NEW r \in Requests, Abandon(r) PROVE ReceiptTruthful'
  BY <1>14 DEF Abandon, Fault, Return
<1>15. ASSUME NEW p \in inflight, Receive(p) PROVE ReceiptTruthful'
  BY <1>15 DEF Receive, Held, Answer, Awaits, Posts
<1>16. ASSUME NEW p \in inflight, NEW s \in {"retry_wait", "action_required"},
             Refuse(p, s) PROVE ReceiptTruthful'
  BY <1>16 DEF Refuse, Fault, Answer, Awaits, Posts
<1>17. ASSUME NEW p \in inflight, Break(p) PROVE ReceiptTruthful'
  BY <1>17 DEF Break, Held, Fault, Answer, Awaits, Posts
<1>18. CASE UNCHANGED vars
  BY <1>18 DEF vars
<1> HIDE DEF IInv, TypeOK, ReceiptTruthful
<1> QED
  BY <1>1, <1>2, <1>3, <1>4, <1>5, <1>6, <1>7, <1>8, <1>9,
     <1>10, <1>11, <1>12, <1>13, <1>14, <1>15, <1>16, <1>17, <1>18
  DEF Next, Website, Chatwoot

(* POSTs and messages carry the visitor their row is bound to. *)
LEMMA VisitorStep == ASSUME IInv, [Next]_vars PROVE OneVisitor'
<1> USE BindingAssumption, OrderAssumption, BoundAssumption, MessageAssumption
    DEF IInv, TypeOK, Statuses, Waiting, Failures, Visitors, row, request,
        RequestsConsistent, AbsentIsBlank, OneVisitor, Posting
<1>1. ASSUME NEW o \in Orders, CreateOrder(o) PROVE OneVisitor'
  BY <1>1 DEF CreateOrder
<1>2. ASSUME NEW o \in Orders, LeaseExpires(o) PROVE OneVisitor'
  BY <1>2 DEF LeaseExpires
<1>3. ASSUME NEW r \in Requests, NEW o \in Orders, NEW e \in Bindings, NEW v \in Visitors,
             Begin(r, o, e, v) PROVE OneVisitor'
  BY <1>3 DEF Begin
<1>4. ASSUME NEW r \in Requests, CapabilityVerified(r) PROVE OneVisitor'
  BY <1>4 DEF CapabilityVerified
<1>5. ASSUME NEW r \in Requests, CapabilityMismatch(r) PROVE OneVisitor'
  BY <1>5 DEF CapabilityMismatch, Return
<1>6. ASSUME NEW r \in Requests, NEW s \in {"retry_wait", "action_required"},
             CapabilityFailed(r, s) PROVE OneVisitor'
  BY <1>6 DEF CapabilityFailed, Fault
<1>7. ASSUME NEW r \in Requests, SetWaiting(r) PROVE OneVisitor'
  BY <1>7 DEF SetWaiting, Return
<1>8. ASSUME NEW r \in Requests, Claim(r) PROVE OneVisitor'
  <2>1. order[r] \in Orders /\ visitor[r] \in Bindings
    BY <1>8 DEF Claim
  <2>2. \A o \in Orders : boundTo[o] # NoBinding => boundTo'[o] = boundTo[o]
    BY <1>8 DEF Claim, Claimable
  <2>3. inflight' = inflight /\ stored' = stored
    BY <1>8 DEF Claim
  <2> QED
    BY <2>2, <2>3 DEF Posts
<1>9. ASSUME NEW r \in Requests, ClaimDenied(r) PROVE OneVisitor'
  BY <1>9 DEF ClaimDenied, Return
<1>10. ASSUME NEW r \in Requests, Post(r) PROVE OneVisitor'
  BY <1>10 DEF Post
<1>11. ASSUME NEW r \in Requests, LoseAnswer(r) PROVE OneVisitor'
  BY <1>11 DEF LoseAnswer, Fault, UnknownOutcome
<1>12. ASSUME NEW r \in Requests, Finish(r) PROVE OneVisitor'
  BY <1>12 DEF Finish, Finishable, Answered, Return
<1>13. ASSUME NEW r \in Requests, FinishLate(r) PROVE OneVisitor'
  BY <1>13 DEF FinishLate, Return
<1>14. ASSUME NEW r \in Requests, Abandon(r) PROVE OneVisitor'
  BY <1>14 DEF Abandon, Fault, Return
<1>15. ASSUME NEW p \in inflight, Receive(p) PROVE OneVisitor'
  BY <1>15 DEF Receive, Held, Answer, Awaits, Posts
<1>16. ASSUME NEW p \in inflight, NEW s \in {"retry_wait", "action_required"},
             Refuse(p, s) PROVE OneVisitor'
  BY <1>16 DEF Refuse, Fault, Answer, Awaits, Posts
<1>17. ASSUME NEW p \in inflight, Break(p) PROVE OneVisitor'
  BY <1>17 DEF Break, Held, Fault, Answer, Awaits, Posts
<1>18. CASE UNCHANGED vars
  BY <1>18 DEF vars
<1> QED
  BY <1>1, <1>2, <1>3, <1>4, <1>5, <1>6, <1>7, <1>8, <1>9,
     <1>10, <1>11, <1>12, <1>13, <1>14, <1>15, <1>16, <1>17, <1>18
  DEF Next, Website, Chatwoot

(* The inductive invariant is preserved by every step ... *)
LEMMA IInvStep == ASSUME IInv, [Next]_vars PROVE IInv'
  BY TypeStep, RequestsStep, DistinctStep, AbsentStep, ShownStep, TruthfulStep, VisitorStep DEF IInv

(* ... and so holds in every reachable state. *)
THEOREM Invariance == Spec => []IInv
<1>1. Init => IInv
  BY InitEstablishesIInv
<1>2. IInv /\ [Next]_vars => IInv'
  BY IInvStep
<1> QED
  BY <1>1, <1>2, PTL DEF Spec

(* Rows, handlers and messages keep their types. *)
THEOREM TypeCorrect == Spec => []TypeOK
<1>1. IInv => TypeOK
  BY DEF IInv
<1> QED
  BY <1>1, Invariance, PTL

(* A row shown as sent is a message at Chatwoot, for the row's visitor. *)
THEOREM SentIsDelivered == Spec => []ReceiptTruthful
<1>1. IInv => ReceiptTruthful
  BY DEF IInv
<1> QED
  BY <1>1, Invariance, PTL

(* Nothing is ever posted for an order to anybody but its visitor. *)
THEOREM SingleVisitor == Spec => []OneVisitor
<1>1. IInv => OneVisitor
  BY DEF IInv
<1> QED
  BY <1>1, Invariance, PTL

(* A row does not hide the message its newest attempt is posting. *)
THEOREM SendingIsShown == Spec => []CurrentAttemptShown
<1>1. IInv => CurrentAttemptShown
  BY DEF IInv
<1> QED
  BY <1>1, Invariance, PTL

(* While no POST has outlasted its lease, nobody claims an order under the
   handler that posts it, and Finish returns only the lease of its own
   attempt. *)
LEMMA LeasedStep ==
  ASSUME IInv, SenderLeased, [Next]_vars
  PROVE  SenderLeased'
<1> USE BindingAssumption, OrderAssumption, BoundAssumption, MessageAssumption
    DEF IInv, TypeOK, Statuses, Waiting, Failures, Visitors, row, request,
        RequestsConsistent, AttemptsDistinct, SenderLeased, Posting
<1>1. ASSUME NEW o \in Orders, CreateOrder(o) PROVE SenderLeased'
  BY <1>1 DEF CreateOrder
<1>2. ASSUME NEW o \in Orders, LeaseExpires(o) PROVE SenderLeased'
  BY <1>2 DEF LeaseExpires, Senders
<1>3. ASSUME NEW r \in Requests, NEW o \in Orders, NEW e \in Bindings, NEW v \in Visitors,
             Begin(r, o, e, v) PROVE SenderLeased'
  BY <1>3 DEF Begin
<1>4. ASSUME NEW r \in Requests, CapabilityVerified(r) PROVE SenderLeased'
  BY <1>4 DEF CapabilityVerified
<1>5. ASSUME NEW r \in Requests, CapabilityMismatch(r) PROVE SenderLeased'
  BY <1>5 DEF CapabilityMismatch, Return
<1>6. ASSUME NEW r \in Requests, NEW s \in {"retry_wait", "action_required"},
             CapabilityFailed(r, s) PROVE SenderLeased'
  BY <1>6 DEF CapabilityFailed, Fault
<1>7. ASSUME NEW r \in Requests, SetWaiting(r) PROVE SenderLeased'
  BY <1>7 DEF SetWaiting, Return
<1>8. ASSUME NEW r \in Requests, Claim(r) PROVE SenderLeased'
  BY <1>8 DEF Claim, Claimable
<1>9. ASSUME NEW r \in Requests, ClaimDenied(r) PROVE SenderLeased'
  BY <1>9 DEF ClaimDenied, Return
<1>10. ASSUME NEW r \in Requests, Post(r) PROVE SenderLeased'
  BY <1>10 DEF Post
<1>11. ASSUME NEW r \in Requests, LoseAnswer(r) PROVE SenderLeased'
  BY <1>11 DEF LoseAnswer, Fault, UnknownOutcome
<1>12. ASSUME NEW r \in Requests, Finish(r) PROVE SenderLeased'
  BY <1>12 DEF Finish, Finishable, Answered, Return
<1>13. ASSUME NEW r \in Requests, FinishLate(r) PROVE SenderLeased'
  BY <1>13 DEF FinishLate, Return
<1>14. ASSUME NEW r \in Requests, Abandon(r) PROVE SenderLeased'
  BY <1>14 DEF Abandon, Fault, Return
<1>15. ASSUME NEW p \in inflight, Receive(p) PROVE SenderLeased'
  BY <1>15 DEF Receive, Held, Answer, Awaits, Posts
<1>16. ASSUME NEW p \in inflight, NEW s \in {"retry_wait", "action_required"},
             Refuse(p, s) PROVE SenderLeased'
  BY <1>16 DEF Refuse, Fault, Answer, Awaits, Posts
<1>17. ASSUME NEW p \in inflight, Break(p) PROVE SenderLeased'
  BY <1>17 DEF Break, Held, Fault, Answer, Awaits, Posts
<1>18. CASE UNCHANGED vars
  BY <1>18 DEF vars
<1> QED
  BY <1>1, <1>2, <1>3, <1>4, <1>5, <1>6, <1>7, <1>8, <1>9,
     <1>10, <1>11, <1>12, <1>13, <1>14, <1>15, <1>16, <1>17, <1>18
  DEF Next, Website, Chatwoot

(* An order has one sender, unless one has outlasted its lease. *)
THEOREM SingleSender == Spec => []OneSender
<1>1. Init => SenderLeased
  BY DEF Init, SenderLeased, Posting
<1>2. IInv /\ SenderLeased /\ [Next]_vars => SenderLeased'
  BY LeasedStep
<1>3. IInv /\ SenderLeased => OneSender
  BY DEF IInv, AttemptsDistinct, SenderLeased, OneSender
<1> QED
  BY <1>1, <1>2, <1>3, Invariance, PTL DEF Spec

(* Claim needs an unbound row or one bound to its own visitor; no other
   operation writes binding_id. *)
LEMMA BindingStep ==
  ASSUME IInv, [Next]_vars
  PROVE  BindingKept
<1> USE BindingAssumption, MessageAssumption DEF IInv, TypeOK, Statuses, Waiting, Failures, Visitors, row, request,
        RequestsConsistent, Posting, BindingKept
<1>1. ASSUME NEW o \in Orders, CreateOrder(o) PROVE BindingKept
  BY <1>1 DEF CreateOrder
<1>2. ASSUME NEW o \in Orders, LeaseExpires(o) PROVE BindingKept
  BY <1>2 DEF LeaseExpires
<1>3. ASSUME NEW r \in Requests, NEW o \in Orders, NEW e \in Bindings, NEW v \in Visitors,
             Begin(r, o, e, v) PROVE BindingKept
  BY <1>3 DEF Begin
<1>4. ASSUME NEW r \in Requests, CapabilityVerified(r) PROVE BindingKept
  BY <1>4 DEF CapabilityVerified
<1>5. ASSUME NEW r \in Requests, CapabilityMismatch(r) PROVE BindingKept
  BY <1>5 DEF CapabilityMismatch, Return
<1>6. ASSUME NEW r \in Requests, NEW s \in {"retry_wait", "action_required"},
             CapabilityFailed(r, s) PROVE BindingKept
  BY <1>6 DEF CapabilityFailed, Fault
<1>7. ASSUME NEW r \in Requests, SetWaiting(r) PROVE BindingKept
  BY <1>7 DEF SetWaiting, Return
<1>8. ASSUME NEW r \in Requests, Claim(r) PROVE BindingKept
  BY <1>8 DEF Claim, Claimable
<1>9. ASSUME NEW r \in Requests, ClaimDenied(r) PROVE BindingKept
  BY <1>9 DEF ClaimDenied, Return
<1>10. ASSUME NEW r \in Requests, Post(r) PROVE BindingKept
  BY <1>10 DEF Post
<1>11. ASSUME NEW r \in Requests, LoseAnswer(r) PROVE BindingKept
  BY <1>11 DEF LoseAnswer, Fault, UnknownOutcome
<1>12. ASSUME NEW r \in Requests, Finish(r) PROVE BindingKept
  BY <1>12 DEF Finish, Finishable, Answered, Return
<1>13. ASSUME NEW r \in Requests, FinishLate(r) PROVE BindingKept
  BY <1>13 DEF FinishLate, Return
<1>14. ASSUME NEW r \in Requests, Abandon(r) PROVE BindingKept
  BY <1>14 DEF Abandon, Fault, Return
<1>15. ASSUME NEW p \in inflight, Receive(p) PROVE BindingKept
  BY <1>15 DEF Receive, Held, Answer, Awaits, Posts
<1>16. ASSUME NEW p \in inflight, NEW s \in {"retry_wait", "action_required"},
             Refuse(p, s) PROVE BindingKept
  BY <1>16 DEF Refuse, Fault, Answer, Awaits, Posts
<1>17. ASSUME NEW p \in inflight, Break(p) PROVE BindingKept
  BY <1>17 DEF Break, Held, Fault, Answer, Awaits, Posts
<1>18. CASE UNCHANGED vars
  BY <1>18 DEF vars
<1> HIDE DEF BindingKept
<1> QED
  BY <1>1, <1>2, <1>3, <1>4, <1>5, <1>6, <1>7, <1>8, <1>9,
     <1>10, <1>11, <1>12, <1>13, <1>14, <1>15, <1>16, <1>17, <1>18
  DEF Next, Website, Chatwoot

(* Once bound, a row keeps its visitor. *)
THEOREM BindingFixed == Spec => BindingImmutable
<1>1. IInv /\ [Next]_vars => [BindingKept]_vars
  BY BindingStep
<1> QED
  BY <1>1, Invariance, PTL DEF Spec, BindingImmutable

(* Neither Claim nor Finish nor SetWaiting touches a sent row. *)
LEMMA SentStep ==
  ASSUME IInv, [Next]_vars
  PROVE  SentKept
<1> USE BindingAssumption, MessageAssumption DEF IInv, TypeOK, Statuses, Waiting, Failures, Visitors, row, request,
        RequestsConsistent, Posting, SentKept
<1>1. ASSUME NEW o \in Orders, CreateOrder(o) PROVE SentKept
  BY <1>1 DEF CreateOrder
<1>2. ASSUME NEW o \in Orders, LeaseExpires(o) PROVE SentKept
  BY <1>2 DEF LeaseExpires
<1>3. ASSUME NEW r \in Requests, NEW o \in Orders, NEW e \in Bindings, NEW v \in Visitors,
             Begin(r, o, e, v) PROVE SentKept
  BY <1>3 DEF Begin
<1>4. ASSUME NEW r \in Requests, CapabilityVerified(r) PROVE SentKept
  BY <1>4 DEF CapabilityVerified
<1>5. ASSUME NEW r \in Requests, CapabilityMismatch(r) PROVE SentKept
  BY <1>5 DEF CapabilityMismatch, Return
<1>6. ASSUME NEW r \in Requests, NEW s \in {"retry_wait", "action_required"},
             CapabilityFailed(r, s) PROVE SentKept
  BY <1>6 DEF CapabilityFailed, Fault
<1>7. ASSUME NEW r \in Requests, SetWaiting(r) PROVE SentKept
  BY <1>7 DEF SetWaiting, Return
<1>8. ASSUME NEW r \in Requests, Claim(r) PROVE SentKept
  BY <1>8 DEF Claim, Claimable
<1>9. ASSUME NEW r \in Requests, ClaimDenied(r) PROVE SentKept
  BY <1>9 DEF ClaimDenied, Return
<1>10. ASSUME NEW r \in Requests, Post(r) PROVE SentKept
  BY <1>10 DEF Post
<1>11. ASSUME NEW r \in Requests, LoseAnswer(r) PROVE SentKept
  BY <1>11 DEF LoseAnswer, Fault, UnknownOutcome
<1>12. ASSUME NEW r \in Requests, Finish(r) PROVE SentKept
  BY <1>12 DEF Finish, Finishable, Answered, Return
<1>13. ASSUME NEW r \in Requests, FinishLate(r) PROVE SentKept
  BY <1>13 DEF FinishLate, Return
<1>14. ASSUME NEW r \in Requests, Abandon(r) PROVE SentKept
  BY <1>14 DEF Abandon, Fault, Return
<1>15. ASSUME NEW p \in inflight, Receive(p) PROVE SentKept
  BY <1>15 DEF Receive, Held, Answer, Awaits, Posts
<1>16. ASSUME NEW p \in inflight, NEW s \in {"retry_wait", "action_required"},
             Refuse(p, s) PROVE SentKept
  BY <1>16 DEF Refuse, Fault, Answer, Awaits, Posts
<1>17. ASSUME NEW p \in inflight, Break(p) PROVE SentKept
  BY <1>17 DEF Break, Held, Fault, Answer, Awaits, Posts
<1>18. CASE UNCHANGED vars
  BY <1>18 DEF vars
<1> HIDE DEF SentKept
<1> QED
  BY <1>1, <1>2, <1>3, <1>4, <1>5, <1>6, <1>7, <1>8, <1>9,
     <1>10, <1>11, <1>12, <1>13, <1>14, <1>15, <1>16, <1>17, <1>18
  DEF Next, Website, Chatwoot

(* Delivery is final. *)
THEOREM SentIsFinal == Spec => SentFinal
<1>1. IInv /\ [Next]_vars => [SentKept]_vars
  BY SentStep
<1> QED
  BY <1>1, Invariance, PTL DEF Spec, SentFinal

(* Without a failure a handler leaves posting by Finish or FinishLate, and
   FinishLate with a receipt means that the row was sent already. *)
LEMMA ReceiptStep ==
  ASSUME IInv, [Next]_vars
  PROVE  ReceiptUsed
<1> USE BindingAssumption, MessageAssumption DEF IInv, TypeOK, Statuses, Waiting, Failures, Visitors, row, request,
        RequestsConsistent, Posting, ReceiptUsed
<1>1. ASSUME NEW o \in Orders, CreateOrder(o) PROVE ReceiptUsed
  BY <1>1 DEF CreateOrder
<1>2. ASSUME NEW o \in Orders, LeaseExpires(o) PROVE ReceiptUsed
  BY <1>2 DEF LeaseExpires
<1>3. ASSUME NEW r \in Requests, NEW o \in Orders, NEW e \in Bindings, NEW v \in Visitors,
             Begin(r, o, e, v) PROVE ReceiptUsed
  BY <1>3 DEF Begin
<1>4. ASSUME NEW r \in Requests, CapabilityVerified(r) PROVE ReceiptUsed
  BY <1>4 DEF CapabilityVerified
<1>5. ASSUME NEW r \in Requests, CapabilityMismatch(r) PROVE ReceiptUsed
  BY <1>5 DEF CapabilityMismatch, Return
<1>6. ASSUME NEW r \in Requests, NEW s \in {"retry_wait", "action_required"},
             CapabilityFailed(r, s) PROVE ReceiptUsed
  BY <1>6 DEF CapabilityFailed, Fault
<1>7. ASSUME NEW r \in Requests, SetWaiting(r) PROVE ReceiptUsed
  BY <1>7 DEF SetWaiting, Return
<1>8. ASSUME NEW r \in Requests, Claim(r) PROVE ReceiptUsed
  BY <1>8 DEF Claim, Claimable
<1>9. ASSUME NEW r \in Requests, ClaimDenied(r) PROVE ReceiptUsed
  BY <1>9 DEF ClaimDenied, Return
<1>10. ASSUME NEW r \in Requests, Post(r) PROVE ReceiptUsed
  BY <1>10 DEF Post
<1>11. ASSUME NEW r \in Requests, LoseAnswer(r) PROVE ReceiptUsed
  BY <1>11 DEF LoseAnswer, Fault, UnknownOutcome
<1>12. ASSUME NEW r \in Requests, Finish(r) PROVE ReceiptUsed
  BY <1>12 DEF Finish, Finishable, Answered, Return
<1>13. ASSUME NEW r \in Requests, FinishLate(r) PROVE ReceiptUsed
  BY <1>13 DEF FinishLate, Finishable, Return
<1>14. ASSUME NEW r \in Requests, Abandon(r) PROVE ReceiptUsed
  BY <1>14 DEF Abandon, Fault, Return
<1>15. ASSUME NEW p \in inflight, Receive(p) PROVE ReceiptUsed
  BY <1>15 DEF Receive, Held, Answer, Awaits, Posts
<1>16. ASSUME NEW p \in inflight, NEW s \in {"retry_wait", "action_required"},
             Refuse(p, s) PROVE ReceiptUsed
  BY <1>16 DEF Refuse, Fault, Answer, Awaits, Posts
<1>17. ASSUME NEW p \in inflight, Break(p) PROVE ReceiptUsed
  BY <1>17 DEF Break, Held, Fault, Answer, Awaits, Posts
<1>18. CASE UNCHANGED vars
  BY <1>18 DEF vars
<1> HIDE DEF ReceiptUsed
<1> QED
  BY <1>1, <1>2, <1>3, <1>4, <1>5, <1>6, <1>7, <1>8, <1>9,
     <1>10, <1>11, <1>12, <1>13, <1>14, <1>15, <1>16, <1>17, <1>18
  DEF Next, Website, Chatwoot

(* A receipt in hand is never thrown away. *)
THEOREM ReceiptSaved == Spec => ReceiptNeverDropped
<1>1. IInv /\ [Next]_vars => [ReceiptUsed]_vars
  BY ReceiptStep
<1> QED
  BY <1>1, Invariance, PTL DEF Spec, ReceiptNeverDropped

(* Nothing is placed, mailed or confirmed initially. *)
LEMMA InitRefines == Init => Promise!Init
  BY DEF Init, Promise!Init

(* A step that changes none of the mapped state functions is a stutter. *)
LEMMA Stutter ==
  ASSUME UNCHANGED boundTo,
         \A o \in Orders : status'[o] = "absent" <=> status[o] = "absent",
         \A o \in Orders : status'[o] = "sent" <=> status[o] = "sent",
         UNCHANGED stored
  PROVE  UNCHANGED Promise!vars
  BY DEF Promise!vars

(* CreateOrder places, the first Claim binds, a POST that Chatwoot commits
   mails, Finish with a receipt confirms; everything else is a stutter. *)
LEMMA StepRefines ==
  ASSUME IInv, [Next]_vars
  PROVE  [Promise!Next]_(Promise!vars)
<1> USE BindingAssumption, MessageAssumption
    DEF IInv, TypeOK, Statuses, Waiting, Failures, Visitors, row, request,
        RequestsConsistent, Posting
<1>1. ASSUME NEW o \in Orders, CreateOrder(o) PROVE [Promise!Next]_(Promise!vars)
  <2>1. Promise!Place(o)
    BY <1>1 DEF CreateOrder, Promise!Place
  <2> QED
    BY <2>1 DEF Promise!Next
<1>2. ASSUME NEW o \in Orders, LeaseExpires(o) PROVE [Promise!Next]_(Promise!vars)
  BY <1>2, Stutter DEF LeaseExpires
<1>3. ASSUME NEW r \in Requests, NEW o \in Orders, NEW e \in Bindings, NEW v \in Visitors,
             Begin(r, o, e, v) PROVE [Promise!Next]_(Promise!vars)
  BY <1>3, Stutter DEF Begin
<1>4. ASSUME NEW r \in Requests, CapabilityVerified(r) PROVE [Promise!Next]_(Promise!vars)
  BY <1>4, Stutter DEF CapabilityVerified
<1>5. ASSUME NEW r \in Requests, CapabilityMismatch(r) PROVE [Promise!Next]_(Promise!vars)
  BY <1>5, Stutter DEF CapabilityMismatch, Return
<1>6. ASSUME NEW r \in Requests, NEW s \in {"retry_wait", "action_required"},
             CapabilityFailed(r, s) PROVE [Promise!Next]_(Promise!vars)
  BY <1>6, Stutter DEF CapabilityFailed, Fault
<1>7. ASSUME NEW r \in Requests, SetWaiting(r) PROVE [Promise!Next]_(Promise!vars)
  BY <1>7, Stutter DEF SetWaiting, Return
<1>8. ASSUME NEW r \in Requests, Claim(r) PROVE [Promise!Next]_(Promise!vars)
  <2>1. order[r] \in Orders /\ visitor[r] \in Bindings /\ status[order[r]] \notin {"absent", "sent"}
    BY <1>8 DEF Claim, Claimable
  <2>2. UNCHANGED stored /\ status' = [status EXCEPT ![order[r]] = "sending"]
        /\ boundTo' = [boundTo EXCEPT ![order[r]] = visitor[r]]
    BY <1>8 DEF Claim
  <2>3. CASE boundTo[order[r]] = NoBinding
    <3>1. Promise!Bind(order[r], visitor[r])
      BY <2>1, <2>2, <2>3 DEF Promise!Bind
    <3> QED
      BY <2>1, <3>1 DEF Promise!Next
  <2>4. CASE boundTo[order[r]] # NoBinding
    <3>1. UNCHANGED boundTo
      BY <1>8, <2>1, <2>2, <2>4 DEF Claim, Claimable
    <3> QED
      BY <2>1, <2>2, <3>1, Stutter
  <2> QED
    BY <2>3, <2>4
<1>9. ASSUME NEW r \in Requests, ClaimDenied(r) PROVE [Promise!Next]_(Promise!vars)
  BY <1>9, Stutter DEF ClaimDenied, Return
<1>10. ASSUME NEW r \in Requests, Post(r) PROVE [Promise!Next]_(Promise!vars)
  BY <1>10, Stutter DEF Post
<1>11. ASSUME NEW r \in Requests, LoseAnswer(r) PROVE [Promise!Next]_(Promise!vars)
  BY <1>11, Stutter DEF LoseAnswer, Fault, UnknownOutcome
<1>12. ASSUME NEW r \in Requests, Finish(r) PROVE [Promise!Next]_(Promise!vars)
  <2>1. order[r] \in Orders /\ status[order[r]] \notin {"absent", "sent"}
    BY <1>12 DEF Finish, Finishable
  <2>2. UNCHANGED <<boundTo, stored>> /\ status' = [status EXCEPT ![order[r]] = outcome[r]]
    BY <1>12 DEF Finish
  <2>3. CASE outcome[r] = "sent"
    <3>1. PICK o \in Orders : o = order[r]
      BY <2>1
    <3>2. stored[o] # NoMessage
      BY <2>3, <3>1
    <3>3. Promise!Confirm(o)
      BY <2>1, <2>2, <2>3, <3>1, <3>2 DEF Promise!Confirm
    <3> QED
      BY <3>3 DEF Promise!Next
  <2>4. CASE outcome[r] # "sent"
    <3>1. outcome[r] \notin {"absent", "sent"}
      BY <1>12, <2>4 DEF Finish
    <3> QED
      BY <2>1, <2>2, <3>1, Stutter
  <2> QED
    BY <2>3, <2>4
<1>13. ASSUME NEW r \in Requests, FinishLate(r) PROVE [Promise!Next]_(Promise!vars)
  BY <1>13, Stutter DEF FinishLate, Return
<1>14. ASSUME NEW r \in Requests, Abandon(r) PROVE [Promise!Next]_(Promise!vars)
  BY <1>14, Stutter DEF Abandon, Fault, Return
<1>15. ASSUME NEW p \in inflight, Receive(p) PROVE [Promise!Next]_(Promise!vars)
  <2>1. p.order \in Orders /\ p.binding \in Bindings /\ boundTo[p.order] = p.binding
    BY <1>15 DEF Posts, OneVisitor
  <2>2. UNCHANGED <<boundTo, status>>
    BY <1>15 DEF Receive
  <2>3. CASE stored' = [stored EXCEPT ![p.order] = Held(p)]
    <3>1. CASE stored[p.order] = NoMessage
      <4>1. Held(p) # NoMessage
        BY <3>1 DEF Held, Posts
      <4>2. Promise!Mail(p.order)
        BY <2>1, <2>2, <2>3, <3>1, <4>1 DEF Promise!Mail
      <4> QED
        BY <2>1, <4>2 DEF Promise!Next
    <3>2. CASE stored[p.order] # NoMessage
      BY <2>1, <2>2, <2>3, <3>2, Stutter DEF Held
    <3> QED
      BY <3>1, <3>2
  <2> QED
    BY <1>15, <2>3 DEF Receive
<1>16. ASSUME NEW p \in inflight, NEW s \in {"retry_wait", "action_required"},
             Refuse(p, s) PROVE [Promise!Next]_(Promise!vars)
  BY <1>16, Stutter DEF Refuse, Fault, Answer, Awaits, Posts
<1>17. ASSUME NEW p \in inflight, Break(p) PROVE [Promise!Next]_(Promise!vars)
  <2>1. p.order \in Orders /\ p.binding \in Bindings /\ boundTo[p.order] = p.binding
    BY <1>17 DEF Posts, OneVisitor
  <2>2. UNCHANGED <<boundTo, status>>
    BY <1>17 DEF Break
  <2>3. CASE stored' = [stored EXCEPT ![p.order] = Held(p)]
    <3>1. CASE stored[p.order] = NoMessage
      <4>1. Held(p) # NoMessage
        BY <3>1 DEF Held, Posts
      <4>2. Promise!Mail(p.order)
        BY <2>1, <2>2, <2>3, <3>1, <4>1 DEF Promise!Mail
      <4> QED
        BY <2>1, <4>2 DEF Promise!Next
    <3>2. CASE stored[p.order] # NoMessage
      BY <2>1, <2>2, <2>3, <3>2, Stutter DEF Held
    <3> QED
      BY <3>1, <3>2
  <2>4. CASE UNCHANGED stored
    BY <2>2, <2>4, Stutter
  <2> QED
    BY <1>17, <2>3, <2>4 DEF Break
<1>18. CASE UNCHANGED vars
  BY <1>18, Stutter DEF vars
<1> HIDE DEF IInv, TypeOK
<1> QED
  BY <1>1, <1>2, <1>3, <1>4, <1>5, <1>6, <1>7, <1>8, <1>9,
     <1>10, <1>11, <1>12, <1>13, <1>14, <1>15, <1>16, <1>17, <1>18
  DEF Next, Website, Chatwoot

(* The website and Chatwoot together implement OrderDelivery. *)
THEOREM Implements == Spec => KeepsPromise
  BY InitRefines, StepRefines, Invariance, PTL DEF Spec, KeepsPromise, Promise!Spec
=============================================================================
