------------------------ MODULE ChannelBridgeProofs ------------------------
(* Proofs about ChannelBridge for any conversations, messages, handlers    *)
(* and faults.                                                             *)
EXTENDS ChannelBridge, TLAPS

(***************************************************************************)
(* What has to be true for the properties to last                          *)
(***************************************************************************)

Holding(h) == handler[h].at \in {"sending", "remembering", "releasing"}

(* Holders have the claim of their message, and no two have the same.      *)
HoldersClaim == \A h \in Handlers : Holding(h) => handler[h].m \in claims
OneHolder == \A h, k \in Handlers : Holding(h) /\ Holding(k) /\ handler[h].m = handler[k].m => h = k

(* A message that may still be sent has no copy but those whose answers    *)
(* were lost: one nobody claimed, or whose holder has not sent it yet.     *)
ToBeSent(m) ==
    \/ m \notin claims
    \/ \E h \in Handlers : handler[h].at \in {"sending", "releasing"} /\ handler[h].m = m
UnsentCounted == \A m \in Messages : ToBeSent(m) => got[m] <= lost[m]

(* Handlers are about messages that were written, and know where to send   *)
(* them; only images are routed.                                           *)
WellRouted ==
    \A h \in Handlers : handler[h].at # "idle" =>
        /\ msg[handler[h].m] # Unwritten
        /\ msg[handler[h].m].kind # "image" => handler[h].conv = msg[handler[h].m].conv
        /\ handler[h].at = "routing" => msg[handler[h].m].kind = "image"
        /\ handler[h].at = "remembering" => msg[handler[h].m].kind # "image" /\ got[handler[h].m] > 0

ArrivedWritten == \A a \in arrived : msg[a.message] # Unwritten

(* A patient provider waits for the handler it posted to.                  *)
PatientWaits ==
    \A h \in Handlers : handler[h].m \in Patient =>
        handler[h].open /\ \A k \in Handlers : handler[k].m = handler[h].m => k = h

(* Without faults, a claim is held, or its message was sent.               *)
ClaimsAnswered ==
    \A m \in claims \cap Settled : got[m] > 0 \/ \E h \in Handlers : Holding(h) /\ handler[h].m = m

IInv ==
    /\ TypeOK /\ CopiesExplained /\ ReferencesKept /\ AckedIsDelivered
    /\ HoldersClaim /\ OneHolder /\ UnsentCounted
    /\ WellRouted /\ ArrivedWritten /\ PatientWaits /\ ClaimsAnswered

(***************************************************************************)
(* What each step does to a handler and to the copies                      *)
(***************************************************************************)

Ats == {"routing", "claiming", "sending", "remembering", "releasing", "ended"}
Works == [at : Ats, m : Messages, conv : Conversations, open : BOOLEAN]

(* A handler that is not idle works on a message. *)
LEMMA HandlerWorks ==
  ASSUME TypeOK, NEW h \in Handlers
  PROVE  /\ handler[h].at # "idle" => handler[h] \in Works
         /\ handler[h].at = "idle" => handler[h] = Idle
         /\ handler[h].m \in Messages <=> handler[h].at # "idle"
BY ChannelBridgeAssumption DEF TypeOK, Works, Ats, Idle

(* What becomes of handler h: its state w; nothing of the others. *)
Becomes(h, w) ==
    /\ handler' \in [Handlers -> {Idle} \cup Works]
    /\ handler'[h] = w
    /\ \A k \in Handlers \ {h} : handler'[k] = handler[k]

(* Assigning one handler leaves the others as they are. *)
LEMMA Assigned ==
  ASSUME TypeOK, NEW h \in Handlers, NEW w \in {Idle} \cup Works, handler' = [handler EXCEPT ![h] = w]
  PROVE  Becomes(h, w)
BY DEF TypeOK, Becomes, Works, Ats

(* A working handler goes on to the state at, with conversation c. *)
Moves(h, at, c, open) ==
    /\ handler' \in [Handlers -> {Idle} \cup Works]
    /\ handler'[h].at = at /\ handler'[h].m = handler[h].m
    /\ handler'[h].conv = c /\ handler'[h].open = open
    /\ \A k \in Handlers \ {h} : handler'[k] = handler[k]

(* A handler that only goes on keeps its message and its conversation. *)
LEMMA StepMoves ==
  ASSUME TypeOK, NEW h \in Handlers, handler[h].at # "idle", NEW at \in Ats, Step(h, at)
  PROVE  Moves(h, at, handler[h].conv, handler[h].open)
<1>1. handler[h] \in Works
  BY HandlerWorks
<1>2. [handler[h] EXCEPT !.at = at] \in Works
  BY <1>1 DEF Works
<1>3. handler' = [handler EXCEPT ![h] = [handler[h] EXCEPT !.at = at]]
  BY DEF Step
<1>4. Becomes(h, [handler[h] EXCEPT !.at = at])
  BY <1>2, <1>3, Assigned
<1>5. /\ [handler[h] EXCEPT !.at = at].at = at
      /\ [handler[h] EXCEPT !.at = at].m = handler[h].m
      /\ [handler[h] EXCEPT !.at = at].conv = handler[h].conv
      /\ [handler[h] EXCEPT !.at = at].open = handler[h].open
  BY <1>1 DEF Works
<1> QED
  BY <1>4, <1>5 DEF Becomes, Moves

Mine(h) == handler[h].m

(* A delivery starts a handler, alone if the provider is patient. *)
LEMMA DeliverEffect ==
  ASSUME TypeOK, NEW h \in Handlers, NEW m \in Messages, Deliver(h, m)
  PROVE  /\ UNCHANGED <<msg, screen, claims, latest, got, lost, arrived, acked>>
         /\ handler[h].at = "idle" /\ msg[m] # Unwritten
         /\ m \in Patient => \A k \in Handlers : handler[k].m # m
         /\ handler' \in [Handlers -> {Idle} \cup Works]
         /\ handler'[h].at \in {"routing", "claiming"}
         /\ handler'[h].at = "routing" => msg[m].kind = "image"
         /\ handler'[h].m = m /\ handler'[h].conv = msg[m].conv /\ handler'[h].open
         /\ \A k \in Handlers \ {h} : handler'[k] = handler[k]
<1> DEFINE w == [at |-> IF Routed(msg[m].kind) THEN "routing" ELSE "claiming",
                 m |-> m, conv |-> msg[m].conv, open |-> TRUE]
<1>1. msg[m].conv \in Conversations
  BY DEF Deliver, TypeOK
<1>2. w \in Works
  BY <1>1 DEF Works, Ats
<1>3. Becomes(h, w)
  BY <1>2, Assigned DEF Deliver
<1>4. w.at \in {"routing", "claiming"} /\ (w.at = "routing" => msg[m].kind = "image")
  BY DEF Routed
<1> QED
  BY <1>3, <1>4 DEF Becomes, Deliver, Due, Idle, chatwoot, redis, sent

(* An image gets the latest conversation, or is ignored. *)
LEMMA RouteEffect ==
  ASSUME TypeOK, NEW h \in Handlers, Route(h)
  PROVE  /\ UNCHANGED <<msg, screen, claims, latest, got, lost, arrived>>
         /\ handler[h].at = "routing" /\ Mine(h) \in Messages
         /\ \/ /\ latest \in Conversations /\ UNCHANGED acked
               /\ Moves(h, "claiming", latest, handler[h].open)
            \/ /\ acked' = acked \cup {Mine(h)}
               /\ Moves(h, "ended", handler[h].conv, handler[h].open)
<1>1. handler[h].at = "routing" /\ UNCHANGED <<msg, screen, claims, latest, got, lost, arrived>>
  BY DEF Route, chatwoot, redis, sent
<1>2. handler[h] \in Works /\ Mine(h) \in Messages
  BY <1>1, HandlerWorks DEF Mine
<1>3. CASE HasLatest /\ handler' = [handler EXCEPT ![h].at = "claiming", ![h].conv = latest] /\ UNCHANGED acked
  <2>1. latest \in Conversations
    BY <1>3 DEF TypeOK, HasLatest
  <2>2. [handler[h] EXCEPT !.at = "claiming", !.conv = latest] \in Works
    BY <1>2, <2>1 DEF Works, Ats
  <2>3. handler' = [handler EXCEPT ![h] = [handler[h] EXCEPT !.at = "claiming", !.conv = latest]]
    BY <1>3 DEF TypeOK
  <2>4. Becomes(h, [handler[h] EXCEPT !.at = "claiming", !.conv = latest])
    BY <2>2, <2>3, Assigned
  <2>5. /\ [handler[h] EXCEPT !.at = "claiming", !.conv = latest].at = "claiming"
        /\ [handler[h] EXCEPT !.at = "claiming", !.conv = latest].m = handler[h].m
        /\ [handler[h] EXCEPT !.at = "claiming", !.conv = latest].conv = latest
        /\ [handler[h] EXCEPT !.at = "claiming", !.conv = latest].open = handler[h].open
    BY <1>2 DEF Works
  <2> QED
    BY <1>1, <1>2, <1>3, <2>1, <2>4, <2>5 DEF Becomes, Moves
<1>4. CASE Succeed(h)
  BY <1>1, <1>2, <1>4, StepMoves DEF Succeed, Ats, Mine
<1> QED
  BY <1>3, <1>4 DEF Route

(* A claim is taken while it is free, and found taken otherwise. *)
LEMMA ClaimEffect ==
  ASSUME TypeOK, NEW h \in Handlers, Claim(h)
  PROVE  /\ UNCHANGED <<msg, screen, latest, got, lost, arrived>>
         /\ handler[h].at = "claiming" /\ handler[h].open /\ Mine(h) \in Messages
         /\ \/ /\ Mine(h) \notin claims /\ claims' = claims \cup {Mine(h)} /\ UNCHANGED acked
               /\ Moves(h, "sending", handler[h].conv, handler[h].open)
            \/ /\ Mine(h) \in claims /\ UNCHANGED claims /\ acked' = acked \cup {Mine(h)}
               /\ Moves(h, "ended", handler[h].conv, handler[h].open)
<1>1. handler[h].at = "claiming" /\ Mine(h) \in Messages
  BY HandlerWorks DEF Claim, Mine
<1>2. ASSUME NEW at \in Ats, Step(h, at) PROVE Moves(h, at, handler[h].conv, handler[h].open)
  BY <1>1, <1>2, StepMoves
<1> QED
  BY <1>1, <1>2 DEF Claim, ClaimFree, Succeed, Continue, Ats, Mine, chatwoot, sent

(* A claim that fails may be taken all the same. *)
LEMMA ClaimFailsEffect ==
  ASSUME TypeOK, NEW h \in Handlers, ClaimFails(h)
  PROVE  /\ UNCHANGED <<msg, screen, latest, got, lost, arrived, acked>>
         /\ handler[h].at = "claiming" /\ Mine(h) \in Messages
         /\ ~handler[h].open \/ Mine(h) \in Failing
         /\ claims' \in {claims, claims \cup {Mine(h)}}
         /\ Moves(h, "ended", handler[h].conv, handler[h].open)
BY HandlerWorks, StepMoves DEF ClaimFails, Continue, Ats, Mine, chatwoot, sent

(* A copy is one more, where the handler sends it. *)
LEMMA CopyEffect ==
  ASSUME TypeOK, NEW h \in Handlers, handler[h].at # "idle", Copy(h)
  PROVE  /\ UNCHANGED <<msg, claims, latest>>
         /\ screen' \in Conversations \cup {None}
         /\ got' \in [Messages -> Nat] /\ got'[Mine(h)] = got[Mine(h)] + 1
         /\ \A m \in Messages \ {Mine(h)} : got'[m] = got[m]
         /\ arrived' = arrived \cup {[message |-> Mine(h), conv |-> handler[h].conv]}
         /\ Mine(h) \in Messages /\ handler[h].conv \in Conversations
<1>1. handler[h] \in Works
  BY HandlerWorks
<1>2. Mine(h) \in Messages /\ handler[h].conv \in Conversations
  BY <1>1 DEF Works, Mine
<1>3. got' = [got EXCEPT ![Mine(h)] = got[Mine(h)] + 1]
  BY DEF Copy, Mine
<1> QED
  BY <1>2, <1>3 DEF Copy, TypeOK, Mine, redis

(* A message that was sent has a copy more. *)
LEMMA SendEffect ==
  ASSUME TypeOK, NEW h \in Handlers, Send(h)
  PROVE  /\ handler[h].at = "sending" /\ Copy(h) /\ UNCHANGED lost
         /\ \/ /\ msg[Mine(h)].kind = "image" /\ acked' = acked \cup {Mine(h)}
               /\ Moves(h, "ended", handler[h].conv, handler[h].open)
            \/ /\ msg[Mine(h)].kind # "image" /\ UNCHANGED acked
               /\ Moves(h, "remembering", handler[h].conv, handler[h].open)
BY StepMoves DEF Send, Succeed, Continue, Ats, Mine

(* A send that fails leaves nothing. *)
LEMMA SendFailsEffect ==
  ASSUME TypeOK, NEW h \in Handlers, SendFails(h)
  PROVE  /\ UNCHANGED <<msg, screen, claims, latest, got, lost, arrived, acked>>
         /\ handler[h].at = "sending"
         /\ Moves(h, "releasing", handler[h].conv, handler[h].open)
BY StepMoves DEF SendFails, Continue, Ats, chatwoot, redis, sent

(* A send whose answer is lost has a copy more, and a lost answer more. *)
LEMMA SendLostEffect ==
  ASSUME TypeOK, NEW h \in Handlers, SendLost(h)
  PROVE  /\ handler[h].at = "sending" /\ Copy(h) /\ UNCHANGED acked
         /\ lost' \in [Messages -> 0..MaxLost] /\ lost'[Mine(h)] = lost[Mine(h)] + 1
         /\ \A m \in Messages \ {Mine(h)} : lost'[m] = lost[m]
         /\ Moves(h, "releasing", handler[h].conv, handler[h].open)
<1>1. handler[h].at = "sending" /\ Mine(h) \in Messages
  BY HandlerWorks DEF SendLost, Mine
<1>2. lost[Mine(h)] \in 0..MaxLost /\ lost[Mine(h)] < MaxLost
  BY <1>1 DEF SendLost, TypeOK, Mine
<1>3. lost[Mine(h)] + 1 \in 0..MaxLost
  BY <1>2, ChannelBridgeAssumption
<1>4. lost' = [lost EXCEPT ![Mine(h)] = lost[Mine(h)] + 1]
  BY DEF SendLost, Mine
<1> QED
  BY <1>1, <1>3, <1>4, StepMoves DEF SendLost, Continue, Ats, TypeOK

(* A claim is given back, unless the command fails. *)
LEMMA ReleaseEffect ==
  ASSUME TypeOK, NEW h \in Handlers, Release(h)
  PROVE  /\ UNCHANGED <<msg, screen, latest, got, lost, arrived, acked>>
         /\ handler[h].at = "releasing" /\ Mine(h) \in Messages
         /\ \/ claims' = claims \ {Mine(h)}
            \/ (~handler[h].open \/ Mine(h) \in Failing) /\ UNCHANGED claims
         /\ Moves(h, "ended", handler[h].conv, handler[h].open)
BY HandlerWorks, StepMoves DEF Release, Released, Reported, Continue, Ats, Mine, chatwoot, sent

(* The conversation is remembered, or its handler ends without. *)
LEMMA RememberEffect ==
  ASSUME TypeOK, NEW h \in Handlers, Remember(h)
  PROVE  /\ UNCHANGED <<msg, screen, claims, got, lost, arrived>>
         /\ handler[h].at = "remembering" /\ Mine(h) \in Messages
         /\ latest' \in Conversations \cup {None}
         /\ acked' \in {acked, acked \cup {Mine(h)}}
         /\ Moves(h, "ended", handler[h].conv, handler[h].open)
<1>1. handler[h].at = "remembering" /\ handler[h] \in Works
  BY HandlerWorks DEF Remember
<1>2. Mine(h) \in Messages /\ handler[h].conv \in Conversations
  BY <1>1 DEF Works, Mine
<1>3. Moves(h, "ended", handler[h].conv, handler[h].open)
  BY <1>1, StepMoves DEF Remember, Succeed, Continue, Ats
<1> QED
  BY <1>1, <1>2, <1>3 DEF Remember, Succeed, Continue, Mine, chatwoot, sent, TypeOK

(* A provider that hangs up changes nothing else. *)
LEMMA HangUpEffect ==
  ASSUME TypeOK, NEW h \in Handlers, HangUp(h)
  PROVE  /\ UNCHANGED <<msg, screen, claims, latest, got, lost, arrived, acked>>
         /\ handler' \in [Handlers -> {Idle} \cup Works]
         /\ \A k \in Handlers : /\ handler'[k].at = handler[k].at /\ handler'[k].m = handler[k].m
                                /\ handler'[k].conv = handler[k].conv
                                /\ handler[k].m \in Patient => (handler'[k].open <=> handler[k].open)
<1>1. handler[h] \in Works
  BY HandlerWorks DEF HangUp, Working
<1>2. [handler[h] EXCEPT !.open = FALSE] \in Works
  BY <1>1 DEF Works
<1>3. Becomes(h, [handler[h] EXCEPT !.open = FALSE])
  BY <1>2, Assigned DEF HangUp
<1>4. /\ [handler[h] EXCEPT !.open = FALSE].at = handler[h].at
      /\ [handler[h] EXCEPT !.open = FALSE].m = handler[h].m
      /\ [handler[h] EXCEPT !.open = FALSE].conv = handler[h].conv
      /\ [handler[h] EXCEPT !.open = FALSE].open = FALSE
  BY <1>1 DEF Works
<1>5. Moves(h, handler[h].at, handler[h].conv, FALSE) /\ Mine(h) \notin Patient
  BY <1>3, <1>4 DEF Becomes, Moves, HangUp, Mine
<1>6. \A k \in Handlers : k # h => handler'[k] = handler[k]
  BY <1>3 DEF Becomes
<1> QED
  BY <1>5, <1>6 DEF Moves, HangUp, Working, Mine, chatwoot, redis, sent

(* A handler ends, or its process dies, with a message that can fail. *)
LEMMA DropEffect ==
  ASSUME TypeOK, NEW h \in Handlers, Crash(h) \/ Finish(h)
  PROVE  /\ UNCHANGED <<msg, screen, claims, latest, got, lost, arrived, acked>>
         /\ Mine(h) \in Failing \/ handler[h].at = "ended"
         /\ Becomes(h, Idle)
BY Assigned DEF Crash, Finish, Mine, chatwoot, redis, sent

(***************************************************************************)
(* Each part of IInv is preserved                                          *)
(***************************************************************************)

(* Handlers, rows in Redis and copies keep their types. *)
LEMMA TypeStep == ASSUME IInv, [Next]_vars PROVE TypeOK'
<1> USE ChannelBridgeAssumption, HandlerWorks DEF IInv, TypeOK, Mine, Moves, Becomes, Works, Ats, WellRouted, Unwritten
<1>1. ASSUME NEW m \in Messages, NEW kind \in {"visitor", "text", "image"}, NEW c \in Conversations, Write(m, kind, c) PROVE TypeOK'
  BY <1>1 DEF Write, redis, sent
<1>2. ASSUME NEW h \in Handlers, NEW m \in Messages, Deliver(h, m) PROVE TypeOK'
  BY <1>2, DeliverEffect
<1>3. ASSUME NEW h \in Handlers, Route(h) PROVE TypeOK'
  BY <1>3, RouteEffect
<1>4. ASSUME NEW h \in Handlers, Claim(h) PROVE TypeOK'
  BY <1>4, ClaimEffect
<1>5. ASSUME NEW h \in Handlers, ClaimFails(h) PROVE TypeOK'
  BY <1>5, ClaimFailsEffect
<1>6. ASSUME NEW h \in Handlers, Send(h) PROVE TypeOK'
  BY <1>6, SendEffect, CopyEffect
<1>7. ASSUME NEW h \in Handlers, SendFails(h) PROVE TypeOK'
  BY <1>7, SendFailsEffect
<1>8. ASSUME NEW h \in Handlers, SendLost(h) PROVE TypeOK'
  BY <1>8, SendLostEffect, CopyEffect
<1>9. ASSUME NEW h \in Handlers, Release(h) PROVE TypeOK'
  BY <1>9, ReleaseEffect
<1>10. ASSUME NEW h \in Handlers, Remember(h) PROVE TypeOK'
  BY <1>10, RememberEffect
<1>11. ASSUME NEW h \in Handlers, HangUp(h) PROVE TypeOK'
  BY <1>11, HangUpEffect
<1>12. ASSUME NEW h \in Handlers, Crash(h) \/ Finish(h) PROVE TypeOK'
  BY <1>12, DropEffect
<1>13. CASE UNCHANGED vars
  BY <1>13 DEF vars, chatwoot, redis, sent
<1> HIDE DEF IInv, TypeOK, Mine, Moves, Becomes, Works, Ats, WellRouted, Unwritten
<1> QED
  BY <1>1, <1>2, <1>3, <1>4, <1>5, <1>6, <1>7, <1>8, <1>9, <1>10, <1>11, <1>12, <1>13 DEF Next, Handle

(* A holder has the claim of its message. *)
LEMMA HoldersStep == ASSUME IInv, [Next]_vars PROVE HoldersClaim'
<1> USE ChannelBridgeAssumption, HandlerWorks DEF IInv, TypeOK, Mine, Moves, Becomes, HoldersClaim, Holding, OneHolder, Idle
<1>1. ASSUME NEW m \in Messages, NEW kind \in {"visitor", "text", "image"}, NEW c \in Conversations, Write(m, kind, c) PROVE HoldersClaim'
  BY <1>1 DEF Write, redis, sent
<1>2. ASSUME NEW h \in Handlers, NEW m \in Messages, Deliver(h, m) PROVE HoldersClaim'
  BY <1>2, DeliverEffect
<1>3. ASSUME NEW h \in Handlers, Route(h) PROVE HoldersClaim'
  BY <1>3, RouteEffect
<1>4. ASSUME NEW h \in Handlers, Claim(h) PROVE HoldersClaim'
  BY <1>4, ClaimEffect
<1>5. ASSUME NEW h \in Handlers, ClaimFails(h) PROVE HoldersClaim'
  BY <1>5, ClaimFailsEffect
<1>6. ASSUME NEW h \in Handlers, Send(h) PROVE HoldersClaim'
  BY <1>6, SendEffect, CopyEffect
<1>7. ASSUME NEW h \in Handlers, SendFails(h) PROVE HoldersClaim'
  BY <1>7, SendFailsEffect
<1>8. ASSUME NEW h \in Handlers, SendLost(h) PROVE HoldersClaim'
  BY <1>8, SendLostEffect, CopyEffect
<1>9. ASSUME NEW h \in Handlers, Release(h) PROVE HoldersClaim'
  BY <1>9, ReleaseEffect
<1>10. ASSUME NEW h \in Handlers, Remember(h) PROVE HoldersClaim'
  BY <1>10, RememberEffect
<1>11. ASSUME NEW h \in Handlers, HangUp(h) PROVE HoldersClaim'
  BY <1>11, HangUpEffect
<1>12. ASSUME NEW h \in Handlers, Crash(h) \/ Finish(h) PROVE HoldersClaim'
  BY <1>12, DropEffect
<1>13. CASE UNCHANGED vars
  BY <1>13 DEF vars, chatwoot, redis, sent
<1> HIDE DEF IInv, TypeOK, Mine, Moves, Becomes, HoldersClaim, Holding, OneHolder, Idle
<1> QED
  BY <1>1, <1>2, <1>3, <1>4, <1>5, <1>6, <1>7, <1>8, <1>9, <1>10, <1>11, <1>12, <1>13 DEF Next, Handle

(* A claim is taken only while it is free, and given back by its holder. *)
LEMMA HolderStep == ASSUME IInv, [Next]_vars PROVE OneHolder'
<1> USE ChannelBridgeAssumption, HandlerWorks DEF IInv, TypeOK, Mine, Moves, Becomes, OneHolder, Holding, HoldersClaim, Idle
<1>1. ASSUME NEW m \in Messages, NEW kind \in {"visitor", "text", "image"}, NEW c \in Conversations, Write(m, kind, c) PROVE OneHolder'
  BY <1>1 DEF Write, redis, sent
<1>2. ASSUME NEW h \in Handlers, NEW m \in Messages, Deliver(h, m) PROVE OneHolder'
  BY <1>2, DeliverEffect
<1>3. ASSUME NEW h \in Handlers, Route(h) PROVE OneHolder'
  BY <1>3, RouteEffect
<1>4. ASSUME NEW h \in Handlers, Claim(h) PROVE OneHolder'
  BY <1>4, ClaimEffect
<1>5. ASSUME NEW h \in Handlers, ClaimFails(h) PROVE OneHolder'
  BY <1>5, ClaimFailsEffect
<1>6. ASSUME NEW h \in Handlers, Send(h) PROVE OneHolder'
  BY <1>6, SendEffect, CopyEffect
<1>7. ASSUME NEW h \in Handlers, SendFails(h) PROVE OneHolder'
  BY <1>7, SendFailsEffect
<1>8. ASSUME NEW h \in Handlers, SendLost(h) PROVE OneHolder'
  BY <1>8, SendLostEffect, CopyEffect
<1>9. ASSUME NEW h \in Handlers, Release(h) PROVE OneHolder'
  BY <1>9, ReleaseEffect
<1>10. ASSUME NEW h \in Handlers, Remember(h) PROVE OneHolder'
  BY <1>10, RememberEffect
<1>11. ASSUME NEW h \in Handlers, HangUp(h) PROVE OneHolder'
  BY <1>11, HangUpEffect
<1>12. ASSUME NEW h \in Handlers, Crash(h) \/ Finish(h) PROVE OneHolder'
  BY <1>12, DropEffect
<1>13. CASE UNCHANGED vars
  BY <1>13 DEF vars, chatwoot, redis, sent
<1> HIDE DEF IInv, TypeOK, Mine, Moves, Becomes, OneHolder, Holding, HoldersClaim, Idle
<1> QED
  BY <1>1, <1>2, <1>3, <1>4, <1>5, <1>6, <1>7, <1>8, <1>9, <1>10, <1>11, <1>12, <1>13 DEF Next, Handle

(* A message to be sent is one whose copies had no answer. *)
LEMMA UnsentStep == ASSUME IInv, [Next]_vars PROVE UnsentCounted'
<1> USE ChannelBridgeAssumption, HandlerWorks DEF IInv, TypeOK, Mine, Moves, Becomes, UnsentCounted, ToBeSent, Holding, OneHolder, HoldersClaim, Idle
<1>1. ASSUME NEW m \in Messages, NEW kind \in {"visitor", "text", "image"}, NEW c \in Conversations, Write(m, kind, c) PROVE UnsentCounted'
  BY <1>1 DEF Write, redis, sent
<1>2. ASSUME NEW h \in Handlers, NEW m \in Messages, Deliver(h, m) PROVE UnsentCounted'
  BY <1>2, DeliverEffect
<1>3. ASSUME NEW h \in Handlers, Route(h) PROVE UnsentCounted'
  BY <1>3, RouteEffect
<1>4. ASSUME NEW h \in Handlers, Claim(h) PROVE UnsentCounted'
  BY <1>4, ClaimEffect
<1>5. ASSUME NEW h \in Handlers, ClaimFails(h) PROVE UnsentCounted'
  BY <1>5, ClaimFailsEffect
<1>6. ASSUME NEW h \in Handlers, Send(h) PROVE UnsentCounted'
  BY <1>6, SendEffect, CopyEffect
<1>7. ASSUME NEW h \in Handlers, SendFails(h) PROVE UnsentCounted'
  BY <1>7, SendFailsEffect
<1>8. ASSUME NEW h \in Handlers, SendLost(h) PROVE UnsentCounted'
  BY <1>8, SendLostEffect, CopyEffect
<1>9. ASSUME NEW h \in Handlers, Release(h) PROVE UnsentCounted'
  BY <1>9, ReleaseEffect
<1>10. ASSUME NEW h \in Handlers, Remember(h) PROVE UnsentCounted'
  BY <1>10, RememberEffect
<1>11. ASSUME NEW h \in Handlers, HangUp(h) PROVE UnsentCounted'
  BY <1>11, HangUpEffect
<1>12. ASSUME NEW h \in Handlers, Crash(h) \/ Finish(h) PROVE UnsentCounted'
  BY <1>12, DropEffect
<1>13. CASE UNCHANGED vars
  BY <1>13 DEF vars, chatwoot, redis, sent
<1> HIDE DEF IInv, TypeOK, Mine, Moves, Becomes, UnsentCounted, ToBeSent, Holding, OneHolder, HoldersClaim, Idle
<1> QED
  BY <1>1, <1>2, <1>3, <1>4, <1>5, <1>6, <1>7, <1>8, <1>9, <1>10, <1>11, <1>12, <1>13 DEF Next, Handle

(* A copy is sent by a holder, of a message to be sent. *)
LEMMA CopiesStep == ASSUME IInv, [Next]_vars PROVE CopiesExplained'
<1> USE ChannelBridgeAssumption, HandlerWorks DEF IInv, TypeOK, Mine, Moves, Becomes, CopiesExplained, UnsentCounted, ToBeSent
<1>1. ASSUME NEW m \in Messages, NEW kind \in {"visitor", "text", "image"}, NEW c \in Conversations, Write(m, kind, c) PROVE CopiesExplained'
  BY <1>1 DEF Write, redis, sent
<1>2. ASSUME NEW h \in Handlers, NEW m \in Messages, Deliver(h, m) PROVE CopiesExplained'
  BY <1>2, DeliverEffect
<1>3. ASSUME NEW h \in Handlers, Route(h) PROVE CopiesExplained'
  BY <1>3, RouteEffect
<1>4. ASSUME NEW h \in Handlers, Claim(h) PROVE CopiesExplained'
  BY <1>4, ClaimEffect
<1>5. ASSUME NEW h \in Handlers, ClaimFails(h) PROVE CopiesExplained'
  BY <1>5, ClaimFailsEffect
<1>6. ASSUME NEW h \in Handlers, Send(h) PROVE CopiesExplained'
  BY <1>6, SendEffect, CopyEffect
<1>7. ASSUME NEW h \in Handlers, SendFails(h) PROVE CopiesExplained'
  BY <1>7, SendFailsEffect
<1>8. ASSUME NEW h \in Handlers, SendLost(h) PROVE CopiesExplained'
  BY <1>8, SendLostEffect, CopyEffect
<1>9. ASSUME NEW h \in Handlers, Release(h) PROVE CopiesExplained'
  BY <1>9, ReleaseEffect
<1>10. ASSUME NEW h \in Handlers, Remember(h) PROVE CopiesExplained'
  BY <1>10, RememberEffect
<1>11. ASSUME NEW h \in Handlers, HangUp(h) PROVE CopiesExplained'
  BY <1>11, HangUpEffect
<1>12. ASSUME NEW h \in Handlers, Crash(h) \/ Finish(h) PROVE CopiesExplained'
  BY <1>12, DropEffect
<1>13. CASE UNCHANGED vars
  BY <1>13 DEF vars, chatwoot, redis, sent
<1> HIDE DEF IInv, TypeOK, Mine, Moves, Becomes, CopiesExplained, UnsentCounted, ToBeSent
<1> QED
  BY <1>1, <1>2, <1>3, <1>4, <1>5, <1>6, <1>7, <1>8, <1>9, <1>10, <1>11, <1>12, <1>13 DEF Next, Handle

(* Handlers keep the conversation their message belongs to. *)
LEMMA RoutedStep == ASSUME IInv, [Next]_vars PROVE WellRouted'
<1> USE ChannelBridgeAssumption, HandlerWorks DEF IInv, TypeOK, Mine, Moves, Becomes, WellRouted, Unwritten, Idle
<1>1. ASSUME NEW m \in Messages, NEW kind \in {"visitor", "text", "image"}, NEW c \in Conversations, Write(m, kind, c) PROVE WellRouted'
  BY <1>1 DEF Write, redis, sent
<1>2. ASSUME NEW h \in Handlers, NEW m \in Messages, Deliver(h, m) PROVE WellRouted'
  BY <1>2, DeliverEffect
<1>3. ASSUME NEW h \in Handlers, Route(h) PROVE WellRouted'
  BY <1>3, RouteEffect
<1>4. ASSUME NEW h \in Handlers, Claim(h) PROVE WellRouted'
  BY <1>4, ClaimEffect
<1>5. ASSUME NEW h \in Handlers, ClaimFails(h) PROVE WellRouted'
  BY <1>5, ClaimFailsEffect
<1>6. ASSUME NEW h \in Handlers, Send(h) PROVE WellRouted'
  BY <1>6, SendEffect, CopyEffect
<1>7. ASSUME NEW h \in Handlers, SendFails(h) PROVE WellRouted'
  BY <1>7, SendFailsEffect
<1>8. ASSUME NEW h \in Handlers, SendLost(h) PROVE WellRouted'
  BY <1>8, SendLostEffect, CopyEffect
<1>9. ASSUME NEW h \in Handlers, Release(h) PROVE WellRouted'
  BY <1>9, ReleaseEffect
<1>10. ASSUME NEW h \in Handlers, Remember(h) PROVE WellRouted'
  BY <1>10, RememberEffect
<1>11. ASSUME NEW h \in Handlers, HangUp(h) PROVE WellRouted'
  BY <1>11, HangUpEffect
<1>12. ASSUME NEW h \in Handlers, Crash(h) \/ Finish(h) PROVE WellRouted'
  BY <1>12, DropEffect
<1>13. CASE UNCHANGED vars
  BY <1>13 DEF vars, chatwoot, redis, sent
<1> HIDE DEF IInv, TypeOK, Mine, Moves, Becomes, WellRouted, Unwritten, Idle
<1> QED
  BY <1>1, <1>2, <1>3, <1>4, <1>5, <1>6, <1>7, <1>8, <1>9, <1>10, <1>11, <1>12, <1>13 DEF Next, Handle

(* What arrived was written. *)
LEMMA WrittenStep == ASSUME IInv, [Next]_vars PROVE ArrivedWritten'
<1> USE ChannelBridgeAssumption, HandlerWorks DEF IInv, TypeOK, Mine, Moves, Becomes, ArrivedWritten, WellRouted, Unwritten
<1>1. ASSUME NEW m \in Messages, NEW kind \in {"visitor", "text", "image"}, NEW c \in Conversations, Write(m, kind, c) PROVE ArrivedWritten'
  BY <1>1 DEF Write, redis, sent
<1>2. ASSUME NEW h \in Handlers, NEW m \in Messages, Deliver(h, m) PROVE ArrivedWritten'
  BY <1>2, DeliverEffect
<1>3. ASSUME NEW h \in Handlers, Route(h) PROVE ArrivedWritten'
  BY <1>3, RouteEffect
<1>4. ASSUME NEW h \in Handlers, Claim(h) PROVE ArrivedWritten'
  BY <1>4, ClaimEffect
<1>5. ASSUME NEW h \in Handlers, ClaimFails(h) PROVE ArrivedWritten'
  BY <1>5, ClaimFailsEffect
<1>6. ASSUME NEW h \in Handlers, Send(h) PROVE ArrivedWritten'
  BY <1>6, SendEffect, CopyEffect
<1>7. ASSUME NEW h \in Handlers, SendFails(h) PROVE ArrivedWritten'
  BY <1>7, SendFailsEffect
<1>8. ASSUME NEW h \in Handlers, SendLost(h) PROVE ArrivedWritten'
  BY <1>8, SendLostEffect, CopyEffect
<1>9. ASSUME NEW h \in Handlers, Release(h) PROVE ArrivedWritten'
  BY <1>9, ReleaseEffect
<1>10. ASSUME NEW h \in Handlers, Remember(h) PROVE ArrivedWritten'
  BY <1>10, RememberEffect
<1>11. ASSUME NEW h \in Handlers, HangUp(h) PROVE ArrivedWritten'
  BY <1>11, HangUpEffect
<1>12. ASSUME NEW h \in Handlers, Crash(h) \/ Finish(h) PROVE ArrivedWritten'
  BY <1>12, DropEffect
<1>13. CASE UNCHANGED vars
  BY <1>13 DEF vars, chatwoot, redis, sent
<1> HIDE DEF IInv, TypeOK, Mine, Moves, Becomes, ArrivedWritten, WellRouted, Unwritten
<1> QED
  BY <1>1, <1>2, <1>3, <1>4, <1>5, <1>6, <1>7, <1>8, <1>9, <1>10, <1>11, <1>12, <1>13 DEF Next, Handle

(* Copies of other messages than images go where these belong. *)
LEMMA ReferencesStep == ASSUME IInv, [Next]_vars PROVE ReferencesKept'
<1> USE ChannelBridgeAssumption, HandlerWorks DEF IInv, TypeOK, Mine, Moves, Becomes, ReferencesKept, WellRouted, ArrivedWritten, Unwritten
<1>1. ASSUME NEW m \in Messages, NEW kind \in {"visitor", "text", "image"}, NEW c \in Conversations, Write(m, kind, c) PROVE ReferencesKept'
  BY <1>1 DEF Write, redis, sent
<1>2. ASSUME NEW h \in Handlers, NEW m \in Messages, Deliver(h, m) PROVE ReferencesKept'
  BY <1>2, DeliverEffect
<1>3. ASSUME NEW h \in Handlers, Route(h) PROVE ReferencesKept'
  BY <1>3, RouteEffect
<1>4. ASSUME NEW h \in Handlers, Claim(h) PROVE ReferencesKept'
  BY <1>4, ClaimEffect
<1>5. ASSUME NEW h \in Handlers, ClaimFails(h) PROVE ReferencesKept'
  BY <1>5, ClaimFailsEffect
<1>6. ASSUME NEW h \in Handlers, Send(h) PROVE ReferencesKept'
  BY <1>6, SendEffect, CopyEffect
<1>7. ASSUME NEW h \in Handlers, SendFails(h) PROVE ReferencesKept'
  BY <1>7, SendFailsEffect
<1>8. ASSUME NEW h \in Handlers, SendLost(h) PROVE ReferencesKept'
  BY <1>8, SendLostEffect, CopyEffect
<1>9. ASSUME NEW h \in Handlers, Release(h) PROVE ReferencesKept'
  BY <1>9, ReleaseEffect
<1>10. ASSUME NEW h \in Handlers, Remember(h) PROVE ReferencesKept'
  BY <1>10, RememberEffect
<1>11. ASSUME NEW h \in Handlers, HangUp(h) PROVE ReferencesKept'
  BY <1>11, HangUpEffect
<1>12. ASSUME NEW h \in Handlers, Crash(h) \/ Finish(h) PROVE ReferencesKept'
  BY <1>12, DropEffect
<1>13. CASE UNCHANGED vars
  BY <1>13 DEF vars, chatwoot, redis, sent
<1> HIDE DEF IInv, TypeOK, Mine, Moves, Becomes, ReferencesKept, WellRouted, ArrivedWritten, Unwritten
<1> QED
  BY <1>1, <1>2, <1>3, <1>4, <1>5, <1>6, <1>7, <1>8, <1>9, <1>10, <1>11, <1>12, <1>13 DEF Next, Handle

(* Patient providers neither hang up nor post again meanwhile. *)
LEMMA PatientStep == ASSUME IInv, [Next]_vars PROVE PatientWaits'
<1> USE ChannelBridgeAssumption, HandlerWorks DEF IInv, TypeOK, Mine, Moves, Becomes, PatientWaits, Idle
<1>1. ASSUME NEW m \in Messages, NEW kind \in {"visitor", "text", "image"}, NEW c \in Conversations, Write(m, kind, c) PROVE PatientWaits'
  BY <1>1 DEF Write, redis, sent
<1>2. ASSUME NEW h \in Handlers, NEW m \in Messages, Deliver(h, m) PROVE PatientWaits'
  BY <1>2, DeliverEffect
<1>3. ASSUME NEW h \in Handlers, Route(h) PROVE PatientWaits'
  BY <1>3, RouteEffect
<1>4. ASSUME NEW h \in Handlers, Claim(h) PROVE PatientWaits'
  BY <1>4, ClaimEffect
<1>5. ASSUME NEW h \in Handlers, ClaimFails(h) PROVE PatientWaits'
  BY <1>5, ClaimFailsEffect
<1>6. ASSUME NEW h \in Handlers, Send(h) PROVE PatientWaits'
  BY <1>6, SendEffect, CopyEffect
<1>7. ASSUME NEW h \in Handlers, SendFails(h) PROVE PatientWaits'
  BY <1>7, SendFailsEffect
<1>8. ASSUME NEW h \in Handlers, SendLost(h) PROVE PatientWaits'
  BY <1>8, SendLostEffect, CopyEffect
<1>9. ASSUME NEW h \in Handlers, Release(h) PROVE PatientWaits'
  BY <1>9, ReleaseEffect
<1>10. ASSUME NEW h \in Handlers, Remember(h) PROVE PatientWaits'
  BY <1>10, RememberEffect
<1>11. ASSUME NEW h \in Handlers, HangUp(h) PROVE PatientWaits'
  BY <1>11, HangUpEffect
<1>12. ASSUME NEW h \in Handlers, Crash(h) \/ Finish(h) PROVE PatientWaits'
  BY <1>12, DropEffect
<1>13. CASE UNCHANGED vars
  BY <1>13 DEF vars, chatwoot, redis, sent
<1> HIDE DEF IInv, TypeOK, Mine, Moves, Becomes, PatientWaits, Idle
<1> QED
  BY <1>1, <1>2, <1>3, <1>4, <1>5, <1>6, <1>7, <1>8, <1>9, <1>10, <1>11, <1>12, <1>13 DEF Next, Handle

(* A claim is given back or kept for a message that was sent. *)
LEMMA AnsweredStep == ASSUME IInv, [Next]_vars PROVE ClaimsAnswered'
<1> USE ChannelBridgeAssumption, HandlerWorks DEF IInv, TypeOK, Mine, Moves, Becomes, ClaimsAnswered, Holding, OneHolder, PatientWaits, WellRouted, Settled, Unwritten, Idle
<1>1. ASSUME NEW m \in Messages, NEW kind \in {"visitor", "text", "image"}, NEW c \in Conversations, Write(m, kind, c) PROVE ClaimsAnswered'
  BY <1>1 DEF Write, redis, sent
<1>2. ASSUME NEW h \in Handlers, NEW m \in Messages, Deliver(h, m) PROVE ClaimsAnswered'
  BY <1>2, DeliverEffect
<1>3. ASSUME NEW h \in Handlers, Route(h) PROVE ClaimsAnswered'
  BY <1>3, RouteEffect
<1>4. ASSUME NEW h \in Handlers, Claim(h) PROVE ClaimsAnswered'
  BY <1>4, ClaimEffect
<1>5. ASSUME NEW h \in Handlers, ClaimFails(h) PROVE ClaimsAnswered'
  BY <1>5, ClaimFailsEffect
<1>6. ASSUME NEW h \in Handlers, Send(h) PROVE ClaimsAnswered'
  BY <1>6, SendEffect, CopyEffect
<1>7. ASSUME NEW h \in Handlers, SendFails(h) PROVE ClaimsAnswered'
  BY <1>7, SendFailsEffect
<1>8. ASSUME NEW h \in Handlers, SendLost(h) PROVE ClaimsAnswered'
  BY <1>8, SendLostEffect, CopyEffect
<1>9. ASSUME NEW h \in Handlers, Release(h) PROVE ClaimsAnswered'
  BY <1>9, ReleaseEffect
<1>10. ASSUME NEW h \in Handlers, Remember(h) PROVE ClaimsAnswered'
  BY <1>10, RememberEffect
<1>11. ASSUME NEW h \in Handlers, HangUp(h) PROVE ClaimsAnswered'
  BY <1>11, HangUpEffect
<1>12. ASSUME NEW h \in Handlers, Crash(h) \/ Finish(h) PROVE ClaimsAnswered'
  BY <1>12, DropEffect
<1>13. CASE UNCHANGED vars
  BY <1>13 DEF vars, chatwoot, redis, sent
<1> HIDE DEF IInv, TypeOK, Mine, Moves, Becomes, ClaimsAnswered, Holding, OneHolder, PatientWaits, WellRouted, Settled, Unwritten, Idle
<1> QED
  BY <1>1, <1>2, <1>3, <1>4, <1>5, <1>6, <1>7, <1>8, <1>9, <1>10, <1>11, <1>12, <1>13 DEF Next, Handle

(* Success is answered for what was sent, by this handler or an earlier one. *)
LEMMA AckedStep == ASSUME IInv, [Next]_vars PROVE AckedIsDelivered'
<1> USE ChannelBridgeAssumption, HandlerWorks DEF IInv, TypeOK, Mine, Moves, Becomes, AckedIsDelivered, ClaimsAnswered, Holding, PatientWaits, WellRouted, Settled, Unwritten, Idle
<1>1. ASSUME NEW m \in Messages, NEW kind \in {"visitor", "text", "image"}, NEW c \in Conversations, Write(m, kind, c) PROVE AckedIsDelivered'
  BY <1>1 DEF Write, redis, sent
<1>2. ASSUME NEW h \in Handlers, NEW m \in Messages, Deliver(h, m) PROVE AckedIsDelivered'
  BY <1>2, DeliverEffect
<1>3. ASSUME NEW h \in Handlers, Route(h) PROVE AckedIsDelivered'
  BY <1>3, RouteEffect
<1>4. ASSUME NEW h \in Handlers, Claim(h) PROVE AckedIsDelivered'
  BY <1>4, ClaimEffect
<1>5. ASSUME NEW h \in Handlers, ClaimFails(h) PROVE AckedIsDelivered'
  BY <1>5, ClaimFailsEffect
<1>6. ASSUME NEW h \in Handlers, Send(h) PROVE AckedIsDelivered'
  BY <1>6, SendEffect, CopyEffect
<1>7. ASSUME NEW h \in Handlers, SendFails(h) PROVE AckedIsDelivered'
  BY <1>7, SendFailsEffect
<1>8. ASSUME NEW h \in Handlers, SendLost(h) PROVE AckedIsDelivered'
  BY <1>8, SendLostEffect, CopyEffect
<1>9. ASSUME NEW h \in Handlers, Release(h) PROVE AckedIsDelivered'
  BY <1>9, ReleaseEffect
<1>10. ASSUME NEW h \in Handlers, Remember(h) PROVE AckedIsDelivered'
  BY <1>10, RememberEffect
<1>11. ASSUME NEW h \in Handlers, HangUp(h) PROVE AckedIsDelivered'
  BY <1>11, HangUpEffect
<1>12. ASSUME NEW h \in Handlers, Crash(h) \/ Finish(h) PROVE AckedIsDelivered'
  BY <1>12, DropEffect
<1>13. CASE UNCHANGED vars
  BY <1>13 DEF vars, chatwoot, redis, sent
<1> HIDE DEF IInv, TypeOK, Mine, Moves, Becomes, AckedIsDelivered, ClaimsAnswered, Holding, PatientWaits, WellRouted, Settled, Unwritten, Idle
<1> QED
  BY <1>1, <1>2, <1>3, <1>4, <1>5, <1>6, <1>7, <1>8, <1>9, <1>10, <1>11, <1>12, <1>13 DEF Next, Handle

(* Nothing is written, claimed, sent or handled at first. *)
LEMMA InitEstablishesIInv == Init => IInv
<1> SUFFICES ASSUME Init PROVE IInv
  OBVIOUS
<1>1. \A h \in Handlers : handler[h] = Idle /\ Idle.at = "idle" /\ Idle.m = None
  BY DEF Init, Idle
<1>2. None \notin Messages /\ 0 \in 0..MaxLost
  BY ChannelBridgeAssumption
<1>3. TypeOK
  BY <1>2 DEF Init, TypeOK
<1>4. PatientWaits
  BY <1>1, <1>2, ChannelBridgeAssumption DEF PatientWaits
<1>5. CopiesExplained /\ UnsentCounted
  BY DEF Init, CopiesExplained, UnsentCounted
<1> QED
  BY <1>1, <1>3, <1>4, <1>5
  DEF Init, IInv, ReferencesKept, AckedIsDelivered, HoldersClaim, OneHolder, Holding,
      WellRouted, ArrivedWritten, ClaimsAnswered

(* IInv holds in every reachable state. *)
THEOREM Invariance == Spec => []IInv
<1>1. IInv /\ [Next]_vars => IInv'
  BY TypeStep, HoldersStep, HolderStep, UnsentStep, CopiesStep, RoutedStep, WrittenStep,
     ReferencesStep, PatientStep, AnsweredStep, AckedStep DEF IInv
<1> QED
  BY InitEstablishesIInv, <1>1, PTL DEF Spec

(* Handlers, claims and copies keep their types. *)
THEOREM TypeCorrect == Spec => []TypeOK
  BY Invariance, PTL DEF IInv

(* Each copy but one is explained by an answer of the other side that was  *)
(* lost, for any number of deliveries, crashes and hang-ups.               *)
THEOREM CopiesAreExplained == Spec => []CopiesExplained
  BY Invariance, PTL DEF IInv

(* Messages with a reference arrive in their own conversation. *)
THEOREM ReferencesAreKept == Spec => []ReferencesKept
  BY Invariance, PTL DEF IInv

(* Without faults, success means that the other side has the message. *)
THEOREM SuccessIsDelivery == Spec => []AckedIsDelivered
  BY Invariance, PTL DEF IInv

(***************************************************************************)
(* ChannelBridge implements Mailbox                                        *)
(***************************************************************************)

(* The bridge begins with an empty mailbox. *)
LEMMA InitRefines == Init => Mail!Init
  BY DEF Init, Mail!Init

(* A step without a message, a copy or an answer is a stutter. *)
LEMMA Stutter ==
  ASSUME UNCHANGED <<msg, got, lost, arrived, acked>>
  PROVE  UNCHANGED Mail!vars
  BY DEF Mail!vars

(* A message that comes to be written is a message written to the mailbox. *)
LEMMA WriteWrites ==
  ASSUME NEW m \in Messages, NEW kind \in {"visitor", "text", "image"}, NEW c \in Conversations, Write(m, kind, c)
  PROVE  Mail!Next
<1>1. Mail!Write(m, kind, c)
  BY DEF Write, Mail!Write, Mail!Written, sent
<1> QED
  BY <1>1 DEF Mail!Next

(* A success without a copy is an image that is ignored, or the answer of  *)
(* what was sent before.                                                   *)
LEMMA SuccessReports ==
  ASSUME IInv, IInv', NEW h \in Handlers, handler[h].at # "idle",
         UNCHANGED <<msg, got, lost, arrived>>, acked' = acked \cup {handler[h].m}
  PROVE  Mail!Next
<1> DEFINE m == handler[h].m
<1>1. m \in Messages /\ msg[m] # Unwritten
  BY HandlerWorks DEF IInv, WellRouted
<1>2. m \in Settled /\ msg[m].kind # "image" => got[m] > 0
  BY <1>1 DEF IInv, AckedIsDelivered
<1>3. Mail!Report(m)
  BY <1>1, <1>2 DEF Mail!Report, Mail!Written, Mail!Addressed
<1> QED
  BY <1>1, <1>3 DEF Mail!Next

(* A copy is the first one, or follows copies that nobody answered. *)
LEMMA CopyArrives ==
  ASSUME IInv, NEW h \in Handlers, handler[h].at = "sending", Copy(h), NEW n \in {0, 1},
         lost' = [lost EXCEPT ![handler[h].m] = @ + n],
         acked' \in {acked, acked \cup {handler[h].m}}
  PROVE  Mail!Next
<1> DEFINE m == handler[h].m
           c == handler[h].conv
<1>1. m \in Messages /\ c \in Conversations /\ UNCHANGED msg
  BY CopyEffect DEF IInv, Mine
<1>2. msg[m] # Unwritten /\ (msg[m].kind # "image" => c = msg[m].conv)
  BY DEF IInv, WellRouted
<1>3. got[m] <= lost[m]
  BY <1>1 DEF IInv, UnsentCounted, ToBeSent
<1>4. Mail!Arrive(m, c, n)
  BY <1>1, <1>2, <1>3 DEF Copy, Mail!Arrive, Mail!Written, Mail!Addressed
<1> QED
  BY <1>1, <1>4 DEF Mail!Next

(* Every step is a step of Mailbox or a stutter. *)
LEMMA StepRefines ==
  ASSUME IInv, IInv', [Next]_vars
  PROVE  [Mail!Next]_(Mail!vars)
<1> USE DEF IInv
<1>1. ASSUME NEW h \in Handlers, Route(h) PROVE [Mail!Next]_(Mail!vars)
  BY <1>1, RouteEffect, SuccessReports, Stutter DEF Mine
<1>2. ASSUME NEW h \in Handlers, Claim(h) PROVE [Mail!Next]_(Mail!vars)
  BY <1>2, ClaimEffect, SuccessReports, Stutter DEF Mine
<1>3. ASSUME NEW h \in Handlers, Send(h) PROVE [Mail!Next]_(Mail!vars)
  <2>1. lost' = [lost EXCEPT ![handler[h].m] = @ + 0]
    <3>1. handler[h].m \in Messages /\ lost \in [Messages -> Nat]
      BY <1>3, HandlerWorks DEF Send, TypeOK
    <3> QED
      BY <1>3, <3>1 DEF Send
  <2>2. acked' \in {acked, acked \cup {handler[h].m}}
    BY <1>3 DEF Send, Succeed, Continue
  <2> QED
    BY <1>3, <2>1, <2>2, CopyArrives DEF Send
<1>4. ASSUME NEW h \in Handlers, SendLost(h) PROVE [Mail!Next]_(Mail!vars)
  BY <1>4, CopyArrives DEF SendLost, Continue
<1>5. ASSUME NEW h \in Handlers, Remember(h) PROVE [Mail!Next]_(Mail!vars)
  BY <1>5, RememberEffect, SuccessReports, Stutter DEF Mine
<1>6. ASSUME NEW h \in Handlers,
             ClaimFails(h) \/ SendFails(h) \/ Release(h) \/ HangUp(h) \/ Crash(h) \/ Finish(h)
      PROVE  [Mail!Next]_(Mail!vars)
  BY <1>6, ClaimFailsEffect, SendFailsEffect, ReleaseEffect, HangUpEffect, DropEffect, Stutter
<1>7. ASSUME NEW h \in Handlers, NEW m \in Messages, Deliver(h, m) PROVE [Mail!Next]_(Mail!vars)
  BY <1>7, DeliverEffect, Stutter
<1>8. CASE UNCHANGED vars
  BY <1>8, Stutter DEF vars, chatwoot, sent
<1> HIDE DEF IInv
<1> QED
  BY <1>1, <1>2, <1>3, <1>4, <1>5, <1>6, <1>7, <1>8, WriteWrites DEF Next, Handle

(* Deliveries, claims and answers together implement Mailbox. *)
THEOREM Implements == Spec => KeepsMail
  BY InitRefines, StepRefines, Invariance, PTL DEF Spec, KeepsMail, Mail!Spec
=============================================================================
