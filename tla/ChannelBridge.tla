--------------------------- MODULE ChannelBridge ---------------------------
(***************************************************************************)
(* The bridge between Chatwoot visitors and the WeCom operator.            *)
(*                                                                         *)
(* A provider (Chatwoot for a visitor's message, WeCom for the operator's) *)
(* posts each message to the bridge, at least once, and again while the    *)
(* answer is an error or does not come.  A handler claims the message in   *)
(* Redis, sends it to the other side, and on failure gives the claim back. *)
(* Everything a handler does runs under the context of the provider's      *)
(* request, which ends when the provider stops waiting.  A claim lasts 24  *)
(* hours, longer than any provider retries.                                *)
(***************************************************************************)
EXTENDS Naturals

CONSTANTS
    Conversations,
    Messages,       \* messages of visitors and operator: the bound on them
    Handlers,       \* deliveries being handled: the bound on concurrent ones
    None,
    MaxLost,        \* bound: lost answers of the other side, per message
    Failing,        \* messages in whose handling processes may die and Redis may fail
    Patient         \* messages whose provider never hangs up before the answer

ASSUME ChannelBridgeAssumption ==
    /\ None \notin Conversations \cup Messages
    /\ MaxLost \in Nat /\ Failing \subseteq Messages /\ Patient \subseteq Messages

VARIABLES
    msg,      \* [Messages -> [kind, conv]]: what it is and which conversation it is meant for
    screen,   \* the conversation the operator saw a message of last
    claims,   \* messages with a delivery key in Redis
    latest,   \* the operator's latest conversation in Redis
    got,      \* [Messages -> the number of copies the other side has]
    lost,     \* [Messages -> how many of these were answered by nothing]
    arrived,  \* pairs [message, conv]: where copies went
    acked,    \* messages answered with success: no reason to retry
    handler   \* [Handlers -> [at, m, conv, open]]

vars == <<msg, screen, claims, latest, got, lost, arrived, acked, handler>>

Unwritten == [kind |-> "none", conv |-> None]
Idle == [at |-> "idle", m |-> None, conv |-> None, open |-> TRUE]

Init ==
    /\ msg = [m \in Messages |-> Unwritten]
    /\ screen = None
    /\ claims = {}
    /\ latest = None
    /\ got = [m \in Messages |-> 0]
    /\ lost = [m \in Messages |-> 0]
    /\ arrived = {}
    /\ acked = {}
    /\ handler = [h \in Handlers |-> Idle]

chatwoot == <<msg, screen>>
redis == <<claims, latest>>
sent == <<got, lost, arrived>>

(***************************************************************************)
(* The people: a visitor writes in a conversation, the operator answers in *)
(* text with the reference of one, or sends an image about what is on the  *)
(* screen.                                                                 *)
(***************************************************************************)

Write(m, kind, c) ==
    /\ msg[m] = Unwritten
    /\ kind # "visitor" => screen # None
    /\ kind = "image" => c = screen
    /\ msg' = [msg EXCEPT ![m] = [kind |-> kind, conv |-> c]]
    /\ UNCHANGED <<screen, redis, sent, acked, handler>>

(***************************************************************************)
(* A delivery                                                              *)
(***************************************************************************)

ByLatest(kind) == kind # "visitor"
Routed(kind) == kind = "image"

Step(h, at) == handler' = [handler EXCEPT ![h].at = at]

Succeed(h) == Step(h, "ended") /\ acked' = acked \cup {handler[h].m}
Continue(h, at) == Step(h, at) /\ UNCHANGED acked

(* A patient provider posts again only after an answer that was an error. *)
Due(m) == m \notin acked /\ \A h \in Handlers : handler[h].m # m

Deliver(h, m) ==
    /\ handler[h] = Idle
    /\ msg[m] # Unwritten
    /\ m \in Patient => Due(m)
    /\ handler' = [handler EXCEPT ![h] =
                      [at |-> IF Routed(msg[m].kind) THEN "routing" ELSE "claiming",
                       m |-> m, conv |-> msg[m].conv, open |-> TRUE]]
    /\ UNCHANGED <<chatwoot, redis, sent, acked>>

AnyLatest == TRUE
HasLatest == latest # None

(* An image goes to the latest conversation.  If Redis has none, or does   *)
(* not answer, the image is ignored, and WeCom is answered with success.   *)
Route(h) ==
    /\ handler[h].at = "routing"
    /\ \/ /\ HasLatest
          /\ handler' = [handler EXCEPT ![h].at = "claiming", ![h].conv = latest]
          /\ UNCHANGED acked
       \/ /\ ~HasLatest \/ ~handler[h].open \/ handler[h].m \in Failing
          /\ Succeed(h)
    /\ UNCHANGED <<chatwoot, redis, sent>>

Unclaimed(m) == TRUE
ClaimFree(m) == m \notin claims

Claim(h) ==
    /\ handler[h].at = "claiming"
    /\ handler[h].open
    /\ \/ /\ ClaimFree(handler[h].m)
          /\ claims' = claims \cup {handler[h].m}
          /\ Continue(h, "sending")
       \/ /\ ~ClaimFree(handler[h].m)
          /\ Succeed(h)
          /\ UNCHANGED claims
    /\ UNCHANGED <<chatwoot, latest, sent>>

(* The command fails, before or after Redis executes it. *)
ClaimFails(h) ==
    /\ handler[h].at = "claiming"
    /\ ~handler[h].open \/ handler[h].m \in Failing
    /\ claims' \in {claims, claims \cup {handler[h].m}}
    /\ Continue(h, "ended")
    /\ UNCHANGED <<chatwoot, latest, sent>>

Copy(h) ==
    /\ got' = [got EXCEPT ![handler[h].m] = @ + 1]
    /\ arrived' = arrived \cup {[message |-> handler[h].m, conv |-> handler[h].conv]}
    /\ screen' = IF msg[handler[h].m].kind = "visitor" THEN handler[h].conv ELSE screen
    /\ UNCHANGED <<msg, redis>>

Send(h) ==
    /\ handler[h].at = "sending"
    /\ handler[h].open
    /\ Copy(h)
    /\ \/ msg[handler[h].m].kind = "image" /\ Succeed(h)
       \/ msg[handler[h].m].kind # "image" /\ Continue(h, "remembering")
    /\ UNCHANGED lost

SendFails(h) ==
    /\ handler[h].at = "sending"
    /\ Continue(h, "releasing")
    /\ UNCHANGED <<chatwoot, redis, sent>>

(* The other side took the message; the bridge sees an error. *)
SendLost(h) ==
    /\ handler[h].at = "sending"
    /\ lost[handler[h].m] < MaxLost
    /\ Copy(h)
    /\ lost' = [lost EXCEPT ![handler[h].m] = @ + 1]
    /\ Continue(h, "releasing")

Kept(h) == claims
Released(h) == claims \ {handler[h].m}

Swallowed(h) == Succeed(h)
Reported(h) == Continue(h, "ended")

(* The error of Release is ignored; the provider is answered 503. *)
Release(h) ==
    /\ handler[h].at = "releasing"
    /\ \/ handler[h].open /\ claims' = Released(h)
       \/ (~handler[h].open \/ handler[h].m \in Failing) /\ UNCHANGED claims
    /\ Reported(h)
    /\ UNCHANGED <<chatwoot, latest, sent>>

(* A failure to remember is an error for Chatwoot and none for WeCom. *)
Remember(h) ==
    /\ handler[h].at = "remembering"
    /\ \/ handler[h].open /\ latest' = handler[h].conv /\ Succeed(h)
       \/ /\ ~handler[h].open \/ handler[h].m \in Failing
          /\ latest' \in {latest, handler[h].conv}
          /\ \/ msg[handler[h].m].kind = "visitor" /\ Continue(h, "ended")
             \/ msg[handler[h].m].kind = "text" /\ Succeed(h)
    /\ UNCHANGED <<chatwoot, claims, sent>>

Working(h) == handler[h].at \notin {"idle", "ended"}

HangUp(h) ==
    /\ Working(h) /\ handler[h].open
    /\ handler[h].m \notin Patient
    /\ handler' = [handler EXCEPT ![h].open = FALSE]
    /\ UNCHANGED <<chatwoot, redis, sent, acked>>

Crash(h) ==
    /\ Working(h)
    /\ handler[h].m \in Failing
    /\ handler' = [handler EXCEPT ![h] = Idle]
    /\ UNCHANGED <<chatwoot, redis, sent, acked>>

Finish(h) ==
    /\ handler[h].at = "ended"
    /\ handler' = [handler EXCEPT ![h] = Idle]
    /\ UNCHANGED <<chatwoot, redis, sent, acked>>

Handle(h) ==
    \/ Route(h) \/ Claim(h) \/ ClaimFails(h) \/ Send(h) \/ SendFails(h) \/ SendLost(h)
    \/ Release(h) \/ Remember(h) \/ Finish(h)

Next ==
    \/ \E m \in Messages, kind \in {"visitor", "text", "image"}, c \in Conversations : Write(m, kind, c)
    \/ \E h \in Handlers :
          \/ \E m \in Messages : Deliver(h, m)
          \/ Handle(h) \/ HangUp(h) \/ Crash(h)

Spec == Init /\ [][Next]_vars

(* A handler takes its steps; the provider posts a message again until it  *)
(* is answered with success; sending does not fail every time.             *)
FairSpec ==
    /\ Spec
    /\ \A h \in Handlers : WF_vars(Handle(h))
    /\ \A m \in Messages :
          /\ SF_vars(m \notin acked /\ \E h \in Handlers : Deliver(h, m))
          /\ SF_vars(\E h \in Handlers : handler[h].m = m /\ Send(h))

(***************************************************************************)
(* Properties                                                              *)
(***************************************************************************)

TypeOK ==
    /\ msg \in [Messages -> {Unwritten} \cup [kind : {"visitor", "text", "image"}, conv : Conversations]]
    /\ screen \in Conversations \cup {None}
    /\ claims \subseteq {m \in Messages : msg[m] # Unwritten}
    /\ latest \in Conversations \cup {None}
    /\ got \in [Messages -> Nat] /\ lost \in [Messages -> 0..MaxLost]
    /\ acked \subseteq {m \in Messages : msg[m] # Unwritten}
    /\ arrived \subseteq [message : Messages, conv : Conversations]
    /\ handler \in [Handlers -> {Idle} \cup
          [at : {"routing", "claiming", "sending", "remembering", "releasing", "ended"},
           m : Messages, conv : Conversations, open : BOOLEAN]]

(* Whatever is delivered twice, concurrently or again, the other side has  *)
(* more than one copy only when an answer of its own was lost, and each    *)
(* lost answer accounts for one.                                           *)
CopiesExplained == \A m \in Messages : got[m] <= 1 + lost[m]

(* A visitor's message and a reply with a reference arrive in their own    *)
(* conversation, however their handlers interleave with others.            *)
ReferencesKept == \A a \in arrived : msg[a.message].kind # "image" => a.conv = msg[a.message].conv

Settled == Patient \ Failing

(* A visitor's message, or a reply with a reference, that the provider     *)
(* need not post again has reached the other side.                         *)
AckedIsDelivered == \A m \in acked \cap Settled : msg[m].kind # "image" => got[m] > 0

Mail == INSTANCE Mailbox WITH
    Faultless <- Settled,
    message <- msg, copies <- got, unanswered <- lost, where <- arrived, reported <- acked

(* Claims, retries, restarts and lost answers together do what Mailbox     *)
(* does in single steps: among others, nothing is sent again after a copy  *)
(* that was answered, and nothing goes to a conversation nobody has.       *)
KeepsMail == Mail!Spec

(* httpapi/channelbridge.go:61-64: downstream errors are answered so that  *)
(* the provider retries; a message is forwarded in the end.                *)
Forwarded == \A m \in Settled : (msg[m].kind = "visitor") ~> (got[m] > 0)

WorkedOn(m) == \E h \in Handlers : handler[h].m = m /\ handler[h].at \in {"sending", "releasing"}

(* bridge.go:50-52: a failed delivery gives its claim back, so that the    *)
(* provider's retry can deliver the message.                               *)
ClaimIsWorkedOn == \A m \in claims \ Failing : got[m] = 0 => WorkedOn(m)
=============================================================================
