------------------------------ MODULE Mailbox ------------------------------
(***************************************************************************)
(* What the bridge promises the people on both sides, without webhooks,    *)
(* handlers or Redis: a message that was written arrives, in its own       *)
(* conversation unless it is an image; it arrives again only after every   *)
(* earlier copy was answered by nothing; and without a fault of the bridge *)
(* it is not reported as delivered before.  ChannelBridge implements it.   *)
(***************************************************************************)
EXTENDS Naturals

CONSTANTS
    Conversations, Messages,
    Unwritten,   \* a message nobody has written yet
    Faultless    \* messages whose handling meets no fault but lost answers

VARIABLES
    message,     \* [Messages -> [kind, conv], or Unwritten]
    copies,      \* [Messages -> the number that arrived]
    unanswered,  \* [Messages -> the number that arrived and were not answered]
    where,       \* pairs [message, conv] that arrived
    reported     \* messages reported as delivered

vars == <<message, copies, unanswered, where, reported>>

Init ==
    /\ message = [m \in Messages |-> Unwritten]
    /\ copies = [m \in Messages |-> 0]
    /\ unanswered = [m \in Messages |-> 0]
    /\ where = {}
    /\ reported = {}

Written == {m \in Messages : message[m] # Unwritten}
Addressed(m) == message[m].kind # "image"

Write(m, kind, c) ==
    /\ m \notin Written
    /\ message' = [message EXCEPT ![m] = [kind |-> kind, conv |-> c]]
    /\ UNCHANGED <<copies, unanswered, where, reported>>

(* An answered copy is the last one; it may be reported at once. *)
Arrive(m, c, lost) ==
    /\ m \in Written
    /\ copies[m] <= unanswered[m]
    /\ Addressed(m) => c = message[m].conv
    /\ copies' = [copies EXCEPT ![m] = @ + 1]
    /\ unanswered' = [unanswered EXCEPT ![m] = @ + lost]
    /\ where' = where \cup {[message |-> m, conv |-> c]}
    /\ reported' \in {reported, reported \cup {m}}
    /\ UNCHANGED message

Report(m) ==
    /\ m \in Written
    /\ m \in Faultless /\ Addressed(m) => copies[m] > 0
    /\ reported' = reported \cup {m}
    /\ UNCHANGED <<message, copies, unanswered, where>>

Next ==
    \E m \in Messages :
        \/ Report(m)
        \/ \E c \in Conversations :
              \/ \E kind \in {"visitor", "text", "image"} : Write(m, kind, c)
              \/ \E lost \in {0, 1} : Arrive(m, c, lost)

Spec == Init /\ [][Next]_vars
=============================================================================
