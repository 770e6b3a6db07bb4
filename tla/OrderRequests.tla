--------------------------- MODULE OrderRequests ---------------------------
(***************************************************************************)
(* One order request of one browser, from the customer's click to the      *)
(* order the storefront shows.                                             *)
(*                                                                         *)
(* OrderHandoffController keeps the request as a record in localStorage.   *)
(* Every tab has its own copy, loaded when the page opens, and each change *)
(* writes the whole copy back.  A run fetches the owner cookie, asks for   *)
(* an order an earlier run may have created, and otherwise POSTs one; any  *)
(* answer may be lost while its request is still on its way.  The server   *)
(* keeps at most one order per owner and request key.                      *)
(*                                                                         *)
(* The model follows one request key.  Owners are numbered in the order    *)
(* they are issued and orders in the order they are created; 0 is none.    *)
(* The hand-off to support that follows is module OrderHandoff.            *)
(***************************************************************************)
EXTENDS Naturals, Sequences, FiniteSets

CONSTANTS
    Tabs,           \* tabs the storefront can be open in
    MaxAttempts,    \* maximumAttempts of a run
    MaxOwners,      \* bound: owner cookies issued
    MaxFaults       \* bound: <<with one tab in use, with two, ...>> lost requests and answers,
                    \* closed pages, dismissed challenges, lost cookies

ASSUME BoundAssumption ==
    /\ MaxAttempts \in Nat \ {0} /\ MaxOwners \in Nat \ {0}
    /\ MaxFaults \in [1 .. Cardinality(Tabs) -> Nat]

Owners == 1 .. MaxOwners

VARIABLES
    jar,        \* the owner cookie of the browser
    minted,     \* owners issued so far
    orders,     \* affiliate_order_requests of the key: the owner of each order
    stored,     \* the record in localStorage
    tab,        \* [Tabs -> the tab's copy of the record, its run and its request]
    late,       \* requests their tab no longer waits for and the server may still handle
    current,    \* history: tabs whose copy is the stored record, until clobbered
    clobbered,  \* history: a tab wrote over a record that another one had written
    used,       \* the tabs the customer has the page open in, now and then
    faults      \* failures so far

server == <<minted, orders, late>>
client == <<stored, tab, current, clobbered>>
vars   == <<jar, server, client, used, faults>>

(* "stopped": an errorCode of stoppedCodes that resumePending does not pass. *)
Records == [attempted : BOOLEAN, order : Nat, phase : {"open", "stopped", "delivered"}]
Runs    == [recovery : BOOLEAN, repeat : BOOLEAN, recover : BOOLEAN, before : BOOLEAN,
            csrf : 0 .. MaxOwners, attempt : 0 .. MaxAttempts - 1, renewed : BOOLEAN]
Calls   == [at : {"none", "ready", "sent", "checked", "answered"}, owner : 0 .. MaxOwners,
            answer : {"none", "ready", "fresh", "found", "missing", "refused", "unavailable", "denied"},
            value : Nat]
Stages  == {"closed", "idle", "session", "recover", "challenge", "create", "deliver", "wait"}

NoCall == [at |-> "none", owner |-> 0, answer |-> "none", value |-> 0]
NoRun  == [recovery |-> FALSE, repeat |-> FALSE, recover |-> FALSE, before |-> FALSE,
           csrf |-> 0, attempt |-> 0, renewed |-> FALSE]

Saved    == [attempted |-> FALSE, order |-> 0, phase |-> "open"]
AtRest(pc, record) == [pc |-> pc, record |-> record, run |-> NoRun, call |-> NoCall]

Calling(pc, d) == [d EXCEPT !.pc = pc, !.call = [NoCall EXCEPT !.at = "ready"]]

(* createRequest has persisted the record before its first run; other tabs *)
(* may have been opened since.                                             *)
Init ==
    /\ jar \in {0, 1} /\ minted = jar
    /\ orders = <<>> /\ late = {}
    /\ stored = Saved
    /\ used \in SUBSET Tabs \ {{}}
    /\ \E open \in SUBSET used :
        /\ tab = [t \in Tabs |-> AtRest(IF t \in open THEN "idle" ELSE "closed", Saved)]
        /\ current = open
    /\ clobbered = FALSE
    /\ faults = 0

Fault == faults < MaxFaults[Cardinality(used)] /\ faults' = faults + 1

---------------------------------------------------------------------------
(* The copy of a tab *)

Move(t, d) ==
    /\ tab' = [tab EXCEPT ![t] = d]
    /\ UNCHANGED <<stored, current, clobbered>>

Save(t, d) ==
    /\ tab' = [tab EXCEPT ![t] = d]
    /\ stored' = d.record
    /\ clobbered' = (clobbered \/ t \notin current)
    /\ current' = IF clobbered' THEN {} ELSE {t}

Open(t) ==
    /\ tab[t].pc = "closed"
    /\ tab' = [tab EXCEPT ![t] = AtRest("idle", stored)]
    /\ current' = IF clobbered THEN {} ELSE current \cup {t}
    /\ UNCHANGED <<jar, server, stored, clobbered, faults>>

---------------------------------------------------------------------------
(* A run *)

(* What the loop of perform does once the owner is known. *)
Onward(d) ==
    CASE d.run.recover -> Calling("recover", d)
      [] ~d.run.recover /\ d.record.order = 0 -> [d EXCEPT !.pc = "challenge", !.call = NoCall]
      [] OTHER -> [d EXCEPT !.pc = "deliver", !.call = NoCall]

Top(d) == IF d.run.csrf = 0 THEN Calling("session", d) ELSE Onward(d)

(* Continue(t, d): only the way to the support widget persists the record. *)
Continue(t, d) == IF d.pc = "deliver" THEN Save(t, d) ELSE Move(t, d)

Run(t) ==
    /\ tab[t].pc = "idle"
    /\ LET record == [tab[t].record EXCEPT !.phase = "open"]
           again  == record.attempted
       IN Save(t, Top([AtRest("idle", record) EXCEPT
                          !.run.recovery = again, !.run.recover = again, !.run.repeat = ~again]))
    /\ UNCHANGED <<jar, server, faults>>

(* How a run goes on after an error: stop, end, or another attempt. *)
Ended(d, phase) == AtRest("idle", [d.record EXCEPT !.phase = phase])

(* Mutant: one attempt too many. *)
RetriedOnceMore(d) ==
    IF d.run.attempt < MaxAttempts
    THEN [d EXCEPT !.pc = "wait", !.call = NoCall, !.run.attempt = @ + 1,
                   !.run.before = FALSE, !.run.renewed = FALSE]
    ELSE Ended(d, "open")
Retried(d) ==
    IF d.run.attempt + 1 < MaxAttempts
    THEN [d EXCEPT !.pc = "wait", !.call = NoCall, !.run.attempt = @ + 1,
                   !.run.before = FALSE, !.run.renewed = FALSE]
    ELSE Ended(d, "open")

Again(t) ==
    /\ tab[t].pc = "wait"
    /\ Save(t, Top(tab[t]))
    /\ UNCHANGED <<jar, server, faults>>

(* The browser attaches the owner cookie when the request leaves it. *)
Send(t) ==
    /\ tab[t].call.at = "ready"
    /\ Move(t, [tab[t] EXCEPT !.call.at = "sent", !.call.owner = jar])
    /\ UNCHANGED <<jar, server, faults>>

SessionAnswered(t) ==
    /\ tab[t].pc = "session" /\ tab[t].call.at = "answered"
    /\ LET d == tab[t]
           fresh == d.call.answer = "fresh"
       IN /\ jar' = IF fresh THEN d.call.value ELSE jar
          /\ \/ /\ fresh /\ ~d.run.renewed
                /\ Move(t, Calling("session", [d EXCEPT !.run.renewed = TRUE]))
             \/ /\ IF fresh THEN d.run.renewed ELSE d.run.renewed /\ d.run.recovery
                /\ Save(t, Ended(d, "stopped"))
             \/ /\ ~fresh /\ ~(d.run.renewed /\ d.run.recovery)
                /\ Continue(t, Onward([d EXCEPT !.run.csrf = d.call.value, !.run.renewed = FALSE]))
    /\ UNCHANGED <<server, faults>>

(* Mutant: a recovery that finds nothing creates. *)
MissingStopsOrdered(d) == d.record.order # 0

(* A missing order stops the run unless this run has been creating it. *)
MissingStops(d) == ~d.run.repeat \/ d.record.order # 0

(* Mutant: the answer is not written to the record. *)
AdoptedUnnamed(d) ==
    [d EXCEPT !.pc = "deliver", !.call = NoCall, !.run.recover = FALSE, !.run.before = FALSE]

Adopted(d) ==
    IF d.record.order \in {0, d.call.value}
    THEN [d EXCEPT !.pc = "deliver", !.call = NoCall, !.run.recover = FALSE, !.run.before = FALSE,
                   !.record.order = d.call.value]
    ELSE Ended(d, "stopped")

RecoverAnswered(t) ==
    /\ tab[t].pc = "recover" /\ tab[t].call.at = "answered"
    /\ LET d == tab[t] IN
        CASE d.call.answer = "found" -> Save(t, Adopted(d))
          [] d.call.answer = "missing" /\ ~MissingStops(d) ->
                Move(t, Onward([d EXCEPT !.run.recover = FALSE]))
          [] OTHER -> Save(t, Ended(d, "stopped"))
    /\ UNCHANGED <<jar, server, faults>>

(* The challenge is passed: the attempt is persisted before its POST. *)
Create(t) ==
    /\ tab[t].pc = "challenge"
    /\ LET d == tab[t] IN
        Save(t, Calling("create", [d EXCEPT !.record.attempted = TRUE, !.run.repeat = TRUE,
                                            !.run.recover = TRUE, !.run.before = d.record.attempted]))
    /\ UNCHANGED <<jar, server, faults>>

DismissChallenge(t) ==
    /\ Fault
    /\ tab[t].pc = "challenge"
    /\ Save(t, Ended(tab[t], "open"))
    /\ UNCHANGED <<jar, server>>

(* Mutant: a refusal clears what an earlier lost answer left uncertain. *)
UnattemptedAlways(d) == [d EXCEPT !.record.attempted = FALSE, !.run.recover = FALSE]

(* RATE_LIMITED and CHALLENGE_* come before creation: the first attempt of a *)
(* record they refuse has not happened.                                      *)
Unattempted(d) ==
    IF d.run.before THEN d ELSE [d EXCEPT !.record.attempted = FALSE, !.run.recover = FALSE]

CreateAnswered(t) ==
    /\ tab[t].pc = "create" /\ tab[t].call.at = "answered"
    /\ LET d == tab[t] IN
        CASE d.call.answer = "found" -> Save(t, Adopted(d))
          [] d.call.answer = "refused" ->
                \E after \in {Retried(Unattempted(d)), Ended(Unattempted(d), "open")} : Save(t, after)
          [] d.call.answer = "unavailable" -> Save(t, Ended(d, "open"))
          [] OTHER -> Save(t, Ended(d, "stopped"))
    /\ UNCHANGED <<jar, server, faults>>

(* The widget, the delivery, its confirmation and their retries, which     *)
(* change no order.                                                        *)
Deliver(t) ==
    /\ tab[t].pc = "deliver"
    /\ \E phase \in {"open", "stopped", "delivered"} : Save(t, Ended(tab[t], phase))
    /\ UNCHANGED <<jar, server, faults>>

---------------------------------------------------------------------------
(* The server *)

OrdersOf(owner) == {i \in DOMAIN orders : orders[i] = owner}
Authorised(owner, csrf) == owner # 0 /\ csrf = owner

Answer(t, answer, value) ==
    Move(t, [tab[t] EXCEPT !.call = [NoCall EXCEPT !.at = "answered", !.answer = answer, !.value = value]])
Arrived(t, pc) == tab[t].pc = pc /\ tab[t].call.at = "sent"

ServeSession(t) ==
    /\ Arrived(t, "session")
    /\ IF tab[t].call.owner # 0
       THEN Answer(t, "ready", tab[t].call.owner) /\ UNCHANGED minted
       ELSE /\ minted < MaxOwners
            /\ minted' = minted + 1
            /\ Answer(t, "fresh", minted + 1)
    /\ UNCHANGED <<jar, orders, late, faults>>

Deny(t) ==
    /\ Arrived(t, "recover") \/ Arrived(t, "create")
    /\ ~Authorised(tab[t].call.owner, tab[t].run.csrf)
    /\ Answer(t, "denied", 0)
    /\ UNCHANGED <<jar, server, faults>>

(* Found(t): the rows of the caller, the only ones it is ever shown. *)
Found(t) == OrdersOf(tab[t].call.owner)

ServeRecover(t) ==
    /\ Arrived(t, "recover") /\ Authorised(tab[t].call.owner, tab[t].run.csrf)
    /\ IF Found(t) = {} THEN Answer(t, "missing", 0) ELSE \E i \in Found(t) : Answer(t, "found", i)
    /\ UNCHANGED <<jar, server, faults>>

(* A repeated request is answered before the limiter and the challenge. *)
CheckCreate(t) ==
    /\ Arrived(t, "create") /\ Authorised(tab[t].call.owner, tab[t].run.csrf)
    /\ IF Found(t) # {}
       THEN \E i \in Found(t) : Answer(t, "found", i)
       ELSE Move(t, [tab[t] EXCEPT !.call.at = "checked"])
    /\ UNCHANGED <<jar, server, faults>>

RefuseCreate(t) ==
    /\ Arrived(t, "create") /\ Authorised(tab[t].call.owner, tab[t].run.csrf) /\ Found(t) = {}
    /\ Answer(t, "refused", 0)
    /\ UNCHANGED <<jar, server, faults>>

(* CreateOwnedAffiliateOrder: the row is looked up again under the lock of *)
(* the owner and key.                                                      *)
PlaceOrder(t) ==
    /\ tab[t].pc = "create" /\ tab[t].call.at = "checked"
    /\ IF Found(t) # {}
       THEN /\ \E i \in Found(t) : Answer(t, "found", i)
            /\ UNCHANGED orders
       ELSE \/ /\ orders' = Append(orders, tab[t].call.owner)
               /\ Answer(t, "found", Len(orders) + 1)
            \/ Answer(t, "unavailable", 0) /\ UNCHANGED orders
    /\ UNCHANGED <<jar, minted, late, faults>>

(* A request whose tab gave it up.  One that is not served is lost. *)
ServeLate(r) ==
    /\ late' = late \ {r}
    /\ CASE r.kind = "session" ->
              /\ minted < MaxOwners /\ minted' = minted + 1
              /\ jar' \in {jar, minted + 1}
              /\ UNCHANGED orders
         [] r.kind = "create" ->
              /\ orders' = IF OrdersOf(r.owner) = {} THEN Append(orders, r.owner) ELSE orders
              /\ UNCHANGED <<jar, minted>>
    /\ UNCHANGED <<client, faults>>

---------------------------------------------------------------------------
(* Failures *)

(* What the server may yet do for the request a tab abandons, and the      *)
(* cookie its answer may have set.                                         *)
Abandoned(d) ==
    {[kind |-> kind, owner |-> d.call.owner] : kind \in
        {k \in {"session", "create"} :
            /\ d.pc = k
            /\ \/ d.call.at = "sent" /\ k = "session" /\ d.call.owner = 0
               \/ d.call.at = "sent" /\ k = "create" /\ Authorised(d.call.owner, d.run.csrf)
               \/ d.call.at = "checked"}}

Abandon(d) ==
    /\ late' \in {late, late \cup Abandoned(d)}
    /\ jar' \in {jar} \cup {d.call.value : x \in {a \in {d.call.answer} : a = "fresh"}}
    /\ UNCHANGED <<minted, orders>>

(* HANDOFF_TIMEOUT, a failed connection or a 5xx answer; no further attempt *)
(* is made after the run's 30 s.                                            *)
GiveUp(t) ==
    /\ Fault
    /\ tab[t].call.at # "none"
    /\ Abandon(tab[t])
    /\ \E after \in {Retried(tab[t]), Ended(tab[t], "open")} : Save(t, after)

(* pause: HANDOFF_CANCELLED when the page is left, HANDOFF_CLOSED with the widget *)
Pause(t) ==
    /\ Fault
    /\ tab[t].pc \notin {"closed", "idle"}
    /\ Abandon(tab[t])
    /\ \E phase \in {"open", "stopped"} : Save(t, Ended(tab[t], phase))

(* The tab goes away without a word. *)
Close(t) ==
    /\ Fault
    /\ tab[t].pc # "closed"
    /\ Abandon(tab[t])
    /\ tab' = [tab EXCEPT ![t] = AtRest("closed", Saved)]
    /\ current' = current \ {t}
    /\ UNCHANGED <<stored, clobbered>>

(* The owner cookie expires or is removed. *)
LoseCookie ==
    /\ Fault
    /\ jar # 0
    /\ jar' = 0
    /\ UNCHANGED <<server, client>>

---------------------------------------------------------------------------
Serve(t) == ServeSession(t) \/ Deny(t) \/ ServeRecover(t) \/ CheckCreate(t) \/ RefuseCreate(t)
            \/ PlaceOrder(t)

Step(t) ==
    \/ Send(t) \/ SessionAnswered(t) \/ RecoverAnswered(t) \/ Create(t) \/ CreateAnswered(t)
    \/ Deliver(t) \/ Again(t)

Next ==
    /\ \/ \E t \in used :
            \/ Open(t) \/ Run(t) \/ Step(t) \/ Serve(t)
            \/ DismissChallenge(t) \/ GiveUp(t) \/ Pause(t) \/ Close(t)
       \/ \E r \in late : ServeLate(r)
       \/ LoseCookie
    /\ UNCHANGED used

Spec == Init /\ [][Next]_vars

(* The customer comes back to the page while the request is unfinished, and *)
(* resumePending then runs it; a tab and the server do not stop half way,   *)
(* and the limiter (20 orders an hour) and the challenge do not refuse the  *)
(* customer for ever.                                                       *)
Resume(t) ==
    /\ t \in used /\ UNCHANGED used
    /\ \/ Open(t) /\ stored.phase = "open"
       \/ Run(t) /\ tab[t].record.phase = "open"

Work(t) == UNCHANGED used /\ (Step(t) \/ Serve(t))

Fairness == \A t \in Tabs :
    /\ WF_vars(Work(t)) /\ WF_vars(Resume(t))
    /\ <>[][~(RefuseCreate(t) /\ UNCHANGED used)]_vars
FairSpec == Spec /\ Fairness

---------------------------------------------------------------------------
(* Properties *)

(* The stored record, the copies and runs of the tabs, their requests and  *)
(* the server's rows keep their types.                                     *)
TypeOK ==
    /\ jar \in 0 .. MaxOwners /\ minted \in 0 .. MaxOwners
    /\ orders \in Seq(Owners)
    /\ stored \in Records
    /\ tab \in [Tabs -> [pc : Stages, record : Records, run : Runs, call : Calls]]
    /\ late \subseteq [kind : {"session", "create"}, owner : 0 .. MaxOwners]
    /\ current \subseteq Tabs
    /\ clobbered \in BOOLEAN /\ used \subseteq Tabs /\ faults \in Nat

(* Persist before POST: whenever an order of the request exists or may     *)
(* still be created by a request on its way, the stored record says that   *)
(* creation was attempted, so the next page recovers before it creates;    *)
(* unless two tabs have written over each other's record.                  *)
Underway ==
    \/ orders # <<>>
    \/ \E r \in late : r.kind = "create"
    \/ \E t \in Tabs : tab[t].pc = "create" /\ tab[t].call.at \in {"ready", "sent", "checked"}
AttemptRemembered == Underway /\ ~clobbered => stored.attempted

(* A request never becomes two orders: lost answers, reloads, retries, a   *)
(* replaced owner cookie and refused attempts notwithstanding, as long as  *)
(* no tab has written over a record another tab had changed.               *)
NoSecondOrder == Len(orders) > 1 => clobbered

(* An order that was created is eventually the one the record names, or    *)
(* the record asks the customer to act.                                    *)
OrderIsAdopted == orders # <<>> ~> (stored.order # 0 \/ stored.phase = "stopped")
=============================================================================
