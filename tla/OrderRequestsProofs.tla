------------------------ MODULE OrderRequestsProofs ------------------------
(* Proofs about OrderRequests for any tabs, attempts, owners and failures. *)
EXTENDS OrderRequests, SequenceTheorems, TLAPS

(***************************************************************************)
(* What has to be true for the properties to last                          *)
(***************************************************************************)

TabTypes == [pc : Stages, record : Records, run : Runs, call : Calls]

(* A POST of the tab d that may still create an order, with the owner of    *)
(* its run.                                                                 *)
Pending(d) == d.pc = "create" /\ d.call.at \in {"ready", "sent", "checked"}

(* A run that may POST, or did: it began before any attempt, or recovered   *)
(* what it had attempted itself.                                            *)
Creating(d) == d.pc \in {"session", "recover", "challenge", "create", "wait"} /\ d.run.repeat

(* The first attempt of the record, while a refusal would undo it.          *)
First(d) == d.pc = "create" /\ ~d.run.before /\ (Pending(d) \/ d.call.answer = "refused")

(* How far a run is, and what it knows.                                     *)
Sound(d) ==
    /\ d.pc = "session" => d.run.csrf = 0
    /\ d.pc \in {"recover", "challenge", "create"} => d.run.csrf # 0
    /\ d.pc \in {"session", "recover", "wait"} => d.run.recover \/ d.run.repeat
    /\ d.pc \in {"challenge", "create"} => d.run.repeat
    /\ d.call.at # "none" => d.pc \in {"session", "recover", "create"}
    /\ d.call.at = "checked" => d.pc = "create" /\ d.call.owner = d.run.csrf
    /\ d.pc = "session" /\ d.call.at = "answered" => d.call.answer \in {"ready", "fresh"}
    /\ d.call.answer \in {"ready", "fresh"} => d.pc = "session" /\ d.call.value \in Owners

(* o owns an order, or may come to own one. *)
Claim(o) ==
    \/ \E i \in DOMAIN orders : orders[i] = o
    \/ \E r \in late : r.kind = "create" /\ r.owner = o
    \/ \E t \in Tabs : Pending(tab[t]) /\ tab[t].run.csrf = o

RunsSound == \A t \in Tabs : Sound(tab[t])
LateOwned == \A r \in late : r.kind = "create" => r.owner # 0

(* The tabs that hold the stored record. *)
CopiesCurrent == \A t \in current : tab[t].record = stored /\ tab[t].pc # "closed"

(* All orders, and all POSTs that may create one, are of one owner, and a   *)
(* tab that may POST and holds the stored record would do it for that owner.*)
OneOwner == \A o1, o2 \in Owners : Claim(o1) /\ Claim(o2) => o1 = o2
CreatorIsOwner == \A t \in current : Creating(tab[t]) => \A o \in Owners : Claim(o) => tab[t].run.csrf = o

(* Nothing else is under way when a refusal makes the record unattempted.   *)
FirstIsAlone ==
    \A t \in current : First(tab[t]) =>
        /\ orders = <<>> /\ \A r \in late : r.kind # "create"
        /\ \A u \in Tabs \ {t} : ~Pending(tab[u])

IInv ==
    /\ TypeOK /\ RunsSound /\ LateOwned
    /\ ~clobbered => CopiesCurrent /\ AttemptRemembered /\ OneOwner /\ CreatorIsOwner /\ FirstIsAlone
    /\ NoSecondOrder

(***************************************************************************)
(* How a tab changes                                                       *)
(***************************************************************************)

(* The request that is not there, and one about to be sent. *)
LEMMA NoCallIs ==
  /\ NoCall \in Calls /\ NoCall.at = "none" /\ NoCall.answer = "none"
  /\ \A n : n = [NoCall EXCEPT !.at = "ready"] => n \in Calls /\ n.at = "ready" /\ n.answer = "none"
  BY BoundAssumption DEF NoCall, Calls

(* The run that has not begun. *)
LEMMA NoRunIs == NoRun \in Runs /\ NoRun.csrf = 0
  BY BoundAssumption DEF NoRun, Runs

(* A tab at rest, and one that makes a request. *)
LEMMA RestIs ==
  ASSUME NEW pc \in {"closed", "idle"}, NEW record \in Records, NEW e, e = AtRest(pc, record)
  PROVE  e \in TabTypes /\ e.pc = pc /\ e.record = record /\ Sound(e) /\ ~Pending(e) /\ ~Creating(e) /\ ~First(e)
  BY BoundAssumption DEF AtRest, NoRun, NoCall, TabTypes, Stages, Runs, Calls, Sound, Pending, Creating, First

(* A tab that is about to send a request. *)
LEMMA CallingIs ==
  ASSUME NEW d \in TabTypes, NEW pc \in Stages, NEW e, e = Calling(pc, d)
  PROVE  /\ e \in TabTypes /\ e.pc = pc /\ e.record = d.record /\ e.run = d.run
         /\ e.call.at = "ready" /\ e.call.answer = "none"
<1> DEFINE n == [NoCall EXCEPT !.at = "ready"]
<1>1. n \in Calls /\ n.at = "ready" /\ n.answer = "none"
  BY NoCallIs
<1>2. e = [d EXCEPT !.pc = pc, !.call = n]
  BY DEF Calling
<1> HIDE DEF n
<1> QED
  BY <1>1, <1>2 DEF TabTypes

(* A run that has ended has nothing under way and keeps what was attempted. *)
LEMMA EndedIs ==
  ASSUME NEW d \in TabTypes, NEW phase \in {"open", "stopped", "delivered"}, NEW e, e = Ended(d, phase)
  PROVE  /\ e \in TabTypes /\ e.pc = "idle" /\ Sound(e) /\ ~Pending(e) /\ ~Creating(e) /\ ~First(e)
         /\ (e.record.attempted <=> d.record.attempted)
<1> DEFINE r == [d.record EXCEPT !.phase = phase]
<1>1. r \in Records /\ (r.attempted <=> d.record.attempted) /\ e = AtRest("idle", r)
  BY DEF Ended, TabTypes, Records
<1> HIDE DEF r
<1> QED
  BY <1>1, RestIs

(* A run that knows its owner, and either recovers or may create, goes on. *)
Resumed(d, e) ==
    /\ e \in TabTypes /\ Sound(e) /\ e.record = d.record /\ e.run = d.run
    /\ e.pc \in {"session", "recover", "challenge", "deliver"} /\ ~Pending(e) /\ ~First(e)

(* Once the owner is known, a run recovers, asks for the challenge or       *)
(* delivers.                                                                *)
LEMMA OnwardIs ==
  ASSUME NEW d \in TabTypes, d.run.csrf # 0, d.run.recover \/ d.run.repeat, NEW e, e = Onward(d)
  PROVE  Resumed(d, e)
<1> USE DEF Resumed, Sound, Pending, First
<1>1. CASE d.run.recover
  <2>1. e = Calling("recover", d)
    BY <1>1 DEF Onward
  <2> QED
    BY <1>1, <2>1, CallingIs DEF Stages
<1>2. CASE ~d.run.recover /\ d.record.order = 0
  <2>1. e = [d EXCEPT !.pc = "challenge", !.call = NoCall]
    BY <1>2 DEF Onward
  <2> QED
    BY <1>2, <2>1, NoCallIs DEF TabTypes, Stages
<1>3. CASE ~d.run.recover /\ d.record.order # 0
  <2>1. e = [d EXCEPT !.pc = "deliver", !.call = NoCall]
    BY <1>3 DEF Onward
  <2> QED
    BY <1>3, <2>1, NoCallIs DEF TabTypes, Stages
<1> QED
  BY <1>1, <1>2, <1>3

(* The loop of perform begins with the owner, or with what follows it. *)
LEMMA TopIs ==
  ASSUME NEW d \in TabTypes, d.run.recover \/ d.run.repeat, NEW e, e = Top(d)
  PROVE  Resumed(d, e)
<1>1. CASE d.run.csrf = 0
  <2>1. e = Calling("session", d)
    BY <1>1 DEF Top
  <2> QED
    BY <1>1, <2>1, CallingIs DEF Stages, Resumed, Sound, Pending, First
<1>2. CASE d.run.csrf # 0
  BY <1>2, OnwardIs DEF Top
<1> QED
  BY <1>1, <1>2

(* Another attempt keeps the owner, and what was attempted. *)
LEMMA RetriedIs ==
  ASSUME NEW d \in TabTypes, d.run.recover \/ d.run.repeat, NEW e, e = Retried(d)
  PROVE  /\ e \in TabTypes /\ Sound(e) /\ ~Pending(e) /\ ~First(e) /\ e.pc \in {"wait", "idle"}
         /\ (e.record.attempted <=> d.record.attempted)
         /\ Creating(e) => d.run.repeat /\ e.run.csrf = d.run.csrf
<1>1. CASE d.run.attempt + 1 < MaxAttempts
  <2> DEFINE r == [d.run EXCEPT !.attempt = d.run.attempt + 1, !.before = FALSE, !.renewed = FALSE]
  <2>1. e = [d EXCEPT !.pc = "wait", !.call = NoCall, !.run = r]
    BY <1>1 DEF Retried, TabTypes, Runs
  <2>2. d.run \in Runs /\ d.run.attempt + 1 \in 0 .. MaxAttempts - 1
    BY <1>1, BoundAssumption DEF TabTypes, Runs
  <2>3. r \in Runs /\ r.csrf = d.run.csrf /\ (r.repeat <=> d.run.repeat) /\ (r.recover <=> d.run.recover)
    BY <2>2 DEF Runs
  <2> HIDE DEF r
  <2>4. e \in TabTypes /\ e.pc = "wait" /\ e.call = NoCall /\ e.record = d.record /\ e.run = r
    BY <2>1, <2>3, NoCallIs DEF TabTypes, Stages
  <2> QED
    BY <2>3, <2>4, NoCallIs DEF Sound, Pending, First, Creating
<1>2. CASE ~(d.run.attempt + 1 < MaxAttempts)
  BY <1>2, EndedIs DEF Retried
<1> QED
  BY <1>1, <1>2

(* The answer with an order ends the search for it, whether it is accepted  *)
(* or not.                                                                  *)
LEMMA AdoptedIs ==
  ASSUME NEW d \in TabTypes, NEW e, e = Adopted(d)
  PROVE  /\ e \in TabTypes /\ Sound(e) /\ ~Pending(e) /\ ~First(e) /\ ~Creating(e) /\ e.pc # "closed"
         /\ (e.record.attempted <=> d.record.attempted)
<1>1. CASE d.record.order \in {0, d.call.value}
  <2> DEFINE r == [d.run EXCEPT !.recover = FALSE, !.before = FALSE]
  <2> DEFINE c == [d.record EXCEPT !.order = d.call.value]
  <2>1. e = [d EXCEPT !.pc = "deliver", !.call = NoCall, !.run = r, !.record = c]
    BY <1>1 DEF Adopted, TabTypes, Runs, Records
  <2>2. d.run \in Runs /\ d.record \in Records /\ d.call.value \in Nat
    BY DEF TabTypes, Calls
  <2>3. r \in Runs /\ c \in Records /\ (c.attempted <=> d.record.attempted)
    BY <2>2 DEF Runs, Records
  <2> HIDE DEF r, c
  <2>4. e \in TabTypes /\ e.pc = "deliver" /\ e.call = NoCall /\ e.record = c
    BY <2>1, <2>3, NoCallIs DEF TabTypes, Stages
  <2> QED
    BY <2>3, <2>4, NoCallIs DEF Sound, Pending, First, Creating
<1>2. CASE d.record.order \notin {0, d.call.value}
  BY <1>2, EndedIs DEF Adopted
<1> QED
  BY <1>1, <1>2

(***************************************************************************)
(* The steps of a tab                                                      *)
(***************************************************************************)

(* A run goes on from d to e: it neither starts to POST nor changes owner.  *)
Follows(d, e) ==
    /\ e \in TabTypes /\ Sound(e) /\ e.pc # "closed"
    /\ Pending(e) => Pending(d) /\ e.run.csrf = d.run.csrf
    /\ Creating(e) => Creating(d) /\ d.run.csrf \in {0, e.run.csrf}
    /\ First(e) => First(d)

(* Tab t goes from d to e, and writes its copy or not. *)
Moved(t) ==
    /\ tab' = [tab EXCEPT ![t] = tab'[t]]
    /\ UNCHANGED <<stored, current, clobbered>>
Wrote(t) ==
    /\ tab' = [tab EXCEPT ![t] = tab'[t]] /\ stored' = tab'[t].record
    /\ clobbered' \in BOOLEAN /\ (clobbered' <=> clobbered \/ t \notin current)
    /\ current' = IF clobbered' THEN {} ELSE {t}

GoesOn(t) ==
    /\ Moved(t) /\ Follows(tab[t], tab'[t])
    /\ tab[t].pc # "closed" /\ tab'[t].record = tab[t].record
Writes(t) ==
    /\ Wrote(t) /\ Follows(tab[t], tab'[t])
    /\ tab'[t].record.attempted <=> tab[t].record.attempted
(* A refusal before any attempt: nothing has been attempted. *)
Unattempts(t) ==
    /\ Wrote(t) /\ Follows(tab[t], tab'[t])
    /\ First(tab[t]) /\ ~Pending(tab[t]) /\ ~First(tab'[t])
(* A run starts, and may create only what has not been attempted. *)
Starts(t) ==
    /\ Wrote(t) /\ tab'[t] \in TabTypes /\ Sound(tab'[t]) /\ tab'[t].pc # "closed"
    /\ ~Pending(tab'[t]) /\ ~First(tab'[t])
    /\ Creating(tab'[t]) => ~tab[t].record.attempted
    /\ tab'[t].record.attempted <=> tab[t].record.attempted
(* A POST is made, and the record says so before. *)
Posts(t) ==
    /\ Wrote(t) /\ tab'[t] \in TabTypes /\ Sound(tab'[t]) /\ tab'[t].pc = "create"
    /\ Creating(tab[t]) /\ tab'[t].run.csrf = tab[t].run.csrf
    /\ tab'[t].record.attempted
    /\ First(tab'[t]) => ~tab[t].record.attempted
Opens(t) ==
    /\ tab' = [tab EXCEPT ![t] = tab'[t]] /\ UNCHANGED <<stored, clobbered>>
    /\ tab'[t] = AtRest("idle", stored)
    /\ current' = IF clobbered THEN {} ELSE current \cup {t}
Closes(t) ==
    /\ tab' = [tab EXCEPT ![t] = tab'[t]] /\ UNCHANGED <<stored, clobbered>>
    /\ tab'[t] = AtRest("closed", Saved)
    /\ current' = current \ {t}

TabStep(t) ==
    \/ GoesOn(t) \/ Writes(t) \/ Unattempts(t) \/ Starts(t) \/ Posts(t) \/ Opens(t) \/ Closes(t)

(* What the server makes of a POST of t, now or later. *)
Takes(t) ==
    /\ \/ orders' = orders
       \/ /\ Pending(tab[t]) /\ ~First(tab'[t]) /\ tab[t].run.csrf \in Owners /\ OrdersOf(tab[t].run.csrf) = {}
          /\ orders' = Append(orders, tab[t].run.csrf)
    /\ late' \subseteq [kind : {"session", "create"}, owner : 0 .. MaxOwners]
    /\ \A r \in late' : r.kind = "create" => r \in late \/ (Pending(tab[t]) /\ ~First(tab'[t]) /\ r.owner = tab[t].run.csrf)
    /\ jar' \in 0 .. MaxOwners /\ minted' \in 0 .. MaxOwners /\ faults' \in Nat

(* Move and Save put a tab into a state, without and with its record. *)
LEMMA Moving ==
  ASSUME NEW t \in Tabs, tab \in [Tabs -> TabTypes], NEW e
  PROVE  /\ Move(t, e) => Moved(t) /\ tab'[t] = e
         /\ Save(t, e) /\ clobbered \in BOOLEAN => Wrote(t) /\ tab'[t] = e
  BY DEF Move, Save, Moved, Wrote

(* A step that leaves the server and the cookie alone. *)
LEMMA Still ==
  ASSUME TypeOK, NEW t \in Tabs
  PROVE  /\ UNCHANGED <<jar, server>> /\ (faults' = faults \/ faults' = faults + 1) => Takes(t)
         /\ tab \in [Tabs -> TabTypes] /\ clobbered \in BOOLEAN
  BY DEF server, Takes, TypeOK, TabTypes

(* The page is opened: the tab loads the stored record. *)
LEMMA OpenStep ==
  ASSUME TypeOK, NEW t \in Tabs, Open(t)
  PROVE  Opens(t) /\ Takes(t)
  BY Still DEF Open, Opens, server

(* The customer, or resumePending, starts a run. *)
LEMMA RunStep ==
  ASSUME TypeOK, NEW t \in Tabs, Run(t)
  PROVE  Starts(t) /\ Takes(t)
<1> DEFINE record == [tab[t].record EXCEPT !.phase = "open"]
<1> DEFINE again == tab[t].record.attempted
<1> DEFINE d == [AtRest("idle", record) EXCEPT !.run.recovery = again, !.run.recover = again, !.run.repeat = ~again]
<1>1. tab[t] \in TabTypes /\ record \in Records /\ again \in BOOLEAN /\ (record.attempted <=> again)
  BY DEF TypeOK, TabTypes, Records
<1>2. Save(t, Top(d)) /\ UNCHANGED <<jar, server, faults>>
  BY DEF Run
<1> HIDE DEF record
<1>3. /\ d \in TabTypes /\ d.pc = "idle" /\ d.record = record /\ d.run.csrf = 0
      /\ (d.run.recover <=> again) /\ (d.run.repeat <=> ~again)
  <2> HIDE DEF again
  <2>1. PICK c \in BOOLEAN : c = (~again)
    OBVIOUS
  <2> DEFINE r == [NoRun EXCEPT !.recovery = again, !.recover = again, !.repeat = c]
  <2> DEFINE z == AtRest("idle", record)
  <2>2. r \in Runs /\ r.csrf = 0 /\ (r.recover <=> again) /\ (r.repeat <=> c)
    BY <1>1, NoRunIs DEF Runs
  <2>3. z \in TabTypes /\ z.pc = "idle" /\ z.record = record /\ z.run = NoRun
    BY <1>1, NoRunIs, NoCallIs DEF AtRest, TabTypes, Stages
  <2>4. d = [z EXCEPT !.run.recovery = again, !.run.recover = again, !.run.repeat = c]
    BY <2>1, Zenon
  <2> HIDE DEF d, z
  <2>5. d = [z EXCEPT !.run = r]
    BY <2>3, <2>4, NoRunIs DEF TabTypes, Runs
  <2> HIDE DEF r
  <2> QED
    BY <2>1, <2>2, <2>3, <2>5 DEF TabTypes
<1> HIDE DEF d
<1>4. Wrote(t) /\ tab'[t] = Top(d)
  BY <1>2, Still, Moving
<1>5. Resumed(d, Top(d))
  BY <1>3, TopIs
<1> QED
  BY <1>1, <1>2, <1>3, <1>4, <1>5, Still DEF Starts, Resumed, Creating

(* A run comes back after its delay. *)
LEMMA AgainStep ==
  ASSUME TypeOK, NEW t \in Tabs, Sound(tab[t]), Again(t)
  PROVE  Writes(t) /\ Takes(t)
<1>1. tab[t].pc = "wait" /\ Save(t, Top(tab[t])) /\ UNCHANGED <<jar, server, faults>>
  BY DEF Again
<1>2. Wrote(t) /\ tab'[t] = Top(tab[t]) /\ tab[t] \in TabTypes
  BY <1>1, Still, Moving
<1>3. Resumed(tab[t], Top(tab[t]))
  BY <1>1, <1>2, TopIs DEF Sound
<1> QED
  BY <1>1, <1>2, <1>3, Still DEF Writes, Follows, Resumed, Creating

(* A request leaves the browser with the owner cookie. *)
LEMMA SendStep ==
  ASSUME TypeOK, NEW t \in Tabs, Sound(tab[t]), Send(t)
  PROVE  GoesOn(t) /\ Takes(t)
<1> DEFINE c == [tab[t].call EXCEPT !.at = "sent", !.owner = jar]
<1> DEFINE e == [tab[t] EXCEPT !.call = c]
<1>0. tab[t] \in TabTypes /\ tab[t].call \in Calls /\ jar \in 0 .. MaxOwners
  BY DEF TypeOK, TabTypes
<1>1. tab[t].call.at = "ready" /\ Move(t, e) /\ UNCHANGED <<jar, server, faults>>
  BY <1>0 DEF Send, TabTypes, Calls
<1>2. c \in Calls /\ c.at = "sent" /\ c.answer = tab[t].call.answer /\ c.value = tab[t].call.value
  BY <1>0 DEF Calls
<1> HIDE DEF c
<1>3. e \in TabTypes /\ e.pc = tab[t].pc /\ e.record = tab[t].record /\ e.run = tab[t].run /\ e.call = c
  BY <1>0, <1>2 DEF TabTypes
<1>4. Moved(t) /\ tab'[t] = e
  BY <1>1, Still, Moving
<1> HIDE DEF e
<1> QED
  BY <1>1, <1>2, <1>3, <1>4, Still DEF GoesOn, Follows, Sound, Pending, Creating, First

(* A run ends, or goes to the support widget. *)
LEMMA EndStep ==
  ASSUME TypeOK, NEW t \in Tabs, NEW phase \in {"open", "stopped", "delivered"}, Save(t, Ended(tab[t], phase))
  PROVE  Writes(t) /\ ~First(tab'[t])
<1>1. tab[t] \in TabTypes
  BY DEF TypeOK, TabTypes
<1>2. Wrote(t) /\ tab'[t] = Ended(tab[t], phase)
  BY Still, Moving
<1> QED
  BY <1>1, <1>2, EndedIs DEF Writes, Follows

(* The record takes over the order it was answered. *)
LEMMA AdoptStep ==
  ASSUME TypeOK, NEW t \in Tabs, Save(t, Adopted(tab[t]))
  PROVE  Writes(t)
<1>1. tab[t] \in TabTypes
  BY DEF TypeOK, TabTypes
<1>2. Wrote(t) /\ tab'[t] = Adopted(tab[t])
  BY Still, Moving
<1> QED
  BY <1>1, <1>2, AdoptedIs DEF Writes, Follows

(* The answer about the owner cookie. *)
LEMMA SessionStep ==
  ASSUME TypeOK, NEW t \in Tabs, Sound(tab[t]), SessionAnswered(t)
  PROVE  (GoesOn(t) \/ Writes(t)) /\ Takes(t)
<1> DEFINE d == tab[t]
<1>1. /\ d \in TabTypes /\ d.pc = "session" /\ d.call.at = "answered" /\ d.call.value \in Owners
      /\ d.call.answer \in {"ready", "fresh"} /\ d.run.csrf = 0 /\ (d.run.recover \/ d.run.repeat)
  BY DEF SessionAnswered, Sound, TypeOK, TabTypes
<1>2. jar' \in {jar, d.call.value} /\ UNCHANGED <<server, faults>>
  BY DEF SessionAnswered
<1>3. Takes(t)
  BY <1>1, <1>2 DEF Takes, TypeOK, server, Owners
<1>4. CASE Move(t, Calling("session", [d EXCEPT !.run.renewed = TRUE]))
  <2> DEFINE x == [d EXCEPT !.run.renewed = TRUE]
  <2>1. /\ x \in TabTypes /\ x.pc = d.pc /\ x.record = d.record /\ x.run.csrf = d.run.csrf
        /\ (x.run.repeat <=> d.run.repeat) /\ (x.run.recover <=> d.run.recover)
    BY <1>1 DEF TabTypes, Runs
  <2> HIDE DEF x
  <2>2. Moved(t) /\ tab'[t] = Calling("session", x)
    BY <1>4, Still, Moving DEF x
  <2>3. /\ tab'[t] \in TabTypes /\ tab'[t].pc = "session" /\ tab'[t].record = x.record /\ tab'[t].run = x.run
        /\ tab'[t].call.at = "ready" /\ tab'[t].call.answer = "none"
    BY <2>1, <2>2, CallingIs DEF Stages
  <2> QED
    BY <1>1, <1>3, <2>1, <2>2, <2>3 DEF GoesOn, Follows, Sound, Pending, Creating, First
<1>5. CASE Save(t, Ended(d, "stopped"))
  BY <1>3, <1>5, EndStep
<1>6. CASE Continue(t, Onward([d EXCEPT !.run.csrf = d.call.value, !.run.renewed = FALSE]))
  <2> DEFINE x == [d EXCEPT !.run.csrf = d.call.value, !.run.renewed = FALSE]
  <2>1. /\ x \in TabTypes /\ x.record = d.record /\ x.run.csrf = d.call.value
        /\ (x.run.repeat <=> d.run.repeat) /\ (x.run.recover <=> d.run.recover)
    <3> DEFINE r == [d.run EXCEPT !.csrf = d.call.value, !.renewed = FALSE]
    <3>1. d.run \in Runs /\ d.call.value \in 0 .. MaxOwners
      BY <1>1, BoundAssumption DEF TabTypes, Owners
    <3>2. r \in Runs /\ r.csrf = d.call.value /\ (r.repeat <=> d.run.repeat) /\ (r.recover <=> d.run.recover)
      BY <3>1 DEF Runs
    <3>3. x = [d EXCEPT !.run = r]
      BY <1>1, <3>1 DEF TabTypes, Runs
    <3> HIDE DEF r, x
    <3> QED
      BY <1>1, <3>2, <3>3 DEF TabTypes
  <2> HIDE DEF x
  <2>2. (Moved(t) \/ Wrote(t)) /\ tab'[t] = Onward(x)
    BY <1>6, Still, Moving DEF x, Continue
  <2>3. x.run.csrf # 0 /\ (x.run.recover \/ x.run.repeat)
    BY <1>1, <2>1 DEF Owners
  <2>4. Resumed(x, tab'[t])
    BY <2>1, <2>2, <2>3, OnwardIs
  <2> QED
    BY <1>1, <1>3, <2>1, <2>2, <2>4 DEF GoesOn, Writes, Follows, Resumed, Creating
<1> QED
  BY <1>4, <1>5, <1>6 DEF SessionAnswered

(* The answer about an order an earlier run may have created. *)
LEMMA RecoverStep ==
  ASSUME TypeOK, NEW t \in Tabs, Sound(tab[t]), RecoverAnswered(t)
  PROVE  (GoesOn(t) \/ Writes(t)) /\ Takes(t)
<1> DEFINE d == tab[t]
<1>1. d \in TabTypes /\ d.pc = "recover" /\ d.run.csrf # 0
  BY DEF RecoverAnswered, Sound, TypeOK, TabTypes
<1>2. Takes(t)
  BY Still DEF RecoverAnswered
<1>3. CASE Save(t, Adopted(d))
  BY <1>2, <1>3, AdoptStep
<1>4. CASE Save(t, Ended(d, "stopped"))
  BY <1>2, <1>4, EndStep
<1>5. CASE ~MissingStops(d) /\ Move(t, Onward([d EXCEPT !.run.recover = FALSE]))
  <2> DEFINE x == [d EXCEPT !.run.recover = FALSE]
  <2>1. /\ x \in TabTypes /\ x.record = d.record /\ x.run.csrf = d.run.csrf
        /\ (x.run.repeat <=> d.run.repeat)
    BY <1>1 DEF TabTypes, Runs
  <2>2. d.run.repeat
    BY <1>5 DEF MissingStops
  <2> HIDE DEF x
  <2>3. Moved(t) /\ tab'[t] = Onward(x)
    BY <1>5, Still, Moving DEF x
  <2>4. Resumed(x, tab'[t])
    BY <1>1, <2>1, <2>2, <2>3, OnwardIs
  <2> QED
    BY <1>1, <1>2, <2>1, <2>2, <2>3, <2>4 DEF GoesOn, Follows, Resumed, Creating
<1> QED
  BY <1>3, <1>4, <1>5 DEF RecoverAnswered

(* The record is persisted as attempted, and the POST begins. *)
LEMMA CreateStep ==
  ASSUME TypeOK, NEW t \in Tabs, Sound(tab[t]), Create(t)
  PROVE  Posts(t) /\ Takes(t)
<1> DEFINE d == tab[t]
<1>1. d \in TabTypes /\ d.pc = "challenge" /\ d.run.csrf # 0 /\ d.run.repeat
  BY DEF Create, Sound, TypeOK, TabTypes
<1>2. Takes(t)
  BY Still DEF Create
<1> DEFINE r == [d.run EXCEPT !.repeat = TRUE, !.recover = TRUE, !.before = d.record.attempted]
<1> DEFINE c == [d.record EXCEPT !.attempted = TRUE]
<1> DEFINE x == [d EXCEPT !.record.attempted = TRUE, !.run.repeat = TRUE, !.run.recover = TRUE,
                          !.run.before = d.record.attempted]
<1>3. d.run \in Runs /\ d.record \in Records /\ d.record.attempted \in BOOLEAN
  BY <1>1 DEF TabTypes, Records
<1>4. r \in Runs /\ r.csrf = d.run.csrf /\ r.repeat /\ r.recover /\ (r.before <=> d.record.attempted)
  BY <1>3 DEF Runs
<1>5. c \in Records /\ c.attempted
  BY <1>3 DEF Records
<1>6. x = [d EXCEPT !.run = r, !.record = c]
  BY <1>1, <1>3 DEF TabTypes, Runs, Records
<1>7. Save(t, Calling("create", x))
  BY DEF Create
<1> HIDE DEF r, c, x
<1>8. x \in TabTypes /\ x.run = r /\ x.record = c
  BY <1>1, <1>4, <1>5, <1>6 DEF TabTypes
<1>9. Wrote(t) /\ tab'[t] = Calling("create", x)
  BY <1>7, Still, Moving
<1>10. /\ tab'[t] \in TabTypes /\ tab'[t].pc = "create" /\ tab'[t].record = c /\ tab'[t].run = r
       /\ tab'[t].call.at = "ready" /\ tab'[t].call.answer = "none"
  BY <1>8, <1>9, CallingIs DEF Stages
<1> QED
  BY <1>1, <1>2, <1>4, <1>5, <1>9, <1>10 DEF Posts, Sound, Creating, First

(* The answer to the POST; a refusal of the first attempt takes it back. *)
LEMMA CreateAnsweredStep ==
  ASSUME TypeOK, NEW t \in Tabs, Sound(tab[t]), CreateAnswered(t)
  PROVE  (Writes(t) \/ Unattempts(t)) /\ Takes(t)
<1> DEFINE d == tab[t]
<1>1. d \in TabTypes /\ d.pc = "create" /\ d.run.csrf # 0 /\ d.run.repeat /\ d.call.at = "answered"
  BY DEF CreateAnswered, Sound, TypeOK, TabTypes
<1>2. Takes(t)
  BY Still DEF CreateAnswered
<1>3. CASE Save(t, Adopted(d))
  BY <1>2, <1>3, AdoptStep
<1>4. CASE Save(t, Ended(d, "stopped")) \/ Save(t, Ended(d, "open"))
  BY <1>2, <1>4, EndStep
<1>5. CASE /\ d.call.answer = "refused"
           /\ Save(t, Retried(Unattempted(d))) \/ Save(t, Ended(Unattempted(d), "open"))
  <2> DEFINE x == Unattempted(d)
  <2>1. /\ x \in TabTypes /\ x.run.repeat /\ x.run.csrf = d.run.csrf
        /\ d.run.before => (x.record.attempted <=> d.record.attempted)
    <3>1. CASE d.run.before
      BY <1>1, <3>1 DEF Unattempted
    <3>2. CASE ~d.run.before
      <4>1. x = [d EXCEPT !.record.attempted = FALSE, !.run.recover = FALSE]
        BY <3>2 DEF Unattempted
      <4> DEFINE r == [d.run EXCEPT !.recover = FALSE]
      <4> DEFINE c == [d.record EXCEPT !.attempted = FALSE]
      <4>2. d.run \in Runs /\ d.record \in Records
        BY <1>1 DEF TabTypes
      <4>3. r \in Runs /\ r.csrf = d.run.csrf /\ (r.repeat <=> d.run.repeat) /\ c \in Records
        BY <4>2 DEF Runs, Records
      <4>4. x = [d EXCEPT !.record = c, !.run = r]
        BY <1>1, <4>1, <4>2 DEF TabTypes, Runs, Records
      <4> HIDE DEF r, c, x
      <4> QED
        BY <1>1, <3>2, <4>3, <4>4 DEF TabTypes
    <3> QED
      BY <3>1, <3>2
  <2> HIDE DEF x
  <2>2. Wrote(t) /\ tab'[t] \in {Retried(x), Ended(x, "open")}
    BY <1>5, Still, Moving DEF x
  <2>3. /\ tab'[t] \in TabTypes /\ Sound(tab'[t]) /\ ~Pending(tab'[t]) /\ ~First(tab'[t]) /\ tab'[t].pc # "closed"
        /\ tab'[t].record.attempted <=> x.record.attempted
        /\ Creating(tab'[t]) => tab'[t].run.csrf = x.run.csrf
    BY <2>1, <2>2, RetriedIs, EndedIs
  <2>4. Follows(d, tab'[t])
    BY <1>1, <2>1, <2>3 DEF Follows, Creating
  <2> QED
    BY <1>1, <1>2, <1>5, <2>1, <2>2, <2>3, <2>4 DEF Writes, Unattempts, First, Pending
<1> QED
  BY <1>3, <1>4, <1>5 DEF CreateAnswered

(* The server answers, and a tab gives a request up. *)
Answers == {"none", "ready", "fresh", "found", "missing", "refused", "unavailable", "denied"}

(* The server answers a request; only a refusal leaves a first attempt in   *)
(* doubt.                                                                   *)
LEMMA AnswerStep ==
  ASSUME TypeOK, NEW t \in Tabs, Sound(tab[t]), tab[t].call.at \in {"sent", "checked"},
         NEW answer \in Answers, NEW value \in Nat, Answer(t, answer, value),
         IF tab[t].pc = "session" THEN answer \in {"ready", "fresh"} /\ value \in Owners
                                  ELSE answer \notin {"ready", "fresh"}
  PROVE  GoesOn(t) /\ (First(tab'[t]) => answer = "refused")
<1> DEFINE d == tab[t]
<1> DEFINE c == [NoCall EXCEPT !.at = "answered", !.answer = answer, !.value = value]
<1> DEFINE e == [d EXCEPT !.call = c]
<1>1. d \in TabTypes /\ d.pc \in {"session", "recover", "create"}
  BY DEF Sound, TypeOK, TabTypes
<1>2. c \in Calls /\ c.at = "answered" /\ c.answer = answer /\ c.value = value
  BY NoCallIs DEF Calls, Answers
<1>3. Move(t, e)
  BY DEF Answer
<1> HIDE DEF c
<1>4. e \in TabTypes /\ e.pc = d.pc /\ e.record = d.record /\ e.run = d.run /\ e.call = c
  BY <1>1, <1>2 DEF TabTypes
<1> HIDE DEF e
<1>5. Moved(t) /\ tab'[t] = e
  BY <1>3, Still, Moving
<1> QED
  BY <1>1, <1>2, <1>4, <1>5 DEF GoesOn, Follows, Sound, Pending, Creating, First

(* The server knows the owner or issues a new one. *)
LEMMA SessionServed ==
  ASSUME TypeOK, NEW t \in Tabs, Sound(tab[t]), ServeSession(t)
  PROVE  GoesOn(t) /\ Takes(t)
<1> DEFINE d == tab[t]
<1>1. d.pc = "session" /\ d.call.at = "sent" /\ d.call.owner \in 0 .. MaxOwners /\ UNCHANGED <<jar, orders, late, faults>>
  BY DEF ServeSession, Arrived, TypeOK, Calls
<1>2. CASE d.call.owner # 0 /\ Answer(t, "ready", d.call.owner) /\ UNCHANGED minted
  <2>1. d.call.owner \in Owners /\ d.call.owner \in Nat
    BY <1>1, <1>2 DEF Owners
  <2>2. GoesOn(t)
    BY <1>1, <1>2, <2>1, AnswerStep DEF Answers
  <2> QED
    BY <1>1, <1>2, <2>2, Still DEF server
<1>3. CASE minted < MaxOwners /\ minted' = minted + 1 /\ Answer(t, "fresh", minted + 1)
  <2>1. minted + 1 \in Owners /\ minted + 1 \in Nat
    BY <1>3, BoundAssumption DEF Owners, TypeOK
  <2>2. GoesOn(t)
    BY <1>1, <1>3, <2>1, AnswerStep DEF Answers
  <2> QED
    BY <1>1, <1>3, <2>1, <2>2 DEF Takes, TypeOK, Owners
<1> QED
  BY <1>2, <1>3 DEF ServeSession

(* The server refuses the owner, or looks the order up. *)
LEMMA LookupServed ==
  ASSUME TypeOK, NEW t \in Tabs, Sound(tab[t]), Deny(t) \/ ServeRecover(t) \/ CheckCreate(t) \/ RefuseCreate(t)
  PROVE  GoesOn(t) /\ Takes(t)
<1> DEFINE d == tab[t]
<1>1. /\ d \in TabTypes /\ d.pc \in {"recover", "create"} /\ d.call.at = "sent" /\ d.pc # "session"
      /\ UNCHANGED <<jar, server, faults>>
  BY DEF Deny, ServeRecover, CheckCreate, RefuseCreate, Arrived, TypeOK, TabTypes
<1>2. Takes(t)
  BY <1>1, Still
<1>3. CASE Answer(t, "denied", 0) \/ Answer(t, "missing", 0) \/ Answer(t, "refused", 0)
  BY <1>1, <1>2, <1>3, AnswerStep DEF Answers
<1>4. ASSUME NEW i \in Found(t), Answer(t, "found", i) PROVE GoesOn(t)
  <2>1. i \in Nat
    BY <1>4 DEF Found, OrdersOf, TypeOK
  <2> QED
    BY <1>1, <1>4, <2>1, AnswerStep DEF Answers
<1>5. CASE Authorised(d.call.owner, d.run.csrf) /\ d.pc = "create" /\ Move(t, [d EXCEPT !.call.at = "checked"])
  <2> DEFINE c == [d.call EXCEPT !.at = "checked"]
  <2>1. c \in Calls /\ c.at = "checked" /\ c.answer = d.call.answer /\ c.owner = d.call.owner
    BY <1>1 DEF TabTypes, Calls
  <2>2. [d EXCEPT !.call.at = "checked"] = [d EXCEPT !.call = c]
    BY <1>1 DEF TabTypes, Calls
  <2> DEFINE e == [d EXCEPT !.call = c]
  <2> HIDE DEF c
  <2>3. e \in TabTypes /\ e.pc = d.pc /\ e.record = d.record /\ e.run = d.run /\ e.call = c
    BY <1>1, <2>1 DEF TabTypes
  <2>4. Moved(t) /\ tab'[t] = e
    BY <1>5, <2>2, Still, Moving
  <2> HIDE DEF e
  <2> QED
    BY <1>1, <1>2, <1>5, <2>1, <2>3, <2>4 DEF GoesOn, Follows, Sound, Pending, Creating, First, Authorised
<1> QED
  BY <1>2, <1>3, <1>4, <1>5 DEF Deny, ServeRecover, CheckCreate, RefuseCreate, Arrived

(* The server inserts the order of the owner the POST came from, once. *)
LEMMA PlaceStep ==
  ASSUME TypeOK, NEW t \in Tabs, Sound(tab[t]), PlaceOrder(t)
  PROVE  GoesOn(t) /\ Takes(t)
<1> DEFINE d == tab[t]
<1>1. /\ d \in TabTypes /\ d.pc = "create" /\ d.call.at = "checked" /\ d.call.owner = d.run.csrf /\ d.run.csrf # 0
      /\ UNCHANGED <<jar, minted, late, faults>>
  BY DEF PlaceOrder, Sound, TypeOK, TabTypes
<1>2. d.run.csrf \in Owners
  BY <1>1 DEF TabTypes, Runs, Owners
<1>3. orders \in Seq(Owners)
  BY DEF TypeOK
<1>4. orders' = orders \/ (OrdersOf(d.run.csrf) = {} /\ orders' = Append(orders, d.run.csrf))
  BY <1>1 DEF PlaceOrder, Found
<1>5. ~First(tab'[t]) => Takes(t)
  BY <1>1, <1>2, <1>4 DEF Takes, TypeOK, Pending
<1>6. ASSUME NEW i \in Nat, Answer(t, "found", i) \/ Answer(t, "unavailable", i) PROVE GoesOn(t) /\ ~First(tab'[t])
  BY <1>1, <1>6, AnswerStep DEF Answers
<1>7. \A i \in Found(t) : i \in Nat
  BY <1>3 DEF Found, OrdersOf
<1>8. Len(orders) + 1 \in Nat
  BY <1>3
<1> QED
  BY <1>5, <1>6, <1>7, <1>8 DEF PlaceOrder

(* What a tab that goes away leaves behind. *)
LEMMA AbandonStep ==
  ASSUME TypeOK, NEW t \in Tabs, Sound(tab[t]), Abandon(tab[t]), Fault, ~First(tab'[t])
  PROVE  Takes(t)
<1> DEFINE d == tab[t]
<1>1. d \in TabTypes /\ d.call.owner \in 0 .. MaxOwners
  BY DEF TypeOK, TabTypes, Calls
<1>2. \A r \in Abandoned(d) : /\ r \in [kind : {"session", "create"}, owner : 0 .. MaxOwners]
                              /\ r.kind = "create" => Pending(d) /\ r.owner = d.run.csrf
  BY <1>1 DEF Abandoned, Pending, Sound, Authorised
<1>3. late' \in {late, late \cup Abandoned(d)} /\ UNCHANGED <<minted, orders>> /\ faults' = faults + 1
  BY DEF Abandon, Fault
<1>4. jar' \in 0 .. MaxOwners
  <2>1. jar' = jar \/ (d.call.answer = "fresh" /\ jar' = d.call.value)
    BY DEF Abandon
  <2> QED
    BY <2>1 DEF Sound, TypeOK, Owners
<1>5. late' \subseteq [kind : {"session", "create"}, owner : 0 .. MaxOwners]
  BY <1>2, <1>3 DEF TypeOK
<1> QED
  BY <1>2, <1>3, <1>4, <1>5 DEF Takes, TypeOK

(* A request that takes too long: another attempt, or the end of the run. *)
LEMMA GiveUpStep ==
  ASSUME TypeOK, NEW t \in Tabs, Sound(tab[t]), GiveUp(t)
  PROVE  Writes(t) /\ Takes(t)
<1> DEFINE d == tab[t]
<1>1. d \in TabTypes /\ d.pc \in {"session", "recover", "create"} /\ (d.run.recover \/ d.run.repeat)
  BY DEF GiveUp, Sound, TypeOK, TabTypes
<1>2. ~First(tab'[t]) => Takes(t)
  BY AbandonStep DEF GiveUp
<1>3. CASE Save(t, Retried(d))
  <2>1. Wrote(t) /\ tab'[t] = Retried(d)
    BY <1>3, Still, Moving
  <2> QED
    BY <1>1, <1>2, <2>1, RetriedIs DEF Writes, Follows, Creating
<1>4. CASE Save(t, Ended(d, "open"))
  BY <1>2, <1>4, EndStep
<1> QED
  BY <1>3, <1>4 DEF GiveUp

(* A run that is paused, dismissed or delivered ends. *)
LEMMA StopStep ==
  ASSUME TypeOK, NEW t \in Tabs, Sound(tab[t]), Pause(t) \/ DismissChallenge(t) \/ Deliver(t)
  PROVE  Writes(t) /\ Takes(t)
<1>1. \E phase \in {"open", "stopped", "delivered"} : Save(t, Ended(tab[t], phase))
  BY DEF Pause, DismissChallenge, Deliver
<1>2. Writes(t) /\ ~First(tab'[t])
  BY <1>1, EndStep
<1>3. Takes(t)
  BY <1>2, Still, AbandonStep DEF Pause, DismissChallenge, Deliver, Fault
<1> QED
  BY <1>2, <1>3

(* The tab goes away. *)
LEMMA CloseStep ==
  ASSUME TypeOK, NEW t \in Tabs, Sound(tab[t]), Close(t)
  PROVE  Closes(t) /\ Takes(t)
<1>1. Closes(t)
  BY Still DEF Close, Closes
<1>2. ~First(tab'[t])
  BY <1>1 DEF Closes, AtRest, First, Pending
<1> QED
  BY <1>1, <1>2, AbandonStep DEF Close

(* Every step is of a tab, of a request that was given up, or loses the     *)
(* cookie.                                                                  *)
LEMMA TabSteps ==
  ASSUME TypeOK, RunsSound, [Next]_vars
  PROVE  \/ used' = used /\ \E t \in Tabs : TabStep(t) /\ Takes(t)
         \/ used' = used /\ \E r \in late : ServeLate(r)
         \/ used' = used /\ LoseCookie
         \/ UNCHANGED vars
<1>1. CASE UNCHANGED vars
  BY <1>1
<1>2. CASE Next
  <2>1. ASSUME NEW t \in used, Open(t) \/ Run(t) \/ Step(t) \/ Serve(t)
                               \/ DismissChallenge(t) \/ GiveUp(t) \/ Pause(t) \/ Close(t)
        PROVE  \E u \in Tabs : TabStep(u) /\ Takes(u)
    <3>1. t \in Tabs /\ Sound(tab[t])
      BY DEF TypeOK, RunsSound
    <3>2. TabStep(t) /\ Takes(t)
      BY <2>1, <3>1, OpenStep, RunStep, AgainStep, SendStep, SessionStep, RecoverStep, CreateStep, CreateAnsweredStep,
         SessionServed, LookupServed, PlaceStep, GiveUpStep, StopStep, CloseStep
      DEF Step, Serve, TabStep
    <3> QED
      BY <3>1, <3>2
  <2> QED
    BY <1>2, <2>1, Zenon DEF Next
<1> QED
  BY <1>1, <1>2

(***************************************************************************)
(* What a step keeps                                                       *)
(***************************************************************************)

(* Whatever a tab does, the others stay as they are, and a POST is still to *)
(* be answered only if it was before or begins.                             *)
LEMMA Shape ==
  ASSUME TypeOK, NEW t \in Tabs, TabStep(t)
  PROVE  /\ tab' \in [Tabs -> TabTypes] /\ \A u \in Tabs \ {t} : tab'[u] = tab[u]
         /\ Sound(tab'[t])
         /\ stored' \in Records /\ current' \subseteq Tabs /\ clobbered' \in BOOLEAN
         /\ clobbered => clobbered'
         /\ Pending(tab'[t]) => Posts(t) \/ (Pending(tab[t]) /\ tab'[t].run.csrf = tab[t].run.csrf)
<1>0. tab \in [Tabs -> TabTypes] /\ stored \in Records /\ clobbered \in BOOLEAN /\ current \subseteq Tabs
  BY DEF TypeOK, TabTypes
<1>1. CASE GoesOn(t)
  BY <1>0, <1>1 DEF GoesOn, Moved, Follows
<1>2. ASSUME Wrote(t), tab'[t] \in TabTypes
      PROVE  /\ tab' \in [Tabs -> TabTypes] /\ \A u \in Tabs \ {t} : tab'[u] = tab[u]
             /\ stored' \in Records /\ current' \subseteq Tabs /\ clobbered' \in BOOLEAN
             /\ clobbered => clobbered'
  BY <1>0, <1>2 DEF Wrote, TabTypes
<1>3. CASE Writes(t)
  BY <1>2, <1>3 DEF Writes, Follows
<1>4. CASE Unattempts(t)
  BY <1>2, <1>4 DEF Unattempts, Follows
<1>5. CASE Starts(t)
  BY <1>2, <1>5 DEF Starts
<1>6. CASE Posts(t)
  BY <1>2, <1>6 DEF Posts
<1>7. CASE Opens(t) \/ Closes(t)
  <2>1. Saved \in Records
    BY DEF Saved, Records
  <2>2. tab'[t] \in TabTypes /\ Sound(tab'[t]) /\ ~Pending(tab'[t])
    BY <1>0, <1>7, <2>1, RestIs DEF Opens, Closes
  <2> QED
    BY <1>0, <1>7, <2>2 DEF Opens, Closes
<1> QED
  BY <1>1, <1>3, <1>4, <1>5, <1>6, <1>7 DEF TabStep

(* Only a POST adds a claim, that of the owner its run knows. *)
LEMMA ClaimStep ==
  ASSUME TypeOK, NEW t \in Tabs, TabStep(t), Takes(t), NEW o \in Owners, Claim(o)'
  PROVE  Claim(o) \/ (Posts(t) /\ o = tab[t].run.csrf)
<1>1. CASE \E i \in DOMAIN orders' : orders'[i] = o
  <2>1. CASE orders' = orders
    BY <1>1, <2>1 DEF Claim
  <2>2. CASE Pending(tab[t]) /\ orders' = Append(orders, tab[t].run.csrf)
    <3>1. orders \in Seq(Owners)
      BY DEF TypeOK
    <3>2. (\E i \in DOMAIN orders : orders[i] = o) \/ o = tab[t].run.csrf
      BY <1>1, <2>2, <3>1
    <3> QED
      BY <2>2, <3>2 DEF Claim
  <2> QED
    BY <2>1, <2>2 DEF Takes
<1>2. CASE \E r \in late' : r.kind = "create" /\ r.owner = o
  BY <1>2 DEF Claim, Takes
<1>3. CASE \E u \in Tabs : Pending(tab'[u]) /\ tab'[u].run.csrf = o
  BY <1>3, Shape DEF Claim, Posts
<1> QED
  BY <1>1, <1>2, <1>3 DEF Claim

(* Something is newly under way only after a POST that has been recorded. *)
LEMMA UnderwayStep ==
  ASSUME TypeOK, NEW t \in Tabs, TabStep(t), Takes(t), Underway'
  PROVE  Underway \/ (Posts(t) /\ Pending(tab'[t]))
<1>1. CASE orders' # <<>>
  BY <1>1 DEF Takes, Underway, Pending
<1>2. CASE \E r \in late' : r.kind = "create"
  BY <1>2 DEF Takes, Underway, Pending
<1>3. CASE \E u \in Tabs : Pending(tab'[u])
  BY <1>3, Shape DEF Underway, Pending
<1> QED
  BY <1>1, <1>2, <1>3 DEF Underway, Pending

(* A claim is an order, or a POST on its way. *)
LEMMA ClaimIsUnderway == \A o : Claim(o) => Underway
  BY DEF Claim, Underway, Pending

(* While no tab has written over another's record, only the tab that holds  *)
(* the stored one may write it.                                             *)
LEMMA Holder ==
  ASSUME NEW t, TabStep(t), clobbered \in BOOLEAN, ~clobbered'
  PROVE  /\ ~clobbered
         /\ \/ GoesOn(t) /\ UNCHANGED <<stored, current>>
            \/ /\ t \in current /\ current' = {t} /\ stored' = tab'[t].record
               /\ Writes(t) \/ Unattempts(t) \/ Starts(t) \/ Posts(t)
            \/ Opens(t) /\ current' = current \cup {t} /\ stored' = stored
            \/ Closes(t) /\ current' = current \ {t} /\ stored' = stored
<1>1. CASE GoesOn(t)
  BY <1>1 DEF GoesOn, Moved
<1>2. CASE Writes(t) \/ Unattempts(t) \/ Starts(t) \/ Posts(t)
  BY <1>2 DEF Writes, Unattempts, Starts, Posts, Wrote
<1>3. CASE Opens(t)
  BY <1>3 DEF Opens
<1>4. CASE Closes(t)
  BY <1>4 DEF Closes
<1> QED
  BY <1>1, <1>2, <1>3, <1>4 DEF TabStep

(***************************************************************************)
(* The step of a tab keeps the invariant                                   *)
(***************************************************************************)

(* The step of a tab keeps the types, how far each run is, and the owners   *)
(* of requests given up.                                                    *)
LEMMA TypesStay ==
  ASSUME TypeOK, RunsSound, LateOwned, NEW t \in Tabs, TabStep(t), Takes(t), used' = used
  PROVE  TypeOK' /\ RunsSound' /\ LateOwned'
<1>1. orders' \in Seq(Owners)
  BY DEF TypeOK, Takes
<1>2. TypeOK'
  BY <1>1, Shape DEF TypeOK, Takes, TabTypes
<1>3. RunsSound'
  BY Shape DEF RunsSound
<1>4. Pending(tab[t]) => tab[t].run.csrf # 0
  BY DEF RunsSound, Sound, Pending
<1>5. LateOwned'
  BY <1>4 DEF LateOwned, Takes
<1> QED
  BY <1>2, <1>3, <1>5

(* The tabs that count as current still hold the stored record. *)
LEMMA CopiesStay ==
  ASSUME TypeOK, CopiesCurrent, NEW t \in Tabs, TabStep(t), ~clobbered'
  PROVE  CopiesCurrent'
<1>0. clobbered \in BOOLEAN /\ tab \in [Tabs -> TabTypes] /\ stored \in Records /\ current \subseteq Tabs
  BY DEF TypeOK, TabTypes
<1>1. CASE GoesOn(t) /\ UNCHANGED <<stored, current>>
  BY <1>0, <1>1, Shape DEF GoesOn, Follows, CopiesCurrent
<1>2. CASE current' = {t} /\ stored' = tab'[t].record /\ (Writes(t) \/ Unattempts(t) \/ Starts(t) \/ Posts(t))
  BY <1>2 DEF Writes, Unattempts, Starts, Posts, Follows, CopiesCurrent
<1>3. CASE Opens(t) /\ current' = current \cup {t} /\ stored' = stored
  <2>1. tab'[t].record = stored /\ tab'[t].pc # "closed"
    BY <1>3 DEF Opens, AtRest
  <2> QED
    BY <1>0, <1>3, <2>1, Shape DEF CopiesCurrent
<1>4. CASE Closes(t) /\ current' = current \ {t} /\ stored' = stored
  BY <1>0, <1>4, Shape DEF CopiesCurrent
<1> QED
  BY <1>0, <1>1, <1>2, <1>3, <1>4, Holder

(* The stored record still says that creation was attempted. *)
LEMMA RememberedStays ==
  ASSUME TypeOK, CopiesCurrent, AttemptRemembered, FirstIsAlone,
         NEW t \in Tabs, TabStep(t), Takes(t), ~clobbered'
  PROVE  AttemptRemembered'
<1>0. clobbered \in BOOLEAN /\ ~clobbered
  BY Holder DEF TypeOK
<1> SUFFICES ASSUME Underway' PROVE stored'.attempted
  BY DEF AttemptRemembered
<1>1. CASE Posts(t)
  BY <1>1 DEF Posts, Wrote
<1>2. CASE ~Posts(t)
  <2>1. Underway /\ stored.attempted
    BY <1>0, <1>2, UnderwayStep DEF AttemptRemembered
  <2>2. t \in current => tab[t].record = stored
    BY DEF CopiesCurrent
  <2>3. CASE t \in current /\ Unattempts(t)
    BY <2>1, <2>3 DEF FirstIsAlone, Unattempts, Underway, Pending
  <2>4. CASE t \in current /\ stored' = tab'[t].record /\ (Writes(t) \/ Starts(t))
    BY <2>1, <2>2, <2>4 DEF Writes, Starts
  <2> QED
    BY <1>0, <1>2, <2>1, <2>3, <2>4, Holder
<1> QED
  BY <1>1, <1>2

(* A tab that may POST holds the owner of everything under way: had it      *)
(* started after an attempt, it would have recovered instead.               *)
LEMMA CreatorStays ==
  ASSUME TypeOK, CopiesCurrent, AttemptRemembered, CreatorIsOwner,
         NEW t \in Tabs, TabStep(t), Takes(t), ~clobbered'
  PROVE  CreatorIsOwner'
<1>0. clobbered \in BOOLEAN /\ ~clobbered
  BY Holder DEF TypeOK
<1> SUFFICES ASSUME NEW u \in current', Creating(tab'[u]), NEW o \in Owners, Claim(o)'
             PROVE  tab'[u].run.csrf = o
  BY DEF CreatorIsOwner
<1>1. Claim(o) \/ (Posts(t) /\ o = tab[t].run.csrf)
  BY ClaimStep
<1>2. o # 0
  BY DEF Owners
<1>3. CASE u # t
  <2>1. u \in current /\ ~Posts(t) /\ u \in Tabs
    BY <1>0, <1>3, Holder DEF TypeOK, Posts, Wrote
  <2> QED
    BY <1>1, <1>3, <2>1, Shape DEF CreatorIsOwner
<1>4. CASE u = t /\ t \in current /\ Posts(t)
  BY <1>1, <1>4 DEF CreatorIsOwner, Posts
<1>5. CASE u = t /\ t \in current /\ ~Posts(t) /\ Follows(tab[t], tab'[t])
  BY <1>1, <1>2, <1>5 DEF CreatorIsOwner, Follows
<1>6. CASE u = t /\ t \in current /\ ~Posts(t) /\ Starts(t)
  BY <1>0, <1>1, <1>6, ClaimIsUnderway DEF Starts, AttemptRemembered, CopiesCurrent
<1>7. CASE Opens(t) \/ Closes(t)
  <2>1. ~Creating(tab'[t])
    BY <1>7 DEF Opens, Closes, AtRest, Creating
  <2> QED
    BY <1>3, <2>1
<1> QED
  BY <1>0, <1>3, <1>4, <1>5, <1>6, <1>7, Holder DEF GoesOn, Writes, Unattempts

(* All that is under way is still of one owner: a POST is of the owner its  *)
(* tab recovered or holds.                                                  *)
LEMMA OwnerStays ==
  ASSUME TypeOK, OneOwner, CreatorIsOwner, NEW t \in Tabs, TabStep(t), Takes(t), ~clobbered'
  PROVE  OneOwner'
<1>0. clobbered \in BOOLEAN
  BY DEF TypeOK
<1> SUFFICES ASSUME NEW o1 \in Owners, NEW o2 \in Owners, Claim(o1)', Claim(o2)'
             PROVE  o1 = o2
  BY DEF OneOwner
<1>1. /\ Claim(o1) \/ (Posts(t) /\ o1 = tab[t].run.csrf)
      /\ Claim(o2) \/ (Posts(t) /\ o2 = tab[t].run.csrf)
  BY ClaimStep
<1>2. Posts(t) => t \in current /\ Creating(tab[t])
  BY <1>0 DEF Posts, Wrote
<1> QED
  BY <1>1, <1>2 DEF OneOwner, CreatorIsOwner

(* A first attempt is still the only one: it began when the record said     *)
(* that there had been none.                                                *)
LEMMA AloneStays ==
  ASSUME TypeOK, CopiesCurrent, AttemptRemembered, FirstIsAlone,
         NEW t \in Tabs, TabStep(t), Takes(t), ~clobbered'
  PROVE  FirstIsAlone'
<1>0. clobbered \in BOOLEAN /\ ~clobbered
  BY Holder DEF TypeOK
<1> SUFFICES ASSUME NEW u \in current', First(tab'[u])
             PROVE  /\ orders' = <<>> /\ \A r \in late' : r.kind # "create"
                    /\ \A v \in Tabs \ {u} : ~Pending(tab'[v])
  BY DEF FirstIsAlone
<1>1. CASE u # t
  <2>1. u \in current /\ ~Posts(t) /\ u \in Tabs /\ First(tab[u])
    BY <1>0, <1>1, Holder, Shape DEF TypeOK, Posts, Wrote
  <2>2. /\ orders = <<>> /\ \A r \in late : r.kind # "create"
        /\ \A v \in Tabs \ {u} : ~Pending(tab[v])
    BY <2>1 DEF FirstIsAlone
  <2>3. ~Pending(tab[t]) /\ ~Pending(tab'[t])
    BY <1>1, <2>1, <2>2, Shape
  <2> QED
    BY <2>2, <2>3, Shape DEF Takes
<1>2. CASE u = t /\ t \in current /\ Posts(t)
  <2>1. ~Underway
    BY <1>0, <1>2 DEF Posts, CopiesCurrent, AttemptRemembered
  <2> QED
    BY <1>2, <2>1, Shape DEF Underway, Pending, Takes
<1>3. CASE u = t /\ t \in current /\ First(tab[t])
  <2>1. /\ orders = <<>> /\ \A r \in late : r.kind # "create"
        /\ \A v \in Tabs \ {t} : ~Pending(tab[v])
    BY <1>3 DEF FirstIsAlone
  <2> QED
    BY <1>3, <2>1, Shape DEF Takes
<1>4. CASE Opens(t) \/ Closes(t)
  <2>1. ~First(tab'[t])
    BY <1>4 DEF Opens, Closes, AtRest, First, Pending
  <2> QED
    BY <1>1, <2>1
<1> QED
  BY <1>0, <1>1, <1>2, <1>3, <1>4, Holder DEF GoesOn, Writes, Unattempts, Starts, Follows

(* A second order would need a second owner, or the same owner twice. *)
LEMMA OneOrderStays ==
  ASSUME TypeOK, RunsSound, ~clobbered => OneOwner, NoSecondOrder, NEW t \in Tabs, TabStep(t), Takes(t)
  PROVE  NoSecondOrder'
<1>0. orders \in Seq(Owners) /\ (clobbered => clobbered')
  BY Shape DEF TypeOK
<1>1. CASE orders' = orders
  BY <1>0, <1>1 DEF NoSecondOrder
<1>2. CASE Pending(tab[t]) /\ tab[t].run.csrf \in Owners /\ OrdersOf(tab[t].run.csrf) = {}
           /\ orders' = Append(orders, tab[t].run.csrf)
  <2> DEFINE o == tab[t].run.csrf
  <2>1. Claim(o)
    BY <1>2 DEF Claim
  <2>2. CASE orders # <<>> /\ ~clobbered
    <3>1. 1 \in DOMAIN orders /\ orders[1] \in Owners
      BY <1>0, <2>2
    <3>2. Claim(orders[1])
      BY <3>1 DEF Claim
    <3>3. orders[1] = o
      BY <1>2, <2>1, <2>2, <3>1, <3>2 DEF OneOwner
    <3> QED
      BY <1>2, <3>1, <3>3 DEF OrdersOf
  <2>3. CASE orders = <<>>
    <3>1. Len(orders') = 1
      BY <1>0, <1>2, <2>3
    <3> QED
      BY <3>1 DEF NoSecondOrder
  <2> QED
    BY <1>0, <2>2, <2>3 DEF NoSecondOrder
<1> QED
  BY <1>1, <1>2 DEF Takes

(***************************************************************************)
(* The other steps, and the theorems                                       *)
(***************************************************************************)

(* The invariant holds when the record has just been persisted. *)
LEMMA InitEstablishesIInv ==
  ASSUME Init
  PROVE  IInv
<1>1. PICK open \in SUBSET used : /\ tab = [t \in Tabs |-> AtRest(IF t \in open THEN "idle" ELSE "closed", Saved)]
                                  /\ current = open
  BY DEF Init
<1>2. Saved \in Records /\ ~Saved.attempted
  BY DEF Saved, Records
<1>3. /\ tab \in [Tabs -> TabTypes]
      /\ \A t \in Tabs : /\ tab[t].record = Saved /\ Sound(tab[t]) /\ ~Pending(tab[t])
                         /\ ~Creating(tab[t]) /\ ~First(tab[t])
                         /\ t \in open => tab[t].pc # "closed"
  BY <1>1, <1>2, RestIs
<1>4. orders = <<>> /\ late = {} /\ stored = Saved /\ clobbered = FALSE /\ used \subseteq Tabs /\ current \subseteq Tabs
  BY <1>1 DEF Init
<1>5. TypeOK
  <2>1. jar \in 0 .. MaxOwners /\ minted \in 0 .. MaxOwners /\ faults \in Nat
    BY BoundAssumption DEF Init
  <2>2. orders \in Seq(Owners) /\ late \subseteq [kind : {"session", "create"}, owner : 0 .. MaxOwners]
    BY <1>4
  <2> QED
    BY <1>2, <1>3, <1>4, <2>1, <2>2 DEF TypeOK, TabTypes
<1>6. \A o \in Owners : ~Claim(o)
  BY <1>3, <1>4 DEF Claim
<1>7. RunsSound /\ LateOwned /\ CopiesCurrent
  BY <1>1, <1>3, <1>4 DEF RunsSound, LateOwned, CopiesCurrent
<1>8. AttemptRemembered
  BY <1>3, <1>4 DEF AttemptRemembered, Underway, Pending
<1>9. OneOwner /\ CreatorIsOwner /\ FirstIsAlone
  BY <1>3, <1>4, <1>6 DEF OneOwner, CreatorIsOwner, FirstIsAlone
<1>10. NoSecondOrder
  BY <1>4 DEF NoSecondOrder
<1> QED
  BY <1>5, <1>7, <1>8, <1>9, <1>10 DEF IInv

(* Every step of a tab keeps the invariant. *)
LEMMA TabKeepsIInv ==
  ASSUME IInv, NEW t \in Tabs, TabStep(t), Takes(t), used' = used
  PROVE  IInv'
<1>1. TypeOK' /\ RunsSound' /\ LateOwned' /\ NoSecondOrder'
  BY TypesStay, OneOrderStays DEF IInv
<1>2. ASSUME ~clobbered'
      PROVE  CopiesCurrent' /\ AttemptRemembered' /\ OneOwner' /\ CreatorIsOwner' /\ FirstIsAlone'
  <2>1. /\ CopiesCurrent /\ AttemptRemembered /\ OneOwner /\ CreatorIsOwner /\ FirstIsAlone
        /\ TypeOK
    BY <1>2, Holder DEF IInv, TypeOK
  <2> QED
    BY <1>2, <2>1, CopiesStay, RememberedStays, CreatorStays, OwnerStays, AloneStays
<1> QED
  BY <1>1, <1>2 DEF IInv

(* A request that was given up and comes through adds nothing to what it    *)
(* claimed when it was given up.                                            *)
LEMMA LateKeepsIInv ==
  ASSUME IInv, NEW r \in late, ServeLate(r), used' = used
  PROVE  IInv'
<1>1. /\ UNCHANGED client /\ UNCHANGED used /\ faults' = faults /\ late' = late \ {r}
      /\ UNCHANGED <<stored, tab, current, clobbered>>
  BY DEF ServeLate, client
<1>2. TypeOK /\ RunsSound /\ LateOwned /\ NoSecondOrder /\ r \in [kind : {"session", "create"}, owner : 0 .. MaxOwners]
  BY DEF IInv, TypeOK
<1>3. \/ orders' = orders
      \/ r.kind = "create" /\ r.owner \in Owners /\ OrdersOf(r.owner) = {} /\ orders' = Append(orders, r.owner)
  <2>1. CASE r.kind = "session"
    BY <2>1 DEF ServeLate
  <2>2. CASE r.kind = "create"
    <3>1. r.owner \in Owners
      BY <1>2, <2>2 DEF LateOwned, Owners
    <3> QED
      BY <2>2, <3>1 DEF ServeLate
  <2> QED
    BY <1>2, <2>1, <2>2
<1>4. orders \in Seq(Owners) /\ orders' \in Seq(Owners)
  BY <1>2, <1>3 DEF TypeOK
<1>5. jar' \in 0 .. MaxOwners /\ minted' \in 0 .. MaxOwners
  <2>1. jar \in 0 .. MaxOwners /\ minted \in 0 .. MaxOwners
    BY <1>2 DEF TypeOK
  <2>2. CASE r.kind = "session"
    <3>1. minted < MaxOwners /\ minted' = minted + 1 /\ jar' \in {jar, minted + 1}
      BY <2>2 DEF ServeLate
    <3> QED
      BY <2>1, <3>1, BoundAssumption
  <2>3. CASE r.kind = "create"
    BY <2>1, <2>3 DEF ServeLate
  <2> QED
    BY <1>2, <2>2, <2>3
<1>6. TypeOK'
  BY <1>1, <1>2, <1>4, <1>5 DEF TypeOK
<1>7. ASSUME NEW o \in Owners, Claim(o)' PROVE Claim(o)
  <2>1. CASE \E i \in DOMAIN orders' : orders'[i] = o
    <3>1. (\E i \in DOMAIN orders : orders[i] = o) \/ (r.kind = "create" /\ r.owner = o)
      BY <1>3, <1>4, <2>1
    <3> QED
      BY <3>1 DEF Claim
  <2> QED
    BY <1>1, <1>7, <2>1 DEF Claim
<1>8. Underway' => Underway
  BY <1>1, <1>3 DEF Underway
<1>9. NoSecondOrder'
  <2>1. CASE orders' = orders
    BY <1>1, <1>2, <2>1 DEF NoSecondOrder
  <2>2. CASE orders # <<>> /\ ~clobbered /\ orders' # orders
    <3>1. 1 \in DOMAIN orders /\ orders[1] \in Owners
      BY <1>4, <2>2
    <3>2. Claim(orders[1]) /\ Claim(r.owner)
      BY <1>3, <2>2, <3>1 DEF Claim
    <3>3. orders[1] = r.owner
      BY <1>3, <2>2, <3>1, <3>2 DEF OneOwner, IInv
    <3> QED
      BY <1>3, <2>2, <3>1, <3>3 DEF OrdersOf
  <2>3. CASE orders = <<>> /\ orders' # orders
    <3>1. Len(orders') = 1
      BY <1>3, <1>4, <2>3
    <3> QED
      BY <3>1 DEF NoSecondOrder
  <2> QED
    BY <1>1, <2>1, <2>2, <2>3 DEF NoSecondOrder
<1>10. RunsSound' /\ LateOwned'
  BY <1>1, <1>2 DEF RunsSound, LateOwned
<1>11. ASSUME ~clobbered
       PROVE  CopiesCurrent' /\ AttemptRemembered' /\ OneOwner' /\ CreatorIsOwner' /\ FirstIsAlone'
  <2>1. CopiesCurrent /\ AttemptRemembered /\ OneOwner /\ CreatorIsOwner /\ FirstIsAlone
    BY <1>11 DEF IInv
  <2>2. CopiesCurrent' /\ AttemptRemembered'
    BY <1>1, <1>8, <2>1 DEF CopiesCurrent, AttemptRemembered
  <2>3. OneOwner' /\ CreatorIsOwner'
    BY <1>1, <1>7, <2>1 DEF OneOwner, CreatorIsOwner
  <2>4. FirstIsAlone'
    BY <1>1, <1>3, <2>1 DEF FirstIsAlone
  <2> QED
    BY <2>2, <2>3, <2>4
<1> QED
  BY <1>1, <1>6, <1>9, <1>10, <1>11 DEF IInv

(* Losing the cookie, and a step that changes nothing, keep the invariant. *)
LEMMA SameKeepsIInv ==
  ASSUME IInv, (used' = used /\ LoseCookie) \/ UNCHANGED vars
  PROVE  IInv'
<1>1. /\ UNCHANGED <<minted, orders, late, stored, tab, current, clobbered, used>>
      /\ jar' \in {jar, 0} /\ faults' \in {faults, faults + 1}
  BY DEF LoseCookie, Fault, vars, server, client
<1>2. TypeOK'
  BY <1>1, BoundAssumption DEF TypeOK, IInv
<1>3. \A o : Claim(o)' <=> Claim(o)
  BY <1>1 DEF Claim
<1>4. /\ RunsSound' <=> RunsSound
      /\ LateOwned' <=> LateOwned
      /\ NoSecondOrder' <=> NoSecondOrder
      /\ CopiesCurrent' <=> CopiesCurrent
      /\ FirstIsAlone' <=> FirstIsAlone
  BY <1>1 DEF RunsSound, LateOwned, NoSecondOrder, CopiesCurrent, FirstIsAlone
<1>5. AttemptRemembered' <=> AttemptRemembered
  BY <1>1 DEF AttemptRemembered, Underway
<1>6. (OneOwner' <=> OneOwner) /\ (CreatorIsOwner' <=> CreatorIsOwner)
  BY <1>1, <1>3 DEF OneOwner, CreatorIsOwner
<1> QED
  BY <1>1, <1>2, <1>4, <1>5, <1>6 DEF IInv

(* The invariant the properties rest on: what each run knows, whose the     *)
(* orders and the POSTs under way are, and which tabs hold the stored copy. *)
THEOREM Invariance == Spec => []IInv
<1>1. IInv /\ [Next]_vars => IInv'
  <2> SUFFICES ASSUME IInv, [Next]_vars PROVE IInv'
    OBVIOUS
  <2>1. TypeOK /\ RunsSound
    BY DEF IInv
  <2> QED
    BY <2>1, TabSteps, TabKeepsIInv, LateKeepsIInv, SameKeepsIInv
<1> QED
  BY <1>1, InitEstablishesIInv, PTL DEF Spec

(* The types of the stored record, of the copies, runs and requests of the  *)
(* tabs and of the rows, for any number of tabs, attempts and failures.     *)
THEOREM TypeCorrect == Spec => []TypeOK
<1>1. IInv => TypeOK
  BY DEF IInv
<1> QED
  BY <1>1, Invariance, PTL

(* createRequest, perform and createOrder of OrderHandoffController: the    *)
(* record says that creation was attempted before any POST can reach the    *)
(* server, and only a refusal of the very first attempt takes it back.      *)
THEOREM AttemptsAreRemembered == Spec => []AttemptRemembered
<1>1. IInv => AttemptRemembered
  BY DEF IInv, AttemptRemembered
<1> QED
  BY <1>1, Invariance, PTL

(* OrderHandoffController and CreateOwnedAffiliateOrder: one request of the *)
(* customer is one order, whatever was lost, repeated or came late, until a *)
(* tab writes over a record that another tab had changed.                   *)
THEOREM OnlyOneOrder == Spec => []NoSecondOrder
<1>1. IInv => NoSecondOrder
  BY DEF IInv
<1> QED
  BY <1>1, Invariance, PTL
=============================================================================
