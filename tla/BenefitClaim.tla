---------------------------- MODULE BenefitClaim ----------------------------
(***************************************************************************)
(* The webmaster benefit: a visitor claims one subscription, which Opus8   *)
(* provisions.                                                             *)
(*                                                                         *)
(* The page of each tab asks for the state of the claim when it is opened, *)
(* lets the visitor claim when there is none to wait for, and polls while  *)
(* the claim is being provisioned.  A POST to /claim reads, creates,       *)
(* recovers and begins the claim in single statements of their own, with   *)
(* the request of another tab anywhere in between, calls Opus8 with the    *)
(* external identifier of the claim, and completes or fails it.  All of it *)
(* runs under the context of the request, which ends when the page is left.*)
(*                                                                         *)
(* The browsers are those of one network, within 24 hours: the daily limit *)
(* counts the claims of a network, and networks do not interact.           *)
(***************************************************************************)
EXTENDS Integers, FiniteSets

CONSTANTS
    Browsers,           \* holders of a claim credential (the cookie)
    Tabs,               \* pages open: the bound on concurrent requests
    NoTab,
    NetworkDailyLimit,
    MaxPollAttempts,
    MaxSlow,            \* bound: how often a request still working turns 30 s old, per claim
    Steady              \* browsers that stay on the page and meet no crash or failed statement

ASSUME BenefitClaimAssumption ==
    /\ NoTab \notin Tabs
    /\ NetworkDailyLimit \in Nat \ {0} /\ MaxPollAttempts \in Nat \ {0} /\ MaxSlow \in Nat
    /\ Steady \subseteq Browsers

VARIABLES
    status,         \* [Browsers -> the status of its claim, "none" without one]
    external_id,    \* [Browsers -> the request that made it, standing for the UUID it drew]
    old,            \* browsers whose claim was last updated over 30 s ago
    subscriptions,  \* what Opus8 created: [browser, id]
    page,           \* [Tabs -> what the tab shows]
    browser,        \* [Tabs -> whose tab it is]
    polls,          \* [Tabs -> pollAttempts]
    at,             \* [Tabs -> where its request to claim stands]
    slow            \* [Browsers -> how often a working request turned old]

vars == <<status, external_id, old, subscriptions, page, browser, polls, at, slow>>

claims == <<status, external_id, old>>
pages == <<page, browser, polls>>

Init ==
    /\ status = [b \in Browsers |-> "none"]
    /\ external_id = [b \in Browsers |-> NoTab]
    /\ old = {}
    /\ subscriptions = {}
    /\ page = [t \in Tabs |-> "closed"]
    /\ browser \in [Tabs -> Browsers]
    /\ polls = [t \in Tabs |-> 0]
    /\ at = [t \in Tabs |-> "idle"]
    /\ slow = [b \in Browsers |-> 0]

(***************************************************************************)
(* The page                                                                *)
(***************************************************************************)

(* What GET /claim makes of the page. *)
Restored(b) ==
    CASE status[b] = "ready" -> "ready"
      [] status[b] = "provisioning" -> "polling"
      [] OTHER -> "unclaimed"

Show(t, state) == page' = [page EXCEPT ![t] = state]

Open(t, b) ==
    /\ page[t] = "closed" /\ at[t] = "idle"
    /\ Show(t, Restored(b))
    /\ browser' = [browser EXCEPT ![t] = b]
    /\ polls' = [polls EXCEPT ![t] = 0]
    /\ UNCHANGED <<claims, subscriptions, at, slow>>

Submit(t) ==
    /\ page[t] = "unclaimed"
    /\ Show(t, "claiming")
    /\ at' = [at EXCEPT ![t] = "checking"]
    /\ UNCHANGED <<claims, subscriptions, browser, polls, slow>>

Poll(t) ==
    /\ page[t] = "polling"
    /\ polls' = [polls EXCEPT ![t] = @ + 1]
    /\ \/ Restored(browser[t]) = "ready" /\ Show(t, "ready")
       \/ Restored(browser[t]) = "polling" /\ polls'[t] < MaxPollAttempts /\ UNCHANGED page
       \/ Restored(browser[t]) = "polling" /\ polls'[t] >= MaxPollAttempts /\ Show(t, "error")
       \/ Restored(browser[t]) = "unclaimed" /\ Show(t, "error")
    /\ UNCHANGED <<claims, subscriptions, browser, at, slow>>

Retry(t) ==
    /\ page[t] = "error"
    /\ Show(t, Restored(browser[t]))
    /\ polls' = [polls EXCEPT ![t] = 0]
    /\ UNCHANGED <<claims, subscriptions, browser, at, slow>>

Leave(t) ==
    /\ page[t] # "closed" /\ browser[t] \notin Steady
    /\ Show(t, "closed")
    /\ polls' = [polls EXCEPT ![t] = 0]
    /\ UNCHANGED <<claims, subscriptions, browser, at, slow>>

(***************************************************************************)
(* The request to claim                                                    *)
(***************************************************************************)

(* The request is not canceled: its page still waits for it. *)
Waiting(t) == page[t] = "claiming"

Goto(t, step) == at' = [at EXCEPT ![t] = step] /\ UNCHANGED pages

Answer(t, state) ==
    /\ at' = [at EXCEPT ![t] = "idle"]
    /\ page' = IF Waiting(t) THEN [page EXCEPT ![t] = state] ELSE page
    /\ polls' = [polls EXCEPT ![t] = 0]
    /\ UNCHANGED browser

SetStatus(b, s) == status' = [status EXCEPT ![b] = s] /\ old' = old \ {b}

(* The minute limit or Turnstile may refuse. *)
Check(t) ==
    /\ at[t] = "checking"
    /\ \/ status[browser[t]] = "ready" /\ Answer(t, "ready")
       \/ status[browser[t]] # "ready" /\ Answer(t, "error")
       \/ status[browser[t]] = "none" /\ Goto(t, "counting")
       \/ status[browser[t]] = "provisioning" /\ Goto(t, "recovering")
       \/ status[browser[t]] \in {"pending", "failed"} /\ Goto(t, "beginning")
       \/ browser[t] \notin Steady /\ Goto(t, "counting")     \* an error of the read is dropped
    /\ UNCHANGED <<claims, subscriptions, slow>>

BelowLimit == Cardinality({b \in Browsers : status[b] # "none"}) < NetworkDailyLimit

Count(t) ==
    /\ at[t] = "counting"
    /\ \/ (BelowLimit \/ browser[t] \notin Steady) /\ Goto(t, "creating")
       \/ ~BelowLimit /\ Answer(t, "refused")
    /\ UNCHANGED <<claims, subscriptions, slow>>

AlwaysNew(b) == TRUE
NoConflict(b) == status[b] = "none"

Create(t) ==
    /\ at[t] = "creating"
    /\ \/ /\ NoConflict(browser[t])
          /\ SetStatus(browser[t], "pending")
          /\ external_id' = [external_id EXCEPT ![browser[t]] = t]
          /\ Goto(t, "beginning")
       \/ /\ ~NoConflict(browser[t])
          /\ Goto(t, IF status[browser[t]] = "provisioning" THEN "recovering" ELSE "beginning")
          /\ UNCHANGED claims
    /\ UNCHANGED <<subscriptions, slow>>

Stale(b) == status[b] = "provisioning" /\ b \in old

Recover(t) ==
    /\ at[t] = "recovering"
    /\ \/ Stale(browser[t]) /\ SetStatus(browser[t], "pending") /\ Goto(t, "beginning")
       \/ ~Stale(browser[t]) /\ Answer(t, "polling") /\ UNCHANGED <<status, old>>
    /\ UNCHANGED <<external_id, subscriptions, slow>>

Begin(t) ==
    /\ at[t] = "beginning"
    /\ \/ /\ status[browser[t]] \in {"pending", "failed"}
          /\ SetStatus(browser[t], "provisioning")
          /\ Goto(t, "calling")
       \/ /\ status[browser[t]] \notin {"pending", "failed"}
          /\ Goto(t, "rereading")
          /\ UNCHANGED <<status, old>>
    /\ UNCHANGED <<external_id, subscriptions, slow>>

Reread(t) ==
    /\ at[t] = "rereading"
    /\ Answer(t, IF status[browser[t]] = "ready" THEN "ready" ELSE "polling")
    /\ UNCHANGED <<claims, subscriptions, slow>>

(* Opus8 creates one subscription for an external identifier. *)
Subscription(b) == [browser |-> b, id |-> external_id[b]]

Provision(t) ==
    /\ at[t] = "calling"
    /\ subscriptions' = subscriptions \cup {Subscription(browser[t])}
    /\ Goto(t, "completing")
    /\ UNCHANGED <<claims, slow>>

TakenAsDone == "completing"
AfterError == "failing"

(* The call fails, or the answer is lost: the outcome is not known. *)
ProvisionFails(t) ==
    /\ at[t] = "calling"
    /\ subscriptions' \in {subscriptions, subscriptions \cup {Subscription(browser[t])}}
    /\ Goto(t, AfterError)
    /\ UNCHANGED <<claims, slow>>

Complete(t) ==
    /\ at[t] = "completing"
    /\ \/ status[browser[t]] = "provisioning" /\ SetStatus(browser[t], "ready") /\ Answer(t, "ready")
       \/ status[browser[t]] # "provisioning" /\ Answer(t, "error") /\ UNCHANGED <<status, old>>
    /\ UNCHANGED <<external_id, subscriptions, slow>>

FailNone(b) == FALSE
Failable(b) == status[b] = "provisioning"

Fail(t) ==
    /\ at[t] = "failing"
    /\ Answer(t, "error")
    /\ \/ Failable(browser[t]) /\ SetStatus(browser[t], "failed")
       \/ ~Failable(browser[t]) /\ UNCHANGED <<status, old>>
    /\ UNCHANGED <<external_id, subscriptions, slow>>

(* A statement fails or the process dies; when the page was left, the      *)
(* context is canceled and every further statement fails.                  *)
Interrupt(t) ==
    /\ at[t] # "idle"
    /\ ~Waiting(t) \/ browser[t] \notin Steady
    /\ Answer(t, "error")
    /\ UNCHANGED <<claims, subscriptions, slow>>

Working(t) == at[t] \in {"calling", "completing", "failing"}
Workers(b) == {t \in Tabs : Working(t) /\ browser[t] = b}

Age(b) ==
    /\ status[b] = "provisioning" /\ b \notin old
    /\ old' = old \cup {b}
    /\ \/ Workers(b) = {} /\ UNCHANGED slow
       \/ slow[b] < MaxSlow /\ Workers(b) # {} /\ slow' = [slow EXCEPT ![b] = @ + 1]
    /\ UNCHANGED <<status, external_id, subscriptions, pages, at>>

benefitClaim(t) ==
    \/ Check(t) \/ Count(t) \/ Create(t) \/ Recover(t) \/ Begin(t) \/ Reread(t)
    \/ Provision(t) \/ ProvisionFails(t) \/ Complete(t) \/ Fail(t)

Visit(t) == (\E b \in Browsers : Open(t, b)) \/ Submit(t) \/ Poll(t) \/ Retry(t)

Next ==
    \/ \E t \in Tabs : Visit(t) \/ Leave(t) \/ benefitClaim(t) \/ Interrupt(t)
    \/ \E b \in Browsers : Age(b)

Spec == Init /\ [][Next]_vars

(* Requests and timers proceed, visitors come back, claim, retry and in    *)
(* the end stay, and neither Opus8 nor Turnstile fails every time.         *)
FairSpec ==
    /\ Spec
    /\ \A t \in Tabs :
          /\ WF_vars(benefitClaim(t)) /\ WF_vars(Visit(t))
          /\ SF_vars(Submit(t)) /\ SF_vars(Provision(t))
          /\ SF_vars(Check(t) /\ at'[t] # "idle")
    /\ <>[][\A t \in Tabs : ~Leave(t)]_vars
    /\ \A b \in Browsers : WF_vars(Workers(b) = {} /\ Age(b))

(***************************************************************************)
(* Properties                                                              *)
(***************************************************************************)

Statuses == {"pending", "provisioning", "ready", "failed"}

TypeOK ==
    /\ status \in [Browsers -> Statuses \cup {"none"}]
    /\ external_id \in [Browsers -> Tabs \cup {NoTab}]
    /\ old \subseteq {b \in Browsers : status[b] = "provisioning"}
    /\ \A b \in Browsers : external_id[b] = NoTab <=> status[b] = "none"
    /\ subscriptions \subseteq [browser : Browsers, id : Tabs]
    /\ page \in [Tabs -> {"closed", "unclaimed", "claiming", "polling", "ready", "error", "refused"}]
    /\ browser \in [Tabs -> Browsers]
    /\ polls \in [Tabs -> 0..MaxPollAttempts]
    /\ at \in [Tabs -> {"idle", "checking", "counting", "creating", "recovering", "beginning",
                        "rereading", "calling", "completing", "failing"}]
    /\ slow \in [Browsers -> 0..MaxSlow]

(* Tabs that claim at the same time, retries after an answer of Opus8 was  *)
(* lost and claims recovered twice all lead to one subscription for a      *)
(* browser (docs/WEBMASTER_BENEFIT_DETAILED_DESIGN.md:229, 238).           *)
OneSubscription ==
    \A s, r \in subscriptions : s.browser = r.browser => s = r

(* A page that shows a subscription, and a claim that is ready, have one   *)
(* at Opus8, however many requests worked on the claim.                    *)
ReadyIsProvisioned ==
    /\ \A t \in Tabs : page[t] = "ready" => status[browser[t]] = "ready"
    /\ \A b \in Browsers : status[b] = "ready" => Subscription(b) \in subscriptions

(* The answer to a request that was overtaken does not take a subscription *)
(* back: a ready claim stays ready, with the identifier it has.            *)
ReadyIsFinal ==
    [][\A b \in Browsers : status[b] = "ready" =>
          status'[b] = "ready" /\ external_id'[b] = external_id[b]]_vars

(* When its visitor stays, a claim that was made becomes ready: a call     *)
(* that fails leaves a claim that can be tried again, and the tabs of one  *)
(* browser and of others do not keep it from being tried.                  *)
Granted == \A b \in Steady : (status[b] # "none") ~> (status[b] = "ready")

(* repository/postgres.go:1620: a claim stuck in provisioning is recovered *)
(* when it is over 30 seconds old.                                         *)
StuckIsRecovered == \A b \in Browsers : (status[b] = "provisioning") ~> (status[b] # "provisioning")
=============================================================================
