------------------------- MODULE BenefitClaimProofs -------------------------
(* Proofs about BenefitClaim, for any browsers, tabs and bounds. *)
EXTENDS BenefitClaim, TLAPS

(***************************************************************************)
(* What has to be true for the properties to last: what Opus8 has created  *)
(* belongs to a claim and carries its identifier; a request that calls     *)
(* Opus8, or has called it, works on a claim that exists; one about to     *)
(* complete has its subscription; a page that polls may poll once more.    *)
(***************************************************************************)

Owned == \A s \in subscriptions : status[s.browser] # "none" /\ s.id = external_id[s.browser]

Underway == \A t \in Tabs : Working(t) => status[browser[t]] # "none"

Provisioned == \A t \in Tabs : at[t] = "completing" => Subscription(browser[t]) \in subscriptions

MayPoll == \A t \in Tabs : page[t] = "polling" => polls[t] < MaxPollAttempts

IInv == TypeOK /\ MayPoll /\ Owned /\ Underway /\ Provisioned /\ ReadyIsProvisioned

(* Every step keeps the types. *)
LEMMA TypeStep ==
  ASSUME TypeOK, MayPoll, Underway, [Next]_vars
  PROVE  TypeOK'
<1> USE DEF claims, pages
<1>1. ASSUME NEW t \in Tabs, NEW b \in Browsers, Open(t, b) PROVE TypeOK'
  BY <1>1, BenefitClaimAssumption DEF Open, Restored, Show, TypeOK, Statuses
<1>2. ASSUME NEW t \in Tabs, Submit(t) PROVE TypeOK'
  BY <1>2, BenefitClaimAssumption DEF Submit, Show, TypeOK, Statuses
<1>3. ASSUME NEW t \in Tabs, Poll(t) PROVE TypeOK'
  BY <1>3, BenefitClaimAssumption DEF Poll, Restored, Show, TypeOK, Statuses, MayPoll
<1>4. ASSUME NEW t \in Tabs, Retry(t) PROVE TypeOK'
  BY <1>4, BenefitClaimAssumption DEF Retry, Restored, Show, TypeOK, Statuses
<1>5. ASSUME NEW t \in Tabs, Leave(t) PROVE TypeOK'
  BY <1>5, BenefitClaimAssumption DEF Leave, Show, TypeOK, Statuses
<1>6. ASSUME NEW t \in Tabs, Check(t) PROVE TypeOK'
  BY <1>6, BenefitClaimAssumption DEF Check, Goto, Answer, TypeOK, Statuses
<1>7. ASSUME NEW t \in Tabs, Count(t) PROVE TypeOK'
  BY <1>7, BenefitClaimAssumption DEF Count, Goto, Answer, TypeOK, Statuses
<1>8. ASSUME NEW t \in Tabs, Create(t) PROVE TypeOK'
  BY <1>8, BenefitClaimAssumption DEF Create, NoConflict, SetStatus, Goto, TypeOK, Statuses
<1>9. ASSUME NEW t \in Tabs, Recover(t) PROVE TypeOK'
  BY <1>9, BenefitClaimAssumption DEF Recover, Stale, SetStatus, Goto, Answer, TypeOK, Statuses
<1>10. ASSUME NEW t \in Tabs, Begin(t) PROVE TypeOK'
  BY <1>10, BenefitClaimAssumption DEF Begin, SetStatus, Goto, TypeOK, Statuses
<1>11. ASSUME NEW t \in Tabs, Reread(t) PROVE TypeOK'
  BY <1>11, BenefitClaimAssumption DEF Reread, Answer, TypeOK, Statuses
<1>12. ASSUME NEW t \in Tabs, Provision(t) PROVE TypeOK'
  BY <1>12, BenefitClaimAssumption DEF Provision, Subscription, Goto, TypeOK, Statuses, Underway, Working
<1>13. ASSUME NEW t \in Tabs, ProvisionFails(t) PROVE TypeOK'
  BY <1>13, BenefitClaimAssumption DEF ProvisionFails, Subscription, AfterError, Goto, TypeOK, Statuses, Underway, Working
<1>14. ASSUME NEW t \in Tabs, Complete(t) PROVE TypeOK'
  BY <1>14, BenefitClaimAssumption DEF Complete, SetStatus, Answer, TypeOK, Statuses
<1>15. ASSUME NEW t \in Tabs, Fail(t) PROVE TypeOK'
  BY <1>15, BenefitClaimAssumption DEF Fail, Failable, SetStatus, Answer, TypeOK, Statuses
<1>16. ASSUME NEW t \in Tabs, Interrupt(t) PROVE TypeOK'
  BY <1>16, BenefitClaimAssumption DEF Interrupt, Answer, Waiting, TypeOK, Statuses
<1>17. ASSUME NEW b \in Browsers, Age(b) PROVE TypeOK'
  BY <1>17, BenefitClaimAssumption DEF Age, TypeOK, Statuses
<1>18. ASSUME UNCHANGED vars PROVE TypeOK'
  BY <1>18, BenefitClaimAssumption DEF vars, TypeOK, Statuses
<1> QED
  BY <1>1, <1>2, <1>3, <1>4, <1>5, <1>6, <1>7, <1>8, <1>9, <1>10,
     <1>11, <1>12, <1>13, <1>14, <1>15, <1>16, <1>17, <1>18
  DEF Next, Visit, benefitClaim

(* Every step keeps the bound on polls. *)
LEMMA PollStep ==
  ASSUME TypeOK, MayPoll, [Next]_vars
  PROVE  MayPoll'
<1> USE DEF claims, pages
<1>1. ASSUME NEW t \in Tabs, NEW b \in Browsers, Open(t, b) PROVE MayPoll'
  BY <1>1, BenefitClaimAssumption DEF Open, Restored, Show, TypeOK, MayPoll
<1>2. ASSUME NEW t \in Tabs, Submit(t) PROVE MayPoll'
  BY <1>2, BenefitClaimAssumption DEF Submit, Show, TypeOK, MayPoll
<1>3. ASSUME NEW t \in Tabs, Poll(t) PROVE MayPoll'
  BY <1>3, BenefitClaimAssumption DEF Poll, Restored, Show, TypeOK, MayPoll
<1>4. ASSUME NEW t \in Tabs, Retry(t) PROVE MayPoll'
  BY <1>4, BenefitClaimAssumption DEF Retry, Restored, Show, TypeOK, MayPoll
<1>5. ASSUME NEW t \in Tabs, Leave(t) PROVE MayPoll'
  BY <1>5, BenefitClaimAssumption DEF Leave, Show, TypeOK, MayPoll
<1>6. ASSUME NEW t \in Tabs, Check(t) PROVE MayPoll'
  BY <1>6, BenefitClaimAssumption DEF Check, Goto, Answer, TypeOK, MayPoll
<1>7. ASSUME NEW t \in Tabs, Count(t) PROVE MayPoll'
  BY <1>7, BenefitClaimAssumption DEF Count, Goto, Answer, TypeOK, MayPoll
<1>8. ASSUME NEW t \in Tabs, Create(t) PROVE MayPoll'
  BY <1>8, BenefitClaimAssumption DEF Create, NoConflict, SetStatus, Goto, TypeOK, MayPoll
<1>9. ASSUME NEW t \in Tabs, Recover(t) PROVE MayPoll'
  BY <1>9, BenefitClaimAssumption DEF Recover, Stale, SetStatus, Goto, Answer, TypeOK, MayPoll
<1>10. ASSUME NEW t \in Tabs, Begin(t) PROVE MayPoll'
  BY <1>10, BenefitClaimAssumption DEF Begin, SetStatus, Goto, TypeOK, MayPoll
<1>11. ASSUME NEW t \in Tabs, Reread(t) PROVE MayPoll'
  BY <1>11, BenefitClaimAssumption DEF Reread, Answer, TypeOK, MayPoll
<1>12. ASSUME NEW t \in Tabs, Provision(t) PROVE MayPoll'
  BY <1>12, BenefitClaimAssumption DEF Provision, Subscription, Goto, TypeOK, MayPoll
<1>13. ASSUME NEW t \in Tabs, ProvisionFails(t) PROVE MayPoll'
  BY <1>13, BenefitClaimAssumption DEF ProvisionFails, Subscription, AfterError, Goto, TypeOK, MayPoll
<1>14. ASSUME NEW t \in Tabs, Complete(t) PROVE MayPoll'
  BY <1>14, BenefitClaimAssumption DEF Complete, SetStatus, Answer, TypeOK, MayPoll
<1>15. ASSUME NEW t \in Tabs, Fail(t) PROVE MayPoll'
  BY <1>15, BenefitClaimAssumption DEF Fail, Failable, SetStatus, Answer, TypeOK, MayPoll
<1>16. ASSUME NEW t \in Tabs, Interrupt(t) PROVE MayPoll'
  BY <1>16, BenefitClaimAssumption DEF Interrupt, Answer, Waiting, TypeOK, MayPoll
<1>17. ASSUME NEW b \in Browsers, Age(b) PROVE MayPoll'
  BY <1>17, BenefitClaimAssumption DEF Age, TypeOK, MayPoll
<1>18. ASSUME UNCHANGED vars PROVE MayPoll'
  BY <1>18, BenefitClaimAssumption DEF vars, TypeOK, MayPoll
<1> QED
  BY <1>1, <1>2, <1>3, <1>4, <1>5, <1>6, <1>7, <1>8, <1>9, <1>10,
     <1>11, <1>12, <1>13, <1>14, <1>15, <1>16, <1>17, <1>18
  DEF Next, Visit, benefitClaim

(* Every step keeps subscriptions with their claims. *)
LEMMA OwnedStep ==
  ASSUME TypeOK, Owned, Underway, [Next]_vars
  PROVE  Owned'
<1> USE DEF claims, pages
<1>1. ASSUME NEW t \in Tabs, NEW b \in Browsers, Open(t, b) PROVE Owned'
  BY <1>1 DEF Open, Restored, Show, TypeOK, Owned, Underway, Working
<1>2. ASSUME NEW t \in Tabs, Submit(t) PROVE Owned'
  BY <1>2 DEF Submit, Show, TypeOK, Owned, Underway, Working
<1>3. ASSUME NEW t \in Tabs, Poll(t) PROVE Owned'
  BY <1>3 DEF Poll, Restored, Show, TypeOK, Owned, Underway, Working
<1>4. ASSUME NEW t \in Tabs, Retry(t) PROVE Owned'
  BY <1>4 DEF Retry, Restored, Show, TypeOK, Owned, Underway, Working
<1>5. ASSUME NEW t \in Tabs, Leave(t) PROVE Owned'
  BY <1>5 DEF Leave, Show, TypeOK, Owned, Underway, Working
<1>6. ASSUME NEW t \in Tabs, Check(t) PROVE Owned'
  BY <1>6 DEF Check, Goto, Answer, TypeOK, Owned, Underway, Working
<1>7. ASSUME NEW t \in Tabs, Count(t) PROVE Owned'
  BY <1>7 DEF Count, Goto, Answer, TypeOK, Owned, Underway, Working
<1>8. ASSUME NEW t \in Tabs, Create(t) PROVE Owned'
  BY <1>8 DEF Create, NoConflict, SetStatus, Goto, TypeOK, Owned, Underway, Working
<1>9. ASSUME NEW t \in Tabs, Recover(t) PROVE Owned'
  BY <1>9 DEF Recover, Stale, SetStatus, Goto, Answer, TypeOK, Owned, Underway, Working
<1>10. ASSUME NEW t \in Tabs, Begin(t) PROVE Owned'
  BY <1>10 DEF Begin, SetStatus, Goto, TypeOK, Owned, Underway, Working
<1>11. ASSUME NEW t \in Tabs, Reread(t) PROVE Owned'
  BY <1>11 DEF Reread, Answer, TypeOK, Owned, Underway, Working
<1>12. ASSUME NEW t \in Tabs, Provision(t) PROVE Owned'
  BY <1>12 DEF Provision, Subscription, Goto, TypeOK, Owned, Underway, Working
<1>13. ASSUME NEW t \in Tabs, ProvisionFails(t) PROVE Owned'
  BY <1>13 DEF ProvisionFails, Subscription, AfterError, Goto, TypeOK, Owned, Underway, Working
<1>14. ASSUME NEW t \in Tabs, Complete(t) PROVE Owned'
  BY <1>14 DEF Complete, SetStatus, Answer, TypeOK, Owned, Underway, Working
<1>15. ASSUME NEW t \in Tabs, Fail(t) PROVE Owned'
  BY <1>15 DEF Fail, Failable, SetStatus, Answer, TypeOK, Owned, Underway, Working
<1>16. ASSUME NEW t \in Tabs, Interrupt(t) PROVE Owned'
  BY <1>16 DEF Interrupt, Answer, Waiting, TypeOK, Owned, Underway, Working
<1>17. ASSUME NEW b \in Browsers, Age(b) PROVE Owned'
  BY <1>17 DEF Age, TypeOK, Owned, Underway, Working
<1>18. ASSUME UNCHANGED vars PROVE Owned'
  BY <1>18 DEF vars, TypeOK, Owned, Underway, Working
<1> QED
  BY <1>1, <1>2, <1>3, <1>4, <1>5, <1>6, <1>7, <1>8, <1>9, <1>10,
     <1>11, <1>12, <1>13, <1>14, <1>15, <1>16, <1>17, <1>18
  DEF Next, Visit, benefitClaim

(* Requests work on claims that exist, and claims are never deleted. *)
LEMMA UnderwayStep ==
  ASSUME TypeOK, Underway, [Next]_vars
  PROVE  Underway'
<1> USE DEF claims, pages
<1>1. ASSUME NEW t \in Tabs, NEW b \in Browsers, Open(t, b) PROVE Underway'
  BY <1>1 DEF Open, Restored, Show, TypeOK, Underway, Working, Statuses
<1>2. ASSUME NEW t \in Tabs, Submit(t) PROVE Underway'
  BY <1>2 DEF Submit, Show, TypeOK, Underway, Working, Statuses
<1>3. ASSUME NEW t \in Tabs, Poll(t) PROVE Underway'
  BY <1>3 DEF Poll, Restored, Show, TypeOK, Underway, Working, Statuses
<1>4. ASSUME NEW t \in Tabs, Retry(t) PROVE Underway'
  BY <1>4 DEF Retry, Restored, Show, TypeOK, Underway, Working, Statuses
<1>5. ASSUME NEW t \in Tabs, Leave(t) PROVE Underway'
  BY <1>5 DEF Leave, Show, TypeOK, Underway, Working, Statuses
<1>6. ASSUME NEW t \in Tabs, Check(t) PROVE Underway'
  BY <1>6 DEF Check, Goto, Answer, TypeOK, Underway, Working, Statuses
<1>7. ASSUME NEW t \in Tabs, Count(t) PROVE Underway'
  BY <1>7 DEF Count, Goto, Answer, TypeOK, Underway, Working, Statuses
<1>8. ASSUME NEW t \in Tabs, Create(t) PROVE Underway'
  BY <1>8 DEF Create, NoConflict, SetStatus, Goto, TypeOK, Underway, Working, Statuses
<1>9. ASSUME NEW t \in Tabs, Recover(t) PROVE Underway'
  BY <1>9 DEF Recover, Stale, SetStatus, Goto, Answer, TypeOK, Underway, Working, Statuses
<1>10. ASSUME NEW t \in Tabs, Begin(t) PROVE Underway'
  BY <1>10 DEF Begin, SetStatus, Goto, TypeOK, Underway, Working, Statuses
<1>11. ASSUME NEW t \in Tabs, Reread(t) PROVE Underway'
  BY <1>11 DEF Reread, Answer, TypeOK, Underway, Working, Statuses
<1>12. ASSUME NEW t \in Tabs, Provision(t) PROVE Underway'
  BY <1>12 DEF Provision, Subscription, Goto, TypeOK, Underway, Working, Statuses
<1>13. ASSUME NEW t \in Tabs, ProvisionFails(t) PROVE Underway'
  BY <1>13 DEF ProvisionFails, Subscription, AfterError, Goto, TypeOK, Underway, Working, Statuses
<1>14. ASSUME NEW t \in Tabs, Complete(t) PROVE Underway'
  BY <1>14 DEF Complete, SetStatus, Answer, TypeOK, Underway, Working, Statuses
<1>15. ASSUME NEW t \in Tabs, Fail(t) PROVE Underway'
  BY <1>15 DEF Fail, Failable, SetStatus, Answer, TypeOK, Underway, Working, Statuses
<1>16. ASSUME NEW t \in Tabs, Interrupt(t) PROVE Underway'
  BY <1>16 DEF Interrupt, Answer, Waiting, TypeOK, Underway, Working, Statuses
<1>17. ASSUME NEW b \in Browsers, Age(b) PROVE Underway'
  BY <1>17 DEF Age, TypeOK, Underway, Working, Statuses
<1>18. ASSUME UNCHANGED vars PROVE Underway'
  BY <1>18 DEF vars, TypeOK, Underway, Working, Statuses
<1> QED
  BY <1>1, <1>2, <1>3, <1>4, <1>5, <1>6, <1>7, <1>8, <1>9, <1>10,
     <1>11, <1>12, <1>13, <1>14, <1>15, <1>16, <1>17, <1>18
  DEF Next, Visit, benefitClaim

(* A subscription stays with the claim that is about to be completed. *)
LEMMA ProvisionedStep ==
  ASSUME TypeOK, Underway, Provisioned, [Next]_vars
  PROVE  Provisioned'
<1> USE DEF claims, pages
<1>1. ASSUME NEW t \in Tabs, NEW b \in Browsers, Open(t, b) PROVE Provisioned'
  BY <1>1 DEF Open, Restored, Show, TypeOK, Underway, Provisioned, Working, Subscription
<1>2. ASSUME NEW t \in Tabs, Submit(t) PROVE Provisioned'
  BY <1>2 DEF Submit, Show, Subscription, TypeOK, Underway, Provisioned, Working
<1>3. ASSUME NEW t \in Tabs, Poll(t) PROVE Provisioned'
  BY <1>3 DEF Poll, Restored, Show, Subscription, TypeOK, Underway, Provisioned, Working
<1>4. ASSUME NEW t \in Tabs, Retry(t) PROVE Provisioned'
  BY <1>4 DEF Retry, Restored, Show, Subscription, TypeOK, Underway, Provisioned, Working
<1>5. ASSUME NEW t \in Tabs, Leave(t) PROVE Provisioned'
  BY <1>5 DEF Leave, Show, Subscription, TypeOK, Underway, Provisioned, Working
<1>6. ASSUME NEW t \in Tabs, Check(t) PROVE Provisioned'
  BY <1>6 DEF Check, Goto, Answer, Subscription, TypeOK, Underway, Provisioned, Working
<1>7. ASSUME NEW t \in Tabs, Count(t) PROVE Provisioned'
  BY <1>7 DEF Count, Goto, Answer, Subscription, TypeOK, Underway, Provisioned, Working
<1>8. ASSUME NEW t \in Tabs, Create(t) PROVE Provisioned'
  BY <1>8 DEF Create, NoConflict, SetStatus, Goto, Subscription, TypeOK, Underway, Provisioned, Working
<1>9. ASSUME NEW t \in Tabs, Recover(t) PROVE Provisioned'
  BY <1>9 DEF Recover, Stale, SetStatus, Goto, Answer, Subscription, TypeOK, Underway, Provisioned, Working
<1>10. ASSUME NEW t \in Tabs, Begin(t) PROVE Provisioned'
  BY <1>10 DEF Begin, SetStatus, Goto, Subscription, TypeOK, Underway, Provisioned, Working
<1>11. ASSUME NEW t \in Tabs, Reread(t) PROVE Provisioned'
  BY <1>11 DEF Reread, Answer, Subscription, TypeOK, Underway, Provisioned, Working
<1>12. ASSUME NEW t \in Tabs, Provision(t) PROVE Provisioned'
  BY <1>12 DEF Provision, Subscription, Goto, TypeOK, Underway, Provisioned, Working
<1>13. ASSUME NEW t \in Tabs, ProvisionFails(t) PROVE Provisioned'
  BY <1>13 DEF ProvisionFails, Subscription, AfterError, Goto, TypeOK, Underway, Provisioned, Working
<1>14. ASSUME NEW t \in Tabs, Complete(t) PROVE Provisioned'
  BY <1>14 DEF Complete, SetStatus, Answer, Subscription, TypeOK, Underway, Provisioned, Working
<1>15. ASSUME NEW t \in Tabs, Fail(t) PROVE Provisioned'
  BY <1>15 DEF Fail, Failable, SetStatus, Answer, Subscription, TypeOK, Underway, Provisioned, Working
<1>16. ASSUME NEW t \in Tabs, Interrupt(t) PROVE Provisioned'
  BY <1>16 DEF Interrupt, Answer, Waiting, Subscription, TypeOK, Underway, Provisioned, Working
<1>17. ASSUME NEW b \in Browsers, Age(b) PROVE Provisioned'
  BY <1>17 DEF Age, TypeOK, Underway, Provisioned, Working, Subscription
<1>18. ASSUME UNCHANGED vars PROVE Provisioned'
  BY <1>18 DEF vars, TypeOK, Underway, Provisioned, Working, Subscription
<1> QED
  BY <1>1, <1>2, <1>3, <1>4, <1>5, <1>6, <1>7, <1>8, <1>9, <1>10,
     <1>11, <1>12, <1>13, <1>14, <1>15, <1>16, <1>17, <1>18
  DEF Next, Visit, benefitClaim

(* What is shown as ready is provisioned. *)
LEMMA ReadyStep ==
  ASSUME TypeOK, Provisioned, ReadyIsProvisioned, [Next]_vars
  PROVE  ReadyIsProvisioned'
<1> USE DEF claims, pages
<1>1. ASSUME NEW t \in Tabs, NEW b \in Browsers, Open(t, b) PROVE ReadyIsProvisioned'
  BY <1>1 DEF Open, Restored, Show, TypeOK, Provisioned, ReadyIsProvisioned, Subscription
<1>2. ASSUME NEW t \in Tabs, Submit(t) PROVE ReadyIsProvisioned'
  BY <1>2 DEF Submit, Show, Subscription, TypeOK, Provisioned, ReadyIsProvisioned
<1>3. ASSUME NEW t \in Tabs, Poll(t) PROVE ReadyIsProvisioned'
  BY <1>3 DEF Poll, Restored, Show, Subscription, TypeOK, Provisioned, ReadyIsProvisioned
<1>4. ASSUME NEW t \in Tabs, Retry(t) PROVE ReadyIsProvisioned'
  BY <1>4 DEF Retry, Restored, Show, Subscription, TypeOK, Provisioned, ReadyIsProvisioned
<1>5. ASSUME NEW t \in Tabs, Leave(t) PROVE ReadyIsProvisioned'
  BY <1>5 DEF Leave, Show, Subscription, TypeOK, Provisioned, ReadyIsProvisioned
<1>6. ASSUME NEW t \in Tabs, Check(t) PROVE ReadyIsProvisioned'
  BY <1>6 DEF Check, Goto, Answer, Subscription, TypeOK, Provisioned, ReadyIsProvisioned
<1>7. ASSUME NEW t \in Tabs, Count(t) PROVE ReadyIsProvisioned'
  BY <1>7 DEF Count, Goto, Answer, Subscription, TypeOK, Provisioned, ReadyIsProvisioned
<1>8. ASSUME NEW t \in Tabs, Create(t) PROVE ReadyIsProvisioned'
  BY <1>8 DEF Create, NoConflict, SetStatus, Goto, Subscription, TypeOK, Provisioned, ReadyIsProvisioned
<1>9. ASSUME NEW t \in Tabs, Recover(t) PROVE ReadyIsProvisioned'
  BY <1>9 DEF Recover, Stale, SetStatus, Goto, Answer, Subscription, TypeOK, Provisioned, ReadyIsProvisioned
<1>10. ASSUME NEW t \in Tabs, Begin(t) PROVE ReadyIsProvisioned'
  BY <1>10 DEF Begin, SetStatus, Goto, Subscription, TypeOK, Provisioned, ReadyIsProvisioned
<1>11. ASSUME NEW t \in Tabs, Reread(t) PROVE ReadyIsProvisioned'
  BY <1>11 DEF Reread, Answer, Subscription, TypeOK, Provisioned, ReadyIsProvisioned
<1>12. ASSUME NEW t \in Tabs, Provision(t) PROVE ReadyIsProvisioned'
  BY <1>12 DEF Provision, Subscription, Goto, TypeOK, Provisioned, ReadyIsProvisioned
<1>13. ASSUME NEW t \in Tabs, ProvisionFails(t) PROVE ReadyIsProvisioned'
  BY <1>13 DEF ProvisionFails, Subscription, AfterError, Goto, TypeOK, Provisioned, ReadyIsProvisioned
<1>14. ASSUME NEW t \in Tabs, Complete(t) PROVE ReadyIsProvisioned'
  BY <1>14 DEF Complete, SetStatus, Answer, Subscription, TypeOK, Provisioned, ReadyIsProvisioned
<1>15. ASSUME NEW t \in Tabs, Fail(t) PROVE ReadyIsProvisioned'
  BY <1>15 DEF Fail, Failable, SetStatus, Answer, Subscription, TypeOK, Provisioned, ReadyIsProvisioned
<1>16. ASSUME NEW t \in Tabs, Interrupt(t) PROVE ReadyIsProvisioned'
  BY <1>16 DEF Interrupt, Answer, Waiting, Subscription, TypeOK, Provisioned, ReadyIsProvisioned
<1>17. ASSUME NEW b \in Browsers, Age(b) PROVE ReadyIsProvisioned'
  BY <1>17 DEF Age, TypeOK, Provisioned, ReadyIsProvisioned, Subscription
<1>18. ASSUME UNCHANGED vars PROVE ReadyIsProvisioned'
  BY <1>18 DEF vars, TypeOK, Provisioned, ReadyIsProvisioned, Subscription
<1> QED
  BY <1>1, <1>2, <1>3, <1>4, <1>5, <1>6, <1>7, <1>8, <1>9, <1>10,
     <1>11, <1>12, <1>13, <1>14, <1>15, <1>16, <1>17, <1>18
  DEF Next, Visit, benefitClaim

(* A claim that is ready is never written again. *)
LEMMA ReadyStays ==
  ASSUME TypeOK, [Next]_vars, NEW b \in Browsers, status[b] = "ready"
  PROVE  status'[b] = "ready" /\ external_id'[b] = external_id[b]
<1> USE DEF claims, pages
<1>1. ASSUME NEW t \in Tabs, Create(t) PROVE status'[b] = "ready" /\ external_id'[b] = external_id[b]
  BY <1>1 DEF Create, NoConflict, SetStatus, TypeOK
<1>2. ASSUME NEW t \in Tabs, Recover(t) \/ Begin(t) \/ Complete(t) \/ Fail(t)
      PROVE  status'[b] = "ready" /\ external_id'[b] = external_id[b]
  BY <1>2 DEF Recover, Stale, Begin, Complete, Fail, Failable, SetStatus, TypeOK
<1>3. ASSUME NEW t \in Tabs, Visit(t) \/ Leave(t) \/ Interrupt(t)
      PROVE  status'[b] = "ready" /\ external_id'[b] = external_id[b]
  BY <1>3 DEF Visit, Open, Submit, Poll, Retry, Leave, Interrupt
<1>4. ASSUME NEW t \in Tabs, Check(t) \/ Count(t) \/ Reread(t) \/ Provision(t) \/ ProvisionFails(t)
      PROVE  status'[b] = "ready" /\ external_id'[b] = external_id[b]
  BY <1>4 DEF Check, Count, Reread, Provision, ProvisionFails
<1>5. ASSUME NEW c \in Browsers, Age(c) PROVE status'[b] = "ready" /\ external_id'[b] = external_id[b]
  BY <1>5 DEF Age
<1>6. CASE UNCHANGED vars
  BY <1>6 DEF vars
<1> QED
  BY <1>1, <1>2, <1>3, <1>4, <1>5, <1>6 DEF Next, benefitClaim

(***************************************************************************)
(* Theorems                                                                *)
(***************************************************************************)

(* The invariant holds when nobody has claimed yet. *)
LEMMA InitIInv == Init => IInv
<1> SUFFICES ASSUME Init PROVE IInv
  OBVIOUS
<1>1. TypeOK
  BY BenefitClaimAssumption DEF Init, TypeOK, Statuses
<1>2. MayPoll /\ Owned /\ Underway /\ Provisioned /\ ReadyIsProvisioned
  BY DEF Init, MayPoll, Owned, Underway, Working, Provisioned, ReadyIsProvisioned
<1> QED
  BY <1>1, <1>2 DEF IInv

(* Every step keeps the invariant. *)
LEMMA NextIInv == IInv /\ [Next]_vars => IInv'
  BY TypeStep, PollStep, OwnedStep, UnderwayStep, ProvisionedStep, ReadyStep DEF IInv

(* The strengthened invariant holds throughout. *)
THEOREM Invariance == Spec => []IInv
  BY InitIInv, NextIInv, PTL DEF Spec

(* Claims, pages and requests stay in the states the code gives them. *)
THEOREM TypeCorrect == Spec => []TypeOK
<1>1. IInv => TypeOK
  BY DEF IInv
<1> QED
  BY <1>1, Invariance, PTL

(* A browser gets one subscription, whatever its tabs do, whichever calls  *)
(* fail and however often the claim is recovered.                          *)
THEOREM OneEach == Spec => []OneSubscription
<1>1. IInv => OneSubscription
  <2> SUFFICES ASSUME IInv, NEW s \in subscriptions, NEW r \in subscriptions, s.browser = r.browser
               PROVE  s = r
    BY DEF OneSubscription
  <2>1. s \in [browser : Browsers, id : Tabs] /\ r \in [browser : Browsers, id : Tabs]
    BY DEF IInv, TypeOK
  <2>2. s.id = r.id
    BY DEF IInv, Owned
  <2> QED
    BY <2>1, <2>2
<1> QED
  BY <1>1, Invariance, PTL

(* Whatever a page shows as ready, and every claim that is ready, has its  *)
(* subscription at Opus8.                                                  *)
THEOREM ReadyHasSubscription == Spec => []ReadyIsProvisioned
<1>1. IInv => ReadyIsProvisioned
  BY DEF IInv
<1> QED
  BY <1>1, Invariance, PTL

(* No late answer takes a subscription back.                               *)
THEOREM NotTakenBack == Spec => ReadyIsFinal
<1>1. TypeOK /\ [Next]_vars =>
        [\A b \in Browsers : status[b] = "ready" => status'[b] = "ready" /\ external_id'[b] = external_id[b]]_vars
  BY ReadyStays
<1> QED
  BY <1>1, TypeCorrect, PTL DEF Spec, ReadyIsFinal
=============================================================================
