--------------------------- MODULE PolarWebhooks ---------------------------
(***************************************************************************)
(* A customer's subscriptions: processWebhookEvent of billing/webhooks.ts, *)
(* the grace periods of billing/gracePeriods.ts, and the crons.  Polar     *)
(* delivers its events in any order, and each of them again until it is    *)
(* answered with 200; an execution of the action is a sequence of          *)
(* transactions, and may throw, stop or be overtaken anywhere.             *)
(*                                                                         *)
(* A product stands for the tier it maps to.  Trialing is "active", every  *)
(* other status that is not is "lapsed".  checkout.updated and order.paid  *)
(* touch neither tier nor subscription and are left out, and so is         *)
(* cleanupProcessedWebhooks: it drops claims after 7 days, when Polar has  *)
(* long given an event up.                                                 *)
(***************************************************************************)
EXTENDS Naturals

CONSTANTS
  Subscription, Product,
  Event,        \* the events Polar sends
  NoEvent,
  Stories,      \* what they may say
  Seeded,       \* products that paymentProducts maps from the start
  Default,      \* the tier of getDefaultTierName
  Bought,       \* the product of each subscription bought before, or Default
  Action,       \* executions of processWebhookEvent
  GracePeriod,  \* GRACE_PERIOD_DAYS
  Cooldown,     \* the 30 days of _createGracePeriod
  AnswersLost   \* whether a transaction may commit and the action see it fail

\* What an event says; uncanceled does to a row what canceled does.
EventState ==
  [kind : {"created", "updated", "canceled", "revoked"}, subscription : Subscription,
   product : Product, status : {"active", "lapsed"}]

ASSUME BillingConstants ==
  /\ Seeded \subseteq Product /\ Default \notin Product
  /\ Bought \in [Subscription -> Product \cup {Default}]
  /\ \A story \in Stories : story \in [DOMAIN story -> EventState] /\ DOMAIN story \subseteq Event
  /\ NoEvent \notin Event
  /\ AnswersLost \in BOOLEAN
  /\ GracePeriod \in Nat /\ Cooldown \in Nat

VARIABLES
  event,        \* external: what each event says
  acknowledged, \* those that were answered with 200
  claimed,      \* events with a processedWebhookEvents row
  row,          \* the subscriptions rows
  tier,         \* the userTiers row
  graceActive,  \* isActive of the latest subscriptionGracePeriods row
  graceLeft,    \* time until its gracePeriodEnd
  cooldown,     \* time until the next grace period may be given
  seeded,       \* the products that map to a tier
  work,         \* where each execution is
  completed,    \* auxiliary: events that an execution processed to the end
  graceFor,     \* auxiliary: the event the latest grace period was given for
  refused,      \* auxiliary: events that failed for want of a mapping
  overlapped,   \* auxiliary: two executions were under way at a time
  raced         \* auxiliary: a grace period ended during an execution

tierVars == <<tier, graceActive, graceLeft, cooldown, graceFor>>
histories == <<completed, refused, overlapped, raced>>
vars == <<event, acknowledged, claimed, row, tierVars, seeded, work, histories>>

Status == {"none", "active", "lapsed", "revoked"}
RowState == [status : Status, product : Product \cup {Default}]
NoRow == [status |-> "none", product |-> Default]
Step == {"idle", "looking", "creating", "updating", "comparing", "mapping", "syncing",
         "changing", "clearing", "gracing", "done", "failed", "broken"}
Idle == [at |-> "idle", event |-> NoEvent, old |-> NoRow]

Sent == DOMAIN event

TypeOK ==
  /\ event \in Stories
  /\ acknowledged \subseteq Sent /\ completed \subseteq Sent
  /\ claimed \subseteq Sent /\ refused \subseteq Sent
  /\ row \in [Subscription -> RowState]
  /\ tier \in Product \cup {Default}
  /\ graceActive \in BOOLEAN /\ graceLeft \in 0..GracePeriod /\ cooldown \in 0..Cooldown
  /\ graceFor \in Event \cup {NoEvent}
  /\ seeded \subseteq Product
  /\ work \in [Action -> [at : Step, event : Event \cup {NoEvent}, old : RowState]]
  /\ overlapped \in BOOLEAN /\ raced \in BOOLEAN

\* What was bought before is active and its tier in force.
Held == {Bought[s] : s \in Subscription} \ {Default}

Init ==
  /\ event \in Stories
  /\ acknowledged = {} /\ claimed = {} /\ completed = {} /\ refused = {}
  /\ row = [s \in Subscription |->
       IF Bought[s] = Default THEN NoRow ELSE [status |-> "active", product |-> Bought[s]]]
  /\ tier \in IF Held = {} THEN {Default} ELSE Held
  /\ graceActive = FALSE /\ graceLeft = 0 /\ cooldown = 0 /\ graceFor = NoEvent
  /\ seeded = Seeded
  /\ work = [a \in Action |-> Idle]
  /\ overlapped = FALSE /\ raced = FALSE

Elapse(t) == IF t = 0 THEN 0 ELSE t - 1
Busy(a) == work[a].at # "idle"
Subject(a) == event[work[a].event]
Key(a) == Subject(a).subscription
IsActive(r) == r.status = "active"

-----------------------------------------------------------------------------
\* paymentProducts or tierDefinitions get a product some event is about.
Seed(p) ==
  /\ p \notin seeded /\ \E e \in Sent : event[e].product = p
  /\ seeded' = seeded \cup {p}
  /\ UNCHANGED <<event, acknowledged, claimed, row, tierVars, work, histories>>

-----------------------------------------------------------------------------
(* processWebhookEvent.                                                    *)

Moves(a, step) == work' = [work EXCEPT ![a].at = step]

\* The transaction commits; the action goes on, or sees it fail.
Goes(a, step) == Moves(a, step) \/ (AnswersLost /\ Moves(a, "broken"))

\* Moves on and writes neither subscription nor tier.
Reads(a, step) ==
  /\ Moves(a, step)
  /\ UNCHANGED <<event, acknowledged, claimed, row, tierVars, seeded, histories>>

\* An event is delivered and _claimWebhook finds it claimed: 200, and it is done with.
Skip(e) ==
  /\ e \in Sent \ acknowledged /\ e \in claimed
  /\ acknowledged' = acknowledged \cup {e}
  /\ UNCHANGED <<event, claimed, row, tierVars, seeded, work, histories>>

\* Processes an event without claiming it first.
ReceiveUnclaimed(a, e) ==
  /\ ~ Busy(a) /\ e \in Sent \ acknowledged
  /\ claimed' = claimed \cup {e}
  /\ work' = [work EXCEPT ![a] =
       [at |-> IF event[e].kind = "created" THEN "creating" ELSE "looking",
        event |-> e, old |-> NoRow]]
  /\ overlapped' = (overlapped \/ \E b \in Action : Busy(b))
  /\ UNCHANGED <<event, acknowledged, row, tierVars, seeded, completed, refused, raced>>

\* An event is delivered and claimed.
Receive(a, e) ==
  /\ ~ Busy(a) /\ e \in Sent \ acknowledged /\ e \notin claimed
  /\ claimed' = claimed \cup {e}
  /\ work' = [work EXCEPT ![a] =
       [at |-> IF event[e].kind = "created" THEN "creating" ELSE "looking",
        event |-> e, old |-> NoRow]]
  /\ overlapped' = (overlapped \/ \E b \in Action : Busy(b))
  /\ UNCHANGED <<event, acknowledged, row, tierVars, seeded, completed, refused, raced>>

\* _getByPolarSubscriptionId: without a row an update activates, and every
\* other event fails for redelivery.
LookUp(a) ==
  LET found == row[Key(a)] IN
  /\ work[a].at = "looking"
  /\ work' = [work EXCEPT ![a] =
       [at |-> IF found # NoRow THEN "updating"
               ELSE IF Subject(a).kind = "updated" THEN "creating" ELSE "failed",
        event |-> work[a].event, old |-> found]]
  /\ UNCHANGED <<event, acknowledged, claimed, row, tierVars, seeded, histories>>

\* Takes a row that exists for a second activation.
CreateSubscriptionOnce(a) ==
  LET s == Key(a) IN
  /\ work[a].at = "creating"
  /\ IF row[s] = NoRow
       THEN /\ row' = [row EXCEPT ![s] =
                 [status |-> Subject(a).status, product |-> Subject(a).product]]
            /\ Goes(a, "mapping")
       ELSE Moves(a, "failed") /\ UNCHANGED row
  /\ UNCHANGED <<event, acknowledged, claimed, tierVars, seeded, histories>>

\* createSubscription, which leaves the product of a row that exists alone.
CreateSubscription(a) ==
  LET s == Key(a) IN
  /\ work[a].at = "creating"
  /\ row' = [row EXCEPT ![s] =
       [status |-> Subject(a).status,
        product |-> IF row[s] = NoRow THEN Subject(a).product ELSE row[s].product]]
  /\ Goes(a, "mapping")
  /\ UNCHANGED <<event, acknowledged, claimed, tierVars, seeded, histories>>

\* updateSubscription; only an update writes the product.
UpdateSubscription(a) ==
  LET s == Key(a)
      kind == Subject(a).kind IN
  /\ work[a].at = "updating"
  /\ row' = [row EXCEPT ![s] =
       [status |-> IF kind = "revoked" THEN "revoked" ELSE Subject(a).status,
        product |-> IF kind = "updated" THEN Subject(a).product ELSE row[s].product]]
  /\ Goes(a, IF kind = "updated" THEN "comparing"
             ELSE IF kind = "revoked" THEN "gracing" ELSE "done")
  /\ UNCHANGED <<event, acknowledged, claimed, tierVars, seeded, histories>>

\* _mapProductToTier, which falls back to the default tier.
TierOf(p) == IF p \in seeded THEN p ELSE Default

\* The tier of the product the row had before; from here on it stands for it.
MapPrevious(a) ==
  /\ work[a].at = "comparing"
  /\ work' = [work EXCEPT ![a] =
       [at |-> "mapping", event |-> work[a].event,
        old |-> [status |-> work[a].old.status, product |-> TierOf(work[a].old.product)]]]
  /\ UNCHANGED <<event, acknowledged, claimed, row, tierVars, seeded, histories>>

\* What is to be done about the tier once the product is mapped: an activation
\* or reactivation also ends the grace period, a change of plan does not.
NextStep(a) ==
  IF ~ IsActive(Subject(a)) THEN "done"
  ELSE IF ~ IsActive(work[a].old) THEN "syncing"
  ELSE IF work[a].old.product # Subject(a).product THEN "changing" ELSE "done"

\* _mapProductToTierStrict.
MapProduct(a) ==
  /\ work[a].at = "mapping" /\ Subject(a).product \in seeded
  /\ Reads(a, NextStep(a))

\* Reports an unmapped product as processed.
MapFailsSilently(a) ==
  /\ work[a].at = "mapping" /\ Subject(a).product \notin seeded
  /\ Moves(a, "done")
  /\ refused' = refused \cup {work[a].event}
  /\ UNCHANGED <<event, acknowledged, claimed, row, tierVars, seeded,
                 completed, overlapped, raced>>

MapFails(a) ==
  /\ work[a].at = "mapping" /\ Subject(a).product \notin seeded
  /\ Moves(a, "failed")
  /\ refused' = refused \cup {work[a].event}
  /\ UNCHANGED <<event, acknowledged, claimed, row, tierVars, seeded,
                 completed, overlapped, raced>>

\* _syncUserTier.
SyncUserTier(a) ==
  /\ work[a].at \in {"syncing", "changing"}
  /\ tier' = Subject(a).product
  /\ Goes(a, IF work[a].at = "syncing" THEN "clearing" ELSE "done")
  /\ UNCHANGED <<event, acknowledged, claimed, row, graceActive, graceLeft, cooldown,
                 graceFor, seeded, histories>>

\* _clearGracePeriod.
ClearGracePeriod(a) ==
  /\ work[a].at = "clearing"
  /\ graceActive' = FALSE
  /\ Goes(a, "done")
  /\ UNCHANGED <<event, acknowledged, claimed, row, tier, graceLeft, cooldown,
                 graceFor, seeded, histories>>

\* Gives no second grace period during the cooldown, and does nothing else.
CreateGracePeriodOnce(a) ==
  /\ work[a].at = "gracing"
  /\ Goes(a, "done")
  /\ \/ cooldown > 0 /\ UNCHANGED <<graceActive, graceLeft, cooldown, graceFor>>
     \/ /\ cooldown = 0
        /\ graceActive' = TRUE /\ graceLeft' = GracePeriod /\ cooldown' = Cooldown
        /\ graceFor' = work[a].event
  /\ UNCHANGED <<event, acknowledged, claimed, row, tier, seeded, histories>>

\* _createGracePeriod: a grace period, or at once the default tier for who
\* had one lately.
CreateGracePeriod(a) ==
  /\ work[a].at = "gracing"
  /\ Goes(a, "done")
  /\ \/ /\ cooldown > 0
        /\ tier' = Default
        /\ UNCHANGED <<graceActive, graceLeft, cooldown, graceFor>>
     \/ /\ cooldown = 0
        /\ graceActive' = TRUE /\ graceLeft' = GracePeriod /\ cooldown' = Cooldown
        /\ graceFor' = work[a].event
        /\ UNCHANGED tier
  /\ UNCHANGED <<event, acknowledged, claimed, row, seeded, histories>>

\* The action returns; its 200 may not get through.
Return(a) ==
  /\ work[a].at = "done"
  /\ work' = [work EXCEPT ![a] = Idle]
  /\ completed' = completed \cup {work[a].event}
  /\ acknowledged' \in {acknowledged, acknowledged \cup {work[a].event}}
  /\ UNCHANGED <<event, claimed, row, tierVars, seeded, refused, overlapped, raced>>

\* The customer is not found, or a query or transaction fails.
Throws(a) ==
  /\ work[a].at \notin {"idle", "done", "failed", "broken"}
  /\ Reads(a, "broken")

\* The catch block: _releaseWebhookClaim, and 500.
Release(a) ==
  /\ work[a].at \in {"failed", "broken"}
  /\ claimed' = claimed \ {work[a].event}
  /\ work' = [work EXCEPT ![a] = Idle]
  /\ UNCHANGED <<event, acknowledged, row, tierVars, seeded, histories>>

\* The execution stops, or its release fails: the claim stays.
Stops(a) ==
  /\ Busy(a)
  /\ work' = [work EXCEPT ![a] = Idle]
  /\ UNCHANGED <<event, acknowledged, claimed, row, tierVars, seeded, histories>>

-----------------------------------------------------------------------------
(* The crons.                                                              *)

\* Leaves out who has a subscription on record.
ExpireUnsubscribed ==
  /\ graceActive /\ graceLeft = 0 /\ \A s \in Subscription : row[s] = NoRow
  /\ graceActive' = FALSE
  /\ tier' = Default
  /\ raced' = (raced \/ \E a \in Action : Busy(a))
  /\ UNCHANGED <<event, acknowledged, claimed, row, graceLeft, cooldown, graceFor,
                 seeded, work, completed, refused, overlapped>>

\* expireGracePeriods.
ExpireGracePeriods ==
  /\ graceActive /\ graceLeft = 0
  /\ graceActive' = FALSE
  /\ tier' = Default
  /\ raced' = (raced \/ \E a \in Action : Busy(a))
  /\ UNCHANGED <<event, acknowledged, claimed, row, graceLeft, cooldown, graceFor,
                 seeded, work, completed, refused, overlapped>>

\* Days pass, an execution takes minutes.
Tick ==
  /\ \A a \in Action : ~ Busy(a)
  /\ graceLeft' = Elapse(graceLeft)
  /\ cooldown' = Elapse(cooldown)
  /\ UNCHANGED <<event, acknowledged, claimed, row, tier, graceActive, graceFor, seeded,
                 work, histories>>

-----------------------------------------------------------------------------
Processing(a) ==
  \/ LookUp(a)
  \/ CreateSubscription(a)
  \/ UpdateSubscription(a)
  \/ MapPrevious(a)
  \/ MapProduct(a)
  \/ MapFails(a)
  \/ SyncUserTier(a)
  \/ ClearGracePeriod(a)
  \/ CreateGracePeriod(a)
  \/ Return(a)
  \/ Release(a)

Delivering(e) == Skip(e) \/ \E a \in Action : Receive(a, e)
Faulty(a) == Throws(a) \/ Stops(a)

Next ==
  \/ \E p \in Product : Seed(p)
  \/ \E e \in Event : Delivering(e)
  \/ \E a \in Action : Processing(a)
  \/ \E a \in Action : Faulty(a)
  \/ ExpireGracePeriods
  \/ Tick

Spec == Init /\ [][Next]_vars

-----------------------------------------------------------------------------
(* Properties.                                                             *)

\* Every subscription is over, as far as the database knows.
AllRevoked == \A s \in Subscription : row[s].status \in {"none", "revoked"}

(* "a silent return here would leave the revoked user on their paid tier   *)
(* forever" (gracePeriods.ts:50): who has only revoked subscriptions has   *)
(* the default tier, or a grace period that runs out, or a revocation is   *)
(* still to be processed to its end, whatever failed and was delivered     *)
(* again in between, in whatever order.  Executions that overlapped are    *)
(* excused: the one that activates may clear the other one's grace period. *)
NobodyStaysPaid ==
  AllRevoked /\ tier # Default /\ ~ overlapped =>
    \/ graceActive
    \/ \E e \in Sent : event[e].kind = "revoked" /\ e \notin completed

(* "During grace period, user retains their previous tier"                 *)
(* (gracePeriods.ts:37): the default tier comes when the grace period is   *)
(* over, or by another revocation during the cooldown, and never because   *)
(* one revocation is processed again and meets its own grace period.       *)
GraceHonoured ==
  [][tier # Default /\ tier' = Default =>
       \/ graceLeft = 0
       \/ \E a \in Action : /\ work[a].at = "gracing" /\ work'[a].at # "gracing"
                            /\ work[a].event # graceFor]_vars

\* An event of this kind, sent for an active subscription, sets the tier
\* before it is answered with 200.
Granted(a) ==
  work[a].at = "done" /\ IsActive(Subject(a)) => tier = Subject(a).product

(* "a silent drop here means the customer paid and never got their tier"   *)
(* (webhooks.ts:335): when an activation succeeds its tier is in force,    *)
(* whichever attempt it was and whatever other events did in between.      *)
(* Excused are overlapping executions, and a grace period that ends        *)
(* between the tier and its clearing.                                      *)
ActivationGrantsTier ==
  ~ overlapped /\ ~ raced =>
    \A a \in Action : Busy(a) /\ Subject(a).kind = "created" => Granted(a)

(* "seed it, then Polar's redelivery will apply the tier change"           *)
(* (webhooks.ts:740).                                                      *)
RedeliveryAppliesChange ==
  ~ overlapped /\ ~ raced =>
    \A a \in Action :
      work[a].event \in refused /\ Subject(a).kind = "updated" => Granted(a)

\* No event was answered with 200 and lost.
NothingDropped == acknowledged \subseteq completed

(* Every event is answered with 200 in the end: those that come before     *)
(* their subscription, or its product, wait for it.  Excused is who waits  *)
(* for an event that was answered with 200 and never processed to the end: *)
(* a stopped execution's, or one whose redelivery was skipped while the    *)
(* execution that failed was still under way.                              *)
EventsSettle == <>[]NothingDropped => <>(acknowledged = Sent)

(* A customer whose subscriptions are over loses the paid tier, unless     *)
(* executions overlapped or the end was lost with a stopped execution.     *)
PaidTierEnds ==
  <>[](AllRevoked /\ ~ overlapped /\ NothingDropped) => <>[](tier = Default)

(* What is assumed: Polar delivers again what was not answered, products   *)
(* are seeded, the crons run and time passes; executions go on, and from   *)
(* some time on none is stopped and no transaction fails.                  *)
Fairness ==
  /\ WF_vars(Tick)
  /\ WF_vars(ExpireGracePeriods)
  /\ \A p \in Product : WF_vars(Seed(p))
  /\ \A e \in Event : SF_vars(Delivering(e))
  /\ \A a \in Action : WF_vars(Processing(a))
  /\ <>[][\A a \in Action : ~ Faulty(a)]_vars

FairSpec == Spec /\ Fairness
=============================================================================
