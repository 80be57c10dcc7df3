--------------------------- MODULE WebhookDelivery ---------------------------
(***************************************************************************)
(* The delivery lane of one notification webhook: enqueueWebhookDelivery   *)
(* and recoverPendingDeliveries (integrations/queue.ts), the deliver action*)
(* with its claim, retries, embargo and record (integrations/dispatch.ts), *)
(* and the changes of the webhook that invalidate its queue                *)
(* (integrations/webhooks.ts, projects/deletion.ts).  The vault object the *)
(* action reads its URL from is WebhookCredential's: as long as a claim is *)
(* granted it is there (LiveHasCredential), so a read fails only when the  *)
(* vault does.                                                             *)
(*                                                                         *)
(* Time is counted down: every timer says how long it is until a moment the*)
(* code stores as a timestamp, zero when it has passed.                    *)
(***************************************************************************)
EXTENDS WebhookCredential

CONSTANTS
  Events,         \* bound on the notifications, numbered as they are accepted
  MaxAttempts,    \* MAX_DELIVERY_ATTEMPTS
  MaxFailures,    \* MAX_CONSECUTIVE_FAILURES
  Spacing,        \* DELIVERY_SPACING_MS
  Lease,          \* DELIVERY_LEASE_MS
  Hold,           \* WEBHOOK_TIMEOUT_MS, and how long the action takes to get to its request
  Pause,          \* the delays a retry may be given, by the backoff or by the provider
  MaxGeneration   \* bound on reconfigurations

ASSUME DeliveryConstants ==
  /\ Events \in Nat
  /\ MaxAttempts \in Nat \ {0} /\ MaxFailures \in Nat \ {0}
  /\ Spacing \in Nat /\ Lease \in Nat /\ Hold \in Nat
  /\ Hold < Lease
  /\ Pause \subseteq Nat \ {0}
  /\ MaxGeneration \in Nat

Event == 1..Events
Nobody == 0

VARIABLES
  enabled, generation, failCount,  \* the fields of the row
  next,      \* nextDeliveryAt
  embargo,   \* deliveryEmbargoUntil
  lease,     \* deliveryLeaseUntil
  token,     \* deliveryLeaseToken: the event whose action holds the lane
  event,     \* each event's delivery: its place and what its carrier knows
  throttle   \* auxiliary: how long the provider has asked not to be called

hookVars == <<enabled, generation, failCount, next, embargo, lease, token>>
laneVars == <<event, throttle>>
deliveryVars == <<hookVars, laneVars>>
vars == <<credentialVars, deliveryVars>>

Waiting == {"queued", "fallback"}
Acting == {"deferring", "reading", "posting", "answered", "recording"}
Settled == {"done", "overtaken", "crashed"}
Status == {"none", "ok", "throttled", "broken", "rejected"}

\* wait: time until the carrier's notBefore; left: of its own lease.
EventState == [at : {"new"} \cup Waiting \cup Acting \cup Settled,
               generation : Nat, attempt : 0..MaxAttempts - 1,
               status : Status, wait : Nat, left : 0..Lease]

Fresh == [at |-> "new", generation |-> 0, attempt |-> 0, status |-> "none",
          wait |-> 0, left |-> 0]

TypeOK ==
  /\ CredentialTypeOK
  /\ enabled \in BOOLEAN
  /\ generation \in Nat
  /\ failCount \in 0..MaxFailures
  /\ {next, embargo, lease, throttle} \subseteq Nat
  /\ token \in Event \cup {Nobody}
  /\ event \in [Event -> EventState]

Init ==
  /\ CredentialInit
  /\ enabled = FALSE
  /\ generation = 0
  /\ failCount = 0
  /\ next = 0 /\ embargo = 0 /\ lease = 0
  /\ token = Nobody
  /\ event = [e \in Event |-> Fresh]
  /\ throttle = 0

Later(a, b) == IF a > b THEN a ELSE b
Elapse(t) == IF t = 0 THEN 0 ELSE t - 1

\* A carrier may go on: the webhook is as it was when the event was accepted.
Current(e) == row = "live" /\ enabled /\ event[e].generation = generation

At(e, place) == event[e].at = place
IsNext(e) == At(e, "new") /\ \A f \in Event : f < e => ~ At(f, "new")
Becomes(e, d) == event' = [event EXCEPT ![e] = d]

\* What becomes of a delivery d.
Queued(place, gen, attempt, slot) ==
  [at |-> place, generation |-> gen, attempt |-> attempt, status |-> "none",
   wait |-> slot, left |-> 0]
Moved(d, place) == [d EXCEPT !.at = place]
Deferred(d, wait) == [d EXCEPT !.at = "deferring", !.wait = wait]
Claimed(d) == [d EXCEPT !.at = "posting", !.status = "none", !.left = Lease]
Answered(d, status, wait) ==
  [at |-> "answered", generation |-> d.generation, attempt |-> d.attempt,
   status |-> status, wait |-> wait, left |-> d.left]
Lost(d, place) ==
  [at |-> place, generation |-> d.generation, attempt |-> 0, status |-> d.status,
   wait |-> 0, left |-> d.left]
Aged(d) == [d EXCEPT !.wait = Elapse(d.wait), !.left = Elapse(d.left)]
Over == [Fresh EXCEPT !.at = "done"]

Goes(e, place) == Becomes(e, Moved(event[e], place))

\* Sent, given up, or refused because the webhook is no longer what it was.
Ends(e) == Becomes(e, Over)

\* Lost with an action that stopped or came too late.
Fails(e, place) == Becomes(e, Lost(event[e], place))

-----------------------------------------------------------------------------
(* enqueueWebhookDelivery, inside the caller's transaction: a slot after   *)
(* every other one, after the embargo pause and notBefore; a fallback row  *)
(* if the scheduler refuses.                                               *)
Enqueue(e, attempt, notBefore, pause) ==
  LET slot == Later(Later(next, pause), notBefore)
  IN  /\ next' = slot + Spacing
      /\ \E place \in Waiting : Becomes(e, Queued(place, generation, attempt, slot))

\* A fanout, or a test message, finds the webhook enabled.
Accept(e) ==
  /\ IsNext(e)
  /\ row = "live" /\ enabled
  /\ Enqueue(e, 0, 0, embargo)
  /\ UNCHANGED <<credentialVars, enabled, generation, failCount, embargo, lease,
                 token, throttle>>

\* _store, which also sends the first test message.
StoreAndTest(e) ==
  /\ Store
  /\ IsNext(e)
  /\ enabled' = TRUE
  /\ Enqueue(e, 0, 0, embargo)
  /\ UNCHANGED <<generation, failCount, embargo, lease, token, throttle>>

\* Rows of a webhook that has changed are passed over.
RecoverCurrent(e) ==
  /\ At(e, "fallback") /\ event[e].wait = 0
  /\ Current(e) /\ Goes(e, "queued")
  /\ UNCHANGED <<credentialVars, hookVars, throttle>>

\* recoverPendingDeliveries, every minute; a refusal of the scheduler leaves the row.
Recover(e) ==
  /\ At(e, "fallback") /\ event[e].wait = 0
  /\ IF Current(e) THEN Goes(e, "queued") ELSE Ends(e)
  /\ UNCHANGED <<credentialVars, hookVars, throttle>>

-----------------------------------------------------------------------------
(* deliver, one attempt.                                                   *)

\* _getDeliveryTarget; the plan may have lost the feature.  What follows is
\* the slow read of the URL, whose failure is noticed after the claim.
Look(e) ==
  /\ At(e, "queued") /\ event[e].wait = 0
  /\ \/ Ends(e)
     \/ /\ Current(e)
        /\ IF embargo > 0
             THEN Becomes(e, Deferred(event[e], embargo))
             ELSE Goes(e, "reading")
  /\ UNCHANGED <<credentialVars, hookVars, throttle>>

\* A lane that is held only by an embargo.
FreeOfEmbargo == embargo = 0

\* The lane is free: no embargo, and nobody's lease.
Free == embargo = 0 /\ lease = 0

\* _claimDelivery.
Claim(e) ==
  /\ At(e, "reading")
  /\ \/ /\ Ends(e)
        /\ UNCHANGED <<lease, token>>
     \/ /\ Current(e) /\ ~ Free
        /\ Becomes(e, Deferred(event[e], Later(embargo, lease)))
        /\ UNCHANGED <<lease, token>>
     \/ /\ Current(e) /\ Free
        /\ token' = e
        /\ lease' = Lease
        /\ Becomes(e, Claimed(event[e]))
  /\ UNCHANGED <<credentialVars, enabled, generation, failCount, next, embargo, throttle>>

\* _scheduleRetry for an attempt that had to wait: neither lease nor attempt change.
Defer(e) ==
  /\ At(e, "deferring")
  /\ IF Current(e)
       THEN Enqueue(e, event[e].attempt, event[e].wait, embargo)
       ELSE Ends(e) /\ UNCHANGED next
  /\ UNCHANGED <<credentialVars, enabled, generation, failCount, embargo, lease,
                 token, throttle>>

\* The provider answers, or the request fails, times out or, without a URL,
\* is never sent: "broken".  notBefore is at least the pause the provider asks for.
Answer(e) ==
  /\ At(e, "posting")
  /\ \E status \in Status \ {"none"}, wait \in Pause \cup {0} :
       /\ wait = 0 <=> status \in {"ok", "rejected"}
       /\ Becomes(e, Answered(event[e], status, wait))
       /\ throttle' = IF status = "throttled" /\ event[e].generation = generation
                        THEN Later(throttle, wait) ELSE throttle
  /\ UNCHANGED <<credentialVars, hookVars>>

\* deliveryDecision.
Retries(e) ==
  event[e].status \in {"throttled", "broken"} /\ event[e].attempt + 1 < MaxAttempts

Throttled(e) == event[e].status = "throttled"

\* A pause that stays with the attempt it was given to.
NotExtended(e) == embargo

Extended(e) == IF Throttled(e) THEN Later(embargo, event[e].wait) ELSE embargo

\* _scheduleRetry after an answer: embargo, release of the lane and the next
\* attempt in one transaction, and nothing at all for an action whose lane
\* was taken over.
Retry(e) ==
  /\ At(e, "answered") /\ Retries(e)
  /\ IF Current(e) /\ token = e
       THEN /\ embargo' = Extended(e)
            /\ token' = Nobody
            /\ lease' = 0
            /\ Enqueue(e, event[e].attempt + 1, event[e].wait, Extended(e))
       ELSE /\ IF Current(e) THEN Fails(e, "overtaken") ELSE Ends(e)
            /\ UNCHANGED <<embargo, token, lease, next>>
  /\ UNCHANGED <<credentialVars, enabled, generation, failCount, throttle>>

\* _setEmbargo, for the last attempt, before its answer is recorded.
SetEmbargo(e) ==
  /\ At(e, "answered") /\ ~ Retries(e) /\ Throttled(e)
  /\ Goes(e, "recording")
  /\ IF Current(e) /\ event[e].wait > embargo
       THEN embargo' = event[e].wait /\ next' = Later(next, event[e].wait)
       ELSE UNCHANGED <<embargo, next>>
  /\ UNCHANGED <<credentialVars, enabled, generation, failCount, lease, token, throttle>>

Failures(e) ==
  IF Throttled(e) THEN failCount ELSE IF event[e].status = "ok" THEN 0 ELSE failCount + 1

\* Records, and releases the lane, without asking whose it is.
RecordForAnyone(e) ==
  /\ \/ At(e, "recording")
     \/ At(e, "answered") /\ ~ Retries(e) /\ ~ Throttled(e)
  /\ Ends(e)
  /\ IF row = "live" /\ event[e].generation = generation
       THEN /\ token' = Nobody
            /\ lease' = 0
            /\ failCount' = Failures(e)
            /\ enabled' = (enabled /\ failCount' < MaxFailures)
       ELSE UNCHANGED <<token, lease, failCount, enabled>>
  /\ UNCHANGED <<credentialVars, generation, next, embargo, throttle>>

\* _recordDelivery, which also records for a webhook that was switched off.
Record(e) ==
  /\ \/ At(e, "recording")
     \/ At(e, "answered") /\ ~ Retries(e) /\ ~ Throttled(e)
  /\ Ends(e)
  /\ IF row = "live" /\ event[e].generation = generation /\ token = e
       THEN /\ token' = Nobody
            /\ lease' = 0
            /\ failCount' = Failures(e)
            /\ enabled' = (enabled /\ failCount' < MaxFailures)
       ELSE UNCHANGED <<token, lease, failCount, enabled>>
  /\ UNCHANGED <<credentialVars, generation, next, embargo, throttle>>

\* The action stops and is not started again; its lane is held until the lease ends.
DeliverCrashes(e) ==
  /\ event[e].at \in Acting
  /\ Fails(e, "crashed")
  /\ UNCHANGED <<credentialVars, hookVars, throttle>>

-----------------------------------------------------------------------------
(* What changes the webhook.                                               *)

\* A new generation starts with an empty queue and a free lane.
Invalidate ==
  /\ generation < MaxGeneration
  /\ generation' = generation + 1
  /\ next' = 0 /\ embargo' = 0 /\ lease' = 0
  /\ token' = Nobody
  /\ throttle' = 0

\* update: of the subscription or the scope, and of the switch.
Update ==
  /\ row = "live"
  /\ Invalidate
  /\ enabled' \in BOOLEAN
  /\ failCount' = IF enabled' /\ ~ enabled THEN 0 ELSE failCount
  /\ UNCHANGED <<credentialVars, event>>

\* remove.
RemoveHook ==
  /\ Remove
  /\ Invalidate
  /\ enabled' = FALSE
  /\ UNCHANGED <<failCount, event>>

\* The organization goes; the lane's lease is left to run out.
DeleteOrganizationHook ==
  /\ DeleteOrganization
  /\ generation < MaxGeneration
  /\ generation' = generation + 1
  /\ next' = 0 /\ embargo' = 0
  /\ enabled' = FALSE
  /\ throttle' = 0
  /\ UNCHANGED <<lease, token, failCount, event>>

\* The deletion of the last project of its scope switches a webhook off and
\* invalidates nothing.
LoseLastProject ==
  /\ row = "live" /\ enabled
  /\ enabled' = FALSE
  /\ UNCHANGED <<credentialVars, generation, failCount, next, embargo, lease, token, laneVars>>

\* Time passes, but no request outlives its timeout.
Tick ==
  /\ \A e \in Event : At(e, "posting") => event[e].left > Lease - Hold
  /\ next' = Elapse(next)
  /\ embargo' = Elapse(embargo)
  /\ lease' = Elapse(lease)
  /\ throttle' = Elapse(throttle)
  /\ event' = [e \in Event |-> Aged(event[e])]
  /\ UNCHANGED <<credentialVars, enabled, generation, failCount, token>>

-----------------------------------------------------------------------------
Credential ==
  /\ \/ Creating
     \/ PointerAges
     \/ ClaimExpires
     \/ \E r \in Run : Purging(r)
  /\ UNCHANGED deliveryVars

Delivering(e) ==
  \/ Recover(e)
  \/ Look(e)
  \/ Claim(e)
  \/ Defer(e)
  \/ Answer(e)
  \/ Retry(e)
  \/ SetEmbargo(e)
  \/ Record(e)

Lane(e) ==
  \/ Accept(e)
  \/ StoreAndTest(e)
  \/ Delivering(e)
  \/ DeliverCrashes(e)

Changing ==
  \/ Update
  \/ RemoveHook
  \/ DeleteOrganizationHook
  \/ LoseLastProject

Next ==
  \/ \E e \in Event : Lane(e)
  \/ Changing
  \/ Credential
  \/ Tick

Spec == Init /\ [][Next]_vars

-----------------------------------------------------------------------------
(* Properties.                                                             *)

(* One action at a time is in the outbound section of a destination        *)
(* (dispatch.ts:86), for as long as its configuration stays as it is: the  *)
(* lease outlives the request, whoever crashes, waits or is late.          *)
OneSender ==
  \A e, f \in Event :
    At(e, "posting") /\ At(f, "posting") /\ event[e].generation = event[f].generation
      => e = f

(* A retry is dropped because another action took the lane over only when  *)
(* its own lease had run out: nobody releases or takes the lane of an      *)
(* action that answers in time, so its event is not lost.                  *)
NotOvertakenInTime == \A e \in Event : At(e, "overtaken") => event[e].left = 0

\* An action was asked to pause, and died or has not said so within its lease.
Unreported(e) ==
  /\ Throttled(e) /\ event[e].left = 0 /\ event[e].generation = generation
  /\ event[e].at \in {"answered", "recording", "overtaken", "crashed"}

(* Once the provider has asked for a pause (429), no other event of the    *)
(* same configuration is sent before it is over, unless the action that was*)
(* told outlived its lease before it could pass this on.                   *)
RespectsThrottle ==
  [][\A e \in Event : Claim(e) /\ At(e, "posting")' =>
       throttle = 0 \/ \E f \in Event : Unreported(f)]_vars

(* Every accepted event is settled in the end: sent, given up, refused     *)
(* because the webhook changed, or lost with an action that stopped.  No   *)
(* chain of waiting, of refused schedules or of leases keeps it for ever.  *)
Unsettled == \E e \in Event : event[e].at \in Waiting \cup Acting
EventsSettle == Unsettled ~> ~ Unsettled

(* What is assumed of the platform: actions and scheduled functions go on, *)
(* the crons tick, time passes, and a delete the cron tries again and again*)
(* succeeds some time, with nothing stopping it each time.                 *)
Fairness ==
  /\ WF_vars(Tick)
  /\ \A e \in Event : WF_vars(Delivering(e))
  /\ WF_vars(PointerAges /\ UNCHANGED deliveryVars)
  /\ WF_vars(ClaimExpires /\ UNCHANGED deliveryVars)
  /\ WF_vars(Creating /\ creator \notin {"idle"} /\ UNCHANGED deliveryVars)
  /\ SF_vars(\E r \in Run : (SweepPointer(r) \/ SweepRow(r)) /\ UNCHANGED deliveryVars)
  /\ \A r \in Run : /\ WF_vars(Purging(r) /\ run[r].at # "idle" /\ UNCHANGED deliveryVars)
                     /\ SF_vars(Destroy(r) /\ UNCHANGED deliveryVars)
                     /\ SF_vars(Report(r) /\ UNCHANGED deliveryVars)

FairSpec == Spec /\ Fairness
=============================================================================
