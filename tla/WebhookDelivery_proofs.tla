----------------------- MODULE WebhookDelivery_proofs -----------------------
(***************************************************************************)
(* Proofs about WebhookDelivery and the WebhookCredential in it, for any   *)
(* number of events and purging runs, any lease longer than a request, and *)
(* any pauses.                                                             *)
(***************************************************************************)
EXTENDS WebhookDelivery, TLAPS

-----------------------------------------------------------------------------
(* The credential.                                                         *)

CredentialNext ==
  \/ Creating
  \/ Store
  \/ Remove
  \/ DeleteOrganization
  \/ PointerAges
  \/ ClaimExpires
  \/ \E r \in Run : Purging(r)

CredentialSpec == CredentialInit /\ [][CredentialNext]_credentialVars

\* What the place of the create action says about the rest, and that a report
\* is only ever of an object that is gone.
CreatorSound ==
  /\ creator \in {"idle", "minting"} => object = "none"
  /\ creator \in {"tracking", "discarding"} => object = "kept"
  /\ creator \in {"idle", "minting", "tracking", "discarding"} =>
       pointer = "none" /\ claim = NoRun /\ \A r \in Run : run[r].at = "idle"
  /\ creator # "done" => row = "none"
  /\ creator = "storing" /\ Unclaimed => object = "kept" /\ \A r \in Run : ~ Targets(r)

RunsSound ==
  /\ row = "live" => pointer # "tracked"
  /\ \A r \in Run : run[r].at = "reporting" => object # "kept"

CredentialInv ==
  /\ CredentialTypeOK
  /\ CreatorSound
  /\ RunsSound
  /\ LiveHasCredential
  /\ NothingForgotten

LEMMA RunUpdated ==
  ASSUME CredentialTypeOK, NEW r \in Run, NEW s \in RunState, run' = [run EXCEPT ![r] = s]
  PROVE  run' \in [Run -> RunState]
BY DEF CredentialTypeOK

LEMMA CredentialStep ==
  ASSUME CredentialInv, [CredentialNext]_credentialVars
  PROVE  CredentialInv'
<1> USE CredentialConstants DEF CredentialInv
<1>a. ASSUME Creating \/ Store PROVE CredentialInv'
  <2>0. run' \in [Run -> RunState]
    <3>1. CASE Undo
      <4>1. CASE \E r \in Run : Schedule(r, "claiming", "pointer")
        <5>1. PICK r \in Run : Schedule(r, "claiming", "pointer")
          BY <4>1
        <5>2. [at |-> "claiming", target |-> "pointer", tries |-> 0] \in RunState
          BY DEF RunState
        <5> QED BY <5>1, <5>2, RunUpdated DEF Schedule
      <4> QED BY <3>1, <4>1 DEF Undo, CredentialTypeOK
    <3> QED
      BY <1>a, <3>1 DEF Creating, Reserve, Mint, MintThrows, Track, TrackThrows, Discard,
           Store, StoreThrows, CreatorCrashes, CredentialTypeOK
  <2>1. CredentialTypeOK'
    BY <1>a, <2>0 DEF CredentialTypeOK, CreatorAt, Creating, Reserve, Mint, MintThrows,
         Track, TrackThrows, Discard, Store, StoreThrows, Undo, CreatorCrashes, DropPointer
  <2>2. CreatorSound'
    BY <1>a DEF CredentialTypeOK, CreatorAt, RunState, Creating, Reserve, Mint, MintThrows,
         Track, TrackThrows, Discard, Store, StoreThrows, Undo, CreatorCrashes, Schedule,
         DropPointer, IdleRun, CreatorSound, Unclaimed, Targets
  <2>3. RunsSound'
    BY <1>a DEF CredentialTypeOK, CreatorAt, RunState, Creating, Reserve, Mint, MintThrows,
         Track, TrackThrows, Discard, Store, StoreThrows, Undo, CreatorCrashes, Schedule,
         DropPointer, CreatorSound, RunsSound
  <2>4. LiveHasCredential'
    BY <1>a DEF CredentialTypeOK, CreatorAt, RunState, Creating, Reserve, Mint, MintThrows,
         Track, TrackThrows, Discard, Store, StoreThrows, Undo, CreatorCrashes, Schedule,
         DropPointer, CreatorSound, LiveHasCredential, Targets, Unclaimed
  <2>5. NothingForgotten'
    BY <1>a DEF CredentialTypeOK, CreatorAt, Creating, Reserve, Mint, MintThrows,
         Track, TrackThrows, Discard, Store, StoreThrows, Undo, CreatorCrashes,
         DropPointer, CreatorSound, NothingForgotten, Unclaimed
  <2> QED BY <2>1, <2>2, <2>3, <2>4, <2>5
<1>b. ASSUME Remove \/ DeleteOrganization PROVE CredentialInv'
  <2>1. PICK r \in Run : Schedule(r, "deleting", "row")
    BY <1>b DEF Remove, DeleteOrganization
  <2>2. /\ row \in {"live", "deleted"} /\ row' = "deleted"
        /\ UNCHANGED <<object, pointer, aged, claim, fresh, creator, excused>>
    BY <1>b DEF Remove, DeleteOrganization
  <2>3. CredentialTypeOK'
    BY <2>1, <2>2 DEF CredentialTypeOK, Schedule, RunState
  <2>4. \A s \in Run : run'[s].at = "reporting" => run[s].at = "reporting"
    BY <2>1 DEF CredentialTypeOK, Schedule, RunState
  <2> QED
    BY <2>2, <2>3, <2>4 DEF CreatorSound, RunsSound, LiveHasCredential, NothingForgotten,
         Targets, Unclaimed
<1>c. ASSUME PointerAges \/ ClaimExpires PROVE CredentialInv'
  BY <1>c DEF PointerAges, ClaimExpires, CredentialTypeOK, CreatorSound, RunsSound,
       LiveHasCredential, NothingForgotten, Targets, Unclaimed
<1>d. ASSUME NEW r \in Run, Purging(r) PROVE CredentialInv'
  <2>1. CredentialTypeOK'
    <3>1. IdleRun \in RunState /\ run[r] \in RunState
      BY DEF IdleRun, RunState, CredentialTypeOK
    <3>2. /\ \A at \in {"claiming", "deleting", "reporting"} :
               [run[r] EXCEPT !.at = at] \in RunState
          /\ \A target \in {"row", "pointer"} :
               [at |-> "deleting", target |-> target, tries |-> MaxTries] \in RunState
          /\ run[r].tries + 1 < MaxTries =>
               [run[r] EXCEPT !.tries = run[r].tries + 1] \in RunState
      BY <3>1 DEF RunState
    <3>3. PICK s \in RunState : run' = [run EXCEPT ![r] = s]
      <4>1. CASE ClaimOrphan(r) \/ Destroy(r)
        BY <4>1, <3>1, <3>2 DEF ClaimOrphan, Destroy, Move, CredentialTypeOK
      <4>2. CASE SweepPointer(r) \/ SweepRow(r)
        BY <4>2, <3>2 DEF SweepPointer, SweepRow
      <4>3. CASE DestroyFails(r) \/ Report(r) \/ RunCrashes(r)
        BY <4>3, <3>1, <3>2 DEF DestroyFails, Report, RunCrashes
      <4> QED BY <1>d, <4>1, <4>2, <4>3 DEF Purging
    <3>4. run' \in [Run -> RunState]
      BY <3>3, RunUpdated
    <3> QED
      BY <1>d, <3>4 DEF CredentialTypeOK, Purging, ClaimOrphan, SweepPointer, SweepRow,
           Destroy, DestroyFails, Report, RunCrashes, TakeClaim, DropPointer
  <2>2. CreatorSound'
    BY <1>d DEF Purging, ClaimOrphan, SweepPointer, SweepRow, Destroy, DestroyFails, Report,
         RunCrashes, Claimable, TakeClaim, Move, DropPointer, CreatorSound, Unclaimed, Targets,
         CredentialTypeOK, IdleRun, RunState
  <2>3. RunsSound'
    BY <1>d DEF Purging, ClaimOrphan, SweepPointer, SweepRow, Destroy, DestroyFails, Report,
         RunCrashes, Claimable, TakeClaim, Move, DropPointer, RunsSound, CredentialTypeOK,
         IdleRun, RunState
  <2>4. LiveHasCredential'
    BY <1>d DEF Purging, ClaimOrphan, SweepPointer, SweepRow, Destroy, DestroyFails, Report,
         RunCrashes, Claimable, TakeClaim, Move, DropPointer, RunsSound, LiveHasCredential,
         Targets, CredentialTypeOK, IdleRun, RunState
  <2>5. NothingForgotten'
    BY <1>d DEF Purging, ClaimOrphan, SweepPointer, SweepRow, Destroy, DestroyFails, Report,
         RunCrashes, Claimable, TakeClaim, Move, DropPointer, RunsSound, NothingForgotten,
         CredentialTypeOK
  <2> QED BY <2>1, <2>2, <2>3, <2>4, <2>5
<1>e. ASSUME UNCHANGED credentialVars PROVE CredentialInv'
  BY <1>e DEF credentialVars, CredentialTypeOK, CreatorSound, RunsSound, LiveHasCredential,
       NothingForgotten, Targets, Unclaimed
<1> QED BY <1>a, <1>b, <1>c, <1>d, <1>e DEF CredentialNext

LEMMA NextIsCredentialNext ==
  ASSUME [Next]_vars PROVE [CredentialNext]_credentialVars
<1>1. ASSUME NEW e \in Event, Lane(e) PROVE [CredentialNext]_credentialVars
  <2>1. CASE StoreAndTest(e)
    BY <2>1 DEF StoreAndTest, CredentialNext
  <2>2. CASE Accept(e) \/ Recover(e) \/ Look(e) \/ Claim(e) \/ Defer(e)
    BY <2>2 DEF Accept, Recover, Look, Claim, Defer
  <2>3. CASE Answer(e) \/ Retry(e) \/ SetEmbargo(e) \/ Record(e) \/ DeliverCrashes(e)
    BY <2>3 DEF Answer, Retry, SetEmbargo, Record, DeliverCrashes
  <2> QED BY <1>1, <2>1, <2>2, <2>3 DEF Lane, Delivering
<1>2. CASE Changing
  BY <1>2 DEF Changing, Update, RemoveHook, DeleteOrganizationHook, LoseLastProject, CredentialNext
<1>3. CASE Credential \/ Tick \/ UNCHANGED vars
  BY <1>3 DEF Credential, Tick, vars, CredentialNext
<1> QED BY <1>1, <1>2, <1>3 DEF Next

LEMMA CredentialStarts ==
  ASSUME CredentialInit PROVE CredentialInv
<1>1. IdleRun \in RunState /\ IdleRun.at = "idle"
  BY CredentialConstants DEF IdleRun, RunState
<1>2. run \in [Run -> RunState] /\ \A r \in Run : run[r].at = "idle"
  BY <1>1 DEF CredentialInit
<1>3. CredentialTypeOK
  BY <1>2 DEF CredentialInit, CredentialTypeOK, CreatorAt
<1> QED
  BY <1>2, <1>3 DEF CredentialInit, CredentialInv, CreatorSound, RunsSound, LiveHasCredential,
       NothingForgotten, Targets

(* The delivery lane, with its claims, records and reconfigurations, does  *)
(* to the credential what create, remove and the purge do, and nothing     *)
(* else: dispatch.ts reads the object and never writes it.                 *)
THEOREM LaneSparesCredential == Spec => CredentialSpec
BY NextIsCredentialNext, PTL DEF Spec, Init, CredentialSpec

LEMMA CredentialHolds == Spec => []CredentialInv
<1>1. Init => CredentialInv
  BY CredentialStarts DEF Init
<1>2. CredentialInv /\ [Next]_vars => CredentialInv'
  BY CredentialStep, NextIsCredentialNext
<1> QED BY <1>1, <1>2, PTL DEF Spec

(* A live webhook has its URL in the vault and no purge on its way to it, *)
(* whatever creates, purges and crashes come together (webhooks.ts:414).  *)
THEOREM LiveCredentialKept == Spec => []LiveHasCredential
BY CredentialHolds, PTL DEF CredentialInv

(* An object that exists is named by a row, a recovery pointer or the      *)
(* running create, so the hourly run of dispatch.ts can find it.           *)
THEOREM ObjectsNamed == Spec => []NothingForgotten
BY CredentialHolds, PTL DEF CredentialInv

-----------------------------------------------------------------------------
(* What becomes of a delivery, field by field.                             *)

LEMMA FreshFields ==
  /\ Fresh \in EventState /\ Fresh.at = "new" /\ Fresh.generation = 0
  /\ Fresh.status = "none" /\ Fresh.left = 0
BY DeliveryConstants DEF Fresh, EventState, Status

LEMMA QueuedFields ==
  ASSUME NEW place \in Waiting, NEW gen \in Nat, NEW attempt \in 0..MaxAttempts - 1,
         NEW slot \in Nat
  PROVE  /\ Queued(place, gen, attempt, slot) \in EventState
         /\ Queued(place, gen, attempt, slot).at = place
         /\ Queued(place, gen, attempt, slot).generation = gen
         /\ Queued(place, gen, attempt, slot).left = 0
BY DeliveryConstants DEF Queued, Fresh, EventState, Waiting, Status

LEMMA MovedFields ==
  ASSUME NEW d \in EventState, NEW place \in Waiting \cup Acting \cup Settled
  PROVE  /\ Moved(d, place) \in EventState
         /\ Moved(d, place).at = place /\ Moved(d, place).generation = d.generation
         /\ Moved(d, place).status = d.status /\ Moved(d, place).left = d.left
BY DEF Moved, EventState

LEMMA DeferredFields ==
  ASSUME NEW d \in EventState, NEW wait \in Nat
  PROVE  /\ Deferred(d, wait) \in EventState
         /\ Deferred(d, wait).at = "deferring" /\ Deferred(d, wait).generation = d.generation
         /\ Deferred(d, wait).left = d.left
BY DEF Deferred, EventState, Acting

LEMMA ClaimedFields ==
  ASSUME NEW d \in EventState
  PROVE  /\ Claimed(d) \in EventState
         /\ Claimed(d).at = "posting" /\ Claimed(d).generation = d.generation
         /\ Claimed(d).left = Lease
<1>1. Lease \in 0..Lease
  BY DeliveryConstants
<1> QED BY <1>1 DEF Claimed, EventState, Acting, Status

LEMMA AnsweredFields ==
  ASSUME NEW d \in EventState, NEW status \in Status, NEW wait \in Nat
  PROVE  /\ Answered(d, status, wait) \in EventState
         /\ Answered(d, status, wait).at = "answered"
         /\ Answered(d, status, wait).generation = d.generation
         /\ Answered(d, status, wait).status = status
         /\ Answered(d, status, wait).wait = wait
         /\ Answered(d, status, wait).left = d.left
<1>1. d.generation \in Nat /\ d.attempt \in 0..MaxAttempts - 1 /\ d.left \in 0..Lease
  BY DEF EventState
<1> QED BY <1>1 DEF Answered, EventState, Acting

LEMMA LostFields ==
  ASSUME NEW d \in EventState, NEW place \in {"overtaken", "crashed"}
  PROVE  /\ Lost(d, place) \in EventState
         /\ Lost(d, place).at = place /\ Lost(d, place).generation = d.generation
         /\ Lost(d, place).status = d.status /\ Lost(d, place).left = d.left
<1>1. 0 \in 0..MaxAttempts - 1
  BY DeliveryConstants
<1> QED BY <1>1 DEF Lost, EventState, Settled

LEMMA AgedFields ==
  ASSUME NEW d \in EventState
  PROVE  /\ Aged(d) \in EventState
         /\ Aged(d).at = d.at /\ Aged(d).generation = d.generation
         /\ Aged(d).status = d.status
         /\ Aged(d).wait = Elapse(d.wait) /\ Aged(d).left = Elapse(d.left)
<1>1. Elapse(d.wait) \in Nat /\ Elapse(d.left) \in 0..Lease
  BY DeliveryConstants DEF EventState, Elapse
<1> QED BY <1>1 DEF Aged, EventState

LEMMA OverFields ==
  Over \in EventState /\ Over.at = "done" /\ Over.generation = 0 /\ Over.left = 0
BY DeliveryConstants DEF Over, Fresh, EventState, Settled, Status

-----------------------------------------------------------------------------
(* The lane.                                                               *)

LaneTypeOK ==
  /\ enabled \in BOOLEAN
  /\ generation \in Nat
  /\ failCount \in 0..MaxFailures
  /\ next \in Nat /\ embargo \in Nat /\ lease \in Nat /\ throttle \in Nat
  /\ token \in Event \cup {Nobody}
  /\ event \in [Event -> EventState]

\* Where a delivery may still hold the lane it has claimed.
Carrying == {"posting", "answered", "recording", "crashed"}

Sound(e) ==
  /\ event[e].generation <= generation
  /\ event[e].at \notin Carrying => event[e].left = 0
  /\ event[e].at = "posting" => event[e].left >= Lease - Hold

Holding(e) ==
  event[e].at \in Carrying /\ event[e].generation = generation /\ event[e].left > 0

\* A claim in its time holds the lane, and the lane's lease is its own.
LaneHeld == \A e \in Event : Holding(e) => token = e /\ lease = event[e].left

\* Before the row exists nothing has happened.
NothingYet ==
  row = "none" => throttle = 0 /\ failCount = 0 /\ \A e \in Event : event[e].at = "new"

\* A lane in use can still fail once more.
FailuresBounded == enabled \/ token # Nobody => failCount < MaxFailures

\* A pause the row does not show is known to a delivery that must report it, or is lost.
Knows(f) ==
  /\ event[f].status = "throttled" /\ event[f].generation = generation
  /\ \/ event[f].at \in {"crashed", "overtaken"}
     \/ event[f].at = "answered" /\ event[f].wait >= throttle

PauseKnown ==
  throttle <= embargo \/ ~ enabled \/ row # "live" \/ \E f \in Event : Knows(f)

LaneInv ==
  /\ LaneTypeOK
  /\ \A e \in Event : Sound(e)
  /\ LaneHeld
  /\ OneSender
  /\ NothingYet
  /\ FailuresBounded
  /\ PauseKnown

LEMMA OneChanged ==
  ASSUME LaneTypeOK, NEW e \in Event, NEW d \in EventState, Becomes(e, d)
  PROVE  /\ event' \in [Event -> EventState]
         /\ event'[e] = d
         /\ \A f \in Event : f # e => event'[f] = event[f]
BY DEF LaneTypeOK, Becomes

\* A delivery moves and leaves the lane to whom it is.
LEMMA QuietStep ==
  ASSUME LaneInv, NEW e \in Event, NEW d \in EventState, Becomes(e, d),
         UNCHANGED <<generation, token, lease>>,
         d.generation <= generation,
         d.at \notin Carrying => d.left = 0,
         d.at = "posting" => event[e].at = "posting" /\ d.generation = event[e].generation
                              /\ d.left = event[e].left,
         d.at \in Carrying /\ d.left > 0 =>
           event[e].at \in Carrying /\ d.generation = event[e].generation
             /\ d.left = event[e].left
  PROVE  (\A f \in Event : Sound(f))' /\ LaneHeld' /\ OneSender'
<1>1. /\ event' \in [Event -> EventState] /\ event'[e] = d
      /\ \A f \in Event : f # e => event'[f] = event[f]
  BY OneChanged DEF LaneInv
<1>2. \A f \in Event : Sound(f)'
  BY <1>1 DEF LaneInv, Sound
<1>3. LaneHeld'
  BY <1>1 DEF LaneInv, LaneHeld, Holding
<1>4. OneSender'
  BY <1>1 DEF LaneInv, OneSender, At
<1> QED BY <1>2, <1>3, <1>4

\* The delivery that has the lane gives it back.
LEMMA ReleaseStep ==
  ASSUME LaneInv, NEW e \in Event, NEW d \in EventState, Becomes(e, d),
         token = e, token' = Nobody, UNCHANGED generation,
         d.generation <= generation, d.at \notin Carrying, d.left = 0
  PROVE  (\A f \in Event : Sound(f))' /\ LaneHeld' /\ OneSender'
<1>1. /\ event' \in [Event -> EventState] /\ event'[e] = d
      /\ \A f \in Event : f # e => event'[f] = event[f]
  BY OneChanged DEF LaneInv
<1>2. \A f \in Event : Sound(f)'
  BY <1>1 DEF LaneInv, Sound, Carrying
<1>3. LaneHeld'
  BY <1>1 DEF LaneInv, LaneHeld, Holding
<1>4. OneSender'
  BY <1>1 DEF LaneInv, OneSender, At, Carrying
<1> QED BY <1>2, <1>3, <1>4

\* What the row and the provider know stays, and so does who knows more.
LEMMA PauseStays ==
  ASSUME LaneInv, NEW e \in Event, NEW d \in EventState, Becomes(e, d),
         UNCHANGED <<row, generation, embargo, throttle>>,
         enabled' => enabled,
         Knows(e) => d.status = "throttled" /\ d.generation = generation
                      /\ (d.at \in {"crashed", "overtaken"}
                           \/ (d.at = "answered" /\ d.wait >= throttle))
  PROVE  PauseKnown'
<1>1. /\ event' \in [Event -> EventState] /\ event'[e] = d
      /\ \A f \in Event : f # e => event'[f] = event[f]
  BY OneChanged DEF LaneInv
<1>2. ASSUME NEW f \in Event, Knows(f) PROVE Knows(f)'
  BY <1>1, <1>2 DEF Knows
<1> QED BY <1>2 DEF LaneInv, PauseKnown

LEMMA Numbers ==
  ASSUME NEW a \in Nat, NEW b \in Nat
  PROVE  Later(a, b) \in Nat /\ Later(a, b) >= a /\ Later(a, b) >= b /\ Elapse(a) \in Nat
BY DEF Later, Elapse

LEMMA EventNotNobody == \A e \in Event : e # Nobody
BY DEF Event, Nobody

LEMMA EnqueueEffect ==
  ASSUME LaneTypeOK, NEW e \in Event, NEW attempt \in 0..MaxAttempts - 1,
         NEW notBefore \in Nat, NEW pause \in Nat, Enqueue(e, attempt, notBefore, pause)
  PROVE  /\ next' \in Nat
         /\ \E d \in EventState : /\ Becomes(e, d) /\ d.at \in Waiting
                                  /\ d.generation = generation /\ d.left = 0
<1>1. next' \in Nat
  BY Numbers, DeliveryConstants DEF Enqueue, LaneTypeOK, Later
<1>2. Later(Later(next, pause), notBefore) \in Nat
  BY Numbers DEF LaneTypeOK
<1>3. PICK place \in Waiting :
        Becomes(e, Queued(place, generation, attempt, Later(Later(next, pause), notBefore)))
  BY DEF Enqueue
<1>4. /\ Queued(place, generation, attempt, Later(Later(next, pause), notBefore)) \in EventState
      /\ Queued(place, generation, attempt, Later(Later(next, pause), notBefore)).at = place
      /\ Queued(place, generation, attempt, Later(Later(next, pause), notBefore)).generation
           = generation
      /\ Queued(place, generation, attempt, Later(Later(next, pause), notBefore)).left = 0
  BY <1>2, QueuedFields DEF LaneTypeOK
<1> QED BY <1>1, <1>3, <1>4

LEMMA AttemptFits ==
  ASSUME LaneTypeOK, NEW e \in Event
  PROVE  /\ event[e] \in EventState
         /\ 0 \in 0..MaxAttempts - 1
         /\ event[e].attempt \in 0..MaxAttempts - 1
         /\ Retries(e) => event[e].attempt + 1 \in 0..MaxAttempts - 1
         /\ event[e].wait \in Nat /\ event[e].left \in Nat
BY DeliveryConstants DEF LaneTypeOK, EventState, Retries

\* Everything about a lane whose delivery e moves without touching it.
LEMMA QuietPreserves ==
  ASSUME LaneInv, NEW e \in Event, NEW d \in EventState, Becomes(e, d),
         next' \in Nat,
         UNCHANGED <<row, generation, enabled, failCount, embargo, token, lease, throttle>>,
         event[e].at # "new" \/ row = "live",
         d.generation <= generation,
         d.at \notin Carrying => d.left = 0,
         d.at = "posting" => event[e].at = "posting" /\ d.generation = event[e].generation
                              /\ d.left = event[e].left,
         d.at \in Carrying /\ d.left > 0 =>
           event[e].at \in Carrying /\ d.generation = event[e].generation
             /\ d.left = event[e].left,
         Knows(e) => d.status = "throttled" /\ d.generation = generation
                      /\ (d.at \in {"crashed", "overtaken"}
                           \/ (d.at = "answered" /\ d.wait >= throttle))
  PROVE  LaneInv'
<1>1. /\ event' \in [Event -> EventState] /\ event'[e] = d
      /\ \A f \in Event : f # e => event'[f] = event[f]
  BY OneChanged DEF LaneInv
<1>2. (\A f \in Event : Sound(f))' /\ LaneHeld' /\ OneSender'
  BY QuietStep
<1>3. PauseKnown'
  BY PauseStays
<1>4. LaneTypeOK'
  BY <1>1 DEF LaneInv, LaneTypeOK
<1>5. NothingYet' /\ FailuresBounded'
  BY <1>1 DEF LaneInv, NothingYet, FailuresBounded
<1> QED BY <1>2, <1>3, <1>4, <1>5 DEF LaneInv

LEMMA AcceptStep ==
  ASSUME LaneInv, NEW e \in Event, Accept(e)
  PROVE  LaneInv'
<1>1. /\ Enqueue(e, 0, 0, embargo) /\ row = "live" /\ event[e].at = "new"
      /\ UNCHANGED <<row, generation, enabled, failCount, embargo, token, lease, throttle>>
  BY DEF Accept, credentialVars, IsNext, At
<1>2. LaneTypeOK /\ embargo \in Nat /\ 0 \in 0..MaxAttempts - 1
  BY AttemptFits DEF LaneInv, LaneTypeOK
<1>3. next' \in Nat
  BY <1>1, <1>2, EnqueueEffect
<1>4. PICK d \in EventState : /\ Becomes(e, d) /\ d.at \in Waiting
                              /\ d.generation = generation /\ d.left = 0
  BY <1>1, <1>2, EnqueueEffect
<1>5. d.at \notin Carrying /\ d.generation <= generation
  BY <1>2, <1>4 DEF Waiting, Carrying, LaneTypeOK
<1>6. ~ Knows(e)
  BY <1>1 DEF Knows
<1> QED
  <2>1. d.at # "posting"
    BY <1>4 DEF Waiting
  <2> QED BY <1>1, <1>3, <1>4, <1>5, <1>6, <2>1, QuietPreserves

LEMMA WaitingStep ==
  ASSUME LaneInv, NEW e \in Event, Recover(e) \/ Look(e)
  PROVE  LaneInv'
<1>1. /\ event[e].at \in Waiting /\ next' \in Nat
      /\ UNCHANGED <<row, generation, enabled, failCount, embargo, token, lease, throttle>>
  BY DEF Recover, Look, At, Waiting, credentialVars, hookVars, LaneInv, LaneTypeOK
<1>2. /\ event[e] \in EventState /\ event[e].left = 0 /\ event[e].generation <= generation
      /\ embargo \in Nat /\ generation \in Nat
  BY <1>1, AttemptFits DEF LaneInv, Sound, Carrying, Waiting, LaneTypeOK
<1>3. PICK d \in {Over, Moved(event[e], "queued"), Moved(event[e], "reading"),
                  Deferred(event[e], embargo)} : Becomes(e, d)
  BY DEF Recover, Look, Ends, Goes
<1>4. d \in EventState /\ d.generation <= generation /\ d.left = 0 /\ d.at \notin Carrying
  <2>1. CASE d = Over
    BY <2>1, <1>2, OverFields DEF Carrying
  <2>2. CASE d = Moved(event[e], "queued")
    BY <2>2, <1>2, MovedFields DEF Waiting, Carrying
  <2>3. CASE d = Moved(event[e], "reading")
    BY <2>3, <1>2, MovedFields DEF Acting, Carrying
  <2>4. CASE d = Deferred(event[e], embargo)
    BY <2>4, <1>2, DeferredFields DEF Carrying
  <2> QED BY <1>3, <2>1, <2>2, <2>3, <2>4
<1>5. ~ Knows(e) /\ event[e].at # "new" /\ d.at # "posting"
  BY <1>1, <1>4 DEF Knows, Waiting, Carrying
<1> QED BY <1>1, <1>3, <1>4, <1>5, QuietPreserves

LEMMA DeferStep ==
  ASSUME LaneInv, NEW e \in Event, Defer(e)
  PROVE  LaneInv'
<1>1. /\ event[e].at = "deferring"
      /\ UNCHANGED <<row, generation, enabled, failCount, embargo, token, lease, throttle>>
  BY DEF Defer, At, credentialVars
<1>2. /\ LaneTypeOK /\ embargo \in Nat /\ generation \in Nat /\ next \in Nat
      /\ event[e].attempt \in 0..MaxAttempts - 1 /\ event[e].wait \in Nat
  BY AttemptFits DEF LaneInv, LaneTypeOK
<1>3. /\ next' \in Nat
      /\ \E d \in EventState : /\ Becomes(e, d) /\ d.at \notin Carrying
                               /\ d.generation <= generation /\ d.left = 0
  <2>1. CASE Enqueue(e, event[e].attempt, event[e].wait, embargo)
    <3>1. next' \in Nat /\ \E d \in EventState : /\ Becomes(e, d) /\ d.at \in Waiting
                                               /\ d.generation = generation /\ d.left = 0
      BY <2>1, <1>2, EnqueueEffect
    <3> QED BY <3>1, <1>2 DEF Waiting, Carrying
  <2>2. CASE Ends(e) /\ next' = next
    BY <2>2, <1>2, OverFields DEF Ends, Carrying
  <2> QED BY <2>1, <2>2 DEF Defer
<1>4. PICK d \in EventState : /\ Becomes(e, d) /\ d.at \notin Carrying
                              /\ d.generation <= generation /\ d.left = 0
  BY <1>3
<1>5. ~ Knows(e) /\ event[e].at # "new" /\ d.at # "posting"
  BY <1>1, <1>4 DEF Knows, Carrying
<1> QED BY <1>1, <1>3, <1>4, <1>5, QuietPreserves

LEMMA ClaimStep ==
  ASSUME LaneInv, NEW e \in Event, Claim(e)
  PROVE  LaneInv'
<1>1. /\ event[e].at = "reading"
      /\ UNCHANGED <<row, generation, enabled, failCount, next, embargo, throttle>>
  BY DEF Claim, At, credentialVars
<1>2. /\ event[e] \in EventState /\ event[e].left = 0 /\ event[e].generation <= generation
      /\ embargo \in Nat /\ lease \in Nat /\ generation \in Nat /\ next \in Nat
  BY <1>1, AttemptFits DEF LaneInv, Sound, Carrying, LaneTypeOK
<1>3. ~ Knows(e) /\ event[e].at # "new"
  BY <1>1 DEF Knows
<1>4. CASE /\ UNCHANGED <<lease, token>>
           /\ Ends(e) \/ Becomes(e, Deferred(event[e], Later(embargo, lease)))
  <2>1. PICK d \in {Over, Deferred(event[e], Later(embargo, lease))} : Becomes(e, d)
    BY <1>4 DEF Ends
  <2>2. /\ d \in EventState /\ d.generation <= generation /\ d.left = 0
        /\ d.at \notin Carrying /\ d.at # "posting"
    <3>1. CASE d = Over
      BY <3>1, <1>2, OverFields DEF Carrying
    <3>2. CASE d = Deferred(event[e], Later(embargo, lease))
      BY <3>2, <1>2, Numbers, DeferredFields DEF Carrying
    <3> QED BY <2>1, <3>1, <3>2
  <2> QED BY <1>1, <1>2, <1>3, <1>4, <2>1, <2>2, QuietPreserves
<1>5. CASE /\ Current(e) /\ Free /\ token' = e /\ lease' = Lease
           /\ Becomes(e, Claimed(event[e]))
  <2> DEFINE d == Claimed(event[e])
  <2>1. /\ d \in EventState /\ d.at = "posting" /\ d.left = Lease
        /\ d.generation = generation
    BY <1>2, <1>5, ClaimedFields DEF Current
  <2>2. /\ event' \in [Event -> EventState] /\ event'[e] = d
        /\ \A f \in Event : f # e => event'[f] = event[f]
    BY <1>5, <2>1, OneChanged DEF LaneInv
  <2>3. \A f \in Event : ~ Holding(f)
    BY <1>5 DEF Free, LaneInv, LaneHeld, Holding
  <2>4. \A f \in Event : event[f].at = "posting" => event[f].generation # generation
    BY <2>3, DeliveryConstants DEF LaneInv, Sound, Holding, Carrying, LaneTypeOK, EventState
  <2>5. (\A f \in Event : Sound(f))'
    BY <1>1, <1>2, <2>1, <2>2, DeliveryConstants DEF LaneInv, Sound, Carrying
  <2>6. LaneHeld'
    BY <1>1, <1>5, <2>1, <2>2, <2>3 DEF LaneHeld, Holding
  <2>7. OneSender'
    BY <1>1, <2>1, <2>2, <2>4 DEF LaneInv, OneSender, At
  <2>8. PauseKnown'
    <3>1. enabled' => enabled
      BY <1>1
    <3> QED BY <1>1, <1>3, <1>5, <2>1, <3>1, PauseStays
  <2>9. enabled
    BY <1>5 DEF Current
  <2>10. LaneTypeOK' /\ NothingYet' /\ FailuresBounded'
    BY <1>1, <1>2, <1>5, <2>2, <2>9, DeliveryConstants
       DEF LaneInv, LaneTypeOK, NothingYet, FailuresBounded, Current
  <2> QED BY <2>5, <2>6, <2>7, <2>8, <2>10 DEF LaneInv
<1> QED BY <1>4, <1>5 DEF Claim

LEMMA AnswerStep ==
  ASSUME LaneInv, NEW e \in Event, Answer(e)
  PROVE  LaneInv'
<1>1. PICK status \in Status \ {"none"}, wait \in Pause \cup {0} :
        /\ Becomes(e, Answered(event[e], status, wait))
        /\ throttle' = IF status = "throttled" /\ event[e].generation = generation
                        THEN Later(throttle, wait) ELSE throttle
  BY DEF Answer
<1>2. /\ event[e].at = "posting"
      /\ UNCHANGED <<row, generation, enabled, failCount, next, embargo, token, lease>>
  BY DEF Answer, At, credentialVars, hookVars
<1> DEFINE d == Answered(event[e], status, wait)
<1>3. /\ wait \in Nat /\ event[e] \in EventState /\ throttle \in Nat /\ generation \in Nat
      /\ event[e].generation <= generation
  BY DeliveryConstants, AttemptFits DEF LaneInv, LaneTypeOK, Sound
<1>4. /\ d \in EventState /\ d.at = "answered" /\ d.generation = event[e].generation
      /\ d.left = event[e].left /\ d.status = status /\ d.wait = wait
  BY <1>3, AnsweredFields
<1>5. /\ event' \in [Event -> EventState] /\ event'[e] = d
      /\ \A f \in Event : f # e => event'[f] = event[f]
  BY <1>1, <1>4, OneChanged DEF LaneInv
<1>6. (\A f \in Event : Sound(f))' /\ LaneHeld' /\ OneSender'
  <2>1. d.at \in Carrying /\ event[e].at \in Carrying /\ d.at # "posting"
    BY <1>2, <1>4 DEF Carrying
  <2> HIDE DEF d
  <2> QED BY <1>1, <1>2, <1>3, <1>4, <2>1, QuietStep DEF d
<1>7. throttle' \in Nat /\ throttle' >= throttle
  BY <1>1, <1>3, Numbers
<1>8. PauseKnown'
  <2>1. CASE throttle' = throttle
    <3>1. \A f \in Event : Knows(f) => Knows(f)'
      BY <1>2, <1>5, <2>1 DEF Knows
    <3> QED BY <1>2, <2>1, <3>1 DEF LaneInv, PauseKnown
  <2>2. CASE throttle' # throttle
    <3>1. status = "throttled" /\ event[e].generation = generation /\ throttle' = wait
      BY <1>1, <2>2 DEF Later
    <3>2. Knows(e)'
      BY <1>2, <1>3, <1>4, <1>5, <3>1 DEF Knows
    <3> QED BY <3>2 DEF PauseKnown
  <2> QED BY <2>1, <2>2
<1>9. LaneTypeOK'
  BY <1>2, <1>5, <1>7 DEF LaneInv, LaneTypeOK
<1>10. NothingYet' /\ FailuresBounded'
  BY <1>2 DEF LaneInv, NothingYet, FailuresBounded
<1> QED BY <1>6, <1>8, <1>9, <1>10 DEF LaneInv

LEMMA CrashStep ==
  ASSUME LaneInv, NEW e \in Event, DeliverCrashes(e)
  PROVE  LaneInv'
<1>1. /\ event[e].at \in Acting /\ Becomes(e, Lost(event[e], "crashed"))
      /\ UNCHANGED <<row, generation, enabled, failCount, embargo, token, lease, throttle>>
      /\ next' = next
  BY DEF DeliverCrashes, Fails, credentialVars, hookVars
<1> DEFINE d == Lost(event[e], "crashed")
<1>2. event[e] \in EventState /\ event[e].generation <= generation /\ next \in Nat
  BY AttemptFits DEF LaneInv, LaneTypeOK, Sound
<1>3. /\ d \in EventState /\ d.at = "crashed" /\ d.generation = event[e].generation
      /\ d.left = event[e].left /\ d.status = event[e].status
  BY <1>2, LostFields
<1>4. event[e].at \notin Carrying => event[e].left = 0
  BY DEF LaneInv, Sound
<1>5. event[e].at # "new" /\ d.at \in Carrying /\ d.at # "posting"
  BY <1>1, <1>3 DEF Acting, Carrying
<1>6. d.left > 0 => event[e].at \in Carrying
  BY <1>2, <1>3, <1>4 DEF EventState
<1>7. Knows(e) => d.status = "throttled" /\ d.generation = generation
                    /\ (d.at \in {"crashed", "overtaken"}
                         \/ (d.at = "answered" /\ d.wait >= throttle))
  BY <1>3 DEF Knows
<1>8. Becomes(e, d)
  BY <1>1
<1>9. next' \in Nat /\ d.generation <= generation
  BY <1>1, <1>2, <1>3
<1> HIDE DEF d
<1> QED BY <1>1, <1>3, <1>5, <1>6, <1>7, <1>8, <1>9, QuietPreserves

\* The lane is given back, and what the delivery knew is in the row.
LEMMA ReleasePreserves ==
  ASSUME LaneInv, NEW e \in Event, NEW d \in EventState, Becomes(e, d),
         token = e, token' = Nobody, lease' = 0,
         UNCHANGED <<row, generation, throttle>>, row = "live",
         enabled' \in BOOLEAN, enabled' => enabled,
         failCount' \in 0..MaxFailures, enabled' => failCount' < MaxFailures,
         next' \in Nat, embargo' \in Nat, embargo' >= embargo,
         d.generation <= generation, d.at \notin Carrying, d.left = 0,
         Knows(e) => throttle <= embargo'
  PROVE  LaneInv'
<1>1. /\ event' \in [Event -> EventState] /\ event'[e] = d
      /\ \A f \in Event : f # e => event'[f] = event[f]
  BY OneChanged DEF LaneInv
<1>2. (\A f \in Event : Sound(f))' /\ LaneHeld' /\ OneSender'
  BY ReleaseStep
<1>3. PauseKnown'
  <2>1. ASSUME NEW f \in Event, f # e, Knows(f) PROVE Knows(f)'
    BY <1>1, <2>1 DEF Knows
  <2>2. throttle \in Nat /\ embargo \in Nat
    BY DEF LaneInv, LaneTypeOK
  <2> QED BY <2>1, <2>2 DEF LaneInv, PauseKnown
<1>4. LaneTypeOK'
  BY <1>1 DEF LaneInv, LaneTypeOK
<1>5. NothingYet' /\ FailuresBounded'
  BY DEF NothingYet, FailuresBounded
<1> QED BY <1>2, <1>3, <1>4, <1>5 DEF LaneInv

LEMMA RetryStep ==
  ASSUME LaneInv, NEW e \in Event, Retry(e)
  PROVE  LaneInv'
<1>1. /\ event[e].at = "answered" /\ Retries(e)
      /\ UNCHANGED <<row, generation, enabled, failCount, throttle>>
  BY DEF Retry, At, credentialVars
<1>2. /\ LaneTypeOK /\ event[e] \in EventState /\ event[e].generation <= generation
      /\ embargo \in Nat /\ generation \in Nat /\ next \in Nat /\ throttle \in Nat
      /\ failCount \in 0..MaxFailures /\ enabled \in BOOLEAN
      /\ event[e].attempt + 1 \in 0..MaxAttempts - 1 /\ event[e].wait \in Nat
  BY <1>1, AttemptFits DEF LaneInv, LaneTypeOK, Sound
<1>3. CASE Current(e) /\ token = e
  <2>1. /\ embargo' = Extended(e) /\ token' = Nobody /\ lease' = 0
        /\ Enqueue(e, event[e].attempt + 1, event[e].wait, Extended(e))
    BY <1>3 DEF Retry
  <2>2. /\ Extended(e) \in Nat /\ Extended(e) >= embargo
        /\ event[e].status = "throttled" => Extended(e) >= event[e].wait
    BY <1>2 DEF Extended, Throttled, Later
  <2>3. next' \in Nat
    BY <1>2, <2>1, <2>2, EnqueueEffect
  <2>4. PICK d \in EventState : /\ Becomes(e, d) /\ d.at \in Waiting
                                /\ d.generation = generation /\ d.left = 0
    BY <1>2, <2>1, <2>2, EnqueueEffect
  <2>5. d.at \notin Carrying /\ d.generation <= generation
    BY <1>2, <2>4 DEF Waiting, Carrying
  <2>6. Knows(e) => throttle <= embargo'
    BY <1>1, <1>2, <2>1, <2>2 DEF Knows
  <2>7. row = "live" /\ (enabled' => enabled)
    BY <1>1, <1>3 DEF Current
  <2>8. failCount < MaxFailures
    BY <1>3, EventNotNobody DEF LaneInv, FailuresBounded
  <2> QED
    BY <1>1, <1>2, <1>3, <2>1, <2>2, <2>3, <2>4, <2>5, <2>6, <2>7, <2>8, ReleasePreserves
<1>4. CASE ~ (Current(e) /\ token = e)
  <2>1. /\ UNCHANGED <<embargo, token, lease, next>>
        /\ IF Current(e) THEN Fails(e, "overtaken") ELSE Ends(e)
    BY <1>4 DEF Retry
  <2>2. CASE Current(e)
    <3> DEFINE d == Lost(event[e], "overtaken")
    <3>1. /\ d \in EventState /\ d.at = "overtaken" /\ d.generation = event[e].generation
          /\ d.left = event[e].left /\ d.status = event[e].status
      BY <1>2, LostFields
    <3>2. ~ Holding(e)
      BY <1>4, <2>2 DEF LaneInv, LaneHeld
    <3>3. d.left = 0
      BY <1>1, <1>2, <2>2, <3>1, <3>2 DEF Holding, Carrying, Current, EventState
    <3>4. /\ Becomes(e, d) /\ next' \in Nat /\ d.generation <= generation
          /\ d.at # "posting" /\ d.at \notin Carrying /\ event[e].at # "new"
      BY <1>1, <1>2, <2>1, <2>2, <3>1 DEF Fails, Carrying
    <3>5. Knows(e) => d.status = "throttled" /\ d.generation = generation
                      /\ (d.at \in {"crashed", "overtaken"}
                           \/ (d.at = "answered" /\ d.wait >= throttle))
      BY <3>1 DEF Knows
    <3>6. UNCHANGED <<row, generation, enabled, failCount, embargo, token, lease, throttle>>
      BY <1>1, <2>1
    <3> HIDE DEF d
    <3> QED BY <3>1, <3>3, <3>4, <3>5, <3>6, QuietPreserves
  <2>3. CASE ~ Current(e)
    <3>1. Becomes(e, Over) /\ next' \in Nat
      BY <1>2, <2>1, <2>3 DEF Ends
    <3>2. Over \in EventState /\ Over.generation <= generation /\ Over.left = 0
          /\ Over.at \notin Carrying /\ Over.at # "posting"
      BY <1>2, OverFields DEF Carrying
    <3>3. /\ event' \in [Event -> EventState] /\ event'[e] = Over
          /\ \A f \in Event : f # e => event'[f] = event[f]
      BY <3>1, <3>2, OneChanged DEF LaneInv
    <3>4. (\A f \in Event : Sound(f))' /\ LaneHeld' /\ OneSender'
      BY <1>1, <2>1, <3>1, <3>2, QuietStep
    <3>5. PauseKnown'
      <4>1. CASE Knows(e)
        BY <1>1, <2>3, <4>1 DEF Knows, Current, PauseKnown
      <4>2. CASE ~ Knows(e)
        <5>1. enabled' => enabled
          BY <1>1
        <5> QED BY <1>1, <2>1, <3>1, <3>2, <4>2, <5>1, PauseStays
      <4> QED BY <4>1, <4>2
    <3>6. LaneTypeOK' /\ NothingYet' /\ FailuresBounded'
      BY <1>1, <2>1, <3>1, <3>3 DEF LaneInv, LaneTypeOK, NothingYet, FailuresBounded
    <3> QED BY <3>4, <3>5, <3>6 DEF LaneInv
  <2> QED BY <2>2, <2>3
<1> QED BY <1>3, <1>4

LEMMA SetEmbargoStep ==
  ASSUME LaneInv, NEW e \in Event, SetEmbargo(e)
  PROVE  LaneInv'
<1>1. /\ event[e].at = "answered" /\ Becomes(e, Moved(event[e], "recording"))
      /\ UNCHANGED <<row, generation, enabled, failCount, token, lease, throttle>>
  BY DEF SetEmbargo, At, Goes, credentialVars
<1> DEFINE d == Moved(event[e], "recording")
<1>2. /\ event[e] \in EventState /\ event[e].generation <= generation /\ next \in Nat
      /\ embargo \in Nat /\ event[e].wait \in Nat /\ throttle \in Nat
  BY AttemptFits DEF LaneInv, LaneTypeOK, Sound
<1>3. /\ d \in EventState /\ d.at = "recording" /\ d.generation = event[e].generation
      /\ d.left = event[e].left
  BY <1>2, MovedFields DEF Acting
<1>4. /\ event' \in [Event -> EventState] /\ event'[e] = d
      /\ \A f \in Event : f # e => event'[f] = event[f]
  BY <1>1, <1>3, OneChanged DEF LaneInv
<1>5. (\A f \in Event : Sound(f))' /\ LaneHeld' /\ OneSender'
  <2>1. d.at \in Carrying /\ event[e].at \in Carrying /\ d.at # "posting"
    BY <1>1, <1>3 DEF Carrying
  <2> HIDE DEF d
  <2> QED BY <1>1, <1>2, <1>3, <2>1, QuietStep DEF d
<1>6. /\ embargo' \in Nat /\ embargo' >= embargo /\ next' \in Nat
      /\ Current(e) => embargo' >= event[e].wait
  BY <1>2 DEF SetEmbargo, Later
<1>7. PauseKnown'
  <2>1. ASSUME NEW f \in Event, f # e, Knows(f) PROVE Knows(f)'
    BY <1>1, <1>4, <2>1 DEF Knows
  <2>2. ASSUME Knows(e) PROVE throttle <= embargo' \/ ~ enabled \/ row # "live"
    BY <1>1, <1>2, <1>6, <2>2 DEF Knows, Current
  <2> QED BY <1>1, <1>2, <1>6, <2>1, <2>2 DEF LaneInv, PauseKnown
<1>8. LaneTypeOK' /\ NothingYet' /\ FailuresBounded'
  BY <1>1, <1>4, <1>6 DEF LaneInv, LaneTypeOK, NothingYet, FailuresBounded
<1> QED BY <1>5, <1>7, <1>8 DEF LaneInv

LEMMA RecordStep ==
  ASSUME LaneInv, NEW e \in Event, Record(e)
  PROVE  LaneInv'
<1>1. /\ event[e].at = "recording" \/ (event[e].at = "answered" /\ event[e].status # "throttled")
      /\ Becomes(e, Over)
      /\ UNCHANGED <<row, generation, next, embargo, throttle>>
  BY DEF Record, At, Ends, Throttled, credentialVars
<1>2. /\ LaneTypeOK /\ event[e] \in EventState /\ embargo \in Nat /\ generation \in Nat
      /\ next \in Nat /\ failCount \in 0..MaxFailures /\ enabled \in BOOLEAN
  BY AttemptFits DEF LaneInv, LaneTypeOK
<1>3. /\ Over \in EventState /\ Over.generation <= generation /\ Over.left = 0
      /\ Over.at \notin Carrying /\ Over.at # "posting"
  BY <1>2, OverFields DEF Carrying
<1>4. ~ Knows(e) /\ event[e].at # "new"
  BY <1>1 DEF Knows
<1>5. CASE row = "live" /\ event[e].generation = generation /\ token = e
  <2>1. /\ token' = Nobody /\ lease' = 0 /\ failCount' = Failures(e)
        /\ enabled' = (enabled /\ failCount' < MaxFailures)
    BY <1>5 DEF Record
  <2>2. failCount < MaxFailures
    BY <1>5, EventNotNobody DEF LaneInv, FailuresBounded
  <2>3. failCount' \in 0..MaxFailures
    BY <1>2, <2>1, <2>2, DeliveryConstants DEF Failures
  <2>4. enabled' \in BOOLEAN /\ (enabled' => enabled) /\ (enabled' => failCount' < MaxFailures)
    BY <2>1
  <2> QED
    BY <1>1, <1>2, <1>3, <1>4, <1>5, <2>1, <2>3, <2>4, ReleasePreserves
<1>6. CASE ~ (row = "live" /\ event[e].generation = generation /\ token = e)
  <2>1. UNCHANGED <<row, generation, enabled, failCount, embargo, token, lease, throttle>>
    BY <1>1, <1>6 DEF Record
  <2>2. next' \in Nat
    BY <1>1, <1>2
  <2> QED BY <1>1, <1>3, <1>4, <2>1, <2>2, QuietPreserves
<1> QED BY <1>5, <1>6

LEMMA CredentialRow ==
  ASSUME Credential
  PROVE  /\ row' = row \/ (row' = "gone" /\ row = "deleted")
         /\ UNCHANGED deliveryVars
<1>1. CASE Creating /\ UNCHANGED deliveryVars
  BY <1>1 DEF Creating, Reserve, Mint, MintThrows, Track, TrackThrows, Discard, StoreThrows,
       Undo, CreatorCrashes
<1>2. CASE (PointerAges \/ ClaimExpires) /\ UNCHANGED deliveryVars
  BY <1>2 DEF PointerAges, ClaimExpires
<1>3. ASSUME NEW r \in Run, Purging(r), UNCHANGED deliveryVars
      PROVE  row' = row \/ (row' = "gone" /\ row = "deleted")
  <2>1. CASE Report(r)
    BY <2>1 DEF Report
  <2> QED
    BY <1>3, <2>1 DEF Purging, ClaimOrphan, SweepPointer, SweepRow, Destroy, DestroyFails,
         RunCrashes
<1> QED BY <1>1, <1>2, <1>3 DEF Credential

\* Steps that leave the deliveries and the lane alone.
LEMMA IdleStep ==
  ASSUME LaneInv,
         UNCHANGED <<generation, failCount, next, embargo, lease, token, event, throttle>>,
         enabled' \in BOOLEAN, enabled' => enabled,
         row' = "live" => row = "live", row' = "none" => row = "none"
  PROVE  LaneInv'
<1>1. LaneTypeOK'
  BY DEF LaneInv, LaneTypeOK
<1>2. (\A f \in Event : Sound(f))' /\ LaneHeld' /\ OneSender'
  BY DEF LaneInv, Sound, LaneHeld, Holding, OneSender, At
<1>3. NothingYet' /\ FailuresBounded'
  BY DEF LaneInv, NothingYet, FailuresBounded
<1>4. PauseKnown'
  <2>1. \A f \in Event : Knows(f) => Knows(f)'
    BY DEF Knows
  <2> QED BY <2>1 DEF LaneInv, PauseKnown
<1> QED BY <1>1, <1>2, <1>3, <1>4 DEF LaneInv

\* Steps that make every delivery one of the past.
LEMMA NewGeneration ==
  ASSUME LaneInv, row \in {"live", "deleted"},
         generation' = generation + 1, UNCHANGED event,
         throttle' = 0, embargo' = 0, next' = 0,
         lease' \in Nat, token' \in Event \cup {Nobody},
         enabled' \in BOOLEAN, failCount' \in 0..MaxFailures,
         enabled' \/ token' # Nobody => failCount' < MaxFailures,
         row' # "none"
  PROVE  LaneInv'
<1>1. LaneTypeOK'
  BY DEF LaneInv, LaneTypeOK
<1>2. \A f \in Event : event[f].generation \in Nat
  BY DEF LaneInv, LaneTypeOK, EventState
<1>3. (\A f \in Event : Sound(f))' /\ LaneHeld' /\ OneSender'
  BY <1>2 DEF LaneInv, LaneTypeOK, Sound, LaneHeld, Holding, OneSender, At
<1>4. NothingYet' /\ FailuresBounded' /\ PauseKnown'
  BY DEF NothingYet, FailuresBounded, PauseKnown
<1> QED BY <1>1, <1>3, <1>4 DEF LaneInv

LEMMA ChangingStep ==
  ASSUME LaneInv, Changing
  PROVE  LaneInv'
<1>1. /\ LaneTypeOK /\ enabled \in BOOLEAN /\ failCount \in 0..MaxFailures
      /\ 0 \in 0..MaxFailures /\ 0 < MaxFailures
      /\ token \in Event \cup {Nobody} /\ lease \in Nat
      /\ enabled \/ token # Nobody => failCount < MaxFailures
  BY DeliveryConstants DEF LaneInv, LaneTypeOK, FailuresBounded
<1>2. CASE Update
  <2>1. /\ row = "live" /\ row' = row /\ Invalidate /\ enabled' \in BOOLEAN /\ UNCHANGED event
        /\ failCount' = IF enabled' /\ ~ enabled THEN 0 ELSE failCount
    BY <1>2 DEF Update, credentialVars
  <2> QED BY <1>1, <2>1, NewGeneration DEF Invalidate
<1>3. CASE RemoveHook
  <2>1. /\ row = "live" /\ row' = "deleted" /\ Invalidate /\ enabled' = FALSE
        /\ UNCHANGED <<failCount, event>>
    BY <1>3 DEF RemoveHook, Remove
  <2> QED BY <1>1, <2>1, NewGeneration DEF Invalidate
<1>4. CASE DeleteOrganizationHook
  BY <1>1, <1>4, NewGeneration DEF DeleteOrganizationHook, DeleteOrganization
<1>5. CASE LoseLastProject
  BY <1>5, IdleStep DEF LoseLastProject, credentialVars, laneVars
<1> QED BY <1>2, <1>3, <1>4, <1>5 DEF Changing

LEMMA StoreAndTestStep ==
  ASSUME CredentialInv, LaneInv, NEW e \in Event, StoreAndTest(e)
  PROVE  LaneInv'
<1>1. /\ row = "none" /\ row' = "live" /\ event[e].at = "new" /\ enabled' = TRUE
      /\ Enqueue(e, 0, 0, embargo)
      /\ UNCHANGED <<generation, failCount, embargo, lease, token, throttle>>
  BY DEF StoreAndTest, Store, CredentialInv, CreatorSound, IsNext, At
<1>2. LaneTypeOK /\ embargo \in Nat /\ 0 \in 0..MaxAttempts - 1 /\ generation \in Nat
  BY AttemptFits DEF LaneInv, LaneTypeOK
<1>3. next' \in Nat
  BY <1>1, <1>2, EnqueueEffect
<1>4. PICK d \in EventState : /\ Becomes(e, d) /\ d.at \in Waiting
                              /\ d.generation = generation /\ d.left = 0
  BY <1>1, <1>2, EnqueueEffect
<1>5. d.at \notin Carrying /\ d.at # "posting" /\ d.generation <= generation
  BY <1>2, <1>4 DEF Waiting, Carrying
<1>6. /\ event' \in [Event -> EventState] /\ event'[e] = d
      /\ \A f \in Event : f # e => event'[f] = event[f]
  BY <1>4, OneChanged DEF LaneInv
<1>7. (\A f \in Event : Sound(f))' /\ LaneHeld' /\ OneSender'
  BY <1>1, <1>4, <1>5, QuietStep
<1>8. throttle = 0 /\ failCount = 0
  BY <1>1 DEF LaneInv, NothingYet
<1>9. LaneTypeOK' /\ NothingYet' /\ FailuresBounded' /\ PauseKnown'
  BY <1>1, <1>2, <1>3, <1>6, <1>8, DeliveryConstants
     DEF LaneInv, LaneTypeOK, NothingYet, FailuresBounded, PauseKnown
<1> QED BY <1>7, <1>9 DEF LaneInv

LEMMA TickStep ==
  ASSUME LaneInv, Tick
  PROVE  LaneInv'
<1>1. /\ \A e \in Event : event[e].at = "posting" => event[e].left > Lease - Hold
      /\ next' = Elapse(next) /\ embargo' = Elapse(embargo) /\ lease' = Elapse(lease)
      /\ throttle' = Elapse(throttle)
      /\ event' = [e \in Event |-> Aged(event[e])]
      /\ UNCHANGED <<row, enabled, generation, failCount, token>>
  BY DEF Tick, At, credentialVars
<1>2. /\ next \in Nat /\ embargo \in Nat /\ lease \in Nat /\ throttle \in Nat
      /\ \A e \in Event : event[e] \in EventState
  BY DEF LaneInv, LaneTypeOK
<1>3. \A e \in Event : /\ event'[e] \in EventState
                       /\ event'[e].at = event[e].at
                       /\ event'[e].generation = event[e].generation
                       /\ event'[e].status = event[e].status
                       /\ event'[e].wait = Elapse(event[e].wait)
                       /\ event'[e].left = Elapse(event[e].left)
  BY <1>1, <1>2, AgedFields
<1>4. \A e \in Event : event[e].wait \in Nat /\ event[e].left \in Nat
  BY <1>2 DEF EventState
<1>5. LaneTypeOK'
  <2>1. event' \in [Event -> EventState]
    BY <1>1, <1>2, AgedFields
  <2>2. next' \in Nat /\ embargo' \in Nat /\ lease' \in Nat /\ throttle' \in Nat
    BY <1>1, <1>2, Numbers
  <2> QED BY <1>1, <2>1, <2>2 DEF LaneInv, LaneTypeOK
<1>6. (\A e \in Event : Sound(e))'
  BY <1>1, <1>3, <1>4, DeliveryConstants DEF LaneInv, Sound, Elapse
<1>7. LaneHeld'
  <2>1. ASSUME NEW e \in Event, Holding(e)' PROVE token' = e /\ lease' = event'[e].left
    <3>1. event[e].left > 0
      BY <1>3, <1>4, <2>1 DEF Holding, Elapse
    <3>2. Holding(e)
      BY <1>1, <1>3, <2>1, <3>1 DEF Holding
    <3> QED BY <1>1, <1>3, <3>2 DEF LaneInv, LaneHeld
  <2> QED BY <2>1 DEF LaneHeld
<1>8. OneSender'
  BY <1>1, <1>3 DEF LaneInv, OneSender, At
<1>9. NothingYet' /\ FailuresBounded'
  BY <1>1, <1>3 DEF LaneInv, NothingYet, FailuresBounded, Elapse
<1>10. PauseKnown'
  <2>1. \A f \in Event : Knows(f) => Knows(f)'
    BY <1>1, <1>2, <1>3, <1>4 DEF Knows, Elapse
  <2> QED BY <1>1, <1>2, <2>1 DEF LaneInv, PauseKnown, Elapse
<1> QED BY <1>5, <1>6, <1>7, <1>8, <1>9, <1>10 DEF LaneInv

-----------------------------------------------------------------------------
(* The composition.                                                        *)

LEMMA LaneStep ==
  ASSUME CredentialInv, LaneInv, [Next]_vars
  PROVE  LaneInv'
<1>1. ASSUME NEW e \in Event, Lane(e) PROVE LaneInv'
  <2>1. CASE Accept(e) \/ StoreAndTest(e) \/ DeliverCrashes(e)
    BY <2>1, AcceptStep, StoreAndTestStep, CrashStep
  <2>2. CASE Recover(e) \/ Look(e) \/ Claim(e) \/ Defer(e)
    BY <2>2, WaitingStep, ClaimStep, DeferStep
  <2>3. CASE Answer(e) \/ Retry(e) \/ SetEmbargo(e) \/ Record(e)
    BY <2>3, AnswerStep, RetryStep, SetEmbargoStep, RecordStep
  <2> QED BY <1>1, <2>1, <2>2, <2>3 DEF Lane, Delivering
<1>2. CASE Credential
  <2>1. /\ row' = row \/ (row' = "gone" /\ row = "deleted")
        /\ UNCHANGED <<enabled, generation, failCount, next, embargo, lease, token, event, throttle>>
    BY <1>2, CredentialRow DEF deliveryVars, hookVars, laneVars
  <2>2. enabled \in BOOLEAN
    BY DEF LaneInv, LaneTypeOK
  <2> QED BY <2>1, <2>2, IdleStep
<1>3. CASE UNCHANGED vars
  <2>1. UNCHANGED <<row, enabled, generation, failCount, next, embargo, lease, token, event,
                    throttle>>
    BY <1>3 DEF vars, credentialVars, deliveryVars, hookVars, laneVars
  <2>2. enabled \in BOOLEAN
    BY DEF LaneInv, LaneTypeOK
  <2> QED BY <2>1, <2>2, IdleStep
<1> QED BY <1>1, <1>2, <1>3, ChangingStep, TickStep DEF Next

LEMMA LaneStarts ==
  ASSUME Init
  PROVE  LaneInv
<1>1. \A e \in Event : event[e] = Fresh
  BY DEF Init
<1>2. event \in [Event -> EventState]
  BY FreshFields DEF Init
<1>3. /\ enabled = FALSE /\ generation = 0 /\ failCount = 0 /\ token = Nobody
      /\ next = 0 /\ embargo = 0 /\ lease = 0 /\ throttle = 0
  BY DEF Init
<1>4. LaneTypeOK
  <2>1. enabled \in BOOLEAN
    BY <1>3
  <2>2. generation \in Nat /\ failCount \in 0..MaxFailures /\ token \in Event \cup {Nobody}
    BY <1>3, DeliveryConstants
  <2>3. next \in Nat /\ embargo \in Nat /\ lease \in Nat /\ throttle \in Nat
    BY <1>3
  <2> QED BY <1>2, <2>1, <2>2, <2>3 DEF LaneTypeOK
<1> QED
  BY <1>1, <1>3, <1>4, FreshFields, DeliveryConstants
     DEF LaneInv, Sound, LaneHeld, Holding, OneSender, At, NothingYet, FailuresBounded,
         PauseKnown, Carrying

LEMMA LaneHolds == Spec => [](CredentialInv /\ LaneInv)
<1>1. Init => CredentialInv /\ LaneInv
  BY LaneStarts, CredentialStarts DEF Init
<1>2. CredentialInv /\ LaneInv /\ [Next]_vars => CredentialInv' /\ LaneInv'
  BY LaneStep, CredentialStep, NextIsCredentialNext
<1> QED BY <1>1, <1>2, PTL DEF Spec

(* The fields have their types; in particular the failure count of         *)
(* dispatch.ts:363 never passes its limit, whoever re-enables the webhook. *)
THEOREM TypeCorrect == Spec => []TypeOK
<1>1. CredentialInv /\ LaneInv => TypeOK
  BY DEF CredentialInv, LaneInv, LaneTypeOK, TypeOK
<1> QED BY <1>1, LaneHolds, PTL

(* One delivery at a time is in the outbound section of a destination, for *)
(* any lease longer than a request (dispatch.ts:189).                      *)
THEOREM OneSenderAtATime == Spec => []OneSender
BY LaneHolds, PTL DEF LaneInv

(* Who loses the lane had it for longer than its lease.                    *)
THEOREM OnlyLateAreOvertaken == Spec => []NotOvertakenInTime
<1>1. LaneInv => NotOvertakenInTime
  BY DEF LaneInv, Sound, NotOvertakenInTime, At, Carrying
<1> QED BY <1>1, LaneHolds, PTL

(* A pause the provider asked for holds for every delivery, as long as the *)
(* one that was told reports it within its lease.                          *)
THEOREM ThrottleRespected == Spec => RespectsThrottle
<1>1. ASSUME LaneInv, NEW e \in Event, Claim(e), At(e, "posting")'
      PROVE  throttle = 0 \/ \E f \in Event : Unreported(f)
  <2>1. event[e].at = "reading" /\ event[e] \in EventState
    BY <1>1, AttemptFits DEF Claim, At, LaneInv
  <2>2. /\ Current(e) /\ Free
    <3>1. Over.at # "posting" /\ Deferred(event[e], Later(embargo, lease)).at # "posting"
      BY <1>1, <2>1, OverFields, DeferredFields, Numbers DEF LaneInv, LaneTypeOK
    <3>2. event'[e].at = "posting" /\ event \in [Event -> EventState]
      BY <1>1 DEF At, LaneInv, LaneTypeOK
    <3> QED BY <1>1, <3>1, <3>2 DEF Claim, Ends, Becomes
  <2>3. \A f \in Event : ~ Holding(f)
    BY <1>1, <2>2 DEF Free, LaneInv, LaneHeld, Holding
  <2>4. CASE throttle <= embargo
    BY <1>1, <2>2, <2>4 DEF Free, LaneInv, LaneTypeOK
  <2>5. ASSUME NEW f \in Event, Knows(f) PROVE Unreported(f)
    <3>1. event[f].left \in Nat
      BY <1>1, AttemptFits DEF LaneInv
    <3>2. event[f].left = 0
      BY <1>1, <2>3, <2>5, <3>1 DEF Knows, Holding, Carrying, LaneInv, Sound
    <3> QED BY <2>5, <3>2 DEF Knows, Unreported, Throttled
  <2> QED BY <1>1, <2>2, <2>4, <2>5 DEF LaneInv, PauseKnown, Current
<1>2. LaneInv /\ [Next]_vars =>
        [\A e \in Event : Claim(e) /\ At(e, "posting")' =>
           throttle = 0 \/ \E f \in Event : Unreported(f)]_vars
  BY <1>1
<1> QED BY <1>2, LaneHolds, PTL DEF RespectsThrottle, Spec
=============================================================================
