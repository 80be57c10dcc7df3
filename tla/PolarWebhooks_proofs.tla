------------------------ MODULE PolarWebhooks_proofs ------------------------
(***************************************************************************)
(* Proofs about PolarWebhooks, for any events in any order, subscriptions, *)
(* products, executions and periods.                                       *)
(***************************************************************************)
EXTENDS PolarWebhooks, TLAPS

WorkState == [at : Step, event : Event \cup {NoEvent}, old : RowState]

-----------------------------------------------------------------------------
(* The inductive invariant.                                                *)

\* An event is claimed while it is processed, by one execution, and stays so
\* once it is completed.
WorkSound ==
  /\ completed \subseteq claimed
  /\ \A a \in Action : Busy(a) => work[a].event \in claimed \ completed
  /\ \A a, b \in Action : Busy(a) /\ Busy(b) /\ work[a].event = work[b].event => a = b
  /\ ~ overlapped => \A a, b \in Action : Busy(a) /\ Busy(b) => a = b

\* Which events take which way through the action.
Way(a) ==
  /\ work[a].at \in {"creating", "comparing", "mapping", "syncing", "changing", "clearing"}
       => Subject(a).kind \in {"created", "updated"}
  /\ work[a].at = "gracing" => Subject(a).kind = "revoked"
  /\ Subject(a).kind = "created"
       => /\ work[a].old = NoRow
          /\ work[a].at \notin {"looking", "updating", "comparing", "changing", "gracing"}
  /\ work[a].at \in {"syncing", "changing", "clearing"} => IsActive(Subject(a))

WaysSound == \A a \in Action : Busy(a) => Way(a)

\* An execution on its own finds the row as it left it.
RowsSound ==
  ~ overlapped =>
    \A a \in Action :
      work[a].at \in {"comparing", "mapping", "syncing", "changing", "clearing"}
      => row[Key(a)].status = Subject(a).status

\* A revocation that has succeeded has given a grace period, or the default tier.
EndsSound ==
  ~ overlapped =>
    \A a \in Action : work[a].at = "done" /\ Subject(a).kind = "revoked"
      => tier = Default \/ graceActive

\* Between the tier and the end of an activation nothing takes the tier back.
GrantsSound ==
  ~ overlapped /\ ~ raced =>
    \A a \in Action : Busy(a) /\ Subject(a).kind = "created" =>
      /\ work[a].at = "clearing" => tier = Subject(a).product
      /\ Granted(a)

\* The event that a grace period was given for is not processed any more.
GraceSound ==
  graceFor # NoEvent =>
    /\ graceFor \in claimed
    /\ \A a \in Action : Busy(a) /\ work[a].event = graceFor => work[a].at = "done"

Sound == TypeOK /\ WorkSound /\ WaysSound /\ RowsSound

-----------------------------------------------------------------------------
(* Types, and what the steps of an execution have in common.               *)

LEMMA IdleType == NoRow \in RowState /\ Idle \in WorkState /\ Idle.at = "idle"
BY DEF NoRow, RowState, Status, Idle, WorkState, Step

\* What an execution is about.
LEMMA SubjectType ==
  ASSUME TypeOK, WorkSound, NEW a \in Action, Busy(a)
  PROVE  /\ work[a].event \in Sent /\ work[a].event \in Event
         /\ Subject(a) \in EventState /\ Key(a) \in Subscription
<1>1. work[a].event \in Sent
  BY DEF TypeOK, WorkSound
<1>2. event \in [Sent -> EventState] /\ Sent \subseteq Event
  BY BillingConstants DEF TypeOK, Sent
<1>3. Subject(a) \in EventState
  BY <1>1, <1>2 DEF Subject
<1> QED BY <1>1, <1>2, <1>3 DEF Key, EventState

LEMMA MovesEffect ==
  ASSUME TypeOK, NEW a \in Action, NEW step \in Step, Moves(a, step)
  PROVE  /\ work' \in [Action -> WorkState]
         /\ work'[a].at = step /\ work'[a].event = work[a].event /\ work'[a].old = work[a].old
         /\ \A b \in Action : b # a => work'[b] = work[b]
BY DEF TypeOK, Moves, WorkState

\* A step that may be seen to fail.
LEMMA GoesEffect ==
  ASSUME TypeOK, NEW a \in Action, NEW step \in Step, Goes(a, step)
  PROVE  /\ work' \in [Action -> WorkState]
         /\ work'[a].at = step \/ (work'[a].at = "broken" /\ AnswersLost)
         /\ work'[a].event = work[a].event /\ work'[a].old = work[a].old
         /\ \A b \in Action : b # a => work'[b] = work[b]
<1>1. CASE Moves(a, step)
  BY <1>1, MovesEffect
<1>2. CASE AnswersLost /\ Moves(a, "broken")
  <2>1. "broken" \in Step
    BY DEF Step
  <2> QED BY <1>2, <2>1, MovesEffect
<1> QED BY <1>1, <1>2 DEF Goes

\* An execution goes on with its event.
Proceeds(a) ==
  /\ Busy(a) /\ Busy(a)'
  /\ work'[a].event = work[a].event
  /\ \A b \in Action : b # a => work'[b] = work[b]
  /\ UNCHANGED <<event, claimed, completed, overlapped, raced>>

\* An execution is over.
Ends(a) ==
  /\ Busy(a) /\ ~ Busy(a)'
  /\ \A b \in Action : b # a => work'[b] = work[b]
  /\ UNCHANGED <<event, row, tier, graceActive, graceFor, overlapped, raced>>
  /\ \/ UNCHANGED <<claimed, completed>>
     \/ /\ UNCHANGED claimed /\ completed' = completed \cup {work[a].event}
        /\ work[a].at = "done"
     \/ /\ claimed' = claimed \ {work[a].event} /\ UNCHANGED completed
        /\ work[a].at # "done"

LEMMA LookUpEffect ==
  ASSUME TypeOK, WorkSound, NEW a \in Action, LookUp(a)
  PROVE  /\ work' \in [Action -> WorkState] /\ Proceeds(a)
         /\ work'[a].at \in {"updating", "creating", "failed"}
         /\ work'[a].at = "creating" => Subject(a).kind = "updated"
<1>1. Busy(a)
  BY DEF LookUp, Busy
<1>2. row[Key(a)] \in RowState
  BY <1>1, SubjectType DEF TypeOK
<1> DEFINE to == IF row[Key(a)] # NoRow THEN "updating"
                 ELSE IF Subject(a).kind = "updated" THEN "creating" ELSE "failed"
           x == [at |-> to, event |-> work[a].event, old |-> row[Key(a)]]
<1>3. work' = [work EXCEPT ![a] = x]
  BY DEF LookUp
<1>4. x \in WorkState /\ x.at = to /\ x.event = work[a].event
  <2>1. to \in Step
    BY DEF Step
  <2> HIDE DEF to
  <2> QED BY <1>2, <2>1 DEF WorkState, TypeOK
<1>5. to \in {"updating", "creating", "failed"} /\ (to = "creating" => Subject(a).kind = "updated")
  OBVIOUS
<1>6. UNCHANGED <<event, claimed, completed, overlapped, raced>>
  BY DEF LookUp, histories
<1> HIDE DEF x, to
<1>7. /\ work' \in [Action -> WorkState] /\ work'[a] = x
      /\ \A b \in Action : b # a => work'[b] = work[b]
  BY <1>3, <1>4 DEF TypeOK, WorkState
<1> QED BY <1>1, <1>4, <1>5, <1>6, <1>7 DEF Proceeds, Busy

LEMMA MapPreviousEffect ==
  ASSUME TypeOK, NEW a \in Action, MapPrevious(a)
  PROVE  /\ work' \in [Action -> WorkState] /\ Proceeds(a)
         /\ work'[a].at = "mapping"
<1> DEFINE r == [status |-> work[a].old.status, product |-> TierOf(work[a].old.product)]
           x == [at |-> "mapping", event |-> work[a].event, old |-> r]
<1>1. work' = [work EXCEPT ![a] = x] /\ Busy(a)
  BY DEF MapPrevious, Busy
<1>2. r \in RowState
  BY DEF TypeOK, RowState, TierOf
<1> HIDE DEF r
<1>3. x \in WorkState /\ x.at = "mapping" /\ x.event = work[a].event
  BY <1>2 DEF WorkState, TypeOK, Step
<1>4. UNCHANGED <<event, claimed, completed, overlapped, raced>>
  BY DEF MapPrevious, histories
<1> HIDE DEF x
<1>5. /\ work' \in [Action -> WorkState] /\ work'[a] = x
      /\ \A b \in Action : b # a => work'[b] = work[b]
  BY <1>1, <1>3 DEF TypeOK, WorkState
<1> QED BY <1>1, <1>3, <1>4, <1>5 DEF Proceeds, Busy

\* Every step of an execution goes on with its event or ends it.
LEMMA ExecutionSteps ==
  ASSUME TypeOK, WorkSound, NEW a \in Action, Processing(a) \/ Faulty(a)
  PROVE  /\ work' \in [Action -> WorkState]
         /\ Proceeds(a) \/ Ends(a)
<1> USE DEF Step
<1>1. CASE LookUp(a)
  BY <1>1, LookUpEffect
<1>2. CASE CreateSubscription(a)
  <2>1. Goes(a, "mapping") /\ Busy(a)
    BY <1>2 DEF CreateSubscription, Busy
  <2>2. UNCHANGED <<event, claimed, completed, overlapped, raced>>
    BY <1>2 DEF CreateSubscription, histories
  <2> QED BY <2>1, <2>2, GoesEffect DEF Proceeds, Busy
<1>3. CASE UpdateSubscription(a)
  <2> DEFINE step == IF Subject(a).kind = "updated" THEN "comparing"
                     ELSE IF Subject(a).kind = "revoked" THEN "gracing" ELSE "done"
  <2>1. Goes(a, step) /\ Busy(a) /\ step \in Step /\ step # "idle"
    BY <1>3 DEF UpdateSubscription, Busy
  <2>2. UNCHANGED <<event, claimed, completed, overlapped, raced>>
    BY <1>3 DEF UpdateSubscription, histories
  <2> HIDE DEF step
  <2> QED BY <2>1, <2>2, GoesEffect DEF Proceeds, Busy
<1>4. CASE MapProduct(a)
  <2>1. Moves(a, NextStep(a)) /\ Busy(a) /\ NextStep(a) \in Step /\ NextStep(a) # "idle"
    BY <1>4 DEF MapProduct, Reads, Busy, NextStep
  <2>2. UNCHANGED <<event, claimed, completed, overlapped, raced>>
    BY <1>4 DEF MapProduct, Reads, histories
  <2> QED BY <2>1, <2>2, MovesEffect DEF Proceeds, Busy
<1>5. CASE MapFails(a)
  <2>1. Moves(a, "failed") /\ Busy(a)
    BY <1>5 DEF MapFails, Busy
  <2>2. UNCHANGED <<event, claimed, completed, overlapped, raced>>
    BY <1>5 DEF MapFails
  <2> QED BY <2>1, <2>2, MovesEffect DEF Proceeds, Busy
<1>6. CASE SyncUserTier(a)
  <2> DEFINE step == IF work[a].at = "syncing" THEN "clearing" ELSE "done"
  <2>1. Goes(a, step) /\ Busy(a) /\ step \in Step /\ step # "idle"
    BY <1>6 DEF SyncUserTier, Busy
  <2>2. UNCHANGED <<event, claimed, completed, overlapped, raced>>
    BY <1>6 DEF SyncUserTier, histories
  <2> HIDE DEF step
  <2> QED BY <2>1, <2>2, GoesEffect DEF Proceeds, Busy
<1>7. CASE ClearGracePeriod(a) \/ CreateGracePeriod(a)
  <2>1. Goes(a, "done") /\ Busy(a)
    BY <1>7 DEF ClearGracePeriod, CreateGracePeriod, Busy
  <2>2. UNCHANGED <<event, claimed, completed, overlapped, raced>>
    BY <1>7 DEF ClearGracePeriod, CreateGracePeriod, histories
  <2> QED BY <2>1, <2>2, GoesEffect DEF Proceeds, Busy
<1>8. CASE Throws(a)
  <2>1. Moves(a, "broken") /\ Busy(a)
    BY <1>8 DEF Throws, Reads, Busy
  <2>2. UNCHANGED <<event, claimed, completed, overlapped, raced>>
    BY <1>8 DEF Throws, Reads, histories
  <2> QED BY <2>1, <2>2, MovesEffect DEF Proceeds, Busy
<1>9. CASE Return(a) \/ Release(a) \/ Stops(a)
  <2>1. work' = [work EXCEPT ![a] = Idle]
    BY <1>9 DEF Return, Release, Stops
  <2>2. /\ work' \in [Action -> WorkState] /\ work'[a].at = "idle"
        /\ \A b \in Action : b # a => work'[b] = work[b]
    BY <2>1, IdleType DEF TypeOK, WorkState
  <2>3. Busy(a) /\ ~ Busy(a)'
    BY <1>9, <2>2 DEF Return, Release, Stops, Busy
  <2>4. UNCHANGED <<event, row, tier, graceActive, graceFor, overlapped, raced>>
    BY <1>9 DEF Return, Release, Stops, tierVars, histories
  <2>5. \/ UNCHANGED <<claimed, completed>>
        \/ /\ UNCHANGED claimed /\ completed' = completed \cup {work[a].event}
           /\ work[a].at = "done"
        \/ /\ claimed' = claimed \ {work[a].event} /\ UNCHANGED completed
           /\ work[a].at # "done"
    BY <1>9 DEF Return, Release, Stops, histories
  <2> QED BY <2>2, <2>3, <2>4, <2>5 DEF Ends
<1>10. CASE MapPrevious(a)
  BY <1>10, MapPreviousEffect
<1> QED BY <1>1, <1>2, <1>3, <1>4, <1>5, <1>6, <1>7, <1>8, <1>9, <1>10 DEF Processing, Faulty

\* An event is claimed and its execution begins.
LEMMA ReceiveEffect ==
  ASSUME TypeOK, NEW a \in Action, NEW e \in Event, Receive(a, e)
  PROVE  /\ work' \in [Action -> WorkState]
         /\ ~ Busy(a) /\ e \in Sent \ claimed /\ claimed' = claimed \cup {e}
         /\ work'[a].event = e /\ work'[a].old = NoRow
         /\ work'[a].at = IF event[e].kind = "created" THEN "creating" ELSE "looking"
         /\ \A b \in Action : b # a => work'[b] = work[b]
         /\ overlapped' = (overlapped \/ \E b \in Action : Busy(b))
         /\ UNCHANGED <<event, acknowledged, row, tierVars, seeded, completed, refused, raced>>
<1> DEFINE to == IF event[e].kind = "created" THEN "creating" ELSE "looking"
           x == [at |-> to, event |-> e, old |-> NoRow]
<1>1. work' = [work EXCEPT ![a] = x]
  BY DEF Receive
<1>2. x \in WorkState /\ x.at = to /\ x.event = e /\ x.old = NoRow
  BY IdleType DEF WorkState, Step
<1> HIDE DEF x
<1>3. /\ work' \in [Action -> WorkState] /\ work'[a] = x
      /\ \A b \in Action : b # a => work'[b] = work[b]
  BY <1>1, <1>2 DEF TypeOK, WorkState
<1> QED BY <1>2, <1>3 DEF Receive

\* Every step is a step of an execution, begins one, or leaves them alone.
LEMMA Cases ==
  ASSUME [Next]_vars
  PROVE  \/ \E a \in Action : Processing(a) \/ Faulty(a)
         \/ \E a \in Action, e \in Event : Receive(a, e)
         \/ \E e \in Event : Skip(e)
         \/ \E p \in Product : Seed(p)
         \/ ExpireGracePeriods
         \/ Tick
         \/ UNCHANGED vars
BY DEF Next, Delivering

LEMMA InitSound == Init => Sound /\ EndsSound /\ GrantsSound /\ GraceSound
<1> SUFFICES ASSUME Init PROVE Sound /\ EndsSound /\ GrantsSound /\ GraceSound
  OBVIOUS
<1>1. work \in [Action -> WorkState] /\ \A a \in Action : work[a].at = "idle"
  BY IdleType DEF Init
<1>2. row \in [Subscription -> RowState]
  BY BillingConstants, IdleType DEF Init, RowState, Status
<1>3. tier \in Product \cup {Default}
  BY BillingConstants DEF Init, Held
<1>4. 0 \in 0..GracePeriod /\ 0 \in 0..Cooldown
  BY BillingConstants
<1>5. seeded \subseteq Product
  BY BillingConstants DEF Init
<1>6. TypeOK
  BY <1>1, <1>2, <1>3, <1>4, <1>5 DEF Init, TypeOK, WorkState
<1> QED BY <1>1, <1>6 DEF Init, Sound, WorkSound, WaysSound, RowsSound, EndsSound, GrantsSound,
            GraceSound, Busy

\* What an execution writes into a row.
LEMMA RowEffect ==
  ASSUME TypeOK, WorkSound, NEW a \in Action, Busy(a),
         CreateSubscription(a) \/ UpdateSubscription(a)
  PROVE  /\ row' \in [Subscription -> RowState]
         /\ row'[Key(a)].status = IF work[a].at = "updating" /\ Subject(a).kind = "revoked"
                                  THEN "revoked" ELSE Subject(a).status
         /\ \A s \in Subscription : s # Key(a) => row'[s] = row[s]
<1>1. Subject(a) \in EventState /\ Key(a) \in Subscription
  BY SubjectType
<1>2. row[Key(a)] \in RowState /\ row[Key(a)].product \in Product \cup {Default}
  BY <1>1 DEF TypeOK, RowState
<1>3. \E status \in Status, product \in Product \cup {Default} :
        /\ row' = [row EXCEPT ![Key(a)] = [status |-> status, product |-> product]]
        /\ status = IF work[a].at = "updating" /\ Subject(a).kind = "revoked"
                    THEN "revoked" ELSE Subject(a).status
  <2>1. Subject(a).status \in Status /\ "revoked" \in Status /\ Subject(a).product \in Product
    BY <1>1 DEF EventState, Status
  <2>2. CASE CreateSubscription(a)
    <3> DEFINE product == IF row[Key(a)] = NoRow THEN Subject(a).product
                          ELSE row[Key(a)].product
    <3>1. /\ row' = [row EXCEPT ![Key(a)] = [status |-> Subject(a).status,
                                            product |-> product]]
          /\ work[a].at = "creating"
      BY <2>2 DEF CreateSubscription
    <3>2. product \in Product \cup {Default}
      BY <1>2, <2>1
    <3> HIDE DEF product
    <3> QED BY <2>1, <3>1, <3>2
  <2>3. CASE UpdateSubscription(a)
    <3> DEFINE product == IF Subject(a).kind = "updated" THEN Subject(a).product
                          ELSE row[Key(a)].product
               status == IF Subject(a).kind = "revoked" THEN "revoked" ELSE Subject(a).status
    <3>1. /\ row' = [row EXCEPT ![Key(a)] = [status |-> status, product |-> product]]
          /\ work[a].at = "updating"
      BY <2>3 DEF UpdateSubscription
    <3>2. product \in Product \cup {Default} /\ status \in Status
      BY <1>2, <2>1
    <3> HIDE DEF product
    <3> QED BY <2>1, <3>1, <3>2
  <2> QED BY <2>2, <2>3
<1>4. PICK status \in Status, product \in Product \cup {Default} :
        /\ row' = [row EXCEPT ![Key(a)] = [status |-> status, product |-> product]]
        /\ status = IF work[a].at = "updating" /\ Subject(a).kind = "revoked"
                    THEN "revoked" ELSE Subject(a).status
  BY <1>3
<1> DEFINE r == [status |-> status, product |-> product]
<1>5. r \in RowState /\ r.status = status
  BY DEF RowState
<1> HIDE DEF r
<1>6. row' = [row EXCEPT ![Key(a)] = r]
  BY <1>4 DEF r
<1> QED BY <1>1, <1>4, <1>5, <1>6 DEF TypeOK

LEMMA TypeStep ==
  ASSUME TypeOK, WorkSound, [Next]_vars
  PROVE  TypeOK'
<1> USE DEF TypeOK, tierVars, histories
<1>1. ASSUME NEW a \in Action, Processing(a) \/ Faulty(a) PROVE TypeOK'
  <2>1. work' \in [Action -> WorkState] /\ Busy(a)
    BY <1>1, ExecutionSteps DEF Proceeds, Ends
  <2>2. /\ work[a].event \in Sent /\ Subject(a) \in EventState /\ Key(a) \in Subscription
    BY <2>1, SubjectType
  <2>3. CASE LookUp(a) \/ MapPrevious(a) \/ MapProduct(a) \/ Throws(a)
    BY <2>1, <2>3 DEF LookUp, MapPrevious, MapProduct, Throws, Reads, WorkState, Sent
  <2>4. CASE CreateSubscription(a) \/ UpdateSubscription(a)
    <3>1. row' \in [Subscription -> RowState]
      BY <2>1, <2>2, <2>4, RowEffect
    <3> QED BY <2>1, <2>4, <3>1 DEF CreateSubscription, UpdateSubscription, WorkState, Sent
  <2>5. CASE MapFails(a)
    BY <2>1, <2>2, <2>5 DEF MapFails, WorkState, Sent
  <2>6. CASE SyncUserTier(a)
    BY <2>1, <2>2, <2>6 DEF SyncUserTier, WorkState, Sent, EventState
  <2>7. CASE ClearGracePeriod(a)
    BY <2>1, <2>7 DEF ClearGracePeriod, WorkState, Sent
  <2>8. CASE CreateGracePeriod(a)
    <3>1. GracePeriod \in 0..GracePeriod /\ Cooldown \in 0..Cooldown
      BY BillingConstants
    <3>2. graceFor' \in Event \cup {NoEvent}
      BY <2>8 DEF CreateGracePeriod, WorkState
    <3> QED BY <2>1, <2>8, <3>1, <3>2 DEF CreateGracePeriod, WorkState, Sent
  <2>9. CASE Return(a) \/ Release(a) \/ Stops(a)
    BY <2>1, <2>2, <2>9 DEF Return, Release, Stops, WorkState, Sent
  <2> QED BY <1>1, <2>3, <2>4, <2>5, <2>6, <2>7, <2>8, <2>9 DEF Processing, Faulty
<1>2. ASSUME NEW a \in Action, NEW e \in Event, Receive(a, e) PROVE TypeOK'
  BY <1>2, ReceiveEffect DEF WorkState, Sent
<1>3. ASSUME NEW e \in Event, Skip(e) PROVE TypeOK'
  BY <1>3 DEF Skip, Sent
<1>4. ASSUME NEW p \in Product, Seed(p) PROVE TypeOK'
  BY <1>4 DEF Seed, Sent
<1>5. CASE ExpireGracePeriods
  BY <1>5 DEF ExpireGracePeriods, Sent
<1>6. CASE Tick
  BY <1>6, BillingConstants DEF Tick, Elapse, Sent
<1>7. CASE UNCHANGED vars
  BY <1>7 DEF vars, Sent
<1> QED BY <1>1, <1>2, <1>3, <1>4, <1>5, <1>6, <1>7, Cases

LEMMA WorkStep ==
  ASSUME TypeOK, WorkSound, [Next]_vars
  PROVE  WorkSound'
<1> USE DEF WorkSound, Busy
<1>1. ASSUME NEW a \in Action, Processing(a) \/ Faulty(a) PROVE WorkSound'
  <2>1. CASE Proceeds(a)
    BY <2>1 DEF Proceeds
  <2>2. CASE Ends(a)
    <3>1. /\ Busy(a) /\ work'[a].at = "idle" /\ UNCHANGED overlapped
          /\ \A b \in Action : b # a => work'[b] = work[b]
      BY <2>2 DEF Ends
    <3>2. CASE UNCHANGED claimed /\ completed' \in {completed, completed \cup {work[a].event}}
      BY <3>1, <3>2
    <3>3. CASE claimed' = claimed \ {work[a].event} /\ UNCHANGED completed
      BY <3>1, <3>3
    <3> QED BY <2>2, <3>2, <3>3 DEF Ends
  <2> QED BY <1>1, <2>1, <2>2, ExecutionSteps
<1>2. ASSUME NEW a \in Action, NEW e \in Event, Receive(a, e) PROVE WorkSound'
  <2>1. /\ ~ Busy(a) /\ e \notin claimed /\ claimed' = claimed \cup {e}
        /\ work'[a].event = e /\ UNCHANGED completed
        /\ \A b \in Action : b # a => work'[b] = work[b]
        /\ overlapped' = (overlapped \/ \E b \in Action : Busy(b))
    BY <1>2, ReceiveEffect
  <2>2. \A b \in Action : Busy(b)' => work'[b].event \in claimed' \ completed'
    BY <2>1
  <2>3. \A b, c \in Action :
          Busy(b)' /\ Busy(c)' /\ work'[b].event = work'[c].event => b = c
    BY <2>1
  <2>4. ~ overlapped' => \A b, c \in Action : Busy(b)' /\ Busy(c)' => b = c
    BY <2>1, Zenon
  <2> QED BY <2>1, <2>2, <2>3, <2>4
<1>3. ASSUME NEW e \in Event, Skip(e) PROVE WorkSound'
  BY <1>3 DEF Skip, histories
<1>4. ASSUME NEW p \in Product, Seed(p) PROVE WorkSound'
  BY <1>4 DEF Seed, histories
<1>5. CASE ExpireGracePeriods \/ Tick
  BY <1>5 DEF ExpireGracePeriods, Tick, histories
<1>6. CASE UNCHANGED vars
  BY <1>6 DEF vars, histories
<1> QED BY <1>1, <1>2, <1>3, <1>4, <1>5, <1>6, Cases

-----------------------------------------------------------------------------
(* The ways through the action.                                            *)

\* Where an execution that goes on comes from and goes to.
LEMMA Outcomes ==
  ASSUME TypeOK, WorkSound, NEW a \in Action, Processing(a) \/ Faulty(a), Proceeds(a)
  PROVE  /\ work[a].at # "done"
         /\ work[a].at \notin {"looking", "comparing"} => work'[a].old = work[a].old
         /\ \/ work'[a].at \in {"failed", "broken"}
            \/ work[a].at = "looking" /\ work'[a].at = "updating"
            \/ /\ work[a].at = "looking" /\ work'[a].at = "creating"
               /\ Subject(a).kind = "updated"
            \/ CreateSubscription(a) /\ work[a].at = "creating" /\ work'[a].at = "mapping"
            \/ /\ UpdateSubscription(a) /\ work[a].at = "updating" /\ work'[a].at = "comparing"
               /\ Subject(a).kind = "updated"
            \/ MapPrevious(a) /\ work[a].at = "comparing" /\ work'[a].at = "mapping"
            \/ /\ UpdateSubscription(a) /\ work[a].at = "updating" /\ work'[a].at = "gracing"
               /\ Subject(a).kind = "revoked"
            \/ /\ UpdateSubscription(a) /\ work[a].at = "updating" /\ work'[a].at = "done"
               /\ Subject(a).kind \in {"canceled", "created"}
            \/ MapProduct(a) /\ work[a].at = "mapping" /\ work'[a].at = NextStep(a)
            \/ SyncUserTier(a) /\ work[a].at = "syncing" /\ work'[a].at = "clearing"
            \/ SyncUserTier(a) /\ work[a].at = "changing" /\ work'[a].at = "done"
            \/ ClearGracePeriod(a) /\ work[a].at = "clearing" /\ work'[a].at = "done"
            \/ CreateGracePeriod(a) /\ work[a].at = "gracing" /\ work'[a].at = "done"
<1> USE DEF Step
<1>1. CASE LookUp(a)
  <2>1. work[a].at = "looking"
    BY <1>1 DEF LookUp
  <2> QED BY <1>1, <2>1, LookUpEffect
<1>2. CASE CreateSubscription(a)
  <2>1. Goes(a, "mapping") /\ work[a].at = "creating"
    BY <1>2 DEF CreateSubscription
  <2> QED BY <1>2, <2>1, GoesEffect
<1>3. CASE UpdateSubscription(a)
  <2> DEFINE step == IF Subject(a).kind = "updated" THEN "comparing"
                     ELSE IF Subject(a).kind = "revoked" THEN "gracing" ELSE "done"
  <2>1. Goes(a, step) /\ work[a].at = "updating"
    BY <1>3 DEF UpdateSubscription
  <2>2. step \in Step
    OBVIOUS
  <2>3. Subject(a).kind \in {"created", "updated", "canceled", "revoked"}
    BY <2>1, SubjectType DEF EventState, Busy
  <2>4. /\ work'[a].at \in {step, "broken"} /\ work'[a].old = work[a].old
    <3> HIDE DEF step
    <3> QED BY <2>1, <2>2, GoesEffect
  <2> QED BY <1>3, <2>1, <2>3, <2>4
<1>4. CASE MapProduct(a)
  <2>1. Moves(a, NextStep(a)) /\ work[a].at = "mapping" /\ NextStep(a) \in Step
    BY <1>4 DEF MapProduct, Reads, NextStep
  <2> QED BY <1>4, <2>1, MovesEffect
<1>5. CASE MapFails(a)
  <2>1. Moves(a, "failed") /\ work[a].at = "mapping"
    BY <1>5 DEF MapFails
  <2> QED BY <2>1, MovesEffect
<1>6. CASE SyncUserTier(a)
  <2> DEFINE step == IF work[a].at = "syncing" THEN "clearing" ELSE "done"
  <2>1. Goes(a, step) /\ step \in Step /\ work[a].at \in {"syncing", "changing"}
    BY <1>6 DEF SyncUserTier
  <2>2. /\ work'[a].at \in {step, "broken"} /\ work'[a].old = work[a].old
    <3> HIDE DEF step
    <3> QED BY <2>1, GoesEffect
  <2> QED BY <1>6, <2>1, <2>2
<1>7. CASE ClearGracePeriod(a)
  <2>1. Goes(a, "done") /\ work[a].at = "clearing"
    BY <1>7 DEF ClearGracePeriod
  <2> QED BY <1>7, <2>1, GoesEffect
<1>8. CASE CreateGracePeriod(a)
  <2>1. Goes(a, "done") /\ work[a].at = "gracing"
    BY <1>8 DEF CreateGracePeriod
  <2> QED BY <1>8, <2>1, GoesEffect
<1>9. CASE Throws(a)
  <2>1. Moves(a, "broken") /\ work[a].at # "done"
    BY <1>9 DEF Throws, Reads
  <2> QED BY <2>1, MovesEffect
<1>10. CASE Return(a) \/ Release(a) \/ Stops(a)
  <2>1. work' = [work EXCEPT ![a] = Idle]
    BY <1>10 DEF Return, Release, Stops
  <2>2. ~ Busy(a)'
    BY <2>1, IdleType DEF TypeOK, Busy
  <2> QED BY <2>2 DEF Proceeds
<1>11. CASE MapPrevious(a)
  <2>1. work[a].at = "comparing"
    BY <1>11 DEF MapPrevious
  <2> QED BY <1>11, <2>1, MapPreviousEffect
<1> QED BY <1>1, <1>2, <1>3, <1>4, <1>5, <1>6, <1>7, <1>8, <1>9, <1>10, <1>11
        DEF Processing, Faulty

LEMMA WaysStep ==
  ASSUME TypeOK, WorkSound, WaysSound, [Next]_vars
  PROVE  WaysSound'
<1>1. ASSUME NEW a \in Action, Processing(a) \/ Faulty(a) PROVE WaysSound'
  <2>1. UNCHANGED event /\ \A b \in Action : b # a => work'[b] = work[b]
    BY <1>1, ExecutionSteps DEF Proceeds, Ends
  <2>2. \A b \in Action : b # a /\ Busy(b)' => Way(b)'
    BY <2>1 DEF WaysSound, Way, Busy, Subject
  <2>3. CASE Proceeds(a)
    <3>1. Busy(a) /\ Way(a) /\ Subject(a)' = Subject(a)
      BY <2>3 DEF WaysSound, Proceeds, Subject
    <3>2. NextStep(a) \in {"done", "syncing", "changing"}
          /\ (NextStep(a) # "done" => IsActive(Subject(a)))
          /\ (work[a].old = NoRow => NextStep(a) # "changing")
      BY DEF NextStep, IsActive, NoRow
    <3>3. Way(a)'
      BY <1>1, <2>3, <3>1, <3>2, Outcomes DEF Way, IsActive
    <3> QED BY <2>2, <3>3 DEF WaysSound
  <2>4. CASE Ends(a)
    BY <2>2, <2>4 DEF WaysSound, Ends
  <2> QED BY <1>1, <2>3, <2>4, ExecutionSteps
<1>2. ASSUME NEW a \in Action, NEW e \in Event, Receive(a, e) PROVE WaysSound'
  <2>1. /\ UNCHANGED event /\ work'[a].event = e /\ work'[a].old = NoRow
        /\ work'[a].at = IF event[e].kind = "created" THEN "creating" ELSE "looking"
        /\ \A b \in Action : b # a => work'[b] = work[b]
    BY <1>2, ReceiveEffect
  <2>2. \A b \in Action : b # a /\ Busy(b)' => Way(b)'
    BY <2>1 DEF WaysSound, Way, Busy, Subject
  <2>3. Way(a)'
    BY <2>1 DEF Way, Subject
  <2> QED BY <2>2, <2>3 DEF WaysSound
<1>3. ASSUME UNCHANGED <<event, work>> PROVE WaysSound'
  BY <1>3 DEF WaysSound, Way, Busy, Subject, IsActive
<1>4. (\E e \in Event : Skip(e)) \/ (\E p \in Product : Seed(p)) \/ ExpireGracePeriods
      \/ Tick \/ UNCHANGED vars => UNCHANGED <<event, work>>
  BY DEF Skip, Seed, ExpireGracePeriods, Tick, vars
<1> QED BY <1>1, <1>2, <1>3, <1>4, Cases

-----------------------------------------------------------------------------
(* An execution on its own.                                                *)

\* What has overlapped or raced once stays so.
LEMMA ExcusesStay ==
  ASSUME TypeOK, WorkSound, [Next]_vars
  PROVE  (overlapped => overlapped') /\ (raced => raced')
<1>1. ASSUME NEW a \in Action, Processing(a) \/ Faulty(a)
      PROVE  UNCHANGED <<overlapped, raced>>
  BY <1>1, ExecutionSteps DEF Proceeds, Ends
<1>2. ASSUME NEW a \in Action, NEW e \in Event, Receive(a, e)
      PROVE  (overlapped => overlapped') /\ (raced => raced')
  BY <1>2 DEF Receive
<1>3. CASE ExpireGracePeriods
  <2>1. raced' = (raced \/ \E a \in Action : Busy(a)) /\ overlapped' = overlapped
    BY <1>3 DEF ExpireGracePeriods
  <2> QED BY <2>1, Zenon
<1>4. (\E e \in Event : Skip(e)) \/ (\E p \in Product : Seed(p)) \/ Tick \/ UNCHANGED vars
        => UNCHANGED <<overlapped, raced>>
  BY DEF Skip, Seed, Tick, vars, histories
<1> QED BY <1>1, <1>2, <1>3, <1>4, Cases

\* While none overlap, one that takes a step is the only one.
LEMMA OnItsOwn ==
  ASSUME TypeOK, WorkSound, [Next]_vars, ~ overlapped',
         NEW a \in Action, Processing(a) \/ Faulty(a),
         NEW b \in Action, Busy(b)'
  PROVE  b = a /\ Proceeds(a) /\ ~ overlapped /\ Subject(a)' = Subject(a) /\ Key(a)' = Key(a)
<1>1. ~ overlapped
  BY ExcusesStay
<1>2. Proceeds(a) \/ Ends(a)
  BY ExecutionSteps
<1>3. b = a
  BY <1>1, <1>2 DEF Proceeds, Ends, WorkSound, Busy
<1>4. Proceeds(a)
  BY <1>2, <1>3 DEF Ends
<1> QED BY <1>1, <1>3, <1>4 DEF Proceeds, Subject, Key

\* One that begins is the only one as well.
LEMMA FirstOfAll ==
  ASSUME TypeOK, NEW a \in Action, NEW e \in Event, Receive(a, e), ~ overlapped',
         NEW b \in Action, Busy(b)'
  PROVE  work'[b].at \in {"creating", "looking"}
<1>1. overlapped' = (overlapped \/ \E c \in Action : Busy(c))
  BY ReceiveEffect
<1>2. ~ Busy(b)
  BY <1>1, Zenon
<1>3. b = a
  BY <1>2, ReceiveEffect DEF Busy
<1> QED BY <1>3, ReceiveEffect

LEMMA RowsStep ==
  ASSUME Sound, [Next]_vars
  PROVE  RowsSound'
<1> USE DEF Sound
<1> SUFFICES ASSUME ~ overlapped', NEW b \in Action,
                    work'[b].at \in {"comparing", "mapping", "syncing", "changing", "clearing"}
             PROVE  row'[Key(b)'].status = Subject(b)'.status
  BY DEF RowsSound
<1>1. Busy(b)' /\ ~ overlapped
  BY ExcusesStay DEF Busy
<1>2. ASSUME NEW a \in Action, Processing(a) \/ Faulty(a)
      PROVE  row'[Key(b)'].status = Subject(b)'.status
  <2>1. b = a /\ Proceeds(a) /\ Subject(a)' = Subject(a) /\ Key(a)' = Key(a)
    BY <1>1, <1>2, OnItsOwn
  <2>2. CASE CreateSubscription(a) \/ UpdateSubscription(a)
    <3>1. row'[Key(a)].status = IF work[a].at = "updating" /\ Subject(a).kind = "revoked"
                                THEN "revoked" ELSE Subject(a).status
      BY <2>1, <2>2, RowEffect DEF Proceeds
    <3>2. work[a].at = "updating" => Subject(a).kind = "updated"
      <4>1. work[a].at \in {"creating", "updating"}
        BY <2>2 DEF CreateSubscription, UpdateSubscription
      <4> QED BY <1>2, <2>1, <4>1, Outcomes
    <3> QED BY <2>1, <3>1, <3>2
  <2>3. CASE ~ (CreateSubscription(a) \/ UpdateSubscription(a))
    <3>1. work[a].at \in {"comparing", "mapping", "syncing", "changing", "clearing"}
      BY <1>2, <2>1, <2>3, Outcomes
    <3>2. UNCHANGED row
      BY <1>2, <2>3 DEF Processing, Faulty, LookUp, MapPrevious, MapProduct, MapFails, SyncUserTier,
         ClearGracePeriod, CreateGracePeriod, Return, Throws, Release, Stops, Reads
    <3> QED BY <1>1, <2>1, <3>1, <3>2 DEF RowsSound
  <2> QED BY <2>2, <2>3
<1>3. ASSUME NEW a \in Action, NEW e \in Event, Receive(a, e) PROVE FALSE
  BY <1>1, <1>3, FirstOfAll
<1>4. ASSUME UNCHANGED <<event, row, work>> PROVE row'[Key(b)'].status = Subject(b)'.status
  BY <1>1, <1>4 DEF RowsSound, Key, Subject
<1>5. (\E e \in Event : Skip(e)) \/ (\E p \in Product : Seed(p)) \/ ExpireGracePeriods
      \/ Tick \/ UNCHANGED vars => UNCHANGED <<event, row, work>>
  BY DEF Skip, Seed, ExpireGracePeriods, Tick, vars
<1> QED BY <1>2, <1>3, <1>4, <1>5, Cases

LEMMA EndsStep ==
  ASSUME Sound, EndsSound, [Next]_vars
  PROVE  EndsSound'
<1> USE DEF Sound
<1> SUFFICES ASSUME ~ overlapped', NEW b \in Action,
                    work'[b].at = "done", Subject(b)'.kind = "revoked"
             PROVE  tier' = Default \/ graceActive'
  BY DEF EndsSound
<1>1. Busy(b)' /\ ~ overlapped
  BY ExcusesStay DEF Busy
<1>2. ASSUME NEW a \in Action, Processing(a) \/ Faulty(a) PROVE tier' = Default \/ graceActive'
  <2>1. b = a /\ Proceeds(a) /\ Subject(a)' = Subject(a)
    BY <1>1, <1>2, OnItsOwn
  <2>2. Way(a) /\ Busy(a)
    BY <2>1 DEF Proceeds, WaysSound
  <2>3. CreateGracePeriod(a)
    BY <1>2, <2>1, <2>2, Outcomes DEF Way
  <2> QED BY <2>3 DEF CreateGracePeriod
<1>3. ASSUME NEW a \in Action, NEW e \in Event, Receive(a, e) PROVE FALSE
  BY <1>1, <1>3, FirstOfAll
<1>4. CASE ExpireGracePeriods
  BY <1>4 DEF ExpireGracePeriods
<1>5. ASSUME UNCHANGED <<event, work, tier, graceActive>> PROVE tier' = Default \/ graceActive'
  BY <1>1, <1>5 DEF EndsSound, Subject
<1>6. (\E e \in Event : Skip(e)) \/ (\E p \in Product : Seed(p)) \/ Tick \/ UNCHANGED vars
        => UNCHANGED <<event, work, tier, graceActive>>
  BY DEF Skip, Seed, Tick, vars, tierVars
<1> QED BY <1>2, <1>3, <1>4, <1>5, <1>6, Cases

LEMMA GrantsStep ==
  ASSUME Sound, GrantsSound, [Next]_vars
  PROVE  GrantsSound'
<1> USE DEF Sound
<1> SUFFICES ASSUME ~ overlapped', ~ raced', NEW b \in Action, Busy(b)',
                    Subject(b)'.kind = "created",
                    \/ work'[b].at = "clearing"
                    \/ work'[b].at = "done" /\ IsActive(Subject(b)')
             PROVE  tier' = Subject(b)'.product
  BY DEF GrantsSound, Granted
<1>1. ~ overlapped /\ ~ raced
  BY ExcusesStay
<1>2. ASSUME NEW a \in Action, Processing(a) \/ Faulty(a) PROVE tier' = Subject(b)'.product
  <2>1. b = a /\ Proceeds(a) /\ Subject(a)' = Subject(a)
    BY <1>2, OnItsOwn
  <2>2. Way(a) /\ Busy(a)
    BY <2>1 DEF Proceeds, WaysSound
  <2>3. work[a].old = NoRow /\ ~ IsActive(NoRow)
    BY <2>1, <2>2 DEF Way, IsActive, NoRow
  <2>4. IsActive(Subject(a)) => NextStep(a) = "syncing"
    BY <2>3 DEF NextStep
  <2>5. NextStep(a) # "clearing"
    BY DEF NextStep
  <2>6. SyncUserTier(a) \/ (ClearGracePeriod(a) /\ work[a].at = "clearing")
    BY <1>2, <2>1, <2>2, <2>4, <2>5, Outcomes DEF Way
  <2>7. CASE SyncUserTier(a)
    BY <2>1, <2>7 DEF SyncUserTier
  <2>8. CASE ClearGracePeriod(a) /\ work[a].at = "clearing"
    <3>1. tier = Subject(a).product
      BY <1>1, <2>1, <2>2, <2>8 DEF GrantsSound
    <3> QED BY <2>1, <2>8, <3>1 DEF ClearGracePeriod
  <2> QED BY <2>6, <2>7, <2>8
<1>3. ASSUME NEW a \in Action, NEW e \in Event, Receive(a, e) PROVE FALSE
  BY <1>3, FirstOfAll
<1>4. ASSUME UNCHANGED <<event, work, tier>> PROVE tier' = Subject(b)'.product
  BY <1>1, <1>4 DEF GrantsSound, Granted, Subject, Busy
<1>5. ASSUME ExpireGracePeriods PROVE FALSE
  <2>1. raced' = (raced \/ \E a \in Action : Busy(a)) /\ UNCHANGED work
    BY <1>5 DEF ExpireGracePeriods
  <2>2. ~ Busy(b)
    BY <2>1, Zenon
  <2> QED BY <2>1, <2>2 DEF Busy
<1>6. (\E e \in Event : Skip(e)) \/ (\E p \in Product : Seed(p)) \/ Tick \/ UNCHANGED vars
        => UNCHANGED <<event, work, tier>>
  BY DEF Skip, Seed, Tick, vars, tierVars
<1> QED BY <1>2, <1>3, <1>4, <1>5, <1>6, Cases

LEMMA GraceStep ==
  ASSUME ~ AnswersLost, TypeOK, WorkSound, GraceSound, [Next]_vars
  PROVE  GraceSound'
<1>1. ASSUME NEW a \in Action, Processing(a) \/ Faulty(a) PROVE GraceSound'
  <2>1. CASE Ends(a)
    BY <2>1 DEF Ends, GraceSound, Busy
  <2>2. CASE Proceeds(a) /\ UNCHANGED graceFor
    <3>1. work[a].at # "done"
      BY <1>1, <2>2, Outcomes
    <3> QED BY <2>2, <3>1 DEF Proceeds, GraceSound, Busy
  <2>3. CASE Proceeds(a) /\ ~ UNCHANGED graceFor
    <3>1. CreateGracePeriod(a)
      BY <1>1, <2>3 DEF Processing, Faulty, LookUp, CreateSubscription, UpdateSubscription,
         MapPrevious, MapProduct, MapFails, SyncUserTier, ClearGracePeriod, Return, Throws, Release, Stops,
         Reads, tierVars
    <3>2. graceFor' = work[a].event /\ work'[a].at = "done"
      <4>1. Goes(a, "done") /\ "done" \in Step
        BY <3>1 DEF CreateGracePeriod, Step
      <4> QED BY <2>3, <3>1, <4>1, GoesEffect DEF CreateGracePeriod
    <3>3. \A b \in Action : Busy(b) /\ work[b].event = work[a].event => b = a
      BY <2>3 DEF Proceeds, WorkSound
    <3>4. work[a].event \in claimed
      BY <2>3 DEF Proceeds, WorkSound
    <3> QED BY <2>3, <3>2, <3>3, <3>4 DEF Proceeds, GraceSound, Busy
  <2> QED BY <1>1, <2>1, <2>2, <2>3, ExecutionSteps
<1>2. ASSUME NEW a \in Action, NEW e \in Event, Receive(a, e) PROVE GraceSound'
  BY <1>2, ReceiveEffect DEF GraceSound, Busy, tierVars
<1>3. ASSUME UNCHANGED <<claimed, work, graceFor>> PROVE GraceSound'
  BY <1>3 DEF GraceSound, Busy
<1>4. (\E e \in Event : Skip(e)) \/ (\E p \in Product : Seed(p)) \/ ExpireGracePeriods
      \/ Tick \/ UNCHANGED vars => UNCHANGED <<claimed, work, graceFor>>
  BY DEF Skip, Seed, ExpireGracePeriods, Tick, vars, tierVars
<1> QED BY <1>1, <1>2, <1>3, <1>4, Cases

-----------------------------------------------------------------------------
(* The properties.                                                         *)

\* A subscription that has just been written is not over.
LEMMA NotOver ==
  ASSUME TypeOK, WorkSound, RowsSound, ~ overlapped, NEW a \in Action, Busy(a),
         SyncUserTier(a) \/ ClearGracePeriod(a), WaysSound
  PROVE  ~ AllRevoked /\ UNCHANGED row
<1>1. UNCHANGED row /\ work[a].at \in {"syncing", "changing", "clearing"}
  BY DEF SyncUserTier, ClearGracePeriod
<1>2. row[Key(a)].status = Subject(a).status /\ Subject(a).status = "active"
  BY <1>1 DEF RowsSound, WaysSound, Way, IsActive
<1>3. Key(a) \in Subscription
  BY SubjectType
<1> QED BY <1>1, <1>2, <1>3 DEF AllRevoked

LEMMA PaidStep ==
  ASSUME Sound, EndsSound, NobodyStaysPaid, [Next]_vars
  PROVE  NobodyStaysPaid'
<1> USE DEF Sound
<1> DEFINE Missing == \E e \in Sent : event[e].kind = "revoked" /\ e \notin completed
<1> SUFFICES ASSUME AllRevoked', tier' # Default, ~ overlapped', ~ graceActive'
             PROVE  Missing'
  BY DEF NobodyStaysPaid
<1>1. ~ overlapped
  BY ExcusesStay
<1>2. ASSUME UNCHANGED <<event, row, tier, graceActive, completed>> PROVE Missing'
  BY <1>1, <1>2 DEF NobodyStaysPaid, AllRevoked, Sent
<1>3. ASSUME NEW a \in Action, Processing(a), Proceeds(a) PROVE Missing'
  <2>1. Busy(a) /\ UNCHANGED <<event, completed>>
    BY <1>3 DEF Proceeds
  <2>2. Subject(a) \in EventState /\ Key(a) \in Subscription /\ work[a].event \in Sent
    BY <2>1, SubjectType
  <2>3. CASE CreateSubscription(a) \/ UpdateSubscription(a)
    <3>1. row'[Key(a)].status = IF work[a].at = "updating" /\ Subject(a).kind = "revoked"
                                THEN "revoked" ELSE Subject(a).status
      BY <2>1, <2>3, RowEffect
    <3>2. Subject(a).kind = "revoked"
      BY <2>2, <3>1 DEF AllRevoked, EventState
    <3>3. work[a].event \notin completed
      BY <2>1 DEF WorkSound
    <3> QED BY <2>1, <2>2, <3>2, <3>3 DEF Subject, Sent
  <2>4. CASE SyncUserTier(a) \/ ClearGracePeriod(a)
    <3>1. ~ AllRevoked /\ UNCHANGED row
      BY <1>1, <2>1, <2>4, NotOver
    <3> QED BY <3>1 DEF AllRevoked
  <2>5. CASE CreateGracePeriod(a)
    BY <2>5 DEF CreateGracePeriod
  <2>6. CASE LookUp(a) \/ MapPrevious(a) \/ MapProduct(a) \/ MapFails(a)
    BY <1>2, <2>1, <2>6 DEF LookUp, MapPrevious, MapProduct, MapFails, Reads,
       tierVars
  <2>7. CASE Return(a) \/ Release(a)
    BY <1>2, <2>1, <2>7 DEF Return, Release, tierVars
  <2> QED BY <1>3, <2>3, <2>4, <2>5, <2>6, <2>7 DEF Processing
<1>4. ASSUME NEW a \in Action, Faulty(a), Proceeds(a) PROVE Missing'
  BY <1>2, <1>4 DEF Faulty, Throws, Stops, Reads, tierVars, Proceeds
<1>5. ASSUME NEW a \in Action, Ends(a) PROVE Missing'
  <2>1. UNCHANGED <<event, row, tier, graceActive>>
    BY <1>5 DEF Ends
  <2>2. PICK e \in Sent : event[e].kind = "revoked" /\ e \notin completed
    BY <1>1, <2>1 DEF NobodyStaysPaid, AllRevoked
  <2>3. CASE UNCHANGED completed
    BY <1>2, <2>1, <2>3
  <2>4. CASE completed' = completed \cup {work[a].event} /\ work[a].at = "done"
    <3>1. Subject(a).kind # "revoked"
      BY <1>1, <2>1, <2>4 DEF EndsSound
    <3>2. e # work[a].event
      BY <2>2, <3>1 DEF Subject
    <3> QED BY <2>1, <2>2, <2>4, <3>2 DEF Sent
  <2> QED BY <1>5, <2>3, <2>4 DEF Ends
<1>6. ASSUME NEW a \in Action, NEW e \in Event, Receive(a, e) PROVE Missing'
  BY <1>2, <1>6 DEF Receive, tierVars
<1>7. ASSUME ExpireGracePeriods PROVE FALSE
  BY <1>7 DEF ExpireGracePeriods
<1>8. (\E e \in Event : Skip(e)) \/ (\E p \in Product : Seed(p)) \/ Tick \/ UNCHANGED vars
        => UNCHANGED <<event, row, tier, graceActive, completed>>
  BY DEF Skip, Seed, Tick, vars, tierVars, histories
<1> QED BY <1>2, <1>3, <1>4, <1>5, <1>6, <1>7, <1>8, Cases, ExecutionSteps

LEMMA HonouredStep ==
  ASSUME ~ AnswersLost, TypeOK, WorkSound, GraceSound, [Next]_vars,
         tier # Default, tier' = Default
  PROVE  \/ graceLeft = 0
         \/ \E a \in Action : /\ work[a].at = "gracing" /\ work'[a].at # "gracing"
                              /\ work[a].event # graceFor
<1>1. ASSUME NEW a \in Action, Processing(a) \/ Faulty(a)
      PROVE  /\ work[a].at = "gracing" /\ work'[a].at # "gracing"
             /\ work[a].event # graceFor
  <2>1. Busy(a)
    BY <1>1, ExecutionSteps DEF Proceeds, Ends
  <2>2. Subject(a).product # Default
    BY <2>1, SubjectType, BillingConstants DEF EventState
  <2>3. CreateGracePeriod(a)
    BY <1>1, <2>2 DEF Processing, Faulty, LookUp, CreateSubscription, UpdateSubscription,
       MapPrevious, MapProduct, MapFails, SyncUserTier, ClearGracePeriod, Return, Throws, Release, Stops,
       Reads, tierVars
  <2>4. work[a].at = "gracing" /\ Goes(a, "done") /\ "done" \in Step
    BY <2>3 DEF CreateGracePeriod, Step
  <2>5. work'[a].at # "gracing"
    BY <2>4, GoesEffect
  <2>6. work[a].event \in Event /\ work[a].event # NoEvent
    BY <2>1, SubjectType, BillingConstants
  <2> QED BY <2>1, <2>4, <2>5, <2>6 DEF GraceSound
<1>2. CASE ExpireGracePeriods
  BY <1>2 DEF ExpireGracePeriods
<1>3. ASSUME NEW a \in Action, NEW e \in Event, Receive(a, e) PROVE FALSE
  BY <1>3 DEF Receive, tierVars
<1>4. (\E e \in Event : Skip(e)) \/ (\E p \in Product : Seed(p)) \/ Tick \/ UNCHANGED vars
        => UNCHANGED tier
  BY DEF Skip, Seed, Tick, vars, tierVars
<1> QED BY <1>1, <1>2, <1>3, <1>4, Cases

LEMMA SoundAlways == Spec => []Sound
<1>1. Init => Sound
  BY InitSound
<1>2. Sound /\ [Next]_vars => Sound'
  BY TypeStep, WorkStep, WaysStep, RowsStep DEF Sound
<1> QED BY <1>1, <1>2, PTL DEF Spec

(* Every variable of the billing model keeps its type, for any events and  *)
(* executions of processWebhookEvent.                                      *)
THEOREM TypeCorrect == Spec => []TypeOK
<1>1. Sound => TypeOK
  BY DEF Sound
<1> QED BY <1>1, SoundAlways, PTL

(* Who has only revoked subscriptions does not keep the paid tier without  *)
(* a grace period, once their revocations are processed, whatever fails,   *)
(* stops and is delivered again (_createGracePeriod of gracePeriods.ts).   *)
THEOREM RevokedLoseTier == Spec => []NobodyStaysPaid
<1>1. Init => NobodyStaysPaid /\ EndsSound
  <2> SUFFICES ASSUME Init PROVE NobodyStaysPaid /\ EndsSound
    OBVIOUS
  <2>1. EndsSound
    BY InitSound
  <2>2. AllRevoked => Held = {}
    BY BillingConstants DEF Init, AllRevoked, Held
  <2>3. AllRevoked => tier = Default
    BY <2>2 DEF Init
  <2> QED BY <2>1, <2>3 DEF NobodyStaysPaid
<1>2. Sound /\ EndsSound /\ NobodyStaysPaid /\ [Next]_vars => NobodyStaysPaid' /\ EndsSound'
  BY PaidStep, EndsStep
<1> QED BY <1>1, <1>2, SoundAlways, PTL DEF Spec

(* When an activation succeeds its tier is in force, whichever attempt it  *)
(* was (activateSubscriptionFromEvent of webhooks.ts).                     *)
THEOREM ActivationsGrant == Spec => []ActivationGrantsTier
<1>1. Init => GrantsSound
  BY InitSound
<1>2. Sound /\ GrantsSound /\ [Next]_vars => GrantsSound'
  BY GrantsStep
<1>3. GrantsSound => ActivationGrantsTier
  BY DEF GrantsSound, ActivationGrantsTier
<1> QED BY <1>1, <1>2, <1>3, SoundAlways, PTL DEF Spec

(* The default tier comes with the end of the grace period or with another *)
(* revocation, never with a second attempt at the same one, as long as no  *)
(* transaction commits and is seen to fail (_claimWebhook of webhooks.ts). *)
THEOREM GraceIsHonoured ==
  ASSUME ~ AnswersLost
  PROVE  Spec => GraceHonoured
<1>1. Init => GraceSound
  BY InitSound
<1>2. Sound /\ GraceSound /\ [Next]_vars => GraceSound'
  BY GraceStep DEF Sound
<1>3. Sound /\ GraceSound /\ [Next]_vars =>
        [tier # Default /\ tier' = Default =>
          \/ graceLeft = 0
          \/ \E a \in Action : /\ work[a].at = "gracing" /\ work'[a].at # "gracing"
                               /\ work[a].event # graceFor]_vars
  BY HonouredStep DEF Sound
<1> QED BY <1>1, <1>2, <1>3, SoundAlways, PTL DEF Spec, GraceHonoured
=============================================================================
