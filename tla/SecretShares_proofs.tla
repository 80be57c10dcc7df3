------------------------ MODULE SecretShares_proofs ------------------------
(***************************************************************************)
(* Proofs about SecretShares, for any shares, recipients, lifetimes and    *)
(* executions of the actions.                                              *)
(***************************************************************************)
EXTENDS SecretShares, FiniteSetTheorems, TLAPS

RevealState == [at : RevealAt, share : Share \cup {NoShare}]
RowStatus == {"none", "active", "burned", "expired", "revoked"}
On(v, s) == reveal[v].share = s
Holders(s) == {v \in Reveal : On(v, s)}

-----------------------------------------------------------------------------
(* The inductive invariant.                                                *)

\* A reveal has a share exactly while it is under way; only one-time shares
\* are deleted and unburned.
RevealsSound ==
  \A v \in Reveal :
    /\ reveal[v].at = "idle" <=> reveal[v].share = NoShare
    /\ reveal[v].at \in {"unburning", "deleting"} => reveal[v].share \in OneTime

\* What has no row yet was neither revealed nor read nor shown.
Unborn ==
  \A s \in Share : status[s] = "none" =>
    /\ \A v \in Reveal : ~ On(v, s)
    /\ s \in OneTime => s \notin fetched /\ shown[s] = 0

\* Opening a share, at its creation or from outside, allows one showing: the
\* share may be taken, or somebody has it, or it was shown.
Openings(s) == IF status[s] = "active" THEN 1 ELSE 0
Credit ==
  \A s \in OneTime : shown[s] + Cardinality(Holders(s)) + Openings(s) <= 1 + recalled[s]

\* A share that was read opens again from outside only, and until then no
\* other reveal has it.
FetchedShut ==
  \A s \in fetched : recalled[s] = 0 =>
    /\ status[s] # "active"
    /\ \A v \in Reveal : On(v, s) => reveal[v].at \in {"deleting", "returning"}

DeletedWasRead ==
  \A v \in Reveal : reveal[v].at = "deleting" => reveal[v].share \in fetched

RowsLater == \A s \in Share : creator[s] \in {"idle", "minted"} => status[s] = "none"

PurgedAreRevoked == \A s \in purging : status[s] = "revoked"

\* The ciphertext is there until it was read or revoked; of a refused share
\* only if no transaction commits behind the back of its caller.
Readable ==
  /\ \A s \in Share : creator[s] = "minted" => s \in stored
  /\ \A s \in Share : creator[s] = "refused" => status[s] = "none"
  /\ \A s \in Share : status[s] \in {"active", "burned"} => s \in stored \cup fetched

Sound == /\ TypeOK /\ RevealsSound /\ Unborn /\ Credit /\ FetchedShut /\ DeletedWasRead
         /\ RowsLater /\ PurgedAreRevoked

-----------------------------------------------------------------------------
(* Types.                                                                  *)

LEMMA Fields ==
  /\ Idle \in RevealState /\ Idle.at = "idle" /\ Idle.share = NoShare
  /\ \A step \in RevealAt, s \in Share :
       At(step, s) \in RevealState /\ At(step, s).at = step /\ At(step, s).share = s
BY DEF Idle, At, RevealState, RevealAt

\* What a step of a reveal makes of it.
Moved(v, x) == reveal' = [reveal EXCEPT ![v] = x]

LEMMA MovedEffect ==
  ASSUME TypeOK, NEW v \in Reveal, NEW x \in RevealState, Moved(v, x)
  PROVE  /\ reveal' \in [Reveal -> RevealState] /\ reveal'[v] = x
         /\ \A w \in Reveal : w # v => reveal'[w] = reveal[w]
BY DEF TypeOK, Moved, RevealState

\* What unburning makes of the rows.
LEMMA UnburnedEffect ==
  ASSUME status \in [Share -> RowStatus], NEW s \in Share, status' = Unburned(s)
  PROVE  /\ status' \in [Share -> RowStatus]
         /\ \A t \in Share : t # s => status'[t] = status[t]
         /\ s \in OneTime /\ status[s] = "burned" => status'[s] = "active"
         /\ ~ (s \in OneTime /\ status[s] = "burned") => status'[s] = status[s]
BY DEF Unburned, RowStatus

\* The steps of a reveal, with the share s it is about.
LEMMA RevealSteps ==
  ASSUME TypeOK, RevealsSound, NEW v \in Reveal, Revealing(v) \/ RevealCrashes(v)
  PROVE  \E s \in Share :
    /\ reveal[v].share = s /\ reveal[v].at # "idle"
    /\ UNCHANGED <<left, code, creator, purging, trashed, recalled>>
    /\ \/ /\ reveal[v].at = "reading" /\ s \in stored
          /\ Moved(v, At(IF s \in OneTime THEN "deleting" ELSE "returning", s))
          /\ fetched' = fetched \cup ({s} \cap OneTime)
          /\ UNCHANGED <<status, stored, shown, broken>>
       \/ /\ reveal[v].at = "reading" /\ s \in OneTime
          /\ Moved(v, At("unburning", s)) /\ UNCHANGED <<status, stored, shown, broken, fetched>>
       \/ /\ reveal[v].at = "reading" /\ s \notin OneTime
          /\ Moved(v, Idle) /\ UNCHANGED <<status, stored, shown, broken, fetched>>
       \/ /\ reveal[v].at = "unburning" /\ Moved(v, Idle) /\ status' = Unburned(s)
          /\ UNCHANGED <<stored, shown, broken, fetched>>
       \/ /\ reveal[v].at = "deleting" /\ Moved(v, At("returning", s))
          /\ stored' \in {stored, stored \ {s}} /\ UNCHANGED <<status, shown, broken, fetched>>
       \/ /\ reveal[v].at = "returning" /\ Moved(v, Idle)
          /\ shown' = [t \in OneTime |-> IF t = s /\ shown[t] < MaxShown
                                         THEN shown[t] + 1 ELSE shown[t]]
          /\ UNCHANGED <<status, stored, broken, fetched>>
       \/ /\ Moved(v, Idle) /\ broken' = broken \cup ({s} \cap OneTime)
          /\ UNCHANGED <<status, stored, shown, fetched>>
<1> DEFINE s == reveal[v].share
<1>1. reveal[v] \in RevealState /\ (reveal[v] = Idle => reveal[v].at = "idle")
  BY Fields DEF TypeOK, RevealState
<1>2. reveal[v].at # "idle"
  <2>1. CASE Revealing(v)
    BY <2>1 DEF Revealing, ReadSecret, ReadFails, Unburn, RestoreFails,
               DeleteRevealed, Return
  <2>2. CASE RevealCrashes(v)
    <3>1. reveal[v] # Idle
      BY <2>2 DEF RevealCrashes
    <3>2. reveal[v] = [at |-> reveal[v].at, share |-> reveal[v].share]
      BY <1>1 DEF RevealState
    <3>3. reveal[v].at = "idle" => reveal[v].share = NoShare
      BY DEF RevealsSound
    <3> QED BY <3>1, <3>2, <3>3 DEF Idle
  <2> QED BY <2>1, <2>2
<1>3. s \in Share
  BY <1>1, <1>2 DEF RevealState, RevealsSound
<1>4. CASE ReadSecret(v)
  BY <1>3, <1>4 DEF ReadSecret, Moved, rowVars
<1>5. CASE ReadFails(v)
  BY <1>3, <1>5 DEF ReadFails, Moved, rowVars, history
<1>6. CASE Unburn(v)
  BY <1>3, <1>6 DEF Unburn, Moved, history
<1>7. CASE RestoreFails(v) \/ RevealCrashes(v)
  BY <1>2, <1>3, <1>7 DEF RestoreFails, RevealCrashes, Moved, rowVars
<1>8. CASE DeleteRevealed(v)
  BY <1>3, <1>8 DEF DeleteRevealed, Moved, rowVars, history
<1>9. CASE Return(v)
  BY <1>3, <1>9 DEF Return, Moved, rowVars
<1> QED BY <1>4, <1>5, <1>6, <1>7, <1>8, <1>9 DEF Revealing

LEMMA TypeStep ==
  ASSUME TypeOK, RevealsSound, [Next]_vars
  PROVE  TypeOK'
<1>1. ASSUME NEW s \in Share, Mint(s) PROVE TypeOK'
  BY <1>1 DEF history, Mint, TypeOK, rowVars
<1>2. ASSUME NEW s \in Share, CreateShare(s) PROVE TypeOK'
  <2>1. Lifetime \in 0..Lifetime
    BY ShareConstants
  <2>2. creator' \in [Share -> {"idle", "minted", "refused", "done"}]
    BY <1>2 DEF history, CreateShare, TypeOK
  <2> QED BY <1>2, <2>1, <2>2 DEF history, CreateShare, TypeOK
<1>3. ASSUME NEW s \in Share, CreateRefused(s) \/ DiscardPayload(s) \/ CreatorCrashes(s)
      PROVE  TypeOK'
  BY <1>3 DEF history, CreateRefused, DiscardPayload, CreatorCrashes, TypeOK, rowVars
<1>4. ASSUME NEW s \in Share, NEW r \in Recipient, VerifyRecipientEmail(s, r) PROVE TypeOK'
  <2>1. CodeLifetime \in 0..CodeLifetime
    BY ShareConstants
  <2> QED BY <1>4, <2>1 DEF history, VerifyRecipientEmail, TypeOK
<1>5. ASSUME NEW v \in Reveal, NEW s \in Share, NEW r \in Recipient, VerifyOtp(v, s, r)
      PROVE  TypeOK'
  <2>1. 0 \in 0..CodeLifetime /\ At("reading", s) \in RevealState
    BY ShareConstants, Fields DEF RevealAt
  <2>2. code' \in [Share -> [Recipient -> 0..CodeLifetime]]
    BY <1>5, <2>1 DEF VerifyOtp, TypeOK
  <2>3. reveal' \in [Reveal -> RevealState]
    <3>1. reveal \in [Reveal -> RevealState]
      BY DEF TypeOK, RevealState
    <3> QED BY <1>5, <2>1, <3>1 DEF VerifyOtp
  <2>5. broken' \subseteq OneTime
    <3>1. broken' = broken \/ broken' = broken \cup ({s} \cap OneTime)
      BY <1>5 DEF VerifyOtp
    <3> QED BY <3>1 DEF TypeOK
  <2>4. status' \in [Share -> {"none", "active", "burned", "expired", "revoked"}]
    BY <1>5 DEF VerifyOtp, TypeOK
  <2> QED BY <1>5, <2>2, <2>3, <2>4, <2>5 DEF VerifyOtp, TypeOK, RevealState
<1>6. ASSUME NEW v \in Reveal, Revealing(v) \/ RevealCrashes(v) PROVE TypeOK'
  <2>1. PICK x \in RevealState : Moved(v, x)
    BY <1>6, RevealSteps, Fields DEF RevealAt
  <2>2. reveal' \in [Reveal -> RevealState]
    BY <2>1, MovedEffect
  <2>0. PICK s \in Share :
          /\ shown' = shown \/ shown' = [t \in OneTime |-> IF t = s /\ shown[t] < MaxShown
                                                        THEN shown[t] + 1 ELSE shown[t]]
          /\ status' = status \/ status' = Unburned(s)
    BY <1>6, RevealSteps
  <2>3. shown' \in [OneTime -> 0..MaxShown]
    <3>1. \A t \in OneTime : shown[t] \in 0..MaxShown /\ MaxShown \in Nat
      BY ShareConstants DEF TypeOK, MaxShown
    <3>2. \A t \in OneTime : (IF t = s /\ shown[t] < MaxShown THEN shown[t] + 1 ELSE shown[t])
                              \in 0..MaxShown
      BY <3>1
    <3> QED BY <2>0, <3>2 DEF TypeOK
  <2>4. status' \in [Share -> RowStatus]
    BY <2>0, UnburnedEffect DEF TypeOK, RowStatus
  <2>5. /\ stored' \subseteq Share /\ broken' \subseteq OneTime /\ fetched' \subseteq OneTime
        /\ UNCHANGED <<left, code, creator, purging, trashed, recalled>>
    BY <1>6, RevealSteps DEF TypeOK
  <2> QED BY <2>2, <2>3, <2>4, <2>5 DEF TypeOK, RevealState, RowStatus
<1>12. ASSUME NEW s \in Share, RestoreBurnedShare(s) PROVE TypeOK'
  <2>1. status' \in [Share -> RowStatus]
    BY <1>12, UnburnedEffect DEF RestoreBurnedShare, TypeOK, RowStatus
  <2>2. recalled' \in [OneTime -> 0..MaxRecalls]
    <3>1. recalled[s] \in 0..MaxRecalls /\ MaxRecalls \in Nat /\ recalled[s] < MaxRecalls
      BY <1>12, ShareConstants DEF RestoreBurnedShare, TypeOK
    <3>2. recalled[s] + 1 \in 0..MaxRecalls
      BY <3>1
    <3> QED BY <1>12, <3>2 DEF RestoreBurnedShare, TypeOK
  <2> QED BY <1>12, <2>1, <2>2 DEF RestoreBurnedShare, TypeOK, RowStatus
<1>7. ASSUME NEW s \in Share, RevokeShare(s) \/ PurgeRevoked(s) PROVE TypeOK'
  BY <1>7 DEF history, RevokeShare, PurgeRevoked, TypeOK, rowVars
<1>8. ASSUME NEW x \in Resource, TrashResource(x) \/ RestoreResource(x) PROVE TypeOK'
  BY <1>8 DEF history, TrashResource, RestoreResource, TypeOK, rowVars
<1>9. CASE CleanupExpiredShares
  BY <1>9 DEF history, CleanupExpiredShares, TypeOK
<1>10. CASE Tick
  <2>1. \A n \in Nat : \A t \in 0..n : Elapse(t) \in 0..n
    BY DEF Elapse
  <2>2. left' \in [Share -> 0..Lifetime]
    BY <1>10, <2>1, ShareConstants DEF history, Tick, TypeOK
  <2>3. code' \in [Share -> [Recipient -> 0..CodeLifetime]]
    BY <1>10, <2>1, ShareConstants DEF history, Tick, TypeOK
  <2> QED BY <1>10, <2>2, <2>3 DEF history, Tick, TypeOK
<1>11. CASE UNCHANGED vars
  BY <1>11 DEF history, vars, rowVars, TypeOK
<1> QED
  BY <1>1, <1>2, <1>3, <1>4, <1>5, <1>6, <1>7, <1>8, <1>9, <1>10, <1>11, <1>12 DEF Next, Creating

-----------------------------------------------------------------------------
(* Steps that only change the status of shares, creators and ciphertexts.  *)

\* Rows are created, revoked and expired; burned ones stay burned.
RowsMove ==
  /\ \A s \in Share : status'[s] = status[s]
       \/ (status[s] = "none" /\ creator[s] = "minted" /\ creator'[s] \notin {"idle", "minted"}
           /\ status'[s] = "active")
       \/ (status[s] = "active" /\ status'[s] \in {"expired", "revoked"})
  /\ \A s \in Share : creator'[s] \in {"idle", "minted"} => creator[s] \in {"idle", "minted"}
  /\ \A s \in purging' : s \in purging \/ status'[s] = "revoked"
  /\ purging' \subseteq Share
  /\ UNCHANGED <<reveal, shown, fetched, recalled>>

LEMMA RowSteps ==
  ASSUME Sound,
         \/ \E s \in Share : Mint(s) \/ Creating(s) \/ CreatorCrashes(s)
         \/ \E s \in Share, r \in Recipient : VerifyRecipientEmail(s, r)
         \/ \E s \in Share : RevokeShare(s) \/ PurgeRevoked(s)
         \/ \E x \in Resource : TrashResource(x) \/ RestoreResource(x)
         \/ CleanupExpiredShares
         \/ Tick
         \/ UNCHANGED vars
  PROVE  RowsMove /\ broken' = broken
<1>0. /\ status \in [Share -> {"none", "active", "burned", "expired", "revoked"}]
      /\ creator \in [Share -> {"idle", "minted", "refused", "done"}]
      /\ purging \subseteq Share /\ RowsLater
  BY DEF Sound, TypeOK
<1>1. ASSUME NEW s \in Share, Mint(s) \/ CreateRefused(s) \/ DiscardPayload(s) \/ CreatorCrashes(s)
      PROVE  RowsMove /\ broken' = broken
  BY <1>0, <1>1 DEF history, Mint, CreateRefused, DiscardPayload, CreatorCrashes, RowsMove, rowVars
<1>2. ASSUME NEW s \in Share, CreateShare(s) PROVE RowsMove /\ broken' = broken
  <2>1. creator[s] = "minted" /\ status[s] = "none"
    BY <1>0, <1>2 DEF history, CreateShare, RowsLater
  <2>2. creator'[s] \in {"done", "refused"} /\ \A t \in Share : t # s => creator'[t] = creator[t]
    BY <1>0, <1>2 DEF history, CreateShare
  <2>3. status'[s] = "active" /\ \A t \in Share : t # s => status'[t] = status[t]
    BY <1>0, <1>2 DEF history, CreateShare
  <2> QED BY <1>0, <1>2, <2>1, <2>2, <2>3 DEF history, CreateShare, RowsMove
<1>3. ASSUME NEW s \in Share, NEW r \in Recipient, VerifyRecipientEmail(s, r)
      PROVE  RowsMove /\ broken' = broken
  BY <1>0, <1>3 DEF history, VerifyRecipientEmail, RowsMove
<1>4. ASSUME NEW s \in Share, RevokeShare(s) \/ PurgeRevoked(s) PROVE RowsMove /\ broken' = broken
  BY <1>0, <1>4 DEF history, RevokeShare, PurgeRevoked, RowsMove, rowVars
<1>5. ASSUME NEW x \in Resource, TrashResource(x) \/ RestoreResource(x)
      PROVE  RowsMove /\ broken' = broken
  BY <1>0, <1>5 DEF history, TrashResource, RestoreResource, RowsMove, rowVars
<1>6. CASE CleanupExpiredShares
  BY <1>0, <1>6 DEF history, CleanupExpiredShares, Overdue, RowsMove
<1>7. CASE Tick \/ UNCHANGED vars
  BY <1>0, <1>7 DEF history, Tick, vars, rowVars, RowsMove
<1> QED BY <1>1, <1>2, <1>3, <1>4, <1>5, <1>6, <1>7 DEF Creating

\* The bookkeeping of a share whose row and reveals do not change.
LEMMA OpeningsFewer ==
  ASSUME NEW s, status'[s] = "active" => status[s] = "active"
  PROVE  /\ Openings(s) \in {0, 1} /\ Openings(s)' \in {0, 1}
         /\ Openings(s)' <= Openings(s)
BY DEF Openings

LEMMA HoldersFinite ==
  ASSUME NEW s
  PROVE  IsFiniteSet(Holders(s)) /\ Cardinality(Holders(s)) \in Nat
<1>1. IsFiniteSet(Holders(s))
  BY ShareConstants, FS_Subset DEF Holders
<1> QED BY <1>1, FS_CardinalityType

LEMMA CountsAreNumbers ==
  ASSUME TypeOK, NEW s \in OneTime
  PROVE  shown[s] \in 0..MaxShown /\ recalled[s] \in 0..MaxRecalls
         /\ shown[s] \in Nat /\ recalled[s] \in Nat /\ MaxShown \in Nat /\ MaxRecalls \in Nat
<1>1. MaxShown \in Nat /\ MaxRecalls \in Nat
  BY ShareConstants DEF MaxShown
<1>2. shown[s] \in 0..MaxShown /\ recalled[s] \in 0..MaxRecalls
  BY DEF TypeOK
<1> QED BY <1>1, <1>2

LEMMA RowsMoveSound ==
  ASSUME Sound, RowsMove, TypeOK'
  PROVE  Sound'
<1>0. /\ TypeOK /\ RevealsSound /\ Unborn /\ Credit /\ FetchedShut /\ DeletedWasRead
      /\ RowsLater /\ PurgedAreRevoked
      /\ UNCHANGED <<reveal, shown, fetched, recalled>> /\ OneTime \subseteq Share
      /\ fetched \subseteq OneTime
  BY ShareConstants DEF Sound, RowsMove, TypeOK
<1>1. RevealsSound' /\ DeletedWasRead'
  BY <1>0 DEF RevealsSound, DeletedWasRead
<1>2. \A s \in Share : status'[s] = "none" => status[s] = "none"
  BY DEF RowsMove
<1>3. Unborn'
  BY <1>0, <1>2 DEF Unborn, On
<1>4. ASSUME NEW s \in OneTime
      PROVE  shown'[s] + Cardinality(Holders(s))' + Openings(s)' <= 1 + recalled'[s]
  <2>0. Holders(s)' = Holders(s) /\ UNCHANGED <<shown, recalled>>
    BY <1>0 DEF Holders, On
  <2>1. CASE status'[s] = "active" => status[s] = "active"
    BY <1>0, <1>4, <2>0, <2>1, OpeningsFewer, HoldersFinite, CountsAreNumbers DEF Credit
  <2>2. CASE status'[s] = "active" /\ status[s] # "active"
    <3>1. status[s] = "none"
      BY <1>0, <2>2 DEF RowsMove
    <3>2. shown[s] = 0 /\ Holders(s) = {}
      BY <1>0, <3>1 DEF Unborn, Holders
    <3>3. Openings(s)' = 1 /\ Cardinality(Holders(s)) = 0
      BY <2>2, <3>2, FS_EmptySet DEF Openings
    <3> QED BY <1>0, <2>0, <3>2, <3>3, CountsAreNumbers
  <2> QED BY <2>1, <2>2
<1>5. Credit'
  BY <1>4 DEF Credit
<1>6. FetchedShut'
  <2>1. \A s \in fetched : status[s] # "none"
    BY <1>0 DEF Unborn
  <2> QED BY <1>0, <2>1 DEF FetchedShut, RowsMove, On
<1>7. RowsLater'
  BY <1>0 DEF RowsLater, RowsMove
<1>8. PurgedAreRevoked'
  <2>1. purging \subseteq Share
    BY DEF Sound, TypeOK
  <2> QED BY <1>0, <2>1 DEF PurgedAreRevoked, RowsMove
<1> QED BY <1>1, <1>3, <1>5, <1>6, <1>7, <1>8 DEF Sound

-----------------------------------------------------------------------------
(* Steps of reveals, and opening a share from outside.                     *)

LEMMA HoldersGrow ==
  ASSUME NEW v \in Reveal, NEW s \in Share, reveal[v].share = NoShare, reveal'[v].share = s,
         \A w \in Reveal : w # v => reveal'[w] = reveal[w]
  PROVE  /\ Cardinality(Holders(s))' = Cardinality(Holders(s)) + 1
         /\ \A t \in Share : t # s => Holders(t)' = Holders(t)
<1>0. NoShare \notin Share
  BY ShareConstants
<1>1. v \notin Holders(s) /\ Holders(s)' = Holders(s) \cup {v}
  BY <1>0 DEF Holders, On
<1>2. Cardinality(Holders(s) \cup {v}) = Cardinality(Holders(s)) + 1
  BY <1>1, HoldersFinite, FS_AddElement
<1> QED BY <1>0, <1>1, <1>2 DEF Holders, On

LEMMA HoldersShrink ==
  ASSUME NEW v \in Reveal, NEW s \in Share, reveal[v].share = s, reveal'[v].share = NoShare,
         \A w \in Reveal : w # v => reveal'[w] = reveal[w]
  PROVE  /\ Cardinality(Holders(s))' = Cardinality(Holders(s)) - 1
         /\ \A t \in Share : t # s => Holders(t)' = Holders(t)
<1>0. NoShare \notin Share
  BY ShareConstants
<1>1. v \in Holders(s) /\ Holders(s)' = Holders(s) \ {v}
  BY <1>0 DEF Holders, On
<1>2. Cardinality(Holders(s) \ {v}) = Cardinality(Holders(s)) - 1
  BY <1>1, HoldersFinite, FS_RemoveElement
<1> QED BY <1>0, <1>1, <1>2 DEF Holders, On

LEMMA HoldersSame ==
  ASSUME NEW s, \A w \in Reveal : reveal'[w].share = s <=> reveal[w].share = s
  PROVE  Cardinality(Holders(s))' = Cardinality(Holders(s))
<1>1. Holders(s)' = Holders(s)
  BY DEF Holders, On
<1> QED BY <1>1

\* A reveal of a share that was opened once only is its only one.
LEMMA OnlyHolder ==
  ASSUME Sound, NEW s \in OneTime, recalled[s] = 0, NEW v \in Reveal, On(v, s)
  PROVE  status[s] # "active" /\ shown[s] = 0 /\ \A w \in Reveal : On(w, s) => w = v
<1>1. /\ shown[s] \in Nat /\ Openings(s) \in {0, 1}
      /\ shown[s] + Cardinality(Holders(s)) + Openings(s) <= 1
  BY CountsAreNumbers DEF Sound, Credit, Openings
<1>2. Cardinality(Holders(s)) \in Nat /\ IsFiniteSet(Holders(s)) /\ v \in Holders(s)
  BY HoldersFinite DEF Holders
<1>3. IsFiniteSet(Holders(s) \ {v})
      /\ Cardinality(Holders(s) \ {v}) = Cardinality(Holders(s)) - 1
  BY <1>2, FS_RemoveElement
<1>4. Cardinality(Holders(s) \ {v}) \in Nat
  BY <1>3, FS_CardinalityType
<1>5. Cardinality(Holders(s) \ {v}) = 0 /\ Openings(s) = 0 /\ shown[s] = 0
  BY <1>1, <1>2, <1>3, <1>4
<1>6. Holders(s) \ {v} = {}
  BY <1>3, <1>5, FS_EmptySet
<1> QED BY <1>5, <1>6 DEF Openings, Holders

LEMMA VerifySound ==
  ASSUME Sound, NEW v \in Reveal, NEW s \in Share, NEW r \in Recipient, VerifyOtp(v, s, r), TypeOK'
  PROVE  Sound'
<1>0. /\ RevealsSound /\ Unborn /\ Credit /\ FetchedShut /\ DeletedWasRead
      /\ RowsLater /\ PurgedAreRevoked /\ UNCHANGED <<shown, creator, purging, fetched, recalled>>
      /\ OneTime \subseteq Share /\ NoShare \notin Share /\ fetched \subseteq OneTime
      /\ reveal[v].at = "idle" /\ reveal[v].share = NoShare
      /\ status[s] = "active" /\ TypeOK /\ purging \subseteq Share
  BY ShareConstants, Fields DEF Sound, VerifyOtp, Open, TypeOK
<1>1. /\ \A t \in Share : t # s => status'[t] = status[t]
      /\ s \in OneTime => status'[s] = "burned"
      /\ s \notin OneTime => status'[s] = "active"
  BY <1>0 DEF VerifyOtp, TypeOK
<1>2. \/ UNCHANGED reveal
      \/ reveal'[v].at = "reading" /\ reveal'[v].share = s
         /\ \A w \in Reveal : w # v => reveal'[w] = reveal[w]
  <2>1. CASE Moved(v, At("reading", s))
    <3>1. At("reading", s) \in RevealState
          /\ At("reading", s).at = "reading" /\ At("reading", s).share = s
      BY Fields DEF RevealAt
    <3> QED BY <1>0, <2>1, <3>1, MovedEffect
  <2> QED BY <2>1 DEF VerifyOtp, Moved
<1>3. RevealsSound' /\ DeletedWasRead'
  BY <1>0, <1>2 DEF RevealsSound, DeletedWasRead
<1>4. Unborn'
  <2> SUFFICES ASSUME NEW t \in Share, status'[t] = "none"
               PROVE  /\ \A w \in Reveal : reveal'[w].share # t
                      /\ t \in OneTime => t \notin fetched /\ shown[t] = 0
    BY <1>0 DEF Unborn, On
  <2>1. t # s /\ status[t] = "none"
    BY <1>1
  <2> QED BY <1>0, <1>2, <2>1 DEF Unborn, On
<1>5. Credit'
  <2> SUFFICES ASSUME NEW t \in OneTime
               PROVE  shown[t] + Cardinality(Holders(t))' + Openings(t)' <= 1 + recalled[t]
    BY <1>0 DEF Credit
  <2>0. /\ shown[t] \in Nat /\ recalled[t] \in Nat /\ Cardinality(Holders(t)) \in Nat
        /\ Openings(t) \in {0, 1}
        /\ shown[t] + Cardinality(Holders(t)) + Openings(t) <= 1 + recalled[t]
    BY <1>0, CountsAreNumbers, HoldersFinite DEF Credit, Openings
  <2>1. CASE t # s
    <3>1. Cardinality(Holders(t))' = Cardinality(Holders(t))
      BY <1>0, <1>2, <2>1, HoldersSame
    <3>2. Openings(t)' = Openings(t)
      BY <1>0, <1>1, <2>1 DEF Openings
    <3> QED BY <2>0, <3>1, <3>2
  <2>2. CASE t = s
    <3>1. Openings(t) = 1 /\ Openings(t)' = 0
      BY <1>0, <1>1, <2>2 DEF Openings
    <3>2. Cardinality(Holders(t))' \in {Cardinality(Holders(t)), Cardinality(Holders(t)) + 1}
      <4>1. CASE UNCHANGED reveal
        BY <4>1, HoldersSame
      <4>2. CASE ~ UNCHANGED reveal
        BY <1>0, <1>2, <2>2, <4>2, HoldersGrow
      <4> QED BY <4>1, <4>2
    <3> QED BY <2>0, <3>1, <3>2
  <2> QED BY <2>1, <2>2
<1>6. FetchedShut'
  <2> SUFFICES ASSUME NEW t \in fetched, recalled[t] = 0
               PROVE  /\ status'[t] # "active"
                      /\ \A w \in Reveal :
                           reveal'[w].share = t => reveal'[w].at \in {"deleting", "returning"}
    BY <1>0 DEF FetchedShut, On
  <2>1. t # s /\ t \in Share
    BY <1>0 DEF FetchedShut
  <2> QED BY <1>0, <1>1, <1>2, <2>1 DEF FetchedShut, On
<1>7. RowsLater' /\ PurgedAreRevoked'
  BY <1>0, <1>1 DEF RowsLater, PurgedAreRevoked
<1> QED BY <1>3, <1>4, <1>5, <1>6, <1>7 DEF Sound

LEMMA RevealSound ==
  ASSUME Sound, NEW v \in Reveal, Revealing(v) \/ RevealCrashes(v), TypeOK'
  PROVE  Sound'
<1>0. /\ TypeOK /\ RevealsSound /\ Unborn /\ Credit /\ FetchedShut /\ DeletedWasRead
      /\ RowsLater /\ PurgedAreRevoked /\ fetched \subseteq OneTime /\ purging \subseteq Share
      /\ OneTime \subseteq Share /\ NoShare \notin Share
  BY ShareConstants DEF Sound, TypeOK
<1>1. PICK s \in Share, x \in RevealState :
        /\ reveal[v].share = s /\ Moved(v, x) /\ UNCHANGED <<creator, purging, recalled>>
        /\ x.share = s \/ x.share = NoShare
        /\ x.at = "idle" <=> x.share = NoShare
        /\ x.at \in {"unburning", "deleting"} => s \in OneTime
        /\ x.at = "deleting" => s \in fetched'
        /\ x.share = s /\ reveal[v].at \in {"deleting", "returning"} => x.at = "returning"
        /\ \/ status' = status
           \/ /\ status' = Unburned(s) /\ x.share = NoShare /\ reveal[v].at = "unburning"
              /\ shown' = shown
        /\ \/ shown' = shown
           \/ /\ shown' = [t \in OneTime |-> IF t = s /\ shown[t] < MaxShown
                                             THEN shown[t] + 1 ELSE shown[t]]
              /\ x.share = NoShare /\ status' = status
        /\ \/ fetched' = fetched
           \/ /\ fetched' = fetched \cup ({s} \cap OneTime) /\ status' = status
              /\ s \in OneTime => x.at = "deleting"
  <2>1. /\ Idle \in RevealState /\ Idle.at = "idle" /\ Idle.share = NoShare
        /\ \A step \in RevealAt, s \in Share :
             At(step, s) \in RevealState /\ At(step, s).at = step /\ At(step, s).share = s
        /\ {"reading", "unburning", "deleting", "returning"} \subseteq RevealAt
    BY Fields DEF RevealAt
  <2> QED BY <1>0, <2>1, RevealSteps
<1>2. reveal'[v] = x /\ \A w \in Reveal : w # v => reveal'[w] = reveal[w]
  BY <1>0, <1>1, MovedEffect
<1>3. /\ \A t \in Share : t # s => status'[t] = status[t]
      /\ status'[s] = status[s] \/ (status[s] = "burned" /\ status'[s] = "active")
  <2>1. status \in [Share -> RowStatus]
    BY <1>0 DEF TypeOK, RowStatus
  <2> QED BY <1>1, <2>1, UnburnedEffect
<1>4. \A t \in OneTime : t # s => shown'[t] = shown[t]
  BY <1>1
<1>5. RevealsSound'
  BY <1>0, <1>1, <1>2 DEF RevealsSound
<1>6. status[s] # "none" /\ On(v, s)
  BY <1>0, <1>1 DEF Unborn, On
<1>7. Unborn'
  <2> SUFFICES ASSUME NEW t \in Share, status'[t] = "none"
               PROVE  /\ \A w \in Reveal : reveal'[w].share # t
                      /\ t \in OneTime => t \notin fetched' /\ shown'[t] = 0
    BY DEF Unborn, On
  <2>1. t # s /\ status[t] = "none"
    BY <1>3, <1>6
  <2>2. \A w \in Reveal : reveal'[w].share # t
    BY <1>0, <1>1, <1>2, <2>1 DEF Unborn, On
  <2>3. t \in OneTime => t \notin fetched'
    BY <1>0, <1>1, <2>1 DEF Unborn
  <2>4. t \in OneTime => shown'[t] = 0
    BY <1>0, <1>4, <2>1 DEF Unborn
  <2> QED BY <2>2, <2>3, <2>4
<1>8. Credit'
  <2> SUFFICES ASSUME NEW t \in OneTime
               PROVE  shown'[t] + Cardinality(Holders(t))' + Openings(t)' <= 1 + recalled[t]
    BY <1>1 DEF Credit
  <2>0. /\ shown[t] \in Nat /\ recalled[t] \in Nat /\ Cardinality(Holders(t)) \in Nat
        /\ Openings(t) \in {0, 1} /\ Openings(t)' \in {0, 1}
        /\ shown[t] + Cardinality(Holders(t)) + Openings(t) <= 1 + recalled[t]
    BY <1>0, CountsAreNumbers, HoldersFinite DEF Credit, Openings
  <2>1. CASE t # s
    <3>1. Cardinality(Holders(t))' = Cardinality(Holders(t))
      BY <1>0, <1>1, <1>2, <2>1, HoldersSame
    <3>2. Openings(t)' = Openings(t) /\ shown'[t] = shown[t]
      BY <1>0, <1>3, <1>4, <2>1 DEF Openings
    <3> QED BY <2>0, <3>1, <3>2
  <2>2. CASE t = s /\ x.share = s
    <3>1. Cardinality(Holders(t))' = Cardinality(Holders(t))
      BY <1>1, <1>2, <2>2, HoldersSame
    <3>2. shown' = shown /\ status' = status
      BY <1>0, <1>1, <2>2
    <3> QED BY <2>0, <3>1, <3>2 DEF Openings
  <2>3. CASE t = s /\ x.share = NoShare
    <3>1. Cardinality(Holders(t))' = Cardinality(Holders(t)) - 1
      BY <1>1, <1>2, <2>3, HoldersShrink
    <3>2. \/ shown'[t] = shown[t]
          \/ shown'[t] = shown[t] + 1 /\ Openings(t)' = Openings(t)
      <4>1. CASE shown' = shown
        BY <4>1
      <4>2. CASE ~ (shown' = shown)
        <5>1. status' = status /\ shown'[t] \in {shown[t], shown[t] + 1}
          BY <1>1, <4>2
        <5> QED BY <5>1 DEF Openings
      <4> QED BY <4>1, <4>2
    <3> QED BY <2>0, <3>1, <3>2
  <2> QED BY <1>1, <2>1, <2>2, <2>3
<1>9. FetchedShut'
  <2> SUFFICES ASSUME NEW t \in fetched', recalled[t] = 0
               PROVE  /\ status'[t] # "active"
                      /\ \A w \in Reveal :
                           reveal'[w].share = t => reveal'[w].at \in {"deleting", "returning"}
    BY <1>1 DEF FetchedShut, On
  <2>1. t \in OneTime
    BY <1>0, <1>1
  <2>2. CASE t # s
    <3>1. t \in fetched /\ status'[t] = status[t]
      BY <1>0, <1>1, <1>3, <2>1, <2>2
    <3> QED BY <1>0, <1>1, <1>2, <2>1, <2>2, <3>1 DEF FetchedShut, On
  <2>3. CASE t = s
    <3>1. status[s] # "active" /\ \A w \in Reveal : On(w, s) => w = v
      BY <1>6, <2>1, <2>3, OnlyHolder
    <3>2. CASE s \in fetched
      <4>1. reveal[v].at \in {"deleting", "returning"}
        BY <1>0, <1>6, <2>3, <3>2 DEF FetchedShut
      <4>2. status' = status /\ (x.share = s => x.at = "returning")
        BY <1>1, <4>1
      <4> QED BY <1>0, <1>1, <1>2, <2>1, <2>3, <3>1, <4>2 DEF On
    <3>3. CASE s \notin fetched
      <4>1. status' = status /\ x.at = "deleting"
        BY <1>1, <2>1, <2>3, <3>3
      <4> QED BY <1>0, <1>1, <1>2, <2>1, <2>3, <3>1, <4>1 DEF On
    <3> QED BY <3>2, <3>3
  <2> QED BY <2>2, <2>3
<1>10. DeletedWasRead'
  BY <1>0, <1>1, <1>2 DEF DeletedWasRead
<1>11. RowsLater' /\ PurgedAreRevoked'
  BY <1>0, <1>1, <1>3, <1>6 DEF RowsLater, PurgedAreRevoked
<1> QED BY <1>5, <1>7, <1>8, <1>9, <1>10, <1>11 DEF Sound

LEMMA RestoreSound ==
  ASSUME Sound, NEW s \in Share, RestoreBurnedShare(s), TypeOK'
  PROVE  Sound'
<1>0. /\ TypeOK /\ RevealsSound /\ Unborn /\ Credit /\ FetchedShut /\ DeletedWasRead
      /\ RowsLater /\ PurgedAreRevoked /\ fetched \subseteq OneTime /\ purging \subseteq Share
      /\ OneTime \subseteq Share /\ s \in OneTime /\ status[s] = "burned"
      /\ UNCHANGED <<reveal, shown, fetched, creator, purging>>
  BY ShareConstants DEF Sound, TypeOK, RestoreBurnedShare
<1>1. status'[s] = "active" /\ \A t \in Share : t # s => status'[t] = status[t]
  <2>1. status \in [Share -> RowStatus] /\ status' = Unburned(s)
    BY <1>0 DEF TypeOK, RowStatus, RestoreBurnedShare
  <2> QED BY <1>0, <2>1, UnburnedEffect
<1>2. recalled'[s] = recalled[s] + 1 /\ \A t \in OneTime : t # s => recalled'[t] = recalled[t]
  BY <1>0 DEF TypeOK, RestoreBurnedShare
<1>3. RevealsSound' /\ DeletedWasRead'
  BY <1>0 DEF RevealsSound, DeletedWasRead
<1>4. Unborn'
  BY <1>0, <1>1 DEF Unborn, On
<1>5. Credit'
  <2> SUFFICES ASSUME NEW t \in OneTime
               PROVE  shown[t] + Cardinality(Holders(t))' + Openings(t)' <= 1 + recalled'[t]
    BY <1>0 DEF Credit
  <2>0. /\ shown[t] \in Nat /\ recalled[t] \in Nat /\ Cardinality(Holders(t)) \in Nat
        /\ shown[t] + Cardinality(Holders(t)) + Openings(t) <= 1 + recalled[t]
        /\ Cardinality(Holders(t))' = Cardinality(Holders(t))
    BY <1>0, CountsAreNumbers, HoldersFinite, HoldersSame DEF Credit
  <2>1. CASE t = s
    <3>1. Openings(t) = 0 /\ Openings(t)' = 1
      BY <1>0, <1>1, <2>1 DEF Openings
    <3> QED BY <1>2, <2>0, <2>1, <3>1
  <2>2. CASE t # s
    <3>1. Openings(t)' = Openings(t) /\ recalled'[t] = recalled[t]
      BY <1>0, <1>1, <1>2, <2>2 DEF Openings
    <3> QED BY <2>0, <3>1
  <2> QED BY <2>1, <2>2
<1>6. FetchedShut'
  <2>1. recalled'[s] # 0
    BY <1>0, <1>2, CountsAreNumbers
  <2> QED BY <1>0, <1>1, <1>2, <2>1 DEF FetchedShut, On
<1>7. RowsLater' /\ PurgedAreRevoked'
  BY <1>0, <1>1 DEF RowsLater, PurgedAreRevoked
<1> QED BY <1>3, <1>4, <1>5, <1>6, <1>7 DEF Sound

LEMMA SoundStep ==
  ASSUME Sound, [Next]_vars
  PROVE  Sound'
<1>1. TypeOK'
  BY TypeStep DEF Sound
<1>2. CASE RowsMove
  BY <1>1, <1>2, RowsMoveSound
<1> QED BY <1>1, <1>2, RowSteps, VerifySound, RevealSound, RestoreSound DEF Next

-----------------------------------------------------------------------------
(* The ciphertext of an active share.                                      *)

LEMMA ReadableStep ==
  ASSUME Sound, Readable, ~ AnswersLost, [Next]_vars
  PROVE  Readable'
<1>0. /\ TypeOK /\ RevealsSound /\ DeletedWasRead /\ RowsLater /\ PurgedAreRevoked /\ Unborn
      /\ OneTime \subseteq Share /\ NoShare \notin Share
      /\ status \in [Share -> RowStatus]
      /\ creator \in [Share -> {"idle", "minted", "refused", "done"}]
  BY ShareConstants DEF Sound, TypeOK, RowStatus
<1>1. ASSUME NEW s \in Share, Mint(s) \/ CreateRefused(s) \/ CreatorCrashes(s) PROVE Readable'
  BY <1>0, <1>1 DEF Mint, CreateRefused, CreatorCrashes, Readable, RowsLater, rowVars, history
<1>2. ASSUME NEW s \in Share, CreateShare(s) PROVE Readable'
  <2>1. creator' = [creator EXCEPT ![s] = "done"] /\ creator[s] = "minted"
        /\ status' = [status EXCEPT ![s] = "active"] /\ UNCHANGED <<stored, fetched>>
    BY <1>2 DEF CreateShare, history
  <2> QED BY <1>0, <2>1 DEF Readable
<1>3. ASSUME NEW s \in Share, DiscardPayload(s) PROVE Readable'
  <2>1. status[s] = "none" /\ creator[s] = "refused" /\ creator' = [creator EXCEPT ![s] = "done"]
        /\ stored' \in {stored, stored \ {s}} /\ UNCHANGED <<status, fetched>>
    BY <1>3 DEF DiscardPayload, Readable, rowVars, history
  <2> QED BY <1>0, <2>1 DEF Readable
<1>4. ASSUME NEW s \in Share, NEW r \in Recipient, VerifyRecipientEmail(s, r) PROVE Readable'
  BY <1>4 DEF VerifyRecipientEmail, Readable, history
<1>5. ASSUME NEW v \in Reveal, NEW s \in Share, NEW r \in Recipient, VerifyOtp(v, s, r)
      PROVE  Readable'
  <2>1. /\ status[s] = "active" /\ UNCHANGED <<stored, creator, fetched>>
        /\ status' = IF s \in OneTime THEN [status EXCEPT ![s] = "burned"] ELSE status
    BY <1>5 DEF VerifyOtp, Open
  <2> QED BY <1>0, <2>1 DEF Readable
<1>6. ASSUME NEW v \in Reveal, Revealing(v) \/ RevealCrashes(v) PROVE Readable'
  <2>1. PICK s \in Share :
          /\ reveal[v].share = s /\ reveal[v].at # "idle" /\ UNCHANGED creator
          /\ fetched \subseteq fetched'
          /\ stored' = stored \/ (stored' = stored \ {s} /\ reveal[v].at = "deleting")
          /\ status' = status \/ status' = Unburned(s)
    BY <1>6, <1>0, RevealSteps
  <2>2. /\ \A t \in Share : t # s => status'[t] = status[t]
        /\ status'[s] = status[s] \/ (status[s] = "burned" /\ status'[s] = "active")
    BY <1>0, <2>1, UnburnedEffect
  <2>3. status[s] # "none" /\ creator[s] \notin {"idle", "minted"}
    BY <1>0, <2>1 DEF Unborn, On, RowsLater
  <2>4. \A t \in Share : t \in stored \cup fetched => t \in stored' \cup fetched'
    BY <1>0, <2>1 DEF DeletedWasRead
  <2>5. \A t \in Share : t \in stored /\ t # s => t \in stored'
    BY <2>1
  <2> QED BY <2>1, <2>2, <2>3, <2>4, <2>5 DEF Readable
<1>7. ASSUME NEW s \in Share, RevokeShare(s) PROVE Readable'
  BY <1>0, <1>7 DEF RevokeShare, Readable, history
<1>8. ASSUME NEW s \in Share, PurgeRevoked(s) PROVE Readable'
  <2>1. status[s] = "revoked" /\ stored' \in {stored, stored \ {s}}
        /\ UNCHANGED <<status, creator, fetched>>
    BY <1>0, <1>8 DEF PurgeRevoked, PurgedAreRevoked, rowVars, history
  <2>2. creator[s] # "minted"
    BY <1>0, <2>1 DEF RowsLater
  <2> QED BY <1>0, <2>1, <2>2 DEF Readable
<1>9. ASSUME NEW x \in Resource, TrashResource(x) \/ RestoreResource(x) PROVE Readable'
  BY <1>0, <1>9 DEF TrashResource, RestoreResource, Readable, rowVars, history
<1>10. CASE CleanupExpiredShares
  BY <1>0, <1>10 DEF CleanupExpiredShares, Overdue, Readable, history
<1>11. CASE Tick \/ UNCHANGED vars
  BY <1>11 DEF Tick, vars, rowVars, Readable, history
<1>12. ASSUME NEW s \in Share, RestoreBurnedShare(s) PROVE Readable'
  <2>1. status[s] = "burned" /\ status' = Unburned(s) /\ UNCHANGED <<stored, creator, fetched>>
    BY <1>12 DEF RestoreBurnedShare
  <2>2. /\ \A t \in Share : t # s => status'[t] = status[t]
        /\ status'[s] \in {"burned", "active"}
    BY <1>0, <2>1, UnburnedEffect
  <2> QED BY <1>0, <2>1, <2>2 DEF Readable
<1> QED
  BY <1>1, <1>2, <1>3, <1>4, <1>5, <1>6, <1>7, <1>8, <1>9, <1>10, <1>11, <1>12 DEF Next, Creating

-----------------------------------------------------------------------------
(* Why a share is burned.                                                  *)

LEMMA BurnedStep ==
  ASSUME Sound, BurnedForAReason, [Next]_vars
  PROVE  BurnedForAReason'
<1>0. /\ TypeOK /\ RevealsSound /\ OneTime \subseteq Share /\ NoShare \notin Share
      /\ status \in [Share -> RowStatus]
  BY ShareConstants DEF Sound, TypeOK, RowStatus
<1>1. CASE RowsMove /\ broken' = broken
  BY <1>0, <1>1 DEF BurnedForAReason, RowsMove
<1>2. ASSUME NEW v \in Reveal, NEW s \in Share, NEW r \in Recipient, VerifyOtp(v, s, r)
      PROVE  BurnedForAReason'
  <2>1. /\ \A t \in Share : t # s => status'[t] = status[t]
        /\ reveal[v].share = NoShare /\ UNCHANGED shown
    BY <1>0, <1>2, Fields DEF VerifyOtp
  <2>2. \/ UNCHANGED reveal /\ broken' = broken \cup ({s} \cap OneTime)
        \/ /\ UNCHANGED broken /\ reveal'[v].share = s
           /\ \A w \in Reveal : w # v => reveal'[w] = reveal[w]
    <3>1. CASE Moved(v, At("reading", s)) /\ UNCHANGED broken
      <4>1. At("reading", s) \in RevealState /\ At("reading", s).share = s
        BY Fields DEF RevealAt
      <4> QED BY <1>0, <3>1, <4>1, MovedEffect
    <3> QED BY <1>2, <3>1 DEF VerifyOtp, Moved
  <2> QED BY <1>0, <2>1, <2>2 DEF BurnedForAReason
<1>3. ASSUME NEW v \in Reveal, Revealing(v) \/ RevealCrashes(v) PROVE BurnedForAReason'
  <2>1. PICK s \in Share, x \in RevealState :
          /\ reveal[v].share = s /\ Moved(v, x) /\ broken \subseteq broken'
          /\ status' = status \/ status' = Unburned(s)
          /\ \/ shown' = shown
             \/ shown' = [t \in OneTime |-> IF t = s /\ shown[t] < MaxShown
                                            THEN shown[t] + 1 ELSE shown[t]]
          /\ \/ x.share = s
             \/ s \notin OneTime
             \/ status' = Unburned(s)
             \/ shown' = [t \in OneTime |-> IF t = s /\ shown[t] < MaxShown
                                            THEN shown[t] + 1 ELSE shown[t]]
             \/ s \in broken'
    <3>1. /\ Idle \in RevealState /\ Idle.share = NoShare
          /\ \A step \in RevealAt, s \in Share :
               At(step, s) \in RevealState /\ At(step, s).share = s
          /\ {"reading", "unburning", "deleting", "returning"} \subseteq RevealAt
      BY Fields DEF RevealAt
    <3> QED BY <1>0, <1>3, <3>1, RevealSteps
  <2>2. reveal'[v] = x /\ \A w \in Reveal : w # v => reveal'[w] = reveal[w]
    BY <1>0, <2>1, MovedEffect
  <2>3. ASSUME NEW t \in OneTime, status'[t] = "burned", t # s
        PROVE  shown'[t] > 0 \/ (\E w \in Reveal : reveal'[w].share = t) \/ t \in broken'
    <3>1. status[t] = "burned" /\ shown'[t] = shown[t]
      BY <1>0, <2>1, <2>3, UnburnedEffect
    <3>2. ASSUME NEW w \in Reveal, reveal[w].share = t PROVE reveal'[w].share = t
      BY <2>1, <2>2, <2>3, <3>2
    <3> QED BY <2>1, <3>1, <3>2 DEF BurnedForAReason
  <2>4. ASSUME s \in OneTime, status'[s] = "burned"
        PROVE  shown'[s] > 0 \/ (\E w \in Reveal : reveal'[w].share = s) \/ s \in broken'
    <3>1. shown[s] \in Nat /\ MaxShown \in Nat /\ MaxShown > 0
      BY <1>0, <2>4, CountsAreNumbers, ShareConstants DEF MaxShown
    <3>2. CASE shown' = [t \in OneTime |-> IF t = s /\ shown[t] < MaxShown
                                           THEN shown[t] + 1 ELSE shown[t]]
      <4>1. shown'[s] = IF shown[s] < MaxShown THEN shown[s] + 1 ELSE shown[s]
        BY <2>4, <3>2
      <4> QED BY <3>1, <4>1
    <3>3. status' # Unburned(s)
      BY <1>0, <2>4, UnburnedEffect
    <3> QED BY <1>0, <2>1, <2>2, <2>4, <3>2, <3>3
  <2> QED BY <2>3, <2>4 DEF BurnedForAReason
<1>4. ASSUME NEW s \in Share, RestoreBurnedShare(s) PROVE BurnedForAReason'
  <2>1. status' = Unburned(s) /\ s \in OneTime /\ UNCHANGED <<reveal, shown, broken>>
    BY <1>4 DEF RestoreBurnedShare
  <2>2. \A t \in Share : status'[t] = "burned" => status[t] = "burned"
    BY <1>0, <2>1, UnburnedEffect
  <2> QED BY <1>0, <2>1, <2>2 DEF BurnedForAReason
<1> QED BY <1>1, <1>2, <1>3, <1>4, RowSteps DEF Next

-----------------------------------------------------------------------------
(* The theorems.                                                           *)

LEMMA InitSound == Init => Sound /\ BurnedForAReason /\ Readable
<1>1. SUFFICES ASSUME Init PROVE Sound /\ BurnedForAReason /\ Readable
  OBVIOUS
<1>2. /\ OneTime \subseteq Share /\ NoShare \notin Share /\ 0 \in 0..Lifetime
      /\ 0 \in 0..CodeLifetime /\ 0 \in 0..MaxRecalls /\ 0 \in 0..MaxShown
  BY ShareConstants DEF MaxShown
<1>3. TypeOK
  <2>1. reveal \in [Reveal -> RevealState]
    BY <1>1, Fields DEF Init
  <2> QED BY <1>1, <1>2, <2>1 DEF Init, TypeOK, RevealState
<1>4. \A v \in Reveal : reveal[v].at = "idle" /\ reveal[v].share = NoShare
  BY <1>1, Fields DEF Init
<1>5. RevealsSound /\ Unborn /\ FetchedShut /\ DeletedWasRead
  BY <1>1, <1>2, <1>4 DEF Init, RevealsSound, Unborn, FetchedShut, DeletedWasRead, On
<1>6. Credit
  <2> SUFFICES ASSUME NEW s \in OneTime
               PROVE  shown[s] + Cardinality(Holders(s)) + Openings(s) <= 1 + recalled[s]
    BY DEF Credit
  <2>1. shown[s] = 0 /\ recalled[s] = 0 /\ Openings(s) = 0 /\ Holders(s) = {}
    BY <1>1, <1>2, <1>4 DEF Init, Openings, Holders, On
  <2>2. Cardinality(Holders(s)) = 0
    BY <2>1, FS_EmptySet
  <2> QED BY <2>1, <2>2
<1>7. RowsLater /\ PurgedAreRevoked
  BY <1>1, <1>2 DEF Init, RowsLater, PurgedAreRevoked
<1>8. BurnedForAReason /\ Readable
  BY <1>1, <1>2, <1>4 DEF Init, BurnedForAReason, Readable
<1> QED BY <1>3, <1>5, <1>6, <1>7, <1>8 DEF Sound

LEMMA Invariance == Spec => []Sound
BY InitSound, SoundStep, PTL DEF Spec

(* Every variable keeps its type. *)
THEOREM TypeCorrect == Spec => []TypeOK
<1>1. Sound => TypeOK
  BY DEF Sound
<1> QED BY <1>1, Invariance, PTL

(* A one-time share is shown once, and once more for each time somebody    *)
(* with the link unburned it (mutations.ts:320), however many recipients   *)
(* have a code, reveals overlap and vault reads fail.                      *)
THEOREM OneTimeIsOnce == Spec => []ShownOncePerOpening
<1>1. ASSUME Sound PROVE ShownOncePerOpening
  <2> SUFFICES ASSUME NEW s \in OneTime PROVE shown[s] <= 1 + recalled[s]
    BY DEF ShownOncePerOpening
  <2>1. shown[s] + Cardinality(Holders(s)) + Openings(s) <= 1 + recalled[s]
    BY <1>1 DEF Sound, Credit
  <2>2. shown[s] \in Nat /\ recalled[s] \in Nat /\ Cardinality(Holders(s)) \in Nat
        /\ Openings(s) \in {0, 1}
    BY <1>1, CountsAreNumbers, HoldersFinite DEF Sound, Openings
  <2> QED BY <2>1, <2>2
<1> QED BY <1>1, Invariance, PTL

(* What can be opened has its ciphertext, unless it was read and then      *)
(* unburned from outside, if no transaction commits while its caller is    *)
(* told that it failed.                                                    *)
THEOREM OpenCanBeRead ==
  ASSUME ~ AnswersLost
  PROVE  Spec => []ActiveIsReadable
<1>1. Sound /\ Readable /\ [Next]_vars => (Sound /\ Readable)'
  BY SoundStep, ReadableStep
<1>2. ASSUME Sound, Readable PROVE ActiveIsReadable
  <2> SUFFICES ASSUME NEW s \in Share, status[s] = "active", s \notin stored
               PROVE  s \in fetched /\ recalled[s] > 0
    BY DEF ActiveIsReadable
  <2>1. s \in fetched /\ s \in OneTime
    BY <1>2 DEF Readable, Sound, TypeOK
  <2>2. recalled[s] # 0 /\ recalled[s] \in Nat
    BY <1>2, <2>1, CountsAreNumbers DEF Sound, FetchedShut
  <2> QED BY <2>1, <2>2
<1> QED BY <1>1, <1>2, InitSound, PTL DEF Spec

(* Nothing but a reveal, or one that was stopped or could not unburn the   *)
(* share, leaves a one-time share burned.                                  *)
THEOREM BurningHasAReason == Spec => []BurnedForAReason
<1>1. Sound /\ BurnedForAReason /\ [Next]_vars => (Sound /\ BurnedForAReason)'
  BY SoundStep, BurnedStep
<1> QED BY <1>1, InitSound, PTL DEF Spec

-----------------------------------------------------------------------------
(* The abstract link.                                                      *)

StateNow == [s \in OneTime |-> StateOf(status[s])]
TakenNow == Holding({"reading", "unburning"})
ReadNow == Holding({"deleting", "returning"})
ReadableNow == {s \in OneTime \cap stored : status[s] # "none"}

LEMMA States ==
  /\ StateOf("none") = "none" /\ StateOf("active") = "open" /\ StateOf("burned") = "shut"
  /\ StateOf("expired") = "closed" /\ StateOf("revoked") = "closed"
  /\ \A x \in RowStatus : StateOf(x) = "shut" => x = "burned"
BY DEF StateOf, RowStatus

StateMoves(l, from, to) == StateNow[l] = from /\ StateNow' = [StateNow EXCEPT ![l] = to]

LEMMA OneMoves ==
  ASSUME NEW s \in OneTime, \A t \in OneTime : t # s => status'[t] = status[t]
  PROVE  StateMoves(s, StateOf(status[s]), StateOf(status'[s]))
BY DEF StateMoves, StateNow

LEMMA NoneMoves ==
  ASSUME \A t \in OneTime : status'[t] = status[t]
  PROVE  UNCHANGED StateNow
BY DEF StateNow

LEMMA HoldingMember ==
  ASSUME NEW S
  PROVE  /\ Holding(S) \subseteq OneTime \X Reveal
         /\ \A l \in OneTime, t \in Reveal :
              <<l, t>> \in Holding(S) <=> reveal[t].share = l /\ reveal[t].at \in S
BY DEF Holding

\* A step of v, which is about s, changes what v holds and nothing else.
LEMMA HoldingMoved ==
  ASSUME NEW v \in Reveal, NEW s \in Share, NEW S,
         reveal[v].share \in {s, NoShare}, reveal'[v].share \in {s, NoShare},
         \A w \in Reveal : w # v => reveal'[w] = reveal[w]
  PROVE  /\ s \in OneTime /\ reveal'[v].share = s /\ reveal'[v].at \in S
              => Holding(S)' = Holding(S) \cup {<<s, v>>}
         /\ ~ (s \in OneTime /\ reveal'[v].share = s /\ reveal'[v].at \in S)
              => Holding(S)' = Holding(S) \ {<<s, v>>}
<1>0. NoShare \notin Share /\ OneTime \subseteq Share
  BY ShareConstants
<1>1. /\ Holding(S) \subseteq OneTime \X Reveal
      /\ \A l \in OneTime, t \in Reveal :
           <<l, t>> \in Holding(S) <=> reveal[t].share = l /\ reveal[t].at \in S
  BY HoldingMember
<1>2. /\ Holding(S)' \subseteq OneTime \X Reveal
      /\ \A l \in OneTime, t \in Reveal :
           <<l, t>> \in Holding(S)' <=> reveal'[t].share = l /\ reveal'[t].at \in S
  BY DEF Holding
<1>3. ASSUME NEW l \in OneTime, NEW t \in Reveal, <<l, t>> # <<s, v>>
      PROVE  <<l, t>> \in Holding(S)' <=> <<l, t>> \in Holding(S)
  <2>1. CASE t # v
    BY <1>1, <1>2, <2>1
  <2>2. CASE t = v
    <3>1. l # s /\ l # NoShare
      BY <1>0, <1>3, <2>2
    <3> QED BY <1>1, <1>2, <2>2, <3>1
  <2> QED BY <2>1, <2>2
<1>4. s \in OneTime => (<<s, v>> \in Holding(S)' <=> reveal'[v].share = s /\ reveal'[v].at \in S)
  BY <1>2
<1>5. s \notin OneTime => <<s, v>> \notin Holding(S)' /\ <<s, v>> \notin Holding(S)
  BY <1>1, <1>2
<1> QED BY <1>1, <1>2, <1>3, <1>4, <1>5

\* The steps of the abstract link, in terms of the shares.
LinkMove ==
  \/ UNCHANGED <<StateNow, TakenNow, ReadNow, shown, recalled, ReadableNow>>
  \/ \E l \in OneTime :
       /\ StateMoves(l, "none", "open") /\ ReadableNow' = ReadableNow \cup {l}
       /\ UNCHANGED <<TakenNow, ReadNow, shown, recalled>>
  \/ \E l \in OneTime, t \in Reveal :
       /\ StateMoves(l, "open", "shut") /\ TakenNow' = TakenNow \cup {<<l, t>>}
       /\ UNCHANGED <<ReadNow, shown, recalled, ReadableNow>>
  \/ \E l \in OneTime, t \in Reveal :
       /\ <<l, t>> \in TakenNow /\ l \in ReadableNow
       /\ TakenNow' = TakenNow \ {<<l, t>>} /\ ReadNow' = ReadNow \cup {<<l, t>>}
       /\ UNCHANGED <<StateNow, shown, recalled, ReadableNow>>
  \/ \E l \in OneTime, t \in Reveal :
       /\ <<l, t>> \in TakenNow /\ TakenNow' = TakenNow \ {<<l, t>>}
       /\ StateNow' = [StateNow EXCEPT ![l] = IF StateNow[l] = "shut" THEN "open" ELSE StateNow[l]]
       /\ UNCHANGED <<ReadNow, shown, recalled, ReadableNow>>
  \/ \E l \in OneTime, t \in Reveal :
       /\ <<l, t>> \in ReadNow /\ ReadNow' = ReadNow \ {<<l, t>>}
       /\ shown' = [shown EXCEPT ![l] = shown[l] + 1]
       /\ UNCHANGED <<StateNow, TakenNow, recalled, ReadableNow>>
  \/ \E l \in OneTime, t \in Reveal :
       /\ <<l, t>> \in TakenNow \cup ReadNow
       /\ TakenNow' = TakenNow \ {<<l, t>>} /\ ReadNow' = ReadNow \ {<<l, t>>}
       /\ UNCHANGED <<StateNow, shown, recalled, ReadableNow>>
  \/ \E l \in OneTime :
       /\ StateMoves(l, "shut", "open") /\ recalled' = [recalled EXCEPT ![l] = recalled[l] + 1]
       /\ UNCHANGED <<TakenNow, ReadNow, shown, ReadableNow>>
  \/ /\ \E L \in SUBSET {l \in OneTime : StateNow[l] = "open"} :
          StateNow' = [l \in OneTime |-> IF l \in L THEN "closed" ELSE StateNow[l]]
     /\ UNCHANGED <<TakenNow, ReadNow, shown, recalled, ReadableNow>>
  \/ \E l \in OneTime :
       /\ StateNow[l] = "closed" \/ \E t \in Reveal : <<l, t>> \in ReadNow
       /\ ReadableNow' = ReadableNow \ {l}
       /\ UNCHANGED <<StateNow, TakenNow, ReadNow, shown, recalled>>

LEMMA LinkMoves ==
  ASSUME LinkMove
  PROVE  [Links!Next]_(Links!linkVars)
<1>0. SUFFICES ASSUME ~ UNCHANGED <<StateNow, TakenNow, ReadNow, shown, recalled, ReadableNow>>
               PROVE  Links!Next
  BY DEF StateNow, TakenNow, ReadNow, ReadableNow, Links!linkVars
<1>1. ASSUME NEW l \in OneTime,
             StateMoves(l, "none", "open"), ReadableNow' = ReadableNow \cup {l},
             UNCHANGED <<TakenNow, ReadNow, shown, recalled>>
      PROVE  Links!Next
  <2>1. Links!Publish(l)
    BY <1>1 DEF StateMoves, StateNow, TakenNow, ReadNow, ReadableNow, Links!Publish, Links!Becomes
  <2> QED BY <2>1 DEF Links!Next, Links!LinkStep
<1>2. ASSUME NEW l \in OneTime, NEW t \in Reveal,
             StateMoves(l, "open", "shut"), TakenNow' = TakenNow \cup {<<l, t>>},
             UNCHANGED <<ReadNow, shown, recalled, ReadableNow>>
      PROVE  Links!Next
  <2>1. Links!Take(l, t)
    BY <1>2 DEF StateMoves, StateNow, TakenNow, ReadNow, ReadableNow, Links!Take, Links!Becomes
  <2> QED BY <2>1 DEF Links!Next, Links!LinkStep
<1>3. ASSUME NEW l \in OneTime, NEW t \in Reveal, <<l, t>> \in TakenNow, l \in ReadableNow,
             TakenNow' = TakenNow \ {<<l, t>>}, ReadNow' = ReadNow \cup {<<l, t>>},
             UNCHANGED <<StateNow, shown, recalled, ReadableNow>>
      PROVE  Links!Next
  <2>1. Links!Read(l, t)
    BY <1>3 DEF StateNow, TakenNow, ReadNow, ReadableNow, Links!Read
  <2> QED BY <2>1 DEF Links!Next, Links!LinkStep
<1>4. ASSUME NEW l \in OneTime, NEW t \in Reveal,
             <<l, t>> \in TakenNow, TakenNow' = TakenNow \ {<<l, t>>},
             StateNow' = [StateNow EXCEPT ![l] = IF StateNow[l] = "shut" THEN "open"
                                                 ELSE StateNow[l]],
             UNCHANGED <<ReadNow, shown, recalled, ReadableNow>>
      PROVE  Links!Next
  <2>1. Links!GiveBack(l, t)
    BY <1>4 DEF StateNow, TakenNow, ReadNow, ReadableNow, Links!GiveBack
  <2> QED BY <2>1 DEF Links!Next, Links!LinkStep
<1>5. ASSUME NEW l \in OneTime, NEW t \in Reveal,
             <<l, t>> \in ReadNow, ReadNow' = ReadNow \ {<<l, t>>},
             shown' = [shown EXCEPT ![l] = shown[l] + 1],
             UNCHANGED <<StateNow, TakenNow, recalled, ReadableNow>>
      PROVE  Links!Next
  <2>1. Links!Show(l, t)
    BY <1>5 DEF StateNow, TakenNow, ReadNow, ReadableNow, Links!Show
  <2> QED BY <2>1 DEF Links!Next, Links!LinkStep
<1>6. ASSUME NEW l \in OneTime, NEW t \in Reveal, <<l, t>> \in TakenNow \cup ReadNow,
             TakenNow' = TakenNow \ {<<l, t>>}, ReadNow' = ReadNow \ {<<l, t>>},
             UNCHANGED <<StateNow, shown, recalled, ReadableNow>>
      PROVE  Links!Next
  <2>1. Links!Lose(l, t)
    BY <1>6 DEF StateNow, TakenNow, ReadNow, ReadableNow, Links!Lose
  <2> QED BY <2>1 DEF Links!Next, Links!LinkStep
<1>7. ASSUME NEW l \in OneTime, StateMoves(l, "shut", "open"),
             recalled' = [recalled EXCEPT ![l] = recalled[l] + 1],
             UNCHANGED <<TakenNow, ReadNow, shown, ReadableNow>>
      PROVE  Links!Next
  <2>1. Links!Recall(l)
    BY <1>7 DEF StateMoves, StateNow, TakenNow, ReadNow, ReadableNow, Links!Recall, Links!Becomes
  <2> QED BY <2>1 DEF Links!Next, Links!LinkStep
<1>8. ASSUME NEW L \in SUBSET {l \in OneTime : StateNow[l] = "open"},
             StateNow' = [l \in OneTime |-> IF l \in L THEN "closed" ELSE StateNow[l]],
             UNCHANGED <<TakenNow, ReadNow, shown, recalled, ReadableNow>>
      PROVE  Links!Next
  <2>1. Links!Close
    BY <1>8 DEF StateNow, TakenNow, ReadNow, ReadableNow, Links!Close
  <2> QED BY <2>1 DEF Links!Next
<1>9. ASSUME NEW l \in OneTime, StateNow[l] = "closed" \/ \E t \in Reveal : <<l, t>> \in ReadNow,
             ReadableNow' = ReadableNow \ {l},
             UNCHANGED <<StateNow, TakenNow, ReadNow, shown, recalled>>
      PROVE  Links!Next
  <2>1. Links!Erase(l)
    BY <1>9 DEF StateNow, TakenNow, ReadNow, ReadableNow, Links!Erase
  <2> QED BY <2>1 DEF Links!Next, Links!LinkStep
<1> QED BY <1>0, <1>1, <1>2, <1>3, <1>4, <1>5, <1>6, <1>7, <1>8, <1>9 DEF LinkMove

LEMMA RowLinks ==
  ASSUME Sound, Readable, ~ AnswersLost,
         \/ \E s \in Share : Mint(s) \/ Creating(s) \/ CreatorCrashes(s)
         \/ \E s \in Share, r \in Recipient : VerifyRecipientEmail(s, r)
         \/ \E s \in Share : RevokeShare(s) \/ PurgeRevoked(s)
         \/ \E x \in Resource : TrashResource(x) \/ RestoreResource(x)
         \/ CleanupExpiredShares
         \/ Tick
         \/ UNCHANGED vars
  PROVE  LinkMove
<1>0. /\ OneTime \subseteq Share /\ status \in [Share -> RowStatus]
      /\ RowsLater /\ PurgedAreRevoked /\ RowsMove
  BY ShareConstants, RowSteps DEF Sound, TypeOK, RowStatus
<1>1. UNCHANGED <<TakenNow, ReadNow, shown, recalled>>
  BY <1>0 DEF RowsMove, TakenNow, ReadNow, Holding
<1>2. ASSUME UNCHANGED status, UNCHANGED ReadableNow PROVE LinkMove
  BY <1>1, <1>2, NoneMoves DEF LinkMove
<1>3. ASSUME UNCHANGED <<status, stored>> PROVE LinkMove
  BY <1>2, <1>3 DEF ReadableNow
<1>4. ASSUME NEW s \in Share, Mint(s) PROVE LinkMove
  <2>1. UNCHANGED status /\ stored' = stored \cup {s} /\ status[s] = "none"
    BY <1>0, <1>4 DEF Mint, RowsLater, rowVars
  <2> QED BY <1>2, <2>1 DEF ReadableNow
<1>5. ASSUME NEW s \in Share, CreateShare(s) PROVE LinkMove
  <2>1. UNCHANGED stored /\ status[s] = "none" /\ s \in stored
    BY <1>0, <1>5 DEF CreateShare, RowsLater, Readable
  <2>2. status'[s] = "active" /\ \A t \in Share : t # s => status'[t] = status[t]
    BY <1>0, <1>5 DEF CreateShare
  <2>3. CASE s \in OneTime
    <3>1. StateMoves(s, "none", "open")
      BY <1>0, <2>1, <2>2, <2>3, OneMoves, States
    <3>2. ReadableNow' = ReadableNow \cup {s}
      BY <1>0, <2>1, <2>2, <2>3 DEF ReadableNow
    <3> QED BY <1>1, <2>3, <3>1, <3>2 DEF LinkMove
  <2>4. CASE s \notin OneTime
    <3>1. UNCHANGED StateNow
      BY <1>0, <2>2, <2>4, NoneMoves
    <3>2. UNCHANGED ReadableNow
      BY <1>0, <2>1, <2>2, <2>4 DEF ReadableNow
    <3> QED BY <1>1, <3>1, <3>2 DEF LinkMove
  <2> QED BY <2>3, <2>4
<1>6. ASSUME NEW s \in Share, DiscardPayload(s) PROVE LinkMove
  <2>1. UNCHANGED status /\ stored' \in {stored, stored \ {s}} /\ status[s] = "none"
    BY <1>6 DEF DiscardPayload, rowVars, Readable
  <2> QED BY <1>2, <2>1 DEF ReadableNow
<1>7. ASSUME UNCHANGED stored,
             \A t \in Share : status'[t] = status[t]
                              \/ (status[t] = "active" /\ status'[t] \in {"revoked", "expired"})
      PROVE  LinkMove
  <2> DEFINE L == {l \in OneTime : status'[l] # status[l]}
  <2>1. ASSUME NEW l \in L PROVE StateOf(status[l]) = "open" /\ StateOf(status'[l]) = "closed"
    BY <1>0, <1>7, States
  <2>2. \A l \in OneTime : l \notin L => status'[l] = status[l]
    OBVIOUS
  <2>3. L \in SUBSET {l \in OneTime : StateNow[l] = "open"}
    BY <2>1 DEF StateNow
  <2>4. StateNow' = [l \in OneTime |-> IF l \in L THEN "closed" ELSE StateNow[l]]
    BY <2>1, <2>2 DEF StateNow
  <2>5. UNCHANGED ReadableNow
    BY <1>0, <1>7 DEF ReadableNow
  <2> HIDE DEF L
  <2> QED BY <1>1, <2>3, <2>4, <2>5 DEF LinkMove
<1>8. ASSUME NEW s \in Share, PurgeRevoked(s) PROVE LinkMove
  <2>1. UNCHANGED status /\ stored' \in {stored, stored \ {s}} /\ status[s] = "revoked"
    BY <1>0, <1>8 DEF PurgeRevoked, PurgedAreRevoked, rowVars
  <2>2. CASE s \in OneTime /\ stored' = stored \ {s}
    <3>1. StateNow[s] = "closed" /\ UNCHANGED StateNow
      BY <2>1, <2>2, States DEF StateNow
    <3>2. ReadableNow' = ReadableNow \ {s}
      BY <2>1, <2>2 DEF ReadableNow
    <3> QED BY <1>1, <2>2, <3>1, <3>2 DEF LinkMove
  <2>3. ReadableNow' = ReadableNow \/ (s \in OneTime /\ stored' = stored \ {s})
    BY <2>1 DEF ReadableNow
  <2> QED BY <1>2, <2>1, <2>2, <2>3
<1>9. ASSUME NEW s \in Share, CreateRefused(s) \/ CreatorCrashes(s) PROVE LinkMove
  BY <1>3, <1>9 DEF CreateRefused, CreatorCrashes, rowVars
<1>10. ASSUME NEW s \in Share, NEW r \in Recipient, VerifyRecipientEmail(s, r) PROVE LinkMove
  BY <1>3, <1>10 DEF VerifyRecipientEmail
<1>11. ASSUME NEW s \in Share, RevokeShare(s) PROVE LinkMove
  BY <1>0, <1>7, <1>11 DEF RevokeShare
<1>12. ASSUME NEW x \in Resource, TrashResource(x) PROVE LinkMove
  BY <1>0, <1>7, <1>12 DEF TrashResource
<1>13. ASSUME NEW x \in Resource, RestoreResource(x) PROVE LinkMove
  BY <1>3, <1>13 DEF RestoreResource, rowVars
<1>14. CASE CleanupExpiredShares
  BY <1>0, <1>7, <1>14 DEF CleanupExpiredShares, Overdue
<1>15. CASE Tick \/ UNCHANGED vars
  BY <1>3, <1>15 DEF Tick, vars, rowVars
<1> QED
  BY <1>4, <1>5, <1>6, <1>8, <1>9, <1>10, <1>11, <1>12, <1>13, <1>14, <1>15 DEF Creating

LEMMA VerifyLinks ==
  ASSUME Sound, ~ AnswersLost,
         NEW v \in Reveal, NEW s \in Share, NEW r \in Recipient, VerifyOtp(v, s, r)
  PROVE  LinkMove
<1>0. /\ OneTime \subseteq Share /\ NoShare \notin Share /\ TypeOK
      /\ UNCHANGED <<shown, stored, recalled>>
      /\ reveal[v].share = NoShare /\ status[s] = "active"
      /\ reveal' = [reveal EXCEPT ![v] = At("reading", s)]
      /\ At("reading", s) \in RevealState
      /\ At("reading", s).at = "reading" /\ At("reading", s).share = s
  BY ShareConstants, Fields DEF Sound, VerifyOtp, Open, RevealAt
<1>1. /\ \A t \in Share : t # s => status'[t] = status[t]
      /\ s \in OneTime => status'[s] = "burned"
      /\ s \notin OneTime => status'[s] = "active"
  BY <1>0 DEF VerifyOtp, TypeOK
<1>2. /\ reveal'[v].at = "reading" /\ reveal'[v].share = s
      /\ \A w \in Reveal : w # v => reveal'[w] = reveal[w]
  BY <1>0, MovedEffect DEF Moved
<1>3. UNCHANGED ReadableNow
  BY <1>0, <1>1 DEF ReadableNow
<1>4. ReadNow' = ReadNow
  <2>1. ReadNow' = ReadNow \ {<<s, v>>}
    BY <1>0, <1>2, HoldingMoved DEF ReadNow
  <2>2. <<s, v>> \notin ReadNow
    BY <1>0, HoldingMember DEF ReadNow
  <2> QED BY <2>1, <2>2
<1>5. CASE s \in OneTime
  <2>1. StateMoves(s, "open", "shut")
    BY <1>0, <1>1, <1>5, OneMoves, States
  <2>2. TakenNow' = TakenNow \cup {<<s, v>>}
    BY <1>0, <1>2, <1>5, HoldingMoved DEF TakenNow
  <2> QED BY <1>0, <1>3, <1>4, <1>5, <2>1, <2>2 DEF LinkMove
<1>6. CASE s \notin OneTime
  <2>1. UNCHANGED StateNow
    BY <1>0, <1>1, <1>6, NoneMoves
  <2>2. TakenNow' = TakenNow \ {<<s, v>>}
    BY <1>0, <1>2, <1>6, HoldingMoved DEF TakenNow
  <2>3. <<s, v>> \notin TakenNow
    BY <1>6, HoldingMember DEF TakenNow
  <2> QED BY <1>0, <1>3, <1>4, <2>1, <2>2, <2>3 DEF LinkMove
<1> QED BY <1>5, <1>6

LEMMA RestoreLinks ==
  ASSUME Sound, NEW s \in Share, RestoreBurnedShare(s)
  PROVE  LinkMove
<1>0. /\ OneTime \subseteq Share /\ status \in [Share -> RowStatus] /\ s \in OneTime
      /\ status[s] = "burned" /\ status' = Unburned(s) /\ UNCHANGED <<reveal, stored, shown>>
      /\ recalled' = [recalled EXCEPT ![s] = recalled[s] + 1]
  BY ShareConstants DEF Sound, TypeOK, RowStatus, RestoreBurnedShare
<1>1. status'[s] = "active" /\ \A t \in Share : t # s => status'[t] = status[t]
  BY <1>0, UnburnedEffect
<1>2. StateMoves(s, "shut", "open")
  BY <1>0, <1>1, OneMoves, States
<1>3. UNCHANGED <<TakenNow, ReadNow>>
  BY <1>0 DEF TakenNow, ReadNow, Holding
<1>4. UNCHANGED ReadableNow
  BY <1>0, <1>1 DEF ReadableNow
<1> QED BY <1>0, <1>2, <1>3, <1>4 DEF LinkMove

LEMMA RevealLinks ==
  ASSUME Sound, NEW v \in Reveal, Revealing(v) \/ RevealCrashes(v)
  PROVE  LinkMove
<1>0. /\ OneTime \subseteq Share /\ NoShare \notin Share /\ TypeOK /\ RevealsSound /\ Unborn
      /\ status \in [Share -> RowStatus]
  BY ShareConstants DEF Sound, TypeOK, RowStatus
<1>1. PICK s \in Share, x \in RevealState :
        /\ reveal[v].share = s /\ reveal[v].at \in RevealAt \ {"idle"} /\ Moved(v, x)
        /\ UNCHANGED recalled /\ x.share \in {s, NoShare}
        /\ \/ /\ reveal[v].at = "reading" /\ s \in stored /\ x.share = s
              /\ s \in OneTime => x.at = "deleting"
              /\ UNCHANGED <<status, stored, shown>>
           \/ /\ reveal[v].at = "reading" /\ x.share = s /\ x.at = "unburning"
              /\ UNCHANGED <<status, stored, shown>>
           \/ /\ reveal[v].at = "unburning" /\ x.share = NoShare /\ status' = Unburned(s)
              /\ UNCHANGED <<stored, shown>>
           \/ /\ reveal[v].at = "deleting" /\ x.share = s /\ x.at = "returning" /\ s \in OneTime
              /\ stored' \in {stored, stored \ {s}} /\ UNCHANGED <<status, shown>>
           \/ /\ reveal[v].at = "returning" /\ x.share = NoShare
              /\ shown' = [t \in OneTime |-> IF t = s /\ shown[t] < MaxShown
                                             THEN shown[t] + 1 ELSE shown[t]]
              /\ UNCHANGED <<status, stored>>
           \/ /\ x.share = NoShare /\ UNCHANGED <<status, stored, shown>>
  <2>1. /\ Idle \in RevealState /\ Idle.share = NoShare
        /\ \A step \in RevealAt, s \in Share :
             At(step, s) \in RevealState /\ At(step, s).at = step /\ At(step, s).share = s
        /\ {"reading", "unburning", "deleting", "returning"} \subseteq RevealAt
    BY Fields DEF RevealAt
  <2>2. reveal[v].at \in RevealAt /\ (reveal[v].at = "deleting" => reveal[v].share \in OneTime)
    BY <1>0 DEF RevealsSound, TypeOK
  <2> QED BY <1>0, <2>1, <2>2, RevealSteps
<1>2. /\ reveal'[v] = x /\ \A w \in Reveal : w # v => reveal'[w] = reveal[w]
  BY <1>0, <1>1, MovedEffect
<1>3. /\ \A t \in Share : t # s => status'[t] = status[t]
      /\ status' = Unburned(s) /\ s \in OneTime /\ status[s] = "burned" => status'[s] = "active"
      /\ status' = Unburned(s) /\ ~ (s \in OneTime /\ status[s] = "burned")
           => status'[s] = status[s]
  <2>1. CASE status' = status
    BY <2>1, <1>0, UnburnedEffect
  <2>2. CASE status' = Unburned(s)
    BY <1>0, <2>2, UnburnedEffect
  <2> QED BY <1>1, <2>1, <2>2
<1>4. status[s] # "none"
  BY <1>0, <1>1 DEF Unborn, On
<1>5. ASSUME NEW S
      PROVE  /\ s \in OneTime => (<<s, v>> \in Holding(S) <=> reveal[v].at \in S)
             /\ s \notin OneTime => <<s, v>> \notin Holding(S)
             /\ s \in OneTime /\ x.share = s /\ x.at \in S
                  => Holding(S)' = Holding(S) \cup {<<s, v>>}
             /\ ~ (s \in OneTime /\ x.share = s /\ x.at \in S)
                  => Holding(S)' = Holding(S) \ {<<s, v>>}
  <2>1. reveal'[v].share = x.share /\ reveal'[v].at = x.at
        /\ reveal[v].share \in {s, NoShare} /\ reveal'[v].share \in {s, NoShare}
    BY <1>1, <1>2
  <2>2. /\ s \in OneTime => (<<s, v>> \in Holding(S) <=> reveal[v].at \in S)
        /\ s \notin OneTime => <<s, v>> \notin Holding(S)
    BY <1>1, HoldingMember
  <2>3. /\ s \in OneTime /\ reveal'[v].share = s /\ reveal'[v].at \in S
              => Holding(S)' = Holding(S) \cup {<<s, v>>}
        /\ ~ (s \in OneTime /\ reveal'[v].share = s /\ reveal'[v].at \in S)
              => Holding(S)' = Holding(S) \ {<<s, v>>}
    BY <1>2, <2>1, HoldingMoved
  <2> QED BY <2>1, <2>2, <2>3
<1>6. /\ s \in OneTime => (<<s, v>> \in TakenNow <=> reveal[v].at \in {"reading", "unburning"})
      /\ s \notin OneTime => <<s, v>> \notin TakenNow
      /\ s \in OneTime /\ x.share = s /\ x.at \in {"reading", "unburning"}
           => TakenNow' = TakenNow \cup {<<s, v>>}
      /\ ~ (s \in OneTime /\ x.share = s /\ x.at \in {"reading", "unburning"})
           => TakenNow' = TakenNow \ {<<s, v>>}
  BY <1>5 DEF TakenNow
<1>7. /\ s \in OneTime => (<<s, v>> \in ReadNow <=> reveal[v].at \in {"deleting", "returning"})
      /\ s \notin OneTime => <<s, v>> \notin ReadNow
      /\ s \in OneTime /\ x.share = s /\ x.at \in {"deleting", "returning"}
           => ReadNow' = ReadNow \cup {<<s, v>>}
      /\ ~ (s \in OneTime /\ x.share = s /\ x.at \in {"deleting", "returning"})
           => ReadNow' = ReadNow \ {<<s, v>>}
  BY <1>5 DEF ReadNow
<1>8. UNCHANGED stored => UNCHANGED ReadableNow
  <2>1. \A t \in Share : status'[t] # "none" <=> status[t] # "none"
    BY <1>1, <1>3, <1>4
  <2> QED BY <1>0, <2>1 DEF ReadableNow
<1>9. CASE s \notin OneTime
  <2>1. UNCHANGED StateNow
    BY <1>0, <1>3, <1>9, NoneMoves
  <2>2. UNCHANGED <<TakenNow, ReadNow>>
    BY <1>6, <1>7, <1>9
  <2>3. UNCHANGED shown
    <3>1. shown = [t \in OneTime |-> shown[t]]
      BY <1>0 DEF TypeOK
    <3>2. [t \in OneTime |-> IF t = s /\ shown[t] < MaxShown THEN shown[t] + 1 ELSE shown[t]]
            = [t \in OneTime |-> shown[t]]
      BY <1>9
    <3> QED BY <1>1, <3>1, <3>2
  <2> QED BY <1>1, <1>8, <1>9, <2>1, <2>2, <2>3 DEF LinkMove
<1>10. CASE s \in OneTime
  <2>1. CASE reveal[v].at = "reading" /\ s \in stored /\ x.share = s /\ x.at = "deleting"
             /\ UNCHANGED <<status, stored, shown>>
    <3>1. s \in ReadableNow /\ UNCHANGED <<StateNow, ReadableNow>>
      BY <1>4, <1>8, <1>10, <2>1 DEF ReadableNow, StateNow
    <3>2. /\ <<s, v>> \in TakenNow /\ TakenNow' = TakenNow \ {<<s, v>>}
          /\ ReadNow' = ReadNow \cup {<<s, v>>}
      BY <1>6, <1>7, <1>10, <2>1
    <3> QED BY <1>1, <1>10, <2>1, <3>1, <3>2 DEF LinkMove
  <2>2. CASE reveal[v].at = "reading" /\ x.share = s /\ x.at = "unburning"
             /\ UNCHANGED <<status, stored, shown>>
    <3>1. UNCHANGED <<StateNow, ReadableNow>>
      BY <1>8, <2>2 DEF StateNow
    <3>2. UNCHANGED <<TakenNow, ReadNow>>
      BY <1>6, <1>7, <1>10, <2>2
    <3> QED BY <1>1, <2>2, <3>1, <3>2 DEF LinkMove
  <2>3. CASE reveal[v].at = "unburning" /\ x.share = NoShare /\ status' = Unburned(s)
             /\ UNCHANGED <<stored, shown>>
    <3>1. /\ <<s, v>> \in TakenNow /\ TakenNow' = TakenNow \ {<<s, v>>}
          /\ UNCHANGED <<ReadNow, ReadableNow>>
      BY <1>0, <1>1, <1>6, <1>7, <1>8, <1>10, <2>3
    <3>2. StateNow' = [StateNow EXCEPT ![s] = IF StateNow[s] = "shut" THEN "open"
                                              ELSE StateNow[s]]
      <4>1. CASE status[s] = "burned"
        <5>1. StateMoves(s, "shut", "open")
          BY <1>0, <1>3, <1>10, <2>3, <4>1, OneMoves, States
        <5> QED BY <5>1 DEF StateMoves
      <4>2. CASE status[s] # "burned"
        <5>1. StateNow[s] # "shut"
          BY <1>0, <1>10, <4>2, States DEF StateNow
        <5>2. UNCHANGED StateNow
          BY <1>0, <1>3, <2>3, <4>2, NoneMoves
        <5> QED BY <5>1, <5>2 DEF StateNow
      <4> QED BY <4>1, <4>2
    <3> QED BY <1>1, <1>10, <2>3, <3>1, <3>2 DEF LinkMove
  <2>4. CASE reveal[v].at = "deleting" /\ x.share = s /\ x.at = "returning"
             /\ stored' \in {stored, stored \ {s}} /\ UNCHANGED <<status, shown>>
    <3>1. UNCHANGED <<StateNow, TakenNow, ReadNow>> /\ <<s, v>> \in ReadNow
      BY <1>6, <1>7, <1>10, <2>4 DEF StateNow
    <3>2. UNCHANGED ReadableNow \/ ReadableNow' = ReadableNow \ {s}
      BY <2>4 DEF ReadableNow
    <3> QED BY <1>1, <1>10, <2>4, <3>1, <3>2 DEF LinkMove
  <2>5. CASE /\ reveal[v].at = "returning" /\ x.share = NoShare
             /\ shown' = [t \in OneTime |-> IF t = s /\ shown[t] < MaxShown
                                            THEN shown[t] + 1 ELSE shown[t]]
             /\ UNCHANGED <<status, stored>>
    <3>1. shown[s] < MaxShown
      <4>1. v \in Holders(s)
        BY <1>1 DEF Holders, On
      <4>2. Cardinality(Holders(s)) \in Nat /\ Cardinality(Holders(s)) # 0
        BY <4>1, HoldersFinite, FS_EmptySet
      <4>3. shown[s] + Cardinality(Holders(s)) + Openings(s) <= 1 + recalled[s]
        BY <1>10 DEF Sound, Credit
      <4>4. /\ shown[s] \in Nat /\ recalled[s] \in 0..MaxRecalls /\ MaxRecalls \in Nat
            /\ Openings(s) \in {0, 1}
        BY <1>0, <1>10, CountsAreNumbers DEF Openings
      <4> QED BY <4>2, <4>3, <4>4 DEF MaxShown
    <3>2. shown' = [shown EXCEPT ![s] = shown[s] + 1]
      <4>1. shown = [t \in OneTime |-> shown[t]]
        BY <1>0 DEF TypeOK
      <4> QED BY <1>10, <2>5, <3>1, <4>1
    <3>3. /\ <<s, v>> \in ReadNow /\ ReadNow' = ReadNow \ {<<s, v>>}
          /\ UNCHANGED <<StateNow, TakenNow>>
      BY <1>0, <1>1, <1>6, <1>7, <1>10, <2>5 DEF StateNow
    <3> QED BY <1>1, <1>8, <1>10, <2>5, <3>2, <3>3 DEF LinkMove
  <2>6. CASE x.share = NoShare /\ UNCHANGED <<status, stored, shown>>
    <3>1. <<s, v>> \in TakenNow \cup ReadNow
      BY <1>1, <1>6, <1>7, <1>10 DEF RevealAt
    <3>2. /\ TakenNow' = TakenNow \ {<<s, v>>} /\ ReadNow' = ReadNow \ {<<s, v>>}
          /\ UNCHANGED StateNow
      BY <1>0, <1>6, <1>7, <1>10, <2>6 DEF StateNow
    <3> QED BY <1>1, <1>8, <1>10, <2>6, <3>1, <3>2 DEF LinkMove
  <2> QED BY <1>1, <1>10, <2>1, <2>2, <2>3, <2>4, <2>5, <2>6
<1> QED BY <1>9, <1>10

LEMMA LinkNext ==
  ASSUME Sound, Readable, ~ AnswersLost, [Next]_vars
  PROVE  [Links!Next]_(Links!linkVars)
<1>1. LinkMove
  BY RowLinks, VerifyLinks, RevealLinks, RestoreLinks DEF Next
<1> QED BY <1>1, LinkMoves

LEMMA LinkInit == Init => Links!Init
<1>1. SUFFICES ASSUME Init PROVE Links!Init
  OBVIOUS
<1>2. OneTime \subseteq Share
  BY ShareConstants
<1>3. \A s \in OneTime : StateOf(status[s]) = "none" /\ status[s] = "none"
  BY <1>1, <1>2, States DEF Init
<1>4. [s \in OneTime |-> StateOf(status[s])] = [s \in OneTime |-> "none"]
  BY <1>3
<1>5. \A S : (S \subseteq {"reading", "unburning", "deleting", "returning"}) => Holding(S) = {}
  BY <1>1, Fields DEF Init, Holding
<1>6. Holding({"reading", "unburning"}) = {} /\ Holding({"deleting", "returning"}) = {}
  BY <1>5
<1>7. {s \in OneTime \cap stored : status[s] # "none"} = {}
  BY <1>3
<1> QED BY <1>1, <1>4, <1>6, <1>7 DEF Init, Links!Init

(* A one-time share keeps the promise of the abstract link, however many   *)
(* recipients, codes and reveals meet, however often reads fail, actions   *)
(* stop and somebody with the link unburns it, if no transaction commits   *)
(* and is seen to fail (share.ts:134, mutations.ts:320).                   *)
THEOREM ImplementsLink ==
  ASSUME ~ AnswersLost
  PROVE  Spec => KeepsLink
<1>1. Sound /\ Readable /\ [Next]_vars => (Sound /\ Readable)'
  BY SoundStep, ReadableStep
<1>2. Sound /\ Readable /\ [Next]_vars => [Links!Next]_(Links!linkVars)
  BY LinkNext
<1> QED BY <1>1, <1>2, InitSound, LinkInit, PTL DEF Spec, KeepsLink, Links!Spec
=============================================================================
