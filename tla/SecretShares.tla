---------------------------- MODULE SecretShares ----------------------------
(***************************************************************************)
(* Links that show one secret to people outside: the actions of            *)
(* variables/share.ts, which keep the ciphertext in the vault, and the     *)
(* transactions of features/sharing on the sharedSecrets rows.  A one-time *)
(* share is burned before its ciphertext is read, and unburned when the    *)
(* read fails.  The transaction that unburns it is public: whoever has the *)
(* link may call it, whatever became of the reveal that burned it.         *)
(*                                                                         *)
(* A wrong code changes nothing: verifyOtp counts it and then throws, which*)
(* takes the count back.  otpAttempts is therefore always 0 and left out.  *)
(***************************************************************************)
EXTENDS Naturals, FiniteSets

CONSTANTS
  Share,
  OneTime,     \* the shares of mode "one_time"
  Resource,    \* the variables and accounts that are shared
  ResourceOf,
  Recipient,
  Reveal,      \* executions of verifyOtpAndReveal
  NoShare,
  Lifetime,    \* ticks until a share expires
  CodeLifetime,  \* ticks until a code expires
  MaxActive,   \* max_active_shares
  MaxRecalls,  \* bound: how often a share is unburned from outside
  AnswersLost  \* whether a transaction may commit and its caller see it fail

ASSUME ShareConstants ==
  /\ NoShare \notin Share /\ OneTime \subseteq Share
  /\ ResourceOf \in [Share -> Resource]
  /\ Lifetime \in Nat \ {0} /\ CodeLifetime \in Nat \ {0}
  /\ IsFiniteSet(Reveal)
  /\ MaxActive \in Nat /\ MaxRecalls \in Nat /\ AnswersLost \in BOOLEAN

VARIABLES
  status,   \* status of the sharedSecrets row, "none" before it exists
  left,     \* time until expiresAt
  code,     \* time until otpExpiresAt of the code a recipient was sent, 0 for no code
  stored,   \* shares whose ciphertext is in the vault
  creator,  \* where createWithPayload is
  reveal,   \* where each verifyOtpAndReveal is
  purging,  \* shares that revokeAndPurge has revoked and not yet purged
  trashed,  \* resources with deletedAt set
  \* auxiliary, of the one-time shares:
  shown,    \* how often the ciphertext was returned, up to MaxShown
  broken,   \* those of which a reveal was stopped, or not unburned
  fetched,  \* those whose ciphertext a reveal has read
  recalled  \* how often one was unburned from outside

rowVars == <<status, left, code>>
history == <<shown, broken, fetched, recalled>>
vars == <<rowVars, stored, creator, reveal, purging, trashed, history>>

MaxShown == MaxRecalls + 2

Idle == [at |-> "idle", share |-> NoShare]
At(step, s) == [at |-> step, share |-> s]
RevealAt == {"idle", "reading", "unburning", "deleting", "returning"}

TypeOK ==
  /\ status \in [Share -> {"none", "active", "burned", "expired", "revoked"}]
  /\ left \in [Share -> 0..Lifetime]
  /\ code \in [Share -> [Recipient -> 0..CodeLifetime]]
  /\ stored \subseteq Share
  /\ creator \in [Share -> {"idle", "minted", "refused", "done"}]
  /\ reveal \in [Reveal -> [at : RevealAt, share : Share \cup {NoShare}]]
  /\ purging \subseteq Share
  /\ trashed \subseteq Resource
  /\ shown \in [OneTime -> 0..MaxShown]
  /\ broken \subseteq OneTime
  /\ fetched \subseteq OneTime
  /\ recalled \in [OneTime -> 0..MaxRecalls]

Init ==
  /\ status = [s \in Share |-> "none"]
  /\ left = [s \in Share |-> 0]
  /\ code = [s \in Share |-> [r \in Recipient |-> 0]]
  /\ stored = {}
  /\ creator = [s \in Share |-> "idle"]
  /\ reveal = [v \in Reveal |-> Idle]
  /\ purging = {}
  /\ trashed = {}
  /\ shown = [s \in OneTime |-> 0]
  /\ broken = {}
  /\ fetched = {}
  /\ recalled = [s \in OneTime |-> 0]

Elapse(t) == IF t = 0 THEN 0 ELSE t - 1
Open(s) == status[s] = "active" /\ left[s] > 0

-----------------------------------------------------------------------------
(* createWithPayload.                                                      *)

Mint(s) ==
  /\ creator[s] = "idle"
  /\ creator' = [creator EXCEPT ![s] = "minted"]
  /\ stored' = stored \cup {s}
  /\ UNCHANGED <<rowVars, reveal, purging, trashed, history>>

\* countActiveShares, against the limit of the tier.
BelowLimit == Cardinality({s \in Share : Open(s)}) < MaxActive

CreateShare(s) ==
  /\ creator[s] = "minted"
  /\ ResourceOf[s] \notin trashed
  /\ BelowLimit
  /\ status' = [status EXCEPT ![s] = "active"]
  /\ left' = [left EXCEPT ![s] = Lifetime]
  /\ creator' \in {[creator EXCEPT ![s] = "done"]} \cup
                  (IF AnswersLost THEN {[creator EXCEPT ![s] = "refused"]} ELSE {})
  /\ UNCHANGED <<code, stored, reveal, purging, trashed, history>>

\* For the resource, the caller's rights, the tier or the rate.
CreateRefused(s) ==
  /\ creator[s] = "minted"
  /\ creator' = [creator EXCEPT ![s] = "refused"]
  /\ UNCHANGED <<rowVars, stored, reveal, purging, trashed, history>>

\* Best effort: a failed delete is swallowed.
DiscardPayload(s) ==
  /\ creator[s] = "refused"
  /\ creator' = [creator EXCEPT ![s] = "done"]
  /\ stored' \in {stored, stored \ {s}}
  /\ UNCHANGED <<rowVars, reveal, purging, trashed, history>>

CreatorCrashes(s) ==
  /\ creator[s] \in {"minted", "refused"}
  /\ creator' = [creator EXCEPT ![s] = "done"]
  /\ UNCHANGED <<rowVars, stored, reveal, purging, trashed, history>>

-----------------------------------------------------------------------------
(* The recipient: verifyRecipientEmail, then verifyOtpAndReveal.           *)

VerifyRecipientEmail(s, r) ==
  /\ Open(s)
  /\ code' = [code EXCEPT ![s][r] = CodeLifetime]
  /\ UNCHANGED <<status, left, stored, creator, reveal, purging, trashed, history>>

\* verifyOtp: the code is used up, and a one-time share burned.
VerifyOtp(v, s, r) ==
  /\ reveal[v] = Idle
  /\ Open(s)
  /\ ResourceOf[s] \notin trashed
  /\ code[s][r] > 0
  /\ code' = [code EXCEPT ![s][r] = 0]
  /\ status' = IF s \in OneTime THEN [status EXCEPT ![s] = "burned"] ELSE status
  /\ \/ /\ reveal' = [reveal EXCEPT ![v] = At("reading", s)]
        /\ UNCHANGED broken
     \/ /\ AnswersLost
        /\ broken' = broken \cup ({s} \cap OneTime)
        /\ UNCHANGED reveal
  /\ UNCHANGED <<left, stored, creator, purging, trashed, shown, fetched, recalled>>

\* Also the ciphertext of a time-limited share is deleted.
ReadAndDelete(v) ==
  /\ reveal[v].at = "reading"
  /\ reveal[v].share \in stored
  /\ reveal' = [reveal EXCEPT ![v] = At("deleting", reveal[v].share)]
  /\ fetched' = fetched \cup ({reveal[v].share} \cap OneTime)
  /\ UNCHANGED <<rowVars, stored, creator, purging, trashed, shown, broken, recalled>>

ReadSecret(v) ==
  /\ reveal[v].at = "reading"
  /\ reveal[v].share \in stored
  /\ LET s == reveal[v].share
     IN  reveal' = [reveal EXCEPT ![v] = At(IF s \in OneTime THEN "deleting" ELSE "returning", s)]
  /\ fetched' = fetched \cup ({reveal[v].share} \cap OneTime)
  /\ UNCHANGED <<rowVars, stored, creator, purging, trashed, shown, broken, recalled>>

\* The read fails and the share stays burned.
ReadFailsForGood(v) ==
  /\ reveal[v].at = "reading"
  /\ reveal' = [reveal EXCEPT ![v] = Idle]
  /\ UNCHANGED <<rowVars, stored, creator, purging, trashed, history>>

ReadFails(v) ==
  /\ reveal[v].at = "reading"
  /\ LET s == reveal[v].share
     IN  reveal' = [reveal EXCEPT ![v] = IF s \in OneTime THEN At("unburning", s) ELSE Idle]
  /\ UNCHANGED <<rowVars, stored, creator, purging, trashed, history>>

\* restoreBurnedShare, for every row of the table.
Unburned(s) ==
  [status EXCEPT ![s] = IF s \in OneTime /\ @ = "burned" THEN "active" ELSE @]

\* The recipient gets as much time again.
UnburnAfresh(v) ==
  /\ reveal[v].at = "unburning"
  /\ status' = Unburned(reveal[v].share)
  /\ left' = [left EXCEPT ![reveal[v].share] = Lifetime]
  /\ reveal' = [reveal EXCEPT ![v] = Idle]
  /\ UNCHANGED <<code, stored, creator, purging, trashed, history>>

\* The reveal gives its share back, whatever became of the row since.
Unburn(v) ==
  /\ reveal[v].at = "unburning"
  /\ status' = Unburned(reveal[v].share)
  /\ reveal' = [reveal EXCEPT ![v] = Idle]
  /\ UNCHANGED <<left, code, stored, creator, purging, trashed, history>>

RestoreFails(v) ==
  /\ reveal[v].at = "unburning"
  /\ broken' = broken \cup ({reveal[v].share} \cap OneTime)
  /\ reveal' = [reveal EXCEPT ![v] = Idle]
  /\ UNCHANGED <<rowVars, stored, creator, purging, trashed, shown, fetched, recalled>>

\* A share whose object is still there is unburned.
DeleteRevealedOrUnburn(v) ==
  /\ reveal[v].at = "deleting"
  /\ LET s == reveal[v].share
     IN  \/ stored' = stored \ {s} /\ UNCHANGED status
         \/ UNCHANGED stored /\ status' = [status EXCEPT ![s] = "active"]
  /\ reveal' = [reveal EXCEPT ![v] = At("returning", reveal[v].share)]
  /\ UNCHANGED <<left, code, creator, purging, trashed, history>>

\* Best effort; the ciphertext was read.
DeleteRevealed(v) ==
  /\ reveal[v].at = "deleting"
  /\ stored' \in {stored, stored \ {reveal[v].share}}
  /\ reveal' = [reveal EXCEPT ![v] = At("returning", reveal[v].share)]
  /\ UNCHANGED <<rowVars, creator, purging, trashed, history>>

Return(v) ==
  /\ reveal[v].at = "returning"
  /\ shown' = [s \in OneTime |-> IF s = reveal[v].share /\ shown[s] < MaxShown
                                 THEN shown[s] + 1 ELSE shown[s]]
  /\ reveal' = [reveal EXCEPT ![v] = Idle]
  /\ UNCHANGED <<rowVars, stored, creator, purging, trashed, broken, fetched, recalled>>

RevealCrashes(v) ==
  /\ reveal[v] # Idle
  /\ broken' = broken \cup ({reveal[v].share} \cap OneTime)
  /\ reveal' = [reveal EXCEPT ![v] = Idle]
  /\ UNCHANGED <<rowVars, stored, creator, purging, trashed, shown, fetched, recalled>>

\* Called by somebody who has the link; of any other share it is a no-op.
RestoreBurnedShare(s) ==
  /\ s \in OneTime /\ status[s] = "burned"
  /\ recalled[s] < MaxRecalls
  /\ status' = Unburned(s)
  /\ recalled' = [recalled EXCEPT ![s] = @ + 1]
  /\ UNCHANGED <<left, code, stored, creator, reveal, purging, trashed, shown, broken, fetched>>

-----------------------------------------------------------------------------
(* The organization: revokeAndPurge, and what becomes of the resource.     *)

RevokeShare(s) ==
  /\ status[s] = "active"
  /\ status' = [status EXCEPT ![s] = "revoked"]
  /\ purging' = purging \cup {s}
  /\ UNCHANGED <<left, code, stored, creator, reveal, trashed, history>>

PurgeRevoked(s) ==
  /\ s \in purging
  /\ purging' = purging \ {s}
  /\ stored' \in {stored, stored \ {s}}
  /\ UNCHANGED <<rowVars, creator, reveal, trashed, history>>

\* revokeSharesForResource leaves burned shares alone, and all ciphertexts.
TrashResource(x) ==
  /\ x \notin trashed
  /\ trashed' = trashed \cup {x}
  /\ status' = [s \in Share |-> IF ResourceOf[s] = x /\ status[s] = "active"
                                  THEN "revoked" ELSE status[s]]
  /\ UNCHANGED <<left, code, stored, creator, reveal, purging, history>>

RestoreResource(x) ==
  /\ x \in trashed
  /\ trashed' = trashed \ {x}
  /\ UNCHANGED <<rowVars, stored, creator, reveal, purging, history>>

-----------------------------------------------------------------------------
(* Time.  cleanupExpiredOtps only removes codes that are 0 here.           *)

Overdue == {s \in Share : status[s] = "active" /\ left[s] = 0}

CleanupExpiredShares ==
  /\ Overdue # {}
  /\ status' = [s \in Share |-> IF s \in Overdue THEN "expired" ELSE status[s]]
  /\ UNCHANGED <<left, code, stored, creator, reveal, purging, trashed, history>>

Tick ==
  /\ left' = [s \in Share |-> Elapse(left[s])]
  /\ code' = [s \in Share |-> [r \in Recipient |-> Elapse(code[s][r])]]
  /\ UNCHANGED <<status, stored, creator, reveal, purging, trashed, history>>

-----------------------------------------------------------------------------
Creating(s) == CreateShare(s) \/ CreateRefused(s) \/ DiscardPayload(s)

Revealing(v) ==
  \/ ReadSecret(v)
  \/ ReadFails(v)
  \/ Unburn(v)
  \/ RestoreFails(v)
  \/ DeleteRevealed(v)
  \/ Return(v)

Next ==
  \/ \E s \in Share : Mint(s) \/ Creating(s) \/ CreatorCrashes(s)
  \/ \E s \in Share, r \in Recipient : VerifyRecipientEmail(s, r)
  \/ \E v \in Reveal, s \in Share, r \in Recipient : VerifyOtp(v, s, r)
  \/ \E v \in Reveal : Revealing(v)
  \/ \E v \in Reveal : RevealCrashes(v)
  \/ \E s \in Share : RestoreBurnedShare(s)
  \/ \E s \in Share : RevokeShare(s) \/ PurgeRevoked(s)
  \/ \E x \in Resource : TrashResource(x) \/ RestoreResource(x)
  \/ CleanupExpiredShares
  \/ Tick

Spec == Init /\ [][Next]_vars

-----------------------------------------------------------------------------
(* Properties.                                                             *)

(* A one-time share is shown once, and once more for each time somebody    *)
(* with the link has unburned it: however many reveals overlap, fail and   *)
(* give it back, none of them ever adds to what its openings allow.  The   *)
(* promise without the exception (apps/docs/content/platform/              *)
(* sharing.mdx:35, "a second visit fails") is not kept: mutations.ts:320   *)
(* asks for nothing but the link.                                          *)
ShownOncePerOpening == \A s \in OneTime : shown[s] <= 1 + recalled[s]

(* A share that can be opened has its ciphertext, although three actions   *)
(* delete it beside the reveals: "refs pass byte-for-byte; the one-time    *)
(* delete is best-effort and only runs AFTER the ciphertext was read"      *)
(* (share.ts:25).  The exception takes two: a reveal that has read it and  *)
(* somebody who has unburned it from outside.                              *)
ActiveIsReadable ==
  \A s \in Share :
    status[s] = "active" =>
      \/ s \in stored
      \/ s \in fetched /\ recalled[s] > 0

(* A one-time share is burned because it was shown or is about to be; a    *)
(* vault that does not answer costs nobody the link (mutations.ts:322),    *)
(* unless the action itself was stopped or could not unburn it.            *)
BurnedForAReason ==
  \A s \in OneTime :
    status[s] = "burned" =>
      \/ shown[s] > 0
      \/ \E v \in Reveal : reveal[v].share = s
      \/ s \in broken

(* No share stays open: every one ends up shown, revoked or expired for    *)
(* good, also when it was unburned after its time was over.                *)
SharesEnd == <>[](\A s \in Share : status[s] # "active")

-----------------------------------------------------------------------------
(* The abstract share: who may still show a one-time share, and how often  *)
(* it was.                                                                 *)

StateOf(rowStatus) ==
  CASE rowStatus = "none" -> "none"
    [] rowStatus = "active" -> "open"
    [] rowStatus = "burned" -> "shut"
    [] rowStatus \in {"expired", "revoked"} -> "closed"

Holding(steps) ==
  {h \in OneTime \X Reveal : reveal[h[2]].share = h[1] /\ reveal[h[2]].at \in steps}

Links == INSTANCE OneTimeLink
  WITH Link <- OneTime, Taker <- Reveal,
       state <- [s \in OneTime |-> StateOf(status[s])],
       taken <- Holding({"reading", "unburning"}),
       read <- Holding({"deleting", "returning"}),
       shown <- shown,
       recalls <- recalled,
       readable <- {s \in OneTime \cap stored : status[s] # "none"}

(* A one-time share is the abstract link: only burning it lets a reveal    *)
(* show it, a reveal gives it back only unread, somebody with the link may *)
(* open it again, and what was revoked or expired never opens (share.ts:   *)
(* 134, mutations.ts:320).                                                 *)
KeepsLink == Links!Spec

(* What is assumed of the platform: time passes, the hourly cleanup runs,  *)
(* and actions go on.                                                      *)
Fairness ==
  /\ WF_vars(Tick)
  /\ WF_vars(CleanupExpiredShares)
  /\ \A v \in Reveal : WF_vars(Revealing(v))
  /\ \A s \in Share : WF_vars(Creating(s))

FairSpec == Spec /\ Fairness
=============================================================================
