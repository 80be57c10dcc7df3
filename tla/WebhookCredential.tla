-------------------------- MODULE WebhookCredential --------------------------
(***************************************************************************)
(* The URL of one notification webhook is a capability, kept as an object  *)
(* of the vault: features/integrations/webhooks.ts creates it before the   *)
(* row that names it, with a recovery pointer in between, and the purges of*)
(* integrations/dispatch.ts destroy it after the row was deleted, or when  *)
(* no row came of it.  Webhooks share nothing here but the size of a       *)
(* cleanup batch, so one is modelled.                                      *)
(***************************************************************************)
EXTENDS Naturals

CONSTANTS
  Run,       \* executions of purge, purgeOrphan and cleanupVault
  NoRun,
  MaxTries   \* deletes one purge or purgeOrphan tries before it gives up

ASSUME CredentialConstants == NoRun \notin Run /\ MaxTries \in Nat \ {0}

VARIABLES
  row,      \* the orgWebhooks row: "none", "live", "deleted" (deletedAt set), "gone"
  object,   \* the vault object: "none", "kept", "destroyed"
  pointer,  \* the webhookVaultCleanup row: "none", "tracked", "gone"
  aged,     \* the pointer is older than ORPHAN_GRACE_MS
  claim,    \* who last wrote the pointer's claimedAt
  fresh,    \* that claim is within CLEANUP_CLAIM_LEASE_MS
  creator,  \* where the create action is
  run,      \* the purging runs
  excused   \* auxiliary: create lost track of the object by a crash or a double failure

credentialVars == <<row, object, pointer, aged, claim, fresh, creator, run, excused>>

CreatorAt == {"idle", "minting", "tracking", "discarding", "storing", "undoing", "done"}
RunState == [at : {"idle", "claiming", "deleting", "reporting"},
             target : {"row", "pointer"}, tries : 0..MaxTries]
IdleRun == [at |-> "idle", target |-> "row", tries |-> 0]

CredentialTypeOK ==
  /\ row \in {"none", "live", "deleted", "gone"}
  /\ object \in {"none", "kept", "destroyed"}
  /\ pointer \in {"none", "tracked", "gone"}
  /\ aged \in BOOLEAN
  /\ claim \in Run \cup {NoRun}
  /\ fresh \in BOOLEAN
  /\ creator \in CreatorAt
  /\ run \in [Run -> RunState]
  /\ excused \in BOOLEAN

CredentialInit ==
  /\ row = "none"
  /\ object = "none"
  /\ pointer = "none"
  /\ aged = FALSE
  /\ claim = NoRun
  /\ fresh = FALSE
  /\ creator = "idle"
  /\ run = [r \in Run |-> IdleRun]
  /\ excused = FALSE

-----------------------------------------------------------------------------
(* create: _reserveCreate, the vault, _trackVaultCleanup, _store.          *)

\* A reservation that is refused changes nothing.
Reserve ==
  /\ creator = "idle"
  /\ creator' = "minting"
  /\ UNCHANGED <<row, object, pointer, aged, claim, fresh, run, excused>>

Mint ==
  /\ creator = "minting"
  /\ object' = "kept"
  /\ creator' = "tracking"
  /\ UNCHANGED <<row, pointer, aged, claim, fresh, run, excused>>

\* The request fails, or commits and its answer is lost.
MintThrows ==
  /\ creator = "minting"
  /\ object' \in {"none", "kept"}
  /\ excused' = (object' = "kept")
  /\ creator' = "done"
  /\ UNCHANGED <<row, pointer, aged, claim, fresh, run>>

Track ==
  /\ creator = "tracking"
  /\ pointer' = "tracked"
  /\ creator' = "storing"
  /\ UNCHANGED <<row, object, aged, claim, fresh, run, excused>>

TrackThrows ==
  /\ creator = "tracking"
  /\ creator' = "discarding"
  /\ UNCHANGED <<row, object, pointer, aged, claim, fresh, run, excused>>

\* Three direct deletes; when all of them fail nothing names the object.
Discard ==
  /\ creator = "discarding"
  /\ object' \in {"kept", "destroyed"}
  /\ excused' = (object' = "kept")
  /\ creator' = "done"
  /\ UNCHANGED <<row, pointer, aged, claim, fresh, run>>

\* Store's check of the pointer without the claim.
UnclaimedStillThere == pointer = "tracked"

\* A pointer that was ever claimed may be about to be followed: refused.
Unclaimed == pointer = "tracked" /\ claim = NoRun

DropPointer == pointer' = "gone" /\ aged' = FALSE /\ claim' = NoRun /\ fresh' = FALSE

\* The row is inserted and the pointer deleted in one transaction.
Store ==
  /\ creator = "storing"
  /\ Unclaimed
  /\ row' = "live"
  /\ DropPointer
  /\ creator' = "done"
  /\ UNCHANGED <<object, run, excused>>

\* The pointer is gone or claimed, or the caller lost the right, the plan or
\* the capacity since the reservation.
StoreThrows ==
  /\ creator = "storing"
  /\ creator' = "undoing"
  /\ UNCHANGED <<row, object, pointer, aged, claim, fresh, run, excused>>

Schedule(r, at, target) ==
  /\ run[r].at = "idle"
  /\ run' = [run EXCEPT ![r] = [at |-> at, target |-> target, tries |-> 0]]

\* The catch block of _store; a refusal of the scheduler is ignored.
Undo ==
  /\ creator = "undoing"
  /\ creator' = "done"
  /\ \/ \E r \in Run : Schedule(r, "claiming", "pointer")
     \/ UNCHANGED run
  /\ UNCHANGED <<row, object, pointer, aged, claim, fresh, excused>>

CreatorCrashes ==
  /\ creator \in {"tracking", "discarding", "storing", "undoing"}
  /\ excused' = (excused \/ creator \in {"tracking", "discarding"})
  /\ creator' = "done"
  /\ UNCHANGED <<row, object, pointer, aged, claim, fresh, run>>

-----------------------------------------------------------------------------
(* remove, and the deletion of the organization.                           *)

Remove ==
  /\ row = "live"
  /\ row' = "deleted"
  /\ \E r \in Run : Schedule(r, "deleting", "row")
  /\ UNCHANGED <<object, pointer, aged, claim, fresh, creator, excused>>

\* Also takes the rows that were removed before, and purges them again.
DeleteOrganization ==
  /\ row \in {"live", "deleted"}
  /\ row' = "deleted"
  /\ \E r \in Run : Schedule(r, "deleting", "row")
  /\ UNCHANGED <<object, pointer, aged, claim, fresh, creator, excused>>

-----------------------------------------------------------------------------
(* Time, as far as these functions compare it.                             *)

PointerAges ==
  /\ pointer = "tracked" /\ ~ aged
  /\ aged' = TRUE
  /\ UNCHANGED <<row, object, pointer, claim, fresh, creator, run, excused>>

ClaimExpires ==
  /\ fresh
  /\ fresh' = FALSE
  /\ UNCHANGED <<row, object, pointer, aged, claim, creator, run, excused>>

-----------------------------------------------------------------------------
(* purge, purgeOrphan and cleanupVault.                                    *)

Move(r, at) == run' = [run EXCEPT ![r].at = at]

\* Never twice, so that what a failed run had claimed stays claimed.
ClaimableOnce == pointer = "tracked" /\ claim = NoRun

Claimable == pointer = "tracked" /\ ~ fresh

TakeClaim(r) == claim' = r /\ fresh' = TRUE

\* _claimOrphanPointer; nothing is done for a pointer that is gone or claimed.
ClaimOrphan(r) ==
  /\ run[r].at = "claiming"
  /\ IF Claimable
       THEN TakeClaim(r) /\ Move(r, "deleting")
       ELSE run' = [run EXCEPT ![r] = IdleRun] /\ UNCHANGED <<claim, fresh>>
  /\ UNCHANGED <<row, object, pointer, aged, creator, excused>>

\* _claimCleanupCandidates, its two halves; the hourly run tries once, so it
\* starts with its tries used up.
SweepPointer(r) ==
  /\ run[r].at = "idle"
  /\ Claimable /\ aged
  /\ TakeClaim(r)
  /\ run' = [run EXCEPT ![r] = [at |-> "deleting", target |-> "pointer",
                                tries |-> MaxTries]]
  /\ UNCHANGED <<row, object, pointer, aged, creator, excused>>

SweepRow(r) ==
  /\ run[r].at = "idle"
  /\ row = "deleted"
  /\ run' = [run EXCEPT ![r] = [at |-> "deleting", target |-> "row",
                                tries |-> MaxTries]]
  /\ UNCHANGED <<row, object, pointer, aged, claim, fresh, creator, excused>>

\* deleteSecret; an object that is gone is a success.
Destroy(r) ==
  /\ run[r].at = "deleting"
  /\ object' = IF object = "kept" THEN "destroyed" ELSE object
  /\ Move(r, "reporting")
  /\ UNCHANGED <<row, pointer, aged, claim, fresh, creator, excused>>

\* A failed delete that is reported as if it had succeeded.
DestroyFailsUnnoticed(r) ==
  /\ run[r].at = "deleting"
  /\ object' = object
  /\ Move(r, "reporting")
  /\ UNCHANGED <<row, pointer, aged, claim, fresh, creator, excused>>

\* It fails, or its answer is lost; purge and purgeOrphan schedule themselves
\* again, without a new claim.
DestroyFails(r) ==
  /\ run[r].at = "deleting"
  /\ object' \in {object, IF object = "kept" THEN "destroyed" ELSE object}
  /\ run' = [run EXCEPT ![r] =
               IF run[r].tries + 1 < MaxTries
                 THEN [run[r] EXCEPT !.tries = run[r].tries + 1] ELSE IdleRun]
  /\ UNCHANGED <<row, pointer, aged, claim, fresh, creator, excused>>

\* _deletePurged, or _deleteOrphanPointer, which wants its own claim.
Report(r) ==
  /\ run[r].at = "reporting"
  /\ run' = [run EXCEPT ![r] = IdleRun]
  /\ row' = IF run[r].target = "row" /\ row = "deleted" THEN "gone" ELSE row
  /\ IF run[r].target = "pointer" /\ pointer = "tracked" /\ claim = r
       THEN DropPointer ELSE UNCHANGED <<pointer, aged, claim, fresh>>
  /\ UNCHANGED <<object, creator, excused>>

RunCrashes(r) ==
  /\ run[r].at # "idle"
  /\ run' = [run EXCEPT ![r] = IdleRun]
  /\ UNCHANGED <<row, object, pointer, aged, claim, fresh, creator, excused>>

Purging(r) ==
  \/ ClaimOrphan(r)
  \/ SweepPointer(r)
  \/ SweepRow(r)
  \/ Destroy(r)
  \/ DestroyFails(r)
  \/ Report(r)
  \/ RunCrashes(r)

Creating ==
  \/ Reserve
  \/ Mint
  \/ MintThrows
  \/ Track
  \/ TrackThrows
  \/ Discard
  \/ StoreThrows
  \/ Undo
  \/ CreatorCrashes

-----------------------------------------------------------------------------
(* Properties.                                                             *)

\* A run that will delete the object, or has.
Targets(r) == run[r].at \in {"deleting", "reporting"}

(* A webhook that is live has its URL in the vault and no purge on its way *)
(* to it: the pointer of a failed creation is never followed after the     *)
(* creation went through (webhooks.ts:414).                                *)
LiveHasCredential ==
  row = "live" => object = "kept" /\ \A r \in Run : ~ Targets(r)

(* As long as the object exists something still names it: a row, also a    *)
(* deleted one, a recovery pointer, or the running create.  The exception  *)
(* is a create that crashed or failed twice before it had a pointer.       *)
NothingForgotten ==
  object = "kept" =>
    \/ row \in {"live", "deleted"}
    \/ pointer = "tracked"
    \/ creator \in {"tracking", "discarding"}
    \/ excused

(* Deleted webhooks and orphaned pointers go, with their object, in the    *)
(* end: what the immediate attempts leave is the hourly run's.             *)
Reclaimable == row = "deleted" \/ pointer = "tracked"
Reclaimed == Reclaimable ~> ~ Reclaimable
=============================================================================
