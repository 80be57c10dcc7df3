--------------------------- MODULE ProjectDeletion ---------------------------
(***************************************************************************)
(* The deletion of one project: remove (projects/mutations.ts) records it, *)
(* processDeletion (projects/deletion.ts) walks through the stages in      *)
(* transactions that schedule each other, and destroyExternalBatch, an     *)
(* action, deletes vault objects and blobs under a lease and a watchdog    *)
(* before finishExternalBatch deletes their rows.                          *)
(*                                                                         *)
(* Time is counted down.  `due` holds the delays of the scheduled          *)
(* processDeletion runs: runs with the same delay are one element, and a   *)
(* run may leave its element behind for the others.                        *)
(***************************************************************************)
EXTENDS Naturals, FiniteSets

CONSTANTS
  Row,        \* rows and scope entries that can belong to the project
  NoRow,
  Object,     \* vault objects and blobs
  Externals,  \* stages with objects outside: variables, accounts, files, requests,
              \* change_requests, shares
  TableStages,  \* stages of plain rows: doc_content ... access
  PagedStages,  \* stages of scope entries: api_keys, webhooks, invitations
  StageOf,    \* the stage that deletes a row
  RootOf,     \* the variable of a version, NoRow for every other row
  Refs,       \* the vault objects a row names
  Blob,       \* its blob, as a set
  Shareable,  \* rows with permission or recipient rows of their own
  Founding,   \* rows inserted with the project: the creator's membership
  Unguarded,  \* rows whose creators do not look at the project's deletedAt
  Batches,    \* bound on the batches in flight
  BatchSize,  \* EXTERNAL_BATCH_SIZE
  PageSize,   \* DATABASE_BATCH_SIZE
  Lease,      \* EXTERNAL_LEASE_MS
  Backoff,    \* the delay after a batch in which a delete failed
  Removals,   \* bound on calls of remove
  MissingBlobDeletes  \* whether deleting a blob that is gone reports success

Batch == 1..Batches

\* NEXT_STAGE: a stage is its place in the order; a stage no row belongs to
\* is passed by one run, so fewer stages lose nothing.
VariablesStage == 1
External == 1..Externals
Trash == (1..3) \cap External  \* variables, accounts, files: what the trash holds
Tables == (Externals + 1)..(Externals + TableStages)
Paged == (Externals + TableStages + 1)..(Externals + TableStages + PagedStages)
Finalize == Externals + TableStages + PagedStages + 1

ASSUME DeletionConstants ==
  /\ IsFiniteSet(Row) /\ NoRow \notin Row
  /\ Externals \in Nat \ {0} /\ TableStages \in Nat /\ PagedStages \in Nat
  /\ StageOf \in [Row -> 1..Externals + TableStages + PagedStages]
  /\ RootOf \in [Row -> Row \cup {NoRow}]
  /\ \A r \in Row : RootOf[r] # NoRow =>
       RootOf[RootOf[r]] = NoRow /\ StageOf[r] = VariablesStage
                                 /\ StageOf[RootOf[r]] = VariablesStage
  /\ Refs \in [Row -> SUBSET Object] /\ Blob \in [Row -> SUBSET Object]
  /\ \A r \in Row : StageOf[r] \notin External => Refs[r] = {} /\ Blob[r] = {}
  /\ Shareable \subseteq {r \in Row : StageOf[r] \in External /\ RootOf[r] = NoRow}
  /\ Founding \subseteq {r \in Row : StageOf[r] \notin External}
  /\ Unguarded \subseteq {r \in Row : StageOf[r] \notin External}
  /\ BatchSize \in Nat \ {0} /\ PageSize \in Nat \ {0}
  /\ Lease \in Nat \ {0} /\ Backoff \in Nat /\ Removals \in Nat /\ Batches \in Nat
  /\ MissingBlobDeletes \in BOOLEAN

VARIABLES
  project,   \* "live", "deleting" (deletedAt set), "gone"
  stage,     \* deletionStage
  lease,     \* deletionLeaseUntil
  seen,      \* deletionCursor: the entries the paged stage has passed
  kept,      \* the rows that exist
  granted,   \* rows that still have permission or recipient rows
  stored,    \* objects that exist
  due,       \* scheduled runs of processDeletion
  batch,     \* destroyExternalBatch runs
  dog,       \* each batch's watchdog
  removals,  \* auxiliary: calls of remove
  excused    \* auxiliary: remove was called again, or a batch outlived its lease

dataVars == <<kept, granted, stored>>
jobVars == <<project, stage, lease, seen, due>>
vars == <<dataVars, jobVars, batch, dog, removals, excused>>

Unarmed == Lease + 1
NoBatch == [at |-> "idle", stage |-> 0, list |-> {}, todo |-> {}, done |-> {}, last |-> FALSE]
Reported == [at |-> "reported", stage |-> 0, list |-> {}, todo |-> {}, done |-> {}, last |-> FALSE]
BatchState == [at : {"idle", "running", "reported"}, stage : 0..Externals, list : SUBSET Row,
               todo : SUBSET Row, done : SUBSET Row, last : BOOLEAN]

TypeOK ==
  /\ project \in {"live", "deleting", "gone"}
  /\ stage \in 0..Finalize
  /\ lease \in 0..Lease
  /\ seen \subseteq Row
  /\ kept \subseteq Row
  /\ granted \subseteq Shareable
  /\ stored \subseteq Object
  /\ due \subseteq Nat
  /\ batch \in [Batch -> BatchState]
  /\ dog \in [Batch -> 0..Unarmed]
  /\ removals \in 0..Removals
  /\ excused \in BOOLEAN

Init ==
  /\ project = "live"
  /\ stage = 0
  /\ lease = 0
  /\ seen = {}
  /\ kept = Founding
  /\ granted = {}
  /\ stored = {}
  /\ due = {}
  /\ batch = [b \in Batch |-> NoBatch]
  /\ dog = [b \in Batch |-> Unarmed]
  /\ removals = 0
  /\ excused = FALSE

Here == {r \in kept : StageOf[r] = stage}
Needs == [r \in Row |-> Refs[r] \cup Blob[r]]
Versions(r) == {v \in kept : RootOf[v] = r}
Elapse(t) == IF t = 0 THEN 0 ELSE t - 1

\* What a query for at most n rows of T may return.
Takes(T, n) == {S \in SUBSET T : Cardinality(S) <= n /\ (S = T \/ Cardinality(S) = n)}

-----------------------------------------------------------------------------
(* What the project's users do.                                            *)

\* Creators look at deletedAt in the transaction that inserts the row.
Creatable(r) ==
  /\ r \notin kept
  /\ RootOf[r] # NoRow => RootOf[r] \in kept
  /\ project = "live" \/ r \in Unguarded

\* A row, with the objects that were made for it before.
Create(r) ==
  /\ Creatable(r)
  /\ kept' = kept \cup {r}
  /\ stored' = stored \cup Needs[r]
  /\ granted' \in {granted, granted \cup ({r} \cap Shareable)}
  /\ UNCHANGED <<jobVars, batch, dog, removals, excused>>

\* The purge of the trash takes a row with its objects, whatever becomes of the project.
PurgeTrashed(r) ==
  /\ r \in kept /\ StageOf[r] \in Trash /\ RootOf[r] = NoRow
  /\ LET all == {r} \cup Versions(r)
     IN  /\ stored' = stored \ UNION {Needs[s] : s \in all}
         /\ kept' = kept \ all
         /\ granted' = granted \ all
  /\ UNCHANGED <<jobVars, batch, dog, removals, excused>>

\* remove; also of a project that is being deleted, which starts over.
Remove ==
  /\ project # "gone"
  /\ removals < Removals
  /\ removals' = removals + 1
  /\ project' = "deleting"
  /\ stage' = VariablesStage
  /\ lease' = 0
  /\ seen' = {}
  /\ due' = due \cup {0}
  /\ excused' = (excused \/ project = "deleting")
  /\ UNCHANGED <<dataVars, batch, dog>>

-----------------------------------------------------------------------------
(* processDeletion, after its own scheduled entry was taken from d and w.   *)

\* advanceStage.
AdvanceStage(d) ==
  /\ lease' = 0
  /\ seen' = {}
  /\ IF stage = Finalize
       THEN project' = "gone" /\ stage' = 0 /\ due' = d
       ELSE project' = project /\ stage' = stage + 1 /\ due' = d \cup {0}

NothingToDo(d, w) ==
  /\ project # "deleting"
  /\ due' = d
  /\ dog' = w
  /\ UNCHANGED <<dataVars, project, stage, lease, seen, batch>>

\* A batch is started whoever holds the lease.
LeaseIgnored == TRUE

\* A lease ends with time or with a report.
LeaseFree == lease = 0

\* Someone else's batch is running.
Postpone(d, w) ==
  /\ project = "deleting" /\ stage \in External /\ ~ LeaseFree
  /\ due' = d \cup {lease + 1}
  /\ dog' = w
  /\ UNCHANGED <<dataVars, project, stage, lease, seen, batch>>

\* listExternalResources: of variables, the versions of one, then the one.
Listings ==
  IF stage = VariablesStage
    THEN UNION {IF Versions(r) # {} THEN Takes(Versions(r), BatchSize) ELSE {{r}} :
                  r \in {s \in Here : RootOf[s] = NoRow}}
    ELSE Takes(Here, BatchSize)

\* Of variables too, of which a listing is only ever a part.
IsLastOfVariables(S) == Cardinality(S) < BatchSize

IsLast(S) == stage # VariablesStage /\ Cardinality(S) < BatchSize

Started(S) == [at |-> "running", stage |-> stage, list |-> S, todo |-> S, done |-> {},
               last |-> IsLast(S)]
Unused(b, w) == batch[b].at = "idle" /\ w[b] = Unarmed

\* A batch nobody watches.
StartUnwatched(d, w) ==
  /\ project = "deleting" /\ stage \in External /\ LeaseFree
  /\ \E S \in Listings \ {{}}, b \in Batch :
       /\ Unused(b, w)
       /\ batch' = [batch EXCEPT ![b] = Started(S)]
       /\ dog' = w
  /\ lease' = Lease
  /\ due' = d
  /\ UNCHANGED <<dataVars, project, stage, seen>>

StartBatch(d, w) ==
  /\ project = "deleting" /\ stage \in External /\ LeaseFree
  /\ \E S \in Listings \ {{}}, b \in Batch :
       /\ Unused(b, w)
       /\ \A c \in Batch : Unused(c, w) => b <= c
       /\ batch' = [batch EXCEPT ![b] = Started(S)]
       /\ dog' = [w EXCEPT ![b] = Lease]
  /\ lease' = Lease
  /\ due' = d
  /\ UNCHANGED <<dataVars, project, stage, seen>>

NothingListed(d, w) ==
  /\ project = "deleting" /\ stage \in External /\ LeaseFree
  /\ Listings \subseteq {{}}
  /\ AdvanceStage(d)
  /\ dog' = w
  /\ UNCHANGED <<dataVars, batch>>

\* deleteProjectRows.
DeleteRows(d, w) ==
  /\ project = "deleting" /\ stage \in Tables
  /\ IF Here = {}
       THEN AdvanceStage(d) /\ UNCHANGED kept
       ELSE /\ \E S \in Takes(Here, PageSize) : kept' = kept \ S
            /\ due' = d \cup {0}
            /\ UNCHANGED <<project, stage, lease, seen>>
  /\ dog' = w
  /\ UNCHANGED <<granted, stored, batch>>

\* The project is taken out of the scope of keys, webhooks and invitations.
TakePage(d, w) ==
  /\ project = "deleting" /\ stage \in Paged
  /\ LET ahead == {r \in Row : StageOf[r] = stage} \ seen
     IN  \E page \in Takes(ahead, PageSize) :
           /\ kept' = kept \ page
           /\ IF page = ahead
                THEN AdvanceStage(d)
                ELSE /\ seen' = seen \cup page
                     /\ due' = d \cup {0}
                     /\ UNCHANGED <<project, stage, lease>>
  /\ dog' = w
  /\ UNCHANGED <<granted, stored, batch>>

DeleteProject(d, w) ==
  /\ project = "deleting" /\ stage = Finalize
  /\ AdvanceStage(d)
  /\ dog' = w
  /\ UNCHANGED <<dataVars, batch>>

Process(d, w) ==
  \/ NothingToDo(d, w)
  \/ Postpone(d, w)
  \/ StartBatch(d, w)
  \/ NothingListed(d, w)
  \/ DeleteRows(d, w)
  \/ TakePage(d, w)
  \/ DeleteProject(d, w)

RunScheduled ==
  /\ 0 \in due
  /\ \E d \in {due, due \ {0}} : Process(d, dog)
  /\ UNCHANGED <<removals, excused>>

RunWatchdog(b) ==
  /\ dog[b] = 0
  /\ Process(due, [dog EXCEPT ![b] = Unarmed])
  /\ UNCHANGED <<removals, excused>>

-----------------------------------------------------------------------------
(* destroyExternalBatch and finishExternalBatch.                           *)

\* The batch x is through with r.
Handled(x, r, done) ==
  [at |-> "running", stage |-> x.stage, list |-> x.list, todo |-> x.todo \ {r},
   done |-> done, last |-> x.last]

\* Blob and vault objects of one resource are gone, or were gone before.
Destroy(b, r) ==
  /\ batch[b].at = "running" /\ r \in batch[b].todo
  /\ MissingBlobDeletes \/ Blob[r] \subseteq stored
  /\ stored' = stored \ Needs[r]
  /\ batch' = [batch EXCEPT ![b] = Handled(batch[b], r, batch[b].done \cup {r})]
  /\ UNCHANGED <<kept, granted, jobVars, dog, removals, excused>>

\* A resource is reported although a delete failed.
DestroyFailsUnnoticed(b, r) ==
  /\ batch[b].at = "running" /\ r \in batch[b].todo
  /\ batch' = [batch EXCEPT ![b] = Handled(batch[b], r, batch[b].done \cup {r})]
  /\ UNCHANGED <<kept, granted, stored, jobVars, dog, removals, excused>>

\* The blob or one of the objects is not confirmed; the vault is only tried
\* after the blob is gone.
DestroyFails(b, r) ==
  /\ batch[b].at = "running" /\ r \in batch[b].todo
  /\ \E some \in SUBSET Refs[r] :
       stored' \in {stored, stored \ Blob[r], stored \ (Blob[r] \cup some)}
  /\ batch' = [batch EXCEPT ![b] = Handled(batch[b], r, batch[b].done)]
  /\ UNCHANGED <<kept, granted, jobVars, dog, removals, excused>>

\* What finishExternalBatch deletes of what was destroyed: not a row whose
\* permissions fill this transaction, not a version without its variable.
Removed(b) ==
  {r \in batch[b].done \cap kept :
     IF RootOf[r] = NoRow THEN r \notin granted ELSE RootOf[r] \in kept}

\* Also rows whose permissions take the place of the row in this transaction.
AllRemoved(b) == batch[b].done \cap granted \cap kept = {}

\* Permissions are not this component's business.
GrantsStay(b) == granted
LeftGranted(b) == granted \ batch[b].done

AllDeleted(b) == batch[b].done = batch[b].list

Finish(b) ==
  /\ batch[b].at = "running" /\ batch[b].todo = {}
  /\ batch' = [batch EXCEPT ![b] = Reported]
  /\ IF project # "deleting" \/ batch[b].stage # stage
       THEN UNCHANGED <<dataVars, jobVars>>
       ELSE /\ kept' = kept \ Removed(b)
            /\ granted' = LeftGranted(b)
            /\ UNCHANGED stored
            /\ IF AllDeleted(b) /\ AllRemoved(b) /\ batch[b].last
                 THEN AdvanceStage(due)
                 ELSE /\ lease' = 0
                      /\ due' = due \cup {IF AllDeleted(b) THEN 0 ELSE Backoff}
                      /\ UNCHANGED <<project, stage, seen>>
  /\ UNCHANGED <<dog, removals, excused>>

CancelWatchdog(b) ==
  /\ batch[b].at = "reported"
  /\ batch' = [batch EXCEPT ![b] = NoBatch]
  /\ dog' = [dog EXCEPT ![b] = Unarmed]
  /\ UNCHANGED <<dataVars, jobVars, removals, excused>>

BatchCrashes(b) ==
  /\ batch[b].at # "idle"
  /\ batch' = [batch EXCEPT ![b] = NoBatch]
  /\ UNCHANGED <<dataVars, jobVars, dog, removals, excused>>

\* A batch that takes longer than its lease is possible, and recorded.
Tick ==
  /\ lease' = Elapse(lease)
  /\ due' = {Elapse(n) : n \in due}
  /\ dog' = [b \in Batch |-> IF dog[b] = Unarmed THEN Unarmed ELSE Elapse(dog[b])]
  /\ excused' = (excused \/ \E b \in Batch : batch[b].at = "running" /\ dog'[b] = 0)
  /\ UNCHANGED <<dataVars, project, stage, seen, batch, removals>>

-----------------------------------------------------------------------------
Deleting(b) ==
  \/ \E r \in Row : Destroy(b, r)
  \/ \E r \in Row : DestroyFails(b, r)
  \/ Finish(b)
  \/ CancelWatchdog(b)

Next ==
  \/ \E r \in Row : Create(r)
  \/ \E r \in Row : PurgeTrashed(r)
  \/ Remove
  \/ RunScheduled
  \/ \E b \in Batch : RunWatchdog(b)
  \/ \E b \in Batch : Deleting(b)
  \/ \E b \in Batch : BatchCrashes(b)
  \/ Tick

Spec == Init /\ [][Next]_vars

-----------------------------------------------------------------------------
(* Properties.                                                             *)

(* As long as the project is being deleted some run of it is on its way: a *)
(* scheduled one, the watchdog of a batch that stopped, or a batch whose   *)
(* report will schedule one.  No stop and no stale batch ends the chain    *)
(* (mutations.ts:382 promises "durable cleanup work").                     *)
WorkPending ==
  project = "deleting" =>
    \/ due # {}
    \/ \E b \in Batch : dog[b] # Unarmed /\ batch[b].at = "idle"
    \/ \E b \in Batch : batch[b].at = "running" /\ batch[b].stage = stage

(* A stage the deletion has left has no rows any more, although it may be  *)
(* left on the word of a batch that was listed long before it reported.    *)
StagesEmptied ==
  \A r \in Row \ Unguarded :
    project = "gone" \/ (project = "deleting" /\ StageOf[r] < stage) => r \notin kept

(* Two batches are at work at once only if deletion was requested twice or *)
(* a batch outlived its lease (deletion.ts:15).                            *)
OneBatchAtATime ==
  \A b, c \in Batch :
    batch[b].at = "running" /\ batch[c].at = "running" =>
      b = c \/ excused

(* A project that is gone has left nothing: neither a row whose creators   *)
(* look at deletedAt, nor a vault object or blob of any row.               *)
LeavesNothing == project = "gone" => kept \subseteq Unguarded /\ stored = {}

(* Deletion keeps the promise of ProjectErasure, for all rows whose        *)
(* creators check deletedAt: objects before rows, the project last, and    *)
(* nothing new.                                                            *)
Erasure == INSTANCE ProjectErasure
  WITH Row <- Row \ Unguarded,
       Needs <- [r \in Row \ Unguarded |-> Needs[r]],
       project <- project, kept <- kept \ Unguarded, stored <- stored
KeepsPromise == Erasure!Spec

(* A deletion that has begun ends. *)
Finishes == project = "deleting" ~> project = "gone"

(* What is assumed of the platform: scheduled functions run, actions go    *)
(* on, time passes, and from some time on deletes succeed and nothing is   *)
(* stopped.                                                                *)
Faulty(b) == BatchCrashes(b) \/ \E r \in Row : DestroyFails(b, r)

Fairness ==
  /\ WF_vars(Tick)
  /\ WF_vars(RunScheduled)
  /\ WF_vars(\E b \in Batch : RunWatchdog(b))
  /\ \A b \in Batch : WF_vars(Deleting(b))
  /\ <>[][\A b \in Batch : ~ Faulty(b)]_vars

FairSpec == Spec /\ Fairness
=============================================================================
