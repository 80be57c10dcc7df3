----------------------------- MODULE PurgeSweep -----------------------------
(***************************************************************************)
(* The daily purge of expired trash, features/vault/gc.ts: which documents *)
(* a run takes, in which order it destroys the parts of one, and when it   *)
(* schedules itself again.  VariableVault models what several objects of   *)
(* one variable add to this; here a document's vault objects are one key,  *)
(* gone when all of them are.                                              *)
(*                                                                         *)
(* The runs of one chain follow one another, and a chain (at most MaxDepth *)
(* actions of ten minutes) ends long before the next daily tick, so there  *)
(* is one run at a time.                                                   *)
(***************************************************************************)
EXTENDS Naturals, Sequences, SequencesExt

CONSTANTS
  Variables, Accounts, Files,  \* the documents of each kind
  Stuck,               \* documents whose vault delete fails every time
  BatchSize,           \* PURGE_BATCH_SIZE, per kind
  MaxDepth,            \* MAX_RESCHEDULE_DEPTH
  MissingBlobDeletes   \* whether deleting a blob that is gone reports success

Table == [variable |-> Variables, account |-> Accounts, file |-> Files]
Kinds == DOMAIN Table
Doc == UNION {Table[k] : k \in Kinds}

ASSUME PurgeAssumption ==
  /\ Variables \cap Accounts = {} /\ Variables \cap Files = {} /\ Accounts \cap Files = {}
  /\ Stuck \subseteq Doc
  /\ BatchSize \in Nat \ {0}
  /\ MaxDepth \in Nat \ {0}
  /\ MissingBlobDeletes \in BOOLEAN

VARIABLES
  trash,    \* per kind, the trashed documents as by_deleted_at lists them
  past,     \* per kind, how many of them are past the retention window
  key,      \* documents with a vault object left
  blob,     \* files with a ciphertext blob left
  purged,   \* documents whose rows are deleted
  stage,    \* the chain: "idle", "due" (scheduled) or "visiting"
  depth,    \* how often the chain has rescheduled itself
  todo,     \* what is left of the batch, the current document first
  at,       \* the part of the current document to delete: "blob", "key", "row"
  full,     \* whether the batch was full for some kind
  missed    \* auxiliary: what was expired and not in the batch

docVars == <<trash, past, key, blob, purged>>
runVars == <<stage, depth, todo, at, full, missed>>
vars == <<docVars, runVars>>

Trashed == UNION {ToSet(trash[k]) : k \in Kinds}
Expired == UNION {{trash[k][i] : i \in 1 .. past[k]} : k \in Kinds}
Live == Doc \ (Trashed \cup purged)

-----------------------------------------------------------------------------
(* A document's way to the trash, back, and past the window.               *)

Trash(k) ==
  /\ \E d \in Table[k] \cap Live : trash' = [trash EXCEPT ![k] = Append(@, d)]
  /\ UNCHANGED <<past, key, blob, purged, runVars>>

\* Refused once deletedAt is older than the window.
Restore(k) ==
  /\ \E i \in past[k] + 1 .. Len(trash[k]) :
       trash' = [trash EXCEPT ![k] = RemoveAt(@, i)]
  /\ UNCHANGED <<past, key, blob, purged, runVars>>

\* Time passes: the window closes on the oldest document it was open for.
\* How the tables' deletedAt compare is left open.
Expire(k) ==
  /\ past[k] < Len(trash[k])
  /\ past' = [past EXCEPT ![k] = @ + 1]
  /\ UNCHANGED <<trash, key, blob, purged, runVars>>

-----------------------------------------------------------------------------
(* One batch.                                                              *)

Take(s, n) == SubSeq(s, 1, IF n < BatchSize THEN n ELSE BatchSize)

\* A mutation of Oldest: the cutoff is forgotten.
OldestTrashed(k) == Take(trash[k], Len(trash[k]))

\* .take on the by_deleted_at index, between 0 and the cutoff.
Oldest(k) == Take(trash[k], past[k])

Batch == Oldest("variable") \o Oldest("account") \o Oldest("file")

\* A mutation of Full: the variables do not count.
FullOfOthers == \E k \in {"account", "file"} : Len(Oldest(k)) = BatchSize

Full == \E k \in Kinds : Len(Oldest(k)) = BatchSize

\* Where the visit of the first document of a batch starts.
Entry(docs) == IF docs # <<>> /\ Head(docs) \in Files THEN "blob" ELSE "key"

Visiting(d, part) ==
  /\ stage = "visiting"
  /\ todo # <<>>
  /\ d = Head(todo)
  /\ at = part

Advance ==
  /\ todo' = Tail(todo)
  /\ at' = Entry(Tail(todo))
  /\ UNCHANGED <<stage, depth, full, missed>>

GoTo(part) ==
  /\ at' = part
  /\ UNCHANGED <<stage, depth, todo, full, missed>>

-----------------------------------------------------------------------------
(* The chain of runs.                                                      *)

\* The cron.
Tick ==
  /\ stage = "idle"
  /\ stage' = "due"
  /\ depth' = 0
  /\ UNCHANGED <<todo, at, full, missed, docVars>>

\* The API key is not configured: nothing is deleted, nothing rescheduled.
Abort ==
  /\ stage = "due"
  /\ stage' = "idle"
  /\ UNCHANGED <<depth, todo, at, full, missed, docVars>>

List ==
  /\ stage = "due"
  /\ stage' = "visiting"
  /\ todo' = Batch
  /\ at' = Entry(Batch)
  /\ full' = Full
  /\ missed' = Expired \ ToSet(Batch)
  /\ UNCHANGED <<depth, docVars>>

DeleteBlob(d) ==
  /\ Visiting(d, "blob")
  /\ d \in blob \/ MissingBlobDeletes
  /\ blob' = blob \ {d}
  /\ GoTo("key")
  /\ UNCHANGED <<trash, past, key, purged>>

\* A mutation of BlobFails: the key is deleted all the same.
BlobFailsIgnored(d) ==
  /\ Visiting(d, "blob")
  /\ GoTo("key")
  /\ UNCHANGED docVars

BlobFails(d) ==
  /\ Visiting(d, "blob")
  /\ Advance
  /\ UNCHANGED docVars

\* An object that is already gone (404, 410) counts as deleted.
DeleteKey(d) ==
  /\ Visiting(d, "key")
  /\ d \notin Stuck
  /\ key' = key \ {d}
  /\ GoTo("row")
  /\ UNCHANGED <<trash, past, blob, purged>>

\* Two mutations of KeyFails: the row is deleted all the same; one failure
\* ends the run.
KeyFailsIgnored(d) ==
  /\ Visiting(d, "key")
  /\ GoTo("row")
  /\ UNCHANGED docVars

KeyFailsStops(d) ==
  /\ Visiting(d, "key")
  /\ todo' = <<>>
  /\ UNCHANGED <<stage, depth, at, full, missed, docVars>>

\* The document is skipped and keeps its rows.
KeyFails(d) ==
  /\ Visiting(d, "key")
  /\ Advance
  /\ UNCHANGED docVars

\* hardDeleteVariable, hardDeleteAccount, hardDeleteFile: the window is
\* checked again, and the row is left alone if it is not past it.
HardDelete(d) ==
  /\ Visiting(d, "row")
  /\ IF d \in Expired
     THEN /\ \E k \in Kinds : \E i \in 1 .. past[k] :
               /\ trash[k][i] = d
               /\ trash' = [trash EXCEPT ![k] = RemoveAt(@, i)]
               /\ past' = [past EXCEPT ![k] = @ - 1]
          /\ purged' = purged \cup {d}
     ELSE UNCHANGED <<trash, past, purged>>
  /\ Advance
  /\ UNCHANGED <<key, blob>>

\* The batch is done: a full one schedules the next, up to the depth limit.
Finish ==
  /\ stage = "visiting"
  /\ todo = <<>>
  /\ IF full /\ depth + 1 < MaxDepth
     THEN stage' = "due" /\ depth' = depth + 1
     ELSE stage' = "idle" /\ UNCHANGED depth
  /\ UNCHANGED <<todo, at, full, missed, docVars>>

\* The action stops between two calls; nothing reschedules it.
RunCrashes ==
  /\ stage = "visiting"
  /\ stage' = "idle"
  /\ UNCHANGED <<depth, todo, at, full, missed, docVars>>

-----------------------------------------------------------------------------
Init ==
  /\ trash = [k \in Kinds |-> <<>>]
  /\ past = [k \in Kinds |-> 0]
  /\ key = Doc
  /\ blob = Files
  /\ purged = {}
  /\ stage = "idle"
  /\ depth = 0
  /\ todo = <<>>
  /\ at = "key"
  /\ full = FALSE
  /\ missed = {}

Visit(d) ==
  \/ DeleteBlob(d)
  \/ BlobFails(d)
  \/ DeleteKey(d)
  \/ KeyFails(d)
  \/ HardDelete(d)

Next ==
  \/ \E k \in Kinds : Trash(k) \/ Restore(k) \/ Expire(k)
  \/ \E d \in Doc : Visit(d)
  \/ Tick
  \/ Abort
  \/ List
  \/ Finish
  \/ RunCrashes

Spec == Init /\ [][Next]_vars

(* The cron ticks and a finished batch returns.  Beyond that, a step that  *)
(* a run can take again and again is not prevented every time: the API key *)
(* is there at some ticks, an outage passes, and not every run is stopped  *)
(* at the same document.  A stuck document's delete does return, with an   *)
(* error.                                                                  *)
Fairness ==
  /\ WF_vars(Tick)
  /\ WF_vars(Finish)
  /\ SF_vars(List)
  /\ SF_vars(\E d \in Files : DeleteBlob(d))
  /\ SF_vars(\E d \in Doc \ Stuck : DeleteKey(d))
  /\ SF_vars(\E d \in Doc : HardDelete(d))
  /\ \A d \in Stuck : SF_vars(KeyFails(d))

FairSpec == Spec /\ Fairness

-----------------------------------------------------------------------------
(* Type invariant.                                                         *)
TypeOK ==
  /\ trash \in [Kinds -> Seq(Doc)]
  /\ past \in [Kinds -> Nat]
  /\ \A k \in Kinds : trash[k] \in Seq(Table[k]) /\ past[k] <= Len(trash[k])
  /\ key \subseteq Doc
  /\ blob \subseteq Files
  /\ purged \subseteq Doc \ Trashed
  /\ stage \in {"idle", "due", "visiting"}
  /\ depth \in 0 .. MaxDepth - 1
  /\ todo \in Seq(Doc)
  /\ at \in {"blob", "key", "row"}
  /\ full \in BOOLEAN
  /\ missed \subseteq Doc

Whole(d) == d \in key /\ (d \in Files => d \in blob)

(* A document that is live, or that a user may still restore, has all its  *)
(* parts, wherever a run was stopped: listPurgeEligible takes nothing whose *)
(* window is open (gc.ts:86) and restore brings back nothing else.         *)
RestorableIsWhole ==
  \A d \in Live \cup (Trashed \ Expired) : Whole(d)

(* At no point does readable ciphertext outlive its key: the blob goes     *)
(* first (gc.ts:416), also when runs fail, stop and start over.            *)
CiphertextKeepsKey == blob \subseteq key

(* A row goes last: what no row names any more has neither a vault object  *)
(* nor a blob (gc.ts:22-29).                                               *)
RowsGoLast == purged \cap (key \cup blob) = {}

(* A chain stops of itself before the depth limit only when its last       *)
(* listing took everything that was expired: a backlog of one kind does    *)
(* not wait for the next day because the other kinds are short             *)
(* (gc.ts:445-449).                                                        *)
StopsWhenDone ==
  [][Finish /\ stage' = "idle" /\ depth + 1 < MaxDepth => missed = {}]_vars

(* Every document the window has closed on is purged in the end, unless    *)
(* its own vault delete never succeeds: a failure for one document does    *)
(* not block the others (gc.ts:27-28).                                     *)
Drains == \A d \in Doc \ Stuck : d \in Expired ~> d \in purged
=============================================================================
