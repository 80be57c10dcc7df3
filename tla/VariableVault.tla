--------------------------- MODULE VariableVault ---------------------------
(***************************************************************************)
(* The life of a secret: the rows the backend keeps about a variable       *)
(* (environmentVariables, variableVersions) and the encrypted objects they *)
(* point at in the WorkOS Vault.  The two stores share no transaction: a   *)
(* mutation is atomic, but an action (createWithValue, updateWithValue,    *)
(* pushBulk, importValues, purgeExpiredBatch, emptyProjectTrash) is a      *)
(* sequence of queries, HTTP calls and mutations that other callers        *)
(* interleave with, and that can stop between any two of them.             *)
(***************************************************************************)
EXTENDS Naturals, FiniteSets

CONSTANTS
  Variable,    \* identities of environmentVariables rows; never reused
  Ref,         \* identities of vault objects; never reused
  Call,        \* executions of an action that writes a value
  CronRun,     \* executions of purgeExpiredBatch
  TrashRun,    \* executions of emptyProjectTrash
  Sources,     \* which write actions run: a subset of {"single", "bulk"}
  Retention,   \* PURGE_RETENTION_DAYS
  BatchSize,   \* PURGE_BATCH_SIZE
  MaxNow,      \* bound: the clock stops here
  MaxVersion,  \* bound: a row is written at most this often
  NoRef, NoVariable

ASSUME VaultConstants ==
  /\ Retention \in Nat
  /\ BatchSize \in Nat \ {0}
  /\ MaxNow \in Nat
  /\ MaxVersion \in Nat \ {0}
  /\ Sources \subseteq {"single", "bulk"}
  /\ NoRef \notin Ref
  /\ NoVariable \notin Variable
  /\ CronRun \cap TrashRun = {}

VARIABLES
  now,          \* Date.now()
  status,       \* what the row of a variable is
  deletedAt,    \* its deletedAt, meaningful while it is trashed
  vaultRef,     \* its vaultRef
  version,      \* its version counter
  versionRows,  \* the variableVersions table
  objects,      \* the objects the vault holds
  minted,       \* the objects it ever created
  lost,         \* objects whose creator could not finish: it crashed, never
                \* learnt the reference, or its deleteSecret failed
  call,         \* the write actions in flight
  sweep         \* the purge actions in flight

vars == <<now, status, deletedAt, vaultRef, version, versionRows,
          objects, minted, lost, call, sweep>>
rowVars == <<status, deletedAt, vaultRef, version, versionRows>>

Sweeper == CronRun \cup TrashRun

\* A document as listPurgeEligible returns it.
Doc == [id : Variable, vaultRefs : SUBSET Ref]

\* A write action: how far it is, whether it creates or updates, whether its
\* action handles one value or many, the row it updates, what it minted.
CallState == [pc : {"idle", "checked", "minted", "rejected"},
              op : {"create", "update"},
              source : {"single", "bulk"},
              target : Variable \cup {NoVariable},
              ref : Ref \cup {NoRef}]

\* A purge action: the documents it listed and has not taken up, the one it
\* is at, the references of that one still to be tried, and allDeleted.
SweepState == [pc : {"idle", "sweeping"},
               batch : SUBSET Doc,
               doc : Variable \cup {NoVariable},
               left : SUBSET Ref,
               allDeleted : BOOLEAN]

Checked(op, source, target) ==
  [pc |-> "checked", op |-> op, source |-> source, target |-> target, ref |-> NoRef]
Minted(k, r) == [k EXCEPT !.pc = "minted", !.ref = r]
Rejected(k) == [k EXCEPT !.pc = "rejected"]
IdleCall == [pc |-> "idle", op |-> "create", source |-> "single",
             target |-> NoVariable, ref |-> NoRef]

IdleSweep == [pc |-> "idle", batch |-> {}, doc |-> NoVariable,
              left |-> {}, allDeleted |-> TRUE]
Sweeping(batch) == [IdleSweep EXCEPT !.pc = "sweeping", !.batch = batch]
TakenUp(w, d) == [w EXCEPT !.batch = @ \ {d}, !.doc = d.id,
                           !.left = d.vaultRefs, !.allDeleted = TRUE]
Tried(w, r, ok) == [w EXCEPT !.left = @ \ {r}, !.allDeleted = @ /\ ok]
DoneWithDoc(w) == [w EXCEPT !.doc = NoVariable]

\* The references of a document: its own and those of its version rows.
RefsOf(v) ==
  ({vaultRef[v]} \ {NoRef})
    \cup {row.vaultRef : row \in {x \in versionRows : x.variable = v}}

\* Past the retention window: the complement of what restoreCore accepts.
Expired(v) == deletedAt[v] + Retention < now

InFlight == {call[c].ref : c \in {d \in Call : call[d].pc # "idle"}} \ {NoRef}

TypeOK ==
  /\ now \in Nat
  /\ status \in [Variable -> {"unborn", "live", "trashed", "purged"}]
  /\ deletedAt \in [Variable -> Nat]
  /\ vaultRef \in [Variable -> Ref \cup {NoRef}]
  /\ version \in [Variable -> Nat]
  /\ versionRows \subseteq [variable : Variable, version : Nat, vaultRef : Ref]
  /\ objects \subseteq minted
  /\ minted \subseteq Ref
  /\ lost \subseteq minted
  /\ call \in [Call -> CallState]
  /\ sweep \in [Sweeper -> SweepState]

Init ==
  /\ now = 1
  /\ status = [v \in Variable |-> "unborn"]
  /\ deletedAt = [v \in Variable |-> 0]
  /\ vaultRef = [v \in Variable |-> NoRef]
  /\ version = [v \in Variable |-> 0]
  /\ versionRows = {}
  /\ objects = {}
  /\ minted = {}
  /\ lost = {}
  /\ call = [c \in Call |-> IdleCall]
  /\ sweep = [s \in Sweeper |-> IdleSweep]

Tick ==
  /\ now < MaxNow
  /\ now' = now + 1
  /\ UNCHANGED <<rowVars, objects, minted, lost, call, sweep>>

(***************************************************************************)
(* The actions that write a value: check, mint an object, run the          *)
(* mutation; on a refusal the single-value actions delete what they        *)
(* minted, the bulk ones do not.                                           *)
(***************************************************************************)

\* createWithValue up to the mint.
BeginCreate(c) ==
  /\ "single" \in Sources
  /\ call[c].pc = "idle"
  /\ call' = [call EXCEPT ![c] = Checked("create", "single", NoVariable)]
  /\ UNCHANGED <<now, rowVars, objects, minted, lost, sweep>>

\* updateWithValue up to the mint; getById hides trashed rows.
BeginUpdate(c, v) ==
  /\ "single" \in Sources
  /\ call[c].pc = "idle"
  /\ status[v] = "live"
  /\ call' = [call EXCEPT ![c] = Checked("update", "single", v)]
  /\ UNCHANGED <<now, rowVars, objects, minted, lost, sweep>>

\* One key of a pushBulk or importValues: new, or on a row they listed.
BeginBulk(c) ==
  /\ "bulk" \in Sources
  /\ call[c].pc = "idle"
  /\ \/ call' = [call EXCEPT ![c] = Checked("create", "bulk", NoVariable)]
     \/ \E v \in Variable :
          /\ status[v] = "live"
          /\ call' = [call EXCEPT ![c] = Checked("update", "bulk", v)]
  /\ UNCHANGED <<now, rowVars, objects, minted, lost, sweep>>

\* Mutant: the object found by name is somebody else's.
MintOrAdopt(c) ==
  /\ call[c].pc = "checked"
  /\ \E r \in Ref :
       /\ minted' = minted \cup {r}
       /\ objects' = objects \cup {r}
       /\ call' = [call EXCEPT ![c] = Minted(call[c], r)]
  /\ UNCHANGED <<now, rowVars, lost, sweep>>

\* vaultCreate answers with the new object's reference.
Mint(c) ==
  /\ call[c].pc = "checked"
  /\ \E r \in Ref \ minted :
       /\ minted' = minted \cup {r}
       /\ objects' = objects \cup {r}
       /\ call' = [call EXCEPT ![c] = Minted(call[c], r)]
  /\ UNCHANGED <<now, rowVars, lost, sweep>>

\* vaultCreate throws: nothing was created, or the object was and three
\* reads by name could not confirm it.
MintThrows(c) ==
  /\ call[c].pc = "checked"
  /\ \/ UNCHANGED <<objects, minted, lost>>
     \/ \E r \in Ref \ minted :
          /\ minted' = minted \cup {r}
          /\ objects' = objects \cup {r}
          /\ lost' = lost \cup {r}
  /\ call' = [call EXCEPT ![c] = IdleCall]
  /\ UNCHANGED <<now, rowVars, sweep>>

\* createCore: the row and its first version row.
CommitCreate(c, v) ==
  /\ call[c].pc = "minted" /\ call[c].op = "create"
  /\ status[v] = "unborn"
  /\ status' = [status EXCEPT ![v] = "live"]
  /\ vaultRef' = [vaultRef EXCEPT ![v] = call[c].ref]
  /\ version' = [version EXCEPT ![v] = 1]
  /\ versionRows' = versionRows
       \cup {[variable |-> v, version |-> 1, vaultRef |-> call[c].ref]}
  /\ call' = [call EXCEPT ![c] = IdleCall]
  /\ UNCHANGED <<now, deletedAt, objects, minted, lost, sweep>>

\* Mutant: the version row repeats the number it replaces.
WriteStaleVersion(v, ref) ==
  /\ version[v] < MaxVersion
  /\ vaultRef' = [vaultRef EXCEPT ![v] = ref]
  /\ version' = [version EXCEPT ![v] = @ + 1]
  /\ versionRows' = versionRows
       \cup {[variable |-> v, version |-> version[v], vaultRef |-> ref]}
  /\ UNCHANGED <<status, deletedAt>>

\* What updateCore and rollbackCore write: the pointer, the next version and
\* the version row that keeps the reference.
WriteVersion(v, ref) ==
  /\ version[v] < MaxVersion
  /\ vaultRef' = [vaultRef EXCEPT ![v] = ref]
  /\ version' = [version EXCEPT ![v] = @ + 1]
  /\ versionRows' = versionRows
       \cup {[variable |-> v, version |-> version[v] + 1, vaultRef |-> ref]}
  /\ UNCHANGED <<status, deletedAt>>

\* updateCore with a vaultRef.
CommitUpdate(c) ==
  LET v == call[c].target IN
  /\ call[c].pc = "minted" /\ call[c].op = "update"
  /\ status[v] = "live"
  /\ WriteVersion(v, call[c].ref)
  /\ call' = [call EXCEPT ![c] = IdleCall]
  /\ UNCHANGED <<now, objects, minted, lost, sweep>>

\* Mutant: no catch block.
MutationThrowsUncaught(c) ==
  /\ call[c].pc = "minted" /\ call[c].source = "single"
  /\ call' = [call EXCEPT ![c] = IdleCall]
  /\ UNCHANGED <<now, rowVars, objects, minted, lost, sweep>>

\* The mutation of a single-value action throws: the row is trashed or gone,
\* or authorization, protection, a tier limit or an environment clash refused
\* the write.
MutationThrows(c) ==
  /\ call[c].pc = "minted" /\ call[c].source = "single"
  /\ call' = [call EXCEPT ![c] = Rejected(call[c])]
  /\ UNCHANGED <<now, rowVars, objects, minted, lost, sweep>>

\* createMany or update throws in a bulk action: the action rethrows, or goes
\* on with the next key.
BulkThrows(c) ==
  /\ call[c].pc = "minted" /\ call[c].source = "bulk"
  /\ call' = [call EXCEPT ![c] = IdleCall]
  /\ UNCHANGED <<now, rowVars, objects, minted, lost, sweep>>

\* The catch block: a best-effort deleteSecret, then the error is rethrown.
CleanUp(c) ==
  /\ call[c].pc = "rejected"
  /\ \/ /\ objects' = objects \ {call[c].ref}
        /\ UNCHANGED lost
     \/ /\ lost' = lost \cup {call[c].ref}
        /\ UNCHANGED objects
  /\ call' = [call EXCEPT ![c] = IdleCall]
  /\ UNCHANGED <<now, rowVars, minted, sweep>>

\* The action runtime stops the action (crash, deploy, time limit).
CallCrashes(c) ==
  /\ call[c].pc # "idle"
  /\ lost' = lost \cup ({call[c].ref} \ {NoRef})
  /\ call' = [call EXCEPT ![c] = IdleCall]
  /\ UNCHANGED <<now, rowVars, objects, minted, sweep>>

(***************************************************************************)
(* Mutations that move no value.                                           *)
(***************************************************************************)

\* updateCore without a vaultRef: the version row repeats the reference.
EditMetadata(v) ==
  /\ status[v] = "live"
  /\ WriteVersion(v, vaultRef[v])
  /\ UNCHANGED <<now, objects, minted, lost, call, sweep>>

\* removeCore and bulkDelete; on a trashed row they change nothing.
Remove(v) ==
  /\ status[v] = "live"
  /\ status' = [status EXCEPT ![v] = "trashed"]
  /\ deletedAt' = [deletedAt EXCEPT ![v] = now]
  /\ UNCHANGED <<now, vaultRef, version, versionRows, objects, minted, lost, call, sweep>>

\* Mutant: the retention window is not checked.
RestoreAnytime(v) ==
  /\ status[v] = "trashed"
  /\ status' = [status EXCEPT ![v] = "live"]
  /\ deletedAt' = [deletedAt EXCEPT ![v] = 0]
  /\ UNCHANGED <<now, vaultRef, version, versionRows, objects, minted, lost, call, sweep>>

\* restoreCore: refused once the row is purge-eligible.
Restore(v) ==
  /\ status[v] = "trashed"
  /\ ~Expired(v)
  /\ status' = [status EXCEPT ![v] = "live"]
  /\ deletedAt' = [deletedAt EXCEPT ![v] = 0]
  /\ UNCHANGED <<now, vaultRef, version, versionRows, objects, minted, lost, call, sweep>>

\* rollbackCore to an earlier version row of the variable.
Rollback(v) ==
  /\ status[v] = "live"
  /\ \E row \in versionRows : row.variable = v /\ WriteVersion(v, row.vaultRef)
  /\ UNCHANGED <<now, objects, minted, lost, call, sweep>>

(***************************************************************************)
(* The purges: list, destroy every object of a document, then its rows.    *)
(***************************************************************************)

\* What take(PURGE_BATCH_SIZE) may return of S on an index over deletedAt.
Oldest(S) ==
  {B \in SUBSET S :
     /\ Cardinality(B) <= BatchSize
     /\ B # S => Cardinality(B) = BatchSize
     /\ \A v \in B, w \in S \ B : deletedAt[v] <= deletedAt[w]}

\* Mutant: the window closes one tick early.
ListedEarly(s) ==
  {v \in Variable :
     status[v] = "trashed" /\ (s \in CronRun => deletedAt[v] + Retention <= now)}

\* listPurgeEligible sees the rows past the window, listProjectTrash all of
\* the trash.
Listed(s) ==
  {v \in Variable : status[v] = "trashed" /\ (s \in CronRun => Expired(v))}

List(s) ==
  /\ sweep[s].pc = "idle"
  /\ Listed(s) # {}
  /\ \E B \in Oldest(Listed(s)) :
       sweep' = [sweep EXCEPT ![s] =
                   Sweeping({[id |-> v, vaultRefs |-> RefsOf(v)] : v \in B})]
  /\ UNCHANGED <<now, rowVars, objects, minted, lost, call>>

\* The loop takes up the next document.
TakeDoc(s) ==
  /\ sweep[s].pc = "sweeping"
  /\ sweep[s].doc = NoVariable
  /\ \E d \in sweep[s].batch :
       sweep' = [sweep EXCEPT ![s] = TakenUp(sweep[s], d)]
  /\ UNCHANGED <<now, rowVars, objects, minted, lost, call>>

\* deleteVaultObject answers: gone (2xx, 404, 410) or anything else.
DestroyRef(s) ==
  /\ sweep[s].doc # NoVariable
  /\ \E r \in sweep[s].left :
       \/ /\ objects' = objects \ {r}
          /\ sweep' = [sweep EXCEPT ![s] = Tried(sweep[s], r, TRUE)]
       \/ /\ sweep' = [sweep EXCEPT ![s] = Tried(sweep[s], r, FALSE)]
          /\ UNCHANGED objects
  /\ UNCHANGED <<now, rowVars, minted, lost, call>>

\* The guard of hardDeleteVariable, and of hardDeleteTrashedVariable.
StillPurgeable(s, v) == status[v] = "trashed" /\ (s \in CronRun => Expired(v))

\* Mutant: the rows go although an object survived.
FinishDocAnyway(s) ==
  LET v == sweep[s].doc IN
  /\ v # NoVariable
  /\ sweep[s].left = {}
  /\ IF StillPurgeable(s, v)
     THEN /\ status' = [status EXCEPT ![v] = "purged"]
          /\ deletedAt' = [deletedAt EXCEPT ![v] = 0]
          /\ vaultRef' = [vaultRef EXCEPT ![v] = NoRef]
          /\ version' = [version EXCEPT ![v] = 0]
          /\ versionRows' = {row \in versionRows : row.variable # v}
     ELSE UNCHANGED rowVars
  /\ sweep' = [sweep EXCEPT ![s] = DoneWithDoc(sweep[s])]
  /\ UNCHANGED <<now, objects, minted, lost, call>>

\* The rows go, unless an object survived or the row is no longer in the trash.
FinishDoc(s) ==
  LET v == sweep[s].doc IN
  /\ v # NoVariable
  /\ sweep[s].left = {}
  /\ IF sweep[s].allDeleted /\ StillPurgeable(s, v)
     THEN /\ status' = [status EXCEPT ![v] = "purged"]
          /\ deletedAt' = [deletedAt EXCEPT ![v] = 0]
          /\ vaultRef' = [vaultRef EXCEPT ![v] = NoRef]
          /\ version' = [version EXCEPT ![v] = 0]
          /\ versionRows' = {row \in versionRows : row.variable # v}
     ELSE UNCHANGED rowVars
  /\ sweep' = [sweep EXCEPT ![s] = DoneWithDoc(sweep[s])]
  /\ UNCHANGED <<now, objects, minted, lost, call>>

\* The run ends: its batch is done, or the runtime stopped it.  The next run
\* (the cron, the self-reschedule, the next round of the button) lists afresh.
EndSweep(s) ==
  /\ sweep[s].pc = "sweeping"
  /\ sweep' = [sweep EXCEPT ![s] = IdleSweep]
  /\ UNCHANGED <<now, rowVars, objects, minted, lost, call>>

Next ==
  \/ Tick
  \/ \E c \in Call :
       \/ BeginCreate(c) \/ BeginBulk(c) \/ Mint(c) \/ MintThrows(c) \/ CommitUpdate(c)
       \/ MutationThrows(c) \/ BulkThrows(c) \/ CleanUp(c) \/ CallCrashes(c)
       \/ \E v \in Variable : BeginUpdate(c, v) \/ CommitCreate(c, v)
  \/ \E v \in Variable : EditMetadata(v) \/ Remove(v) \/ Restore(v) \/ Rollback(v)
  \/ \E s \in Sweeper :
       List(s) \/ TakeDoc(s) \/ DestroyRef(s) \/ FinishDoc(s) \/ EndSweep(s)

Spec == Init /\ [][Next]_vars

(***************************************************************************)
(* Properties                                                              *)
(***************************************************************************)

\* A live variable can be read at its current and at every earlier version:
\* each reference a pull or a rollback could follow is in the vault, whatever
\* writes failed, crashed or were swept meanwhile (values.ts "ZERO-DATA-LOSS").
LiveValuesSurvive ==
  \A v \in Variable : status[v] = "live" => RefsOf(v) \subseteq objects

\* A variable in the trash keeps every value until its restore window closes,
\* so a restore that restoreCore accepts never resurrects a dead reference.
RestorableValuesSurvive ==
  \A v \in Variable :
    status[v] = "trashed" /\ ~Expired(v) => RefsOf(v) \subseteq objects

\* No two rows share an object, and an object still in the hands of an
\* unfinished write belongs to no row: without it a cleanup or a purge of one
\* variable would destroy another's value.
RefsExclusive ==
  /\ \A v, w \in Variable : v # w => RefsOf(v) \cap RefsOf(w) = {}
  /\ \A v \in Variable : RefsOf(v) \cap InFlight = {}

\* Version numbers run 1..version without gap or repetition, and the row
\* points where its latest version row points (what rollback relies on).
HistoryContiguous ==
  \A v \in Variable : status[v] \in {"live", "trashed"} =>
    LET rows == {x \in versionRows : x.variable = v} IN
    /\ {x.version : x \in rows} = 1..version[v]
    /\ Cardinality(rows) = version[v]
    /\ \E x \in rows : x.version = version[v] /\ x.vaultRef = vaultRef[v]

\* An object nothing points at is explained by a writer that crashed, never
\* learnt its reference or failed to delete it.  createMany's comment makes
\* the caller "own the rollback of those refs if this throws".
OrphansExplained ==
  \A r \in objects :
    \/ r \in InFlight \cup lost
    \/ \E v \in Variable : r \in RefsOf(v)

\* Rows go only once every object they name is gone: dropping a row first
\* would orphan a live secret (gc.ts, ordering of destruction).
RowsOutliveObjects ==
  [][\A v \in Variable :
       status[v] # "purged" /\ status'[v] = "purged" => RefsOf(v) \cap objects = {}]_vars

\* Writers, rollbacks, the trash and the purge cron together keep the promise
\* of SecretHistory: no interleaving or failure is seen as anything but a
\* version recorded, a variable trashed, restored or lapsed, values lost after
\* their window, and a history dropped when none is left (gc.ts:22-29).
History == INSTANCE SecretHistory
  WITH state <- [v \in Variable |-> IF status[v] = "trashed" /\ Expired(v)
                                    THEN "overdue" ELSE status[v]],
       history <- versionRows,
       pulled <- vaultRef,
       readable <- objects \cap {x.vaultRef : x \in versionRows}
KeepsHistory == History!Spec

\* The one actor that can take a value away from a live variable is an
\* emptyProjectTrash run that listed it earlier: neither the cron purge nor a
\* writer's cleanup ever does.
OnlyTrashRunsReachLive ==
  [][\A v \in Variable :
       status[v] = "live" /\ ~(RefsOf(v) \cap objects \subseteq objects')
         => \E s \in TrashRun : sweep[s].doc = v]_vars
=============================================================================
