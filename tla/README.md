# Envpilot: specifications, model checks and proofs

This directory holds the TLA+ development for Envpilot's backend
(`src/convex`): what the components that move secrets promise, the detailed
models of their code, the TLC runs that check the one against the other, and
TLAPS proofs of the results that matter most.

## 1. The system

Envpilot stores environment variables, shared credentials and secret files of
teams. Three stores share no transaction:

* the **Convex database** (rows of variables, versions, accounts, files,
  change requests, grants, shares). A *query* or *mutation* is one serializable
  transaction. An *action* is not: it is a sequence of queries, mutations and
  HTTP calls, other functions run between any two of them, and it may stop
  anywhere (a crash, a deploy, a time limit). Scheduled functions and crons are
  actions or mutations started later.
* the **WorkOS Vault**, reached over HTTP (`features/vault/vault.ts`), which
  keeps the encrypted values. A call may fail, or commit and lose its answer.
* the **Convex file storage** with the ciphertext of secret files.

Everything hard in this program comes from an action that keeps two of these
stores in step.

| Component (`src/convex/features/...`) | State | Operations | What is hard |
| --- | --- | --- | --- |
| Variables (`variables/values.ts`, `variables/mutations.ts`) | rows, version rows, vault references, trash state | createWithValue, updateWithValue, pushBulk, importValues; create/update/remove/restore/rollback cores | mint first, commit after; a refusal or a crash in between; concurrent writers of a row; the trash window |
| Vault client (`vault/vault.ts`) | vault objects | create, update with version check, read, delete | lost answers, reconciliation by name, deletes that fail |
| Purge and trash (`vault/gc.ts`) | the snapshot a run works through | purgeExpiredBatch (cron), emptyProjectTrash (button) | snapshot against live rows; partial failure; overlapping runs; starvation |
| Shared accounts (`accounts/*`) | account rows, one vault object each, written in place | createAccountAs, updateWithCredentials, remove, restore | in-place write with a compensating rollback racing other writers |
| Secret files (`files/*`) | blob + key + row | upload, replace, read, purge | three stores, ordered writes, discards |
| Environment uniqueness and workspaces (`variables/helpers.ts`, `workspaces/*`) | which variable a (key, environment) pair resolves to, across projects that share workspaces | conflict check in create, update, restore, adopt, rollback | an invariant over many rows that each write has to re-establish |
| Change requests (`changeRequests/*`) | pending proposals with staged vault objects | file, review, cancel, expire, apply | stale proposals, two-person rule, staged object ownership |
| Variable requests (`variables/requests/*`) | requested keys | create, review, approve with value | reviewer's value minted before the verdict commits |
| One-time shares (`sharing/*`, `variables/share.ts`) | share rows, codes, the ciphertext in the vault | createWithPayload, verifyRecipientEmail, verifyOtpAndReveal, restoreBurnedShare, revokeAndPurge, cleanup | burned before it is read, un-burned when the read fails; three actions that delete ciphertexts |
| Rotation, bulk jobs (`variables/rotation.ts`, `variables/bulkJobs.ts`) | expiry status, job progress | cron sweep, progress | reminders sent once |
| Project deletion (`projects/deletion.ts`, `remove` in `projects/mutations.ts`) | stage, cursor, lease and attempts on the project row | remove, processDeletion, destroyExternalBatch, finishExternalBatch | a chain of transactions and actions that must not break off; late and repeated batches; external deletes before rows |
| Organizations, invitations, sessions, holds (`organizations/*`) | memberships, invitations, tombstones | invite/accept/transfer/suspend | a single owner, stale invitations |
| Permissions (`permissions/*`) | grants, revocation events | grant, revoke, expire | expiry sweep against use |
| Webhook integrations (`integrations/*`) | the webhook row with its queue slot, embargo and lease, fallback rows, recovery pointers, the URL in the vault | create, update, remove; enqueue, deliver, claim, retry, recover; purge, purgeOrphan, cleanupVault | one sender at a time, pauses every delivery has to keep, purges of a URL that a slow create still holds |
| Billing (`billing/*`) | subscriptions, the user's tier, grace periods, claimed event ids | processWebhookEvent, expireGracePeriods | repeated and reordered events; a failure between any two of an event's transactions; the cron in between |
| Feature registry, API/OAuth, CI/CD, docs, audit, dashboard, admin, emails, community, support, users | records | request/response | authorization and reports; refusals appear as nondeterministic rejections |
| Clients (`apps/cli`, extensions, `apps/web`, GitHub action) | local caches | pull, push, sync | not part of the backend's guarantees |

`PROJECT.json` lists them with their status.

Two facts about this backend shape every model below. A Convex mutation is
serializable, so a mutation is **one** action whatever it writes; an action
function is not, so each of its queries, HTTP calls and mutations is an action of
its own and everything else may run in between. And an action that stops is not
run again by Convex: what it had done stays done.

## 2. What makes each component correct

* A **variable** keeps every value its version history names while it is live or
  can be restored; nothing in the vault belongs to two rows; nothing stays in the
  vault unexplained; a row goes after its objects.
* An **account** that is live or restorable has credentials no scheduled
  deletion is about to take; a pending proposal can still be applied and never
  overwrites an edit acknowledged after it was filed; a rollback undoes its own
  write only; what a refused request wrote does not stay.
* A **key** resolves, in every project and environment, to at most one value,
  whichever rows, memberships and scopes it comes through; sharing a row exchanges
  no value, and takes none that a project pulls from a row of its own while what was
  found out about that project stays true.
* The **purge** destroys nothing a user could still restore, destroys the parts
  of a document in an order that is safe wherever it stops, and gets to every
  document in the end.
* A **change request** on a protected target is applied once, by someone who may
  review it, against the state it was filed for (planned beyond accounts).
* A **one-time share** is shown once each time it is opened (at its creation, and
  again whenever somebody calls the public `restoreBurnedShare`), can be read as long as
  it is open and was not read, is not burned without a reason, and ends.
* A **webhook** that is live has its URL; its deliveries go out one at a time,
  keep the pauses a provider asks for, and are all settled in the end; a URL no
  webhook uses is destroyed.
* A **project deletion** that has begun ends, whatever stops on the way; objects in
  the vault and in file storage go before the rows that name them, and nothing the
  project had is left.
* A **customer** gets the tier that was paid for when an activation succeeds, keeps it
  through a grace period, and loses it once every subscription is revoked, however
  events are repeated, reordered or interrupted; and every event is settled.

## 3. Modules

| Module | Models | Actions and the code they stand for |
| --- | --- | --- |
| `VariableVault` | `variables/values.ts`, `variables/mutations.ts`, `vault/gc.ts`, the vault as they use it | `BeginCreate` / `BeginUpdate` / `BeginBulk` (the action's query), `Mint` / `MintThrows` (the vault request, the latter with or without a created object), `CommitCreate` / `CommitUpdate` / `MutationThrows` / `BulkThrows` (the mutation), `CleanUp` (the catch block), `CallCrashes`; `EditMetadata`, `Remove`, `Restore`, `Rollback` (mutations); `List`, `TakeDoc`, `DestroyRef`, `FinishDoc`, `EndSweep` (the cron purge and `emptyProjectTrash`); `Tick` |
| `SecretHistory` | nothing: the abstract specification of a variable's life | `Record` (a version of a value that is readable and nobody else's), `Trash`, `Restore`, `Lapse` (the window closes), `Erode` (values go, after the window only), `Drop` (the history goes, when no value of it is left) |
| `AccountCredentials` | `accounts/values.ts`, `accounts/mutations.ts`, `changeRequests/*` on accounts | the create path and the in-place edit step by step (`BeginEdit`, `ReadPrevious`, `WriteInPlace`, `CommitEdit`, `MutationThrows`, `Rollback`), proposals (`BeginProposal`, `MintProposed`, `FileProposal`, `FileDuplicate`, `FilePlain`), the review (`ApproveCreate` ... `ApproveRestore`, `Close`), scheduled deletions, purge, `Remove`, `Restore` |
| `SharedVariables` | `variables/helpers.ts` (the conflict check), the cores that change a row's environments, owner or scope, `workspaces/*` | `Create`, `Update`, `Detach`, `Remove`, `Restore`, `Rollback`, `LinkProject`, `RemoveProject`, `SetScope`, `CreateWorkspace`, `DeleteWorkspace` and its batches, and a share in three steps: `FindShare` (query), `LinkShare` (mutation), `Adopt` or `Unlink` / `Abandon` |
| `PurgeSweep` | `purgeExpiredBatch` as a chain of runs, `listPurgeEligible`, `hardDelete*`, `blobStore.del`, the cron | `Tick`, `Abort`, `List`, `DeleteBlob` / `BlobFails`, `DeleteKey` / `KeyFails`, `HardDelete`, `Finish` (which reschedules), `RunCrashes`; `Trash`, `Restore`, `Expire` around it |
| `WebhookCredential` | `create`, `_store`, `remove` of `integrations/webhooks.ts`; `purge`, `purgeOrphan`, `cleanupVault` of `integrations/dispatch.ts` | `Reserve`, `Mint` / `MintThrows`, `Track` / `TrackThrows`, `Discard`, `Store` / `StoreThrows`, `Undo`, `CreatorCrashes`; `Remove`, `DeleteOrganization`; `ClaimOrphan`, `SweepPointer`, `SweepRow`, `Destroy` / `DestroyFails`, `Report`, `RunCrashes`; `PointerAges`, `ClaimExpires` |
| `WebhookDelivery` (extends it) | `integrations/queue.ts`, `deliver` and its transactions in `integrations/dispatch.ts`, `update` in `integrations/webhooks.ts` | `Accept`, `StoreAndTest`, `Recover`; `Look`, `Claim`, `Defer`, `Answer`, `Retry`, `SetEmbargo`, `Record`, `DeliverCrashes`; `Update`, `RemoveHook`, `DeleteOrganizationHook`, `LoseLastProject`; `Tick` |
| `ProjectErasure` | nothing: the abstract specification of a project's deletion | `Add`, `Begin`, `Shrink` (objects before the rows that name them), `Vanish` |
| `ProjectDeletion` | `projects/deletion.ts`, `remove` | `Remove`; `RunScheduled` and `RunWatchdog`, each one run of `processDeletion` (`NothingToDo`, `Postpone`, `StartBatch`, `NothingListed`, `DeleteRows`, `TakePage`, `DeleteProject`); `Destroy` / `DestroyFails`, `Finish`, `CancelWatchdog`, `BatchCrashes`; `Create` and `PurgeTrashed` beside it; `Tick` |
| `SecretShares` | `variables/share.ts`, `sharing/mutations.ts`, `sharing/cleanup.ts`, `revokeSharesForResource` | `Mint`, `CreateShare` / `CreateRefused`, `DiscardPayload`, `CreatorCrashes`; `VerifyRecipientEmail`, `VerifyOtp`, `ReadSecret` / `ReadFails`, `Unburn` / `RestoreFails` (the catch block's call of `restoreBurnedShare`), `DeleteRevealed`, `Return`, `RevealCrashes`; `RestoreBurnedShare` (the same mutation called by anybody with the link); `RevokeShare`, `PurgeRevoked`, `TrashResource`, `RestoreResource`; `CleanupExpiredShares`, `Tick` |
| `OneTimeLink` | nothing: the abstract specification of a one-time share | `Publish`, `Take` (shuts the link), `Read`, `GiveBack` (only by a taker that has not read it), `Show` (only by one that has), `Lose`, `Recall` (opened again from outside, and counted), `Close` (several at once, for good), `Erase` (once a taker has read it, or it is closed) |
| `PolarWebhooks` | `billing/webhooks.ts`, `billing/gracePeriods.ts`, the mappings of `billing/queries.ts`, the route that Polar calls | `Receive` / `Skip` (the claim); `LookUp`, `CreateSubscription`, `UpdateSubscription`, `MapPrevious`, `MapProduct` / `MapFails`, `SyncUserTier`, `ClearGracePeriod`, `CreateGracePeriod`, `Return`; `Throws`, `Release`, `Stops`; `ExpireGracePeriods`, `Seed`, `Tick` |

The components meet in the rows and vault objects, and each module contains
the part of the others it meets: `VariableVault` and `AccountCredentials` have
the purge of their rows as their own actions, with its real interleaving;
`PurgeSweep` has the batching, order and rescheduling those two leave
out; `SharedVariables` says which of the rows a pull returns and leaves
out what their values are made of. `WebhookDelivery` is composed with
`WebhookCredential`: creation, removal and the deletion of the organization are one
step of both. `ProjectDeletion` sees the rows of all the other components as
rows with objects, in the stage that deletes them, beside the purge of the trash.
Every module's `MC` module extends it with symmetry sets or the sets a `.cfg` cannot write.

How state corresponds to the code:

* `VariableVault`: `status`, `deletedAt`, `vaultRef`, `version` are the fields of
  an `environmentVariables` row ("unborn" and "purged" are the absence of one),
  `versionRows` is the `variableVersions` table, `objects` the vault. `call` and
  `sweep` hold the local variables of the actions in flight. `minted` and `lost`
  are histories. Time is `now`, in days; the restore window and the purge cutoff
  are the two comparisons of `deletedAt` with it.
* `AccountCredentials`: a value is the call that wrote it; `revision` is the
  vault's version id; `call[c].previous` and `.wrote` are `previousVaultValue` and
  `updatedVersionId`; `committed` and `request[q].saw` are histories.
* `SharedVariables`: one key; `container` is `projectId` or the group's project,
  `scope` is `appliesTo` (all projects when absent), `recorded` what the row's
  version records would write back on a rollback, `sharing` the local variables of
  a share in flight. Values matter only as equal or different. `Answers` is what the
  maps of `resolve.ts` collect for one environment; when that is two rows the pull
  throws (`assertNoDuplicatePairs`, `resolve.ts:142`), which is `Refused`.
* `PurgeSweep`: `trash[k]` is the `by_deleted_at` index of the table of kind `k`,
  `past[k]` how many rows of it are before the cutoff (time passes by moving it
  on, and the batch takes from the front), `todo` and `at` the position in the loops
  of `purgeExpiredBatch`. `missed` is a history.
* `WebhookCredential`: `row`, `pointer` and `object` are the `orgWebhooks` row, its
  `webhookVaultCleanup` pointer and the vault object; `claim` and `fresh` are
  `claimedAt` (which the code compares as a token and as a time), `aged` the pointer's
  age against the grace period. `creator` and `run[r]` are where the actions are.
* `WebhookDelivery`: `next`, `embargo`, `lease` are the row's timestamps, as the
  time left; `token` is `deliveryLeaseToken`, `generation` is `queueGeneration`. `event[e]` is
  whatever carries an event: a scheduled function, a fallback row, or a `deliver`
  with its local variables (`wait` the `notBefore` it knows, `left` the rest of its own
  lease). `throttle` is a history.
* `ProjectDeletion`: `stage`, `lease`, `seen` are `deletionStage`,
  `deletionLeaseUntil`, `deletionCursor`; `due` the pending `processDeletion` runs,
  by their delays; `batch[b]` a `destroyExternalBatch` with its arguments and
  `deletedResources`, `dog[b]` its watchdog. Stages of a kind differ in their tables
  only, so a stage is a number: external ones first, then tables, then paged scopes.
* `SecretShares`: `status`, `left` are the row's status and the time to `expiresAt`,
  `code[s][r]` the life of a recipient's code, `stored` the ciphertexts in
  the vault. `shown`, `broken`, `fetched` and `recalled` are histories, of the one-time
  shares. `verifyOtp` and `restoreBurnedShare` are public: a call of the first that no
  action follows is `VerifyOtp` and then `RevealCrashes`, one of the second is
  `RestoreBurnedShare`, which asks for the token and a burned one-time share and nothing
  else. A wrong code is left out: `verifyOtp` counts it and then throws, and a mutation
  that throws changes nothing.
* `PolarWebhooks`: one customer. `row[s]` is the `subscriptions` row of a subscription, `tier`
  the `userTiers` row, `graceActive` and `graceLeft` the latest `subscriptionGracePeriods`
  row, `cooldown` the age of it, `claimed` the `processedWebhookEvents`. `work[a]` holds
  the local variables of an execution of the action; `old` is the row as it was read. A
  product stands for its tier, `seeded` has those that are mapped. `acknowledged` is what
  Polar knows; `completed`, `refused`, `overlapped` and `raced` are histories.

Refusals (permissions, tiers, protection, limits) are an outcome a mutation may
always have; no property relies on one being made.

Operators beside a definition that are described as a mutation of it, or as a
check that trusts or forgets something, are not part of the models: they
are plausible bugs, one for each property of the passing runs, and replacing the
definition by its mutation makes TLC report that property.

## 4. Runs

| Run | Result | What it shows |
| --- | --- | --- |
| `vault_cron` | pass | Two overlapping purge runs beside two writers that may be refused, crash or lose an answer: live and restorable values survive (`LiveValuesSurvive`, `RestorableValuesSurvive`), no object is shared (`RefsExclusive`), version numbers have no gaps (`HistoryContiguous`), every orphan is explained by a crash, a lost answer or a failed delete (`OrphansExplained`), `SecretHistory` is implemented (`KeepsHistory`). |
| `vault_trash` | pass | With an `emptyProjectTrash` run and bulk writes, that run alone can take a value from a live variable (`OnlyTrashRunsReachLive`). |
| `account_overlap` | pass | Three overlapping calls and two requests under crashes, lost answers and a vault that is down: credentials never dangle, staged credentials stay their proposal's own, a stale proposal is refused, a rollback undoes its own write only. |
| `account_approve_during_edit` | violation | An approval between an edit's vault write and its mutation: the edit is acknowledged, the account has the proposal's credentials. |
| `shared_two_groups` | pass | Projects in two workspaces, every writer that checks for conflicts (all but rollback and sharing): a clash is only ever one between the rows of two different workspaces (`OnlyAcrossWorkspaces`). |
| `shared_adoption` | pass | A share with everything else running between its steps, earlier rollbacks and clashes included: an adoption costs a project whose own verdict still holds (its rows are the copies the action compared, it is still linked) nothing it pulls from its own rows, and what a project inherits is kept or refused, never exchanged (`StandingVerdictKeepsPulls`). |
| `shared_rollback_clash` | violation | Narrow a row, reuse the environment, roll the row back: two answers. |
| `purge_drains` | pass | One document that can never be deleted, deletes that fail, runs that stop: nothing restorable is touched, the order blob, key, row holds, a chain does not stop early, everything else is purged in the end. |
| `webhook_delivery` | pass | A webhook is created, reconfigured, removed and purged while two events are on their way and actions stop or lose answers: one request at a time (`OneSender`), only late actions are overtaken (`NotOvertakenInTime`), a provider's pause is kept (`RespectsThrottle`), a live webhook has its URL (`LiveHasCredential`), each object stays named (`NothingForgotten`), events settle and leftovers go (`EventsSettle`, `Reclaimed`). |
| `project_deletion` | pass | The deletion of a project with a versioned variable, a shared file, a member and an API key, with deletes that fail and batches that stop or come late: the chain never breaks off (`WorkPending`), stages stay empty (`StagesEmptied`), batches overlap only after their lease (`OneBatchAtATime`), `ProjectErasure` is implemented (`KeepsPromise`), and the deletion ends (`Finishes`). |
| `secret_shares` | pass | Two shares of a variable, two recipients, two reveals at once, reads and deletes that fail, actions that stop, and somebody with the link who un-burns the share once, at any time: shown once per opening (`ShownOncePerOpening`), readable while open unless it was read and then un-burned from outside (`ActiveIsReadable`), burned for a reason (`BurnedForAReason`), ended (`SharesEnd`), and `OneTimeLink` is implemented (`KeepsLink`). |
| `polar_webhooks` | pass | Three events about a customer out of four stories (renewal after a late revocation, change to a plan mapped late, a failed payment, a new subscription), in any order, redelivered after failures, stopped executions and lost answers: nobody stays on a paid tier (`NobodyStaysPaid`, `PaidTierEnds`), an activation that succeeds has set its tier (`ActivationGrantsTier`), a grace period is not cut short by a second attempt (`GraceHonoured`), events are settled (`EventsSettle`). |

Variations that are a small edit of a `.cfg` away; TLC reports each of them:

* `vault_cron` with `Sources = {"single", "bulk"}`: `OrphansExplained` fails.
  `pushBulk` and `importValues` do not delete what they minted when `createMany` or
  `update` throws, although `mutations.ts:376` says the caller must.
* `vault_trash` with `Sources = {"single"}`, `MaxNow = 4` and
  `INVARIANT LiveValuesSurvive`: a restore between `listProjectTrash` and the
  deletes of `emptyProjectTrash` (`gc.ts:761`) leaves a live variable with no value,
  while `gc.ts:592` says that a row restored between snapshot and call "is never
  destroyed". With `PROPERTY RowsOutliveObjects` instead: a row restored, rewritten and
  trashed again after `listProjectTrash` is dropped with its new object in the vault;
  `hardDeleteTrashedVariable` only sees that it is in the trash.
* `account_overlap` with `Faults = {}` and `INVARIANT NothingFailedIsLive`: fails. The second
  of two overlapping refused edits rolls back to the value of the first. With
  `Serial = TRUE` as well it passes: while calls run one after another and nothing outside
  fails, a refused edit leaves nothing behind.
* `account_overlap` with the fault `"noVersion"`: `RollbackOnlyOwn` fails, the
  rollback is then not guarded by a version (`vault.ts:118`).
* `shared_two_groups` with `AtMostOnePerEnvironment`: the conflict check looks one
  membership away, so two workspaces may hand one project the same key.
* `shared_adoption` with `SharingKeepsPulls`, also with `Serial = TRUE`: fails. The
  comparison reads the rows each project owns, so the adopted row may meet one of the
  same key that a project inherits from another workspace, and the pull of that project is
  refused (`resolve.ts:142`), while `adopt.ts:11` says that "every project's next pull
  returns what it returned before". What a project pulls from its own rows is safe while
  nothing runs beside the share: with `Serial = TRUE`, `Workspace = {w1}` and
  `Env = {dev, prod}`, `QuietShareKeepsPulls` passes (497,000 states); with
  `Serial = FALSE` it fails, an edit or a departure between query and adoption is not
  noticed.
* `shared_adoption` with `Paths <- JustShare` and
  `PROPERTY AdoptionTrashesCopies`: `applyAdoptionCore` re-checks the copies for their
  key only (`adopt.ts:61`), so one that was edited after the comparison is trashed,
  while `adopt.ts:11` says "identical copies". With `AtMostOnePerEnvironment`: it does
  not check for conflicts, and a project may have gained its own row since the query.
* `purge_drains` with `Stuck <- TwoStuck` and only `PROPERTY Drains`: as many
  undeletable documents of a kind as a batch holds come first in every listing
  (`gc.ts:93`) and starve the rest of the kind, while `gc.ts:27` says a failure "never
  blocks the others".
* `purge_drains` with `MissingBlobDeletes = FALSE`: `Drains` fails. If the store
  reports an error for a blob that is gone, a run that stops between blob and key
  leaves a file no later run gets past.
* `webhook_delivery` with `OneSender` for events of different configurations too (drop
  its last condition): `update` frees the lane while a request of the old
  configuration is on its way, so "exactly one action at a time" (`dispatch.ts:73`) is
  true of one configuration, which is how `OneSender` is stated.
* `project_deletion` with `Removals = 2`: passes as well (330,000 states). With
  `MissingBlobDeletes = FALSE`: `Finishes` fails, as `Drains` does. With
  `Unguarded = {member}` (favourites and invitations are created without a look at
  `deletedAt`, `projects/favorites.ts`, `organizations/invitations.ts`): the safety
  properties pass, as they only speak of the other rows; `Finishes` fails, but only by
  users who create rows for ever.
* `secret_shares` with the invariant that a one-time share is shown once, whatever its
  `recalled`: fails. After a reveal whose best-effort delete failed, or before it has run,
  a call of `restoreBurnedShare` makes the share active again, and a recipient who asks for
  another code is shown the secret again. The mutation asks for the token only (`mutations.ts:320`), while its
  comment says it is for "a one-time reveal whose Vault read failed" (`mutations.ts:315`)
  and `apps/docs/content/platform/sharing.mdx:35` says of a one-time view that "a
  second visit, even by the same recipient, fails". With the invariant that every active
  share has its ciphertext: fails the same way, the delete having succeeded. With
  `MaxRecalls = 0` both hold.
* `secret_shares` with `AnswersLost = TRUE`: `ActiveIsReadable` fails. A
  `createShare` that commits and is seen to fail has its payload discarded as
  "referenced by nothing" (`share.ts:91`).
* `secret_shares` with the invariant that a revoked or expired share has no
  ciphertext left: fails. The deletes are best effort and `share.ts:181` and `:216` say
  "vaultGc reconciles any straggler", but nothing in `vault/gc.ts` looks at shares; the
  ciphertext stays until the project is deleted. The same holds of every share that
  simply expires.
* `secret_shares` with the invariant that an open share is not one of a deleted
  resource: fails. A share that is burned at that moment is passed over
  (`helpers.ts:462`), then un-burned; `verifyOtp` refuses it while the resource is
  deleted, and it works again after a restore. With the invariant that at most
  `MaxActive` shares are open: fails as well, an un-burned share is not counted again.
* `polar_webhooks` with `INVARIANT RedeliveryAppliesChange`: fails. `updateSubscription`
  writes the new product into the row (`webhooks.ts:709`) before the strict mapping throws,
  so on redelivery the previous product is the new one and no tier is set, while
  `webhooks.ts:740` says "seed it, then Polar's redelivery will apply the tier change". The
  customer has paid for a change that no later event makes.
* `polar_webhooks` with the invariant that an acknowledged event is completed or claimed:
  fails. A redelivery that arrives while the first execution is under way is answered with
  200 as a duplicate; if the first execution then fails and releases its claim, nobody
  delivers the event again, while `webhooks.ts:571` says "Polar's retry gets
  processed rather than skipped". `NothingDropped` excuses this in the two liveness
  properties; without it in `EventsSettle`, TLC shows a revocation that waits
  for ever for a creation that was lost this way.
* `polar_webhooks` with `Action = {a1, a2}` and `NobodyStaysPaid` without its excuse
  `overlapped`: fails, an activation clears the grace period of a revocation it overlaps.
  `ActivationGrantsTier` without `raced`: fails, the cron ends a grace period between
  `_syncUserTier` and `_clearGracePeriod`. `GraceHonoured` with `AnswersLost = TRUE`: fails, the
  second attempt at a revocation meets the grace period of the first.
* `polar_webhooks` with the invariant that a customer with an active subscription, all
  events processed, does not have the default tier: fails. Revocations and grace
  periods are the user's, not the subscription's, and a late revocation of the old
  subscription ends the tier of the new one. Events carry no order that the code looks
  at either: an `updated` processed after `revoked` reactivates.

### Bounds, and why they are enough

* Identities are never reused (as Convex ids and vault ids), so runs end when they
  are used up: this, and the caps on versions and time, is why the safety runs say
  `CHECK_DEADLOCK FALSE`. In `PurgeSweep` the cron ticks for ever, and deadlock is
  checked.
* `vault_*`: two variables, three objects. An exclusivity or survival failure
  relates two rows and one object; the third object lets a row be rewritten while
  the other keeps its own. `BatchSize` 1 makes two runs necessary for two
  documents; `Retention` 1 and `MaxNow` 3 or 4 reach both sides of the boundary and a
  second trashing after a restore. `MaxVersion` 2 has a rollback to another object.
* `account_*`: one account (no property relates two), three objects (its own and
  two staged), three calls (an overlapping pair and one in between), two
  requests (one pending, one filed beside it or replaced). `MaxVersion` caps only
  metadata edits.
* `shared_*`: a clash is a property of two rows in one project, so two rows; two
  projects and two workspaces give every way two rows can meet in a project; two
  environments distinguish overlap from equality; `MaxRecords` 2 or 3 version
  records let a row be rolled back to something it was before. `shared_adoption` has
  one environment, since a pull is of one and the adopted row and its copies are equal in
  theirs, and keeps the second workspace, where what a project inherits
  comes from; larger instances pass as well: two environments with one workspace
  (3.2 million states), three rows, three projects, two shares at once.
* `purge_*`: batches of two and chains of two runs instead of 25 and 20, three
  documents of one kind (one more than a batch) and a file. Accounts go through
  the loop of variables with one object each, so the run has none.
* `webhook_delivery`: one webhook (webhooks meet in the size of a cleanup batch
  only), two events (every property is about one or two), two attempts, a
  lease of two ticks around a request of one, so that a crashed or late action's lease
  runs out before and after its successor asks. One reconfiguration separates an
  old generation from a new one. One purging run at a time: a second one is in
  the proofs, which hold for any set of runs.
* `project_deletion`: a stage of each kind but two external ones, the variables with their
  versions and one of single resources; a batch of two over three resources; one
  row per stage is enough for `StagesEmptied`, which is about rows one by one. Two
  batches in flight, since a third needs a second lease outlived. `Batches` bounds the
  runs of `destroyExternalBatch` at one time, not in total.
* `secret_shares`: one share of each mode, of one resource (to be revoked together),
  two recipients and two reveals (an overlapping pair is what `ShownOncePerOpening` is about), one
  un-burning from outside (a second would repeat the first; `MaxShown` leaves room to
  exceed what that allows),
  a code that lives shorter than its share, and a limit of one active share so
  that `createShare` is refused.

* `polar_webhooks`: two subscriptions (one that the other replaces), two products of
  which one is mapped late, three events per story, one execution at a time (two in
  a variation; the proofs are for any number). A grace period shorter than the cooldown, as 7 days
  are to 30, so that both outcomes of a revocation and the cron come up.

### Fairness

Each `Fairness` says all that its module assumes. `PurgeSweep`: the cron
ticks and a finished batch returns (weak fairness; crons and the return of a
function are the platform's), and a step that runs get to again and again is not
prevented each time (strong fairness): the API key is configured at some
ticks, an outage passes, runs are not always stopped at one document. Success is
only assumed of *some* delete, never of a given one, and of none that is `Stuck`. Without
strong fairness a vault that is down whenever the cron runs refutes any purge.

`WebhookDelivery`: time passes, actions that run and functions that are scheduled go
on (weak fairness, per event); a stopped action is not run again, which
Convex does not promise either. For `Reclaimed` the hourly run comes, and a
delete and its report, tried again and again, succeed some time (strong fairness).

`ProjectDeletion`: time passes, scheduled functions run, actions go on, and from some
time on no delete fails and no batch is stopped (the `<>[]` conjunct). The last
is needed because one failing delete per retry would be an unlimited delay; the
model has no bound on how often things fail before.

`SecretShares`: time passes, the hourly cleanup runs, and reveals and creations that
are not stopped go on. Nothing is assumed of recipients, of reads or of deletes.

`PolarWebhooks`: Polar delivers again what was not answered with 200 (strong fairness per event:
an execution under way keeps it from being claimed), the missing product is mapped,
the cron runs, time passes, executions go on, and from some time on none is stopped and no
transaction fails. A product that is not mapped and a row that does not exist are not
faults of this kind: that they resolve is what `EventsSettle` says.

## 5. Proofs

`tlapm` checks all of these for arbitrary sets and bounds, from the assumptions
on the constants named in the modules (`VaultConstants`, `AccountConstants`,
`SharedAssumption`, `PurgeAssumption`, `CredentialConstants`, `DeliveryConstants`,
`DeletionConstants`, `ShareConstants`, `BillingConstants`).

* `VariableVault_proofs`. `TypeCorrect`, `OwnershipExclusive` (`RefsExclusive`),
  `LiveOutOfReach` (`OnlyTrashRunsReachLive`), `RowsGoLast`
  (`RowsOutliveObjects`), and, assuming `TrashRun = {}`, `LiveSurvive` and
  `RestorableSurvive`. The inductive invariant adds what the calls know about the
  objects they carry (`CallsSound`), that a row's references were minted and are there
  (`RowsSound`, `Owned`), and that what a sweep is about to delete belongs to no
  other row, and for the cron to a row past its window (`SweepsSound`): the property
  alone is not inductive because a listed reference could then be anybody's.
  `HistoryWhole` (`HistoryContiguous`) counts: version numbers of a variable are a
  bijection with `1..version` (`Numbered`), since each write takes the next number and
  only a purge, which drops all of a row's versions, takes any away.
  `EveryOrphanExplained` (`OrphansExplained`) assumes `TrashRun = {}` and
  `"bulk" \notin Sources`, the configuration of `vault_cron`; without either TLC shows an
  orphan (section 4). An object is in a row, in a call or in `lost` (`Accounted`); that
  a purge keeps this needs that what the cron has listed of a document, and not failed
  to delete, still covers every object the row names (`SnapshotComplete`), which a
  listing only has because a listed row can never be written again.
  `ImplementsHistory` (`KeepsHistory`), assuming `TrashRun = {}`, is the refinement of
  `SecretHistory`: commits, edits and rollbacks map to `Record`, a destroyed object to
  `Erode` or, if no row has it, to a stutter, `FinishDoc` to `Drop`, `Tick` to `Lapse`,
  mints, crashes and cleanups to stutters. It puts the parts together: that a recorded value is
  readable is `LiveSurvive` and what calls hold, that it is nobody else's is `Owned`, its
  number is `Numbered`, that only overdue values go is `SweepsSound`, and that histories
  go last is `SnapshotComplete`. With bulk writes it holds too.
* `AccountCredentials_proofs`. `TypeCorrect`, `CredentialsKept`,
  `ProposalsKept`. `CredentialsPresent` and `ProposalsKeepSecrets` need each other
  (an approval makes a staged object the account's), and both need that an
  object in a call's hands is nobody else's until it is filed (`StagedOwn`,
  `StagedPresent`) and that a scheduled deletion only has objects that were written.
  `StaleRefused` (`StaleProposalsRefused`): a pending request whose expected version is the
  account's saw what is committed now (`SawCurrent`), since whatever commits
  credentials moves the version. `RollbackUndoesOwn` (`RollbackOnlyOwn`), assuming
  `"noVersion" \notin Faults`: what a call wrote is at most the object's revision, and while
  it is equal, the value is the call's own or destroyed (`WritesKnown`).
  Two theorems say what makes calls fail that overlap. Assuming `Serial = TRUE` and
  `Faults = {}`, the configuration of `account_approve_during_edit`, `FailuresUndone` shows
  `NothingFailedIsLive`, and `OnlySwapsLose` shows `AcknowledgedIsLive`, which that run
  refutes, for every behaviour in which no approval changes the object of an account under an
  edit at work: that swap is the only cause. The invariants say that an edit at
  work is the last to have written its object and would put back a value that stood
  (`Undoable`), and that the object of an account at rest holds what was committed last
  (`Faithful`). Reviews, scheduled deletions and purges interleave as they like in both.
* `SharedVariables_proofs`. With `Paths = {}` (neither rollback nor sharing, the two
  writers that skip the check): `TypeCorrect` (for every `Paths`),
  `ClashesOnlyAcross`, and with `MaxGroups = 1` also `UniqueWithOneGroup`
  (at most one answer). The invariant is stated on pairs of rows: the rows of one
  container are disjoint, a project's rows are disjoint from those of each
  workspace that reach it, and links need a workspace that was created
  (`OwnDisjoint`, `EdgeDisjoint`, `LinksNeedGroup`). That each write only
  re-checks one edge of this graph is why the invariant stops where it does, at
  two workspaces of one project. For the path of sharing, with any
  number of shares in flight and everything else in between: `AdoptionKeepsPulls`
  (`StandingVerdictKeepsPulls`). Its invariant is only what a share in flight knows for good
  (`ShareShape`: which rows and projects were picked); that the verdict still holds is the
  property's own condition, and what has to be shown is that the rows the adoption moves and
  trashes then leave each pull with the answer it had, or with two. Assuming
  `Serial = TRUE`, `QuietShareIsSafe` (`QuietShareKeepsPulls`) shows that every verdict
  stands at the adoption (`QuietVerdictStands`: the survivor and its copies are live,
  equal, in the projects that were picked, and those are linked), and
  `AdoptionSparesOthers` that only copies are trashed (`AdoptionTrashesCopies`); TLC
  refutes both without it (section 4). Uniqueness does not extend to this path: an
  adoption may bring a row where another of the key is.
* `PurgeSweep_proofs`. `TypesHold` (`TypeOK`: tables and batches keep their kinds, no
  purged document is listed), `RestorableWhole` (`RestorableIsWhole`), `BlobGoesFirst`
  (`CiphertextKeepsKey`), `RowGoesLast` (`RowsGoLast`), `ChainStopsWhenDone`
  (`StopsWhenDone`). The invariant says that no document is in a table twice, that a
  batch holds documents past their window only, each once (`TodoOverdue`), and that what is
  neither overdue nor purged has all its parts (`KeepsParts`): a window does not open
  again, so a restore between two steps cannot matter. For the order of the deletes it
  says what has been destroyed when a visit has reached a document's key
  (`KeyOnlyWithoutBlob`), or its row (`RowOnlyWhenGone`). What a batch has not listed, it
  has not listed because the kind was full (`AllTaken`), from which `StopsWhenDone` follows.
* `WebhookDelivery_proofs`. `TypeCorrect`, `LiveCredentialKept` (`LiveHasCredential`),
  `ObjectsNamed` (`NothingForgotten`), `OneSenderAtATime` (`OneSender`), `OnlyLateAreOvertaken`
  (`NotOvertakenInTime`), `ThrottleRespected` (`RespectsThrottle`). `CredentialInv` says what the
  place of create and of each purging run implies about object, pointer and claim
  (`CreatorSound`, `RunsSound`); it is proved for the steps of `WebhookCredential` only and
  carried over, since every step of the composition is one of those or leaves their
  variables alone (`LaneSparesCredential`: the composition implements its component). `LaneInv` is about the lane: a claim in its time has the row's
  token and the row's lease is its own (`LaneHeld`, from which `OneSender` follows
  with the bound on a request's length in `Sound`), and a pause the row does not show is
  in the hands of the delivery that has to report it, or lost with it (`PauseKnown`).
* `ProjectDeletion_proofs`. `TypeCorrect`, `ChainNeverBreaks` (`WorkPending`),
  `StagesStayEmpty` (`StagesEmptied`), `OneBatch` (`OneBatchAtATime`), `NothingIsLeft`
  (`LeavesNothing`), and the refinement `ImplementsErasure` (`KeepsPromise`: initial states
  map to initial states, every step to a step of `ProjectErasure` or a stutter). The
  invariant adds that a batch at work owns the lease unless it is excused (`Alone`), that a
  watchdog or a report is due for every batch the chain waits for (`Pending`), that rows of a
  stage behind or of a page taken are gone or unguarded (`SeenGone`, `StagesEmptied`) and
  that each stored object belongs to a row that is kept (`ObjectsOwned`).
* `SecretShares_proofs`. `TypeCorrect`, `OneTimeIsOnce` (`ShownOncePerOpening`),
  `BurningHasAReason` (`BurnedForAReason`), and, assuming `~ AnswersLost`, `OpenCanBeRead`
  (`ActiveIsReadable`). `ShownOncePerOpening` is not inductive: it needs that what was
  shown, the reveals that hold the share, and the share being open together never exceed
  one and the un-burnings from outside (`Credit`). Burning moves one from the open share to
  its reveal, showing moves it from the reveal to the count, un-burning moves it
  back or is paid for by a call from outside. Until there is such a call a share that was
  read is shut and nobody else has it (`FetchedShut`, which `Credit` makes inductive: the
  reader is the only holder), and a share that is active or burned has its ciphertext or was
  read (`Readable`); together they give `ActiveIsReadable`.
  `ImplementsLink` (`KeepsLink`), also assuming `~ AnswersLost`, is the refinement of
  `OneTimeLink`. `VerifyOtp` maps to `Take`, `ReadSecret` to `Read`, `Unburn` to
  `GiveBack`, `RestoreBurnedShare` to `Recall`, `Return` to `Show`, a crash or a failed
  un-burning to `Lose`, revocation, expiry and the deletion of the resource to `Close`, a
  deleted ciphertext to `Erase`, what concerns codes, payloads without a row and
  time-limited shares to stutters (`LinkMove`). With lost answers it is false: a share may
  be burned with nobody to read it, or be open when its creator deletes the payload.
* `PolarWebhooks_proofs`. `TypeCorrect`, `RevokedLoseTier` (`NobodyStaysPaid`),
  `ActivationsGrant` (`ActivationGrantsTier`), and, assuming `~ AnswersLost`, `GraceIsHonoured`
  (`GraceHonoured`). The claim makes executions and events one to one
  (`WorkSound`); an execution that overlaps with none finds the row as it left it
  (`RowsSound`), so that a step that sets a paid tier or clears a grace period has an
  active row beside it; and a revocation at its end has left the default tier or a grace
  period (`EndsSound`), which is what `NobodyStaysPaid` has to know when the event is completed.

Every invariant and every safety property of an action in the passing runs is stated by
one of these theorems. The properties of the two runs that expect a violation are
false. Model-checked only: liveness under fairness (`Drains`, `Finishes`, `SharesEnd`,
`Reclaimed`, `PaidTierEnds` and both `EventsSettle`), which is out of the
prover's reach. The other modules' type invariants are proved and no longer among the runs.

## 6. Not modelled

* In `VariableVault`: tags, rotation fields, notifications, batch reads; the vault's
  error decoding. A vault read never changes state and is left out.
* In `AccountCredentials`: `emptyProjectTrash` on accounts, permission grants, share
  links. The fault "noVersion" (an answer without a version id, which leaves a
  rollback unguarded) is in the module but not in `account_overlap`: with it
  `RollbackOnlyOwn` is not promised by the code either (`vault.ts:118`).
* In `SharedVariables`: `mergeMany` (several keys at once), moves of rows out of
  a member project that is itself being deleted, the switch that disables sharing.
* In `PurgeSweep`: several objects of one document (in `VariableVault`);
  what deleting an absent blob reports is the constant `MissingBlobDeletes`.
* In `WebhookDelivery`: which events a webhook subscribes to, the messages, the checks of a URL.
* In `ProjectDeletion`: which tables the stages of a kind are; see `Unguarded` above.
* In `SecretShares`: rights, rate limits, passphrases, view counts.
* In `PolarWebhooks`: `checkout.updated` and `order.paid`, which touch neither tier nor
  status; events without a product; `admin`'s changes of a tier; products that lose their
  mapping; the rows an organization's deletion removes; the flag that pauses the cron;
  `cleanupProcessedWebhooks`, which drops claims long after Polar has given up.
* Authorization, the feature registry, reports, the clients: see the notes in
  `PROJECT.json`.

## 7. Plan

1. `ChangeRequests`: filing, override, review by a second person, cancellation,
   expiry, protected environments, for variables and files. Abstract
   specification: a request is decided at most once, by someone other than its
   author, and its effect is the one that was proposed. Runs: two reviewers, two
   requests on one target; the target changed between filing and review.
2. `SecretFiles`: upload, replace and proposal with blob and key, `emptyProjectTrash` on
   files; composed with `PurgeSweep`'s order. Theorem: a live file can be decrypted.
3. `Membership`: invitations, ownership transfer, suspension, expiring grants.
4. Variable requests, rotation and bulk jobs: a reviewer's value minted before the verdict
   commits; reminders sent once; progress that reaches its end.
5. `PolarWebhooks` for several customers of one organization, with `checkout.updated` and the
   admin's tier changes.
6. Proofs: an abstract account (its credentials change only by acknowledged edits and
   approvals) implemented by `AccountCredentials` where no swap happens; uniqueness for
   `Paths` with sharing, under the condition that the survivor's other projects have no
   row of the key.
