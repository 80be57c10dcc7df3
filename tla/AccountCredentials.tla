------------------------- MODULE AccountCredentials -------------------------
(***************************************************************************)
(* The credentials of shared accounts.  A direct edit rewrites the vault   *)
(* object of the account IN PLACE and then runs the mutation, rolling the  *)
(* object back when the mutation is refused; a proposal seals the new      *)
(* credentials into an object of its own, and approving it swaps the       *)
(* pointer and schedules the old object's deletion.  The two paths meet in *)
(* the row: its vaultRef and its version.                                  *)
(*                                                                         *)
(* A value is the call that wrote it.                                      *)
(***************************************************************************)
EXTENDS Naturals, FiniteSets

CONSTANTS
  Account,     \* identities of projectAccounts rows; never reused
  Ref,         \* identities of vault objects; never reused
  Call,        \* executions of createWithCredentials, updateWithCredentials
  Request,     \* identities of changeRequests rows on accounts
  Faults,      \* what may go wrong outside the backend: a subset of Fault
  Serial,      \* TRUE when no two calls overlap
  MaxVersion,  \* bound: metadata edits stop at this version of a row
  NoAccount, NoRef, NoValue

\* The action stops; the answer of a vault update is lost; a vault request
\* fails; the vault's answer carries no version id.
Fault == {"crash", "lostAnswer", "vaultDown", "noVersion"}

ASSUME AccountConstants ==
  /\ Faults \subseteq Fault
  /\ Serial \in BOOLEAN
  /\ MaxVersion \in Nat
  /\ NoAccount \notin Account
  /\ NoRef \notin Ref
  /\ NoValue \notin Call

VARIABLES
  status,     \* what the row of an account is; "expired": trashed for longer
              \* than the restore window
  vaultRef,   \* its vaultRef
  version,    \* its version counter
  value,      \* what a vault object holds
  revision,   \* how often it was written; 0 before it exists
  doomed,     \* objects a scheduled deleteSecret is going to delete
  call,       \* the calls
  request,    \* the change requests
  committed   \* history: whose credentials the row was last told it has

vars == <<status, vaultRef, version, value, revision, doomed, call, request,
          committed>>
rowVars == <<status, vaultRef, version, committed>>
vaultVars == <<value, revision, doomed>>

Operation == {"create", "edit", "proposeCreate", "proposeEdit"}

\* ref: the object the call reads and rewrites, or the one it minted.
\* previous: previousVaultValue; wrote: updatedVersionId, 0 for undefined.
CallState == [pc : {"idle", "fetched", "read", "written", "minted",
                    "refused", "ok", "failed"},
              op : Operation,
              account : Account \cup {NoAccount},
              ref : Ref \cup {NoRef},
              previous : Call \cup {NoValue},
              wrote : Nat]

\* saw: history, the credentials the account had when the request was filed.
RequestState == [status : {"none", "pending", "applied", "closed"},
                 kind : {"create", "update", "delete", "restore"},
                 target : Account \cup {NoAccount},
                 ref : Ref \cup {NoRef},
                 expected : Nat,
                 saw : Call \cup {NoValue}]

IdleCall == [pc |-> "idle", op |-> "create", account |-> NoAccount,
             ref |-> NoRef, previous |-> NoValue, wrote |-> 0]
Started(pc, op, a, r) ==
  [pc |-> pc, op |-> op, account |-> a, ref |-> r, previous |-> NoValue, wrote |-> 0]
Now(k, pc) == [k EXCEPT !.pc = pc]
HasRead(k, v) == [k EXCEPT !.pc = "read", !.previous = v]
HasWritten(k, n) == [k EXCEPT !.pc = "written", !.wrote = n]

NoRequest == [status |-> "none", kind |-> "create", target |-> NoAccount,
              ref |-> NoRef, expected |-> 0, saw |-> NoValue]
Filed(kind, a, r) ==
  [status |-> "pending", kind |-> kind, target |-> a, ref |-> r,
   expected |-> IF a = NoAccount THEN 0 ELSE version[a],
   saw |-> IF a = NoAccount THEN NoValue ELSE committed[a]]

InFlight(c) == call[c].pc \notin {"idle", "ok", "failed"}
MayStart(c) == call[c].pc = "idle" /\ (Serial => \A d \in Call : ~ InFlight(d))
Exists(a) == status[a] \in {"live", "trashed", "expired"}
Pending(q) == request[q].status = "pending"
PendingOn(a) == {q \in Request : Pending(q) /\ request[q].target = a}

TypeOK ==
  /\ status \in [Account -> {"unborn", "live", "trashed", "expired", "purged"}]
  /\ vaultRef \in [Account -> Ref \cup {NoRef}]
  /\ version \in [Account -> Nat]
  /\ value \in [Ref -> Call \cup {NoValue}]
  /\ revision \in [Ref -> Nat]
  /\ doomed \subseteq Ref
  /\ call \in [Call -> CallState]
  /\ request \in [Request -> RequestState]
  /\ committed \in [Account -> Call \cup {NoValue}]

Init ==
  /\ status = [a \in Account |-> "unborn"]
  /\ vaultRef = [a \in Account |-> NoRef]
  /\ version = [a \in Account |-> 0]
  /\ value = [r \in Ref |-> NoValue]
  /\ revision = [r \in Ref |-> 0]
  /\ doomed = {}
  /\ call = [c \in Call |-> IdleCall]
  /\ request = [q \in Request |-> NoRequest]
  /\ committed = [a \in Account |-> NoValue]

SetCall(c, k) == call' = [call EXCEPT ![c] = k]

(***************************************************************************)
(* The vault, as the calls use it.                                         *)
(***************************************************************************)

\* createSecret: a new object; a name is never used twice.
Mint(c, r) ==
  /\ revision[r] = 0
  /\ value' = [value EXCEPT ![r] = c]
  /\ revision' = [revision EXCEPT ![r] = 1]
  /\ UNCHANGED doomed

\* updateSecret: the same object, a new version of it.
Put(r, v) ==
  /\ value' = [value EXCEPT ![r] = v]
  /\ revision' = [revision EXCEPT ![r] = @ + 1]
  /\ UNCHANGED doomed

(***************************************************************************)
(* createAccountAs: mint, then either createStaged or _createFor.          *)
(***************************************************************************)
BeginCreate(c, op, r) ==
  /\ MayStart(c)
  /\ op \in {"create", "proposeCreate"}
  /\ Mint(c, r)
  /\ SetCall(c, Started("minted", op, NoAccount, r))
  /\ UNCHANGED <<rowVars, request>>

\* createCore inserts the row at version 1.
Insert(a, r, owner) ==
  /\ status[a] = "unborn"
  /\ status' = [status EXCEPT ![a] = "live"]
  /\ vaultRef' = [vaultRef EXCEPT ![a] = r]
  /\ version' = [version EXCEPT ![a] = 1]
  /\ committed' = [committed EXCEPT ![a] = owner]

CommitCreate(c, a) ==
  /\ call[c].pc = "minted"
  /\ call[c].op = "create"
  /\ Insert(a, call[c].ref, c)
  /\ SetCall(c, Now(call[c], "ok"))
  /\ UNCHANGED <<vaultVars, request>>

(***************************************************************************)
(* updateWithCredentials on an unprotected account, or with break-glass.   *)
(***************************************************************************)

\* accounts.get: a live account the caller may write, and its vaultRef.
BeginEdit(c, a) ==
  /\ MayStart(c)
  /\ status[a] = "live"
  /\ SetCall(c, Started("fetched", "edit", a, vaultRef[a]))
  /\ UNCHANGED <<rowVars, vaultVars, request>>

\* readSecret: the value to roll back to.
ReadPrevious(c) ==
  /\ call[c].pc = "fetched"
  /\ call[c].op = "edit"
  /\ value[call[c].ref] # NoValue
  /\ SetCall(c, HasRead(call[c], value[call[c].ref]))
  /\ UNCHANGED <<rowVars, vaultVars, request>>

\* updateSecret, with the version id of the answer if it carries one.
WriteInPlace(c) ==
  /\ call[c].pc = "read"
  /\ value[call[c].ref] # NoValue
  /\ Put(call[c].ref, c)
  /\ \E n \in {revision'[call[c].ref]} \cup (IF "noVersion" \in Faults THEN {0} ELSE {}) :
       SetCall(c, HasWritten(call[c], n))
  /\ UNCHANGED <<rowVars, request>>

\* The object was written but neither the answer nor the three reads after
\* it came through: the error leaves the action before its try block.
WriteLost(c) ==
  /\ "lostAnswer" \in Faults
  /\ call[c].pc = "read"
  /\ value[call[c].ref] # NoValue
  /\ Put(call[c].ref, c)
  /\ SetCall(c, Now(call[c], "failed"))
  /\ UNCHANGED <<rowVars, request>>

\* readSecret or updateSecret throws and nothing was written: the object is
\* gone, or the vault is down.
VaultThrows(c) ==
  /\ call[c].pc \in {"fetched", "read"}
  /\ call[c].op = "edit"
  /\ value[call[c].ref] = NoValue \/ "vaultDown" \in Faults
  /\ SetCall(c, Now(call[c], "failed"))
  /\ UNCHANGED <<rowVars, vaultVars, request>>

\* A write of credentials as the row records it: updateCore.
Bump(a, owner) ==
  /\ version' = [version EXCEPT ![a] = @ + 1]
  /\ committed' = [committed EXCEPT ![a] = owner]

CommitEdit(c) ==
  /\ call[c].pc = "written"
  /\ status[call[c].account] = "live"
  /\ Bump(call[c].account, c)
  /\ SetCall(c, Now(call[c], "ok"))
  /\ UNCHANGED <<status, vaultRef, vaultVars, request>>

\* The mutation is refused: the account is gone, the caller lost access, an
\* environment became protected or leaves the scope, the website is invalid,
\* a limit is reached, another request stands.
MutationThrows(c) ==
  /\ call[c].pc \in {"written", "minted"}
  /\ SetCall(c, Now(call[c], "refused"))
  /\ UNCHANGED <<rowVars, vaultVars, request>>

\* What a vault that ignores the expected version would accept.
VersionIgnored(c) == call[c].wrote \in Nat

\* The vault accepts a rollback of the version this call wrote, or an
\* unguarded one.
VersionMatches(c) == call[c].wrote \in {0, revision[call[c].ref]}

\* The compensating updateSecret; whatever becomes of it, the call failed.
Rollback(c) ==
  /\ call[c].pc = "refused"
  /\ call[c].op = "edit"
  /\ \/ /\ value[call[c].ref] # NoValue
        /\ VersionMatches(c)
        /\ Put(call[c].ref, call[c].previous)
     \/ /\ \/ value[call[c].ref] = NoValue
           \/ ~ VersionMatches(c)
           \/ "vaultDown" \in Faults
        /\ UNCHANGED vaultVars
  /\ SetCall(c, Now(call[c], "failed"))
  /\ UNCHANGED <<rowVars, request>>

\* deleteSecret of the object a refused create or proposal minted; it is
\* best effort.
CleanUp(c) ==
  /\ call[c].pc = "refused"
  /\ call[c].op # "edit"
  /\ \/ value' = [value EXCEPT ![call[c].ref] = NoValue]
     \/ "vaultDown" \in Faults /\ UNCHANGED value
  /\ SetCall(c, Now(call[c], "failed"))
  /\ UNCHANGED <<rowVars, revision, doomed, request>>

CallCrashes(c) ==
  /\ "crash" \in Faults
  /\ InFlight(c)
  /\ SetCall(c, Now(call[c], "failed"))
  /\ UNCHANGED <<rowVars, vaultVars, request>>

(***************************************************************************)
(* Proposals.                                                              *)
(***************************************************************************)

\* updateWithCredentials on a protected account: fetch it, seal the new
\* credentials into an object of their own.
BeginProposal(c, a) ==
  /\ MayStart(c)
  /\ status[a] = "live"
  /\ SetCall(c, Started("fetched", "proposeEdit", a, NoRef))
  /\ UNCHANGED <<rowVars, vaultVars, request>>

MintProposed(c, r) ==
  /\ call[c].pc = "fetched"
  /\ call[c].op = "proposeEdit"
  /\ Mint(c, r)
  /\ SetCall(c, Started("minted", "proposeEdit", call[c].account, r))
  /\ UNCHANGED <<rowVars, request>>

ProposedKind(c) == IF call[c].op = "proposeCreate" THEN "create" ELSE "update"
Standing(kind, a) == {q \in PendingOn(a) : request[q].kind = kind}

\* createStaged.  requireAccountAccess does not look at deletedAt: the row
\* only has to exist.
FileProposal(c, q) ==
  /\ call[c].pc = "minted"
  /\ call[c].op \in {"proposeCreate", "proposeEdit"}
  /\ request[q].status = "none"
  /\ call[c].op = "proposeEdit" =>
       Exists(call[c].account) /\ Standing("update", call[c].account) = {}
  /\ request' = [request EXCEPT ![q] = Filed(ProposedKind(c), call[c].account, call[c].ref)]
  /\ SetCall(c, Now(call[c], "ok"))
  /\ UNCHANGED <<rowVars, vaultVars>>

\* The requester's own request already stands: it wins, and the object this
\* call staged is destroyed.
FileDuplicate(c) ==
  /\ call[c].pc = "minted"
  /\ call[c].op \in {"proposeCreate", "proposeEdit"}
  /\ Standing(ProposedKind(c), call[c].account) # {}
  /\ doomed' = doomed \cup {call[c].ref}
  /\ SetCall(c, Now(call[c], "ok"))
  /\ UNCHANGED <<rowVars, value, revision, request>>

\* changeRequests.create: a proposal without credentials of its own.
FilePlain(q, kind, a) ==
  /\ request[q].status = "none"
  /\ kind \in {"update", "delete", "restore"}
  /\ Exists(a)
  /\ Standing(kind, a) = {}
  /\ request' = [request EXCEPT ![q] = Filed(kind, a, NoRef)]
  /\ UNCHANGED <<rowVars, vaultVars, call>>

RefsOf(Q) == {request[q].ref : q \in Q} \ {NoRef}
LeftStanding(q, how) == IF how = "applied" THEN request[q] ELSE [request[q] EXCEPT !.status = how]
Settled(q, how) == [request[q] EXCEPT !.status = how]

\* What becomes of each request when some are applied and some given up.
Outcome(q, applied, closed) ==
  IF q \in applied THEN Settled(q, "applied")
  ELSE IF q \in closed THEN Settled(q, "closed") ELSE request[q]
Settle(applied, closed) == request' = [q \in Request |-> Outcome(q, applied, closed)]

\* An approval that checks only that the row exists.
UnmovedUnchecked(q) == request[q].target # NoAccount => Exists(request[q].target)

\* The stale check of review.
Unmoved(q) == request[q].target # NoAccount =>
                /\ Exists(request[q].target)
                /\ version[request[q].target] = request[q].expected

ApproveCreate(q, a) ==
  /\ Pending(q)
  /\ request[q].kind = "create"
  /\ Insert(a, request[q].ref, value[request[q].ref])
  /\ Settle({q}, {})
  /\ UNCHANGED <<vaultVars, call>>

\* An approval that schedules the wrong object for deletion.
StrandedStaged(q) == {request[q].ref}

\* updateCore with a staged object: the row's old object is stranded, so its
\* deletion is scheduled.
Stranded(q) == {vaultRef[request[q].target]}

ApproveUpdate(q) ==
  /\ Pending(q)
  /\ request[q].kind = "update"
  /\ Unmoved(q)
  /\ LET a == request[q].target
         r == request[q].ref
     IN  /\ status[a] = "live"
         /\ \/ /\ r = NoRef
               /\ Bump(a, committed[a])
               /\ UNCHANGED <<vaultRef, doomed>>
            \/ /\ r # NoRef
               /\ Bump(a, value[r])
               /\ vaultRef' = [vaultRef EXCEPT ![a] = r]
               /\ doomed' = doomed \cup Stranded(q)
  /\ Settle({q}, {})
  /\ UNCHANGED <<status, value, revision, call>>

\* removeCore: cancels every pending proposal aimed at the account, except
\* the one being applied; an account already in the trash is left alone.
ApproveDelete(q) ==
  /\ Pending(q)
  /\ request[q].kind = "delete"
  /\ Unmoved(q)
  /\ LET a == request[q].target
         others == IF status[a] = "live" THEN PendingOn(a) \ {q} ELSE {}
     IN  /\ status' = [status EXCEPT ![a] = IF @ = "live" THEN "trashed" ELSE @]
         /\ doomed' = doomed \cup RefsOf(others)
         /\ Settle({q}, others)
  /\ UNCHANGED <<vaultRef, version, committed, value, revision, call>>

ApproveRestore(q) ==
  /\ Pending(q)
  /\ request[q].kind = "restore"
  /\ Unmoved(q)
  /\ status[request[q].target] = "trashed"
  /\ status' = [status EXCEPT ![request[q].target] = "live"]
  /\ Settle({q}, {})
  /\ UNCHANGED <<vaultRef, version, committed, vaultVars, call>>

\* review (reject), cancel, expireStale: the staged object is destroyed.
Close(q) ==
  /\ Pending(q)
  /\ doomed' = doomed \cup RefsOf({q})
  /\ Settle({}, {q})
  /\ UNCHANGED <<rowVars, value, revision, call>>

(***************************************************************************)
(* Direct writes of the row, the scheduler and the purge cron.             *)
(***************************************************************************)
EditMetadata(a) ==
  /\ status[a] = "live"
  /\ version[a] < MaxVersion
  /\ Bump(a, committed[a])
  /\ UNCHANGED <<status, vaultRef, vaultVars, call, request>>

Remove(a) ==
  /\ status[a] = "live"
  /\ status' = [status EXCEPT ![a] = "trashed"]
  /\ doomed' = doomed \cup RefsOf(PendingOn(a))
  /\ Settle({}, PendingOn(a))
  /\ UNCHANGED <<vaultRef, version, committed, value, revision, call>>

Restore(a) ==
  /\ status[a] = "trashed"
  /\ status' = [status EXCEPT ![a] = "live"]
  /\ UNCHANGED <<vaultRef, version, committed, vaultVars, call, request>>

\* PURGE_RETENTION_DAYS pass.
Expire(a) ==
  /\ status[a] = "trashed"
  /\ status' = [status EXCEPT ![a] = "expired"]
  /\ UNCHANGED <<vaultRef, version, committed, vaultVars, call, request>>

\* A scheduled deleteSecret runs once; it may fail.
RunDelete(r) ==
  /\ r \in doomed
  /\ doomed' = doomed \ {r}
  /\ \/ value' = [value EXCEPT ![r] = NoValue]
     \/ "vaultDown" \in Faults /\ UNCHANGED value
  /\ UNCHANGED <<rowVars, revision, call, request>>

\* purgeExpiredBatch on an account: the object, then hardDeleteAccount.
PurgeObject(a) ==
  /\ status[a] = "expired"
  /\ value[vaultRef[a]] # NoValue
  /\ value' = [value EXCEPT ![vaultRef[a]] = NoValue]
  /\ UNCHANGED <<rowVars, revision, doomed, call, request>>

PurgeRow(a) ==
  /\ status[a] = "expired"
  /\ value[vaultRef[a]] = NoValue
  /\ status' = [status EXCEPT ![a] = "purged"]
  /\ UNCHANGED <<vaultRef, version, committed, vaultVars, call, request>>

CallStep(c) ==
  \/ \E op \in Operation, r \in Ref : BeginCreate(c, op, r)
  \/ \E a \in Account : CommitCreate(c, a)
  \/ \E a \in Account : BeginEdit(c, a)
  \/ ReadPrevious(c)
  \/ WriteInPlace(c)
  \/ WriteLost(c)
  \/ VaultThrows(c)
  \/ CommitEdit(c)
  \/ MutationThrows(c)
  \/ Rollback(c)
  \/ CleanUp(c)
  \/ CallCrashes(c)
  \/ \E a \in Account : BeginProposal(c, a)
  \/ \E r \in Ref : MintProposed(c, r)
  \/ \E q \in Request : FileProposal(c, q)
  \/ FileDuplicate(c)

RequestStep(q) ==
  \/ \E kind \in {"update", "delete", "restore"}, a \in Account : FilePlain(q, kind, a)
  \/ \E a \in Account : ApproveCreate(q, a)
  \/ ApproveUpdate(q)
  \/ ApproveDelete(q)
  \/ ApproveRestore(q)
  \/ Close(q)

RowStep(a) ==
  \/ EditMetadata(a)
  \/ Remove(a)
  \/ Restore(a)
  \/ Expire(a)
  \/ PurgeObject(a)
  \/ PurgeRow(a)

Next ==
  \/ \E c \in Call : CallStep(c)
  \/ \E q \in Request : RequestStep(q)
  \/ \E a \in Account : RowStep(a)
  \/ \E r \in Ref : RunDelete(r)

Spec == Init /\ [][Next]_vars

(***************************************************************************)
(* Properties.                                                             *)
(***************************************************************************)

\* An account that is live, or that can still be restored, has credentials:
\* its object exists and no scheduled deletion is about to take it, whatever
\* edits, proposals, cancellations and failures overlap (accounts/values.ts,
\* changeRequests/mutations.ts).
CredentialsPresent ==
  \A a \in Account : status[a] \in {"live", "trashed"} =>
    value[vaultRef[a]] # NoValue /\ vaultRef[a] \notin doomed

\* A pending proposal can still be applied: the credentials it staged exist,
\* are its author's own, are not about to be deleted, and belong to no
\* account ("a pending request must never rewrite the live one").
ProposalsKeepSecrets ==
  \A q \in Request : Pending(q) /\ request[q].ref # NoRef =>
    /\ value[request[q].ref] # NoValue
    /\ request[q].ref \notin doomed
    /\ \A a \in Account : vaultRef[a] # request[q].ref
    /\ \A p \in Request \ {q} : request[p].ref # request[q].ref

\* Approving a proposal never discards credentials that were acknowledged
\* after it was filed: every such edit moved the version the proposal is
\* checked against ("the resource must not have moved under the proposal").
StaleProposalsRefused ==
  [][\A q \in Request :
       /\ Pending(q)
       /\ request'[q].status = "applied"
       /\ request[q].target # NoAccount
       => request[q].saw = committed[request[q].target]]_vars

\* A rollback undoes the write of its own call and nobody else's ("the
\* rollback is rejected rather than clobbering that newer value").
RollbackOnlyOwn ==
  [][\A c \in Call :
       /\ call[c].pc = "refused"
       /\ call[c].op = "edit"
       /\ call'[c].pc = "failed"
       /\ value'[call[c].ref] # value[call[c].ref]
       => value[call[c].ref] = c]_vars

\* When nothing is in flight, no account holds credentials of a request that
\* failed ("Vault and Convex stay consistent with the HTTP result").
NothingFailedIsLive ==
  (\A c \in Call : ~ InFlight(c)) =>
    \A a \in Account : status[a] = "live" =>
      call[value[vaultRef[a]]].pc # "failed"

\* When nothing is in flight, an account holds the credentials of the last
\* request that was answered with success (the same sentence).
AcknowledgedIsLive ==
  (\A c \in Call : ~ InFlight(c)) =>
    \A a \in Account : status[a] = "live" => value[vaultRef[a]] = committed[a]
=============================================================================
