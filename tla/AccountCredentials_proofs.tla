--------------------- MODULE AccountCredentials_proofs ---------------------
(***************************************************************************)
(* What holds of the credentials of accounts for any number of accounts,   *)
(* objects, calls and change requests, overlapping in any order and        *)
(* failing in any way Fault names.                                         *)
(***************************************************************************)
EXTENDS AccountCredentials, TLAPS

(***************************************************************************)
(* The inductive invariant, in parts.  An object has one owner: an         *)
(* account's row, a change request, or a call that minted it and has       *)
(* neither stored nor given it up.                                         *)
(***************************************************************************)
Editing(c) ==
  call[c].op = "edit" /\ call[c].pc \in {"fetched", "read", "written", "refused"}
Staging(c) ==
  call[c].op # "edit" /\ call[c].pc \in {"minted", "refused"}

\* What a call knows at each point of its program.
CallsSound ==
  \A c \in Call :
    /\ call[c].pc \in {"read", "written"} => call[c].op = "edit"
    /\ call[c].pc = "minted" => call[c].op # "edit"
    /\ Editing(c) => call[c].account \in Account /\ call[c].ref \in Ref
    /\ Editing(c) /\ call[c].pc # "fetched" => call[c].previous # NoValue
    /\ call[c].op = "proposeEdit" /\ call[c].pc \in {"fetched", "minted"} =>
         call[c].account \in Account
    /\ Staging(c) => call[c].ref \in Ref /\ revision[call[c].ref] > 0

\* A row that exists points at an object; no two rows at the same one.
RowsSound ==
  /\ \A a \in Account : status[a] = "unborn" => vaultRef[a] = NoRef
  /\ \A a \in Account : status[a] # "unborn" =>
       vaultRef[a] \in Ref /\ revision[vaultRef[a]] > 0
  /\ \A a, b \in Account : vaultRef[a] = vaultRef[b] /\ vaultRef[a] # NoRef => a = b

\* A request names its target, unless it creates one, and carries
\* credentials if it does; no two requests carry the same ones.
RequestsSound ==
  /\ \A q \in Request : request[q].ref # NoRef => revision[request[q].ref] > 0
  /\ \A q \in Request : Pending(q) /\ request[q].kind = "create" => request[q].ref # NoRef
  /\ \A q \in Request : Pending(q) /\ request[q].kind # "create" =>
       request[q].target \in Account

\* An object a call has just minted is nobody else's.
StagedOwn ==
  \A c \in Call : Staging(c) =>
    /\ \A a \in Account : vaultRef[a] # call[c].ref
    /\ \A q \in Request : request[q].ref # call[c].ref
    /\ \A d \in Call : Staging(d) /\ d # c => call[d].ref # call[c].ref

\* It is there until the call is refused.
StagedPresent ==
  \A c \in Call : call[c].pc = "minted" =>
    value[call[c].ref] # NoValue /\ call[c].ref \notin doomed

DoomedMinted == \A r \in doomed : revision[r] > 0

IInv ==
  /\ TypeOK
  /\ CallsSound
  /\ RowsSound
  /\ RequestsSound
  /\ StagedOwn
  /\ StagedPresent
  /\ DoomedMinted
  /\ CredentialsPresent
  /\ ProposalsKeepSecrets

(***************************************************************************)
(* The fields of the records the actions build.                            *)
(***************************************************************************)
PC == {"idle", "fetched", "read", "written", "minted", "refused", "ok", "failed"}

LEMMA NowFields ==
  ASSUME NEW k \in CallState, NEW pc \in PC
  PROVE /\ Now(k, pc) \in CallState
        /\ Now(k, pc).pc = pc /\ Now(k, pc).op = k.op
        /\ Now(k, pc).account = k.account /\ Now(k, pc).ref = k.ref
        /\ Now(k, pc).previous = k.previous
BY DEF Now, CallState, PC

LEMMA ReadFields ==
  ASSUME NEW k \in CallState, NEW v \in Call
  PROVE /\ HasRead(k, v) \in CallState
        /\ HasRead(k, v).pc = "read" /\ HasRead(k, v).op = k.op
        /\ HasRead(k, v).account = k.account /\ HasRead(k, v).ref = k.ref
        /\ HasRead(k, v).previous = v
BY DEF HasRead, CallState

LEMMA WrittenFields ==
  ASSUME NEW k \in CallState, NEW n \in Nat
  PROVE /\ HasWritten(k, n) \in CallState
        /\ HasWritten(k, n).pc = "written" /\ HasWritten(k, n).op = k.op
        /\ HasWritten(k, n).account = k.account /\ HasWritten(k, n).ref = k.ref
        /\ HasWritten(k, n).previous = k.previous
BY DEF HasWritten, CallState

LEMMA StartedFields ==
  ASSUME NEW pc \in PC, NEW op \in Operation,
         NEW a \in Account \cup {NoAccount}, NEW r \in Ref \cup {NoRef}
  PROVE /\ Started(pc, op, a, r) \in CallState
        /\ Started(pc, op, a, r).pc = pc /\ Started(pc, op, a, r).op = op
        /\ Started(pc, op, a, r).account = a /\ Started(pc, op, a, r).ref = r
BY DEF Started, CallState, PC

LEMMA FiledFields ==
  ASSUME TypeOK, NEW kind \in {"create", "update", "delete", "restore"},
         NEW a \in Account \cup {NoAccount}, NEW r \in Ref \cup {NoRef}
  PROVE /\ Filed(kind, a, r) \in RequestState
        /\ Filed(kind, a, r).status = "pending" /\ Filed(kind, a, r).kind = kind
        /\ Filed(kind, a, r).target = a /\ Filed(kind, a, r).ref = r
BY DEF Filed, RequestState, TypeOK

LEMMA SettledFields ==
  ASSUME TypeOK, NEW q \in Request, NEW how \in {"applied", "closed"}
  PROVE /\ Settled(q, how) \in RequestState
        /\ Settled(q, how).status = how
        /\ Settled(q, how).kind = request[q].kind
        /\ Settled(q, how).target = request[q].target
        /\ Settled(q, how).ref = request[q].ref
BY DEF Settled, RequestState, TypeOK

\* What Settle changes: the status of the requests it names.
LEMMA SettleEffect ==
  ASSUME TypeOK, NEW A \in SUBSET Request, NEW C \in SUBSET Request, Settle(A, C)
  PROVE /\ request' \in [Request -> RequestState]
        /\ \A q \in Request :
             /\ request'[q].kind = request[q].kind
             /\ request'[q].target = request[q].target
             /\ request'[q].ref = request[q].ref
             /\ request'[q].status = "pending" <=>
                  request[q].status = "pending" /\ q \notin A /\ q \notin C
<1>1. \A q \in Request : request[q] \in RequestState
  BY DEF TypeOK
<1>0. \A q \in Request : request'[q] = Outcome(q, A, C)
  BY DEF Settle
<1>2. \A q \in Request :
        /\ q \in A => request'[q] = Settled(q, "applied")
        /\ q \notin A /\ q \in C => request'[q] = Settled(q, "closed")
        /\ q \notin A /\ q \notin C => request'[q] = request[q]
  BY <1>0 DEF Outcome
<1>3. ASSUME NEW q \in Request
      PROVE /\ request'[q] \in RequestState
            /\ request'[q].kind = request[q].kind
            /\ request'[q].target = request[q].target
            /\ request'[q].ref = request[q].ref
            /\ request'[q].status = "pending" <=>
                 request[q].status = "pending" /\ q \notin A /\ q \notin C
  <2>1. CASE q \in A
    BY <2>1, <1>2, SettledFields
  <2>2. CASE q \notin A /\ q \in C
    BY <2>2, <1>2, SettledFields
  <2>3. CASE q \notin A /\ q \notin C
    BY <2>3, <1>2, <1>1
  <2> QED BY <2>1, <2>2, <2>3
<1>4. \A q \in Request : Outcome(q, A, C) \in RequestState
  BY <1>0, <1>3
<1>5. request' \in [Request -> RequestState]
  BY <1>4 DEF Settle
<1> QED BY <1>3, <1>5

LEMMA InitIInv == Init => IInv
<1> SUFFICES ASSUME Init PROVE IInv
  OBVIOUS
<1> USE AccountConstants DEF Init, AccountConstants
<1>1. /\ IdleCall \in CallState /\ IdleCall.pc = "idle"
      /\ NoRequest \in RequestState /\ NoRequest.status = "none" /\ NoRequest.ref = NoRef
  BY DEF IdleCall, CallState, Operation, NoRequest, RequestState
<1>2. TypeOK
  BY <1>1 DEF TypeOK
<1>3. CallsSound /\ StagedOwn /\ StagedPresent
  BY <1>1 DEF CallsSound, StagedOwn, StagedPresent, Editing, Staging
<1>4. RowsSound /\ RequestsSound /\ DoomedMinted
  BY <1>1 DEF RowsSound, RequestsSound, DoomedMinted, Pending
<1>5. CredentialsPresent /\ ProposalsKeepSecrets
  BY <1>1 DEF CredentialsPresent, ProposalsKeepSecrets, Pending
<1> QED BY <1>2, <1>3, <1>4, <1>5 DEF IInv

(***************************************************************************)
(* The steps of the calls.                                                 *)
(***************************************************************************)
\* What happens when a call's record is replaced.
LEMMA SetCallEffect ==
  ASSUME TypeOK, NEW c \in Call, NEW k \in CallState, SetCall(c, k)
  PROVE  /\ call' \in [Call -> CallState]
         /\ call'[c] = k
         /\ \A d \in Call : d # c => call'[d] = call[d]
BY DEF SetCall, TypeOK

\* An object that does not exist yet is nobody's.
LEMMA FreshIsNobodys ==
  ASSUME IInv, NEW r \in Ref, revision[r] = 0
  PROVE  /\ r \notin doomed
         /\ \A a \in Account : vaultRef[a] # r
         /\ \A q \in Request : request[q].ref # r
         /\ \A d \in Call : Staging(d) => call[d].ref # r
BY AccountConstants DEF IInv, DoomedMinted, RowsSound, RequestsSound, CallsSound, AccountConstants

\* What a call minted is its own.
LEMMA StagedIsOwn ==
  ASSUME IInv, NEW c \in Call, Staging(c)
  PROVE  /\ call[c].ref \in Ref /\ revision[call[c].ref] > 0
         /\ \A a \in Account : vaultRef[a] # call[c].ref
         /\ \A q \in Request : request[q].ref # call[c].ref
         /\ \A d \in Call : Staging(d) /\ d # c => call[d].ref # call[c].ref
BY DEF IInv, CallsSound, StagedOwn

LEMMA MintedIsOwn ==
  ASSUME IInv, NEW c \in Call, call[c].pc = "minted"
  PROVE  /\ Staging(c) /\ value[call[c].ref] # NoValue /\ call[c].ref \notin doomed
BY DEF IInv, CallsSound, StagedPresent, Staging

\* What a pending proposal staged is its own.
LEMMA ProposalIsOwn ==
  ASSUME IInv, NEW q \in Request, request[q].status = "pending", request[q].ref # NoRef
  PROVE  /\ request[q].ref \in Ref /\ revision[request[q].ref] > 0
         /\ value[request[q].ref] # NoValue /\ request[q].ref \notin doomed
         /\ \A a \in Account : vaultRef[a] # request[q].ref
         /\ \A p \in Request : p # q => request[p].ref # request[q].ref
         /\ \A d \in Call : Staging(d) => call[d].ref # request[q].ref
BY DEF IInv, TypeOK, RequestState, RequestsSound, ProposalsKeepSecrets, StagedOwn, Pending

\* So is what a row points at.
LEMMA RowIsOwn ==
  ASSUME IInv, NEW a \in Account, status[a] # "unborn"
  PROVE  /\ vaultRef[a] \in Ref /\ revision[vaultRef[a]] > 0
         /\ \A b \in Account : b # a => vaultRef[b] # vaultRef[a]
         /\ \A q \in Request : request[q].status = "pending" => request[q].ref # vaultRef[a]
         /\ \A d \in Call : Staging(d) => call[d].ref # vaultRef[a]
<1>1. vaultRef[a] \in Ref /\ revision[vaultRef[a]] > 0 /\ vaultRef[a] # NoRef
  BY AccountConstants DEF IInv, RowsSound, AccountConstants
<1>2. \A b \in Account : b # a => vaultRef[b] # vaultRef[a]
  BY <1>1 DEF IInv, RowsSound
<1>3. \A q \in Request : request[q].status = "pending" => request[q].ref # vaultRef[a]
  BY <1>1 DEF IInv, ProposalsKeepSecrets, Pending
<1>4. \A d \in Call : Staging(d) => call[d].ref # vaultRef[a]
  BY DEF IInv, StagedOwn
<1> QED BY <1>1, <1>2, <1>3, <1>4

\* A mint takes an object nobody has.
LEMMA BeginCreateKeeps ==
  ASSUME IInv, NEW c \in Call, NEW op \in Operation, NEW r \in Ref, BeginCreate(c, op, r)
  PROVE  IInv'
<1>0. /\ TypeOK /\ CallsSound /\ RowsSound /\ RequestsSound /\ StagedOwn
      /\ StagedPresent /\ DoomedMinted /\ CredentialsPresent /\ ProposalsKeepSecrets
  BY DEF IInv
<1>1. /\ call' \in [Call -> CallState]
      /\ \A d \in Call : d # c => call'[d] = call[d]
      /\ call'[c].pc = "minted" /\ call'[c].op = op
      /\ call'[c].account = NoAccount /\ call'[c].ref = r
  <2>1. /\ Started("minted", op, NoAccount, r) \in CallState
        /\ SetCall(c, Started("minted", op, NoAccount, r))
    BY StartedFields DEF PC, BeginCreate
  <2> QED BY <1>0, <2>1, SetCallEffect, StartedFields DEF PC
<1>2. /\ op # "edit" /\ revision[r] = 0 /\ revision'[r] = 1 /\ value'[r] = c /\ doomed' = doomed
      /\ \A s \in Ref : s # r => revision'[s] = revision[s] /\ value'[s] = value[s]
  BY <1>0 DEF TypeOK, BeginCreate, Mint
<1>3. /\ r \notin doomed
      /\ \A a \in Account : vaultRef[a] # r
      /\ \A q \in Request : request[q].ref # r
      /\ \A d \in Call : Staging(d) => call[d].ref # r
  BY <1>2, FreshIsNobodys
<1>4. TypeOK'
  BY <1>0, <1>1, <1>2, <1>3, AccountConstants DEF TypeOK, BeginCreate, SetCall, rowVars, vaultVars, Mint, AccountConstants
<1>5. CallsSound'
  BY <1>0, <1>1, <1>2, <1>3, AccountConstants DEF CallsSound, Editing, Staging, BeginCreate, SetCall, rowVars, vaultVars, Mint, AccountConstants
<1>6. RowsSound' /\ DoomedMinted'
  BY <1>0, <1>1, <1>2, <1>3, AccountConstants DEF RowsSound, DoomedMinted, BeginCreate, SetCall, rowVars, vaultVars, Mint, AccountConstants
<1>7. RequestsSound'
  BY <1>0, <1>1, <1>2, <1>3, AccountConstants DEF RequestsSound, Pending, BeginCreate, SetCall, rowVars, vaultVars, Mint, AccountConstants
<1>8. StagedOwn'
  BY <1>0, <1>1, <1>2, <1>3, AccountConstants DEF StagedOwn, Staging, BeginCreate, SetCall, rowVars, vaultVars, Mint, AccountConstants
<1>9. StagedPresent'
  BY <1>0, <1>1, <1>2, <1>3, AccountConstants DEF StagedPresent, BeginCreate, SetCall, rowVars, vaultVars, Mint, AccountConstants
<1>10. CredentialsPresent'
  BY <1>0, <1>1, <1>2, <1>3, AccountConstants DEF CredentialsPresent, BeginCreate, SetCall, rowVars, vaultVars, Mint, AccountConstants
<1>11. ProposalsKeepSecrets'
  BY <1>0, <1>1, <1>2, <1>3, AccountConstants DEF ProposalsKeepSecrets, Pending, BeginCreate, SetCall, rowVars, vaultVars, Mint, AccountConstants
<1> QED BY <1>4, <1>5, <1>6, <1>7, <1>8, <1>9, <1>10, <1>11 DEF IInv

\* So does the mint of a proposal.
LEMMA MintProposedKeeps ==
  ASSUME IInv, NEW c \in Call, NEW r \in Ref, MintProposed(c, r)
  PROVE  IInv'
<1>0. /\ TypeOK /\ CallsSound /\ RowsSound /\ RequestsSound /\ StagedOwn
      /\ StagedPresent /\ DoomedMinted /\ CredentialsPresent /\ ProposalsKeepSecrets
  BY DEF IInv
<1>1. /\ call' \in [Call -> CallState]
      /\ \A d \in Call : d # c => call'[d] = call[d]
      /\ call'[c].pc = "minted" /\ call'[c].op = "proposeEdit"
      /\ call'[c].account = call[c].account /\ call'[c].ref = r
  BY <1>0, StartedFields DEF TypeOK, PC, Operation, MintProposed, SetCall, rowVars, vaultVars, Mint, CallState
<1>2. /\ revision[r] = 0 /\ revision'[r] = 1 /\ value'[r] = c /\ doomed' = doomed
      /\ \A s \in Ref : s # r => revision'[s] = revision[s] /\ value'[s] = value[s]
  BY <1>0 DEF TypeOK, MintProposed, Mint
<1>3. /\ r \notin doomed
      /\ \A a \in Account : vaultRef[a] # r
      /\ \A q \in Request : request[q].ref # r
      /\ \A d \in Call : Staging(d) => call[d].ref # r
  BY <1>2, FreshIsNobodys
<1>4. TypeOK'
  BY <1>0, <1>1, <1>2, <1>3, AccountConstants DEF TypeOK, MintProposed, SetCall, rowVars, vaultVars, Mint, CallState, AccountConstants
<1>5. CallsSound'
  BY <1>0, <1>1, <1>2, <1>3, AccountConstants DEF CallsSound, Editing, Staging, MintProposed, SetCall, rowVars, vaultVars, Mint, CallState, AccountConstants
<1>6. RowsSound' /\ DoomedMinted'
  BY <1>0, <1>1, <1>2, <1>3, AccountConstants DEF RowsSound, DoomedMinted, MintProposed, SetCall, rowVars, vaultVars, Mint, CallState, AccountConstants
<1>7. RequestsSound'
  BY <1>0, <1>1, <1>2, <1>3, AccountConstants DEF RequestsSound, Pending, MintProposed, SetCall, rowVars, vaultVars, Mint, CallState, AccountConstants
<1>8. StagedOwn'
  BY <1>0, <1>1, <1>2, <1>3, AccountConstants DEF StagedOwn, Staging, MintProposed, SetCall, rowVars, vaultVars, Mint, CallState, AccountConstants
<1>9. StagedPresent'
  BY <1>0, <1>1, <1>2, <1>3, AccountConstants DEF StagedPresent, MintProposed, SetCall, rowVars, vaultVars, Mint, CallState, AccountConstants
<1>10. CredentialsPresent'
  BY <1>0, <1>1, <1>2, <1>3, AccountConstants DEF CredentialsPresent, MintProposed, SetCall, rowVars, vaultVars, Mint, CallState, AccountConstants
<1>11. ProposalsKeepSecrets'
  BY <1>0, <1>1, <1>2, <1>3, AccountConstants DEF ProposalsKeepSecrets, Pending, MintProposed, SetCall, rowVars, vaultVars, Mint, CallState, AccountConstants
<1> QED BY <1>4, <1>5, <1>6, <1>7, <1>8, <1>9, <1>10, <1>11 DEF IInv

\* A commit hands the minted object to the new row.
LEMMA CommitCreateKeeps ==
  ASSUME IInv, NEW c \in Call, NEW a \in Account, CommitCreate(c, a)
  PROVE  IInv'
<1>0. /\ TypeOK /\ CallsSound /\ RowsSound /\ RequestsSound /\ StagedOwn
      /\ StagedPresent /\ DoomedMinted /\ CredentialsPresent /\ ProposalsKeepSecrets
  BY DEF IInv
<1>1. /\ call' \in [Call -> CallState]
      /\ \A d \in Call : d # c => call'[d] = call[d]
      /\ call'[c].pc = "ok" /\ call'[c].op = call[c].op
      /\ call'[c].account = call[c].account /\ call'[c].ref = call[c].ref
      /\ call'[c].previous = call[c].previous
  BY <1>0, NowFields DEF TypeOK, PC, Operation, CommitCreate, SetCall, rowVars, vaultVars, Insert
<1>2. /\ call[c].pc = "minted" /\ call[c].op = "create" /\ call[c].ref \in Ref
      /\ status[a] = "unborn" /\ status'[a] = "live" /\ vaultRef'[a] = call[c].ref
      /\ \A b \in Account : b # a => status'[b] = status[b] /\ vaultRef'[b] = vaultRef[b]
  BY <1>0 DEF TypeOK, CallsSound, Staging, CommitCreate, Insert
<1>3. /\ call[c].ref \in Ref /\ revision[call[c].ref] > 0 /\ value[call[c].ref] # NoValue /\ call[c].ref \notin doomed
      /\ \A d \in Account : vaultRef[d] # call[c].ref
      /\ \A p \in Request : request[p].ref # call[c].ref
      /\ \A d \in Call : Staging(d) /\ d # c => call[d].ref # call[c].ref
  BY <1>2, MintedIsOwn, StagedIsOwn
<1>4. TypeOK'
  BY <1>0, <1>1, <1>2, <1>3, AccountConstants DEF TypeOK, CommitCreate, SetCall, rowVars, vaultVars, Insert, AccountConstants
<1>5. CallsSound'
  BY <1>0, <1>1, <1>2, <1>3, AccountConstants DEF CallsSound, Editing, Staging, CommitCreate, SetCall, rowVars, vaultVars, Insert, AccountConstants
<1>6. RowsSound' /\ DoomedMinted'
  BY <1>0, <1>1, <1>2, <1>3, AccountConstants DEF RowsSound, DoomedMinted, CommitCreate, SetCall, rowVars, vaultVars, Insert, AccountConstants
<1>7. RequestsSound'
  BY <1>0, <1>1, <1>2, <1>3, AccountConstants DEF RequestsSound, Pending, CommitCreate, SetCall, rowVars, vaultVars, Insert, AccountConstants
<1>8. StagedOwn'
  BY <1>0, <1>1, <1>2, <1>3, AccountConstants DEF StagedOwn, Staging, CommitCreate, SetCall, rowVars, vaultVars, Insert, AccountConstants
<1>9. StagedPresent'
  BY <1>0, <1>1, <1>2, <1>3, AccountConstants DEF StagedPresent, CommitCreate, SetCall, rowVars, vaultVars, Insert, AccountConstants
<1>10. CredentialsPresent'
  BY <1>0, <1>1, <1>2, <1>3, AccountConstants DEF CredentialsPresent, CommitCreate, SetCall, rowVars, vaultVars, Insert, AccountConstants
<1>11. ProposalsKeepSecrets'
  BY <1>0, <1>1, <1>2, <1>3, AccountConstants DEF ProposalsKeepSecrets, Pending, CommitCreate, SetCall, rowVars, vaultVars, Insert, AccountConstants
<1> QED BY <1>4, <1>5, <1>6, <1>7, <1>8, <1>9, <1>10, <1>11 DEF IInv

\* An edit only reads the row.
LEMMA BeginEditKeeps ==
  ASSUME IInv, NEW c \in Call, NEW a \in Account, BeginEdit(c, a)
  PROVE  IInv'
<1>0. /\ TypeOK /\ CallsSound /\ RowsSound /\ RequestsSound /\ StagedOwn
      /\ StagedPresent /\ DoomedMinted /\ CredentialsPresent /\ ProposalsKeepSecrets
  BY DEF IInv
<1>1. /\ call' \in [Call -> CallState]
      /\ \A d \in Call : d # c => call'[d] = call[d]
      /\ call'[c].pc = "fetched" /\ call'[c].op = "edit"
      /\ call'[c].account = a /\ call'[c].ref = vaultRef[a]
  BY <1>0, StartedFields DEF TypeOK, PC, Operation, BeginEdit, SetCall, rowVars, vaultVars
<1>2. vaultRef[a] \in Ref
  BY <1>0 DEF RowsSound, BeginEdit
<1>3. TypeOK'
  BY <1>0, <1>1, <1>2, AccountConstants DEF TypeOK, BeginEdit, SetCall, rowVars, vaultVars, AccountConstants
<1>4. CallsSound'
  BY <1>0, <1>1, <1>2, AccountConstants DEF CallsSound, Editing, Staging, BeginEdit, SetCall, rowVars, vaultVars, AccountConstants
<1>5. RowsSound' /\ DoomedMinted'
  BY <1>0, <1>1, <1>2, AccountConstants DEF RowsSound, DoomedMinted, BeginEdit, SetCall, rowVars, vaultVars, AccountConstants
<1>6. RequestsSound'
  BY <1>0, <1>1, <1>2, AccountConstants DEF RequestsSound, Pending, BeginEdit, SetCall, rowVars, vaultVars, AccountConstants
<1>7. StagedOwn'
  BY <1>0, <1>1, <1>2, AccountConstants DEF StagedOwn, Staging, BeginEdit, SetCall, rowVars, vaultVars, AccountConstants
<1>8. StagedPresent'
  BY <1>0, <1>1, <1>2, AccountConstants DEF StagedPresent, BeginEdit, SetCall, rowVars, vaultVars, AccountConstants
<1>9. CredentialsPresent'
  BY <1>0, <1>1, <1>2, AccountConstants DEF CredentialsPresent, BeginEdit, SetCall, rowVars, vaultVars, AccountConstants
<1>10. ProposalsKeepSecrets'
  BY <1>0, <1>1, <1>2, AccountConstants DEF ProposalsKeepSecrets, Pending, BeginEdit, SetCall, rowVars, vaultVars, AccountConstants
<1> QED BY <1>3, <1>4, <1>5, <1>6, <1>7, <1>8, <1>9, <1>10 DEF IInv

\* Reading the previous value changes nothing outside the call.
LEMMA ReadPreviousKeeps ==
  ASSUME IInv, NEW c \in Call, ReadPrevious(c)
  PROVE  IInv'
<1>0. /\ TypeOK /\ CallsSound /\ RowsSound /\ RequestsSound /\ StagedOwn
      /\ StagedPresent /\ DoomedMinted /\ CredentialsPresent /\ ProposalsKeepSecrets
  BY DEF IInv
<1>1. /\ call' \in [Call -> CallState]
      /\ \A d \in Call : d # c => call'[d] = call[d]
      /\ call'[c].pc = "read" /\ call'[c].op = call[c].op
      /\ call'[c].account = call[c].account /\ call'[c].ref = call[c].ref
      /\ call'[c].previous = value[call[c].ref] /\ value[call[c].ref] \in Call
  BY <1>0, ReadFields DEF TypeOK, PC, Operation, ReadPrevious, SetCall, rowVars, vaultVars, CallsSound, Editing
<1>2. TypeOK'
  BY <1>0, <1>1, AccountConstants DEF TypeOK, ReadPrevious, SetCall, rowVars, vaultVars, CallsSound, Editing, AccountConstants
<1>3. CallsSound'
  BY <1>0, <1>1, AccountConstants DEF CallsSound, Editing, Staging, ReadPrevious, SetCall, rowVars, vaultVars, CallsSound, Editing, AccountConstants
<1>4. RowsSound' /\ DoomedMinted'
  BY <1>0, <1>1, AccountConstants DEF RowsSound, DoomedMinted, ReadPrevious, SetCall, rowVars, vaultVars, CallsSound, Editing, AccountConstants
<1>5. RequestsSound'
  BY <1>0, <1>1, AccountConstants DEF RequestsSound, Pending, ReadPrevious, SetCall, rowVars, vaultVars, CallsSound, Editing, AccountConstants
<1>6. StagedOwn'
  BY <1>0, <1>1, AccountConstants DEF StagedOwn, Staging, ReadPrevious, SetCall, rowVars, vaultVars, CallsSound, Editing, AccountConstants
<1>7. StagedPresent'
  BY <1>0, <1>1, AccountConstants DEF StagedPresent, ReadPrevious, SetCall, rowVars, vaultVars, CallsSound, Editing, AccountConstants
<1>8. CredentialsPresent'
  BY <1>0, <1>1, AccountConstants DEF CredentialsPresent, ReadPrevious, SetCall, rowVars, vaultVars, CallsSound, Editing, AccountConstants
<1>9. ProposalsKeepSecrets'
  BY <1>0, <1>1, AccountConstants DEF ProposalsKeepSecrets, Pending, ReadPrevious, SetCall, rowVars, vaultVars, CallsSound, Editing, AccountConstants
<1> QED BY <1>2, <1>3, <1>4, <1>5, <1>6, <1>7, <1>8, <1>9 DEF IInv

\* An error of the vault ends the call.
LEMMA VaultThrowsKeeps ==
  ASSUME IInv, NEW c \in Call, VaultThrows(c)
  PROVE  IInv'
<1>0. /\ TypeOK /\ CallsSound /\ RowsSound /\ RequestsSound /\ StagedOwn
      /\ StagedPresent /\ DoomedMinted /\ CredentialsPresent /\ ProposalsKeepSecrets
  BY DEF IInv
<1>1. /\ call' \in [Call -> CallState]
      /\ \A d \in Call : d # c => call'[d] = call[d]
      /\ call'[c].pc = "failed" /\ call'[c].op = call[c].op
      /\ call'[c].account = call[c].account /\ call'[c].ref = call[c].ref
      /\ call'[c].previous = call[c].previous
  BY <1>0, NowFields DEF TypeOK, PC, Operation, VaultThrows, SetCall, rowVars, vaultVars
<1>2. TypeOK'
  BY <1>0, <1>1, AccountConstants DEF TypeOK, VaultThrows, SetCall, rowVars, vaultVars, AccountConstants
<1>3. CallsSound'
  BY <1>0, <1>1, AccountConstants DEF CallsSound, Editing, Staging, VaultThrows, SetCall, rowVars, vaultVars, AccountConstants
<1>4. RowsSound' /\ DoomedMinted'
  BY <1>0, <1>1, AccountConstants DEF RowsSound, DoomedMinted, VaultThrows, SetCall, rowVars, vaultVars, AccountConstants
<1>5. RequestsSound'
  BY <1>0, <1>1, AccountConstants DEF RequestsSound, Pending, VaultThrows, SetCall, rowVars, vaultVars, AccountConstants
<1>6. StagedOwn'
  BY <1>0, <1>1, AccountConstants DEF StagedOwn, Staging, VaultThrows, SetCall, rowVars, vaultVars, AccountConstants
<1>7. StagedPresent'
  BY <1>0, <1>1, AccountConstants DEF StagedPresent, VaultThrows, SetCall, rowVars, vaultVars, AccountConstants
<1>8. CredentialsPresent'
  BY <1>0, <1>1, AccountConstants DEF CredentialsPresent, VaultThrows, SetCall, rowVars, vaultVars, AccountConstants
<1>9. ProposalsKeepSecrets'
  BY <1>0, <1>1, AccountConstants DEF ProposalsKeepSecrets, Pending, VaultThrows, SetCall, rowVars, vaultVars, AccountConstants
<1> QED BY <1>2, <1>3, <1>4, <1>5, <1>6, <1>7, <1>8, <1>9 DEF IInv

\* A refused mutation leaves its call to clean up.
LEMMA MutationThrowsKeeps ==
  ASSUME IInv, NEW c \in Call, MutationThrows(c)
  PROVE  IInv'
<1>0. /\ TypeOK /\ CallsSound /\ RowsSound /\ RequestsSound /\ StagedOwn
      /\ StagedPresent /\ DoomedMinted /\ CredentialsPresent /\ ProposalsKeepSecrets
  BY DEF IInv
<1>1. /\ call' \in [Call -> CallState]
      /\ \A d \in Call : d # c => call'[d] = call[d]
      /\ call'[c].pc = "refused" /\ call'[c].op = call[c].op
      /\ call'[c].account = call[c].account /\ call'[c].ref = call[c].ref
      /\ call'[c].previous = call[c].previous
  BY <1>0, NowFields DEF TypeOK, PC, Operation, MutationThrows, SetCall, rowVars, vaultVars
<1>2. \A d \in Call : Staging(d)' => Staging(d)
  BY <1>0, <1>1 DEF CallsSound, Staging, MutationThrows
<1>3. TypeOK'
  BY <1>0, <1>1, <1>2, AccountConstants DEF TypeOK, MutationThrows, SetCall, rowVars, vaultVars, AccountConstants
<1>4. CallsSound'
  BY <1>0, <1>1, <1>2, AccountConstants DEF CallsSound, Editing, Staging, MutationThrows, SetCall, rowVars, vaultVars, AccountConstants
<1>5. RowsSound' /\ DoomedMinted'
  BY <1>0, <1>1, <1>2, AccountConstants DEF RowsSound, DoomedMinted, MutationThrows, SetCall, rowVars, vaultVars, AccountConstants
<1>6. RequestsSound'
  BY <1>0, <1>1, <1>2, AccountConstants DEF RequestsSound, Pending, MutationThrows, SetCall, rowVars, vaultVars, AccountConstants
<1>7. StagedOwn'
  BY <1>0, <1>1, <1>2, AccountConstants DEF StagedOwn, Staging, MutationThrows, SetCall, rowVars, vaultVars, AccountConstants
<1>8. StagedPresent'
  BY <1>0, <1>1, <1>2, AccountConstants DEF StagedPresent, MutationThrows, SetCall, rowVars, vaultVars, AccountConstants
<1>9. CredentialsPresent'
  BY <1>0, <1>1, <1>2, AccountConstants DEF CredentialsPresent, MutationThrows, SetCall, rowVars, vaultVars, AccountConstants
<1>10. ProposalsKeepSecrets'
  BY <1>0, <1>1, <1>2, AccountConstants DEF ProposalsKeepSecrets, Pending, MutationThrows, SetCall, rowVars, vaultVars, AccountConstants
<1> QED BY <1>3, <1>4, <1>5, <1>6, <1>7, <1>8, <1>9, <1>10 DEF IInv

\* A crash ends the call.
LEMMA CallCrashesKeeps ==
  ASSUME IInv, NEW c \in Call, CallCrashes(c)
  PROVE  IInv'
<1>0. /\ TypeOK /\ CallsSound /\ RowsSound /\ RequestsSound /\ StagedOwn
      /\ StagedPresent /\ DoomedMinted /\ CredentialsPresent /\ ProposalsKeepSecrets
  BY DEF IInv
<1>1. /\ call' \in [Call -> CallState]
      /\ \A d \in Call : d # c => call'[d] = call[d]
      /\ call'[c].pc = "failed" /\ call'[c].op = call[c].op
      /\ call'[c].account = call[c].account /\ call'[c].ref = call[c].ref
      /\ call'[c].previous = call[c].previous
  BY <1>0, NowFields DEF TypeOK, PC, Operation, CallCrashes, SetCall, rowVars, vaultVars, InFlight
<1>2. TypeOK'
  BY <1>0, <1>1, AccountConstants DEF TypeOK, CallCrashes, SetCall, rowVars, vaultVars, InFlight, AccountConstants
<1>3. CallsSound'
  BY <1>0, <1>1, AccountConstants DEF CallsSound, Editing, Staging, CallCrashes, SetCall, rowVars, vaultVars, InFlight, AccountConstants
<1>4. RowsSound' /\ DoomedMinted'
  BY <1>0, <1>1, AccountConstants DEF RowsSound, DoomedMinted, CallCrashes, SetCall, rowVars, vaultVars, InFlight, AccountConstants
<1>5. RequestsSound'
  BY <1>0, <1>1, AccountConstants DEF RequestsSound, Pending, CallCrashes, SetCall, rowVars, vaultVars, InFlight, AccountConstants
<1>6. StagedOwn'
  BY <1>0, <1>1, AccountConstants DEF StagedOwn, Staging, CallCrashes, SetCall, rowVars, vaultVars, InFlight, AccountConstants
<1>7. StagedPresent'
  BY <1>0, <1>1, AccountConstants DEF StagedPresent, CallCrashes, SetCall, rowVars, vaultVars, InFlight, AccountConstants
<1>8. CredentialsPresent'
  BY <1>0, <1>1, AccountConstants DEF CredentialsPresent, CallCrashes, SetCall, rowVars, vaultVars, InFlight, AccountConstants
<1>9. ProposalsKeepSecrets'
  BY <1>0, <1>1, AccountConstants DEF ProposalsKeepSecrets, Pending, CallCrashes, SetCall, rowVars, vaultVars, InFlight, AccountConstants
<1> QED BY <1>2, <1>3, <1>4, <1>5, <1>6, <1>7, <1>8, <1>9 DEF IInv

\* A proposal only reads the row.
LEMMA BeginProposalKeeps ==
  ASSUME IInv, NEW c \in Call, NEW a \in Account, BeginProposal(c, a)
  PROVE  IInv'
<1>0. /\ TypeOK /\ CallsSound /\ RowsSound /\ RequestsSound /\ StagedOwn
      /\ StagedPresent /\ DoomedMinted /\ CredentialsPresent /\ ProposalsKeepSecrets
  BY DEF IInv
<1>1. /\ call' \in [Call -> CallState]
      /\ \A d \in Call : d # c => call'[d] = call[d]
      /\ call'[c].pc = "fetched" /\ call'[c].op = "proposeEdit"
      /\ call'[c].account = a /\ call'[c].ref = NoRef
  BY <1>0, StartedFields DEF TypeOK, PC, Operation, BeginProposal, SetCall, rowVars, vaultVars
<1>2. TypeOK'
  BY <1>0, <1>1, AccountConstants DEF TypeOK, BeginProposal, SetCall, rowVars, vaultVars, AccountConstants
<1>3. CallsSound'
  BY <1>0, <1>1, AccountConstants DEF CallsSound, Editing, Staging, BeginProposal, SetCall, rowVars, vaultVars, AccountConstants
<1>4. RowsSound' /\ DoomedMinted'
  BY <1>0, <1>1, AccountConstants DEF RowsSound, DoomedMinted, BeginProposal, SetCall, rowVars, vaultVars, AccountConstants
<1>5. RequestsSound'
  BY <1>0, <1>1, AccountConstants DEF RequestsSound, Pending, BeginProposal, SetCall, rowVars, vaultVars, AccountConstants
<1>6. StagedOwn'
  BY <1>0, <1>1, AccountConstants DEF StagedOwn, Staging, BeginProposal, SetCall, rowVars, vaultVars, AccountConstants
<1>7. StagedPresent'
  BY <1>0, <1>1, AccountConstants DEF StagedPresent, BeginProposal, SetCall, rowVars, vaultVars, AccountConstants
<1>8. CredentialsPresent'
  BY <1>0, <1>1, AccountConstants DEF CredentialsPresent, BeginProposal, SetCall, rowVars, vaultVars, AccountConstants
<1>9. ProposalsKeepSecrets'
  BY <1>0, <1>1, AccountConstants DEF ProposalsKeepSecrets, Pending, BeginProposal, SetCall, rowVars, vaultVars, AccountConstants
<1> QED BY <1>2, <1>3, <1>4, <1>5, <1>6, <1>7, <1>8, <1>9 DEF IInv

\* A write in place keeps the object.
LEMMA WriteInPlaceKeeps ==
  ASSUME IInv, NEW c \in Call, WriteInPlace(c)
  PROVE  IInv'
<1>0. /\ TypeOK /\ CallsSound /\ RowsSound /\ RequestsSound /\ StagedOwn
      /\ StagedPresent /\ DoomedMinted /\ CredentialsPresent /\ ProposalsKeepSecrets
  BY DEF IInv
<1>1. /\ call' \in [Call -> CallState]
      /\ \A d \in Call : d # c => call'[d] = call[d]
      /\ call'[c].pc = "written" /\ call'[c].op = call[c].op
      /\ call'[c].account = call[c].account /\ call'[c].ref = call[c].ref
      /\ call'[c].previous = call[c].previous
  <2>1. PICK n \in Nat : SetCall(c, HasWritten(call[c], n))
    BY <1>0 DEF WriteInPlace, Put, TypeOK, CallsSound, Editing
  <2>2. call[c] \in CallState
    BY <1>0 DEF TypeOK
  <2> QED BY <1>0, <2>1, <2>2, WrittenFields, SetCallEffect
<1>2. /\ call[c].ref \in Ref /\ doomed' = doomed
      /\ value[call[c].ref] # NoValue /\ value'[call[c].ref] # NoValue
      /\ revision'[call[c].ref] > 0
      /\ \A s \in Ref : s # call[c].ref => revision'[s] = revision[s] /\ value'[s] = value[s]
  BY <1>0, AccountConstants DEF TypeOK, CallsSound, Editing, AccountConstants, WriteInPlace, Put
<1>3. TypeOK'
  BY <1>0, <1>1, <1>2, AccountConstants DEF TypeOK, WriteInPlace, SetCall, rowVars, vaultVars, Put, CallsSound, Editing, AccountConstants
<1>4. CallsSound'
  BY <1>0, <1>1, <1>2, AccountConstants DEF CallsSound, Editing, Staging, WriteInPlace, SetCall, rowVars, vaultVars, Put, CallsSound, Editing, AccountConstants
<1>5. RowsSound' /\ DoomedMinted'
  BY <1>0, <1>1, <1>2, AccountConstants DEF RowsSound, DoomedMinted, WriteInPlace, SetCall, rowVars, vaultVars, Put, CallsSound, Editing, AccountConstants
<1>6. RequestsSound'
  BY <1>0, <1>1, <1>2, AccountConstants DEF RequestsSound, Pending, WriteInPlace, SetCall, rowVars, vaultVars, Put, CallsSound, Editing, AccountConstants
<1>7. StagedOwn'
  BY <1>0, <1>1, <1>2, AccountConstants DEF StagedOwn, Staging, WriteInPlace, SetCall, rowVars, vaultVars, Put, CallsSound, Editing, AccountConstants
<1>8. StagedPresent'
  BY <1>0, <1>1, <1>2, AccountConstants DEF StagedPresent, WriteInPlace, SetCall, rowVars, vaultVars, Put, CallsSound, Editing, AccountConstants
<1>9. CredentialsPresent'
  BY <1>0, <1>1, <1>2, AccountConstants DEF CredentialsPresent, WriteInPlace, SetCall, rowVars, vaultVars, Put, CallsSound, Editing, AccountConstants
<1>10. ProposalsKeepSecrets'
  BY <1>0, <1>1, <1>2, AccountConstants DEF ProposalsKeepSecrets, Pending, WriteInPlace, SetCall, rowVars, vaultVars, Put, CallsSound, Editing, AccountConstants
<1> QED BY <1>3, <1>4, <1>5, <1>6, <1>7, <1>8, <1>9, <1>10 DEF IInv

\* So does one whose answer is lost.
LEMMA WriteLostKeeps ==
  ASSUME IInv, NEW c \in Call, WriteLost(c)
  PROVE  IInv'
<1>0. /\ TypeOK /\ CallsSound /\ RowsSound /\ RequestsSound /\ StagedOwn
      /\ StagedPresent /\ DoomedMinted /\ CredentialsPresent /\ ProposalsKeepSecrets
  BY DEF IInv
<1>1. /\ call' \in [Call -> CallState]
      /\ \A d \in Call : d # c => call'[d] = call[d]
      /\ call'[c].pc = "failed" /\ call'[c].op = call[c].op
      /\ call'[c].account = call[c].account /\ call'[c].ref = call[c].ref
      /\ call'[c].previous = call[c].previous
  BY <1>0, NowFields DEF TypeOK, PC, Operation, WriteLost, SetCall, rowVars, vaultVars, Put
<1>2. /\ call[c].ref \in Ref /\ doomed' = doomed
      /\ value[call[c].ref] # NoValue /\ value'[call[c].ref] # NoValue
      /\ revision'[call[c].ref] > 0
      /\ \A s \in Ref : s # call[c].ref => revision'[s] = revision[s] /\ value'[s] = value[s]
  BY <1>0, AccountConstants DEF TypeOK, CallsSound, Editing, AccountConstants, WriteLost, Put
<1>3. TypeOK'
  BY <1>0, <1>1, <1>2, AccountConstants DEF TypeOK, WriteLost, SetCall, rowVars, vaultVars, Put, AccountConstants
<1>4. CallsSound'
  BY <1>0, <1>1, <1>2, AccountConstants DEF CallsSound, Editing, Staging, WriteLost, SetCall, rowVars, vaultVars, Put, AccountConstants
<1>5. RowsSound' /\ DoomedMinted'
  BY <1>0, <1>1, <1>2, AccountConstants DEF RowsSound, DoomedMinted, WriteLost, SetCall, rowVars, vaultVars, Put, AccountConstants
<1>6. RequestsSound'
  BY <1>0, <1>1, <1>2, AccountConstants DEF RequestsSound, Pending, WriteLost, SetCall, rowVars, vaultVars, Put, AccountConstants
<1>7. StagedOwn'
  BY <1>0, <1>1, <1>2, AccountConstants DEF StagedOwn, Staging, WriteLost, SetCall, rowVars, vaultVars, Put, AccountConstants
<1>8. StagedPresent'
  BY <1>0, <1>1, <1>2, AccountConstants DEF StagedPresent, WriteLost, SetCall, rowVars, vaultVars, Put, AccountConstants
<1>9. CredentialsPresent'
  BY <1>0, <1>1, <1>2, AccountConstants DEF CredentialsPresent, WriteLost, SetCall, rowVars, vaultVars, Put, AccountConstants
<1>10. ProposalsKeepSecrets'
  BY <1>0, <1>1, <1>2, AccountConstants DEF ProposalsKeepSecrets, Pending, WriteLost, SetCall, rowVars, vaultVars, Put, AccountConstants
<1> QED BY <1>3, <1>4, <1>5, <1>6, <1>7, <1>8, <1>9, <1>10 DEF IInv

\* A commit of an edit moves the version and nothing else.
LEMMA CommitEditKeeps ==
  ASSUME IInv, NEW c \in Call, CommitEdit(c)
  PROVE  IInv'
<1>0. /\ TypeOK /\ CallsSound /\ RowsSound /\ RequestsSound /\ StagedOwn
      /\ StagedPresent /\ DoomedMinted /\ CredentialsPresent /\ ProposalsKeepSecrets
  BY DEF IInv
<1>1. /\ call' \in [Call -> CallState]
      /\ \A d \in Call : d # c => call'[d] = call[d]
      /\ call'[c].pc = "ok" /\ call'[c].op = call[c].op
      /\ call'[c].account = call[c].account /\ call'[c].ref = call[c].ref
      /\ call'[c].previous = call[c].previous
  BY <1>0, NowFields DEF TypeOK, PC, Operation, CommitEdit, SetCall, rowVars, vaultVars, Bump
<1>2. call[c].account \in Account
  BY <1>0 DEF CallsSound, Editing, CommitEdit
<1>3. TypeOK'
  BY <1>0, <1>1, <1>2, AccountConstants DEF TypeOK, CommitEdit, SetCall, rowVars, vaultVars, Bump, AccountConstants
<1>4. CallsSound'
  BY <1>0, <1>1, <1>2, AccountConstants DEF CallsSound, Editing, Staging, CommitEdit, SetCall, rowVars, vaultVars, Bump, AccountConstants
<1>5. RowsSound' /\ DoomedMinted'
  BY <1>0, <1>1, <1>2, AccountConstants DEF RowsSound, DoomedMinted, CommitEdit, SetCall, rowVars, vaultVars, Bump, AccountConstants
<1>6. RequestsSound'
  BY <1>0, <1>1, <1>2, AccountConstants DEF RequestsSound, Pending, CommitEdit, SetCall, rowVars, vaultVars, Bump, AccountConstants
<1>7. StagedOwn'
  BY <1>0, <1>1, <1>2, AccountConstants DEF StagedOwn, Staging, CommitEdit, SetCall, rowVars, vaultVars, Bump, AccountConstants
<1>8. StagedPresent'
  BY <1>0, <1>1, <1>2, AccountConstants DEF StagedPresent, CommitEdit, SetCall, rowVars, vaultVars, Bump, AccountConstants
<1>9. CredentialsPresent'
  BY <1>0, <1>1, <1>2, AccountConstants DEF CredentialsPresent, CommitEdit, SetCall, rowVars, vaultVars, Bump, AccountConstants
<1>10. ProposalsKeepSecrets'
  BY <1>0, <1>1, <1>2, AccountConstants DEF ProposalsKeepSecrets, Pending, CommitEdit, SetCall, rowVars, vaultVars, Bump, AccountConstants
<1> QED BY <1>3, <1>4, <1>5, <1>6, <1>7, <1>8, <1>9, <1>10 DEF IInv

\* A refused call deletes only the object it minted.
LEMMA CleanUpKeeps ==
  ASSUME IInv, NEW c \in Call, CleanUp(c)
  PROVE  IInv'
<1>0. /\ TypeOK /\ CallsSound /\ RowsSound /\ RequestsSound /\ StagedOwn
      /\ StagedPresent /\ DoomedMinted /\ CredentialsPresent /\ ProposalsKeepSecrets
  BY DEF IInv
<1>1. /\ call' \in [Call -> CallState]
      /\ \A d \in Call : d # c => call'[d] = call[d]
      /\ call'[c].pc = "failed" /\ call'[c].op = call[c].op
      /\ call'[c].account = call[c].account /\ call'[c].ref = call[c].ref
      /\ call'[c].previous = call[c].previous
  BY <1>0, NowFields DEF TypeOK, PC, Operation, CleanUp, SetCall, rowVars, vaultVars
<1>2. /\ Staging(c) /\ call[c].ref \in Ref /\ call[c].pc = "refused" /\ doomed' = doomed
      /\ \A s \in Ref : s # call[c].ref => value'[s] = value[s]
  BY <1>0 DEF TypeOK, CallsSound, Staging, CleanUp
<1>3. /\ call[c].ref \in Ref /\ revision[call[c].ref] > 0
      /\ \A d \in Account : vaultRef[d] # call[c].ref
      /\ \A p \in Request : request[p].ref # call[c].ref
      /\ \A d \in Call : Staging(d) /\ d # c => call[d].ref # call[c].ref
  BY <1>2, StagedIsOwn
<1>4. \A d \in Call : call[d].pc = "minted" => Staging(d) /\ call[d].ref \in Ref
  BY <1>0 DEF CallsSound, Staging
<1>5. /\ \A a \in Account : status[a] # "unborn" => vaultRef[a] \in Ref
      /\ \A q \in Request : request[q].ref # NoRef => request[q].ref \in Ref
  BY <1>0 DEF RowsSound, TypeOK, RequestState
<1>6. TypeOK'
  BY <1>0, <1>1, <1>2, <1>3, <1>4, <1>5, AccountConstants DEF TypeOK, CleanUp, SetCall, rowVars, vaultVars, AccountConstants
<1>7. CallsSound'
  BY <1>0, <1>1, <1>2, <1>3, <1>4, <1>5, AccountConstants DEF CallsSound, Editing, Staging, CleanUp, SetCall, rowVars, vaultVars, AccountConstants
<1>8. RowsSound' /\ DoomedMinted'
  BY <1>0, <1>1, <1>2, <1>3, <1>4, <1>5, AccountConstants DEF RowsSound, DoomedMinted, CleanUp, SetCall, rowVars, vaultVars, AccountConstants
<1>9. RequestsSound'
  BY <1>0, <1>1, <1>2, <1>3, <1>4, <1>5, AccountConstants DEF RequestsSound, Pending, CleanUp, SetCall, rowVars, vaultVars, AccountConstants
<1>10. StagedOwn'
  BY <1>0, <1>1, <1>2, <1>3, <1>4, <1>5, AccountConstants DEF StagedOwn, Staging, CleanUp, SetCall, rowVars, vaultVars, AccountConstants
<1>11. StagedPresent'
  BY <1>0, <1>1, <1>2, <1>3, <1>4, <1>5, AccountConstants DEF StagedPresent, CleanUp, SetCall, rowVars, vaultVars, AccountConstants
<1>12. CredentialsPresent'
  BY <1>0, <1>1, <1>2, <1>3, <1>4, <1>5, AccountConstants DEF CredentialsPresent, CleanUp, SetCall, rowVars, vaultVars, AccountConstants
<1>13. ProposalsKeepSecrets'
  BY <1>0, <1>1, <1>2, <1>3, <1>4, <1>5, AccountConstants DEF ProposalsKeepSecrets, Pending, CleanUp, SetCall, rowVars, vaultVars, AccountConstants
<1> QED BY <1>6, <1>7, <1>8, <1>9, <1>10, <1>11, <1>12, <1>13 DEF IInv

\* A duplicate proposal gives up only the object it minted.
LEMMA FileDuplicateKeeps ==
  ASSUME IInv, NEW c \in Call, FileDuplicate(c)
  PROVE  IInv'
<1>0. /\ TypeOK /\ CallsSound /\ RowsSound /\ RequestsSound /\ StagedOwn
      /\ StagedPresent /\ DoomedMinted /\ CredentialsPresent /\ ProposalsKeepSecrets
  BY DEF IInv
<1>1. /\ call' \in [Call -> CallState]
      /\ \A d \in Call : d # c => call'[d] = call[d]
      /\ call'[c].pc = "ok" /\ call'[c].op = call[c].op
      /\ call'[c].account = call[c].account /\ call'[c].ref = call[c].ref
      /\ call'[c].previous = call[c].previous
  BY <1>0, NowFields DEF TypeOK, PC, Operation, FileDuplicate, SetCall, rowVars, vaultVars
<1>2. /\ Staging(c) /\ call[c].ref \in Ref /\ call[c].pc = "minted" /\ doomed' = doomed \cup {call[c].ref}
  BY <1>0 DEF CallsSound, Staging, FileDuplicate
<1>3. /\ call[c].ref \in Ref /\ revision[call[c].ref] > 0 /\ value[call[c].ref] # NoValue /\ call[c].ref \notin doomed
      /\ \A d \in Account : vaultRef[d] # call[c].ref
      /\ \A p \in Request : request[p].ref # call[c].ref
      /\ \A d \in Call : Staging(d) /\ d # c => call[d].ref # call[c].ref
  BY <1>2, MintedIsOwn, StagedIsOwn
<1>4. \A d \in Call : call[d].pc = "minted" => Staging(d) /\ call[d].ref \in Ref
  BY <1>0 DEF CallsSound, Staging
<1>5. TypeOK'
  BY <1>0, <1>1, <1>2, <1>3, <1>4, AccountConstants DEF TypeOK, FileDuplicate, SetCall, rowVars, vaultVars, AccountConstants
<1>6. CallsSound'
  BY <1>0, <1>1, <1>2, <1>3, <1>4, AccountConstants DEF CallsSound, Editing, Staging, FileDuplicate, SetCall, rowVars, vaultVars, AccountConstants
<1>7. RowsSound' /\ DoomedMinted'
  BY <1>0, <1>1, <1>2, <1>3, <1>4, AccountConstants DEF RowsSound, DoomedMinted, FileDuplicate, SetCall, rowVars, vaultVars, AccountConstants
<1>8. RequestsSound'
  BY <1>0, <1>1, <1>2, <1>3, <1>4, AccountConstants DEF RequestsSound, Pending, FileDuplicate, SetCall, rowVars, vaultVars, AccountConstants
<1>9. StagedOwn'
  BY <1>0, <1>1, <1>2, <1>3, <1>4, AccountConstants DEF StagedOwn, Staging, FileDuplicate, SetCall, rowVars, vaultVars, AccountConstants
<1>10. StagedPresent'
  BY <1>0, <1>1, <1>2, <1>3, <1>4, AccountConstants DEF StagedPresent, FileDuplicate, SetCall, rowVars, vaultVars, AccountConstants
<1>11. CredentialsPresent'
  BY <1>0, <1>1, <1>2, <1>3, <1>4, AccountConstants DEF CredentialsPresent, FileDuplicate, SetCall, rowVars, vaultVars, AccountConstants
<1>12. ProposalsKeepSecrets'
  BY <1>0, <1>1, <1>2, <1>3, <1>4, AccountConstants DEF ProposalsKeepSecrets, Pending, FileDuplicate, SetCall, rowVars, vaultVars, AccountConstants
<1> QED BY <1>5, <1>6, <1>7, <1>8, <1>9, <1>10, <1>11, <1>12 DEF IInv

\* Filing hands the minted object to the request.
LEMMA FileProposalKeeps ==
  ASSUME IInv, NEW c \in Call, NEW q \in Request, FileProposal(c, q)
  PROVE  IInv'
<1>0. /\ TypeOK /\ CallsSound /\ RowsSound /\ RequestsSound /\ StagedOwn
      /\ StagedPresent /\ DoomedMinted /\ CredentialsPresent /\ ProposalsKeepSecrets
  BY DEF IInv
<1>1. /\ call' \in [Call -> CallState]
      /\ \A d \in Call : d # c => call'[d] = call[d]
      /\ call'[c].pc = "ok" /\ call'[c].op = call[c].op
      /\ call'[c].account = call[c].account /\ call'[c].ref = call[c].ref
      /\ call'[c].previous = call[c].previous
  BY <1>0, NowFields DEF TypeOK, PC, Operation, FileProposal, SetCall, rowVars, vaultVars
<1>2. /\ Staging(c) /\ call[c].ref \in Ref /\ call[c].pc = "minted"
      /\ call[c].op = "proposeEdit" => call[c].account \in Account
  BY <1>0 DEF CallsSound, Staging, FileProposal
<1>3. /\ call[c].ref \in Ref /\ revision[call[c].ref] > 0 /\ value[call[c].ref] # NoValue /\ call[c].ref \notin doomed
      /\ \A d \in Account : vaultRef[d] # call[c].ref
      /\ \A p \in Request : request[p].ref # call[c].ref
      /\ \A d \in Call : Staging(d) /\ d # c => call[d].ref # call[c].ref
  BY <1>2, MintedIsOwn, StagedIsOwn
<1>4. /\ request' \in [Request -> RequestState]
      /\ \A p \in Request : p # q => request'[p] = request[p]
      /\ request'[q].status = "pending" /\ request'[q].ref = call[c].ref
      /\ request'[q].kind = ProposedKind(c) /\ request'[q].target = call[c].account
      /\ request[q].status = "none"
  <2>1. /\ ProposedKind(c) \in {"create", "update", "delete", "restore"}
        /\ call[c].account \in Account \cup {NoAccount} /\ call[c].ref \in Ref \cup {NoRef}
    BY <1>0 DEF ProposedKind, TypeOK, CallState
  <2>2. /\ request' = [request EXCEPT ![q] = Filed(ProposedKind(c), call[c].account, call[c].ref)]
        /\ request[q].status = "none" /\ request \in [Request -> RequestState]
    BY <1>0 DEF FileProposal, TypeOK
  <2> HIDE DEF ProposedKind
  <2> QED BY <1>0, <2>1, <2>2, FiledFields
<1>5. ProposedKind(c) # "create" => call[c].account \in Account
  BY <1>2 DEF ProposedKind, FileProposal
<1>6. TypeOK'
  BY <1>0, <1>1, <1>2, <1>3, <1>4, <1>5, AccountConstants DEF TypeOK, FileProposal, SetCall, rowVars, vaultVars, AccountConstants
<1>7. CallsSound'
  BY <1>0, <1>1, <1>2, <1>3, <1>4, <1>5, AccountConstants DEF CallsSound, Editing, Staging, FileProposal, SetCall, rowVars, vaultVars, AccountConstants
<1>8. RowsSound' /\ DoomedMinted'
  BY <1>0, <1>1, <1>2, <1>3, <1>4, <1>5, AccountConstants DEF RowsSound, DoomedMinted, FileProposal, SetCall, rowVars, vaultVars, AccountConstants
<1>9. RequestsSound'
  BY <1>0, <1>1, <1>2, <1>3, <1>4, <1>5, AccountConstants DEF RequestsSound, Pending, FileProposal, SetCall, rowVars, vaultVars, AccountConstants
<1>10. StagedOwn'
  BY <1>0, <1>1, <1>2, <1>3, <1>4, <1>5, AccountConstants DEF StagedOwn, Staging, FileProposal, SetCall, rowVars, vaultVars, AccountConstants
<1>11. StagedPresent'
  BY <1>0, <1>1, <1>2, <1>3, <1>4, <1>5, AccountConstants DEF StagedPresent, FileProposal, SetCall, rowVars, vaultVars, AccountConstants
<1>12. CredentialsPresent'
  BY <1>0, <1>1, <1>2, <1>3, <1>4, <1>5, AccountConstants DEF CredentialsPresent, FileProposal, SetCall, rowVars, vaultVars, AccountConstants
<1>13. ProposalsKeepSecrets'
  BY <1>0, <1>1, <1>2, <1>3, <1>4, <1>5, AccountConstants DEF ProposalsKeepSecrets, Pending, FileProposal, SetCall, rowVars, vaultVars, AccountConstants
<1> QED BY <1>6, <1>7, <1>8, <1>9, <1>10, <1>11, <1>12, <1>13 DEF IInv

\* A rollback keeps the object, or leaves it alone.
LEMMA RollbackKeeps ==
  ASSUME IInv, NEW c \in Call, Rollback(c)
  PROVE  IInv'
<1>0. /\ TypeOK /\ CallsSound /\ RowsSound /\ RequestsSound /\ StagedOwn
      /\ StagedPresent /\ DoomedMinted /\ CredentialsPresent /\ ProposalsKeepSecrets
  BY DEF IInv
<1>1. /\ call' \in [Call -> CallState]
      /\ \A d \in Call : d # c => call'[d] = call[d]
      /\ call'[c].pc = "failed" /\ call'[c].op = call[c].op
      /\ call'[c].account = call[c].account /\ call'[c].ref = call[c].ref
      /\ call'[c].previous = call[c].previous
  BY <1>0, NowFields DEF TypeOK, PC, Operation, Rollback, SetCall, rowVars, vaultVars, Put
<1>2. /\ call[c].ref \in Ref /\ doomed' = doomed /\ call[c].op = "edit"
      /\ value' \in [Ref -> Call \cup {NoValue}] /\ revision' \in [Ref -> Nat]
      /\ \A s \in Ref : value[s] # NoValue => value'[s] # NoValue
      /\ \A s \in Ref : revision[s] > 0 => revision'[s] > 0
  <2>1. /\ call[c].ref \in Ref /\ call[c].op = "edit"
        /\ call[c].previous \in Call /\ call[c].previous # NoValue
    BY <1>0 DEF TypeOK, CallsSound, Editing, CallState, Rollback
  <2>2. CASE UNCHANGED vaultVars
    BY <1>0, <2>1, <2>2 DEF TypeOK, vaultVars
  <2>3. CASE Put(call[c].ref, call[c].previous)
    BY <1>0, <2>1, <2>3 DEF TypeOK, Put
  <2> QED BY <2>2, <2>3 DEF Rollback
<1>3. /\ call[c].pc = "refused"
      /\ status' = status /\ vaultRef' = vaultRef /\ version' = version
      /\ committed' = committed /\ request' = request
  BY DEF Rollback, rowVars
<1>4. /\ \A p \in Request : request[p].ref # NoRef => request[p].ref \in Ref
      /\ \A d \in Call : call[d].pc = "minted" => Staging(d) /\ call[d].ref \in Ref
      /\ \A r \in doomed : r \in Ref
      /\ \A b \in Account : status[b] # "unborn" => vaultRef[b] \in Ref
  BY <1>0 DEF TypeOK, RequestState, CallsSound, Staging, RowsSound
<1>5. TypeOK'
  BY <1>0, <1>1, <1>2, <1>3, <1>4, AccountConstants DEF TypeOK, AccountConstants
<1>6. CallsSound'
  BY <1>0, <1>1, <1>2, <1>3, <1>4, AccountConstants DEF CallsSound, Editing, Staging, AccountConstants
<1>7. RowsSound' /\ DoomedMinted'
  BY <1>0, <1>1, <1>2, <1>3, <1>4, AccountConstants DEF RowsSound, DoomedMinted, AccountConstants
<1>8. RequestsSound'
  BY <1>0, <1>1, <1>2, <1>3, <1>4, AccountConstants DEF RequestsSound, Pending, AccountConstants
<1>9. StagedOwn'
  BY <1>0, <1>1, <1>2, <1>3, <1>4, AccountConstants DEF StagedOwn, Staging, AccountConstants
<1>10. StagedPresent'
  BY <1>0, <1>1, <1>2, <1>3, <1>4, AccountConstants DEF StagedPresent, AccountConstants
<1>11. CredentialsPresent'
  BY <1>0, <1>1, <1>2, <1>3, <1>4, AccountConstants DEF CredentialsPresent, AccountConstants
<1>12. ProposalsKeepSecrets'
  BY <1>0, <1>1, <1>2, <1>3, <1>4, AccountConstants DEF ProposalsKeepSecrets, Pending, AccountConstants
<1> QED BY <1>5, <1>6, <1>7, <1>8, <1>9, <1>10, <1>11, <1>12 DEF IInv

\* A proposal without credentials of its own touches no object.
LEMMA FilePlainKeeps ==
  ASSUME IInv, NEW q \in Request, NEW kind \in {"update", "delete", "restore"}, NEW a \in Account, FilePlain(q, kind, a)
  PROVE  IInv'
<1>0. /\ TypeOK /\ CallsSound /\ RowsSound /\ RequestsSound /\ StagedOwn
      /\ StagedPresent /\ DoomedMinted /\ CredentialsPresent /\ ProposalsKeepSecrets
  BY DEF IInv
<1>1. /\ request' \in [Request -> RequestState]
      /\ \A p \in Request : p # q => request'[p] = request[p]
      /\ request'[q].status = "pending" /\ request'[q].ref = NoRef
      /\ request'[q].kind = kind /\ request'[q].target = a
  <2>1. /\ request' = [request EXCEPT ![q] = Filed(kind, a, NoRef)]
        /\ request \in [Request -> RequestState]
    BY <1>0 DEF FilePlain, TypeOK
  <2> QED BY <1>0, <2>1, FiledFields
<1>2. \A d \in Call : Staging(d) => call[d].ref \in Ref /\ call[d].ref # NoRef
  BY <1>0, AccountConstants DEF CallsSound, AccountConstants
<1>3. TypeOK'
  BY <1>0, <1>1, <1>2, AccountConstants DEF TypeOK, FilePlain, rowVars, vaultVars, AccountConstants
<1>4. CallsSound'
  BY <1>0, <1>1, <1>2, AccountConstants DEF CallsSound, Editing, Staging, FilePlain, rowVars, vaultVars, AccountConstants
<1>5. RowsSound' /\ DoomedMinted'
  BY <1>0, <1>1, <1>2, AccountConstants DEF RowsSound, DoomedMinted, FilePlain, rowVars, vaultVars, AccountConstants
<1>6. RequestsSound'
  BY <1>0, <1>1, <1>2, AccountConstants DEF RequestsSound, Pending, FilePlain, rowVars, vaultVars, AccountConstants
<1>7. StagedOwn'
  BY <1>0, <1>1, <1>2, AccountConstants DEF StagedOwn, Staging, FilePlain, rowVars, vaultVars, AccountConstants
<1>8. StagedPresent'
  BY <1>0, <1>1, <1>2, AccountConstants DEF StagedPresent, FilePlain, rowVars, vaultVars, AccountConstants
<1>9. CredentialsPresent'
  BY <1>0, <1>1, <1>2, AccountConstants DEF CredentialsPresent, FilePlain, rowVars, vaultVars, AccountConstants
<1>10. ProposalsKeepSecrets'
  BY <1>0, <1>1, <1>2, AccountConstants DEF ProposalsKeepSecrets, Pending, FilePlain, rowVars, vaultVars, AccountConstants
<1> QED BY <1>3, <1>4, <1>5, <1>6, <1>7, <1>8, <1>9, <1>10 DEF IInv

\* Applying a creation hands the staged object to the new row.
LEMMA ApproveCreateKeeps ==
  ASSUME IInv, NEW q \in Request, NEW a \in Account, ApproveCreate(q, a)
  PROVE  IInv'
<1>0. /\ TypeOK /\ CallsSound /\ RowsSound /\ RequestsSound /\ StagedOwn
      /\ StagedPresent /\ DoomedMinted /\ CredentialsPresent /\ ProposalsKeepSecrets
  BY DEF IInv
<1>1. /\ request' \in [Request -> RequestState]
      /\ \A p \in Request :
           /\ request'[p].kind = request[p].kind
           /\ request'[p].target = request[p].target
           /\ request'[p].ref = request[p].ref
           /\ request'[p].status = "pending" <=>
                request[p].status = "pending" /\ p \notin {q} /\ p \notin {}
  <2>1. {q} \in SUBSET Request /\ {} \in SUBSET Request
    BY DEF PendingOn
  <2>2. Settle({q}, {})
    BY DEF ApproveCreate
  <2> QED BY <1>0, <2>1, <2>2, SettleEffect
<1>2. /\ \A b \in Account : status[b] # "unborn" =>
           /\ vaultRef[b] \in Ref /\ revision[vaultRef[b]] > 0
           /\ \A e \in Account : e # b => vaultRef[e] # vaultRef[b]
           /\ \A p \in Request : request[p].status = "pending" => request[p].ref # vaultRef[b]
           /\ \A d \in Call : Staging(d) => call[d].ref # vaultRef[b]
      /\ \A p \in Request : request[p].status = "pending" /\ request[p].ref # NoRef =>
           /\ request[p].ref \in Ref /\ revision[request[p].ref] > 0
           /\ \A b \in Account : vaultRef[b] # request[p].ref
           /\ \A s \in Request : s # p => request[s].ref # request[p].ref
           /\ \A d \in Call : Staging(d) => call[d].ref # request[p].ref
      /\ \A d \in Call : call[d].pc = "minted" => Staging(d)
      /\ \A d \in Call : Staging(d) => call[d].ref \in Ref
  <2>1. \A d \in Call : call[d].pc = "minted" => Staging(d)
    BY MintedIsOwn
  <2>2. \A d \in Call : Staging(d) => call[d].ref \in Ref
    BY StagedIsOwn
  <2> QED BY <2>1, <2>2, RowIsOwn, ProposalIsOwn
<1>3. /\ request[q].status = "pending" /\ request[q].ref # NoRef /\ request[q].ref \in Ref
      /\ revision[request[q].ref] > 0 /\ value[request[q].ref] # NoValue /\ request[q].ref \notin doomed
      /\ status[a] = "unborn" /\ status'[a] = "live" /\ vaultRef'[a] = request[q].ref
      /\ \A b \in Account : vaultRef[b] # request[q].ref
      /\ \A b \in Account : b # a => status'[b] = status[b] /\ vaultRef'[b] = vaultRef[b]
      /\ vaultVars' = vaultVars /\ call' = call
  BY <1>0, <1>2 DEF TypeOK, RequestsSound, ProposalsKeepSecrets, Pending, ApproveCreate, Insert
<1>4. TypeOK'
  BY <1>0, <1>1, <1>2, <1>3, AccountConstants DEF TypeOK, ApproveCreate, rowVars, vaultVars, Insert, AccountConstants
<1>5. CallsSound'
  BY <1>0, <1>1, <1>2, <1>3, AccountConstants DEF CallsSound, Editing, Staging, ApproveCreate, rowVars, vaultVars, Insert, AccountConstants
<1>6. RowsSound' /\ DoomedMinted'
  BY <1>0, <1>1, <1>2, <1>3, AccountConstants DEF RowsSound, DoomedMinted, ApproveCreate, rowVars, vaultVars, Insert, AccountConstants
<1>7. RequestsSound'
  BY <1>0, <1>1, <1>2, <1>3, AccountConstants DEF RequestsSound, Pending, ApproveCreate, rowVars, vaultVars, Insert, AccountConstants
<1>8. StagedOwn'
  BY <1>0, <1>1, <1>2, <1>3, AccountConstants DEF StagedOwn, Staging, ApproveCreate, rowVars, vaultVars, Insert, AccountConstants
<1>9. StagedPresent'
  BY <1>0, <1>1, <1>2, <1>3, AccountConstants DEF StagedPresent, ApproveCreate, rowVars, vaultVars, Insert, AccountConstants
<1>10. CredentialsPresent'
  BY <1>0, <1>1, <1>2, <1>3, AccountConstants DEF CredentialsPresent, ApproveCreate, rowVars, vaultVars, Insert, AccountConstants
<1>11. ProposalsKeepSecrets'
  BY <1>0, <1>1, <1>2, <1>3, AccountConstants DEF ProposalsKeepSecrets, Pending, ApproveCreate, rowVars, vaultVars, Insert, AccountConstants
<1> QED BY <1>4, <1>5, <1>6, <1>7, <1>8, <1>9, <1>10, <1>11 DEF IInv

\* Applying staged credentials swaps the row's object and dooms the old one, which nobody else has.
LEMMA ApproveUpdateKeeps ==
  ASSUME IInv, NEW q \in Request, ApproveUpdate(q)
  PROVE  IInv'
<1>0. /\ TypeOK /\ CallsSound /\ RowsSound /\ RequestsSound /\ StagedOwn
      /\ StagedPresent /\ DoomedMinted /\ CredentialsPresent /\ ProposalsKeepSecrets
  BY DEF IInv
<1>1. /\ request' \in [Request -> RequestState]
      /\ \A p \in Request :
           /\ request'[p].kind = request[p].kind
           /\ request'[p].target = request[p].target
           /\ request'[p].ref = request[p].ref
           /\ request'[p].status = "pending" <=>
                request[p].status = "pending" /\ p \notin {q} /\ p \notin {}
  <2>1. {q} \in SUBSET Request /\ {} \in SUBSET Request
    BY DEF PendingOn
  <2>2. Settle({q}, {})
    BY DEF ApproveUpdate
  <2> QED BY <1>0, <2>1, <2>2, SettleEffect
<1>2. /\ \A b \in Account : status[b] # "unborn" =>
           /\ vaultRef[b] \in Ref /\ revision[vaultRef[b]] > 0
           /\ \A e \in Account : e # b => vaultRef[e] # vaultRef[b]
           /\ \A p \in Request : request[p].status = "pending" => request[p].ref # vaultRef[b]
           /\ \A d \in Call : Staging(d) => call[d].ref # vaultRef[b]
      /\ \A p \in Request : request[p].status = "pending" /\ request[p].ref # NoRef =>
           /\ request[p].ref \in Ref /\ revision[request[p].ref] > 0
           /\ \A b \in Account : vaultRef[b] # request[p].ref
           /\ \A s \in Request : s # p => request[s].ref # request[p].ref
           /\ \A d \in Call : Staging(d) => call[d].ref # request[p].ref
      /\ \A d \in Call : call[d].pc = "minted" => Staging(d)
      /\ \A d \in Call : Staging(d) => call[d].ref \in Ref
  <2>1. \A d \in Call : call[d].pc = "minted" => Staging(d)
    BY MintedIsOwn
  <2>2. \A d \in Call : Staging(d) => call[d].ref \in Ref
    BY StagedIsOwn
  <2> QED BY <2>1, <2>2, RowIsOwn, ProposalIsOwn
<1>3. /\ request[q].status = "pending" /\ request[q].target \in Account
      /\ status[request[q].target] = "live" /\ vaultRef[request[q].target] \in Ref
      /\ status' = status /\ call' = call /\ value' = value /\ revision' = revision
      /\ version' \in [Account -> Nat] /\ committed' \in [Account -> Call \cup {NoValue}]
  <2>1. request[q].status = "pending" /\ request[q].kind = "update" /\ request[q].target \in Account
    BY <1>0 DEF RequestsSound, ApproveUpdate, Pending
  <2>2. request[q].ref = NoRef \/ value[request[q].ref] \in Call \cup {NoValue}
    BY <1>0, <1>2, <2>1 DEF TypeOK
  <2> QED BY <1>0, <1>2, <2>1, <2>2 DEF TypeOK, ApproveUpdate, Bump
<1>4. \/ /\ request[q].ref = NoRef /\ vaultRef' = vaultRef /\ doomed' = doomed
      \/ /\ request[q].ref # NoRef /\ request[q].ref \in Ref /\ revision[request[q].ref] > 0
         /\ value[request[q].ref] # NoValue /\ request[q].ref \notin doomed
         /\ \A b \in Account : vaultRef[b] # request[q].ref
         /\ \A p \in Request \ {q} : request[p].ref # request[q].ref
         /\ vaultRef'[request[q].target] = request[q].ref
         /\ \A b \in Account : b # request[q].target => vaultRef'[b] = vaultRef[b]
         /\ \A r : r \in doomed' <=> r \in doomed \/ r = vaultRef[request[q].target]
         /\ vaultRef' \in [Account -> Ref \cup {NoRef}] /\ doomed' \in SUBSET Ref
  <2>1. CASE request[q].ref = NoRef
    BY <2>1 DEF ApproveUpdate
  <2>2. CASE request[q].ref # NoRef
    <3>1. /\ vaultRef' = [vaultRef EXCEPT ![request[q].target] = request[q].ref]
          /\ doomed' = doomed \cup {vaultRef[request[q].target]}
      BY <2>2 DEF ApproveUpdate, Stranded
    <3>2. vaultRef \in [Account -> Ref \cup {NoRef}] /\ doomed \in SUBSET Ref
      BY <1>0 DEF TypeOK
    <3>3. /\ request[q].ref \in Ref /\ revision[request[q].ref] > 0
          /\ value[request[q].ref] # NoValue /\ request[q].ref \notin doomed
          /\ \A b \in Account : vaultRef[b] # request[q].ref
          /\ \A p \in Request \ {q} : request[p].ref # request[q].ref
      BY <2>2, <1>3, ProposalIsOwn
    <3>4. /\ vaultRef'[request[q].target] = request[q].ref
          /\ \A b \in Account : b # request[q].target => vaultRef'[b] = vaultRef[b]
          /\ vaultRef' \in [Account -> Ref \cup {NoRef}]
      BY <3>1, <3>2, <3>3, <1>3
    <3> QED BY <2>2, <1>3, <3>1, <3>2, <3>3, <3>4
  <2> QED BY <2>1, <2>2
<1>5. TypeOK'
  BY <1>0, <1>1, <1>2, <1>3, <1>4, AccountConstants DEF TypeOK, AccountConstants
<1>6. CallsSound'
  BY <1>0, <1>1, <1>2, <1>3, <1>4, AccountConstants DEF CallsSound, Editing, Staging, AccountConstants
<1>7. RowsSound' /\ DoomedMinted'
  <2>1. CASE request[q].ref = NoRef
    BY <2>1, <1>0, <1>1, <1>2, <1>3, <1>4 DEF RowsSound, DoomedMinted
  <2>2. CASE request[q].ref # NoRef
    BY <2>2, <1>0, <1>1, <1>2, <1>3, <1>4, AccountConstants DEF RowsSound, DoomedMinted, AccountConstants
  <2> QED BY <2>1, <2>2
<1>8. RequestsSound'
  BY <1>0, <1>1, <1>2, <1>3, <1>4, AccountConstants DEF RequestsSound, Pending, AccountConstants
<1>9. StagedOwn'
  <2>1. CASE request[q].ref = NoRef
    BY <2>1, <1>0, <1>1, <1>2, <1>3, <1>4 DEF StagedOwn, Staging
  <2>2. CASE request[q].ref # NoRef
    BY <2>2, <1>0, <1>1, <1>2, <1>3, <1>4, AccountConstants DEF StagedOwn, Staging, AccountConstants
  <2> QED BY <2>1, <2>2
<1>10. StagedPresent'
  BY <1>0, <1>1, <1>2, <1>3, <1>4, AccountConstants DEF StagedPresent, AccountConstants
<1>11. CredentialsPresent'
  <2>1. CASE request[q].ref = NoRef
    BY <2>1, <1>0, <1>1, <1>2, <1>3, <1>4 DEF CredentialsPresent
  <2>2. CASE request[q].ref # NoRef
    BY <2>2, <1>0, <1>1, <1>2, <1>3, <1>4, AccountConstants DEF CredentialsPresent, AccountConstants
  <2> QED BY <2>1, <2>2
<1>12. ProposalsKeepSecrets'
  <2>1. CASE request[q].ref = NoRef
    BY <2>1, <1>0, <1>1, <1>2, <1>3, <1>4 DEF ProposalsKeepSecrets, Pending
  <2>2. CASE request[q].ref # NoRef
    BY <2>2, <1>0, <1>1, <1>2, <1>3, <1>4, AccountConstants DEF ProposalsKeepSecrets, Pending, AccountConstants
  <2> QED BY <2>1, <2>2
<1> QED BY <1>5, <1>6, <1>7, <1>8, <1>9, <1>10, <1>11, <1>12 DEF IInv

\* Applying a deletion dooms what the proposals it cancels had staged.
LEMMA ApproveDeleteKeeps ==
  ASSUME IInv, NEW q \in Request, ApproveDelete(q)
  PROVE  IInv'
<1>0. /\ TypeOK /\ CallsSound /\ RowsSound /\ RequestsSound /\ StagedOwn
      /\ StagedPresent /\ DoomedMinted /\ CredentialsPresent /\ ProposalsKeepSecrets
  BY DEF IInv
<1>1. PICK others \in SUBSET Request :
      /\ \A p \in others : p # q /\ request[p].status = "pending"
      /\ Settle({q}, others) /\ doomed' = doomed \cup RefsOf(others)
  <2> DEFINE others == (IF status[request[q].target] = "live" THEN PendingOn(request[q].target) \ {q} ELSE {})
  <2>1. others \in SUBSET Request /\ \A p \in others : p # q /\ request[p].status = "pending"
    BY DEF PendingOn, Pending
  <2>2. Settle({q}, others) /\ doomed' = doomed \cup RefsOf(others)
    BY DEF ApproveDelete
  <2> QED BY <2>1, <2>2
<1>2. /\ request' \in [Request -> RequestState]
      /\ \A p \in Request :
           /\ request'[p].kind = request[p].kind
           /\ request'[p].target = request[p].target
           /\ request'[p].ref = request[p].ref
           /\ request'[p].status = "pending" <=>
                request[p].status = "pending" /\ p \notin {q} /\ p \notin others
  <2>1. {q} \in SUBSET Request
    OBVIOUS
  <2>2. others \in SUBSET Request /\ Settle({q}, others)
    BY <1>1
  <2> QED BY <1>0, <2>1, <2>2, SettleEffect
<1>3. /\ \A b \in Account : status[b] # "unborn" =>
           /\ vaultRef[b] \in Ref /\ revision[vaultRef[b]] > 0
           /\ \A e \in Account : e # b => vaultRef[e] # vaultRef[b]
           /\ \A p \in Request : request[p].status = "pending" => request[p].ref # vaultRef[b]
           /\ \A d \in Call : Staging(d) => call[d].ref # vaultRef[b]
      /\ \A p \in Request : request[p].status = "pending" /\ request[p].ref # NoRef =>
           /\ request[p].ref \in Ref /\ revision[request[p].ref] > 0
           /\ \A b \in Account : vaultRef[b] # request[p].ref
           /\ \A s \in Request : s # p => request[s].ref # request[p].ref
           /\ \A d \in Call : Staging(d) => call[d].ref # request[p].ref
      /\ \A d \in Call : call[d].pc = "minted" => Staging(d)
      /\ \A d \in Call : Staging(d) => call[d].ref \in Ref
  <2>1. \A d \in Call : call[d].pc = "minted" => Staging(d)
    BY MintedIsOwn
  <2>2. \A d \in Call : Staging(d) => call[d].ref \in Ref
    BY StagedIsOwn
  <2> QED BY <2>1, <2>2, RowIsOwn, ProposalIsOwn
<1>4. /\ request[q].target \in Account
      /\ status[request[q].target] \in {"live", "trashed", "expired"}
      /\ status' = [status EXCEPT ![request[q].target] = IF @ = "live" THEN "trashed" ELSE @]
      /\ vaultRef' = vaultRef /\ version' = version /\ committed' = committed
      /\ value' = value /\ revision' = revision /\ call' = call
  <2>1. request[q].target \in Account
    BY <1>0, AccountConstants DEF RequestsSound, ApproveDelete, Pending, AccountConstants
  <2>2. request[q].target # NoAccount
    BY <2>1, AccountConstants DEF AccountConstants
  <2> QED BY <2>1, <2>2 DEF ApproveDelete, Unmoved, Exists
<1>5. \A r : r \in doomed' <=> r \in doomed \/ (r # NoRef /\ \E p \in others : r = request[p].ref)
  BY <1>1 DEF RefsOf
<1>6. TypeOK'
  BY <1>0, <1>1, <1>2, <1>3, <1>4, <1>5, AccountConstants DEF TypeOK, AccountConstants
<1>7. CallsSound'
  BY <1>0, <1>1, <1>2, <1>3, <1>4, <1>5, AccountConstants DEF CallsSound, Editing, Staging, AccountConstants
<1>8. RowsSound' /\ DoomedMinted'
  BY <1>0, <1>1, <1>2, <1>3, <1>4, <1>5, AccountConstants DEF RowsSound, DoomedMinted, AccountConstants
<1>9. RequestsSound'
  BY <1>0, <1>1, <1>2, <1>3, <1>4, <1>5, AccountConstants DEF RequestsSound, Pending, AccountConstants
<1>10. StagedOwn'
  BY <1>0, <1>1, <1>2, <1>3, <1>4, <1>5, AccountConstants DEF StagedOwn, Staging, AccountConstants
<1>11. StagedPresent'
  BY <1>0, <1>1, <1>2, <1>3, <1>4, <1>5, AccountConstants DEF StagedPresent, AccountConstants
<1>12. CredentialsPresent'
  BY <1>0, <1>1, <1>2, <1>3, <1>4, <1>5, AccountConstants DEF CredentialsPresent, AccountConstants
<1>13. ProposalsKeepSecrets'
  BY <1>0, <1>1, <1>2, <1>3, <1>4, <1>5, AccountConstants DEF ProposalsKeepSecrets, Pending, AccountConstants
<1> QED BY <1>6, <1>7, <1>8, <1>9, <1>10, <1>11, <1>12, <1>13 DEF IInv

\* Applying a restore touches no object.
LEMMA ApproveRestoreKeeps ==
  ASSUME IInv, NEW q \in Request, ApproveRestore(q)
  PROVE  IInv'
<1>0. /\ TypeOK /\ CallsSound /\ RowsSound /\ RequestsSound /\ StagedOwn
      /\ StagedPresent /\ DoomedMinted /\ CredentialsPresent /\ ProposalsKeepSecrets
  BY DEF IInv
<1>1. /\ request' \in [Request -> RequestState]
      /\ \A p \in Request :
           /\ request'[p].kind = request[p].kind
           /\ request'[p].target = request[p].target
           /\ request'[p].ref = request[p].ref
           /\ request'[p].status = "pending" <=>
                request[p].status = "pending" /\ p \notin {q} /\ p \notin {}
  <2>1. {q} \in SUBSET Request /\ {} \in SUBSET Request
    BY DEF PendingOn
  <2>2. Settle({q}, {})
    BY DEF ApproveRestore
  <2> QED BY <1>0, <2>1, <2>2, SettleEffect
<1>2. request[q].target \in Account
  BY <1>0 DEF RequestsSound, ApproveRestore, Pending
<1>3. TypeOK'
  BY <1>0, <1>1, <1>2, AccountConstants DEF TypeOK, ApproveRestore, rowVars, vaultVars, AccountConstants
<1>4. CallsSound'
  BY <1>0, <1>1, <1>2, AccountConstants DEF CallsSound, Editing, Staging, ApproveRestore, rowVars, vaultVars, AccountConstants
<1>5. RowsSound' /\ DoomedMinted'
  BY <1>0, <1>1, <1>2, AccountConstants DEF RowsSound, DoomedMinted, ApproveRestore, rowVars, vaultVars, AccountConstants
<1>6. RequestsSound'
  BY <1>0, <1>1, <1>2, AccountConstants DEF RequestsSound, Pending, ApproveRestore, rowVars, vaultVars, AccountConstants
<1>7. StagedOwn'
  BY <1>0, <1>1, <1>2, AccountConstants DEF StagedOwn, Staging, ApproveRestore, rowVars, vaultVars, AccountConstants
<1>8. StagedPresent'
  BY <1>0, <1>1, <1>2, AccountConstants DEF StagedPresent, ApproveRestore, rowVars, vaultVars, AccountConstants
<1>9. CredentialsPresent'
  BY <1>0, <1>1, <1>2, AccountConstants DEF CredentialsPresent, ApproveRestore, rowVars, vaultVars, AccountConstants
<1>10. ProposalsKeepSecrets'
  BY <1>0, <1>1, <1>2, AccountConstants DEF ProposalsKeepSecrets, Pending, ApproveRestore, rowVars, vaultVars, AccountConstants
<1> QED BY <1>3, <1>4, <1>5, <1>6, <1>7, <1>8, <1>9, <1>10 DEF IInv

\* Giving up a proposal dooms what it had staged.
LEMMA CloseKeeps ==
  ASSUME IInv, NEW q \in Request, Close(q)
  PROVE  IInv'
<1>0. /\ TypeOK /\ CallsSound /\ RowsSound /\ RequestsSound /\ StagedOwn
      /\ StagedPresent /\ DoomedMinted /\ CredentialsPresent /\ ProposalsKeepSecrets
  BY DEF IInv
<1>1. /\ request' \in [Request -> RequestState]
      /\ \A p \in Request :
           /\ request'[p].kind = request[p].kind
           /\ request'[p].target = request[p].target
           /\ request'[p].ref = request[p].ref
           /\ request'[p].status = "pending" <=>
                request[p].status = "pending" /\ p \notin {} /\ p \notin {q}
  <2>1. {} \in SUBSET Request /\ {q} \in SUBSET Request
    BY DEF PendingOn
  <2>2. Settle({}, {q})
    BY DEF Close
  <2> QED BY <1>0, <2>1, <2>2, SettleEffect
<1>2. /\ \A b \in Account : status[b] # "unborn" =>
           /\ vaultRef[b] \in Ref /\ revision[vaultRef[b]] > 0
           /\ \A e \in Account : e # b => vaultRef[e] # vaultRef[b]
           /\ \A p \in Request : request[p].status = "pending" => request[p].ref # vaultRef[b]
           /\ \A d \in Call : Staging(d) => call[d].ref # vaultRef[b]
      /\ \A p \in Request : request[p].status = "pending" /\ request[p].ref # NoRef =>
           /\ request[p].ref \in Ref /\ revision[request[p].ref] > 0
           /\ \A b \in Account : vaultRef[b] # request[p].ref
           /\ \A s \in Request : s # p => request[s].ref # request[p].ref
           /\ \A d \in Call : Staging(d) => call[d].ref # request[p].ref
      /\ \A d \in Call : call[d].pc = "minted" => Staging(d)
      /\ \A d \in Call : Staging(d) => call[d].ref \in Ref
  <2>1. \A d \in Call : call[d].pc = "minted" => Staging(d)
    BY MintedIsOwn
  <2>2. \A d \in Call : Staging(d) => call[d].ref \in Ref
    BY StagedIsOwn
  <2> QED BY <2>1, <2>2, RowIsOwn, ProposalIsOwn
<1>3. \A r : r \in doomed' <=> r \in doomed \/ (r # NoRef /\ r = request[q].ref)
  BY DEF Close, RefsOf
<1>4. /\ status' = status /\ vaultRef' = vaultRef /\ version' = version /\ committed' = committed
      /\ value' = value /\ revision' = revision /\ call' = call /\ request[q].status = "pending"
  BY DEF Close, rowVars, Pending
<1>5. TypeOK'
  BY <1>0, <1>1, <1>2, <1>3, <1>4, AccountConstants DEF TypeOK, AccountConstants
<1>6. CallsSound'
  BY <1>0, <1>1, <1>2, <1>3, <1>4, AccountConstants DEF CallsSound, Editing, Staging, AccountConstants
<1>7. RowsSound' /\ DoomedMinted'
  BY <1>0, <1>1, <1>2, <1>3, <1>4, AccountConstants DEF RowsSound, DoomedMinted, AccountConstants
<1>8. RequestsSound'
  BY <1>0, <1>1, <1>2, <1>3, <1>4, AccountConstants DEF RequestsSound, Pending, AccountConstants
<1>9. StagedOwn'
  BY <1>0, <1>1, <1>2, <1>3, <1>4, AccountConstants DEF StagedOwn, Staging, AccountConstants
<1>10. StagedPresent'
  BY <1>0, <1>1, <1>2, <1>3, <1>4, AccountConstants DEF StagedPresent, AccountConstants
<1>11. CredentialsPresent'
  BY <1>0, <1>1, <1>2, <1>3, <1>4, AccountConstants DEF CredentialsPresent, AccountConstants
<1>12. ProposalsKeepSecrets'
  BY <1>0, <1>1, <1>2, <1>3, <1>4, AccountConstants DEF ProposalsKeepSecrets, Pending, AccountConstants
<1> QED BY <1>5, <1>6, <1>7, <1>8, <1>9, <1>10, <1>11, <1>12 DEF IInv

\* A metadata edit moves the version and nothing else.
LEMMA EditMetadataKeeps ==
  ASSUME IInv, NEW a \in Account, EditMetadata(a)
  PROVE  IInv'
<1>0. /\ TypeOK /\ CallsSound /\ RowsSound /\ RequestsSound /\ StagedOwn
      /\ StagedPresent /\ DoomedMinted /\ CredentialsPresent /\ ProposalsKeepSecrets
  BY DEF IInv
<1>1. TypeOK'
  BY <1>0, AccountConstants DEF TypeOK, EditMetadata, rowVars, vaultVars, Bump, AccountConstants
<1>2. CallsSound'
  BY <1>0, AccountConstants DEF CallsSound, Editing, Staging, EditMetadata, rowVars, vaultVars, Bump, AccountConstants
<1>3. RowsSound' /\ DoomedMinted'
  BY <1>0, AccountConstants DEF RowsSound, DoomedMinted, EditMetadata, rowVars, vaultVars, Bump, AccountConstants
<1>4. RequestsSound'
  BY <1>0, AccountConstants DEF RequestsSound, Pending, EditMetadata, rowVars, vaultVars, Bump, AccountConstants
<1>5. StagedOwn'
  BY <1>0, AccountConstants DEF StagedOwn, Staging, EditMetadata, rowVars, vaultVars, Bump, AccountConstants
<1>6. StagedPresent'
  BY <1>0, AccountConstants DEF StagedPresent, EditMetadata, rowVars, vaultVars, Bump, AccountConstants
<1>7. CredentialsPresent'
  BY <1>0, AccountConstants DEF CredentialsPresent, EditMetadata, rowVars, vaultVars, Bump, AccountConstants
<1>8. ProposalsKeepSecrets'
  BY <1>0, AccountConstants DEF ProposalsKeepSecrets, Pending, EditMetadata, rowVars, vaultVars, Bump, AccountConstants
<1> QED BY <1>1, <1>2, <1>3, <1>4, <1>5, <1>6, <1>7, <1>8 DEF IInv

\* Removing an account dooms what the proposals it cancels had staged.
LEMMA RemoveKeeps ==
  ASSUME IInv, NEW a \in Account, Remove(a)
  PROVE  IInv'
<1>0. /\ TypeOK /\ CallsSound /\ RowsSound /\ RequestsSound /\ StagedOwn
      /\ StagedPresent /\ DoomedMinted /\ CredentialsPresent /\ ProposalsKeepSecrets
  BY DEF IInv
<1>1. /\ request' \in [Request -> RequestState]
      /\ \A p \in Request :
           /\ request'[p].kind = request[p].kind
           /\ request'[p].target = request[p].target
           /\ request'[p].ref = request[p].ref
           /\ request'[p].status = "pending" <=>
                request[p].status = "pending" /\ p \notin {} /\ p \notin PendingOn(a)
  <2>1. {} \in SUBSET Request /\ PendingOn(a) \in SUBSET Request
    BY DEF PendingOn
  <2>2. Settle({}, PendingOn(a))
    BY DEF Remove
  <2> QED BY <1>0, <2>1, <2>2, SettleEffect
<1>2. /\ \A b \in Account : status[b] # "unborn" =>
           /\ vaultRef[b] \in Ref /\ revision[vaultRef[b]] > 0
           /\ \A e \in Account : e # b => vaultRef[e] # vaultRef[b]
           /\ \A p \in Request : request[p].status = "pending" => request[p].ref # vaultRef[b]
           /\ \A d \in Call : Staging(d) => call[d].ref # vaultRef[b]
      /\ \A p \in Request : request[p].status = "pending" /\ request[p].ref # NoRef =>
           /\ request[p].ref \in Ref /\ revision[request[p].ref] > 0
           /\ \A b \in Account : vaultRef[b] # request[p].ref
           /\ \A s \in Request : s # p => request[s].ref # request[p].ref
           /\ \A d \in Call : Staging(d) => call[d].ref # request[p].ref
      /\ \A d \in Call : call[d].pc = "minted" => Staging(d)
      /\ \A d \in Call : Staging(d) => call[d].ref \in Ref
  <2>1. \A d \in Call : call[d].pc = "minted" => Staging(d)
    BY MintedIsOwn
  <2>2. \A d \in Call : Staging(d) => call[d].ref \in Ref
    BY StagedIsOwn
  <2> QED BY <2>1, <2>2, RowIsOwn, ProposalIsOwn
<1>3. /\ \A r : r \in doomed' <=> r \in doomed \/ (r # NoRef /\ \E p \in PendingOn(a) : r = request[p].ref)
      /\ \A p \in PendingOn(a) : p \in Request /\ request[p].status = "pending"
  BY DEF Remove, RefsOf, PendingOn, Pending
<1>4. /\ status[a] = "live" /\ status' = [status EXCEPT ![a] = "trashed"]
      /\ vaultRef' = vaultRef /\ version' = version /\ committed' = committed
      /\ value' = value /\ revision' = revision /\ call' = call
  BY DEF Remove, rowVars
<1>5. TypeOK'
  BY <1>0, <1>1, <1>2, <1>3, <1>4, AccountConstants DEF TypeOK, AccountConstants
<1>6. CallsSound'
  BY <1>0, <1>1, <1>2, <1>3, <1>4, AccountConstants DEF CallsSound, Editing, Staging, AccountConstants
<1>7. RowsSound' /\ DoomedMinted'
  BY <1>0, <1>1, <1>2, <1>3, <1>4, AccountConstants DEF RowsSound, DoomedMinted, AccountConstants
<1>8. RequestsSound'
  BY <1>0, <1>1, <1>2, <1>3, <1>4, AccountConstants DEF RequestsSound, Pending, AccountConstants
<1>9. StagedOwn'
  BY <1>0, <1>1, <1>2, <1>3, <1>4, AccountConstants DEF StagedOwn, Staging, AccountConstants
<1>10. StagedPresent'
  BY <1>0, <1>1, <1>2, <1>3, <1>4, AccountConstants DEF StagedPresent, AccountConstants
<1>11. CredentialsPresent'
  BY <1>0, <1>1, <1>2, <1>3, <1>4, AccountConstants DEF CredentialsPresent, AccountConstants
<1>12. ProposalsKeepSecrets'
  BY <1>0, <1>1, <1>2, <1>3, <1>4, AccountConstants DEF ProposalsKeepSecrets, Pending, AccountConstants
<1> QED BY <1>5, <1>6, <1>7, <1>8, <1>9, <1>10, <1>11, <1>12 DEF IInv

\* A restore touches no object.
LEMMA RestoreKeeps ==
  ASSUME IInv, NEW a \in Account, Restore(a)
  PROVE  IInv'
<1>0. /\ TypeOK /\ CallsSound /\ RowsSound /\ RequestsSound /\ StagedOwn
      /\ StagedPresent /\ DoomedMinted /\ CredentialsPresent /\ ProposalsKeepSecrets
  BY DEF IInv
<1>1. TypeOK'
  BY <1>0, AccountConstants DEF TypeOK, Restore, rowVars, vaultVars, AccountConstants
<1>2. CallsSound'
  BY <1>0, AccountConstants DEF CallsSound, Editing, Staging, Restore, rowVars, vaultVars, AccountConstants
<1>3. RowsSound' /\ DoomedMinted'
  BY <1>0, AccountConstants DEF RowsSound, DoomedMinted, Restore, rowVars, vaultVars, AccountConstants
<1>4. RequestsSound'
  BY <1>0, AccountConstants DEF RequestsSound, Pending, Restore, rowVars, vaultVars, AccountConstants
<1>5. StagedOwn'
  BY <1>0, AccountConstants DEF StagedOwn, Staging, Restore, rowVars, vaultVars, AccountConstants
<1>6. StagedPresent'
  BY <1>0, AccountConstants DEF StagedPresent, Restore, rowVars, vaultVars, AccountConstants
<1>7. CredentialsPresent'
  BY <1>0, AccountConstants DEF CredentialsPresent, Restore, rowVars, vaultVars, AccountConstants
<1>8. ProposalsKeepSecrets'
  BY <1>0, AccountConstants DEF ProposalsKeepSecrets, Pending, Restore, rowVars, vaultVars, AccountConstants
<1> QED BY <1>1, <1>2, <1>3, <1>4, <1>5, <1>6, <1>7, <1>8 DEF IInv

\* Nor does the end of the restore window.
LEMMA ExpireKeeps ==
  ASSUME IInv, NEW a \in Account, Expire(a)
  PROVE  IInv'
<1>0. /\ TypeOK /\ CallsSound /\ RowsSound /\ RequestsSound /\ StagedOwn
      /\ StagedPresent /\ DoomedMinted /\ CredentialsPresent /\ ProposalsKeepSecrets
  BY DEF IInv
<1>1. TypeOK'
  BY <1>0, AccountConstants DEF TypeOK, Expire, rowVars, vaultVars, AccountConstants
<1>2. CallsSound'
  BY <1>0, AccountConstants DEF CallsSound, Editing, Staging, Expire, rowVars, vaultVars, AccountConstants
<1>3. RowsSound' /\ DoomedMinted'
  BY <1>0, AccountConstants DEF RowsSound, DoomedMinted, Expire, rowVars, vaultVars, AccountConstants
<1>4. RequestsSound'
  BY <1>0, AccountConstants DEF RequestsSound, Pending, Expire, rowVars, vaultVars, AccountConstants
<1>5. StagedOwn'
  BY <1>0, AccountConstants DEF StagedOwn, Staging, Expire, rowVars, vaultVars, AccountConstants
<1>6. StagedPresent'
  BY <1>0, AccountConstants DEF StagedPresent, Expire, rowVars, vaultVars, AccountConstants
<1>7. CredentialsPresent'
  BY <1>0, AccountConstants DEF CredentialsPresent, Expire, rowVars, vaultVars, AccountConstants
<1>8. ProposalsKeepSecrets'
  BY <1>0, AccountConstants DEF ProposalsKeepSecrets, Pending, Expire, rowVars, vaultVars, AccountConstants
<1> QED BY <1>1, <1>2, <1>3, <1>4, <1>5, <1>6, <1>7, <1>8 DEF IInv

\* The purge drops a row whose object is gone.
LEMMA PurgeRowKeeps ==
  ASSUME IInv, NEW a \in Account, PurgeRow(a)
  PROVE  IInv'
<1>0. /\ TypeOK /\ CallsSound /\ RowsSound /\ RequestsSound /\ StagedOwn
      /\ StagedPresent /\ DoomedMinted /\ CredentialsPresent /\ ProposalsKeepSecrets
  BY DEF IInv
<1>1. TypeOK'
  BY <1>0, AccountConstants DEF TypeOK, PurgeRow, rowVars, vaultVars, AccountConstants
<1>2. CallsSound'
  BY <1>0, AccountConstants DEF CallsSound, Editing, Staging, PurgeRow, rowVars, vaultVars, AccountConstants
<1>3. RowsSound' /\ DoomedMinted'
  BY <1>0, AccountConstants DEF RowsSound, DoomedMinted, PurgeRow, rowVars, vaultVars, AccountConstants
<1>4. RequestsSound'
  BY <1>0, AccountConstants DEF RequestsSound, Pending, PurgeRow, rowVars, vaultVars, AccountConstants
<1>5. StagedOwn'
  BY <1>0, AccountConstants DEF StagedOwn, Staging, PurgeRow, rowVars, vaultVars, AccountConstants
<1>6. StagedPresent'
  BY <1>0, AccountConstants DEF StagedPresent, PurgeRow, rowVars, vaultVars, AccountConstants
<1>7. CredentialsPresent'
  BY <1>0, AccountConstants DEF CredentialsPresent, PurgeRow, rowVars, vaultVars, AccountConstants
<1>8. ProposalsKeepSecrets'
  BY <1>0, AccountConstants DEF ProposalsKeepSecrets, Pending, PurgeRow, rowVars, vaultVars, AccountConstants
<1> QED BY <1>1, <1>2, <1>3, <1>4, <1>5, <1>6, <1>7, <1>8 DEF IInv

\* The purge deletes an object of a row that cannot come back.
LEMMA PurgeObjectKeeps ==
  ASSUME IInv, NEW a \in Account, PurgeObject(a)
  PROVE  IInv'
<1>0. /\ TypeOK /\ CallsSound /\ RowsSound /\ RequestsSound /\ StagedOwn
      /\ StagedPresent /\ DoomedMinted /\ CredentialsPresent /\ ProposalsKeepSecrets
  BY DEF IInv
<1>1. /\ \A b \in Account : status[b] # "unborn" =>
           /\ vaultRef[b] \in Ref /\ revision[vaultRef[b]] > 0
           /\ \A e \in Account : e # b => vaultRef[e] # vaultRef[b]
           /\ \A p \in Request : request[p].status = "pending" => request[p].ref # vaultRef[b]
           /\ \A d \in Call : Staging(d) => call[d].ref # vaultRef[b]
      /\ \A p \in Request : request[p].status = "pending" /\ request[p].ref # NoRef =>
           /\ request[p].ref \in Ref /\ revision[request[p].ref] > 0
           /\ \A b \in Account : vaultRef[b] # request[p].ref
           /\ \A s \in Request : s # p => request[s].ref # request[p].ref
           /\ \A d \in Call : Staging(d) => call[d].ref # request[p].ref
      /\ \A d \in Call : call[d].pc = "minted" => Staging(d)
      /\ \A d \in Call : Staging(d) => call[d].ref \in Ref
  <2>1. \A d \in Call : call[d].pc = "minted" => Staging(d)
    BY MintedIsOwn
  <2>2. \A d \in Call : Staging(d) => call[d].ref \in Ref
    BY StagedIsOwn
  <2> QED BY <2>1, <2>2, RowIsOwn, ProposalIsOwn
<1>2. /\ status[a] = "expired" /\ status' = status /\ vaultRef' = vaultRef /\ version' = version
      /\ committed' = committed /\ revision' = revision /\ call' = call /\ request' = request
      /\ value' \in [Ref -> Call \cup {NoValue}]
      /\ \A d \in Call : Staging(d)' <=> Staging(d)
      /\ /\ vaultRef[a] \in Ref /\ doomed' = doomed
      /\ \A s \in Ref : s # vaultRef[a] => value'[s] = value[s]
  BY <1>0, <1>1 DEF PurgeObject, TypeOK, rowVars, Staging
<1>3. TypeOK'
  BY <1>0, <1>1, <1>2, AccountConstants DEF TypeOK, AccountConstants
<1>4. CallsSound'
  BY <1>0, <1>1, <1>2, AccountConstants DEF CallsSound, Editing, Staging, AccountConstants
<1>5. RowsSound' /\ DoomedMinted'
  BY <1>0, <1>1, <1>2, AccountConstants DEF RowsSound, DoomedMinted, AccountConstants
<1>6. RequestsSound'
  BY <1>0, <1>1, <1>2, AccountConstants DEF RequestsSound, Pending, AccountConstants
<1>7. StagedOwn'
  BY <1>0, <1>1, <1>2, AccountConstants DEF StagedOwn, Staging, AccountConstants
<1>8. StagedPresent'
  BY <1>0, <1>1, <1>2, AccountConstants DEF StagedPresent, AccountConstants
<1>9. CredentialsPresent'
  BY <1>0, <1>1, <1>2, AccountConstants DEF CredentialsPresent, AccountConstants
<1>10. ProposalsKeepSecrets'
  BY <1>0, <1>1, <1>2, AccountConstants DEF ProposalsKeepSecrets, Pending, AccountConstants
<1> QED BY <1>3, <1>4, <1>5, <1>6, <1>7, <1>8, <1>9, <1>10 DEF IInv

\* A scheduled deletion takes an object nobody needs.
LEMMA RunDeleteKeeps ==
  ASSUME IInv, NEW r \in Ref, RunDelete(r)
  PROVE  IInv'
<1>0. /\ TypeOK /\ CallsSound /\ RowsSound /\ RequestsSound /\ StagedOwn
      /\ StagedPresent /\ DoomedMinted /\ CredentialsPresent /\ ProposalsKeepSecrets
  BY DEF IInv
<1>1. /\ \A b \in Account : status[b] # "unborn" =>
           /\ vaultRef[b] \in Ref /\ revision[vaultRef[b]] > 0
           /\ \A e \in Account : e # b => vaultRef[e] # vaultRef[b]
           /\ \A p \in Request : request[p].status = "pending" => request[p].ref # vaultRef[b]
           /\ \A d \in Call : Staging(d) => call[d].ref # vaultRef[b]
      /\ \A p \in Request : request[p].status = "pending" /\ request[p].ref # NoRef =>
           /\ request[p].ref \in Ref /\ revision[request[p].ref] > 0
           /\ \A b \in Account : vaultRef[b] # request[p].ref
           /\ \A s \in Request : s # p => request[s].ref # request[p].ref
           /\ \A d \in Call : Staging(d) => call[d].ref # request[p].ref
      /\ \A d \in Call : call[d].pc = "minted" => Staging(d)
      /\ \A d \in Call : Staging(d) => call[d].ref \in Ref
  <2>1. \A d \in Call : call[d].pc = "minted" => Staging(d)
    BY MintedIsOwn
  <2>2. \A d \in Call : Staging(d) => call[d].ref \in Ref
    BY StagedIsOwn
  <2> QED BY <2>1, <2>2, RowIsOwn, ProposalIsOwn
<1>2. /\ r \in doomed /\ doomed' = doomed \ {r}
      /\ \A s \in Ref : s # r => value'[s] = value[s]
  BY <1>0 DEF RunDelete, TypeOK
<1>3. TypeOK'
  BY <1>0, <1>1, <1>2, AccountConstants DEF TypeOK, RunDelete, rowVars, vaultVars, AccountConstants
<1>4. CallsSound'
  BY <1>0, <1>1, <1>2, AccountConstants DEF CallsSound, Editing, Staging, RunDelete, rowVars, vaultVars, AccountConstants
<1>5. RowsSound' /\ DoomedMinted'
  BY <1>0, <1>1, <1>2, AccountConstants DEF RowsSound, DoomedMinted, RunDelete, rowVars, vaultVars, AccountConstants
<1>6. RequestsSound'
  BY <1>0, <1>1, <1>2, AccountConstants DEF RequestsSound, Pending, RunDelete, rowVars, vaultVars, AccountConstants
<1>7. StagedOwn'
  BY <1>0, <1>1, <1>2, AccountConstants DEF StagedOwn, Staging, RunDelete, rowVars, vaultVars, AccountConstants
<1>8. StagedPresent'
  BY <1>0, <1>1, <1>2, AccountConstants DEF StagedPresent, RunDelete, rowVars, vaultVars, AccountConstants
<1>9. CredentialsPresent'
  BY <1>0, <1>1, <1>2, AccountConstants DEF CredentialsPresent, RunDelete, rowVars, vaultVars, AccountConstants
<1>10. ProposalsKeepSecrets'
  BY <1>0, <1>1, <1>2, AccountConstants DEF ProposalsKeepSecrets, Pending, RunDelete, rowVars, vaultVars, AccountConstants
<1> QED BY <1>3, <1>4, <1>5, <1>6, <1>7, <1>8, <1>9, <1>10 DEF IInv

\* Every step keeps the invariant.
LEMMA NextKeeps == IInv /\ [Next]_vars => IInv'
<1> SUFFICES ASSUME IInv, [Next]_vars PROVE IInv'
  OBVIOUS
<1>1. ASSUME NEW c \in Call, CallStep(c) PROVE IInv'
  <2>1. ASSUME NEW op \in Operation, NEW r \in Ref, BeginCreate(c, op, r) PROVE IInv'
    BY <2>1, BeginCreateKeeps
  <2>2. ASSUME NEW r \in Ref, MintProposed(c, r) PROVE IInv'
    BY <2>2, MintProposedKeeps
  <2>3. ASSUME NEW a \in Account, CommitCreate(c, a) PROVE IInv'
    BY <2>3, CommitCreateKeeps
  <2>4. ASSUME NEW a \in Account, BeginEdit(c, a) PROVE IInv'
    BY <2>4, BeginEditKeeps
  <2>5. ASSUME NEW a \in Account, BeginProposal(c, a) PROVE IInv'
    BY <2>5, BeginProposalKeeps
  <2>6. ASSUME NEW q \in Request, FileProposal(c, q) PROVE IInv'
    BY <2>6, FileProposalKeeps
  <2>7. CASE ReadPrevious(c)
    BY <2>7, ReadPreviousKeeps
  <2>8. CASE WriteInPlace(c)
    BY <2>8, WriteInPlaceKeeps
  <2>9. CASE WriteLost(c)
    BY <2>9, WriteLostKeeps
  <2>10. CASE VaultThrows(c)
    BY <2>10, VaultThrowsKeeps
  <2>11. CASE CommitEdit(c)
    BY <2>11, CommitEditKeeps
  <2>12. CASE MutationThrows(c)
    BY <2>12, MutationThrowsKeeps
  <2>13. CASE Rollback(c)
    BY <2>13, RollbackKeeps
  <2>14. CASE CleanUp(c)
    BY <2>14, CleanUpKeeps
  <2>15. CASE CallCrashes(c)
    BY <2>15, CallCrashesKeeps
  <2>16. CASE FileDuplicate(c)
    BY <2>16, FileDuplicateKeeps
  <2> QED BY <1>1, <2>1, <2>2, <2>3, <2>4, <2>5, <2>6, <2>7, <2>8, <2>9, <2>10, <2>11,
             <2>12, <2>13, <2>14, <2>15, <2>16 DEF CallStep
<1>2. ASSUME NEW q \in Request, RequestStep(q) PROVE IInv'
  <2>1. ASSUME NEW kind \in {"update", "delete", "restore"}, NEW a \in Account,
               FilePlain(q, kind, a)
        PROVE  IInv'
    BY <2>1, FilePlainKeeps
  <2>2. ASSUME NEW a \in Account, ApproveCreate(q, a) PROVE IInv'
    BY <2>2, ApproveCreateKeeps
  <2>3. CASE ApproveUpdate(q)
    BY <2>3, ApproveUpdateKeeps
  <2>4. CASE ApproveDelete(q)
    BY <2>4, ApproveDeleteKeeps
  <2>5. CASE ApproveRestore(q)
    BY <2>5, ApproveRestoreKeeps
  <2>6. CASE Close(q)
    BY <2>6, CloseKeeps
  <2> QED BY <1>2, <2>1, <2>2, <2>3, <2>4, <2>5, <2>6 DEF RequestStep
<1>3. ASSUME NEW a \in Account, RowStep(a) PROVE IInv'
  BY <1>3, EditMetadataKeeps, RemoveKeeps, RestoreKeeps, ExpireKeeps, PurgeObjectKeeps,
     PurgeRowKeeps DEF RowStep
<1>4. ASSUME NEW r \in Ref, RunDelete(r) PROVE IInv'
  BY <1>4, RunDeleteKeeps
<1>5. CASE UNCHANGED vars
  BY <1>5 DEF vars, IInv, TypeOK, CallsSound, Editing, Staging, RowsSound, RequestsSound,
     StagedOwn, StagedPresent, DoomedMinted, CredentialsPresent, ProposalsKeepSecrets, Pending
<1> QED BY <1>1, <1>2, <1>3, <1>4, <1>5 DEF Next

LEMMA Invariance == Spec => []IInv
BY InitIInv, NextKeeps, PTL DEF Spec

(***************************************************************************)
(* The results.                                                            *)
(***************************************************************************)

\* Every variable keeps its type (accounts/values.ts, accounts/mutations.ts,
\* changeRequests/mutations.ts).
THEOREM TypeCorrect == Spec => []TypeOK
<1>1. IInv => TypeOK
  BY DEF IInv
<1> QED BY <1>1, Invariance, PTL

\* An account that can be used or restored has credentials, for every
\* overlap of edits, proposals, reviews, deletions and failures.
THEOREM CredentialsKept == Spec => []CredentialsPresent
<1>1. IInv => CredentialsPresent
  BY DEF IInv
<1> QED BY <1>1, Invariance, PTL

\* What a proposal staged stays there, and its own, until it is decided.
THEOREM ProposalsKept == Spec => []ProposalsKeepSecrets
<1>1. IInv => ProposalsKeepSecrets
  BY DEF IInv
<1> QED BY <1>1, Invariance, PTL

(***************************************************************************)
(* Stale proposals.                                                        *)
(***************************************************************************)

\* The request of a creation aims at no account, and one that aims at an
\* account was filed when the row existed.  While the version it expects is
\* the account's, no credentials were committed since it was filed.
SawCurrent ==
  /\ \A c \in Call : call[c].pc = "minted" /\ call[c].op = "proposeCreate" =>
       call[c].account = NoAccount
  /\ \A q \in Request : Pending(q) /\ request[q].kind = "create" =>
       request[q].target = NoAccount
  /\ \A q \in Request : Pending(q) /\ request[q].target \in Account =>
       /\ status[request[q].target] # "unborn"
       /\ request[q].expected <= version[request[q].target]
       /\ version[request[q].target] = request[q].expected =>
            request[q].saw = committed[request[q].target]

LEMMA SettleHistory ==
  ASSUME TypeOK, NEW A \in SUBSET Request, NEW C \in SUBSET Request, Settle(A, C)
  PROVE  \A q \in Request :
           /\ request'[q].expected = request[q].expected
           /\ request'[q].saw = request[q].saw
           /\ request'[q].status = "applied" => q \in A \/ request[q].status = "applied"
<1>1. \A q \in Request : request[q] \in RequestState /\ request'[q] = Outcome(q, A, C)
  BY DEF TypeOK, Settle
<1>2. \A q \in Request, how \in {"applied", "closed"} :
        /\ Settled(q, how).expected = request[q].expected
        /\ Settled(q, how).saw = request[q].saw
        /\ Settled(q, how).status = how
  BY <1>1 DEF Settled, RequestState
<1> QED BY <1>1, <1>2 DEF Outcome

\* A row, once there, stays or is purged; what it was told changes only
\* together with its version.
LEMMA RowMoves ==
  ASSUME IInv, [Next]_vars, NEW a \in Account, status[a] # "unborn"
  PROVE  /\ status'[a] # "unborn"
         /\ \/ version'[a] = version[a] /\ committed'[a] = committed[a]
            \/ version'[a] = version[a] + 1
<1>0. /\ TypeOK /\ version[a] \in Nat
  BY DEF IInv, TypeOK
<1>1. ASSUME NEW b \in Account, NEW r, NEW owner, Insert(b, r, owner)
      PROVE  b # a /\ status'[a] = status[a] /\ version'[a] = version[a] /\ committed'[a] = committed[a]
  BY <1>0, <1>1 DEF Insert, TypeOK
<1>2. ASSUME NEW b, NEW owner, Bump(b, owner)
      PROVE  \/ version'[a] = version[a] /\ committed'[a] = committed[a]
             \/ version'[a] = version[a] + 1
  BY <1>0, <1>2 DEF Bump, TypeOK
<1>3. CASE \/ \E c \in Call, b \in Account : CommitCreate(c, b)
           \/ \E q \in Request, b \in Account : ApproveCreate(q, b)
  BY <1>1, <1>3 DEF CommitCreate, ApproveCreate
<1>4. CASE \/ \E c \in Call : CommitEdit(c)
           \/ \E q \in Request : ApproveUpdate(q)
           \/ \E b \in Account : EditMetadata(b)
  BY <1>2, <1>4 DEF CommitEdit, ApproveUpdate, EditMetadata
<1>5. CASE \/ \E q \in Request : ApproveDelete(q) \/ ApproveRestore(q)
           \/ \E b \in Account : Remove(b) \/ Restore(b) \/ Expire(b) \/ PurgeRow(b)
  <2>1. UNCHANGED <<version, committed>>
    BY <1>5 DEF ApproveDelete, ApproveRestore, Remove, Restore, Expire, PurgeRow
  <2>2. status'[a] # "unborn"
    BY <1>0, <1>5 DEF ApproveDelete, ApproveRestore, Remove, Restore, Expire, PurgeRow, TypeOK
  <2> QED BY <2>1, <2>2
<1>6. CASE UNCHANGED rowVars
  BY <1>6 DEF rowVars
<1>7. CASE \E c \in Call :
             \/ \E op \in Operation, r \in Ref : BeginCreate(c, op, r)
             \/ \E b \in Account : BeginEdit(c, b) \/ BeginProposal(c, b)
             \/ ReadPrevious(c) \/ WriteInPlace(c) \/ WriteLost(c) \/ VaultThrows(c)
             \/ MutationThrows(c) \/ Rollback(c) \/ CleanUp(c) \/ CallCrashes(c)
             \/ \E r \in Ref : MintProposed(c, r)
             \/ \E q \in Request : FileProposal(c, q)
             \/ FileDuplicate(c)
  BY <1>6, <1>7 DEF BeginCreate, BeginEdit, BeginProposal, ReadPrevious, WriteInPlace, WriteLost,
    VaultThrows, MutationThrows, Rollback, CleanUp, CallCrashes, MintProposed, FileProposal,
    FileDuplicate
<1>8. CASE \/ \E q \in Request : Close(q)
           \/ \E q \in Request, kind \in {"update", "delete", "restore"}, b \in Account :
                FilePlain(q, kind, b)
           \/ \E b \in Account : PurgeObject(b)
           \/ \E r \in Ref : RunDelete(r)
           \/ UNCHANGED vars
  BY <1>6, <1>8 DEF Close, FilePlain, PurgeObject, RunDelete, vars, rowVars
<1> QED BY <1>3, <1>4, <1>5, <1>7, <1>8 DEF Next, CallStep, RequestStep, RowStep

\* A pending request was pending before with the same terms, or is filed in
\* this step on a row that exists, with what that row says.
LEMMA RequestMoves ==
  ASSUME IInv, SawCurrent, [Next]_vars, NEW q \in Request, request'[q].status = "pending"
  PROVE  \/ /\ request[q].status = "pending"
            /\ request'[q].kind = request[q].kind
            /\ request'[q].target = request[q].target
            /\ request'[q].expected = request[q].expected
            /\ request'[q].saw = request[q].saw
         \/ /\ request'[q].kind = "create"
            /\ request'[q].target = NoAccount
         \/ /\ request'[q].kind # "create"
            /\ UNCHANGED rowVars
            /\ \E a \in Account : /\ Exists(a)
                                  /\ request'[q].target = a
                                  /\ request'[q].expected = version[a]
                                  /\ request'[q].saw = committed[a]
<1>0. TypeOK /\ CallsSound /\ request \in [Request -> RequestState] /\ NoAccount \notin Account
  BY AccountConstants DEF IInv, TypeOK, AccountConstants
<1>1. ASSUME NEW A \in SUBSET Request, NEW C \in SUBSET Request, Settle(A, C)
      PROVE  /\ request[q].status = "pending"
             /\ request'[q].kind = request[q].kind
             /\ request'[q].target = request[q].target
             /\ request'[q].expected = request[q].expected
             /\ request'[q].saw = request[q].saw
  BY <1>0, <1>1, SettleEffect, SettleHistory
<1>2. ASSUME NEW p \in Request, NEW kind, NEW a \in Account \cup {NoAccount}, NEW r,
             request' = [request EXCEPT ![p] = Filed(kind, a, r)], p = q
      PROVE  /\ request'[q].kind = kind /\ request'[q].target = a
             /\ a \in Account => request'[q].expected = version[a] /\ request'[q].saw = committed[a]
  BY <1>0, <1>2 DEF Filed
<1>3. ASSUME NEW p \in Request, NEW k, request' = [request EXCEPT ![p] = k], p # q
      PROVE  request'[q] = request[q]
  BY <1>0, <1>3
<1>4. ASSUME NEW c \in Call, NEW p \in Request, FileProposal(c, p), p = q
      PROVE  \/ /\ request'[q].kind = "create"
                /\ request'[q].target = NoAccount
             \/ /\ request'[q].kind # "create"
                /\ UNCHANGED rowVars
                /\ \E a \in Account : /\ Exists(a)
                                      /\ request'[q].target = a
                                      /\ request'[q].expected = version[a]
                                      /\ request'[q].saw = committed[a]
  <2>1. /\ request' = [request EXCEPT ![p] = Filed(ProposedKind(c), call[c].account, call[c].ref)]
        /\ call[c].pc = "minted" /\ UNCHANGED rowVars
    BY <1>4 DEF FileProposal
  <2>2. CASE call[c].op = "proposeCreate"
    <3>1. call[c].account = NoAccount
      BY <2>1, <2>2 DEF SawCurrent
    <3>2. request' = [request EXCEPT ![p] = Filed("create", NoAccount, call[c].ref)]
      BY <2>1, <2>2, <3>1 DEF ProposedKind
    <3>3. request'[q].kind = "create" /\ request'[q].target = NoAccount
      BY <1>2, <1>4, <3>2
    <3> QED BY <3>3
  <2>3. CASE call[c].op = "proposeEdit"
    <3>1. call[c].account \in Account /\ Exists(call[c].account)
      BY <1>0, <1>4, <2>1, <2>3 DEF FileProposal, CallsSound
    <3>2. request' = [request EXCEPT ![p] = Filed("update", call[c].account, call[c].ref)]
      BY <2>1, <2>3 DEF ProposedKind
    <3>3. /\ request'[q].kind = "update" /\ request'[q].target = call[c].account
          /\ request'[q].expected = version[call[c].account]
          /\ request'[q].saw = committed[call[c].account]
      <4> DEFINE a == call[c].account
      <4>1. /\ a \in Account /\ a \in Account \cup {NoAccount} /\ p = q
            /\ request' = [request EXCEPT ![p] = Filed("update", a, call[c].ref)]
        BY <1>4, <3>1, <3>2
      <4> HIDE DEF a
      <4>2. /\ request'[q].kind = "update" /\ request'[q].target = a
            /\ request'[q].expected = version[a] /\ request'[q].saw = committed[a]
        <5>1. a # NoAccount /\ request'[q] = Filed("update", a, call[c].ref)
          BY <1>0, <4>1
        <5> QED BY <5>1 DEF Filed
      <4> QED BY <4>2 DEF a
    <3> QED BY <2>1, <3>1, <3>3
  <2> QED BY <1>4, <2>2, <2>3 DEF FileProposal
<1>5. CASE \E c \in Call, p \in Request : FileProposal(c, p)
  BY <1>3, <1>4, <1>5 DEF FileProposal
<1>6. CASE \E p \in Request, kind \in {"update", "delete", "restore"}, a \in Account :
             FilePlain(p, kind, a)
  <2>1. PICK p \in Request, kind \in {"update", "delete", "restore"}, a \in Account :
          FilePlain(p, kind, a)
    BY <1>6
  <2>2. CASE p = q
    <3>1. /\ request' = [request EXCEPT ![p] = Filed(kind, a, NoRef)]
          /\ UNCHANGED rowVars /\ Exists(a)
      BY <2>1 DEF FilePlain
    <3>2. /\ request'[q].kind = kind /\ request'[q].target = a
          /\ request'[q].expected = version[a] /\ request'[q].saw = committed[a]
      BY <1>2, <2>2, <3>1
    <3> QED BY <3>1, <3>2
  <2>3. CASE p # q
    BY <1>3, <2>1, <2>3 DEF FilePlain
  <2> QED BY <2>2, <2>3
<1>7. CASE \E A, C \in SUBSET Request : Settle(A, C)
  BY <1>1, <1>7
<1>8. CASE \/ \E p \in Request, a \in Account : ApproveCreate(p, a)
           \/ \E p \in Request : ApproveUpdate(p) \/ ApproveRestore(p) \/ Close(p)
           \/ \E p \in Request : ApproveDelete(p)
           \/ \E a \in Account : Remove(a)
  <2>1. CASE \E p \in Request, a \in Account : ApproveCreate(p, a)
    BY <1>7, <2>1 DEF ApproveCreate
  <2>2. CASE \E p \in Request : ApproveUpdate(p) \/ ApproveRestore(p) \/ Close(p)
    BY <1>7, <2>2 DEF ApproveUpdate, ApproveRestore, Close
  <2>3. CASE \E p \in Request : ApproveDelete(p)
    <3>1. \A a : PendingOn(a) \in SUBSET Request
      BY DEF PendingOn
    <3> QED BY <1>7, <2>3, <3>1 DEF ApproveDelete
  <2>4. CASE \E a \in Account : Remove(a)
    BY <1>7, <2>4 DEF Remove, PendingOn
  <2> QED BY <1>8, <2>1, <2>2, <2>3, <2>4
<1>9. CASE \E c \in Call :
             \/ \E op \in Operation, r \in Ref : BeginCreate(c, op, r)
             \/ \E b \in Account : BeginEdit(c, b) \/ BeginProposal(c, b) \/ CommitCreate(c, b)
             \/ ReadPrevious(c) \/ WriteInPlace(c) \/ WriteLost(c) \/ VaultThrows(c)
             \/ MutationThrows(c) \/ Rollback(c) \/ CleanUp(c) \/ CallCrashes(c)
             \/ CommitEdit(c) \/ FileDuplicate(c)
             \/ \E r \in Ref : MintProposed(c, r)
  BY <1>9 DEF BeginCreate, BeginEdit, BeginProposal, ReadPrevious, WriteInPlace, WriteLost,
    VaultThrows, MutationThrows, Rollback, CleanUp, CallCrashes, MintProposed, CommitCreate,
    CommitEdit, FileDuplicate
<1>10. CASE \/ \E b \in Account : \/ EditMetadata(b) \/ Restore(b) \/ Expire(b)
                                  \/ PurgeObject(b) \/ PurgeRow(b)
            \/ \E r \in Ref : RunDelete(r)
            \/ UNCHANGED vars
  BY <1>10 DEF EditMetadata, Restore, Expire, PurgeObject, PurgeRow, RunDelete, vars
<1> QED BY <1>5, <1>6, <1>8, <1>9, <1>10 DEF Next, CallStep, RequestStep, RowStep

\* A call that holds a creation's credentials for review still names no
\* account.
LEMMA CreatesMove ==
  ASSUME IInv, [Next]_vars, NEW c \in Call,
         call'[c].pc = "minted", call'[c].op = "proposeCreate"
  PROVE  \/ call'[c] = call[c]
         \/ call'[c].account = NoAccount
<1>0. call \in [Call -> CallState] /\ call[c] \in CallState
  BY DEF IInv, TypeOK
<1>1. ASSUME NEW op \in Operation, NEW r \in Ref, BeginCreate(c, op, r)
      PROVE  call'[c].account = NoAccount
  BY <1>0, <1>1 DEF BeginCreate, SetCall, Started
<1>2. ASSUME NEW r \in Ref, MintProposed(c, r) PROVE FALSE
  BY <1>0, <1>2 DEF MintProposed, SetCall, Started
<1>3. CASE \/ ReadPrevious(c) \/ WriteInPlace(c) \/ WriteLost(c) \/ VaultThrows(c)
           \/ MutationThrows(c) \/ Rollback(c) \/ CleanUp(c) \/ CallCrashes(c)
           \/ CommitEdit(c) \/ FileDuplicate(c)
           \/ \E b \in Account : BeginEdit(c, b) \/ BeginProposal(c, b) \/ CommitCreate(c, b)
           \/ \E q \in Request : FileProposal(c, q)
  <2>1. \/ \E pc \in PC \ {"minted"} : call'[c] = Now(call[c], pc)
        \/ \E v : call'[c] = HasRead(call[c], v)
        \/ \E n : call'[c] = HasWritten(call[c], n)
        \/ \E op, b, r : call'[c] = Started("fetched", op, b, r)
    <3>1. CASE \/ WriteLost(c) \/ VaultThrows(c) \/ MutationThrows(c) \/ Rollback(c)
               \/ CleanUp(c) \/ CallCrashes(c) \/ CommitEdit(c) \/ FileDuplicate(c)
               \/ \E b \in Account : CommitCreate(c, b)
               \/ \E q \in Request : FileProposal(c, q)
      <4>1. \E pc \in PC \ {"minted"} : SetCall(c, Now(call[c], pc))
        BY <3>1 DEF WriteLost, VaultThrows, MutationThrows, Rollback, CleanUp, CallCrashes,
          CommitEdit, FileDuplicate, CommitCreate, FileProposal, PC
      <4> QED BY <1>0, <4>1 DEF SetCall
    <3>2. CASE ReadPrevious(c) \/ WriteInPlace(c)
      <4>1. (\E v : SetCall(c, HasRead(call[c], v))) \/ (\E n : SetCall(c, HasWritten(call[c], n)))
        BY <3>2 DEF ReadPrevious, WriteInPlace
      <4> QED BY <1>0, <4>1 DEF SetCall
    <3>3. CASE \E b \in Account : BeginEdit(c, b) \/ BeginProposal(c, b)
      <4>1. \E op, b, r : SetCall(c, Started("fetched", op, b, r))
        BY <3>3 DEF BeginEdit, BeginProposal
      <4> QED BY <1>0, <4>1 DEF SetCall
    <3> QED BY <1>3, <3>1, <3>2, <3>3
  <2>2. call'[c].pc # "minted"
    <3>1. \A pc \in PC : Now(call[c], pc).pc = pc
      BY <1>0, NowFields
    <3>2. \A v : HasRead(call[c], v).pc = "read"
      BY <1>0 DEF HasRead, CallState
    <3>3. \A n : HasWritten(call[c], n).pc = "written"
      BY <1>0 DEF HasWritten, CallState
    <3>4. \A op, b, r : Started("fetched", op, b, r).pc = "fetched"
      BY DEF Started
    <3> QED BY <2>1, <3>1, <3>2, <3>3, <3>4
  <2> QED BY <2>2
<1>4. CASE call'[c] = call[c]
  BY <1>4
<1>5. ASSUME NEW d \in Call \ {c}, CallStep(d) PROVE call'[c] = call[c]
  <2>1. \E k : call' = [call EXCEPT ![d] = k]
    BY <1>5 DEF CallStep, SetCall, BeginCreate, BeginEdit, BeginProposal, ReadPrevious,
      WriteInPlace, WriteLost, VaultThrows, MutationThrows, Rollback, CleanUp, CallCrashes,
      MintProposed, CommitCreate, CommitEdit, FileDuplicate, FileProposal
  <2> QED BY <1>0, <2>1
<1>6. CASE \/ \E q \in Request : RequestStep(q)
           \/ \E a \in Account : RowStep(a)
           \/ \E r \in Ref : RunDelete(r)
           \/ UNCHANGED vars
  BY <1>6 DEF RequestStep, RowStep, ApproveCreate, ApproveUpdate, ApproveDelete, ApproveRestore,
    Close, FilePlain, EditMetadata, Remove, Restore, Expire, PurgeObject, PurgeRow, RunDelete, vars
<1> QED BY <1>1, <1>2, <1>3, <1>5, <1>6 DEF Next, CallStep

LEMMA NextSawCurrent ==
  ASSUME IInv, SawCurrent, [Next]_vars
  PROVE  SawCurrent'
<1>0. /\ TypeOK /\ NoAccount \notin Account
      /\ \A a \in Account : version[a] \in Nat
      /\ \A q \in Request : request[q].expected \in Nat
  BY AccountConstants DEF IInv, TypeOK, RequestState, AccountConstants
<1>1. \A c \in Call : call'[c].pc = "minted" /\ call'[c].op = "proposeCreate" =>
        call'[c].account = NoAccount
  BY CreatesMove DEF SawCurrent
<1>2. ASSUME NEW q \in Request, request'[q].status = "pending"
      PROVE  /\ request'[q].kind = "create" => request'[q].target = NoAccount
             /\ request'[q].target \in Account =>
                  /\ status'[request'[q].target] # "unborn"
                  /\ request'[q].expected <= version'[request'[q].target]
                  /\ version'[request'[q].target] = request'[q].expected =>
                       request'[q].saw = committed'[request'[q].target]
  <2>1. CASE /\ request[q].status = "pending"
             /\ request'[q].kind = request[q].kind
             /\ request'[q].target = request[q].target
             /\ request'[q].expected = request[q].expected
             /\ request'[q].saw = request[q].saw
    <3>1. CASE request[q].target \in Account
      <4> DEFINE a == request[q].target
      <4>1. /\ status[a] # "unborn" /\ request[q].expected <= version[a]
            /\ version[a] = request[q].expected => request[q].saw = committed[a]
            /\ request[q].kind # "create"
        BY <1>0, <2>1, <3>1 DEF SawCurrent, Pending
      <4>2. /\ status'[a] # "unborn"
            /\ \/ version'[a] = version[a] /\ committed'[a] = committed[a]
               \/ version'[a] = version[a] + 1
        BY <3>1, <4>1, RowMoves
      <4>3. version[a] \in Nat /\ request[q].expected \in Nat
        BY <1>0, <3>1
      <4> HIDE DEF a
      <4>4. /\ request[q].expected <= version'[a]
            /\ version'[a] = request[q].expected => request[q].saw = committed'[a]
        BY <4>1, <4>2, <4>3
      <4> QED BY <2>1, <4>1, <4>2, <4>4 DEF a
    <3>2. CASE request[q].target \notin Account
      BY <2>1, <3>2 DEF SawCurrent, Pending
    <3> QED BY <3>1, <3>2
  <2>2. CASE request'[q].kind = "create" /\ request'[q].target = NoAccount
    BY <1>0, <2>2
  <2>3. CASE /\ request'[q].kind # "create"
             /\ UNCHANGED rowVars
             /\ \E a \in Account : /\ Exists(a)
                                   /\ request'[q].target = a
                                   /\ request'[q].expected = version[a]
                                   /\ request'[q].saw = committed[a]
    BY <1>0, <2>3 DEF Exists, rowVars
  <2> QED BY <1>2, <2>1, <2>2, <2>3, RequestMoves
<1> QED BY <1>1, <1>2 DEF SawCurrent, Pending

\* Approving a request never discards credentials acknowledged since it was
\* filed: whatever edits, approvals and failures came between, each committed
\* value moved the version the approval checks.
THEOREM StaleRefused == Spec => StaleProposalsRefused
<1>1. Init => SawCurrent
  BY DEF Init, SawCurrent, IdleCall, NoRequest, Pending
<1>2. IInv /\ SawCurrent /\ [Next]_vars => SawCurrent'
  BY NextSawCurrent
<1>3. ASSUME IInv, SawCurrent, [Next]_vars, NEW q \in Request, Pending(q),
             request'[q].status = "applied", request[q].target # NoAccount
      PROVE  request[q].saw = committed[request[q].target]
  <2>0. TypeOK /\ request \in [Request -> RequestState] /\ request[q].status = "pending"
    BY <1>3 DEF IInv, TypeOK, Pending
  <2>1. ASSUME NEW C \in SUBSET Request, NEW A \in SUBSET Request, Settle(A, C)
        PROVE  q \in A
    BY <1>3, <2>0, <2>1, SettleHistory
  <2>2. CASE \E p \in Request : ApproveUpdate(p) \/ ApproveDelete(p) \/ ApproveRestore(p)
    <3>1. PICK p \in Request : ApproveUpdate(p) \/ ApproveDelete(p) \/ ApproveRestore(p)
      BY <2>2
    <3>2. Unmoved(p) /\ \E C \in SUBSET Request : Settle({p}, C)
      <4>1. \A a : PendingOn(a) \in SUBSET Request
        BY DEF PendingOn
      <4> QED BY <3>1, <4>1 DEF ApproveUpdate, ApproveDelete, ApproveRestore
    <3>3. Unmoved(q)
      BY <2>1, <3>2
    <3>4. /\ version[request[q].target] = request[q].expected
          /\ request[q].target \in Account
      BY <1>3, <2>0, <3>3 DEF Unmoved, RequestState
    <3> QED BY <1>3, <3>4 DEF SawCurrent
  <2>3. CASE \E p \in Request, a \in Account : ApproveCreate(p, a)
    <3>1. PICK p \in Request : Settle({p}, {}) /\ request[p].kind = "create"
      BY <2>3 DEF ApproveCreate
    <3>2. q = p
      BY <2>1, <3>1
    <3> QED BY <1>3, <3>1, <3>2 DEF SawCurrent
  <2>4. CASE \/ \E p \in Request : Close(p)
             \/ \E a \in Account : Remove(a)
    <3>1. \E C \in SUBSET Request : Settle({}, C)
      BY <2>4 DEF Close, Remove, PendingOn
    <3> QED BY <2>1, <3>1
  <2>5. CASE request'[q] = request[q]
    BY <1>3, <2>0, <2>5
  <2>6. CASE \/ \E c \in Call, p \in Request : FileProposal(c, p)
             \/ \E p \in Request, kind \in {"update", "delete", "restore"}, a \in Account :
                  FilePlain(p, kind, a)
    <3>1. PICK p \in Request : request[p].status = "none" /\ \E k : request' = [request EXCEPT ![p] = k]
      BY <2>6 DEF FileProposal, FilePlain
    <3> QED BY <2>0, <2>5, <3>1
  <2>7. CASE UNCHANGED request
    BY <2>5, <2>7
  <2>8. CASE \E c \in Call :
               \/ \E op \in Operation, r \in Ref : BeginCreate(c, op, r)
               \/ \E b \in Account : BeginEdit(c, b) \/ BeginProposal(c, b) \/ CommitCreate(c, b)
               \/ ReadPrevious(c) \/ WriteInPlace(c) \/ WriteLost(c) \/ VaultThrows(c)
               \/ MutationThrows(c) \/ Rollback(c) \/ CleanUp(c) \/ CallCrashes(c)
               \/ CommitEdit(c) \/ FileDuplicate(c)
               \/ \E r \in Ref : MintProposed(c, r)
    BY <2>7, <2>8 DEF BeginCreate, BeginEdit, BeginProposal, ReadPrevious, WriteInPlace, WriteLost,
      VaultThrows, MutationThrows, Rollback, CleanUp, CallCrashes, MintProposed, CommitCreate,
      CommitEdit, FileDuplicate
  <2>9. CASE \/ \E b \in Account : \/ EditMetadata(b) \/ Restore(b) \/ Expire(b)
                                   \/ PurgeObject(b) \/ PurgeRow(b)
             \/ \E r \in Ref : RunDelete(r)
             \/ UNCHANGED vars
    BY <2>7, <2>9 DEF EditMetadata, Restore, Expire, PurgeObject, PurgeRow, RunDelete, vars
  <2> QED BY <1>3, <2>2, <2>3, <2>4, <2>6, <2>8, <2>9 DEF Next, CallStep, RequestStep, RowStep
<1>4. IInv /\ SawCurrent /\ [Next]_vars =>
        [\A q \in Request :
           /\ Pending(q)
           /\ request'[q].status = "applied"
           /\ request[q].target # NoAccount
           => request[q].saw = committed[request[q].target]]_vars
  BY <1>3
<1> QED BY <1>1, <1>2, <1>4, InitIInv, NextKeeps, PTL DEF Spec, StaleProposalsRefused

(***************************************************************************)
(* Rollbacks.                                                              *)
(***************************************************************************)

\* An edit that has written, and may have to roll back, knows the revision
\* it made; while that is the object's, the value is its own or gone.
WritesKnown ==
  \A c \in Call : call[c].op = "edit" /\ call[c].pc \in {"written", "refused"} =>
    /\ 0 < call[c].wrote /\ call[c].wrote <= revision[call[c].ref]
    /\ call[c].wrote = revision[call[c].ref] => value[call[c].ref] \in {c, NoValue}

\* An object changes by a deletion, which leaves its revision, by a write,
\* which makes the next one, or by its creation.
LEMMA VaultMoves ==
  ASSUME IInv, [Next]_vars, NEW r \in Ref
  PROVE  \/ revision'[r] = revision[r] /\ value'[r] \in {value[r], NoValue}
         \/ revision'[r] = revision[r] + 1
<1>0. /\ TypeOK /\ revision[r] \in Nat
  BY DEF IInv, TypeOK
<1>1. CASE \E c \in Call :
             \/ \E op \in Operation, s \in Ref : BeginCreate(c, op, s)
             \/ \E s \in Ref : MintProposed(c, s)
  <2>1. \E c, s : Mint(c, s)
    BY <1>1 DEF BeginCreate, MintProposed
  <2> QED BY <1>0, <2>1 DEF Mint, TypeOK
<1>2. CASE \E c \in Call : WriteInPlace(c) \/ WriteLost(c) \/ Rollback(c)
  <2>1. UNCHANGED vaultVars \/ \E s, v : Put(s, v)
    BY <1>2 DEF WriteInPlace, WriteLost, Rollback
  <2> QED BY <1>0, <2>1 DEF Put, TypeOK, vaultVars
<1>3. CASE \/ \E c \in Call : CleanUp(c)
           \/ \E s \in Ref : RunDelete(s)
           \/ \E a \in Account : PurgeObject(a)
  <2>1. /\ UNCHANGED revision
        /\ UNCHANGED value \/ \E s : value' = [value EXCEPT ![s] = NoValue]
    BY <1>3 DEF CleanUp, RunDelete, PurgeObject
  <2> QED BY <1>0, <2>1 DEF TypeOK
<1>4. CASE UNCHANGED <<value, revision>>
  BY <1>4
<1>5. CASE \E c \in Call :
             \/ \E b \in Account : BeginEdit(c, b) \/ BeginProposal(c, b) \/ CommitCreate(c, b)
             \/ ReadPrevious(c) \/ VaultThrows(c) \/ MutationThrows(c) \/ CallCrashes(c)
             \/ CommitEdit(c) \/ FileDuplicate(c)
             \/ \E q \in Request : FileProposal(c, q)
  BY <1>4, <1>5 DEF BeginEdit, BeginProposal, CommitCreate, ReadPrevious, VaultThrows,
    MutationThrows, CallCrashes, CommitEdit, FileDuplicate, FileProposal, vaultVars
<1>6. CASE \/ \E q \in Request : RequestStep(q)
           \/ \E b \in Account : EditMetadata(b) \/ Remove(b) \/ Restore(b) \/ Expire(b) \/ PurgeRow(b)
           \/ UNCHANGED vars
  BY <1>4, <1>6 DEF RequestStep, FilePlain, ApproveCreate, ApproveUpdate, ApproveDelete,
    ApproveRestore, Close, EditMetadata, Remove, Restore, Expire, PurgeRow, vars, vaultVars
<1> QED BY <1>1, <1>2, <1>3, <1>5, <1>6 DEF Next, CallStep, RowStep

\* An edit that may have to roll back was one before, or writes in this step.
LEMMA EditsMove ==
  ASSUME IInv, [Next]_vars, NEW c \in Call,
         call'[c].op = "edit", call'[c].pc \in {"written", "refused"}
  PROVE  \/ /\ call[c].op = "edit" /\ call[c].pc \in {"written", "refused"}
            /\ call'[c].ref = call[c].ref /\ call'[c].wrote = call[c].wrote
         \/ WriteInPlace(c)
<1>0. call \in [Call -> CallState] /\ call[c] \in CallState /\ CallsSound
  BY DEF IInv, TypeOK
<1>1. CASE MutationThrows(c)
  <2>1. call'[c] = Now(call[c], "refused") /\ call[c].pc \in {"written", "minted"}
    BY <1>0, <1>1 DEF MutationThrows, SetCall
  <2>2. /\ Now(call[c], "refused").op = call[c].op /\ Now(call[c], "refused").ref = call[c].ref
        /\ Now(call[c], "refused").wrote = call[c].wrote
    BY <1>0 DEF Now, CallState
  <2> QED BY <1>0, <2>1, <2>2 DEF CallsSound
<1>2. CASE \/ WriteLost(c) \/ VaultThrows(c) \/ Rollback(c) \/ CleanUp(c) \/ CallCrashes(c)
           \/ CommitEdit(c) \/ FileDuplicate(c)
           \/ \E b \in Account : CommitCreate(c, b)
           \/ \E q \in Request : FileProposal(c, q)
  <2>1. call'[c] \in {Now(call[c], "failed"), Now(call[c], "ok")}
    BY <1>0, <1>2 DEF WriteLost, VaultThrows, Rollback, CleanUp, CallCrashes, CommitEdit,
      FileDuplicate, CommitCreate, FileProposal, SetCall
  <2>2. Now(call[c], "failed").pc = "failed" /\ Now(call[c], "ok").pc = "ok"
    BY <1>0, NowFields DEF PC
  <2> QED BY <2>1, <2>2
<1>3. CASE ReadPrevious(c)
  <2>1. \E v : call'[c] = HasRead(call[c], v)
    BY <1>0, <1>3 DEF ReadPrevious, SetCall
  <2>2. \A v : HasRead(call[c], v).pc = "read"
    BY <1>0 DEF HasRead, CallState
  <2> QED BY <2>1, <2>2
<1>4. CASE \/ \E op \in Operation, r \in Ref : BeginCreate(c, op, r)
           \/ \E b \in Account : BeginEdit(c, b) \/ BeginProposal(c, b)
           \/ \E r \in Ref : MintProposed(c, r)
  <2>1. \E pc \in {"minted", "fetched"} : \E op, b, r : call'[c] = Started(pc, op, b, r)
    BY <1>0, <1>4 DEF BeginCreate, BeginEdit, BeginProposal, MintProposed, SetCall
  <2> QED BY <2>1 DEF Started
<1>5. CASE call'[c] = call[c]
  BY <1>5
<1>6. ASSUME NEW d \in Call \ {c}, CallStep(d) PROVE call'[c] = call[c]
  <2>1. \E k : call' = [call EXCEPT ![d] = k]
    BY <1>6 DEF CallStep, SetCall, BeginCreate, BeginEdit, BeginProposal, ReadPrevious,
      WriteInPlace, WriteLost, VaultThrows, MutationThrows, Rollback, CleanUp, CallCrashes,
      MintProposed, CommitCreate, CommitEdit, FileDuplicate, FileProposal
  <2> QED BY <1>0, <2>1
<1>7. CASE \/ \E q \in Request : RequestStep(q)
           \/ \E a \in Account : RowStep(a)
           \/ \E r \in Ref : RunDelete(r)
           \/ UNCHANGED vars
  <2>1. call' = call
    BY <1>7 DEF RequestStep, RowStep, ApproveCreate, ApproveUpdate, ApproveDelete, ApproveRestore,
      Close, FilePlain, EditMetadata, Remove, Restore, Expire, PurgeObject, PurgeRow, RunDelete, vars
  <2> QED BY <1>5, <2>1
<1> QED BY <1>1, <1>2, <1>3, <1>4, <1>5, <1>6, <1>7 DEF Next, CallStep

LEMMA NextWritesKnown ==
  ASSUME "noVersion" \notin Faults, IInv, WritesKnown, [Next]_vars
  PROVE  WritesKnown'
<1> SUFFICES ASSUME NEW c \in Call, call'[c].op = "edit", call'[c].pc \in {"written", "refused"}
             PROVE  /\ 0 < call'[c].wrote /\ call'[c].wrote <= revision'[call'[c].ref]
                    /\ call'[c].wrote = revision'[call'[c].ref] =>
                         value'[call'[c].ref] \in {c, NoValue}
  BY DEF WritesKnown
<1>0. TypeOK /\ CallsSound /\ call[c] \in CallState
  BY DEF IInv, TypeOK
<1>1. CASE /\ call[c].op = "edit" /\ call[c].pc \in {"written", "refused"}
           /\ call'[c].ref = call[c].ref /\ call'[c].wrote = call[c].wrote
  <2>1. call[c].ref \in Ref
    BY <1>0, <1>1 DEF CallsSound, Editing
  <2>2. call[c].wrote \in Nat /\ revision[call[c].ref] \in Nat
    BY <1>0, <2>1 DEF CallState, TypeOK
  <2>3. /\ 0 < call[c].wrote /\ call[c].wrote <= revision[call[c].ref]
        /\ call[c].wrote = revision[call[c].ref] => value[call[c].ref] \in {c, NoValue}
    BY <1>1 DEF WritesKnown
  <2>4. \/ revision'[call[c].ref] = revision[call[c].ref] /\ value'[call[c].ref] \in {value[call[c].ref], NoValue}
        \/ revision'[call[c].ref] = revision[call[c].ref] + 1
    BY <2>1, VaultMoves
  <2> QED BY <1>1, <2>2, <2>3, <2>4
<1>2. CASE WriteInPlace(c)
  <2>1. call[c].ref \in Ref
    BY <1>0, <1>2 DEF CallsSound, Editing, WriteInPlace
  <2>2. /\ revision'[call[c].ref] = revision[call[c].ref] + 1
        /\ revision[call[c].ref] \in Nat
        /\ value'[call[c].ref] = c
    BY <1>0, <1>2, <2>1 DEF WriteInPlace, Put, TypeOK
  <2>3. call'[c] = HasWritten(call[c], revision'[call[c].ref])
    BY <1>0, <1>2 DEF WriteInPlace, SetCall, TypeOK
  <2>4. /\ HasWritten(call[c], revision'[call[c].ref]).wrote = revision'[call[c].ref]
        /\ HasWritten(call[c], revision'[call[c].ref]).ref = call[c].ref
    BY <1>0 DEF HasWritten, CallState
  <2> QED BY <2>2, <2>3, <2>4
<1> QED BY <1>1, <1>2, EditsMove

\* A rollback undoes the write of its own call and nobody else's, if the
\* vault's answers carry version ids: while the object's revision is the one
\* the call made, nobody has written since.
THEOREM RollbackUndoesOwn ==
  ASSUME "noVersion" \notin Faults
  PROVE  Spec => RollbackOnlyOwn
<1>1. Init => WritesKnown
  BY DEF Init, WritesKnown, IdleCall
<1>2. IInv /\ WritesKnown /\ [Next]_vars => WritesKnown'
  BY NextWritesKnown
<1>3. ASSUME IInv, WritesKnown, [Next]_vars, NEW c \in Call,
             call[c].pc = "refused", call[c].op = "edit", call'[c].pc = "failed",
             value'[call[c].ref] # value[call[c].ref]
      PROVE  value[call[c].ref] = c
  <2>0. /\ TypeOK /\ CallsSound /\ call \in [Call -> CallState] /\ call[c] \in CallState
    BY <1>3 DEF IInv, TypeOK
  <2>1. call'[c] # call[c]
    BY <1>3
  <2>2. CallStep(c)
    <3>1. ASSUME NEW d \in Call \ {c}, CallStep(d) PROVE call'[c] = call[c]
      <4>1. \E k : call' = [call EXCEPT ![d] = k]
        BY <3>1 DEF CallStep, SetCall, BeginCreate, BeginEdit, BeginProposal, ReadPrevious,
          WriteInPlace, WriteLost, VaultThrows, MutationThrows, Rollback, CleanUp, CallCrashes,
          MintProposed, CommitCreate, CommitEdit, FileDuplicate, FileProposal
      <4> QED BY <2>0, <4>1
    <3>2. CASE \/ \E q \in Request : RequestStep(q)
               \/ \E a \in Account : RowStep(a)
               \/ \E r \in Ref : RunDelete(r)
               \/ UNCHANGED vars
      <4>1. call' = call
        BY <3>2 DEF RequestStep, RowStep, ApproveCreate, ApproveUpdate, ApproveDelete,
          ApproveRestore, Close, FilePlain, EditMetadata, Remove, Restore, Expire, PurgeObject,
          PurgeRow, RunDelete, vars
      <4> QED BY <2>1, <4>1
    <3> QED BY <1>3, <2>1, <3>1, <3>2 DEF Next
  <2>3. Rollback(c) \/ CallCrashes(c)
    BY <1>3, <2>2 DEF CallStep, BeginCreate, BeginEdit, BeginProposal, ReadPrevious, WriteInPlace,
      WriteLost, VaultThrows, MutationThrows, CleanUp, MintProposed, CommitCreate, CommitEdit,
      FileDuplicate, FileProposal, MayStart
  <2>4. value[call[c].ref] # NoValue /\ VersionMatches(c)
    BY <1>3, <2>3 DEF Rollback, CallCrashes, vaultVars
  <2>5. call[c].ref \in Ref /\ call[c].wrote \in Nat
    BY <1>3, <2>0 DEF CallsSound, Editing, CallState
  <2>6. /\ 0 < call[c].wrote
        /\ call[c].wrote = revision[call[c].ref] => value[call[c].ref] \in {c, NoValue}
    BY <1>3 DEF WritesKnown
  <2>7. call[c].wrote # 0
    BY <2>5, <2>6
  <2> QED BY <2>4, <2>6, <2>7 DEF VersionMatches
<1>4. IInv /\ WritesKnown /\ [Next]_vars =>
        [\A c \in Call :
           /\ call[c].pc = "refused"
           /\ call[c].op = "edit"
           /\ call'[c].pc = "failed"
           /\ value'[call[c].ref] # value[call[c].ref]
           => value[call[c].ref] = c]_vars
  BY <1>3
<1> QED BY <1>1, <1>2, <1>4, InitIInv, NextKeeps, PTL DEF Spec, RollbackOnlyOwn

(***************************************************************************)
(* Calls that run one after another, with nothing failing outside.         *)
(***************************************************************************)
\* An edit between its vault write and its end.
OnHand(c) == call[c].op = "edit" /\ call[c].pc \in {"written", "refused"}

\* Serial lets no call begin while another runs.
OneCall == \A c, d \in Call : InFlight(c) /\ InFlight(d) => c = d

\* An edit that has written is the last to have written its object, and what
\* it would put back is from a call that succeeded.
EditsUndo ==
  \A c \in Call : call[c].op = "edit" =>
    /\ call[c].pc \in {"written", "refused"} => call[c].wrote = revision[call[c].ref]
    /\ call[c].pc \in {"read", "written", "refused"} => call[call[c].previous].pc = "ok"

\* What an object holds is from a call that succeeded, or from the one at
\* work on this object.
ValuesStand ==
  \A r \in Ref, c \in Call : value[r] = c =>
    \/ call[c].pc = "ok"
    \/ call[c].pc \in {"minted", "written", "refused"} /\ call[c].ref = r

Undoable == OneCall /\ EditsUndo /\ ValuesStand

\* While a call is at work, what every other call wrote stands.
LEMMA OthersStand ==
  ASSUME Undoable, NEW c \in Call, InFlight(c), NEW r \in Ref, NEW d \in Call, value[r] = d
  PROVE  \/ /\ d = c /\ call[c].ref = r
            /\ call[c].pc \in {"minted", "written", "refused"}
         \/ d # c /\ call[d].pc = "ok"
BY DEF Undoable, OneCall, ValuesStand, InFlight

\* A step of a call at work, seen by the others.
LEMMA WorkingAlone ==
  ASSUME Undoable, NEW c \in Call, InFlight(c), \A d \in Call : d # c => call'[d] = call[d]
  PROVE  /\ OneCall'
         /\ \A d \in Call : d # c => ~ InFlight(d) /\ ~ InFlight(d)'
BY DEF Undoable, OneCall, InFlight

LEMMA BeginUndoable ==
  ASSUME Serial = TRUE, IInv, Undoable, NEW c \in Call,
         \/ \E op \in Operation, r \in Ref : BeginCreate(c, op, r)
         \/ \E a \in Account : BeginEdit(c, a) \/ BeginProposal(c, a)
  PROVE  Undoable'
<1>0. /\ TypeOK /\ RowsSound /\ call[c].pc = "idle" /\ \A d \in Call : ~ InFlight(d)
  BY DEF IInv, MayStart, BeginCreate, BeginEdit, BeginProposal
<1>1. /\ \A d \in Call : d # c => call'[d] = call[d]
      /\ \/ call'[c].pc = "fetched" /\ UNCHANGED <<value, revision>>
         \/ \E r \in Ref : /\ call'[c].pc = "minted" /\ call'[c].op # "edit" /\ call'[c].ref = r
                           /\ value' = [value EXCEPT ![r] = c]
  <2>1. ASSUME NEW op \in Operation, NEW r \in Ref, BeginCreate(c, op, r)
        PROVE  /\ \A d \in Call : d # c => call'[d] = call[d]
               /\ call'[c].pc = "minted" /\ call'[c].op # "edit" /\ call'[c].ref = r
               /\ value' = [value EXCEPT ![r] = c]
    BY <1>0, <2>1, StartedFields, SetCallEffect DEF BeginCreate, Mint, PC
  <2>2. ASSUME NEW a \in Account, BeginEdit(c, a) \/ BeginProposal(c, a)
        PROVE  /\ \A d \in Call : d # c => call'[d] = call[d]
               /\ call'[c].pc = "fetched" /\ UNCHANGED <<value, revision>>
    <3>1. vaultRef[a] \in Ref \cup {NoRef}
      BY <1>0 DEF TypeOK
    <3> QED
      BY <1>0, <2>2, <3>1, StartedFields, SetCallEffect
      DEF BeginEdit, BeginProposal, PC, Operation, vaultVars
  <2> QED
    BY <2>1, <2>2
<1>2. OneCall'
  BY <1>0, <1>1 DEF OneCall, InFlight
<1>3. EditsUndo'
  BY <1>0, <1>1 DEF EditsUndo, InFlight
<1>4. \A r \in Ref, d \in Call : value[r] = d => d # c /\ call'[d].pc = "ok"
  BY <1>0, <1>1 DEF Undoable, ValuesStand, InFlight
<1>5. ValuesStand'
  BY <1>0, <1>1, <1>4 DEF ValuesStand, TypeOK
<1> QED
  BY <1>2, <1>3, <1>5 DEF Undoable

\* A call that ends well leaves the vault alone.
LEMMA SuccessUndoable ==
  ASSUME IInv, Undoable, NEW c \in Call,
         \/ CommitEdit(c) \/ FileDuplicate(c)
         \/ \E a \in Account : CommitCreate(c, a)
         \/ \E q \in Request : FileProposal(c, q)
  PROVE  Undoable'
<1>0. TypeOK /\ call[c] \in CallState /\ InFlight(c)
  BY DEF IInv, TypeOK, InFlight, CommitEdit, FileDuplicate, CommitCreate, FileProposal
<1>1. /\ \A d \in Call : d # c => call'[d] = call[d]
      /\ call'[c].pc = "ok" /\ UNCHANGED <<value, revision>>
  BY <1>0, NowFields, SetCallEffect
  DEF CommitEdit, FileDuplicate, CommitCreate, FileProposal, PC, vaultVars
<1>2. OneCall' /\ \A d \in Call : d # c => ~ InFlight(d) /\ ~ InFlight(d)'
  BY <1>0, <1>1, WorkingAlone
<1>3. EditsUndo'
  BY <1>1, <1>2 DEF EditsUndo, InFlight
<1>4. ValuesStand'
  BY <1>0, <1>1, OthersStand DEF ValuesStand
<1> QED
  BY <1>2, <1>3, <1>4 DEF Undoable

LEMMA RefusalUndoable ==
  ASSUME IInv, Undoable, NEW c \in Call, MutationThrows(c)
  PROVE  Undoable'
<1>0. TypeOK /\ CallsSound /\ call[c] \in CallState /\ InFlight(c) /\ call[c].pc \in {"written", "minted"}
  BY DEF IInv, TypeOK, InFlight, MutationThrows
<1>1. /\ \A d \in Call : d # c => call'[d] = call[d]
      /\ call'[c] = Now(call[c], "refused") /\ UNCHANGED <<value, revision>>
  BY <1>0, NowFields, SetCallEffect DEF MutationThrows, PC, vaultVars
<1>2. /\ call'[c].pc = "refused" /\ call'[c].op = call[c].op /\ call'[c].ref = call[c].ref
      /\ call'[c].previous = call[c].previous /\ call'[c].wrote = call[c].wrote
  BY <1>0, <1>1 DEF Now, CallState
<1>3. OneCall' /\ \A d \in Call : d # c => ~ InFlight(d) /\ ~ InFlight(d)'
  BY <1>0, <1>1, WorkingAlone
<1>4. EditsUndo'
  <2>1. call[c].op = "edit" => /\ call[c].wrote = revision[call[c].ref]
                               /\ call[call[c].previous].pc = "ok" /\ call[c].previous # c
    BY <1>0 DEF Undoable, EditsUndo, CallsSound
  <2>2. call[c].op = "edit" => call[c].previous \in Call
    BY <1>0 DEF CallsSound, Editing, CallState
  <2>3. call[c].op = "edit" => call'[call[c].previous].pc = "ok"
    BY <1>1, <2>1, <2>2
  <2> QED
    BY <1>1, <1>2, <1>3, <2>1, <2>3 DEF EditsUndo, InFlight
<1>5. ValuesStand'
  BY <1>0, <1>1, <1>2, OthersStand DEF ValuesStand
<1> QED
  BY <1>3, <1>4, <1>5 DEF Undoable

LEMMA ReadUndoable ==
  ASSUME IInv, Undoable, NEW c \in Call, ReadPrevious(c)
  PROVE  Undoable'
<1>0. /\ TypeOK /\ CallsSound /\ call[c] \in CallState /\ InFlight(c) /\ call[c].pc = "fetched"
      /\ call[c].op = "edit" /\ call[c].ref \in Ref /\ value[call[c].ref] \in Call
  BY DEF IInv, TypeOK, InFlight, ReadPrevious, CallsSound, Editing
<1>1. /\ \A d \in Call : d # c => call'[d] = call[d]
      /\ call'[c].pc = "read" /\ call'[c].previous = value[call[c].ref]
      /\ UNCHANGED <<value, revision>>
  BY <1>0, ReadFields, SetCallEffect DEF ReadPrevious, vaultVars
<1>2. OneCall' /\ \A d \in Call : d # c => ~ InFlight(d) /\ ~ InFlight(d)'
  BY <1>0, <1>1, WorkingAlone
<1>3. \A r \in Ref, d \in Call : value[r] = d => d # c /\ call'[d].pc = "ok"
  BY <1>0, <1>1, OthersStand
<1>4. EditsUndo'
  BY <1>0, <1>1, <1>2, <1>3 DEF EditsUndo, InFlight
<1>5. ValuesStand'
  BY <1>1, <1>3 DEF ValuesStand
<1> QED
  BY <1>2, <1>4, <1>5 DEF Undoable

LEMMA WriteUndoable ==
  ASSUME Faults = {}, IInv, Undoable, NEW c \in Call, WriteInPlace(c)
  PROVE  Undoable'
<1>0. /\ TypeOK /\ CallsSound /\ call[c] \in CallState /\ InFlight(c) /\ call[c].pc = "read"
      /\ call[c].op = "edit" /\ call[c].ref \in Ref /\ call[c].previous \in Call
      /\ call[call[c].previous].pc = "ok" /\ call[c].previous # c
  BY DEF IInv, TypeOK, InFlight, WriteInPlace, CallsSound, Editing, Undoable, EditsUndo, CallState
<1>1. /\ SetCall(c, HasWritten(call[c], revision'[call[c].ref]))
      /\ value' = [value EXCEPT ![call[c].ref] = c]
      /\ revision'[call[c].ref] \in Nat
  BY <1>0 DEF WriteInPlace, Put, TypeOK
<1>2. /\ \A d \in Call : d # c => call'[d] = call[d]
      /\ call'[c] = HasWritten(call[c], revision'[call[c].ref])
  BY <1>0, <1>1, WrittenFields, SetCallEffect
<1>3. /\ call'[c].pc = "written" /\ call'[c].wrote = revision'[call[c].ref]
      /\ call'[c].ref = call[c].ref /\ call'[c].previous = call[c].previous
  BY <1>0, <1>1, <1>2 DEF HasWritten, CallState
<1>4. OneCall' /\ \A d \in Call : d # c => ~ InFlight(d) /\ ~ InFlight(d)'
  BY <1>0, <1>2, WorkingAlone
<1>5. \A r \in Ref, d \in Call : value[r] = d => d # c /\ call'[d].pc = "ok"
  BY <1>0, <1>2, OthersStand
<1>6. EditsUndo'
  <2>1. call'[call[c].previous].pc = "ok"
    BY <1>0, <1>2
  <2> QED
    BY <1>3, <1>4, <2>1 DEF EditsUndo, InFlight
<1>7. ValuesStand'
  BY <1>0, <1>1, <1>3, <1>5 DEF ValuesStand, TypeOK
<1> QED
  BY <1>4, <1>6, <1>7 DEF Undoable

LEMMA MintProposedUndoable ==
  ASSUME IInv, Undoable, NEW c \in Call, NEW r \in Ref, MintProposed(c, r)
  PROVE  Undoable'
<1>0. /\ TypeOK /\ CallsSound /\ call[c] \in CallState /\ InFlight(c) /\ call[c].pc = "fetched"
      /\ call[c].account \in Account
  BY DEF IInv, TypeOK, InFlight, MintProposed, CallsSound
<1>1. /\ \A d \in Call : d # c => call'[d] = call[d]
      /\ call'[c].pc = "minted" /\ call'[c].op = "proposeEdit" /\ call'[c].ref = r
      /\ value' = [value EXCEPT ![r] = c]
  BY <1>0, StartedFields, SetCallEffect DEF MintProposed, Mint, PC, Operation
<1>2. OneCall' /\ \A d \in Call : d # c => ~ InFlight(d) /\ ~ InFlight(d)'
  BY <1>0, <1>1, WorkingAlone
<1>3. \A s \in Ref, d \in Call : value[s] = d => d # c /\ call'[d].pc = "ok"
  BY <1>0, <1>1, OthersStand
<1>4. EditsUndo'
  BY <1>1, <1>2 DEF EditsUndo, InFlight
<1>5. ValuesStand'
  BY <1>0, <1>1, <1>3 DEF ValuesStand, TypeOK
<1> QED
  BY <1>2, <1>4, <1>5 DEF Undoable

\* A call that ends badly leaves nothing of its own behind.
LEMMA FailureUndoable ==
  ASSUME Faults = {}, IInv, Undoable, NEW c \in Call,
         VaultThrows(c) \/ Rollback(c) \/ CleanUp(c)
  PROVE  Undoable'
<1>0. TypeOK /\ CallsSound /\ call[c] \in CallState /\ InFlight(c)
  BY DEF IInv, TypeOK, InFlight, VaultThrows, Rollback, CleanUp
<1>1. /\ \A d \in Call : d # c => call'[d] = call[d]
      /\ call'[c].pc = "failed"
  BY <1>0, NowFields, SetCallEffect DEF VaultThrows, Rollback, CleanUp, PC
<1>2. OneCall' /\ \A d \in Call : d # c => ~ InFlight(d) /\ ~ InFlight(d)'
  BY <1>0, <1>1, WorkingAlone
<1>3. EditsUndo'
  BY <1>1, <1>2 DEF EditsUndo, InFlight
<1>4. ASSUME NEW r \in Ref, NEW d \in Call, value'[r] = d
      PROVE  d # c /\ call[d].pc = "ok"
  <2>1. CASE VaultThrows(c)
    BY <1>0, <1>4, <2>1, OthersStand DEF VaultThrows, vaultVars
  <2>2. CASE CleanUp(c)
    <3>1. call[c].ref \in Ref /\ value' = [value EXCEPT ![call[c].ref] = NoValue]
      BY <1>0, <2>2 DEF CleanUp, CallsSound, Staging
    <3> QED
      BY <1>0, <1>4, <3>1, OthersStand, AccountConstants DEF TypeOK, AccountConstants
  <2>3. CASE Rollback(c)
    <3>1. /\ call[c].ref \in Ref /\ VersionMatches(c) /\ call[c].previous \in Call
          /\ call[call[c].previous].pc = "ok" /\ call[c].pc = "refused"
      BY <1>0, <2>3 DEF Rollback, VersionMatches, Undoable, EditsUndo, CallsSound, Editing, CallState
    <3>2. CASE value[call[c].ref] = NoValue /\ UNCHANGED value
      BY <1>0, <1>4, <3>1, <3>2, OthersStand, AccountConstants DEF AccountConstants
    <3>3. CASE value' = [value EXCEPT ![call[c].ref] = call[c].previous]
      BY <1>0, <1>4, <3>1, <3>3, OthersStand DEF TypeOK
    <3> QED
      BY <2>3, <3>1, <3>2, <3>3 DEF Rollback, Put, vaultVars
  <2> QED
    BY <2>1, <2>2, <2>3
<1>5. ValuesStand'
  BY <1>1, <1>4 DEF ValuesStand
<1> QED
  BY <1>2, <1>3, <1>5 DEF Undoable

\* What runs beside the calls destroys values and writes none.
LEMMA BesideUndoable ==
  ASSUME IInv, Undoable, UNCHANGED <<call, revision>>,
         \A r \in Ref : value'[r] \in {value[r], NoValue}
  PROVE  Undoable'
BY AccountConstants DEF Undoable, OneCall, EditsUndo, ValuesStand, InFlight, AccountConstants

LEMMA Beside ==
  ASSUME IInv, \/ \E q \in Request : RequestStep(q)
               \/ \E a \in Account : RowStep(a)
               \/ \E r \in Ref : RunDelete(r)
               \/ UNCHANGED vars
  PROVE  UNCHANGED <<call, revision>> /\ \A r \in Ref : value'[r] \in {value[r], NoValue}
<1>1. UNCHANGED <<call, revision>>
  BY DEF RequestStep, RowStep, ApproveCreate, ApproveUpdate, ApproveDelete, ApproveRestore,
    Close, FilePlain, EditMetadata, Remove, Restore, Expire, PurgeObject, PurgeRow, RunDelete,
    vars, vaultVars
<1>2. UNCHANGED value \/ \E s : value' = [value EXCEPT ![s] = NoValue]
  BY DEF RequestStep, RowStep, ApproveCreate, ApproveUpdate, ApproveDelete, ApproveRestore,
    Close, FilePlain, EditMetadata, Remove, Restore, Expire, PurgeObject, PurgeRow, RunDelete,
    vars, vaultVars
<1>3. value \in [Ref -> Call \cup {NoValue}]
  BY DEF IInv, TypeOK
<1> QED
  BY <1>1, <1>2, <1>3

LEMMA NextUndoable ==
  ASSUME Serial = TRUE, Faults = {}, IInv, Undoable, [Next]_vars
  PROVE  Undoable'
<1>1. ASSUME NEW c \in Call, CallStep(c) PROVE Undoable'
  <2>1. ~ WriteLost(c) /\ ~ CallCrashes(c)
    BY DEF WriteLost, CallCrashes
  <2> QED
    BY <1>1, <2>1, BeginUndoable, SuccessUndoable, RefusalUndoable, ReadUndoable, WriteUndoable,
      MintProposedUndoable, FailureUndoable DEF CallStep
<1> QED
  BY <1>1, Beside, BesideUndoable DEF Next

\* If calls run one after another and nothing outside fails, a call that
\* failed leaves no credentials of its own behind, whatever is reviewed,
\* deleted or purged meanwhile.
THEOREM FailuresUndone ==
  ASSUME Serial = TRUE, Faults = {}
  PROVE  Spec => []NothingFailedIsLive
<1>1. Init => Undoable
  BY AccountConstants DEF Init, Undoable, OneCall, EditsUndo, ValuesStand, InFlight, IdleCall,
    AccountConstants
<1>2. IInv /\ Undoable /\ [Next]_vars => Undoable'
  BY NextUndoable
<1>3. IInv /\ Undoable => NothingFailedIsLive
  <2> SUFFICES ASSUME IInv, Undoable, NEW a \in Account, status[a] = "live"
               PROVE  call[value[vaultRef[a]]].pc # "failed"
    BY DEF NothingFailedIsLive
  <2>1. vaultRef[a] \in Ref /\ value[vaultRef[a]] # NoValue
    BY RowIsOwn DEF IInv, CredentialsPresent
  <2>2. value[vaultRef[a]] \in Call
    BY <2>1 DEF IInv, TypeOK
  <2> QED
    BY <2>1, <2>2 DEF Undoable, ValuesStand
<1> QED
  BY <1>1, <1>2, <1>3, Invariance, PTL DEF Spec

(***************************************************************************)
(* What an approval under an edit costs, and that nothing else does.       *)
(***************************************************************************)

\* An approval, or anything else, points an account elsewhere while an edit
\* works on the object the account had.
SwappedUnderEdit ==
  \E c \in Call : Editing(c) /\ vaultRef'[call[c].account] # vaultRef[call[c].account]

Usable(a) == status[a] \in {"live", "trashed"}

\* An edit works on its account's object and would put back what the row was
\* told last; a minted object holds its call's credentials; an account no
\* edit has written to holds what its row was told.
Faithful ==
  /\ \A c \in Call : Editing(c) => call[c].ref = vaultRef[call[c].account]
  /\ \A c \in Call : Editing(c) /\ call[c].pc # "fetched" /\ Usable(call[c].account) =>
       call[c].previous = committed[call[c].account]
  /\ \A c \in Call : call[c].pc = "minted" => value[call[c].ref] = c
  /\ \A a \in Account : Usable(a) /\ (\A c \in Call : OnHand(c) => call[c].account # a) =>
       value[vaultRef[a]] = committed[a]

SerialInv == IInv /\ Undoable /\ WritesKnown /\ Faithful

\* Where no edit has written and is at work, accounts hold what they were told.
LEMMA Untouched ==
  ASSUME SerialInv, \A c \in Call : ~ OnHand(c)
  PROVE  \A a \in Account : Usable(a) => value[vaultRef[a]] = committed[a]
BY DEF SerialInv, Faithful

\* When no call is left at work, only the last part remains to be shown.
LEMMA FaithfulAtRest ==
  ASSUME \A d \in Call : call'[d].pc \in {"idle", "ok", "failed"},
         \A a \in Account : Usable(a)' => value'[vaultRef'[a]] = committed'[a]
  PROVE  Faithful'
BY DEF Faithful, Editing, Usable

LEMMA BeginFaithful ==
  ASSUME Serial = TRUE, SerialInv, NEW c \in Call,
         \/ \E op \in Operation, r \in Ref : BeginCreate(c, op, r)
         \/ \E a \in Account : BeginEdit(c, a) \/ BeginProposal(c, a)
  PROVE  Faithful'
<1>0. /\ IInv /\ TypeOK /\ call[c].pc = "idle" /\ \A d \in Call : ~ InFlight(d)
  BY DEF SerialInv, IInv, MayStart, BeginCreate, BeginEdit, BeginProposal
<1>1. \A a \in Account : Usable(a) => value[vaultRef[a]] = committed[a]
  BY <1>0, Untouched DEF OnHand, InFlight
<1>2. ASSUME NEW op \in Operation, NEW r \in Ref, BeginCreate(c, op, r) PROVE Faithful'
  <2>1. /\ \A d \in Call : d # c => call'[d] = call[d]
        /\ call'[c].pc = "minted" /\ call'[c].op # "edit" /\ call'[c].ref = r
        /\ value' = [value EXCEPT ![r] = c] /\ UNCHANGED rowVars /\ revision[r] = 0
    BY <1>0, <1>2, StartedFields, SetCallEffect DEF BeginCreate, Mint, PC
  <2>2. \A d \in Call : ~ Editing(d)'
    BY <1>0, <2>1 DEF Editing, InFlight
  <2>3. \A d \in Call : call'[d].pc = "minted" => value'[call'[d].ref] = d
    BY <1>0, <2>1 DEF InFlight, TypeOK
  <2>4. \A a \in Account : Usable(a)' => value'[vaultRef'[a]] = committed'[a]
    <3>1. \A a \in Account : Usable(a) => vaultRef[a] # r
      BY <1>0, <2>1, RowIsOwn DEF Usable
    <3> QED
      BY <1>0, <1>1, <2>1, <3>1 DEF Usable, TypeOK, rowVars
  <2> QED
    BY <2>2, <2>3, <2>4 DEF Faithful
<1>3. ASSUME NEW a \in Account, BeginEdit(c, a) \/ BeginProposal(c, a) PROVE Faithful'
  <2>1. vaultRef[a] \in Ref \cup {NoRef}
    BY <1>0 DEF TypeOK
  <2>2. /\ \A d \in Call : d # c => call'[d] = call[d]
        /\ call'[c].pc = "fetched" /\ UNCHANGED <<value, rowVars>>
        /\ call'[c].op = "edit" => call'[c].account = a /\ call'[c].ref = vaultRef[a]
    BY <1>0, <1>3, <2>1, StartedFields, SetCallEffect
    DEF BeginEdit, BeginProposal, PC, Operation, vaultVars
  <2>3. \A d \in Call : d # c => ~ Editing(d)' /\ call'[d].pc # "minted"
    BY <1>0, <2>2 DEF Editing, InFlight
  <2> QED
    BY <1>1, <2>2, <2>3 DEF Faithful, Editing, Usable, rowVars
<1> QED
  BY <1>2, <1>3, <1>0 DEF SerialInv

LEMMA SuccessFaithful ==
  ASSUME SerialInv, NEW c \in Call,
         \/ CommitEdit(c) \/ FileDuplicate(c)
         \/ \E a \in Account : CommitCreate(c, a)
         \/ \E q \in Request : FileProposal(c, q)
  PROVE  Faithful'
<1>0. TypeOK /\ CallsSound /\ IInv /\ Undoable /\ call[c] \in CallState /\ InFlight(c)
  BY DEF SerialInv, IInv, TypeOK, InFlight, CommitEdit, FileDuplicate, CommitCreate, FileProposal
<1>1. /\ \A d \in Call : d # c => call'[d] = call[d]
      /\ call'[c].pc = "ok" /\ UNCHANGED <<value, revision>>
  BY <1>0, NowFields, SetCallEffect
  DEF CommitEdit, FileDuplicate, CommitCreate, FileProposal, PC, vaultVars
<1>2. \A d \in Call : d # c => ~ InFlight(d) /\ ~ OnHand(d)
  BY <1>0, <1>1, WorkingAlone DEF InFlight, OnHand
<1>3. \A d \in Call : call'[d].pc \in {"idle", "ok", "failed"}
  BY <1>1, <1>2 DEF InFlight
<1>4. CASE CommitEdit(c)
  <2> DEFINE b == call[c].account
  <2>1. /\ b \in Account /\ status[b] = "live" /\ call[c].ref \in Ref /\ OnHand(c)
        /\ call[c].ref = vaultRef[b] /\ call[c].wrote = revision[call[c].ref]
    BY <1>0, <1>4 DEF CommitEdit, CallsSound, Editing, OnHand, SerialInv, Faithful, Undoable, EditsUndo
  <2>2. value[vaultRef[b]] = c
    <3>1. value[vaultRef[b]] # NoValue
      BY <1>0, <2>1 DEF IInv, CredentialsPresent
    <3> QED
      BY <2>1, <3>1 DEF SerialInv, WritesKnown, OnHand
  <2>3. committed'[b] = c /\ \A a \in Account : a # b => committed'[a] = committed[a]
    BY <1>0, <1>4, <2>1 DEF CommitEdit, Bump, TypeOK
  <2>4. UNCHANGED <<status, vaultRef>>
    BY <1>4 DEF CommitEdit
  <2>5. \A a \in Account : Usable(a) /\ a # b => value[vaultRef[a]] = committed[a]
    BY <1>2 DEF SerialInv, Faithful
  <2> HIDE DEF b
  <2> QED
    BY <1>1, <1>3, <2>1, <2>2, <2>3, <2>4, <2>5, FaithfulAtRest DEF Usable
<1>5. ASSUME call[c].op # "edit"
      PROVE  \A a \in Account : Usable(a) => value[vaultRef[a]] = committed[a]
  BY <1>2, <1>5, Untouched DEF OnHand
<1>6. ASSUME NEW b \in Account, CommitCreate(c, b) PROVE Faithful'
  <2>1. /\ call[c].pc = "minted" /\ call[c].op # "edit" /\ value[call[c].ref] = c
        /\ \A a \in Account : Usable(a) => value[vaultRef[a]] = committed[a]
    BY <1>5, <1>6 DEF CommitCreate, SerialInv, Faithful
  <2>2. /\ vaultRef'[b] = call[c].ref /\ committed'[b] = c
        /\ \A a \in Account : a # b => /\ vaultRef'[a] = vaultRef[a]
                                       /\ committed'[a] = committed[a]
                                       /\ status'[a] = status[a]
    BY <1>0, <1>6 DEF CommitCreate, Insert, TypeOK
  <2> QED
    BY <1>1, <1>3, <2>1, <2>2, FaithfulAtRest DEF Usable
<1>7. CASE FileDuplicate(c) \/ \E q \in Request : FileProposal(c, q)
  <2>1. call[c].op # "edit" /\ UNCHANGED rowVars
    BY <1>7 DEF FileDuplicate, FileProposal
  <2> QED
    BY <1>1, <1>3, <1>5, <2>1, FaithfulAtRest DEF Usable, rowVars
<1> QED
  BY <1>4, <1>6, <1>7

LEMMA RefusalFaithful ==
  ASSUME SerialInv, NEW c \in Call, MutationThrows(c)
  PROVE  Faithful'
<1>0. /\ TypeOK /\ CallsSound /\ Undoable /\ call[c] \in CallState /\ InFlight(c)
      /\ call[c].pc \in {"written", "minted"}
  BY DEF SerialInv, IInv, TypeOK, InFlight, MutationThrows
<1>1. /\ \A d \in Call : d # c => call'[d] = call[d]
      /\ UNCHANGED <<value, rowVars>>
      /\ call'[c].pc = "refused" /\ call'[c].op = call[c].op /\ call'[c].ref = call[c].ref
      /\ call'[c].previous = call[c].previous /\ call'[c].account = call[c].account
  BY <1>0, NowFields, SetCallEffect DEF MutationThrows, PC, vaultVars
<1>2. \A d \in Call : d # c => ~ InFlight(d)
  BY <1>0, <1>1, WorkingAlone
<1>3. /\ Editing(c)' <=> Editing(c)
      /\ OnHand(c)' <=> OnHand(c)
      /\ \A d \in Call : d # c => ~ Editing(d)' /\ ~ OnHand(d)' /\ ~ OnHand(d) /\ call'[d].pc # "minted"
  BY <1>0, <1>1, <1>2 DEF Editing, OnHand, InFlight, CallsSound
<1> QED
  BY <1>0, <1>1, <1>3 DEF SerialInv, Faithful, Usable, rowVars, OnHand, Editing

LEMMA ReadFaithful ==
  ASSUME SerialInv, NEW c \in Call, ReadPrevious(c)
  PROVE  Faithful'
<1>0. /\ TypeOK /\ CallsSound /\ Undoable /\ call[c] \in CallState /\ InFlight(c) /\ Editing(c)
      /\ call[c].pc = "fetched" /\ call[c].op = "edit" /\ value[call[c].ref] \in Call
      /\ call[c].account \in Account /\ call[c].ref = vaultRef[call[c].account]
  BY DEF SerialInv, IInv, TypeOK, InFlight, ReadPrevious, CallsSound, Editing, Faithful
<1>1. /\ \A d \in Call : d # c => call'[d] = call[d]
      /\ UNCHANGED <<value, rowVars>>
      /\ call'[c].pc = "read" /\ call'[c].op = call[c].op /\ call'[c].ref = call[c].ref
      /\ call'[c].previous = value[call[c].ref] /\ call'[c].account = call[c].account
  BY <1>0, ReadFields, SetCallEffect DEF ReadPrevious, vaultVars
<1>2. \A d \in Call : d # c => ~ InFlight(d)
  BY <1>0, <1>1, WorkingAlone
<1>3. /\ \A d \in Call : ~ OnHand(d) /\ ~ OnHand(d)' /\ call'[d].pc # "minted"
      /\ \A d \in Call : d # c => ~ Editing(d)'
  BY <1>0, <1>1, <1>2 DEF Editing, OnHand, InFlight
<1>4. \A a \in Account : Usable(a) => value[vaultRef[a]] = committed[a]
  BY <1>3, Untouched
<1> QED
  BY <1>0, <1>1, <1>3, <1>4 DEF Faithful, Usable, rowVars

LEMMA WriteFaithful ==
  ASSUME SerialInv, NEW c \in Call, WriteInPlace(c)
  PROVE  Faithful'
<1>0. /\ TypeOK /\ CallsSound /\ RowsSound /\ Undoable /\ call[c] \in CallState /\ InFlight(c)
      /\ Editing(c) /\ call[c].pc = "read" /\ call[c].op = "edit" /\ call[c].ref \in Ref
      /\ call[c].account \in Account /\ call[c].ref = vaultRef[call[c].account]
  BY DEF SerialInv, IInv, TypeOK, InFlight, WriteInPlace, CallsSound, Editing, Faithful
<1>1. PICK n \in Nat : SetCall(c, HasWritten(call[c], n))
  BY <1>0 DEF WriteInPlace, Put, TypeOK
<1>2. /\ \A d \in Call : d # c => call'[d] = call[d]
      /\ UNCHANGED rowVars
      /\ call'[c].pc = "written" /\ call'[c].op = call[c].op /\ call'[c].ref = call[c].ref
      /\ call'[c].previous = call[c].previous /\ call'[c].account = call[c].account
      /\ \A r \in Ref : r # call[c].ref => value'[r] = value[r]
  <2>1. HasWritten(call[c], n) \in CallState /\ UNCHANGED rowVars
    BY <1>0, WrittenFields DEF WriteInPlace
  <2>2. \A r \in Ref : r # call[c].ref => value'[r] = value[r]
    BY <1>0 DEF WriteInPlace, Put, TypeOK
  <2> QED
    BY <1>0, <1>1, <2>1, <2>2, WrittenFields, SetCallEffect
<1>3. \A d \in Call : d # c => ~ InFlight(d)
  BY <1>0, <1>2, WorkingAlone
<1>4. /\ \A d \in Call : ~ OnHand(d) /\ call'[d].pc # "minted"
      /\ \A d \in Call : d # c => ~ Editing(d)'
      /\ OnHand(c)'
  BY <1>0, <1>2, <1>3 DEF Editing, OnHand, InFlight
<1>5. \A a \in Account : Usable(a) => value[vaultRef[a]] = committed[a]
  BY <1>4, Untouched
<1>6. \A a \in Account : Usable(a) /\ a # call[c].account => vaultRef[a] # call[c].ref /\ vaultRef[a] \in Ref
  BY <1>0, AccountConstants DEF RowsSound, Usable, AccountConstants
<1>7. \A a \in Account : Usable(a)' /\ (\A d \in Call : OnHand(d)' => call'[d].account # a) =>
        value'[vaultRef'[a]] = committed'[a]
  BY <1>2, <1>4, <1>5, <1>6 DEF Usable, rowVars
<1>8. /\ call'[c].ref = vaultRef'[call'[c].account]
      /\ status'[call'[c].account] \in {"live", "trashed"} =>
           call'[c].previous = committed'[call'[c].account]
  BY <1>0, <1>2 DEF SerialInv, Faithful, Usable, rowVars
<1> QED
  BY <1>4, <1>7, <1>8 DEF Faithful, Usable

LEMMA MintProposedFaithful ==
  ASSUME SerialInv, NEW c \in Call, NEW r \in Ref, MintProposed(c, r)
  PROVE  Faithful'
<1>0. /\ IInv /\ TypeOK /\ CallsSound /\ Undoable /\ call[c] \in CallState /\ InFlight(c)
      /\ call[c].pc = "fetched" /\ call[c].account \in Account /\ revision[r] = 0
  BY DEF SerialInv, IInv, TypeOK, InFlight, MintProposed, CallsSound, Mint
<1>1. /\ \A d \in Call : d # c => call'[d] = call[d]
      /\ call'[c].pc = "minted" /\ call'[c].op = "proposeEdit" /\ call'[c].ref = r
      /\ value' = [value EXCEPT ![r] = c] /\ UNCHANGED rowVars
  BY <1>0, StartedFields, SetCallEffect DEF MintProposed, Mint, PC, Operation
<1>2. \A d \in Call : d # c => ~ InFlight(d)
  BY <1>0, <1>1, WorkingAlone
<1>3. /\ \A d \in Call : ~ OnHand(d) /\ ~ Editing(d)'
      /\ \A d \in Call : call'[d].pc = "minted" => value'[call'[d].ref] = d
  BY <1>0, <1>1, <1>2 DEF Editing, OnHand, InFlight, TypeOK
<1>4. \A a \in Account : Usable(a) => value[vaultRef[a]] = committed[a]
  BY <1>3, Untouched
<1>5. \A a \in Account : Usable(a) => vaultRef[a] # r
  BY <1>0, RowIsOwn DEF Usable
<1>6. \A a \in Account : Usable(a)' => value'[vaultRef'[a]] = committed'[a]
  BY <1>0, <1>1, <1>4, <1>5 DEF Usable, TypeOK, rowVars
<1> QED
  BY <1>3, <1>6 DEF Faithful

LEMMA FailureFaithful ==
  ASSUME Faults = {}, SerialInv, NEW c \in Call,
         VaultThrows(c) \/ Rollback(c) \/ CleanUp(c)
  PROVE  Faithful'
<1>0. TypeOK /\ CallsSound /\ RowsSound /\ IInv /\ Undoable /\ call[c] \in CallState /\ InFlight(c)
  BY DEF SerialInv, IInv, TypeOK, InFlight, VaultThrows, Rollback, CleanUp
<1>1. /\ \A d \in Call : d # c => call'[d] = call[d]
      /\ call'[c].pc = "failed" /\ UNCHANGED rowVars
  BY <1>0, NowFields, SetCallEffect DEF VaultThrows, Rollback, CleanUp, PC
<1>2. \A d \in Call : d # c => ~ InFlight(d) /\ ~ OnHand(d)
  BY <1>0, <1>1, WorkingAlone DEF InFlight, OnHand
<1>3. \A d \in Call : call'[d].pc \in {"idle", "ok", "failed"}
  BY <1>1, <1>2 DEF InFlight
<1>4. CASE VaultThrows(c)
  <2>1. UNCHANGED value /\ ~ OnHand(c)
    BY <1>4 DEF VaultThrows, vaultVars, OnHand
  <2>2. \A a \in Account : Usable(a) => value[vaultRef[a]] = committed[a]
    BY <1>2, <2>1, Untouched
  <2> QED
    BY <1>1, <1>3, <2>1, <2>2, FaithfulAtRest DEF Usable, rowVars
<1>5. CASE CleanUp(c)
  <2>1. Staging(c) /\ ~ OnHand(c) /\ value' = [value EXCEPT ![call[c].ref] = NoValue]
    BY <1>0, <1>5 DEF CleanUp, Staging, OnHand
  <2>2. \A a \in Account : Usable(a) => value[vaultRef[a]] = committed[a]
    BY <1>2, <2>1, Untouched
  <2>3. \A a \in Account : vaultRef[a] # call[c].ref
    BY <1>0, <2>1, StagedIsOwn
  <2>4. \A a \in Account : Usable(a) => vaultRef[a] \in Ref
    BY <1>0, RowIsOwn DEF Usable
  <2>5. \A a \in Account : Usable(a) => value'[vaultRef[a]] = value[vaultRef[a]]
    BY <1>0, <2>1, <2>3, <2>4 DEF TypeOK
  <2> QED
    BY <1>1, <1>3, <2>2, <2>5, FaithfulAtRest DEF Usable, rowVars
<1>6. CASE Rollback(c)
  <2> DEFINE b == call[c].account
  <2>1. /\ b \in Account /\ call[c].ref \in Ref /\ Editing(c) /\ OnHand(c)
        /\ call[c].ref = vaultRef[b] /\ VersionMatches(c)
        /\ Usable(b) => call[c].previous = committed[b]
    BY <1>0, <1>6 DEF Rollback, CallsSound, Editing, OnHand, SerialInv, Faithful, Undoable,
      EditsUndo, VersionMatches
  <2>2. \A a \in Account : Usable(a) /\ a # b =>
          /\ value[vaultRef[a]] = committed[a]
          /\ vaultRef[a] \in Ref /\ vaultRef[a] # call[c].ref
    <3>1. \A a \in Account : Usable(a) /\ a # b => value[vaultRef[a]] = committed[a]
      BY <1>2 DEF SerialInv, Faithful
    <3>2. \A a \in Account : Usable(a) /\ a # b => vaultRef[a] \in Ref /\ vaultRef[a] # call[c].ref
      BY <1>0, <2>1, AccountConstants DEF RowsSound, Usable, AccountConstants
    <3> QED
      BY <3>1, <3>2
  <2>3. \A a \in Account : Usable(a) /\ a # b => value'[vaultRef[a]] = committed[a]
    BY <1>0, <1>6, <2>2 DEF Rollback, Put, TypeOK, vaultVars
  <2>4. Usable(b) => value'[vaultRef[b]] = committed[b]
    <3>1. Usable(b) => value[vaultRef[b]] # NoValue
      BY <1>0, <2>1 DEF IInv, CredentialsPresent, Usable
    <3> QED
      BY <1>0, <1>6, <2>1, <3>1 DEF Rollback, Put, TypeOK
  <2> HIDE DEF b
  <2> QED
    BY <1>1, <1>3, <2>3, <2>4, FaithfulAtRest DEF Usable, rowVars
<1> QED
  BY <1>4, <1>5, <1>6

\* A step beside the calls that moves no pointer and tells no row anything
\* new, and brings no account back from where its object may be gone.
LEMMA BesideFaithful ==
  ASSUME SerialInv, IInv', UNCHANGED call,
         \A r \in Ref : value'[r] \in {value[r], NoValue},
         \A a \in Account : /\ vaultRef'[a] = vaultRef[a] /\ committed'[a] = committed[a]
                            /\ Usable(a)' => Usable(a)
  PROVE  Faithful'
<1>0. IInv
  BY DEF SerialInv
<1>1. \A a \in Account : Usable(a)' => value'[vaultRef'[a]] = value[vaultRef[a]]
  <2>1. \A a \in Account : Usable(a) => vaultRef[a] \in Ref
    BY <1>0, RowIsOwn DEF Usable
  <2>2. \A a \in Account : Usable(a)' => value'[vaultRef'[a]] # NoValue
    BY DEF IInv, CredentialsPresent, Usable
  <2> QED
    BY <2>1, <2>2
<1>2. \A c \in Call : call[c].pc = "minted" => value'[call[c].ref] = value[call[c].ref]
  <2>1. \A c \in Call : call[c].pc = "minted" => call[c].ref \in Ref
    BY <1>0, MintedIsOwn, StagedIsOwn
  <2>2. \A c \in Call : call[c].pc = "minted" => value'[call[c].ref] # NoValue
    BY DEF IInv, StagedPresent
  <2> QED
    BY <2>1, <2>2
<1>3. \A c \in Call : Editing(c) => call[c].account \in Account
  BY <1>0 DEF IInv, CallsSound
<1>4. /\ \A c \in Call : Editing(c)' => call'[c].ref = vaultRef'[call'[c].account]
      /\ \A c \in Call : Editing(c)' /\ call'[c].pc # "fetched" /\ Usable(call[c].account)' =>
           call'[c].previous = committed'[call'[c].account]
  BY <1>3 DEF SerialInv, Faithful, Editing, Usable
<1>5. \A a \in Account : Usable(a)' /\ (\A c \in Call : OnHand(c)' => call'[c].account # a) =>
        value'[vaultRef'[a]] = committed'[a]
  BY <1>1 DEF SerialInv, Faithful, OnHand, Usable
<1>6. \A c \in Call : call'[c].pc = "minted" => value'[call'[c].ref] = c
  BY <1>2 DEF SerialInv, Faithful
<1> QED
  BY <1>3, <1>4, <1>5, <1>6 DEF Faithful, Usable

LEMMA ApproveCreateFaithful ==
  ASSUME SerialInv, NEW q \in Request, NEW b \in Account, ApproveCreate(q, b)
  PROVE  Faithful'
<1>0. TypeOK /\ CallsSound /\ RowsSound /\ IInv /\ status[b] = "unborn"
  BY DEF SerialInv, IInv, ApproveCreate, Insert
<1>1. /\ vaultRef'[b] = request[q].ref /\ committed'[b] = value[request[q].ref]
      /\ \A a \in Account : a # b => /\ vaultRef'[a] = vaultRef[a]
                                     /\ committed'[a] = committed[a]
                                     /\ status'[a] = status[a]
      /\ UNCHANGED <<call, value>>
  BY <1>0 DEF ApproveCreate, Insert, TypeOK, vaultVars
<1>2. \A c \in Call : Editing(c) => call[c].account \in Account /\ call[c].account # b
  BY <1>0, AccountConstants DEF CallsSound, RowsSound, SerialInv, Faithful, AccountConstants
<1>3. \A a \in Account : Usable(a)' /\ (\A c \in Call : OnHand(c)' => call'[c].account # a) =>
        value'[vaultRef'[a]] = committed'[a]
  BY <1>1 DEF SerialInv, Faithful, OnHand, Usable
<1>4. /\ \A c \in Call : Editing(c)' => call'[c].ref = vaultRef'[call'[c].account]
      /\ \A c \in Call : Editing(c)' /\ call'[c].pc # "fetched" /\ Usable(call[c].account)' =>
           call'[c].previous = committed'[call'[c].account]
  BY <1>1, <1>2 DEF SerialInv, Faithful, Editing, Usable
<1> QED
  BY <1>1, <1>3, <1>4 DEF SerialInv, Faithful, Usable

\* An update that is approved under no edit of its account.
LEMMA ApproveUpdateFaithful ==
  ASSUME SerialInv, IInv', NEW q \in Request, ApproveUpdate(q), ~ SwappedUnderEdit
  PROVE  Faithful'
<1> DEFINE b == request[q].target
<1>0. /\ TypeOK /\ CallsSound /\ IInv /\ b \in Account /\ status[b] = "live"
      /\ UNCHANGED <<call, value, status>>
  BY DEF SerialInv, IInv, RequestsSound, ApproveUpdate
<1>1. CASE request[q].ref = NoRef
  <2>1. \A a \in Account : vaultRef'[a] = vaultRef[a] /\ committed'[a] = committed[a]
    <3>1. committed' = [committed EXCEPT ![b] = committed[b]] /\ UNCHANGED vaultRef
      BY <1>1 DEF ApproveUpdate, Bump
    <3> QED
      BY <1>0, <3>1 DEF TypeOK
  <2>2. \A a \in Account : Usable(a)' => Usable(a)
    BY <1>0 DEF Usable
  <2> QED
    BY <1>0, <2>1, <2>2, BesideFaithful
<1>2. CASE request[q].ref # NoRef
  <2>1. /\ vaultRef' = [vaultRef EXCEPT ![b] = request[q].ref]
        /\ committed' = [committed EXCEPT ![b] = value[request[q].ref]]
    BY <1>2 DEF ApproveUpdate, Bump
  <2>2. vaultRef'[b] # vaultRef[b]
    BY <1>0, <1>2, <2>1, ProposalIsOwn DEF ApproveUpdate, Pending, TypeOK
  <2> HIDE DEF b
  <2>3. /\ vaultRef'[b] = request[q].ref /\ committed'[b] = value[request[q].ref]
        /\ \A a \in Account : a # b => vaultRef'[a] = vaultRef[a] /\ committed'[a] = committed[a]
    BY <1>0, <2>1 DEF TypeOK
  <2>4. \A c \in Call : Editing(c) => call[c].account \in Account /\ call[c].account # b
    BY <1>0, <2>2 DEF CallsSound, SwappedUnderEdit
  <2>5. \A a \in Account : Usable(a)' /\ (\A c \in Call : OnHand(c)' => call'[c].account # a) =>
          value'[vaultRef'[a]] = committed'[a]
    BY <1>0, <2>3 DEF SerialInv, Faithful, OnHand, Usable
  <2>6. /\ \A c \in Call : Editing(c)' => call'[c].ref = vaultRef'[call'[c].account]
        /\ \A c \in Call : Editing(c)' /\ call'[c].pc # "fetched" /\ Usable(call[c].account)' =>
             call'[c].previous = committed'[call'[c].account]
    BY <1>0, <2>3, <2>4 DEF SerialInv, Faithful, Editing, Usable
  <2> QED
    BY <1>0, <2>5, <2>6 DEF SerialInv, Faithful, Usable
<1> QED
  BY <1>1, <1>2

LEMMA NextFaithful ==
  ASSUME Serial = TRUE, Faults = {}, SerialInv, IInv', [Next]_vars, ~ SwappedUnderEdit
  PROVE  Faithful'
<1>0. IInv /\ TypeOK
  BY DEF SerialInv, IInv
<1>1. ASSUME NEW c \in Call, CallStep(c) PROVE Faithful'
  <2>1. ~ WriteLost(c) /\ ~ CallCrashes(c)
    BY DEF WriteLost, CallCrashes
  <2> QED
    BY <1>1, <2>1, BeginFaithful, SuccessFaithful, RefusalFaithful, ReadFaithful, WriteFaithful,
      MintProposedFaithful, FailureFaithful DEF CallStep
<1>2. ASSUME \/ \E q \in Request : \/ ApproveDelete(q) \/ ApproveRestore(q) \/ Close(q)
                                  \/ \E kind \in {"update", "delete", "restore"}, a \in Account :
                                       FilePlain(q, kind, a)
             \/ \E a \in Account : RowStep(a)
             \/ \E r \in Ref : RunDelete(r)
             \/ UNCHANGED vars
      PROVE  Faithful'
  <2>1. UNCHANGED call /\ \A r \in Ref : value'[r] \in {value[r], NoValue}
    BY <1>0, <1>2, Beside DEF RequestStep
  <2>2. \A a \in Account : vaultRef'[a] = vaultRef[a] /\ committed'[a] = committed[a]
    <3>1. UNCHANGED vaultRef
      BY <1>2 DEF ApproveDelete, ApproveRestore, Close, FilePlain, RowStep, EditMetadata, Remove,
        Restore, Expire, PurgeObject, PurgeRow, RunDelete, vars, rowVars
    <3>2. UNCHANGED committed \/ \E a \in Account : committed' = [committed EXCEPT ![a] = committed[a]]
      BY <1>2 DEF ApproveDelete, ApproveRestore, Close, FilePlain, RowStep, EditMetadata, Remove,
        Restore, Expire, PurgeObject, PurgeRow, RunDelete, vars, rowVars, Bump
    <3> QED
      BY <1>0, <3>1, <3>2 DEF TypeOK
  <2>3. \A a \in Account : Usable(a)' => Usable(a)
    <3>1. \/ UNCHANGED status
          \/ \E a \in Account : Usable(a) /\ \E s : status' = [status EXCEPT ![a] = s]
          \/ \E a \in Account : status' = [status EXCEPT ![a] = "purged"]
      <4>1. CASE \E q \in Request : ApproveDelete(q) \/ ApproveRestore(q)
        BY <1>0, <4>1 DEF ApproveDelete, ApproveRestore, Usable, IInv, RequestsSound, Pending, TypeOK
      <4>2. CASE \/ \E q \in Request : \/ Close(q)
                                       \/ \E kind \in {"update", "delete", "restore"}, a \in Account :
                                            FilePlain(q, kind, a)
                 \/ \E r \in Ref : RunDelete(r)
                 \/ UNCHANGED vars
        BY <4>2 DEF Close, FilePlain, RunDelete, vars, rowVars
      <4>3. ASSUME NEW a \in Account, RowStep(a)
            PROVE  \/ UNCHANGED status
                   \/ Usable(a) /\ \E s : status' = [status EXCEPT ![a] = s]
                   \/ status' = [status EXCEPT ![a] = "purged"]
        BY <4>3 DEF RowStep, EditMetadata, Remove, Restore, Expire, PurgeObject, PurgeRow,
          Usable, rowVars
      <4> QED
        BY <1>2, <4>1, <4>2, <4>3
    <3> QED
      BY <1>0, <3>1 DEF Usable, TypeOK
  <2> QED
    BY <2>1, <2>2, <2>3, BesideFaithful
<1>3. ASSUME NEW q \in Request, ApproveUpdate(q) \/ \E a \in Account : ApproveCreate(q, a)
      PROVE  Faithful'
  BY <1>3, ApproveCreateFaithful, ApproveUpdateFaithful
<1> QED
  BY <1>1, <1>2, <1>3 DEF Next, RequestStep

\* If calls run one after another and nothing outside fails, then a swap of
\* an account's object under an edit is the only way in which an account can
\* come to hold anything but the credentials acknowledged last: the edits,
\* rollbacks, deletions and purges add none.
THEOREM OnlySwapsLose ==
  ASSUME Serial = TRUE, Faults = {}
  PROVE  Spec /\ [][~ SwappedUnderEdit]_vars => []AcknowledgedIsLive
<1>1. Init => SerialInv
  <2>1. Init => Undoable /\ WritesKnown /\ Faithful
    BY AccountConstants DEF Init, Undoable, OneCall, EditsUndo, ValuesStand, WritesKnown, Faithful,
      InFlight, Editing, OnHand, Usable, IdleCall, AccountConstants
  <2> QED
    BY <2>1, InitIInv DEF SerialInv
<1>2. SerialInv /\ [Next]_vars /\ [~ SwappedUnderEdit]_vars => SerialInv'
  <2> SUFFICES ASSUME SerialInv, [Next]_vars, [~ SwappedUnderEdit]_vars
               PROVE  SerialInv'
    OBVIOUS
  <2>1. IInv' /\ Undoable' /\ WritesKnown'
    BY NextKeeps, NextUndoable, NextWritesKnown DEF SerialInv
  <2>2. CASE ~ SwappedUnderEdit
    BY <2>1, <2>2, NextFaithful DEF SerialInv
  <2>3. CASE UNCHANGED vars
    <3>1. ~ SwappedUnderEdit
      BY <2>3 DEF SwappedUnderEdit, vars
    <3> QED
      BY <2>1, <3>1, NextFaithful DEF SerialInv
  <2> QED
    BY <2>2, <2>3
<1>3. SerialInv => AcknowledgedIsLive
  <2> SUFFICES ASSUME SerialInv, \A c \in Call : ~ InFlight(c)
               PROVE  \A a \in Account : status[a] = "live" => value[vaultRef[a]] = committed[a]
    BY DEF AcknowledgedIsLive
  <2>1. \A c \in Call : ~ OnHand(c)
    BY DEF InFlight, OnHand
  <2> QED
    BY <2>1, Untouched DEF Usable
<1> QED
  BY <1>1, <1>2, <1>3, PTL DEF Spec
=============================================================================
