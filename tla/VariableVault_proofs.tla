----------------------- MODULE VariableVault_proofs -----------------------
(***************************************************************************)
(* What holds of the secrets' life for any number of rows, objects, calls  *)
(* and purge runs.                                                         *)
(***************************************************************************)
EXTENDS VariableVault, FiniteSetTheorems, TLAPS

(***************************************************************************)
(* The inductive invariant, in parts.                                      *)
(***************************************************************************)

\* A call holds a reference exactly between its mint and its end, and an
\* update knows its row.
CallsSound ==
  \A c \in Call :
    /\ call[c].pc \in {"idle", "checked"} => call[c].ref = NoRef
    /\ call[c].pc \in {"minted", "rejected"} => call[c].ref \in minted
    /\ call[c].pc # "idle" /\ call[c].op = "update" => call[c].target \in Variable

\* A row that exists points at one of its version rows; version rows belong
\* to rows that exist.
RowsSound ==
  /\ \A v \in Variable :
       IF status[v] \in {"live", "trashed"}
       THEN \E x \in versionRows : x.variable = v /\ x.vaultRef = vaultRef[v]
       ELSE vaultRef[v] = NoRef
  /\ \A x \in versionRows :
       status[x.variable] \in {"live", "trashed"} /\ x.vaultRef \in minted

\* An object belongs to one row or to one call.
Owned ==
  /\ \A x, y \in versionRows : x.vaultRef = y.vaultRef => x.variable = y.variable
  /\ \A x \in versionRows, c \in Call : call[c].ref # x.vaultRef
  /\ \A c, d \in Call : call[c].ref = call[d].ref /\ c # d => call[c].ref = NoRef

\* What a purge run may destroy on behalf of v: minted objects that no other
\* row and no call has.
Foreign(r, v) ==
  \/ r \notin minted
  \/ \E x \in versionRows : x.vaultRef = r /\ x.variable # v
  \/ \E c \in Call : call[c].ref = r

\* A row the cron purge listed can never come back.
Doomed(v) == status[v] = "purged" \/ (status[v] = "trashed" /\ Expired(v))

SweepsSound ==
  \A s \in Sweeper :
    /\ \A d \in sweep[s].batch :
         /\ \A r \in d.vaultRefs : ~Foreign(r, d.id)
         /\ s \in CronRun => Doomed(d.id)
    /\ sweep[s].doc = NoVariable => sweep[s].left = {}
    /\ sweep[s].doc # NoVariable =>
         /\ \A r \in sweep[s].left : ~Foreign(r, sweep[s].doc)
         /\ s \in CronRun => Doomed(sweep[s].doc)

IInv == TypeOK /\ CallsSound /\ RowsSound /\ Owned /\ SweepsSound

LEMMA InitTypeOK == Init => TypeOK
BY VaultConstants DEF Init, TypeOK, IdleCall, IdleSweep, CallState, SweepState, Sweeper, VaultConstants

LEMMA Records ==
  ASSUME TypeOK
  PROVE /\ \A c \in Call : call[c] \in CallState
        /\ \A s \in Sweeper : sweep[s] \in SweepState
        /\ IdleCall \in CallState
        /\ \A op \in {"create", "update"}, src \in Sources, v \in Variable \cup {NoVariable} :
             Checked(op, src, v) \in CallState
        /\ \A k \in CallState, r \in Ref : Minted(k, r) \in CallState
        /\ \A k \in CallState : Rejected(k) \in CallState
        /\ IdleSweep \in SweepState
        /\ \A b \in SUBSET Doc : Sweeping(b) \in SweepState
        /\ \A w \in SweepState : \A d \in w.batch : TakenUp(w, d) \in SweepState
        /\ \A w \in SweepState, r \in Ref, ok \in BOOLEAN : Tried(w, r, ok) \in SweepState
        /\ \A w \in SweepState : DoneWithDoc(w) \in SweepState
<1> USE VaultConstants DEF VaultConstants
<1>1. /\ \A c \in Call : call[c] \in CallState
      /\ \A s \in Sweeper : sweep[s] \in SweepState
  BY DEF TypeOK
<1>2. IdleCall \in CallState /\ IdleSweep \in SweepState
  BY DEF IdleCall, IdleSweep, CallState, SweepState
<1>3. \A op \in {"create", "update"}, src \in Sources, v \in Variable \cup {NoVariable} :
        Checked(op, src, v) \in CallState
  BY DEF Checked, CallState
<1>4. \A k \in CallState, r \in Ref : Minted(k, r) \in CallState
  BY DEF Minted, CallState
<1>5. \A k \in CallState : Rejected(k) \in CallState
  BY DEF Rejected, CallState
<1>6. \A b \in SUBSET Doc : Sweeping(b) \in SweepState
  BY DEF Sweeping, IdleSweep, SweepState
<1>7. \A w \in SweepState : \A d \in w.batch : TakenUp(w, d) \in SweepState
  BY DEF TakenUp, SweepState, Doc
<1>8. \A w \in SweepState, r \in Ref, ok \in BOOLEAN : Tried(w, r, ok) \in SweepState
  BY DEF Tried, SweepState
<1>9. \A w \in SweepState : DoneWithDoc(w) \in SweepState
  BY DEF DoneWithDoc, SweepState
<1> QED BY <1>1, <1>2, <1>3, <1>4, <1>5, <1>6, <1>7, <1>8, <1>9

\* Every step keeps every variable in its type.
LEMMA NextTypeOK == IInv /\ [Next]_vars => TypeOK'
<1> SUFFICES ASSUME IInv, [Next]_vars PROVE TypeOK'
  OBVIOUS
<1>0. TypeOK
  BY DEF IInv
<1>r. /\ \A c \in Call : call[c] \in CallState
      /\ \A s \in Sweeper : sweep[s] \in SweepState
      /\ IdleCall \in CallState /\ IdleSweep \in SweepState
  BY <1>0, Records
<1> USE <1>0, <1>r, VaultConstants DEF TypeOK, VaultConstants
<1>1. CASE Tick
  BY <1>1 DEF Tick, rowVars
<1>2. ASSUME NEW c \in Call, BeginCreate(c) \/ BeginBulk(c) PROVE TypeOK'
  BY <1>2, Records DEF BeginCreate, BeginBulk, rowVars
<1>3. ASSUME NEW c \in Call, Mint(c) PROVE TypeOK'
  BY <1>3, Records DEF Mint, rowVars
<1>4. ASSUME NEW c \in Call, MintThrows(c) PROVE TypeOK'
  BY <1>4 DEF MintThrows, rowVars
<1>5. ASSUME NEW v \in Variable, NEW ref \in Ref, WriteVersion(v, ref)
      PROVE /\ vaultRef' \in [Variable -> Ref \cup {NoRef}]
            /\ version' \in [Variable -> Nat]
            /\ versionRows' \subseteq [variable : Variable, version : Nat, vaultRef : Ref]
            /\ UNCHANGED <<status, deletedAt>>
  BY <1>5 DEF WriteVersion
<1>6. ASSUME NEW c \in Call, CommitUpdate(c) PROVE TypeOK'
  <2>1. call[c].target \in Variable /\ call[c].ref \in Ref
    BY <1>6 DEF IInv, CallsSound, CommitUpdate
  <2> QED BY <2>1, <1>5, <1>6 DEF CommitUpdate
<1>7. ASSUME NEW c \in Call, MutationThrows(c) \/ BulkThrows(c) PROVE TypeOK'
  BY <1>7, Records DEF MutationThrows, BulkThrows, rowVars
<1>8. ASSUME NEW c \in Call, CleanUp(c) PROVE TypeOK'
  <2>1. call[c].ref \in minted
    BY <1>8 DEF IInv, CallsSound, CleanUp
  <2> QED BY <2>1, <1>8 DEF CleanUp, rowVars
<1>9. ASSUME NEW c \in Call, CallCrashes(c) PROVE TypeOK'
  <2>1. call[c].ref \in minted \cup {NoRef}
    BY DEF IInv, CallsSound, CallState
  <2> QED BY <2>1, <1>9 DEF CallCrashes, rowVars
<1>10. ASSUME NEW c \in Call, NEW v \in Variable, BeginUpdate(c, v) PROVE TypeOK'
  BY <1>10, Records DEF BeginUpdate, rowVars
<1>11. ASSUME NEW c \in Call, NEW v \in Variable, CommitCreate(c, v) PROVE TypeOK'
  <2>1. call[c].ref \in Ref
    BY <1>11 DEF IInv, CallsSound, CommitCreate
  <2> QED BY <2>1, <1>11 DEF CommitCreate
<1>12. ASSUME NEW v \in Variable, EditMetadata(v) PROVE TypeOK'
  <2>1. vaultRef[v] \in Ref
    BY <1>12 DEF IInv, RowsSound, EditMetadata
  <2> QED BY <2>1, <1>5, <1>12 DEF EditMetadata
<1>13. ASSUME NEW v \in Variable, Remove(v) PROVE TypeOK'
  BY <1>13 DEF Remove
<1>14. ASSUME NEW v \in Variable, Restore(v) PROVE TypeOK'
  BY <1>14 DEF Restore
<1>15. ASSUME NEW v \in Variable, Rollback(v) PROVE TypeOK'
  BY <1>5, <1>15 DEF Rollback
<1>16. ASSUME NEW s \in Sweeper, List(s) PROVE TypeOK'
  <2>1. \A v \in Variable : RefsOf(v) \subseteq Ref
    BY DEF RefsOf
  <2>2. \A B \in Oldest(Listed(s)) :
          {[id |-> v, vaultRefs |-> RefsOf(v)] : v \in B} \in SUBSET Doc
    BY <2>1 DEF Doc, Oldest, Listed
  <2> QED BY <2>2, <1>16, Records DEF List, rowVars
<1>17. ASSUME NEW s \in Sweeper, TakeDoc(s) PROVE TypeOK'
  BY <1>17, Records DEF TakeDoc, rowVars
<1>18. ASSUME NEW s \in Sweeper, DestroyRef(s) PROVE TypeOK'
  <2>1. sweep[s].left \subseteq Ref
    BY DEF SweepState
  <2>2. PICK r \in sweep[s].left :
          /\ objects' \subseteq objects
          /\ \E ok \in BOOLEAN : sweep' = [sweep EXCEPT ![s] = Tried(sweep[s], r, ok)]
    BY <1>18 DEF DestroyRef
  <2>3. sweep' \in [Sweeper -> SweepState]
    BY <2>1, <2>2, Records
  <2> QED BY <2>2, <2>3, <1>18 DEF DestroyRef, rowVars
<1>19. ASSUME NEW s \in Sweeper, FinishDoc(s) PROVE TypeOK'
  BY <1>19, Records DEF FinishDoc, rowVars
<1>20. ASSUME NEW s \in Sweeper, EndSweep(s) PROVE TypeOK'
  BY <1>20 DEF EndSweep, rowVars
<1>21. CASE UNCHANGED vars
  BY <1>21 DEF vars
<1> QED
  BY <1>1, <1>2, <1>3, <1>4, <1>6, <1>7, <1>8, <1>9, <1>10, <1>11, <1>12, <1>13,
     <1>14, <1>15, <1>16, <1>17, <1>18, <1>19, <1>20, <1>21 DEF Next

\* What the record updates of the specification leave in each field.
LEMMA TakenUpFields ==
  ASSUME NEW w \in SweepState, NEW d \in w.batch
  PROVE  /\ TakenUp(w, d).batch = w.batch \ {d} /\ TakenUp(w, d).doc = d.id
         /\ TakenUp(w, d).left = d.vaultRefs /\ TakenUp(w, d).allDeleted = TRUE
BY DEF TakenUp, SweepState

LEMMA Fields ==
  ASSUME TypeOK
  PROVE /\ \A op \in {"create", "update"}, src \in Sources, v \in Variable \cup {NoVariable} :
             /\ Checked(op, src, v).pc = "checked" /\ Checked(op, src, v).op = op
             /\ Checked(op, src, v).target = v /\ Checked(op, src, v).ref = NoRef
        /\ \A k \in CallState, r \in Ref :
             /\ Minted(k, r).pc = "minted" /\ Minted(k, r).op = k.op
             /\ Minted(k, r).target = k.target /\ Minted(k, r).ref = r
        /\ \A k \in CallState :
             /\ Rejected(k).pc = "rejected" /\ Rejected(k).op = k.op
             /\ Rejected(k).target = k.target /\ Rejected(k).ref = k.ref
        /\ IdleCall.pc = "idle" /\ IdleCall.ref = NoRef
        /\ IdleSweep.batch = {} /\ IdleSweep.doc = NoVariable /\ IdleSweep.left = {}
        /\ \A b \in SUBSET Doc :
             Sweeping(b).batch = b /\ Sweeping(b).doc = NoVariable /\ Sweeping(b).left = {}
        /\ \A w \in SweepState, r \in Ref, ok \in BOOLEAN :
             /\ Tried(w, r, ok).batch = w.batch /\ Tried(w, r, ok).doc = w.doc
             /\ Tried(w, r, ok).left = w.left \ {r}
        /\ \A w \in SweepState, r \in Ref :
             /\ Tried(w, r, TRUE).allDeleted => w.allDeleted
             /\ ~Tried(w, r, FALSE).allDeleted
        /\ \A w \in SweepState :
             DoneWithDoc(w).batch = w.batch /\ DoneWithDoc(w).doc = NoVariable
               /\ DoneWithDoc(w).left = w.left
<1>1. /\ \A op \in {"create", "update"}, src \in Sources, v \in Variable \cup {NoVariable} :
           /\ Checked(op, src, v).pc = "checked" /\ Checked(op, src, v).op = op
           /\ Checked(op, src, v).target = v /\ Checked(op, src, v).ref = NoRef
      /\ IdleCall.pc = "idle" /\ IdleCall.ref = NoRef
      /\ IdleSweep.batch = {} /\ IdleSweep.doc = NoVariable /\ IdleSweep.left = {}
  BY DEF Checked, IdleCall, IdleSweep
<1>2. /\ \A k \in CallState, r \in Ref :
           /\ Minted(k, r).pc = "minted" /\ Minted(k, r).op = k.op
           /\ Minted(k, r).target = k.target /\ Minted(k, r).ref = r
      /\ \A k \in CallState :
           /\ Rejected(k).pc = "rejected" /\ Rejected(k).op = k.op
           /\ Rejected(k).target = k.target /\ Rejected(k).ref = k.ref
  BY DEF Minted, Rejected, CallState
<1>3. \A b \in SUBSET Doc :
        Sweeping(b).batch = b /\ Sweeping(b).doc = NoVariable /\ Sweeping(b).left = {}
  BY DEF Sweeping, IdleSweep
<1>5. \A w \in SweepState, r \in Ref, ok \in BOOLEAN :
        /\ Tried(w, r, ok).batch = w.batch /\ Tried(w, r, ok).doc = w.doc
        /\ Tried(w, r, ok).left = w.left \ {r}
  BY DEF Tried, SweepState
<1>6. \A w \in SweepState, r \in Ref :
        /\ Tried(w, r, TRUE).allDeleted => w.allDeleted
        /\ ~Tried(w, r, FALSE).allDeleted
  BY DEF Tried, SweepState
<1>7. \A w \in SweepState :
        DoneWithDoc(w).batch = w.batch /\ DoneWithDoc(w).doc = NoVariable
          /\ DoneWithDoc(w).left = w.left
  BY DEF DoneWithDoc, SweepState
<1> QED BY <1>1, <1>2, <1>3, <1>5, <1>6, <1>7

\* A step of a call that touches no row, and hands the call no reference it
\* did not have, keeps the rows' and the purges' invariants.
LEMMA CallStep ==
  ASSUME IInv, NEW c \in Call, NEW k \in CallState,
         UNCHANGED <<now, rowVars, sweep>>,
         minted \subseteq minted',
         call' = [call EXCEPT ![c] = k],
         k.ref \in {NoRef, call[c].ref} \cup (Ref \ minted)
  PROVE  RowsSound' /\ Owned' /\ SweepsSound'
<1> USE DEF IInv
<1>0. /\ call \in [Call -> CallState]
      /\ call'[c] = k
      /\ \A d \in Call : d # c => call'[d] = call[d]
      /\ \A x \in versionRows : x.vaultRef \in minted /\ x.vaultRef \in Ref
      /\ \A d \in Call : call[d].ref \in minted \cup {NoRef}
      /\ minted \subseteq Ref /\ NoRef \notin Ref
  BY VaultConstants DEF TypeOK, VaultConstants, RowsSound, CallsSound, CallState
<1>1. RowsSound'
  BY DEF RowsSound, rowVars
<1>2. Owned'
  BY <1>0 DEF Owned, rowVars
<1>3. \A r \in Ref, v \in Variable : ~Foreign(r, v) => ~Foreign(r, v)'
  BY <1>0 DEF Foreign, rowVars
<1>4. \A s \in Sweeper : sweep[s] \in SweepState
  BY DEF TypeOK
<1>5. \A v \in Variable : Doomed(v)' <=> Doomed(v)
  BY DEF Doomed, Expired, rowVars
<1>6. SweepsSound'
  BY <1>3, <1>4, <1>5 DEF SweepsSound, SweepState, Doc
<1> QED BY <1>1, <1>2, <1>6

\* The steps of the write actions before they reach a row.
LEMMA CallsPreserve ==
  ASSUME IInv, NEW c \in Call,
         \/ BeginCreate(c) \/ BeginBulk(c) \/ Mint(c) \/ MintThrows(c)
         \/ MutationThrows(c) \/ BulkThrows(c) \/ CleanUp(c) \/ CallCrashes(c)
         \/ \E v \in Variable : BeginUpdate(c, v)
  PROVE  CallsSound' /\ RowsSound' /\ Owned' /\ SweepsSound'
<1>0. TypeOK /\ CallsSound /\ call \in [Call -> CallState] /\ call[c] \in CallState
  BY DEF IInv, TypeOK
<1> USE <1>0, VaultConstants DEF VaultConstants
<1>1. CASE BeginCreate(c) \/ BeginBulk(c) \/ \E v \in Variable : BeginUpdate(c, v)
  <2>1. PICK op \in {"create", "update"}, src \in Sources, v \in Variable \cup {NoVariable} :
          /\ call' = [call EXCEPT ![c] = Checked(op, src, v)]
          /\ op = "update" => v \in Variable
    BY <1>1 DEF BeginCreate, BeginBulk, BeginUpdate
  <2>2. Checked(op, src, v) \in CallState
    BY Records
  <2>3. /\ Checked(op, src, v).pc = "checked" /\ Checked(op, src, v).op = op
        /\ Checked(op, src, v).target = v /\ Checked(op, src, v).ref = NoRef
    BY DEF Checked
  <2>4. /\ UNCHANGED <<now, rowVars, sweep>> /\ minted' = minted
    BY <1>1 DEF BeginCreate, BeginBulk, BeginUpdate
  <2>5. CallsSound'
    BY <2>1, <2>3, <2>4 DEF CallsSound
  <2>8. /\ UNCHANGED <<now, rowVars, sweep>> /\ minted \subseteq minted'
        /\ Checked(op, src, v) \in CallState
        /\ call' = [call EXCEPT ![c] = Checked(op, src, v)]
        /\ Checked(op, src, v).ref \in {NoRef, call[c].ref} \cup (Ref \ minted)
    BY <2>1, <2>2, <2>3, <2>4
  <2> QED BY <2>5, <2>8, CallStep DEF IInv
<1>3. CASE Mint(c)
  <2>1. PICK r \in Ref \ minted :
          /\ minted' = minted \cup {r}
          /\ call' = [call EXCEPT ![c] = Minted(call[c], r)]
    BY <1>3 DEF Mint
  <2>2. Minted(call[c], r) \in CallState
    BY Records
  <2>3. CallsSound'
    BY <2>1, <1>3, Fields DEF Mint, CallsSound
  <2>8. /\ UNCHANGED <<now, rowVars, sweep>> /\ minted \subseteq minted'
        /\ Minted(call[c], r) \in CallState
        /\ call' = [call EXCEPT ![c] = Minted(call[c], r)]
        /\ Minted(call[c], r).ref \in {NoRef, call[c].ref} \cup (Ref \ minted)
    BY <1>3, <2>1, <2>2, Fields DEF Mint
  <2> QED BY <2>3, <2>8, CallStep DEF IInv
<1>4. CASE MintThrows(c)
  <2>1. CallsSound'
    BY <1>4, Fields DEF MintThrows, CallsSound
  <2>8. /\ UNCHANGED <<now, rowVars, sweep>> /\ minted \subseteq minted'
        /\ IdleCall \in CallState
        /\ call' = [call EXCEPT ![c] = IdleCall]
        /\ IdleCall.ref \in {NoRef, call[c].ref} \cup (Ref \ minted)
    BY <1>4, Records, Fields DEF MintThrows
  <2> QED BY <2>1, <2>8, CallStep DEF IInv
<1>5. CASE MutationThrows(c) \/ BulkThrows(c)
  <2>1. CallsSound'
    BY <1>5, Fields DEF MutationThrows, BulkThrows, CallsSound
  <2>2. UNCHANGED <<now, rowVars, sweep>> /\ minted \subseteq minted'
    BY <1>5 DEF MutationThrows, BulkThrows
  <2>3. PICK k \in {Rejected(call[c]), IdleCall} : call' = [call EXCEPT ![c] = k]
    BY <1>5 DEF MutationThrows, BulkThrows
  <2>4. k \in CallState /\ k.ref \in {NoRef, call[c].ref} \cup (Ref \ minted)
    BY Records, Fields
  <2> QED BY <2>1, <2>2, <2>3, <2>4, CallStep DEF IInv
<1>6. CASE CleanUp(c)
  <2>1. CallsSound'
    BY <1>6, Fields DEF CleanUp, CallsSound
  <2>8. /\ UNCHANGED <<now, rowVars, sweep>> /\ minted \subseteq minted'
        /\ IdleCall \in CallState
        /\ call' = [call EXCEPT ![c] = IdleCall]
        /\ IdleCall.ref \in {NoRef, call[c].ref} \cup (Ref \ minted)
    BY <1>6, Records, Fields DEF CleanUp
  <2> QED BY <2>1, <2>8, CallStep DEF IInv
<1>7. CASE CallCrashes(c)
  <2>1. CallsSound'
    BY <1>7, Fields DEF CallCrashes, CallsSound
  <2>8. /\ UNCHANGED <<now, rowVars, sweep>> /\ minted \subseteq minted'
        /\ IdleCall \in CallState
        /\ call' = [call EXCEPT ![c] = IdleCall]
        /\ IdleCall.ref \in {NoRef, call[c].ref} \cup (Ref \ minted)
    BY <1>7, Records, Fields DEF CallCrashes
  <2> QED BY <2>1, <2>8, CallStep DEF IInv
<1> QED BY <1>1, <1>3, <1>4, <1>5, <1>6, <1>7

\* Committing hands the reference over from the call to the row.
LEMMA CommitsPreserve ==
  ASSUME IInv, NEW c \in Call, NEW v \in Variable,
         CommitCreate(c, v) \/ (CommitUpdate(c) /\ v = call[c].target)
  PROVE  CallsSound' /\ RowsSound' /\ Owned' /\ SweepsSound'
<1> USE VaultConstants DEF VaultConstants
<1>0. TypeOK /\ CallsSound /\ RowsSound /\ Owned /\ SweepsSound
  BY DEF IInv
<1>1. /\ call \in [Call -> CallState] /\ NoRef \notin Ref /\ minted \subseteq Ref
      /\ call[c].ref \in minted
      /\ \A s \in Sweeper : sweep[s] \in SweepState
  BY <1>0 DEF TypeOK, CallsSound, CommitCreate, CommitUpdate
<1>2. /\ call' = [call EXCEPT ![c] = IdleCall]
      /\ UNCHANGED <<now, deletedAt, objects, minted, lost, sweep>>
      /\ \E n \in Nat : versionRows' = versionRows
           \cup {[variable |-> v, version |-> n, vaultRef |-> call[c].ref]}
      /\ vaultRef' = [vaultRef EXCEPT ![v] = call[c].ref]
      /\ status[v] \in {"unborn", "live"}
      /\ status' = [status EXCEPT ![v] = "live"]
  BY <1>0, <1>1 DEF CommitCreate, CommitUpdate, WriteVersion, TypeOK
<1>3. CallsSound'
  BY <1>0, <1>1, <1>2, Fields DEF CallsSound
<1>4. RowsSound'
  <2>1. PICK n \in Nat : versionRows' = versionRows
          \cup {[variable |-> v, version |-> n, vaultRef |-> call[c].ref]}
    BY <1>2
  <2>2. /\ \E x \in versionRows' : x.variable = v /\ x.vaultRef = vaultRef'[v]
        /\ status'[v] = "live"
    <3>1. vaultRef'[v] = call[c].ref /\ status'[v] = "live"
      BY <1>0, <1>2 DEF TypeOK
    <3>2. [variable |-> v, version |-> n, vaultRef |-> call[c].ref] \in versionRows'
      BY <2>1
    <3> QED BY <3>1, <3>2
  <2>3. \A w \in Variable \ {v} : vaultRef'[w] = vaultRef[w] /\ status'[w] = status[w]
    BY <1>0, <1>2 DEF TypeOK
  <2>4. \A x \in versionRows' :
          status'[x.variable] \in {"live", "trashed"} /\ x.vaultRef \in minted'
    BY <1>0, <1>1, <1>2, <2>1, <2>3 DEF RowsSound, TypeOK
  <2>5. \A w \in Variable \ {v} :
          IF status'[w] \in {"live", "trashed"}
          THEN \E x \in versionRows' : x.variable = w /\ x.vaultRef = vaultRef'[w]
          ELSE vaultRef'[w] = NoRef
    BY <1>0, <2>1, <2>3 DEF RowsSound
  <2> QED BY <2>2, <2>4, <2>5 DEF RowsSound
<1>5. \A d \in Call : call'[d].ref = IF d = c THEN NoRef ELSE call[d].ref
  BY <1>0, <1>1, <1>2, Fields
<1>6. /\ \A x \in versionRows : x \in versionRows'
      /\ \A x \in versionRows' \ versionRows : x.variable = v /\ x.vaultRef = call[c].ref
      /\ \A x \in versionRows' : x.vaultRef \in Ref
  BY <1>0, <1>1, <1>2 DEF TypeOK
<1>7. Owned'
  <2>1. \A x, y \in versionRows' : x.vaultRef = y.vaultRef => x.variable = y.variable
    BY <1>0, <1>6 DEF Owned
  <2>2. \A x \in versionRows', d \in Call : call'[d].ref # x.vaultRef
    BY <1>0, <1>1, <1>5, <1>6 DEF Owned
  <2>3. \A d, e \in Call : call'[d].ref = call'[e].ref /\ d # e => call'[d].ref = NoRef
    BY <1>0, <1>5 DEF Owned
  <2> QED BY <2>1, <2>2, <2>3 DEF Owned
<1>8. \A r \in Ref, w \in Variable : ~Foreign(r, w) => ~Foreign(r, w)'
  BY <1>1, <1>2, <1>5, <1>6 DEF Foreign
<1>9. \A w \in Variable : Doomed(w) => Doomed(w)'
  BY <1>0, <1>2 DEF Doomed, Expired, TypeOK
<1>10. SweepsSound'
  BY <1>0, <1>1, <1>2, <1>8, <1>9 DEF SweepsSound, SweepState, Doc
<1> QED BY <1>3, <1>4, <1>7, <1>10

\* EditMetadata and Rollback add a version row for a reference of the row.
LEMMA WritesPreserve ==
  ASSUME IInv, NEW v \in Variable, EditMetadata(v) \/ Rollback(v)
  PROVE  CallsSound' /\ RowsSound' /\ Owned' /\ SweepsSound'
<1> USE VaultConstants DEF VaultConstants
<1>0. TypeOK /\ CallsSound /\ RowsSound /\ Owned /\ SweepsSound
  BY DEF IInv
<1>1. PICK y \in versionRows :
        /\ status[v] = "live"
        /\ y.variable = v
        /\ WriteVersion(v, y.vaultRef)
        /\ UNCHANGED <<now, objects, minted, lost, call, sweep>>
  BY <1>0 DEF EditMetadata, Rollback, RowsSound
<1>2. /\ \E n \in Nat : versionRows' = versionRows
           \cup {[variable |-> v, version |-> n, vaultRef |-> y.vaultRef]}
      /\ vaultRef' = [vaultRef EXCEPT ![v] = y.vaultRef]
      /\ UNCHANGED <<status, deletedAt>>
  BY <1>0, <1>1 DEF WriteVersion, TypeOK
<1>3. CallsSound'
  BY <1>0, <1>1 DEF CallsSound
<1>4. RowsSound'
  <2>1. y \in versionRows' /\ y.variable = v /\ vaultRef'[v] = y.vaultRef
    BY <1>0, <1>1, <1>2 DEF TypeOK
  <2>2. \A w \in Variable \ {v} : vaultRef'[w] = vaultRef[w]
    BY <1>0, <1>2 DEF TypeOK
  <2> QED BY <1>0, <1>1, <1>2, <2>1, <2>2 DEF RowsSound, TypeOK
<1>5. /\ \A x \in versionRows : x \in versionRows'
      /\ \A x \in versionRows' : \E z \in versionRows :
           x.variable = z.variable /\ x.vaultRef = z.vaultRef
  BY <1>1, <1>2
<1>6. Owned'
  BY <1>0, <1>1, <1>5 DEF Owned
<1>7. \A r \in Ref, w \in Variable : ~Foreign(r, w) => ~Foreign(r, w)'
  BY <1>1, <1>5 DEF Foreign
<1>8. \A w \in Variable : Doomed(w) => Doomed(w)'
  BY <1>1, <1>2 DEF Doomed, Expired
<1>9. SweepsSound'
  BY <1>0, <1>1, <1>7, <1>8 DEF SweepsSound, SweepState, Doc, TypeOK
<1> QED BY <1>3, <1>4, <1>6, <1>9

\* Trashing, restoring and the passing of time move no reference, and a row
\* doomed to be purged stays so.
LEMMA StatusPreserves ==
  ASSUME IInv, Tick \/ \E v \in Variable : Remove(v) \/ Restore(v)
  PROVE  CallsSound' /\ RowsSound' /\ Owned' /\ SweepsSound'
<1> USE VaultConstants DEF VaultConstants
<1>0. TypeOK /\ CallsSound /\ RowsSound /\ Owned /\ SweepsSound
  BY DEF IInv
<1>1. UNCHANGED <<vaultRef, versionRows, minted, call, sweep>>
  BY DEF Tick, Remove, Restore, rowVars
<1>2. CallsSound' /\ Owned'
  BY <1>0, <1>1 DEF CallsSound, Owned
<1>3. \A w \in Variable :
        status'[w] = status[w] \/ {status[w], status'[w]} = {"live", "trashed"}
  BY <1>0 DEF Tick, Remove, Restore, rowVars, TypeOK
<1>4. RowsSound'
  <2>1. \A x \in versionRows : x.variable \in Variable
    BY <1>0 DEF TypeOK
  <2> QED BY <2>1, <1>0, <1>1, <1>3 DEF RowsSound
<1>5. \A r \in Ref, w \in Variable : ~Foreign(r, w) => ~Foreign(r, w)'
  BY <1>1 DEF Foreign
<1>6. \A w \in Variable : Doomed(w) => Doomed(w)'
  BY <1>0 DEF Doomed, Expired, TypeOK, Tick, Remove, Restore, rowVars
<1>7. SweepsSound'
  BY <1>0, <1>1, <1>5, <1>6 DEF SweepsSound, SweepState, Doc, TypeOK
<1> QED BY <1>2, <1>4, <1>7

\* A run lists only what its query may return, and only references that are
\* the document's own.
LEMMA ListPreserves ==
  ASSUME IInv, NEW s \in Sweeper, List(s)
  PROVE  CallsSound' /\ RowsSound' /\ Owned' /\ SweepsSound'
<1> USE VaultConstants DEF VaultConstants
<1>0. TypeOK /\ CallsSound /\ RowsSound /\ Owned /\ SweepsSound
  BY DEF IInv
<1>1. /\ CallsSound' /\ RowsSound' /\ Owned'
      /\ \A r \in Ref, v \in Variable : Foreign(r, v)' <=> Foreign(r, v)
      /\ \A v \in Variable : Doomed(v)' <=> Doomed(v)
  BY <1>0 DEF List, CallsSound, RowsSound, Owned, Foreign, Doomed, Expired, rowVars
<1>2. \A v \in Variable : RefsOf(v) \subseteq Ref
  BY <1>0 DEF RefsOf, TypeOK
<1>3. \A v \in Variable, r \in Ref : r \in RefsOf(v) =>
        \E x \in versionRows : x.variable = v /\ x.vaultRef = r
  <2> SUFFICES ASSUME NEW v \in Variable, NEW r \in Ref, r \in RefsOf(v)
               PROVE \E x \in versionRows : x.variable = v /\ x.vaultRef = r
    OBVIOUS
  <2>1. CASE r = vaultRef[v]
    BY <1>0, <2>1 DEF RowsSound
  <2>2. CASE r # vaultRef[v]
    BY <2>2 DEF RefsOf
  <2> QED BY <2>1, <2>2
<1>4. \A v \in Variable, r \in Ref : r \in RefsOf(v) => ~Foreign(r, v)
  BY <1>0, <1>3 DEF Foreign, RowsSound, Owned
<1>5. PICK B \in Oldest(Listed(s)) :
        sweep' = [sweep EXCEPT ![s] =
                    Sweeping({[id |-> v, vaultRefs |-> RefsOf(v)] : v \in B})]
  BY DEF List
<1> DEFINE docs == {[id |-> v, vaultRefs |-> RefsOf(v)] : v \in B}
<1>6. /\ B \subseteq Variable
      /\ s \in CronRun => \A v \in B : Doomed(v)
  BY DEF Oldest, Listed, Doomed
<1>7. docs \in SUBSET Doc
  BY <1>2, <1>6 DEF Doc
<1>8. \A d \in docs : /\ d \in Doc
                      /\ \A r \in d.vaultRefs : ~Foreign(r, d.id)
                      /\ s \in CronRun => Doomed(d.id)
  BY <1>2, <1>4, <1>6, <1>7 DEF Doc
<1>9. /\ sweep'[s].batch = docs /\ sweep'[s].doc = NoVariable /\ sweep'[s].left = {}
      /\ \A t \in Sweeper \ {s} : sweep'[t] = sweep[t]
  <2>1. sweep'[s] = Sweeping(docs) /\ \A t \in Sweeper \ {s} : sweep'[t] = sweep[t]
    BY <1>0, <1>5 DEF TypeOK
  <2>2. \A b \in SUBSET Doc :
          Sweeping(b).batch = b /\ Sweeping(b).doc = NoVariable /\ Sweeping(b).left = {}
    BY <1>0, Fields
  <2> HIDE DEF docs
  <2> QED BY <1>7, <2>1, <2>2
<1> HIDE DEF docs
<1>10. \A t \in Sweeper : sweep[t] \in SweepState
  BY <1>0 DEF TypeOK
<1>11. SweepsSound'
  <2> SUFFICES ASSUME NEW t \in Sweeper
               PROVE (/\ \A d \in sweep[t].batch :
                           /\ \A r \in d.vaultRefs : ~Foreign(r, d.id)
                           /\ t \in CronRun => Doomed(d.id)
                      /\ sweep[t].doc = NoVariable => sweep[t].left = {}
                      /\ sweep[t].doc # NoVariable =>
                           /\ \A r \in sweep[t].left : ~Foreign(r, sweep[t].doc)
                           /\ t \in CronRun => Doomed(sweep[t].doc))'
    BY DEF SweepsSound
  <2>1. CASE t = s
    BY <2>1, <1>1, <1>8, <1>9 DEF Doc
  <2>2. CASE t # s
    BY <2>2, <1>0, <1>1, <1>9, <1>10 DEF SweepsSound, SweepState, Doc
  <2> QED BY <2>1, <2>2
<1> QED BY <1>1, <1>11

\* Working through a batch touches objects and purges rows, nothing else.
LEMMA SweepsPreserve ==
  ASSUME IInv, NEW s \in Sweeper,
         TakeDoc(s) \/ DestroyRef(s) \/ FinishDoc(s) \/ EndSweep(s)
  PROVE  CallsSound' /\ RowsSound' /\ Owned' /\ SweepsSound'
<1> USE VaultConstants DEF VaultConstants
<1>0. TypeOK /\ CallsSound /\ RowsSound /\ Owned /\ SweepsSound
  BY DEF IInv
<1>1. UNCHANGED <<now, minted, call>> /\ versionRows' \subseteq versionRows
  BY DEF TakeDoc, DestroyRef, FinishDoc, EndSweep, rowVars
<1>2. CallsSound' /\ Owned'
  BY <1>0, <1>1 DEF CallsSound, Owned
<1>3. RowsSound'
  <2>1. CASE UNCHANGED rowVars
    BY <2>1, <1>0, <1>1 DEF RowsSound, rowVars
  <2>2. CASE ~UNCHANGED rowVars
    <3> DEFINE v == sweep[s].doc
    <3>1. /\ v \in Variable
          /\ status' = [status EXCEPT ![v] = "purged"]
          /\ vaultRef' = [vaultRef EXCEPT ![v] = NoRef]
          /\ versionRows' = {row \in versionRows : row.variable # v}
      <4>1. FinishDoc(s)
        BY <2>2 DEF TakeDoc, DestroyRef, EndSweep
      <4>2. sweep[s] \in SweepState
        BY <1>0 DEF TypeOK
      <4>3. v \in Variable
        BY <4>1, <4>2 DEF FinishDoc, SweepState
      <4> QED BY <2>2, <4>1, <4>3 DEF FinishDoc
    <3>2. \A w \in Variable \ {v} : status'[w] = status[w] /\ vaultRef'[w] = vaultRef[w]
      BY <3>1, <1>0 DEF TypeOK
    <3>3. status'[v] = "purged" /\ vaultRef'[v] = NoRef
      BY <3>1, <1>0 DEF TypeOK
    <3> QED BY <3>1, <3>2, <3>3, <1>0, <1>1 DEF RowsSound, TypeOK
  <2> QED BY <2>1, <2>2
<1>4. \A r \in Ref, w \in Variable : ~Foreign(r, w) => ~Foreign(r, w)'
  BY <1>1 DEF Foreign
<1>5. \A w \in Variable : Doomed(w) => Doomed(w)'
  <2>1. CASE UNCHANGED rowVars
    BY <2>1, <1>1 DEF Doomed, Expired, rowVars
  <2>2. CASE ~UNCHANGED rowVars
    BY <2>2, <1>0, <1>1
      DEF Doomed, Expired, TakeDoc, DestroyRef, FinishDoc, EndSweep, TypeOK, SweepState
  <2> QED BY <2>1, <2>2
<1>6. \A t \in Sweeper : sweep[t] \in SweepState
  BY <1>0 DEF TypeOK
<1>7. /\ \A t \in Sweeper \ {s} : sweep'[t] = sweep[t]
      /\ sweep'[s].batch \subseteq sweep[s].batch
      /\ sweep'[s].doc = NoVariable => sweep'[s].left = {}
      /\ \/ sweep'[s].doc = NoVariable
         \/ sweep'[s].doc = sweep[s].doc /\ sweep'[s].left \subseteq sweep[s].left
         \/ \E d \in sweep[s].batch : sweep'[s].doc = d.id /\ sweep'[s].left = d.vaultRefs
  <2>0. \A t \in Sweeper \ {s} : sweep'[t] = sweep[t]
    BY <1>0 DEF TakeDoc, DestroyRef, FinishDoc, EndSweep, TypeOK
  <2>1. CASE TakeDoc(s)
    <3>1. PICK d \in sweep[s].batch : sweep' = [sweep EXCEPT ![s] = TakenUp(sweep[s], d)]
      BY <2>1 DEF TakeDoc
    <3>2. sweep'[s] = TakenUp(sweep[s], d) /\ d.id \in Variable
      BY <3>1, <1>0, <1>6 DEF TypeOK, SweepState, Doc
    <3>3. /\ sweep'[s].batch = sweep[s].batch \ {d}
          /\ sweep'[s].doc = d.id /\ sweep'[s].left = d.vaultRefs
      <4>1. sweep[s] \in SweepState /\ d \in sweep[s].batch
        BY <1>6
      <4>2. /\ TakenUp(sweep[s], d).batch = sweep[s].batch \ {d}
            /\ TakenUp(sweep[s], d).doc = d.id
            /\ TakenUp(sweep[s], d).left = d.vaultRefs
        BY <4>1, TakenUpFields
      <4> QED BY <3>2, <4>2
    <3> QED BY <2>0, <3>2, <3>3
  <2>2. CASE DestroyRef(s)
    <3>1. PICK r \in sweep[s].left, ok \in BOOLEAN :
            sweep' = [sweep EXCEPT ![s] = Tried(sweep[s], r, ok)]
      BY <2>2 DEF DestroyRef
    <3>2. sweep'[s] = Tried(sweep[s], r, ok) /\ r \in Ref
      BY <3>1, <1>0, <1>6 DEF TypeOK, SweepState
    <3>3. /\ sweep'[s].batch = sweep[s].batch /\ sweep'[s].doc = sweep[s].doc
          /\ sweep'[s].left = sweep[s].left \ {r}
      BY <3>2, <1>0, <1>6, Fields
    <3> QED BY <2>0, <2>2, <3>3 DEF DestroyRef
  <2>3. CASE FinishDoc(s)
    <3>1. sweep'[s] = DoneWithDoc(sweep[s]) /\ sweep[s].left = {}
      BY <2>3, <1>0 DEF FinishDoc, TypeOK
    <3>2. /\ sweep'[s].batch = sweep[s].batch /\ sweep'[s].doc = NoVariable
          /\ sweep'[s].left = {}
      BY <3>1, <1>0, <1>6, Fields
    <3> QED BY <2>0, <3>2
  <2>4. CASE EndSweep(s)
    <3>1. sweep'[s] = IdleSweep
      BY <2>4, <1>0 DEF EndSweep, TypeOK
    <3> QED BY <2>0, <3>1, <1>0, Fields
  <2> QED BY <2>1, <2>2, <2>3, <2>4
<1>8. SweepsSound'
  <2> SUFFICES ASSUME NEW t \in Sweeper
               PROVE (/\ \A d \in sweep[t].batch :
                           /\ \A r \in d.vaultRefs : ~Foreign(r, d.id)
                           /\ t \in CronRun => Doomed(d.id)
                      /\ sweep[t].doc = NoVariable => sweep[t].left = {}
                      /\ sweep[t].doc # NoVariable =>
                           /\ \A r \in sweep[t].left : ~Foreign(r, sweep[t].doc)
                           /\ t \in CronRun => Doomed(sweep[t].doc))'
    BY DEF SweepsSound
  <2>1. CASE t # s
    BY <2>1, <1>0, <1>4, <1>5, <1>6, <1>7 DEF SweepsSound, SweepState, Doc
  <2>2. CASE t = s
    BY <2>2, <1>0, <1>4, <1>5, <1>6, <1>7 DEF SweepsSound, SweepState, Doc
  <2> QED BY <2>1, <2>2
<1> QED BY <1>2, <1>3, <1>8

LEMMA InitIInv == Init => IInv
<1> SUFFICES ASSUME Init PROVE IInv
  OBVIOUS
<1>1. TypeOK
  BY InitTypeOK
<1>2. CallsSound /\ RowsSound /\ Owned
  BY <1>1, Fields DEF Init, CallsSound, RowsSound, Owned
<1>3. SweepsSound
  BY <1>1, Fields DEF Init, SweepsSound
<1> QED BY <1>1, <1>2, <1>3 DEF IInv

LEMMA NextIInv == IInv /\ [Next]_vars => IInv'
<1> SUFFICES ASSUME IInv, [Next]_vars PROVE CallsSound' /\ RowsSound' /\ Owned' /\ SweepsSound'
  BY NextTypeOK DEF IInv
<1>1. CASE UNCHANGED vars
  BY <1>1 DEF IInv, vars, CallsSound, RowsSound, Owned, SweepsSound, Foreign, Doomed, Expired
<1>2. ASSUME NEW c \in Call, CommitUpdate(c)
      PROVE CallsSound' /\ RowsSound' /\ Owned' /\ SweepsSound'
  <2>1. call[c].target \in Variable
    BY <1>2 DEF CommitUpdate, IInv, CallsSound
  <2> QED BY <2>1, <1>2, CommitsPreserve
<1>3. CASE Tick \/ \E v \in Variable : Remove(v) \/ Restore(v)
  BY <1>3, StatusPreserves
<1>4. CASE \E v \in Variable : EditMetadata(v) \/ Rollback(v)
  BY <1>4, WritesPreserve
<1>5. CASE \E c \in Call, v \in Variable : CommitCreate(c, v)
  BY <1>5, CommitsPreserve
<1>6. CASE \E c \in Call :
             \/ BeginCreate(c) \/ BeginBulk(c) \/ Mint(c) \/ MintThrows(c)
             \/ MutationThrows(c) \/ BulkThrows(c) \/ CleanUp(c) \/ CallCrashes(c)
             \/ \E v \in Variable : BeginUpdate(c, v)
  BY <1>6, CallsPreserve
<1>7. CASE \E s \in Sweeper : List(s)
  BY <1>7, ListPreserves
<1>8. CASE \E s \in Sweeper : TakeDoc(s) \/ DestroyRef(s) \/ FinishDoc(s) \/ EndSweep(s)
  BY <1>8, SweepsPreserve
<1> QED BY <1>1, <1>2, <1>3, <1>4, <1>5, <1>6, <1>7, <1>8 DEF Next

\* Every reference of a row is kept by one of its version rows.
LEMMA RefsInRows ==
  ASSUME IInv, NEW v \in Variable, NEW r \in RefsOf(v)
  PROVE  /\ \E x \in versionRows : x.variable = v /\ x.vaultRef = r
         /\ r \in minted
<1>1. \E x \in versionRows : x.variable = v /\ x.vaultRef = r
  BY DEF RefsOf, IInv, RowsSound
<1> QED BY <1>1 DEF IInv, RowsSound

\* Type correctness: every variable of the model keeps its type in every
\* reachable state.
THEOREM TypeCorrect == Spec => []TypeOK
<1>1. IInv => TypeOK
  BY DEF IInv
<1> QED BY <1>1, InitIInv, NextIInv, PTL DEF Spec

\* Ownership: whatever writes, rollbacks, trashings, restores and purges
\* interleave, no object ever belongs to two rows, nor to a row and to a
\* write that may still delete it.
THEOREM OwnershipExclusive == Spec => []RefsExclusive
<1>1. IInv => RefsExclusive
  <2> SUFFICES ASSUME IInv PROVE RefsExclusive
    OBVIOUS
  <2>1. \A v, w \in Variable : v # w => RefsOf(v) \cap RefsOf(w) = {}
    BY RefsInRows DEF IInv, Owned
  <2>2. \A v \in Variable : RefsOf(v) \cap InFlight = {}
    BY RefsInRows DEF IInv, Owned, InFlight
  <2> QED BY <2>1, <2>2 DEF RefsExclusive
<1> QED BY <1>1, InitIInv, NextIInv, PTL DEF Spec

\* An object leaves the vault in two ways: the writer that minted it gives it
\* up, or a purge run that took up a document destroys it.
LEMMA WhoDestroys ==
  ASSUME IInv, [Next]_vars, NEW r \in objects, r \notin objects'
  PROVE  \/ \E c \in Call : call[c].pc = "rejected" /\ call[c].ref = r /\ call'[c] = IdleCall
         \/ \E s \in Sweeper : sweep[s].doc # NoVariable /\ r \in sweep[s].left
<1>1. ~UNCHANGED vars
  BY DEF vars
<1>2. CASE \E c \in Call : CleanUp(c)
  BY <1>2 DEF CleanUp, IInv, TypeOK
<1>3. CASE \E s \in Sweeper : DestroyRef(s)
  BY <1>3 DEF DestroyRef
<1>4. CASE ~(\E c \in Call : CleanUp(c)) /\ ~(\E s \in Sweeper : DestroyRef(s))
  BY <1>1, <1>4 DEF Next, Tick, BeginCreate, BeginBulk, Mint, MintThrows, CommitUpdate, MutationThrows, BulkThrows,
    CallCrashes, BeginUpdate, CommitCreate, EditMetadata, Remove, Restore, Rollback, List,
    TakeDoc, FinishDoc, EndSweep
<1> QED BY <1>2, <1>3, <1>4

\* The only runs that can take a value from a live variable are those of the
\* "empty trash" button: neither the cron purge nor a failed write's cleanup
\* ever reaches one.
THEOREM LiveOutOfReach == Spec => OnlyTrashRunsReachLive
<1>1. ASSUME IInv, [Next]_vars, NEW v \in Variable, status[v] = "live",
             ~(RefsOf(v) \cap objects \subseteq objects')
      PROVE  \E s \in TrashRun : sweep[s].doc = v
  <2>1. PICK r \in RefsOf(v) : r \in objects /\ r \notin objects'
    BY <1>1
  <2>2. PICK x \in versionRows : x.variable = v /\ x.vaultRef = r
    BY <1>1, RefsInRows
  <2>3. ~(\E c \in Call : call[c].ref = r)
    BY <1>1, <2>2 DEF IInv, Owned
  <2>4. PICK s \in Sweeper : sweep[s].doc # NoVariable /\ r \in sweep[s].left
    BY <1>1, <2>1, <2>3, WhoDestroys
  <2>5. ~Foreign(r, sweep[s].doc) /\ (s \in CronRun => Doomed(sweep[s].doc))
    BY <1>1, <2>4 DEF IInv, SweepsSound
  <2>6. sweep[s].doc = v
    BY <2>2, <2>5 DEF Foreign
  <2> QED BY <1>1, <2>5, <2>6 DEF Doomed, Sweeper
<1>2. IInv /\ [Next]_vars =>
        [\A v \in Variable :
           status[v] = "live" /\ ~(RefsOf(v) \cap objects \subseteq objects')
             => \E s \in TrashRun : sweep[s].doc = v]_vars
  BY <1>1
<1> QED BY <1>2, InitIInv, NextIInv, PTL DEF Spec, OnlyTrashRunsReachLive

(***************************************************************************)
(* Without emptyProjectTrash: what the cron purge and the writers leave    *)
(* intact between them.                                                    *)
(***************************************************************************)

\* Every value a restore or a rollback could still reach is in the vault, and
\* so is what a write in flight has minted.
ValuesSurvive ==
  /\ \A x \in versionRows : ~Doomed(x.variable) => x.vaultRef \in objects
  /\ \A c \in Call : call[c].pc \in {"minted", "rejected"} => call[c].ref \in objects

LEMMA DoomedStable ==
  ASSUME IInv, [Next]_vars, NEW w \in Variable, Doomed(w)
  PROVE  Doomed(w)'
<1> USE DEF Doomed, Expired, IInv, TypeOK
<1>1. CASE Tick \/ \E v \in Variable : Remove(v) \/ Restore(v) \/ EditMetadata(v) \/ Rollback(v)
  BY <1>1, VaultConstants DEF VaultConstants, Tick, Remove, Restore, EditMetadata, Rollback, WriteVersion, rowVars
<1>2. CASE \E c \in Call :
             \/ CommitUpdate(c) \/ \E v \in Variable : CommitCreate(c, v)
  BY <1>2 DEF CommitUpdate, CommitCreate, WriteVersion
<1>3. CASE \E c \in Call :
             \/ BeginCreate(c) \/ BeginBulk(c) \/ Mint(c) \/ MintThrows(c)
             \/ MutationThrows(c) \/ BulkThrows(c) \/ CleanUp(c) \/ CallCrashes(c)
             \/ \E v \in Variable : BeginUpdate(c, v)
  BY <1>3 DEF BeginCreate, BeginBulk, Mint, MintThrows, MutationThrows, BulkThrows, CleanUp, CallCrashes, BeginUpdate, rowVars
<1>4. CASE \E s \in Sweeper : List(s) \/ TakeDoc(s) \/ DestroyRef(s) \/ EndSweep(s)
  BY <1>4 DEF List, TakeDoc, DestroyRef, EndSweep, rowVars
<1>5. ASSUME NEW s \in Sweeper, FinishDoc(s) PROVE Doomed(w)'
  BY <1>5 DEF FinishDoc, rowVars
<1>6. CASE UNCHANGED vars
  BY <1>6 DEF vars
<1> QED BY <1>1, <1>2, <1>3, <1>4, <1>5, <1>6 DEF Next

\* A version row that appears repeats a reference of its variable or takes
\* over the one a call minted; a row gets new ones only while it is not doomed.
LEMMA NewRows ==
  ASSUME IInv, [Next]_vars, NEW x \in versionRows', x \notin versionRows
  PROVE  /\ UNCHANGED objects
         /\ x.variable \in Variable /\ ~Doomed(x.variable)
         /\ \/ \E z \in versionRows : z.variable = x.variable /\ z.vaultRef = x.vaultRef
            \/ \E c \in Call : call[c].pc = "minted" /\ call[c].ref = x.vaultRef
<1>0. TypeOK /\ CallsSound /\ RowsSound
  BY DEF IInv
<1>1. CASE \E c \in Call, v \in Variable : CommitCreate(c, v)
  BY <1>1 DEF CommitCreate, Doomed
<1>2. CASE \E c \in Call : CommitUpdate(c)
  BY <1>0, <1>2 DEF CommitUpdate, WriteVersion, CallsSound, Doomed
<1>3. CASE \E v \in Variable : EditMetadata(v) \/ Rollback(v)
  BY <1>0, <1>3 DEF EditMetadata, Rollback, WriteVersion, RowsSound, Doomed
<1>4. CASE ~(\/ \E c \in Call : CommitUpdate(c) \/ \E v \in Variable : CommitCreate(c, v)
             \/ \E v \in Variable : EditMetadata(v) \/ Rollback(v))
  <2>1. versionRows' \subseteq versionRows
    BY <1>4 DEF Next, vars, Tick, BeginCreate, BeginBulk, Mint, MintThrows, MutationThrows, BulkThrows, CleanUp,
      CallCrashes, BeginUpdate, Remove, Restore, List, TakeDoc, DestroyRef, FinishDoc,
      EndSweep, rowVars
  <2> QED BY <2>1
<1> QED BY <1>1, <1>2, <1>3, <1>4

\* A call holds an object it held before, or the one the vault just made.
LEMMA HeldObjects ==
  ASSUME IInv, [Next]_vars, NEW c \in Call, call'[c].pc \in {"minted", "rejected"}
  PROVE  \/ /\ call[c].pc \in {"minted", "rejected"}
            /\ call'[c].ref = call[c].ref
         \/ call'[c].ref \in objects'
<1>0. TypeOK /\ call \in [Call -> CallState] /\ call[c] \in CallState
  BY DEF IInv, TypeOK
<1>1. CASE call'[c] = call[c]
  BY <1>1
<1>2. CASE call'[c] # call[c]
  <2>1. \/ BeginCreate(c) \/ BeginBulk(c) \/ Mint(c) \/ MintThrows(c) \/ CommitUpdate(c)
        \/ MutationThrows(c) \/ BulkThrows(c) \/ CleanUp(c) \/ CallCrashes(c)
        \/ \E v \in Variable : BeginUpdate(c, v) \/ CommitCreate(c, v)
    <3>1. PICK d \in Call :
            \/ BeginCreate(d) \/ BeginBulk(d) \/ Mint(d) \/ MintThrows(d) \/ CommitUpdate(d)
            \/ MutationThrows(d) \/ BulkThrows(d) \/ CleanUp(d) \/ CallCrashes(d)
            \/ \E v \in Variable : BeginUpdate(d, v) \/ CommitCreate(d, v)
      BY <1>2 DEF Next, vars, Tick, EditMetadata, Remove, Restore, Rollback, List, TakeDoc,
        DestroyRef, FinishDoc, EndSweep
    <3>2. \E k : call' = [call EXCEPT ![d] = k]
      BY <3>1 DEF BeginCreate, BeginBulk, Mint, MintThrows, CommitUpdate, MutationThrows, BulkThrows, CleanUp,
        CallCrashes, BeginUpdate, CommitCreate
    <3>3. d = c
      BY <1>0, <1>2, <3>2
    <3> QED BY <3>1, <3>3
  <2>2. CASE Mint(c)
    <3>1. PICK r \in Ref : r \in objects' /\ call'[c] = Minted(call[c], r)
      BY <1>0, <2>2 DEF Mint
    <3> QED BY <1>0, <3>1, Fields
  <2>3. CASE MutationThrows(c)
    <3>1. call'[c] = Rejected(call[c]) /\ call[c].pc = "minted"
      BY <1>0, <2>3, Fields DEF MutationThrows
    <3>2. Rejected(call[c]).ref = call[c].ref
      BY <1>0, Fields
    <3> QED BY <3>1, <3>2
  <2>4. CASE MintThrows(c) \/ CommitUpdate(c) \/ BulkThrows(c) \/ CleanUp(c) \/ CallCrashes(c)
             \/ \E v \in Variable : CommitCreate(c, v)
    <3>1. call'[c] = IdleCall
      BY <1>0, <2>4 DEF MintThrows, CommitUpdate, BulkThrows, CleanUp, CallCrashes, CommitCreate
    <3> QED BY <3>1 DEF IdleCall
  <2>5. CASE BeginCreate(c) \/ BeginBulk(c) \/ \E v \in Variable : BeginUpdate(c, v)
    <3>1. call'[c].pc = "checked"
      BY <1>0, <2>5 DEF BeginCreate, BeginBulk, BeginUpdate, Checked
    <3> QED BY <3>1
  <2> QED BY <2>1, <2>2, <2>3, <2>4, <2>5
<1> QED BY <1>1, <1>2

LEMMA NextValuesSurvive ==
  ASSUME TrashRun = {}, IInv, IInv', ValuesSurvive, [Next]_vars
  PROVE  ValuesSurvive'
<1>0. \A x \in versionRows : x.variable \in Variable
  BY DEF IInv, TypeOK
<1>1. ASSUME NEW x \in versionRows', ~Doomed(x.variable)' PROVE x.vaultRef \in objects'
  <2>1. CASE x \in versionRows
    <3>1. ~Doomed(x.variable) /\ x.vaultRef \in objects
      BY <1>0, <1>1, <2>1, DoomedStable DEF ValuesSurvive
    <3>2. ~(\E c \in Call : call[c].ref = x.vaultRef)
      BY <2>1 DEF IInv, Owned
    <3>3. ~(\E s \in Sweeper : sweep[s].doc # NoVariable /\ x.vaultRef \in sweep[s].left)
      <4> SUFFICES ASSUME NEW s \in Sweeper, sweep[s].doc # NoVariable,
                          x.vaultRef \in sweep[s].left
                   PROVE  FALSE
        OBVIOUS
      <4>1. ~Foreign(x.vaultRef, sweep[s].doc) /\ Doomed(sweep[s].doc)
        BY DEF IInv, SweepsSound, Sweeper
      <4> QED BY <2>1, <3>1, <4>1 DEF Foreign
    <3> QED BY <3>1, <3>2, <3>3, WhoDestroys
  <2>2. CASE x \notin versionRows
    BY <2>2, NewRows DEF ValuesSurvive
  <2> QED BY <2>1, <2>2
<1>2. ASSUME NEW c \in Call, call'[c].pc \in {"minted", "rejected"}
      PROVE call'[c].ref \in objects'
  <2>1. CASE call'[c].ref \in objects'
    BY <2>1
  <2>2. CASE call'[c].ref \notin objects'
    <3>1. /\ call[c].pc \in {"minted", "rejected"} /\ call'[c].ref = call[c].ref
          /\ call[c].ref \in objects
      BY <1>2, <2>2, HeldObjects DEF ValuesSurvive
    <3>2. call[c].ref # NoRef
      BY <3>1, VaultConstants DEF IInv, TypeOK, VaultConstants
    <3>3. ~(\E s \in Sweeper : sweep[s].doc # NoVariable /\ call[c].ref \in sweep[s].left)
      BY DEF IInv, SweepsSound, Foreign
    <3>4. PICK d \in Call : call[d].ref = call[c].ref /\ call'[d] = IdleCall
      BY <2>2, <3>1, <3>3, WhoDestroys
    <3>5. d = c
      BY <3>2, <3>4 DEF IInv, Owned
    <3> QED BY <1>2, <3>4, <3>5 DEF IdleCall
  <2> QED BY <2>1, <2>2
<1> QED BY <1>1, <1>2 DEF ValuesSurvive

LEMMA SurvivalInvariant ==
  ASSUME TrashRun = {}
  PROVE  Spec => [](IInv /\ ValuesSurvive)
<1>1. Init => ValuesSurvive
  BY DEF Init, ValuesSurvive, IdleCall
<1>2. IInv /\ ValuesSurvive /\ [Next]_vars => ValuesSurvive'
  BY NextIInv, NextValuesSurvive
<1> QED BY <1>1, <1>2, InitIInv, NextIInv, PTL DEF Spec

\* As long as nobody presses "empty trash", a live variable can be pulled and
\* rolled back at every one of its versions, whatever fails, crashes or is
\* purged around it.
THEOREM LiveSurvive ==
  ASSUME TrashRun = {}
  PROVE  Spec => []LiveValuesSurvive
<1>1. IInv /\ ValuesSurvive => LiveValuesSurvive
  BY RefsInRows DEF ValuesSurvive, LiveValuesSurvive, Doomed
<1> QED BY <1>1, SurvivalInvariant, PTL

\* ... and a restore that restoreCore accepts brings back a variable whose
\* every value still exists.
THEOREM RestorableSurvive ==
  ASSUME TrashRun = {}
  PROVE  Spec => []RestorableValuesSurvive
<1>1. IInv /\ ValuesSurvive => RestorableValuesSurvive
  BY RefsInRows DEF ValuesSurvive, RestorableValuesSurvive, Doomed
<1> QED BY <1>1, SurvivalInvariant, PTL

\* What a cron run listed of a document is all there will ever be of it: the
\* row can no longer be written, so its snapshot never goes stale.
SnapshotComplete ==
  \A s \in Sweeper :
    /\ \A d \in sweep[s].batch : RefsOf(d.id) \subseteq d.vaultRefs
    /\ \A w \in Variable : sweep[s].doc = w /\ sweep[s].allDeleted =>
         RefsOf(w) \cap objects \subseteq sweep[s].left

\* A doomed row gains no reference, and no object it names reappears.
LEMMA DoomedFrozen ==
  ASSUME IInv, IInv', [Next]_vars, NEW w \in Variable, Doomed(w)
  PROVE  RefsOf(w)' \subseteq RefsOf(w) /\ RefsOf(w)' \cap objects' \subseteq objects
<1>1. ASSUME NEW r \in RefsOf(w)' PROVE r \in RefsOf(w)
  <2>1. (\E x \in versionRows : x.variable = w /\ x.vaultRef = r)'
    BY <1>1 DEF RefsOf, IInv, RowsSound
  <2>2. PICK x \in versionRows' : x.variable = w /\ x.vaultRef = r
    BY <2>1
  <2>3. x \in versionRows
    BY <2>2, NewRows
  <2> QED BY <2>2, <2>3 DEF RefsOf
<1>2. minted \cap objects' \subseteq objects
  BY DEF Next, vars, Tick, BeginCreate, BeginBulk, Mint, MintThrows, CommitUpdate, MutationThrows, BulkThrows,
    CleanUp, CallCrashes, BeginUpdate, CommitCreate, EditMetadata, Remove, Restore,
    Rollback, List, TakeDoc, DestroyRef, FinishDoc, EndSweep
<1> QED BY <1>1, <1>2, RefsInRows

LEMMA NextSnapshotComplete ==
  ASSUME TrashRun = {}, IInv, IInv', SnapshotComplete, [Next]_vars
  PROVE  SnapshotComplete'
<1> SUFFICES ASSUME NEW s \in Sweeper
             PROVE  /\ \A d \in sweep'[s].batch : RefsOf(d.id)' \subseteq d.vaultRefs
                    /\ \A w \in Variable : sweep'[s].doc = w /\ sweep'[s].allDeleted =>
                         RefsOf(w)' \cap objects' \subseteq sweep'[s].left
  BY DEF SnapshotComplete
<1>0. /\ TypeOK /\ sweep \in [Sweeper -> SweepState] /\ sweep[s] \in SweepState
      /\ s \in CronRun
      /\ \A d \in sweep[s].batch : d \in Doc /\ d.id \in Variable /\ Doomed(d.id)
      /\ \A w \in Variable : sweep[s].doc = w => Doomed(w)
      /\ NoVariable \notin Variable
  BY VaultConstants DEF VaultConstants, IInv, TypeOK, SweepsSound, Sweeper, SweepState, Doc
<1>1. \A w \in Variable : Doomed(w) =>
        RefsOf(w)' \subseteq RefsOf(w) /\ RefsOf(w)' \cap objects' \subseteq objects
  BY DoomedFrozen
<1>2. CASE sweep'[s] = sweep[s]
  BY <1>0, <1>1, <1>2 DEF SnapshotComplete
<1>3. CASE sweep'[s] # sweep[s]
  <2>1. List(s) \/ TakeDoc(s) \/ DestroyRef(s) \/ FinishDoc(s) \/ EndSweep(s)
    <3>1. PICK t \in Sweeper :
            List(t) \/ TakeDoc(t) \/ DestroyRef(t) \/ FinishDoc(t) \/ EndSweep(t)
      BY <1>3 DEF Next, vars, Tick, BeginCreate, BeginBulk, Mint, MintThrows, CommitUpdate,
        MutationThrows, BulkThrows, CleanUp, CallCrashes, BeginUpdate, CommitCreate, EditMetadata,
        Remove, Restore, Rollback
    <3>2. \E w : sweep' = [sweep EXCEPT ![t] = w]
      BY <3>1 DEF List, TakeDoc, DestroyRef, FinishDoc, EndSweep
    <3>3. t = s
      BY <1>0, <1>3, <3>2
    <3> QED BY <3>1, <3>3
  <2>2. CASE List(s)
    <3>1. PICK B \in Oldest(Listed(s)) :
            sweep' = [sweep EXCEPT ![s] =
                        Sweeping({[id |-> v, vaultRefs |-> RefsOf(v)] : v \in B})]
      BY <2>2 DEF List
    <3> DEFINE docs == {[id |-> v, vaultRefs |-> RefsOf(v)] : v \in B}
    <3>2. /\ \A v \in Variable : RefsOf(v)' = RefsOf(v)
          /\ \A d \in docs : d.vaultRefs = RefsOf(d.id) /\ d.id \in Variable
      BY <2>2 DEF List, rowVars, RefsOf, Oldest, Listed
    <3>3. sweep'[s].batch = docs /\ sweep'[s].doc = NoVariable
      <4>1. sweep'[s] = Sweeping(docs)
        BY <1>0, <3>1
      <4>2. \A b : Sweeping(b).batch = b /\ Sweeping(b).doc = NoVariable
        BY DEF Sweeping, IdleSweep
      <4> HIDE DEF docs
      <4> QED BY <4>1, <4>2
    <3> HIDE DEF docs
    <3>4. \A d \in sweep'[s].batch : RefsOf(d.id)' \subseteq d.vaultRefs
      BY <3>2, <3>3
    <3> QED BY <1>0, <3>3, <3>4
  <2>3. CASE TakeDoc(s)
    <3>1. PICK d \in sweep[s].batch : sweep' = [sweep EXCEPT ![s] = TakenUp(sweep[s], d)]
      BY <2>3 DEF TakeDoc
    <3>2. sweep'[s] = TakenUp(sweep[s], d)
      BY <1>0, <3>1
    <3>3. /\ sweep'[s].batch = sweep[s].batch \ {d}
          /\ sweep'[s].doc = d.id /\ sweep'[s].left = d.vaultRefs
      <4>1. sweep[s] \in SweepState /\ d \in sweep[s].batch
        BY <1>0
      <4>2. /\ TakenUp(sweep[s], d).batch = sweep[s].batch \ {d}
            /\ TakenUp(sweep[s], d).doc = d.id
            /\ TakenUp(sweep[s], d).left = d.vaultRefs
        BY <4>1, TakenUpFields
      <4> QED BY <3>2, <4>2
    <3>4. \A e \in sweep[s].batch : RefsOf(e.id)' \subseteq e.vaultRefs
      BY <1>0, <1>1 DEF SnapshotComplete
    <3> QED BY <3>3, <3>4
  <2>4. CASE DestroyRef(s)
    <3>1. PICK r \in sweep[s].left, ok \in BOOLEAN :
            /\ sweep' = [sweep EXCEPT ![s] = Tried(sweep[s], r, ok)]
            /\ ok => objects' = objects \ {r}
      BY <2>4 DEF DestroyRef
    <3>2. sweep'[s] = Tried(sweep[s], r, ok) /\ r \in Ref
      BY <1>0, <3>1 DEF SweepState
    <3>3. /\ sweep'[s].batch = sweep[s].batch /\ sweep'[s].doc = sweep[s].doc
          /\ sweep'[s].left = sweep[s].left \ {r}
          /\ sweep'[s].allDeleted => sweep[s].allDeleted /\ ok
      BY <1>0, <3>2 DEF Tried, SweepState
    <3>4. \A d \in sweep'[s].batch : RefsOf(d.id)' \subseteq d.vaultRefs
      BY <1>0, <1>1, <3>3 DEF SnapshotComplete
    <3>5. ASSUME NEW w \in Variable, sweep'[s].doc = w, sweep'[s].allDeleted
          PROVE  RefsOf(w)' \cap objects' \subseteq sweep'[s].left
      <4>1. RefsOf(w) \cap objects \subseteq sweep[s].left
        BY <3>3, <3>5 DEF SnapshotComplete
      <4>2. RefsOf(w)' \subseteq RefsOf(w) /\ objects' = objects \ {r}
        BY <1>0, <1>1, <3>1, <3>3, <3>5
      <4> QED BY <3>3, <4>1, <4>2
    <3> QED BY <3>4, <3>5
  <2>5. CASE FinishDoc(s)
    <3>1. sweep'[s] = DoneWithDoc(sweep[s])
      BY <1>0, <2>5 DEF FinishDoc
    <3>2. sweep'[s].batch = sweep[s].batch /\ sweep'[s].doc = NoVariable
      BY <1>0, <3>1 DEF DoneWithDoc, SweepState
    <3>3. \A d \in sweep'[s].batch : RefsOf(d.id)' \subseteq d.vaultRefs
      BY <1>0, <1>1, <3>2 DEF SnapshotComplete
    <3>4. \A w \in Variable : sweep'[s].doc # w
      BY <1>0, <3>2
    <3> QED BY <3>3, <3>4
  <2>6. CASE EndSweep(s)
    <3>1. sweep'[s] = IdleSweep
      BY <1>0, <2>6 DEF EndSweep
    <3>2. sweep'[s].batch = {} /\ sweep'[s].doc = NoVariable
      BY <3>1 DEF IdleSweep
    <3>3. \A w \in Variable : sweep'[s].doc # w
      BY <1>0, <3>2
    <3> QED BY <3>2, <3>3
  <2> QED BY <2>1, <2>2, <2>3, <2>4, <2>5, <2>6
<1> QED BY <1>2, <1>3

\* The cron purge never leaves an object without a row: when the rows of a
\* variable go, no object they name is left.  (The cron alone: "empty trash"
\* lists rows a restore, an edit and a second removal may still change.)
THEOREM RowsGoLast ==
  ASSUME TrashRun = {}
  PROVE  Spec => RowsOutliveObjects
<1>1. Init => SnapshotComplete
  BY DEF Init, SnapshotComplete, IdleSweep
<1>2. IInv /\ SnapshotComplete /\ [Next]_vars => SnapshotComplete'
  BY NextIInv, NextSnapshotComplete
<1>3. ASSUME IInv, SnapshotComplete, [Next]_vars,
             NEW v \in Variable, status[v] # "purged", status'[v] = "purged"
      PROVE  RefsOf(v) \cap objects = {}
  <2>0. status \in [Variable -> {"unborn", "live", "trashed", "purged"}]
    BY <1>3 DEF IInv, TypeOK
  <2>1. PICK s \in Sweeper : FinishDoc(s)
    BY <1>3, <2>0 DEF Next, vars, Tick, BeginCreate, BeginBulk, Mint, MintThrows, CommitUpdate,
      MutationThrows, BulkThrows, CleanUp, CallCrashes, BeginUpdate, CommitCreate, EditMetadata, Remove,
      Restore, Rollback, WriteVersion, List, TakeDoc, DestroyRef, EndSweep, rowVars
  <2>2. /\ sweep[s].doc = v /\ v # NoVariable
        /\ sweep[s].allDeleted /\ sweep[s].left = {}
    BY <1>3, <2>0, <2>1 DEF FinishDoc, rowVars
  <2> QED BY <1>3, <2>2 DEF SnapshotComplete
<1>4. IInv /\ SnapshotComplete /\ [Next]_vars =>
        [\A v \in Variable :
           status[v] # "purged" /\ status'[v] = "purged" => RefsOf(v) \cap objects = {}]_vars
  BY <1>3
<1> QED BY <1>1, <1>2, <1>4, InitIInv, NextIInv, PTL DEF Spec, RowsOutliveObjects

(***************************************************************************)
(* The version history.                                                    *)
(***************************************************************************)

\* A version number names one row of a variable, none is past its counter,
\* none below it is missing, and the last one is where the row points.
Numbered ==
  /\ \A x, y \in versionRows :
       x.variable = y.variable /\ x.version = y.version => x = y
  /\ \A x \in versionRows : 1 <= x.version /\ x.version <= version[x.variable]
  /\ \A v \in Variable :
       /\ status[v] = "unborn" => version[v] = 0
       /\ status[v] \in {"live", "trashed"} =>
            /\ \A n \in 1..version[v] :
                 \E x \in versionRows : x.variable = v /\ x.version = n
            /\ \E x \in versionRows :
                 x.variable = v /\ x.version = version[v] /\ x.vaultRef = vaultRef[v]

\* A write that takes the next number keeps the history.
LEMMA NextNumber ==
  ASSUME IInv, Numbered, NEW v \in Variable, NEW ref \in Ref,
         status[v] \in {"unborn", "live"},
         status' = [status EXCEPT ![v] = "live"],
         vaultRef' = [vaultRef EXCEPT ![v] = ref],
         version' = [version EXCEPT ![v] = version[v] + 1],
         versionRows' = versionRows
           \cup {[variable |-> v, version |-> version[v] + 1, vaultRef |-> ref]}
  PROVE  Numbered'
<1> DEFINE row == [variable |-> v, version |-> version[v] + 1, vaultRef |-> ref]
<1>0. /\ TypeOK /\ RowsSound
      /\ \A w \in Variable : version[w] \in Nat
      /\ \A x \in versionRows : x.variable \in Variable /\ x.version \in Nat
  BY DEF IInv, TypeOK
<1>1. /\ row.variable = v /\ row.version = version[v] + 1 /\ row.vaultRef = ref
      /\ versionRows' = versionRows \cup {row}
  OBVIOUS
<1>2. /\ status'[v] = "live" /\ vaultRef'[v] = ref /\ version'[v] = version[v] + 1
      /\ \A w \in Variable \ {v} :
           status'[w] = status[w] /\ vaultRef'[w] = vaultRef[w] /\ version'[w] = version[w]
  BY <1>0 DEF TypeOK
<1> HIDE DEF row
<1>3. \A x \in versionRows : x.variable = v => x.version # row.version
  BY <1>0, <1>1 DEF Numbered
<1>4. \A x, y \in versionRows' :
        x.variable = y.variable /\ x.version = y.version => x = y
  BY <1>1, <1>3 DEF Numbered
<1>5. \A x \in versionRows' : 1 <= x.version /\ x.version <= version'[x.variable]
  BY <1>0, <1>1, <1>2 DEF Numbered
<1>6. ASSUME NEW w \in Variable
      PROVE  /\ status'[w] = "unborn" => version'[w] = 0
             /\ status'[w] \in {"live", "trashed"} =>
                  /\ \A n \in 1..version'[w] :
                       \E x \in versionRows' : x.variable = w /\ x.version = n
                  /\ \E x \in versionRows' : /\ x.variable = w
                                             /\ x.version = version'[w]
                                             /\ x.vaultRef = vaultRef'[w]
  <2>1. CASE w # v
    BY <1>1, <1>2, <2>1 DEF Numbered
  <2>2. CASE w = v
    <3>1. \A n \in 1..version[v] : \E x \in versionRows : x.variable = v /\ x.version = n
      BY DEF Numbered
    <3>2. \A n \in 1..(version[v] + 1) : n \in 1..version[v] \/ n = row.version
      BY <1>0, <1>1
    <3>3. \A n \in 1..(version[v] + 1) :
            \E x \in versionRows' : x.variable = v /\ x.version = n
      BY <1>1, <3>1, <3>2
    <3> QED BY <1>1, <1>2, <2>2, <3>3
  <2> QED BY <2>1, <2>2
<1> QED BY <1>4, <1>5, <1>6 DEF Numbered

\* Every step keeps the history: the writes number the next version, a purge
\* takes all of a variable's rows, and nothing else touches them.
LEMMA NextNumbered ==
  ASSUME IInv, Numbered, [Next]_vars
  PROVE  Numbered'
<1>0. /\ TypeOK /\ CallsSound /\ RowsSound
      /\ \A w \in Variable : version[w] \in Nat
      /\ \A x \in versionRows : x.variable \in Variable
  BY DEF IInv, TypeOK
<1>1. ASSUME NEW c \in Call, NEW v \in Variable, CommitCreate(c, v) PROVE Numbered'
  <2>1. version[v] = 0 /\ call[c].ref \in Ref
    BY <1>0, <1>1 DEF CommitCreate, Numbered, CallsSound, TypeOK
  <2>2. version[v] + 1 = 1
    BY <2>1
  <2>3. /\ status[v] = "unborn"
        /\ status' = [status EXCEPT ![v] = "live"]
        /\ vaultRef' = [vaultRef EXCEPT ![v] = call[c].ref]
        /\ version' = [version EXCEPT ![v] = version[v] + 1]
        /\ versionRows' = versionRows
             \cup {[variable |-> v, version |-> version[v] + 1, vaultRef |-> call[c].ref]}
    BY <1>1, <2>2, Zenon DEF CommitCreate
  <2> QED BY <2>1, <2>3, NextNumber
<1>2. ASSUME NEW v \in Variable, NEW ref \in Ref, status[v] = "live", WriteVersion(v, ref)
      PROVE  Numbered'
  <2>1. status' = [status EXCEPT ![v] = "live"]
    BY <1>0, <1>2 DEF WriteVersion, TypeOK
  <2> QED BY <1>2, <2>1, NextNumber DEF WriteVersion
<1>3. ASSUME NEW c \in Call, CommitUpdate(c) PROVE Numbered'
  <2>1. call[c].target \in Variable /\ call[c].ref \in Ref
    BY <1>0, <1>3 DEF CommitUpdate, CallsSound, TypeOK
  <2> QED BY <1>2, <1>3, <2>1 DEF CommitUpdate
<1>4. ASSUME NEW v \in Variable, EditMetadata(v) PROVE Numbered'
  <2>1. vaultRef[v] \in Ref
    BY <1>0, <1>4 DEF EditMetadata, RowsSound, TypeOK
  <2> QED BY <1>2, <1>4, <2>1 DEF EditMetadata
<1>5. ASSUME NEW v \in Variable, Rollback(v) PROVE Numbered'
  BY <1>0, <1>2, <1>5 DEF Rollback, TypeOK
<1>6. ASSUME NEW v \in Variable, Remove(v) \/ Restore(v) PROVE Numbered'
  <2>1. /\ UNCHANGED <<vaultRef, version, versionRows>>
        /\ status[v] \in {"live", "trashed"} /\ status'[v] \in {"live", "trashed"}
        /\ \A w \in Variable \ {v} : status'[w] = status[w]
    BY <1>0, <1>6 DEF Remove, Restore, TypeOK
  <2> QED BY <2>1 DEF Numbered
<1>7. CASE UNCHANGED rowVars
  BY <1>7 DEF Numbered, rowVars
<1>8. ASSUME NEW s \in Sweeper, FinishDoc(s), ~UNCHANGED rowVars PROVE Numbered'
  <2> DEFINE v == sweep[s].doc
  <2>1. /\ status' = [status EXCEPT ![v] = "purged"]
        /\ vaultRef' = [vaultRef EXCEPT ![v] = NoRef]
        /\ version' = [version EXCEPT ![v] = 0]
        /\ versionRows' = {row \in versionRows : row.variable # v}
        /\ status[v] = "trashed"
    BY <1>8 DEF FinishDoc, StillPurgeable
  <2> HIDE DEF v
  <2>2. \A w \in Variable : IF w = v THEN status'[w] = "purged"
                            ELSE /\ status'[w] = status[w] /\ version'[w] = version[w]
                                 /\ vaultRef'[w] = vaultRef[w]
    BY <1>0, <2>1 DEF TypeOK
  <2>3. \A x \in versionRows' : x \in versionRows /\ x.variable # v
    BY <2>1
  <2>4. \A x \in versionRows : x.variable # v => x \in versionRows'
    BY <2>1
  <2>5. \A w \in Variable \ {v} : status'[w] = status[w] /\ version'[w] = version[w]
                                  /\ vaultRef'[w] = vaultRef[w]
    BY <2>2
  <2>6. /\ \A x, y \in versionRows' :
             x.variable = y.variable /\ x.version = y.version => x = y
        /\ \A x \in versionRows' : 1 <= x.version /\ x.version <= version'[x.variable]
    BY <1>0, <2>3, <2>5 DEF Numbered
  <2>7. ASSUME NEW w \in Variable
        PROVE  /\ status'[w] = "unborn" => version'[w] = 0
               /\ status'[w] \in {"live", "trashed"} =>
                    /\ \A n \in 1..version'[w] :
                         \E x \in versionRows' : x.variable = w /\ x.version = n
                    /\ \E x \in versionRows' : /\ x.variable = w
                                               /\ x.version = version'[w]
                                               /\ x.vaultRef = vaultRef'[w]
    <3>1. CASE w = v
      BY <2>2, <3>1
    <3>2. CASE w # v
      BY <2>4, <2>5, <3>2 DEF Numbered
    <3> QED BY <3>1, <3>2
  <2> QED BY <2>6, <2>7 DEF Numbered
<1>9. CASE Tick \/ \E c \in Call :
             \/ BeginCreate(c) \/ BeginBulk(c) \/ Mint(c) \/ MintThrows(c)
             \/ MutationThrows(c) \/ BulkThrows(c) \/ CleanUp(c) \/ CallCrashes(c)
             \/ \E v \in Variable : BeginUpdate(c, v)
  BY <1>7, <1>9 DEF Tick, BeginCreate, BeginBulk, Mint, MintThrows, MutationThrows,
    BulkThrows, CleanUp, CallCrashes, BeginUpdate
<1>10. CASE \E s \in Sweeper : List(s) \/ TakeDoc(s) \/ DestroyRef(s) \/ EndSweep(s)
  BY <1>7, <1>10 DEF List, TakeDoc, DestroyRef, EndSweep
<1>11. CASE UNCHANGED vars
  BY <1>7, <1>11 DEF vars, rowVars
<1> QED BY <1>1, <1>3, <1>4, <1>5, <1>6, <1>7, <1>8, <1>9, <1>10, <1>11 DEF Next

\* As many rows as numbers: each number is the version of one row.
LEMMA CountByNumber ==
  ASSUME NEW rows, NEW n \in Nat,
         \A x \in rows : x.version \in 1..n,
         \A x, y \in rows : x.version = y.version => x = y,
         \A i \in 1..n : \E x \in rows : x.version = i
  PROVE  Cardinality(rows) = n
<1> DEFINE f == [x \in rows |-> x.version]
<1>1. f \in Bijection(rows, 1..n)
  BY DEF Bijection, Injection, Surjection, IsInjective
<1>2. IsFiniteSet(1..n) /\ Cardinality(1..n) = n
  BY FS_Interval
<1> HIDE DEF f
<1>3. f \in Injection(rows, 1..n) /\ f \in Surjection(rows, 1..n)
  BY <1>1 DEF Bijection
<1>4. IsFiniteSet(rows) /\ (Cardinality(rows) = Cardinality(1..n) <=> f \in Surjection(rows, 1..n))
  BY <1>2, <1>3, FS_Injection
<1> QED BY <1>2, <1>3, <1>4

\* History: whatever interleaves, the versions of a variable that exists are
\* numbered 1, 2, ... without gap or repetition, and its row points where the
\* last one does, so a rollback to "version n" always means one value.
THEOREM HistoryWhole == Spec => []HistoryContiguous
<1>1. Init => Numbered
  BY DEF Init, Numbered
<1>2. IInv /\ Numbered /\ [Next]_vars => Numbered'
  BY NextNumbered
<1>3. IInv /\ Numbered => HistoryContiguous
  <2> SUFFICES ASSUME IInv, Numbered, NEW v \in Variable, status[v] \in {"live", "trashed"}
               PROVE  LET rows == {x \in versionRows : x.variable = v} IN
                      /\ {x.version : x \in rows} = 1..version[v]
                      /\ Cardinality(rows) = version[v]
                      /\ \E x \in rows : x.version = version[v] /\ x.vaultRef = vaultRef[v]
    BY DEF HistoryContiguous
  <2> DEFINE rows == {x \in versionRows : x.variable = v}
  <2>0. version[v] \in Nat /\ \A x \in rows : x.version \in Nat
    BY DEF IInv, TypeOK
  <2>1. /\ \A x \in rows : x.version \in 1..version[v]
        /\ \A x, y \in rows : x.version = y.version => x = y
        /\ \A n \in 1..version[v] : \E x \in rows : x.version = n
        /\ \E x \in rows : x.version = version[v] /\ x.vaultRef = vaultRef[v]
    BY <2>0 DEF Numbered
  <2> HIDE DEF rows
  <2>2. Cardinality(rows) = version[v]
    BY <2>0, <2>1, CountByNumber
  <2>3. {x.version : x \in rows} = 1..version[v]
    BY <2>1
  <2> QED BY <2>1, <2>2, <2>3 DEF rows
<1> QED BY <1>1, <1>2, <1>3, InitIInv, NextIInv, PTL DEF Spec

(***************************************************************************)
(* No object is left without an explanation by the single-value actions.   *)
(***************************************************************************)

\* Only the actions that may run do.
SourcesKept == \A c \in Call : call[c].pc # "idle" => call[c].source \in Sources

\* An object in the vault has a row, a call that holds it, or a writer that
\* could not finish.
Accounted ==
  \A r \in objects :
    \/ r \in lost
    \/ \E c \in Call : call[c].ref = r
    \/ \E x \in versionRows : x.vaultRef = r

LEMMA NextSourcesKept ==
  ASSUME IInv, SourcesKept, [Next]_vars
  PROVE  SourcesKept'
<1>0. TypeOK /\ call \in [Call -> CallState]
  BY DEF IInv, TypeOK
<1>1. ASSUME NEW c \in Call, BeginCreate(c) \/ BeginBulk(c) \/ \E v \in Variable : BeginUpdate(c, v)
      PROVE SourcesKept'
  <2>1. \E op, v : \E src \in Sources : call' = [call EXCEPT ![c] = Checked(op, src, v)]
    BY <1>1 DEF BeginCreate, BeginBulk, BeginUpdate
  <2> QED BY <1>0, <2>1 DEF SourcesKept, Checked
<1>2. ASSUME NEW c \in Call, Mint(c) \/ MutationThrows(c) PROVE SourcesKept'
  <2>1. /\ call[c].pc # "idle"
        /\ \/ \E r \in Ref : call' = [call EXCEPT ![c] = Minted(call[c], r)]
           \/ call' = [call EXCEPT ![c] = Rejected(call[c])]
    BY <1>2 DEF Mint, MutationThrows
  <2>2. /\ \A r \in Ref : Minted(call[c], r).source = call[c].source
        /\ Rejected(call[c]).source = call[c].source
    BY <1>0 DEF Minted, Rejected, CallState
  <2> QED BY <1>0, <2>1, <2>2 DEF SourcesKept
<1>3. ASSUME NEW c \in Call,
             \/ MintThrows(c) \/ CommitUpdate(c) \/ BulkThrows(c) \/ CleanUp(c) \/ CallCrashes(c)
             \/ \E v \in Variable : CommitCreate(c, v)
      PROVE SourcesKept'
  <2>1. call' = [call EXCEPT ![c] = IdleCall]
    BY <1>3 DEF MintThrows, CommitUpdate, BulkThrows, CleanUp, CallCrashes, CommitCreate
  <2> QED BY <1>0, <2>1 DEF SourcesKept, IdleCall
<1>4. CASE \/ Tick \/ UNCHANGED vars
           \/ \E v \in Variable : EditMetadata(v) \/ Remove(v) \/ Restore(v) \/ Rollback(v)
           \/ \E s \in Sweeper : List(s) \/ TakeDoc(s) \/ DestroyRef(s) \/ FinishDoc(s) \/ EndSweep(s)
  <2>1. call' = call
    BY <1>4 DEF Tick, vars, EditMetadata, Remove, Restore, Rollback, List, TakeDoc, DestroyRef,
      FinishDoc, EndSweep
  <2> QED BY <2>1 DEF SourcesKept
<1> QED BY <1>1, <1>2, <1>3, <1>4 DEF Next

\* Every step accounts for the objects it leaves: a mint hands them to the
\* call, a commit to a version row, a failure to "lost", and a purge drops
\* rows only once their objects are gone.
LEMMA NextAccounted ==
  ASSUME "bulk" \notin Sources, IInv, SourcesKept, SnapshotComplete, Accounted, [Next]_vars
  PROVE  Accounted'
<1>0. /\ TypeOK /\ CallsSound /\ call \in [Call -> CallState]
      /\ \A x \in versionRows : x.variable \in Variable
  BY DEF IInv, TypeOK
<1>1. ASSUME objects' \subseteq objects, lost \subseteq lost', versionRows \subseteq versionRows',
             NEW c \in Call, NEW k \in CallState, call' = [call EXCEPT ![c] = k],
             \/ call[c].ref \in {NoRef, k.ref} \cup lost'
             \/ call[c].ref \notin objects'
             \/ \E x \in versionRows' : x.vaultRef = call[c].ref
      PROVE  Accounted'
  <2>1. call'[c] = k /\ \A d \in Call \ {c} : call'[d] = call[d]
    BY <1>0, <1>1
  <2>2. NoRef \notin objects
    BY <1>0, VaultConstants DEF TypeOK, VaultConstants
  <2> SUFFICES ASSUME NEW r \in objects'
               PROVE  \/ r \in lost'
                      \/ \E d \in Call : call'[d].ref = r
                      \/ \E x \in versionRows' : x.vaultRef = r
    BY DEF Accounted
  <2>3. CASE call[c].ref = r
    BY <1>1, <2>1, <2>2, <2>3
  <2>4. CASE call[c].ref # r
    BY <1>1, <2>1, <2>4 DEF Accounted
  <2> QED BY <2>3, <2>4
<1>2. ASSUME NEW c \in Call, NEW op \in {"create", "update"}, NEW src \in Sources,
             NEW v \in Variable \cup {NoVariable},
             call' = [call EXCEPT ![c] = Checked(op, src, v)], call[c].pc = "idle",
             UNCHANGED <<objects, lost, versionRows>>
      PROVE  Accounted'
  BY <1>0, <1>1, <1>2, Records DEF CallsSound
<1>3. ASSUME NEW c \in Call, BeginCreate(c) \/ BeginBulk(c) \/ \E v \in Variable : BeginUpdate(c, v)
      PROVE  Accounted'
  <2>1. \E op \in {"create", "update"}, src \in Sources, v \in Variable \cup {NoVariable} :
          call' = [call EXCEPT ![c] = Checked(op, src, v)]
    BY <1>3 DEF BeginCreate, BeginBulk, BeginUpdate
  <2>2. call[c].pc = "idle" /\ UNCHANGED <<objects, lost, versionRows>>
    BY <1>3 DEF BeginCreate, BeginBulk, BeginUpdate, rowVars
  <2> QED BY <1>2, <2>1, <2>2
<1>4. ASSUME NEW c \in Call, Mint(c) PROVE Accounted'
  <2>1. PICK r \in Ref \ minted : /\ objects' = objects \cup {r}
                                  /\ call' = [call EXCEPT ![c] = Minted(call[c], r)]
    BY <1>4 DEF Mint
  <2>2. call'[c].ref = r /\ \A d \in Call \ {c} : call'[d] = call[d]
    BY <1>0, <2>1, Fields
  <2>3. call[c].ref = NoRef /\ NoRef \notin objects
    BY <1>0, <1>4, VaultConstants DEF Mint, CallsSound, TypeOK, VaultConstants
  <2> QED BY <1>4, <2>1, <2>2, <2>3 DEF Mint, Accounted, rowVars
<1>5. ASSUME NEW c \in Call, MintThrows(c) PROVE Accounted'
  <2>1. call' = [call EXCEPT ![c] = IdleCall] /\ versionRows' = versionRows
    BY <1>5 DEF MintThrows, rowVars
  <2>2. call[c].ref = NoRef /\ NoRef \notin objects
    BY <1>0, <1>5, VaultConstants DEF MintThrows, CallsSound, TypeOK, VaultConstants
  <2>3. lost \subseteq lost' /\ objects' \subseteq objects \cup lost'
    BY <1>5 DEF MintThrows
  <2>4. \A d \in Call \ {c} : call'[d] = call[d]
    BY <1>0, <2>1
  <2> QED BY <2>1, <2>2, <2>3, <2>4 DEF Accounted
<1>6. ASSUME NEW c \in Call, MutationThrows(c) PROVE Accounted'
  <2>1. /\ call' = [call EXCEPT ![c] = Rejected(call[c])]
        /\ UNCHANGED <<objects, lost, versionRows>>
    BY <1>6 DEF MutationThrows, rowVars
  <2>2. Rejected(call[c]) \in CallState /\ Rejected(call[c]).ref = call[c].ref
    BY <1>0, Records, Fields
  <2> QED BY <1>1, <2>1, <2>2
<1>7. ASSUME NEW c \in Call, BulkThrows(c) PROVE FALSE
  BY <1>7 DEF BulkThrows, SourcesKept
<1>8. ASSUME NEW c \in Call, CleanUp(c) \/ CallCrashes(c) PROVE Accounted'
  <2>1. /\ call' = [call EXCEPT ![c] = IdleCall]
        /\ objects' \subseteq objects /\ lost \subseteq lost' /\ versionRows' = versionRows
        /\ call[c].ref \in {NoRef} \cup lost' \/ call[c].ref \notin objects'
    BY <1>0, <1>8 DEF CleanUp, CallCrashes, rowVars
  <2> QED BY <1>0, <1>1, <2>1, Records
<1>9. ASSUME NEW c \in Call, CommitUpdate(c) \/ \E v \in Variable : CommitCreate(c, v)
      PROVE  Accounted'
  <2>1. /\ call' = [call EXCEPT ![c] = IdleCall]
        /\ objects' = objects /\ lost' = lost
        /\ \E v, n : versionRows' = versionRows
             \cup {[variable |-> v, version |-> n, vaultRef |-> call[c].ref]}
    BY <1>9, Zenon DEF CommitUpdate, CommitCreate, WriteVersion
  <2>2. versionRows \subseteq versionRows' /\ \E x \in versionRows' : x.vaultRef = call[c].ref
    <3>1. PICK v, n : versionRows' = versionRows
            \cup {[variable |-> v, version |-> n, vaultRef |-> call[c].ref]}
      BY <2>1
    <3> DEFINE row == [variable |-> v, version |-> n, vaultRef |-> call[c].ref]
    <3>2. row \in versionRows' /\ row.vaultRef = call[c].ref
      BY <3>1
    <3> HIDE DEF row
    <3> QED BY <3>1, <3>2
  <2> QED BY <1>0, <1>1, <2>1, <2>2, Records
<1>10. CASE \/ Tick \/ UNCHANGED vars
            \/ \E v \in Variable : EditMetadata(v) \/ Remove(v) \/ Restore(v) \/ Rollback(v)
            \/ \E s \in Sweeper : List(s) \/ TakeDoc(s) \/ DestroyRef(s) \/ EndSweep(s)
  <2>1. /\ objects' \subseteq objects /\ lost' = lost /\ call' = call
        /\ versionRows \subseteq versionRows'
    BY <1>10 DEF Tick, vars, EditMetadata, Remove, Restore, Rollback, WriteVersion, List, TakeDoc,
      DestroyRef, EndSweep, rowVars
  <2> QED BY <2>1 DEF Accounted
<1>11. ASSUME NEW s \in Sweeper, FinishDoc(s) PROVE Accounted'
  <2>1. UNCHANGED <<objects, lost, call>>
    BY <1>11 DEF FinishDoc
  <2>2. CASE versionRows' = versionRows
    BY <2>1, <2>2 DEF Accounted
  <2>3. CASE versionRows' # versionRows
    <3>1. /\ sweep[s].allDeleted /\ sweep[s].left = {}
          /\ versionRows' = {row \in versionRows : row.variable # sweep[s].doc}
      BY <1>11, <2>3 DEF FinishDoc, rowVars
    <3>2. ASSUME NEW x \in versionRows, x.variable = sweep[s].doc
          PROVE  x.vaultRef \notin objects
      <4>1. x.variable \in Variable /\ x.vaultRef \in RefsOf(x.variable)
        BY <1>0 DEF RefsOf
      <4>2. RefsOf(x.variable) \cap objects \subseteq sweep[s].left
        BY <3>1, <3>2, <4>1 DEF SnapshotComplete
      <4> QED BY <3>1, <4>1, <4>2
    <3> QED BY <2>1, <3>1, <3>2 DEF Accounted
  <2> QED BY <2>2, <2>3
<1> QED BY <1>3, <1>4, <1>5, <1>6, <1>7, <1>8, <1>9, <1>10, <1>11 DEF Next

\* Orphans: where only the single-value actions write and only the cron
\* purges, an object no row and no running call has is one whose writer
\* crashed, never learnt its reference, or failed to delete it; the program
\* leaves none by itself.  (A bulk write leaves one whenever it is refused.)
THEOREM EveryOrphanExplained ==
  ASSUME TrashRun = {}, "bulk" \notin Sources
  PROVE  Spec => []OrphansExplained
<1>1. Init => SourcesKept /\ SnapshotComplete /\ Accounted
  BY DEF Init, SourcesKept, SnapshotComplete, Accounted, IdleCall, IdleSweep
<1>2. IInv /\ SourcesKept /\ SnapshotComplete /\ Accounted /\ [Next]_vars
        => SourcesKept' /\ SnapshotComplete' /\ Accounted'
  BY NextIInv, NextSourcesKept, NextSnapshotComplete, NextAccounted
<1>3. IInv /\ Accounted => OrphansExplained
  <2> SUFFICES ASSUME IInv, Accounted, NEW r \in objects, r \notin lost
               PROVE  r \in InFlight \/ \E v \in Variable : r \in RefsOf(v)
    BY DEF OrphansExplained
  <2>1. CASE \E c \in Call : call[c].ref = r
    <3>1. PICK c \in Call : call[c].ref = r
      BY <2>1
    <3>2. r # NoRef
      BY VaultConstants DEF IInv, TypeOK, VaultConstants
    <3>3. call[c].pc # "idle"
      BY <3>1, <3>2 DEF IInv, CallsSound
    <3> QED BY <3>1, <3>2, <3>3 DEF InFlight
  <2>2. CASE \E x \in versionRows : x.vaultRef = r
    <3>1. PICK x \in versionRows : x.vaultRef = r
      BY <2>2
    <3>2. x.variable \in Variable
      BY DEF IInv, TypeOK
    <3> QED BY <3>1, <3>2 DEF RefsOf
  <2> QED BY <2>1, <2>2 DEF Accounted
<1> QED BY <1>1, <1>2, <1>3, InitIInv, NextIInv, PTL DEF Spec

(***************************************************************************)
(* The refinement: what pulls, rollbacks and restores see of it all.       *)
(***************************************************************************)

\* The state that SecretHistory is given.
StateNow == [v \in Variable |-> IF status[v] = "trashed" /\ Expired(v)
                                THEN "overdue" ELSE status[v]]
ReadableNow == objects \cap {x.vaultRef : x \in versionRows}
RowsOf(v) == {x \in versionRows : x.variable = v}

\* SecretHistory counts as this module does.
LEMMA SameCount == \A S : History!Cardinality(S) = Cardinality(S)
BY DEF History!Cardinality, Cardinality

\* The variables of one step of SecretHistory, spelled out.
LEMMA HistoryIs ==
  /\ \A v : History!Versions(v) = RowsOf(v)
  /\ \A v : History!Values(v) = {x.vaultRef : x \in RowsOf(v)}
  /\ History!historyVars = <<StateNow, versionRows, vaultRef, ReadableNow>>
<1>1. \A v : History!Versions(v) = RowsOf(v)
  BY DEF History!Versions, RowsOf
<1>2. \A v : History!Values(v) = {x.vaultRef : x \in RowsOf(v)}
  BY <1>1 DEF History!Values
<1>3. History!historyVars = <<StateNow, versionRows, vaultRef, ReadableNow>>
  BY DEF History!historyVars, StateNow, ReadableNow
<1> QED BY <1>1, <1>2, <1>3

LEMMA HistoryStutter ==
  ASSUME UNCHANGED <<StateNow, versionRows, vaultRef, ReadableNow>>
  PROVE  [History!Next]_(History!historyVars)
BY DEF History!historyVars, StateNow, ReadableNow

LEMMA StateOf ==
  ASSUME IInv
  PROVE  \A v \in Variable :
           StateNow[v] = IF status[v] = "trashed" /\ Expired(v) THEN "overdue" ELSE status[v]
BY DEF StateNow

\* As many rows as the counter of the variable says.
LEMMA RowsCounted ==
  ASSUME IInv, Numbered, NEW v \in Variable, status[v] \in {"unborn", "live"}
  PROVE  Cardinality(RowsOf(v)) = version[v]
<1>0. version[v] \in Nat /\ \A x \in RowsOf(v) : x.version \in Nat
  BY DEF IInv, TypeOK, RowsOf
<1>1. \A x \in RowsOf(v) : x.version \in 1..version[v]
  BY <1>0 DEF Numbered, RowsOf
<1>2. \A x, y \in RowsOf(v) : x.version = y.version => x = y
  BY DEF Numbered, RowsOf
<1>3. \A n \in 1..version[v] : \E x \in RowsOf(v) : x.version = n
  BY <1>0 DEF Numbered, RowsOf
<1> QED BY <1>0, <1>1, <1>2, <1>3, CountByNumber

\* Whatever writes a value that is in the vault and nobody else's records it.
LEMMA WriteRecords ==
  ASSUME IInv, Numbered, NEW v \in Variable, NEW ref \in Ref,
         UNCHANGED <<now, deletedAt, objects>>,
         status[v] \in {"unborn", "live"},
         status' = [status EXCEPT ![v] = "live"],
         vaultRef' = [vaultRef EXCEPT ![v] = ref],
         versionRows' = versionRows
           \cup {[variable |-> v, version |-> version[v] + 1, vaultRef |-> ref]},
         \A x \in versionRows : x.vaultRef = ref => x.variable = v,
         ref \in objects
  PROVE  History!Next
<1> DEFINE row == [variable |-> v, version |-> version[v] + 1, vaultRef |-> ref]
<1>1. StateNow[v] \in {"unborn", "live"}
  BY StateOf
<1>2. \A w \in Variable \ {v} : ref \notin {x.vaultRef : x \in RowsOf(w)}
  BY DEF RowsOf
<1>3. ref \in {x.vaultRef : x \in RowsOf(v)} => ref \in ReadableNow
  BY DEF RowsOf, ReadableNow
<1>4. StateNow' = [StateNow EXCEPT ![v] = "live"]
  <2>1. \A w \in Variable : Expired(w)' <=> Expired(w)
    BY DEF Expired
  <2>2. status'[v] = "live" /\ \A w \in Variable \ {v} : status'[w] = status[w]
    BY DEF IInv, TypeOK
  <2> QED BY <2>1, <2>2 DEF StateNow
<1>5. versionRows' = versionRows \cup
        {[variable |-> v, version |-> Cardinality(RowsOf(v)) + 1, vaultRef |-> ref]}
  BY RowsCounted
<1>6. ReadableNow' = ReadableNow \cup {ref}
  <2>1. versionRows' = versionRows \cup {row} /\ row.vaultRef = ref
    OBVIOUS
  <2> HIDE DEF row
  <2> QED BY <2>1 DEF ReadableNow
<1> HIDE DEF row
<1>7. History!Record(v, ref)
  <2>1. StateNow[v] \in {"unborn", "live"} /\ StateNow' = [StateNow EXCEPT ![v] = "live"]
    BY <1>1, <1>4
  <2>2. /\ \A w \in Variable \ {v} : ref \notin History!Values(w)
        /\ ref \in History!Values(v) => ref \in ReadableNow
        /\ ReadableNow' = ReadableNow \cup {ref}
    BY <1>2, <1>3, <1>6, HistoryIs
  <2>3. versionRows' = versionRows \cup
          {[variable |-> v, version |-> History!Cardinality(History!Versions(v)) + 1,
            vaultRef |-> ref]}
    BY <1>5, HistoryIs, SameCount, Zenon
  <2>4. vaultRef' = [vaultRef EXCEPT ![v] = ref]
    OBVIOUS
  <2> QED BY <2>1, <2>2, <2>3, <2>4, Zenon DEF History!Record, StateNow, ReadableNow
<1> QED BY <1>7 DEF History!Next

\* Each write of a value is recorded: what a call committed is an object only
\* it held, what an edit or a rollback repeats is still in the vault.
LEMMA WritesRefine ==
  ASSUME IInv, ValuesSurvive, Numbered,
         \/ \E c \in Call : CommitUpdate(c) \/ \E v \in Variable : CommitCreate(c, v)
         \/ \E v \in Variable : EditMetadata(v) \/ Rollback(v)
  PROVE  History!Next
<1>0. /\ TypeOK /\ CallsSound /\ RowsSound /\ Owned
      /\ status \in [Variable -> {"unborn", "live", "trashed", "purged"}]
      /\ \A c \in Call : call[c].pc = "minted" =>
           /\ call[c].ref \in Ref /\ call[c].ref \in objects
           /\ \A x \in versionRows : x.vaultRef # call[c].ref
  BY DEF IInv, TypeOK, CallsSound, Owned, ValuesSurvive
<1>1. ASSUME NEW v \in Variable, NEW ref \in Ref, status[v] = "live", WriteVersion(v, ref),
             UNCHANGED <<now, objects>>,
             \A x \in versionRows : x.vaultRef = ref => x.variable = v,
             ref \in objects
      PROVE  History!Next
  <2>1. status' = [status EXCEPT ![v] = "live"]
    BY <1>0, <1>1 DEF WriteVersion
  <2> QED BY <1>1, <2>1, WriteRecords DEF WriteVersion
<1>2. ASSUME NEW c \in Call, NEW v \in Variable, CommitCreate(c, v) PROVE History!Next
  <2>1. version[v] = 0
    BY <1>2 DEF CommitCreate, Numbered
  <2>2. version[v] + 1 = 1
    BY <2>1
  <2>3. /\ call[c].pc = "minted" /\ status[v] = "unborn"
        /\ UNCHANGED <<now, deletedAt, objects>>
        /\ status' = [status EXCEPT ![v] = "live"]
        /\ vaultRef' = [vaultRef EXCEPT ![v] = call[c].ref]
        /\ versionRows' = versionRows
             \cup {[variable |-> v, version |-> version[v] + 1, vaultRef |-> call[c].ref]}
    BY <1>2, <2>2, Zenon DEF CommitCreate
  <2>4. /\ call[c].ref \in Ref /\ call[c].ref \in objects
        /\ \A x \in versionRows : x.vaultRef = call[c].ref => x.variable = v
    BY <1>0, <2>3
  <2> QED BY <2>3, <2>4, WriteRecords
<1>3. ASSUME NEW c \in Call, CommitUpdate(c) PROVE History!Next
  <2>1. call[c].target \in Variable /\ call[c].pc = "minted"
    BY <1>0, <1>3 DEF CommitUpdate, CallsSound
  <2> QED BY <1>0, <1>1, <1>3, <2>1 DEF CommitUpdate
<1>4. ASSUME NEW v \in Variable, EditMetadata(v) \/ Rollback(v) PROVE History!Next
  <2>1. PICK y \in versionRows : /\ status[v] = "live"
                                 /\ y.variable = v
                                 /\ WriteVersion(v, y.vaultRef)
                                 /\ UNCHANGED <<now, objects>>
    BY <1>0, <1>4 DEF EditMetadata, Rollback, RowsSound
  <2>2. y.vaultRef \in Ref /\ y.vaultRef \in objects
    BY <1>0, <2>1 DEF TypeOK, ValuesSurvive, Doomed
  <2>3. \A x \in versionRows : x.vaultRef = y.vaultRef => x.variable = v
    BY <1>0, <2>1 DEF Owned
  <2> QED BY <1>1, <2>1, <2>2, <2>3
<1> QED BY <1>2, <1>3, <1>4

\* Trashing and restoring are what they seem: a row just trashed is not past
\* its window, a row past it is not restored.
LEMMA TrashRefines ==
  ASSUME IInv, NEW v \in Variable, Remove(v) \/ Restore(v)
  PROVE  History!Next
<1>0. /\ UNCHANGED <<now, vaultRef, versionRows, objects>>
      /\ now \in Nat /\ Retention \in Nat
      /\ status \in [Variable -> {"unborn", "live", "trashed", "purged"}]
      /\ deletedAt \in [Variable -> Nat]
  BY VaultConstants DEF IInv, TypeOK, VaultConstants, Remove, Restore
<1>1. UNCHANGED <<versionRows, vaultRef, ReadableNow>>
  BY <1>0 DEF ReadableNow
<1>2. \A w \in Variable \ {v} : status'[w] = status[w] /\ deletedAt'[w] = deletedAt[w]
  BY <1>0 DEF Remove, Restore
<1>3. \A w \in Variable \ {v} : Expired(w)' <=> Expired(w)
  BY <1>0, <1>2 DEF Expired
<1>4. CASE Remove(v)
  <2>1. status[v] = "live" /\ status'[v] = "trashed" /\ ~Expired(v)'
    BY <1>0, <1>4 DEF Remove, Expired
  <2>2. StateNow[v] = "live"
    BY <2>1 DEF StateNow
  <2>3. StateNow' = [StateNow EXCEPT ![v] = "trashed"]
    BY <1>2, <1>3, <2>1 DEF StateNow
  <2>4. History!Trash(v)
    BY <1>1, <2>2, <2>3, Zenon DEF History!Trash, StateNow, ReadableNow
  <2> QED BY <2>4 DEF History!Next
<1>5. CASE Restore(v)
  <2>1. status[v] = "trashed" /\ ~Expired(v) /\ status'[v] = "live"
    BY <1>0, <1>5 DEF Restore
  <2>2. StateNow[v] = "trashed"
    BY <2>1 DEF StateNow
  <2>3. StateNow' = [StateNow EXCEPT ![v] = "live"]
    BY <1>2, <1>3, <2>1 DEF StateNow
  <2>4. History!Restore(v)
    BY <1>1, <2>2, <2>3, Zenon DEF History!Restore, StateNow, ReadableNow
  <2> QED BY <2>4 DEF History!Next
<1> QED BY <1>4, <1>5

\* The clock closes windows and opens none.
LEMMA TickRefines ==
  ASSUME IInv, Tick
  PROVE  History!Next
<1>0. /\ UNCHANGED <<status, deletedAt, vaultRef, versionRows, objects>>
      /\ now \in Nat /\ now' = now + 1 /\ Retention \in Nat
      /\ deletedAt \in [Variable -> Nat]
  BY VaultConstants DEF IInv, TypeOK, VaultConstants, Tick, rowVars
<1>1. UNCHANGED <<versionRows, vaultRef, ReadableNow>>
  BY <1>0 DEF ReadableNow
<1> DEFINE V == {v \in Variable : status[v] = "trashed" /\ ~Expired(v) /\ Expired(v)'}
<1>2. \A v \in Variable : Expired(v) => Expired(v)'
  BY <1>0 DEF Expired
<1>3. V \in SUBSET {v \in Variable : StateNow[v] = "trashed"}
  BY DEF StateNow
<1>4. StateNow' = [v \in Variable |-> IF v \in V THEN "overdue" ELSE StateNow[v]]
  BY <1>0, <1>2 DEF StateNow
<1> HIDE DEF V
<1>5. \E W \in SUBSET {v \in Variable : StateNow[v] = "trashed"} :
        StateNow' = [v \in Variable |-> IF v \in W THEN "overdue" ELSE StateNow[v]]
  BY <1>3, <1>4
<1>6. History!Lapse
  BY <1>1, <1>5, Zenon DEF History!Lapse, StateNow, ReadableNow
<1> QED BY <1>6 DEF History!Next

\* A purge run destroys only what belongs to a row past its window.
LEMMA DestroyRefines ==
  ASSUME TrashRun = {}, IInv, NEW s \in Sweeper, DestroyRef(s)
  PROVE  [History!Next]_(History!historyVars)
<1>0. /\ UNCHANGED <<now, status, deletedAt, vaultRef, versionRows>>
      /\ sweep[s].doc \in Variable /\ Doomed(sweep[s].doc)
      /\ \A r \in sweep[s].left : ~Foreign(r, sweep[s].doc)
  BY VaultConstants
    DEF DestroyRef, rowVars, IInv, TypeOK, SweepState, SweepsSound, Sweeper, VaultConstants
<1>1. PICK r \in sweep[s].left : objects' = objects \/ objects' = objects \ {r}
  BY DEF DestroyRef
<1>2. UNCHANGED <<StateNow, versionRows, vaultRef>>
  BY <1>0 DEF StateNow, Expired
<1>3. CASE r \notin {x.vaultRef : x \in versionRows} \/ objects' = objects
  <2>1. UNCHANGED ReadableNow
    BY <1>0, <1>1, <1>3 DEF ReadableNow
  <2> QED BY <1>2, <2>1, HistoryStutter
<1>4. CASE r \in {x.vaultRef : x \in versionRows} /\ objects' = objects \ {r}
  <2>0. PICK v \in Variable : v = sweep[s].doc
    BY <1>0
  <2>1. PICK x \in versionRows : x.vaultRef = r
    BY <1>4
  <2>2. x.variable = v
    BY <1>0, <2>0, <2>1 DEF Foreign
  <2>3. status[v] = "trashed" /\ Expired(v)
    BY <1>0, <2>0, <2>1, <2>2 DEF IInv, RowsSound, Doomed
  <2>4. StateNow[v] = "overdue"
    BY <2>3 DEF StateNow
  <2>5. ReadableNow' \subseteq ReadableNow /\ ReadableNow \ ReadableNow' \subseteq {r}
    BY <1>0, <1>4 DEF ReadableNow
  <2>6. r \in History!Values(v)
    BY <2>1, <2>2, HistoryIs DEF RowsOf
  <2>7. ReadableNow \ ReadableNow' \subseteq History!Values(v)
    BY <2>5, <2>6
  <2>8. History!Erode(v)
    BY <1>2, <2>4, <2>5, <2>7, Zenon DEF History!Erode, StateNow, ReadableNow
  <2>9. History!Next
    BY <2>8 DEF History!Next
  <2> QED BY <2>9
<1> QED BY <1>1, <1>3, <1>4

\* A purge run drops a history only past its window, and when it is unreadable.
LEMMA FinishRefines ==
  ASSUME TrashRun = {}, IInv, SnapshotComplete, NEW s \in Sweeper, FinishDoc(s)
  PROVE  [History!Next]_(History!historyVars)
<1>1. CASE UNCHANGED rowVars
  <2>1. UNCHANGED <<StateNow, versionRows, vaultRef, ReadableNow>>
    BY <1>1 DEF FinishDoc, rowVars, StateNow, Expired, ReadableNow
  <2> QED BY <2>1, HistoryStutter
<1>2. CASE ~UNCHANGED rowVars
  <2> PICK v \in Variable : v = sweep[s].doc
    BY DEF FinishDoc, IInv, TypeOK, SweepState
  <2>0. /\ status \in [Variable -> {"unborn", "live", "trashed", "purged"}]
        /\ deletedAt \in [Variable -> Nat]
        /\ vaultRef \in [Variable -> Ref \cup {NoRef}]
    BY DEF IInv, TypeOK
  <2>1. /\ status[v] = "trashed" /\ Expired(v)
        /\ sweep[s].allDeleted /\ sweep[s].left = {}
        /\ status' = [status EXCEPT ![v] = "purged"]
        /\ deletedAt' = [deletedAt EXCEPT ![v] = 0]
        /\ vaultRef' = [vaultRef EXCEPT ![v] = NoRef]
        /\ versionRows' = {row \in versionRows : row.variable # v}
        /\ UNCHANGED <<now, objects>>
    BY <1>2 DEF FinishDoc, StillPurgeable, Sweeper
  <2>2. RefsOf(v) \cap objects = {}
    BY <2>0, <2>1 DEF SnapshotComplete
  <2>3. StateNow[v] = "overdue"
    BY <2>0, <2>1 DEF StateNow
  <2>4. StateNow' = [StateNow EXCEPT ![v] = "purged"]
    <3>1. \A w \in Variable \ {v} : status'[w] = status[w] /\ (Expired(w)' <=> Expired(w))
      BY <2>0, <2>1 DEF Expired
    <3>2. status'[v] = "purged"
      BY <2>0, <2>1
    <3> QED BY <3>1, <3>2 DEF StateNow
  <2>5. \A x \in RowsOf(v) : x.vaultRef \notin objects
    BY <2>2 DEF RefsOf, RowsOf
  <2>6. History!Values(v) \cap ReadableNow = {}
    BY <2>5, HistoryIs DEF ReadableNow
  <2>7. versionRows' = versionRows \ History!Versions(v)
    BY <2>1, HistoryIs DEF RowsOf
  <2>8. UNCHANGED ReadableNow
    BY <2>1, <2>5 DEF ReadableNow, RowsOf
  <2>9. History!Drop(v)
    BY <2>1, <2>3, <2>4, <2>6, <2>7, <2>8, Zenon DEF History!Drop, StateNow, ReadableNow
  <2>10. History!Next
    BY <2>9 DEF History!Next
  <2> QED BY <2>10
<1> QED BY <1>1, <1>2

\* Nothing else shows: what a call mints, loses or cleans up is in no row, and
\* listing and taking up documents touches neither rows nor objects.
LEMMA RestStutters ==
  ASSUME IInv,
         \/ \E c \in Call :
              \/ BeginCreate(c) \/ BeginBulk(c) \/ Mint(c) \/ MintThrows(c)
              \/ MutationThrows(c) \/ BulkThrows(c) \/ CleanUp(c) \/ CallCrashes(c)
              \/ \E v \in Variable : BeginUpdate(c, v)
         \/ \E s \in Sweeper : List(s) \/ TakeDoc(s) \/ EndSweep(s)
         \/ UNCHANGED vars
  PROVE  [History!Next]_(History!historyVars)
<1>1. UNCHANGED <<now, status, deletedAt, vaultRef, versionRows>>
  BY DEF BeginCreate, BeginBulk, Mint, MintThrows, MutationThrows, BulkThrows, CleanUp, CallCrashes,
    BeginUpdate, List, TakeDoc, EndSweep, vars, rowVars
<1>2. UNCHANGED <<StateNow, versionRows, vaultRef>>
  BY <1>1 DEF StateNow, Expired
<1>3. \A x \in versionRows : x.vaultRef \in objects' <=> x.vaultRef \in objects
  BY DEF IInv, RowsSound, Owned, BeginCreate, BeginBulk, Mint, MintThrows, MutationThrows, BulkThrows,
    CleanUp, CallCrashes, BeginUpdate, List, TakeDoc, EndSweep, vars
<1>4. UNCHANGED ReadableNow
  BY <1>1, <1>3 DEF ReadableNow
<1> QED BY <1>2, <1>4, HistoryStutter

LEMMA HistoryInit == Init => History!Init
<1> SUFFICES ASSUME Init PROVE History!Init
  OBVIOUS
<1>1. StateNow = [v \in Variable |-> "unborn"] /\ ReadableNow = {}
  BY DEF Init, StateNow, ReadableNow
<1>2. versionRows = {} /\ vaultRef = [v \in Variable |-> NoRef]
  BY DEF Init
<1> QED BY <1>1, <1>2, Zenon DEF History!Init, StateNow, ReadableNow

LEMMA HistoryNext ==
  ASSUME TrashRun = {}, IInv, ValuesSurvive, SnapshotComplete, Numbered, [Next]_vars
  PROVE  [History!Next]_(History!historyVars)
<1>1. CASE \/ \E c \in Call : CommitUpdate(c) \/ \E v \in Variable : CommitCreate(c, v)
           \/ \E v \in Variable : EditMetadata(v) \/ Rollback(v)
  BY <1>1, WritesRefine
<1>2. CASE \E v \in Variable : Remove(v) \/ Restore(v)
  BY <1>2, TrashRefines
<1>3. CASE Tick
  BY <1>3, TickRefines
<1>4. CASE \E s \in Sweeper : DestroyRef(s)
  BY <1>4, DestroyRefines
<1>5. CASE \E s \in Sweeper : FinishDoc(s)
  BY <1>5, FinishRefines
<1>6. CASE \/ \E c \in Call :
                \/ BeginCreate(c) \/ BeginBulk(c) \/ Mint(c) \/ MintThrows(c)
                \/ MutationThrows(c) \/ BulkThrows(c) \/ CleanUp(c) \/ CallCrashes(c)
                \/ \E v \in Variable : BeginUpdate(c, v)
           \/ \E s \in Sweeper : List(s) \/ TakeDoc(s) \/ EndSweep(s)
           \/ UNCHANGED vars
  BY <1>6, RestStutters
<1> QED BY <1>1, <1>2, <1>3, <1>4, <1>5, <1>6 DEF Next

\* The promise kept: where nobody empties the trash, every run of the writers,
\* the trash and the purge cron is a run of SecretHistory. Versions are
\* recorded one after the other, each of a readable value of that variable
\* alone, values are lost only past the window, and histories dropped last.
THEOREM ImplementsHistory ==
  ASSUME TrashRun = {}
  PROVE  Spec => KeepsHistory
<1>1. Init => SnapshotComplete /\ Numbered
  BY DEF Init, SnapshotComplete, Numbered, IdleSweep
<1>2. IInv /\ ValuesSurvive /\ SnapshotComplete /\ Numbered /\ [Next]_vars
        => SnapshotComplete' /\ Numbered'
  BY NextIInv, NextSnapshotComplete, NextNumbered
<1>3. IInv /\ ValuesSurvive /\ SnapshotComplete /\ Numbered /\ [Next]_vars
        => [History!Next]_(History!historyVars)
  BY HistoryNext
<1> QED
  BY <1>1, <1>2, <1>3, HistoryInit, SurvivalInvariant, PTL DEF Spec, KeepsHistory, History!Spec
=============================================================================
