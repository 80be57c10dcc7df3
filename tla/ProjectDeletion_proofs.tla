----------------------- MODULE ProjectDeletion_proofs -----------------------
(***************************************************************************)
(* Proofs about ProjectDeletion, for any rows, objects, stages, batch and  *)
(* page sizes, leases and calls of remove, with the refinement of          *)
(* ProjectErasure.                                                         *)
(***************************************************************************)
EXTENDS ProjectDeletion, FiniteSetTheorems, TLAPS

Running(b) == batch[b].at = "running"

-----------------------------------------------------------------------------
(* Listings.                                                               *)

LEMMA RowSets == \A T \in SUBSET Row : IsFiniteSet(T) /\ Cardinality(T) \in Nat
<1>1. ASSUME NEW T \in SUBSET Row PROVE IsFiniteSet(T)
  BY <1>1, FS_Subset, DeletionConstants
<1> QED BY <1>1, FS_CardinalityType

\* A listing that is not full has everything.
LEMMA TakesAll ==
  ASSUME NEW T \in SUBSET Row, NEW n \in Nat, NEW S \in Takes(T, n)
  PROVE  S \subseteq T /\ (Cardinality(S) < n => S = T)
<1>1. S \subseteq T /\ Cardinality(S) <= n /\ (S = T \/ Cardinality(S) = n)
  BY DEF Takes
<1>2. Cardinality(S) \in Nat
  BY <1>1, RowSets
<1> QED BY <1>1, <1>2

\* A listing of something has something.
LEMMA TakesSome ==
  ASSUME NEW T \in SUBSET Row, T # {}, NEW n \in Nat \ {0}
  PROVE  \E S \in Takes(T, n) : S # {}
<1>1. IsFiniteSet(T) /\ Cardinality(T) \in Nat
  BY RowSets
<1>2. CASE Cardinality(T) <= n
  BY <1>2 DEF Takes
<1>3. CASE Cardinality(T) > n
  <2>1. PICK f \in Bijection(1..Cardinality(T), T) : TRUE
    BY <1>1, FS_CardinalityType DEF ExistsBijection
  <2>2. f \in [1..Cardinality(T) -> T]
        /\ \A i, j \in 1..Cardinality(T) : f[i] = f[j] => i = j
    BY <2>1 DEF Bijection, Injection, IsInjective
  <2> DEFINE S == {f[i] : i \in 1..n}
             g == [i \in 1..n |-> f[i]]
  <2>3. 1..n \subseteq 1..Cardinality(T)
    BY <1>1, <1>3
  <2>4. S \subseteq T /\ S # {}
    BY <2>2, <2>3
  <2>5. g \in Bijection(1..n, S)
    <3>1. g \in [1..n -> S] /\ \A i, j \in 1..n : g[i] = g[j] => i = j
      BY <2>2, <2>3
    <3>2. \A s \in S : \E i \in 1..n : g[i] = s
      OBVIOUS
    <3> QED BY <3>1, <3>2 DEF Bijection, Injection, Surjection, IsInjective
  <2>6. ExistsBijection(1..n, S)
    BY <2>5 DEF ExistsBijection
  <2>7. IsFiniteSet(1..n) /\ Cardinality(1..n) = n
    BY FS_Interval
  <2>8. Cardinality(S) = n
    BY <2>6, <2>7, FS_Bijection
  <2> HIDE DEF S
  <2> QED BY <2>4, <2>8 DEF Takes
<1> QED BY <1>1, <1>2, <1>3

-----------------------------------------------------------------------------
(* Types.                                                                  *)

LEMMA BatchFields ==
  /\ NoBatch \in BatchState /\ NoBatch.at = "idle"
  /\ Reported \in BatchState /\ Reported.at = "reported"
<1>1. 0 \in 0..Externals /\ {} \in SUBSET Row
  BY DeletionConstants
<1>2. NoBatch \in BatchState /\ NoBatch.at = "idle"
  BY <1>1 DEF NoBatch, BatchState
<1>3. Reported \in BatchState /\ Reported.at = "reported"
  BY <1>1 DEF Reported, BatchState
<1> QED BY <1>2, <1>3

LEMMA StartedFields ==
  ASSUME NEW S \in SUBSET Row, stage \in External
  PROVE  /\ Started(S) \in BatchState /\ Started(S).at = "running"
         /\ Started(S).stage = stage /\ Started(S).list = S
         /\ Started(S).todo = S /\ Started(S).done = {} /\ Started(S).last = IsLast(S)
<1>1. IsLast(S) \in BOOLEAN
  BY DEF IsLast
<1>2. stage \in 0..Externals
  BY DeletionConstants DEF External
<1> QED BY <1>1, <1>2 DEF Started, BatchState

LEMMA HandledFields ==
  ASSUME NEW x \in BatchState, NEW r, NEW done \in SUBSET Row
  PROVE  /\ Handled(x, r, done) \in BatchState /\ Handled(x, r, done).at = "running"
         /\ Handled(x, r, done).stage = x.stage /\ Handled(x, r, done).list = x.list
         /\ Handled(x, r, done).todo = x.todo \ {r}
         /\ Handled(x, r, done).done = done /\ Handled(x, r, done).last = x.last
<1>1. /\ x.stage \in 0..Externals /\ x.list \in SUBSET Row /\ x.last \in BOOLEAN
      /\ x.todo \ {r} \in SUBSET Row
  BY DEF BatchState
<1> QED BY <1>1 DEF Handled, BatchState

LEMMA Stages ==
  /\ External \subseteq 1..Finalize /\ Tables \subseteq 1..Finalize
  /\ Paged \subseteq 1..Finalize
  /\ Finalize \in Nat /\ Finalize \notin External \cup Tables \cup Paged
  /\ VariablesStage \in External /\ VariablesStage \in 0..Finalize
  /\ \A r \in Row : StageOf[r] \in Nat /\ 1 <= StageOf[r] /\ StageOf[r] < Finalize
BY DeletionConstants DEF External, Tables, Paged, Finalize, VariablesStage

LEMMA AdvanceEffect ==
  ASSUME TypeOK, NEW d \in SUBSET Nat, AdvanceStage(d)
  PROVE  /\ lease' = 0 /\ seen' = {} /\ stage' \in 0..Finalize /\ due' \in SUBSET Nat
         /\ stage = Finalize => project' = "gone"
         /\ stage # Finalize => project' = project /\ stage' = stage + 1 /\ due' # {}
<1>1. stage \in 0..Finalize /\ Finalize \in Nat
  BY Stages DEF TypeOK
<1>2. lease' = 0 /\ seen' = {}
  BY DEF AdvanceStage
<1>3. CASE stage = Finalize
  <2>1. project' = "gone" /\ stage' = 0 /\ due' = d
    BY <1>3 DEF AdvanceStage
  <2>2. 0 \in 0..Finalize
    BY <1>1
  <2> QED BY <1>2, <1>3, <2>1, <2>2
<1>4. CASE stage # Finalize
  <2>1. project' = project /\ stage' = stage + 1 /\ due' = d \cup {0}
    BY <1>4 DEF AdvanceStage
  <2>2. stage + 1 \in 0..Finalize
    BY <1>1, <1>4
  <2> QED BY <1>2, <1>4, <2>1, <2>2
<1> QED BY <1>3, <1>4

LEMMA ListingsAre ==
  ASSUME TypeOK, NEW S \in Listings, stage \in External
  PROVE  /\ S \in SUBSET Row
         /\ \A r \in S : r \in kept /\ StageOf[r] = stage
         /\ \A r \in S : RootOf[r] = NoRow => Versions(r) = {}
         /\ IsLast(S) => S = Here
<1>1. Here \in SUBSET Row /\ \A r \in Row : Versions(r) \in SUBSET Row
  BY DEF Here, Versions, TypeOK
<1>2. BatchSize \in Nat /\ NoRow \notin Row
  BY DeletionConstants
<1>3. CASE stage = VariablesStage
  <2>1. PICK r \in Here :
          /\ RootOf[r] = NoRow
          /\ IF Versions(r) # {} THEN S \in Takes(Versions(r), BatchSize) ELSE S = {r}
    BY <1>3 DEF Listings
  <2>2. r \in Row /\ r \in kept /\ StageOf[r] = stage
    BY <2>1 DEF Here, TypeOK
  <2>3. ~ IsLast(S)
    BY <1>3 DEF IsLast
  <2>4. CASE Versions(r) = {}
    BY <2>1, <2>2, <2>3, <2>4
  <2>5. CASE Versions(r) # {}
    <3>1. S \subseteq Versions(r)
      BY <1>1, <1>2, <2>1, <2>2, <2>5, TakesAll
    <3>2. ASSUME NEW v \in S PROVE v \in kept /\ v \in Row /\ RootOf[v] = r
      BY <3>1, <3>2 DEF Versions, TypeOK
    <3>3. ASSUME NEW v \in S PROVE StageOf[v] = stage
      BY <1>2, <1>3, <2>2, <3>2, DeletionConstants
    <3> QED BY <1>2, <2>2, <2>3, <3>2, <3>3
  <2> QED BY <2>4, <2>5
<1>4. CASE stage # VariablesStage
  <2>1. S \in Takes(Here, BatchSize)
    BY <1>4 DEF Listings
  <2>2. S \subseteq Here /\ (Cardinality(S) < BatchSize => S = Here)
    BY <1>1, <1>2, <2>1, TakesAll
  <2>3. ASSUME NEW r \in S, NEW v \in kept, RootOf[v] = r PROVE FALSE
    <3>1. r \in Row /\ v \in Row /\ StageOf[r] = stage
      BY <2>2, <2>3 DEF Here, TypeOK
    <3> QED BY <1>2, <1>4, <2>3, <3>1, DeletionConstants
  <2> QED BY <1>1, <2>2, <2>3 DEF IsLast, Here, Versions
<1> QED BY <1>3, <1>4

LEMMA ProcessTypeOK ==
  ASSUME TypeOK, NEW d \in SUBSET Nat, NEW w \in [Batch -> 0..Unarmed], Process(d, w),
         UNCHANGED <<removals, excused>>
  PROVE  TypeOK'
<1>0. /\ Lease \in 0..Unarmed /\ Lease \in 0..Lease /\ 0 \in 0..Lease /\ lease + 1 \in Nat
      /\ project \in {"live", "deleting", "gone"}
  BY DeletionConstants DEF TypeOK, Unarmed
<1>1. CASE NothingToDo(d, w) \/ Postpone(d, w)
  BY <1>0, <1>1 DEF NothingToDo, Postpone, TypeOK, dataVars
<1>2. CASE StartBatch(d, w)
  <2>1. PICK S \in Listings, b \in Batch :
          batch' = [batch EXCEPT ![b] = Started(S)] /\ dog' = [w EXCEPT ![b] = Lease]
    BY <1>2 DEF StartBatch
  <2>2. Started(S) \in BatchState
    BY <1>2, ListingsAre, StartedFields DEF StartBatch
  <2> QED BY <1>0, <1>2, <2>1, <2>2 DEF StartBatch, TypeOK, dataVars
<1>3. CASE NothingListed(d, w) \/ DeleteProject(d, w)
  <2>1. AdvanceStage(d) /\ dog' = w /\ UNCHANGED <<kept, granted, stored, batch>>
    BY <1>3 DEF NothingListed, DeleteProject, dataVars
  <2> QED BY <1>0, <2>1, AdvanceEffect DEF TypeOK
<1>4. CASE DeleteRows(d, w)
  <2>1. Here \in SUBSET Row /\ dog' = w /\ UNCHANGED <<granted, stored, batch>>
    BY <1>4 DEF DeleteRows, Here, TypeOK
  <2>2. CASE AdvanceStage(d) /\ UNCHANGED kept
    BY <1>0, <2>1, <2>2, AdvanceEffect DEF TypeOK
  <2>3. CASE /\ \E S \in Takes(Here, PageSize) : kept' = kept \ S
             /\ due' = d \cup {0} /\ UNCHANGED <<project, stage, lease, seen>>
    BY <1>0, <2>1, <2>3 DEF TypeOK
  <2> QED BY <1>4, <2>2, <2>3 DEF DeleteRows
<1>5. CASE TakePage(d, w)
  <2> DEFINE ahead == {r \in Row : StageOf[r] = stage} \ seen
  <2>1. PICK page \in Takes(ahead, PageSize) :
          /\ kept' = kept \ page
          /\ IF page = ahead
               THEN AdvanceStage(d)
               ELSE /\ seen' = seen \cup page /\ due' = d \cup {0}
                    /\ UNCHANGED <<project, stage, lease>>
    BY <1>5 DEF TakePage
  <2>2. page \subseteq Row /\ dog' = w /\ UNCHANGED <<granted, stored, batch>>
    BY <1>5 DEF Takes, TakePage
  <2>3. kept' \subseteq Row
    BY <2>1 DEF TypeOK
  <2>4. CASE page = ahead
    <3>1. AdvanceStage(d)
      BY <2>1, <2>4
    <3>2. /\ lease' = 0 /\ seen' = {} /\ stage' \in 0..Finalize /\ due' \in SUBSET Nat
          /\ project' \in {"live", "deleting", "gone"}
      BY <1>0, <3>1, AdvanceEffect
    <3> QED BY <1>0, <2>2, <2>3, <3>2 DEF TypeOK
  <2>5. CASE page # ahead
    <3>1. seen' = seen \cup page /\ due' = d \cup {0} /\ UNCHANGED <<project, stage, lease>>
      BY <2>1, <2>5
    <3> QED BY <2>2, <2>3, <3>1 DEF TypeOK
  <2> QED BY <2>4, <2>5
<1> QED BY <1>1, <1>2, <1>3, <1>4, <1>5 DEF Process

LEMMA TypeStep ==
  ASSUME TypeOK, [Next]_vars
  PROVE  TypeOK'
<1>0. /\ Unarmed \in Nat /\ Lease \in Nat /\ 0 \in 0..Lease /\ \A n \in Nat : Elapse(n) \in Nat
      /\ Unarmed \in 0..Unarmed
  BY DeletionConstants DEF Unarmed, Elapse
<1>1. ASSUME NEW r \in Row, Create(r) PROVE TypeOK'
  <2>1. stored \cup Needs[r] \subseteq Object
    BY DeletionConstants DEF Needs, TypeOK
  <2> QED BY <1>1, <2>1 DEF Create, TypeOK, jobVars
<1>2. ASSUME NEW r \in Row, PurgeTrashed(r) PROVE TypeOK'
  BY <1>2 DEF PurgeTrashed, TypeOK, jobVars
<1>3. CASE Remove
  <2>1. removals' \in 0..Removals /\ stage' \in 0..Finalize /\ excused' \in BOOLEAN
    BY <1>3, Stages, DeletionConstants DEF Remove, TypeOK
  <2> QED BY <1>0, <1>3, <2>1 DEF Remove, TypeOK, dataVars
<1>4. CASE RunScheduled
  <2>1. PICK d \in {due, due \ {0}} : Process(d, dog)
    BY <1>4 DEF RunScheduled
  <2> QED BY <1>4, <2>1, ProcessTypeOK DEF RunScheduled, TypeOK
<1>5. ASSUME NEW b \in Batch, RunWatchdog(b) PROVE TypeOK'
  <2>1. [dog EXCEPT ![b] = Unarmed] \in [Batch -> 0..Unarmed]
    BY <1>0 DEF TypeOK
  <2> QED BY <1>5, <2>1, ProcessTypeOK DEF RunWatchdog, TypeOK
<1>6. ASSUME NEW b \in Batch, NEW r \in Row, Destroy(b, r) \/ DestroyFails(b, r) PROVE TypeOK'
  <2>1. batch[b] \in BatchState /\ batch[b].todo \subseteq Row /\ batch[b].done \subseteq Row
    BY DEF TypeOK, BatchState
  <2>2. PICK done \in SUBSET Row : batch' = [batch EXCEPT ![b] = Handled(batch[b], r, done)]
    BY <1>6, <2>1 DEF Destroy, DestroyFails
  <2>3. batch' \in [Batch -> BatchState]
    BY <2>1, <2>2, HandledFields DEF TypeOK
  <2>4. stored' \subseteq Object
    BY <1>6 DEF Destroy, DestroyFails, TypeOK
  <2> QED BY <1>6, <2>3, <2>4 DEF Destroy, DestroyFails, TypeOK, jobVars
<1>7. ASSUME NEW b \in Batch, Finish(b) PROVE TypeOK'
  <2>1. batch' \in [Batch -> BatchState] /\ UNCHANGED <<dog, removals, excused>>
    BY <1>7, BatchFields DEF Finish, TypeOK
  <2>2. CASE UNCHANGED <<dataVars, jobVars>>
    BY <2>1, <2>2 DEF TypeOK, dataVars, jobVars
  <2>3. CASE /\ kept' = kept \ Removed(b) /\ granted' = LeftGranted(b) /\ UNCHANGED stored
             /\ AdvanceStage(due)
    BY <1>0, <2>1, <2>3, AdvanceEffect DEF TypeOK, LeftGranted
  <2>4. CASE /\ kept' = kept \ Removed(b) /\ granted' = LeftGranted(b) /\ UNCHANGED stored
             /\ lease' = 0 /\ due' = due \cup {IF AllDeleted(b) THEN 0 ELSE Backoff}
             /\ UNCHANGED <<project, stage, seen>>
    BY <1>0, <2>1, <2>4, DeletionConstants DEF TypeOK, LeftGranted
  <2> QED BY <1>7, <2>2, <2>3, <2>4 DEF Finish
<1>8. ASSUME NEW b \in Batch, CancelWatchdog(b) \/ BatchCrashes(b) PROVE TypeOK'
  BY <1>0, <1>8, BatchFields DEF CancelWatchdog, BatchCrashes, TypeOK, dataVars, jobVars
<1>9. CASE Tick
  <2>1. lease' \in 0..Lease /\ due' \in SUBSET Nat
    BY <1>0, <1>9 DEF Tick, TypeOK, Elapse
  <2>2. dog' \in [Batch -> 0..Unarmed]
    BY <1>0, <1>9 DEF Tick, TypeOK, Elapse
  <2>3. excused' \in BOOLEAN
    BY <1>9 DEF Tick, TypeOK
  <2> QED BY <1>9, <2>1, <2>2, <2>3 DEF Tick, TypeOK, dataVars
<1>10. CASE UNCHANGED vars
  BY <1>10 DEF vars, dataVars, jobVars, TypeOK
<1> QED
  BY <1>1, <1>2, <1>3, <1>4, <1>5, <1>6, <1>7, <1>8, <1>9, <1>10 DEF Next, Deleting

-----------------------------------------------------------------------------
(* The inductive invariant.                                                *)

RootsKept == \A v \in kept : RootOf[v] # NoRow => RootOf[v] \in kept

\* What a batch was listed with, and what it reports, stays true.
BatchSound(b) ==
  Running(b) =>
    /\ project # "live"
    /\ batch[b].stage \in External
    /\ \A r \in batch[b].list : StageOf[r] = batch[b].stage
    /\ \A r \in batch[b].list : RootOf[r] = NoRow => Versions(r) = {}
    /\ batch[b].todo \subseteq batch[b].list /\ batch[b].done \subseteq batch[b].list
    /\ \A r \in batch[b].done : Needs[r] \cap stored = {}
    /\ batch[b].last =>
         /\ batch[b].stage # VariablesStage
         /\ \A r \in kept : StageOf[r] = batch[b].stage => r \in batch[b].list

BatchesSound == \A b \in Batch : BatchSound(b)

\* What the paged stage has passed is out of it.
SeenGone == (seen \cap kept) \subseteq Unguarded /\ (project = "live" => seen = {})

\* No object without a row.
ObjectsOwned == \A o \in stored : \E r \in kept : o \in Needs[r]

\* WorkPending, with the watchdog of the batch at work.
Pending ==
  project = "deleting" =>
    \/ due # {}
    \/ \E b \in Batch :
         /\ dog[b] # Unarmed
         /\ batch[b].at = "idle" \/ (Running(b) /\ batch[b].stage = stage)

\* The batch at work has the lease, and its watchdog ends with it.
Alone ==
  ~ excused =>
    /\ \A b \in Batch : Running(b) =>
         /\ project = "deleting" /\ batch[b].stage = stage
         /\ dog[b] = lease /\ lease # 0
    /\ \A b, c \in Batch : Running(b) /\ Running(c) => b = c

Sound == TypeOK /\ RootsKept /\ BatchesSound
IInv == Sound /\ SeenGone /\ StagesEmptied /\ ObjectsOwned /\ Pending /\ Alone

-----------------------------------------------------------------------------
(* What a step does to rows and objects.                                   *)

LEMMA Plain ==
  /\ \A r \in Row : StageOf[r] \notin External => Needs[r] = {} /\ RootOf[r] = NoRow
  /\ \A r \in Unguarded : r \in Row /\ StageOf[r] \notin External
  /\ \A r \in Row : Needs[r] \in SUBSET Object
  /\ \A v \in Row : RootOf[v] \in Row => RootOf[v] # NoRow /\ StageOf[RootOf[v]] \in External
BY Stages, DeletionConstants DEF Needs

Smaller ==
  /\ kept' \subseteq kept
  /\ stored' \subseteq stored
  /\ \A r \in kept \ kept' : Needs[r] \cap stored' = {}
  /\ \A v \in kept' : RootOf[v] \in kept => RootOf[v] \in kept'
  /\ project' = project

Ended ==
  /\ project = "deleting" /\ stage = Finalize /\ project' = "gone"
  /\ UNCHANGED <<kept, stored>>

LEMMA SameIsSmaller ==
  ASSUME UNCHANGED <<kept, stored, project>>
  PROVE  Smaller
BY DEF Smaller

\* Rows outside the external stages go without further ado.
LEMMA PlainRowsGo ==
  ASSUME Sound, NEW S, kept' = kept \ S, \A r \in S : r \in Row /\ StageOf[r] \notin External,
         UNCHANGED <<stored, project>>
  PROVE  Smaller
<1>1. kept \subseteq Row
  BY DEF Sound, TypeOK
<1>2. ASSUME NEW v \in kept', RootOf[v] \in kept PROVE RootOf[v] \in kept'
  BY <1>1, <1>2, Plain
<1> QED BY <1>2, Plain DEF Smaller

LEMMA StagesApart ==
  /\ External \cap Tables = {} /\ External \cap Paged = {}
  /\ Finalize \notin External /\ Finalize \notin Tables /\ Finalize \notin Paged
BY DeletionConstants DEF External, Tables, Paged, Finalize

LEMMA ProcessData ==
  ASSUME Sound, NEW d \in SUBSET Nat, NEW w, Process(d, w)
  PROVE  Smaller \/ Ended
<1>0. TypeOK
  BY DEF Sound
<1>1. CASE NothingToDo(d, w) \/ Postpone(d, w) \/ StartBatch(d, w)
  BY <1>1, SameIsSmaller DEF NothingToDo, Postpone, StartBatch, dataVars
<1>2. CASE NothingListed(d, w)
  <2>1. AdvanceStage(d) /\ stage # Finalize /\ UNCHANGED <<kept, stored>>
    BY <1>2, StagesApart DEF NothingListed, dataVars
  <2> QED BY <1>0, <2>1, AdvanceEffect, SameIsSmaller
<1>3. CASE DeleteRows(d, w)
  <2>1. stage # Finalize /\ stage \notin External /\ UNCHANGED stored
    BY <1>3, StagesApart DEF DeleteRows
  <2>2. CASE AdvanceStage(d) /\ UNCHANGED kept
    BY <1>0, <2>1, <2>2, AdvanceEffect, SameIsSmaller
  <2>3. CASE (\E S \in Takes(Here, PageSize) : kept' = kept \ S) /\ UNCHANGED project
    <3>1. PICK S \in Takes(Here, PageSize) : kept' = kept \ S
      BY <2>3
    <3>2. \A r \in S : r \in Row /\ StageOf[r] = stage
      BY <1>0, <3>1 DEF Takes, Here, TypeOK
    <3> QED BY <2>1, <2>3, <3>1, <3>2, PlainRowsGo
  <2> QED BY <1>3, <2>2, <2>3 DEF DeleteRows
<1>4. CASE TakePage(d, w)
  <2>1. stage # Finalize /\ stage \notin External /\ UNCHANGED stored
    BY <1>4, StagesApart DEF TakePage
  <2> DEFINE ahead == {r \in Row : StageOf[r] = stage} \ seen
  <2>2. PICK page \in Takes(ahead, PageSize) :
          /\ kept' = kept \ page
          /\ AdvanceStage(d) \/ UNCHANGED project
    BY <1>4 DEF TakePage
  <2>3. UNCHANGED project
    BY <1>0, <2>1, <2>2, AdvanceEffect
  <2>4. \A r \in page : r \in Row /\ StageOf[r] = stage
    BY <2>2 DEF Takes
  <2> QED BY <2>1, <2>2, <2>3, <2>4, PlainRowsGo
<1>5. CASE DeleteProject(d, w)
  BY <1>0, <1>5, AdvanceEffect DEF DeleteProject, Ended, dataVars
<1> QED BY <1>1, <1>2, <1>3, <1>4, <1>5 DEF Process

LEMMA FinishData ==
  ASSUME Sound, NEW b \in Batch, Finish(b)
  PROVE  Smaller
<1>0. TypeOK /\ RootsKept /\ BatchSound(b)
  BY DEF Sound, BatchesSound
<1>1. CASE UNCHANGED <<dataVars, jobVars>>
  BY <1>1, SameIsSmaller DEF dataVars, jobVars
<1>2. CASE /\ project = "deleting" /\ batch[b].stage = stage
           /\ kept' = kept \ Removed(b) /\ UNCHANGED stored
           /\ AdvanceStage(due) \/ UNCHANGED project
  <2>1. Running(b) /\ stage \in External /\ stage # Finalize
    BY <1>0, <1>2, StagesApart DEF Finish, Running, BatchSound
  <2>2. due \in SUBSET Nat
    BY <1>0 DEF TypeOK
  <2>3. UNCHANGED project
    BY <1>0, <1>2, <2>1, <2>2, AdvanceEffect
  <2>4. \A r \in Removed(b) : r \in batch[b].done /\ r \in batch[b].list
    BY <1>0, <2>1 DEF Removed, BatchSound
  <2>5. \A r \in kept \ kept' : Needs[r] \cap stored' = {}
    BY <1>0, <1>2, <2>1, <2>4 DEF BatchSound
  <2>6. ASSUME NEW v \in kept', RootOf[v] \in kept PROVE RootOf[v] \in kept'
    <3>1. v \in kept /\ RootOf[v] \in Row /\ v \in Row /\ v \in Versions(RootOf[v])
      BY <1>0, <1>2, <2>6 DEF TypeOK, Versions
    <3>2. RootOf[RootOf[v]] = NoRow
      BY <3>1, DeletionConstants
    <3>3. RootOf[v] \notin batch[b].list
      BY <1>0, <2>1, <3>1, <3>2 DEF BatchSound
    <3> QED BY <1>2, <2>4, <2>6, <3>3
  <2> QED BY <1>2, <2>3, <2>5, <2>6 DEF Smaller
<1> QED
  BY <1>1, <1>2 DEF Finish, jobVars

LEMMA DataStep ==
  ASSUME Sound, [Next]_vars
  PROVE  \/ \E r \in Row : Create(r)
         \/ project = "live" /\ Remove
         \/ Smaller
         \/ Ended
<1>0. TypeOK /\ dog \in [Batch -> 0..Unarmed] /\ kept \subseteq Row /\ due \in SUBSET Nat
  BY DEF Sound, TypeOK
<1>1. ASSUME NEW r \in Row, PurgeTrashed(r) PROVE Smaller
  <2>1. RootOf[r] = NoRow /\ r \in kept
        /\ kept' = kept \ ({r} \cup Versions(r))
        /\ stored' = stored \ UNION {Needs[s] : s \in {r} \cup Versions(r)}
        /\ UNCHANGED project
    BY <1>1 DEF PurgeTrashed, jobVars
  <2>2. ASSUME NEW v \in kept', RootOf[v] \in kept PROVE RootOf[v] \in kept'
    <3>1. v \in Row /\ RootOf[v] \in Row /\ RootOf[v] # r
      BY <1>0, <2>1, <2>2 DEF Versions
    <3>2. RootOf[RootOf[v]] = NoRow /\ r # NoRow
      BY <3>1, DeletionConstants
    <3> QED BY <2>1, <2>2, <3>1, <3>2 DEF Versions
  <2> QED BY <2>1, <2>2 DEF Smaller
<1>2. CASE Remove /\ project # "live"
  BY <1>0, <1>2, SameIsSmaller DEF Remove, dataVars, TypeOK
<1>3. CASE RunScheduled
  <2>1. PICK d \in SUBSET Nat : Process(d, dog)
    BY <1>0, <1>3 DEF RunScheduled
  <2> QED BY <2>1, ProcessData
<1>4. ASSUME NEW b \in Batch, RunWatchdog(b) PROVE Smaller \/ Ended
  BY <1>0, <1>4, ProcessData DEF RunWatchdog
<1>5. ASSUME NEW b \in Batch, NEW r \in Row, Destroy(b, r) \/ DestroyFails(b, r) PROVE Smaller
  <2>1. stored' \subseteq stored /\ UNCHANGED <<kept, project>>
    BY <1>5 DEF Destroy, DestroyFails, jobVars
  <2> QED BY <2>1 DEF Smaller
<1>6. ASSUME NEW b \in Batch, CancelWatchdog(b) \/ BatchCrashes(b) PROVE Smaller
  BY <1>6, SameIsSmaller DEF CancelWatchdog, BatchCrashes, dataVars, jobVars
<1>7. CASE Tick
  BY <1>7, SameIsSmaller DEF Tick, dataVars
<1>8. CASE UNCHANGED vars
  BY <1>8, SameIsSmaller DEF vars, dataVars, jobVars
<1> QED
  BY <1>1, <1>2, <1>3, <1>4, <1>5, <1>6, <1>7, <1>8, FinishData DEF Next, Deleting

\* Once deletion has begun there is nothing new but unguarded rows.
LEMMA NothingNew ==
  ASSUME Sound, [Next]_vars, project # "live"
  PROVE  /\ kept' \ Unguarded \subseteq kept /\ stored' \subseteq stored
         /\ project' # "live" /\ \A r \in kept' : StageOf[r] \in External => r \in kept
<1>1. ASSUME NEW r \in Row, Create(r)
      PROVE  r \in Unguarded /\ kept' = kept \cup {r} /\ stored' = stored /\ project' = project
  <2>1. r \in Unguarded /\ kept' = kept \cup {r} /\ stored' = stored \cup Needs[r]
        /\ project' = project
    BY <1>1 DEF Create, Creatable, jobVars
  <2> QED BY <2>1, Plain
<1>2. CASE Smaller
  BY <1>2 DEF Smaller
<1>3. CASE Ended
  BY <1>3 DEF Ended
<1> QED BY <1>1, <1>2, <1>3, DataStep, Plain

\* A batch that a step leaves alone stays sound.
LEMMA BatchStays ==
  ASSUME Sound, [Next]_vars, NEW b \in Batch, batch'[b] = batch[b]
  PROVE  BatchSound(b)'
<1>1. SUFFICES ASSUME Running(b)' PROVE BatchSound(b)'
  BY DEF BatchSound
<1>2. Running(b) /\ BatchSound(b)
  BY <1>1 DEF Running, Sound, BatchesSound
<1>3. project # "live" /\ project' # "live" /\ stored' \subseteq stored
      /\ \A r \in kept' : StageOf[r] \in External => r \in kept
  BY <1>2, NothingNew DEF BatchSound
<1>4. kept' \subseteq Row
  BY TypeStep DEF Sound, TypeOK
<1>5. ASSUME NEW r \in batch[b].list, RootOf[r] = NoRow PROVE Versions(r)' = {}
  <2>1. ASSUME NEW v \in kept', RootOf[v] = r PROVE FALSE
    <3>1. batch[b] \in BatchState
      BY DEF Sound, TypeOK
    <3>2. r \in Row /\ v \in Row
      BY <1>4, <3>1 DEF BatchState
    <3>3. v \in kept
      BY <1>3, <2>1, <3>2, Plain, DeletionConstants
    <3> QED BY <1>2, <1>5, <2>1, <3>3 DEF BatchSound, Versions
  <2> QED BY <2>1 DEF Versions
<1> QED BY <1>2, <1>3, <1>5 DEF BatchSound, Running

LEMMA RootsStep ==
  ASSUME Sound, [Next]_vars
  PROVE  RootsKept'
<1>1. ASSUME NEW r \in Row, Create(r) PROVE RootsKept'
  BY <1>1 DEF Create, Creatable, RootsKept, Sound
<1>2. CASE Smaller
  BY <1>2 DEF Smaller, RootsKept, Sound
<1>3. CASE UNCHANGED kept
  BY <1>3 DEF RootsKept, Sound
<1> QED BY <1>1, <1>2, <1>3, DataStep DEF Remove, dataVars, Ended

LEMMA StartedSound ==
  ASSUME Sound, NEW d \in SUBSET Nat, NEW w, StartBatch(d, w)
  PROVE  BatchesSound'
<1>0. TypeOK /\ batch \in [Batch -> BatchState]
  BY DEF Sound, TypeOK
<1>1. PICK S \in Listings, b \in Batch : batch' = [batch EXCEPT ![b] = Started(S)]
  BY DEF StartBatch
<1>2. project = "deleting" /\ stage \in External /\ UNCHANGED <<kept, stored, project, stage>>
  BY DEF StartBatch, dataVars
<1>3. /\ S \in SUBSET Row
      /\ \A r \in S : r \in kept /\ StageOf[r] = stage
      /\ \A r \in S : RootOf[r] = NoRow => Versions(r) = {}
      /\ IsLast(S) => S = Here
  BY <1>0, <1>1, <1>2, ListingsAre
<1>4. BatchSound(b)'
  <2>1. batch'[b] = Started(S)
    BY <1>0, <1>1
  <2>2. /\ batch'[b].stage = stage /\ batch'[b].list = S
        /\ batch'[b].todo = S /\ batch'[b].done = {} /\ batch'[b].last = IsLast(S)
    BY <1>2, <1>3, <2>1, StartedFields
  <2>3. \A r \in S : Versions(r)' = Versions(r)
    BY <1>2 DEF Versions
  <2>4. IsLast(S) => stage # VariablesStage /\ \A r \in kept : StageOf[r] = stage => r \in S
    BY <1>3 DEF IsLast, Here
  <2> QED BY <1>2, <1>3, <2>2, <2>3, <2>4 DEF BatchSound
<1>5. ASSUME NEW c \in Batch, c # b PROVE BatchSound(c)'
  <2>1. batch'[c] = batch[c]
    BY <1>0, <1>1, <1>5
  <2>2. BatchSound(c) /\ \A r : Versions(r)' = Versions(r)
    BY <1>2 DEF Sound, BatchesSound, Versions
  <2> QED BY <1>2, <2>1, <2>2 DEF BatchSound, Running
<1> QED BY <1>4, <1>5 DEF BatchesSound

\* Steps of processDeletion leave batches alone or start one.
LEMMA ProcessBatch ==
  ASSUME NEW d, NEW w, Process(d, w)
  PROVE  StartBatch(d, w) \/ UNCHANGED batch
BY DEF Process, NothingToDo, Postpone, NothingListed, DeleteRows, TakePage, DeleteProject

LEMMA BatchesStep ==
  ASSUME Sound, [Next]_vars
  PROVE  BatchesSound'
<1>0. TypeOK /\ dog \in [Batch -> 0..Unarmed] /\ due \in SUBSET Nat
      /\ batch \in [Batch -> BatchState]
  BY DEF Sound, TypeOK
<1>1. CASE UNCHANGED batch
  BY <1>1, BatchStays DEF BatchesSound
<1>2. CASE RunScheduled
  <2>1. PICK d \in SUBSET Nat : Process(d, dog)
    BY <1>0, <1>2 DEF RunScheduled
  <2> QED BY <1>1, <2>1, ProcessBatch, StartedSound
<1>3. ASSUME NEW b \in Batch, RunWatchdog(b) PROVE BatchesSound'
  BY <1>0, <1>1, <1>3, ProcessBatch, StartedSound DEF RunWatchdog
<1>4. ASSUME NEW b \in Batch, NEW r \in Row, Destroy(b, r) \/ DestroyFails(b, r)
      PROVE  BatchesSound'
  <2>1. /\ batch[b] \in BatchState /\ Running(b) /\ r \in batch[b].todo
        /\ stored' \subseteq stored /\ UNCHANGED <<kept, project>>
    BY <1>0, <1>4 DEF Destroy, DestroyFails, Running, jobVars
  <2>2. PICK done \in SUBSET Row :
          /\ batch' = [batch EXCEPT ![b] = Handled(batch[b], r, done)]
          /\ done = batch[b].done \/ (done = batch[b].done \cup {r} /\ Needs[r] \cap stored' = {})
    BY <1>4, <2>1 DEF Destroy, DestroyFails, BatchState
  <2>3. /\ batch'[b].stage = batch[b].stage /\ batch'[b].list = batch[b].list
        /\ batch'[b].todo = batch[b].todo \ {r} /\ batch'[b].done = done
        /\ batch'[b].last = batch[b].last
    BY <1>0, <2>1, <2>2, HandledFields
  <2>4. BatchSound(b) /\ \A s : Versions(s)' = Versions(s)
    BY <2>1 DEF Sound, BatchesSound, Versions
  <2>5. done \subseteq batch[b].list /\ \A s \in done : Needs[s] \cap stored' = {}
    BY <2>1, <2>2, <2>4 DEF BatchSound
  <2>6. BatchSound(b)'
    BY <2>1, <2>3, <2>4, <2>5 DEF BatchSound
  <2>7. ASSUME NEW c \in Batch, c # b PROVE BatchSound(c)'
    BY <1>0, <2>2, <2>7, BatchStays
  <2> QED BY <2>6, <2>7 DEF BatchesSound
<1>5. ASSUME NEW b \in Batch, Finish(b) \/ CancelWatchdog(b) \/ BatchCrashes(b)
      PROVE  BatchesSound'
  <2>1. PICK x \in {NoBatch, Reported} : batch' = [batch EXCEPT ![b] = x]
    BY <1>5 DEF Finish, CancelWatchdog, BatchCrashes
  <2>2. BatchSound(b)'
    BY <1>0, <2>1, BatchFields DEF BatchSound, Running
  <2>3. ASSUME NEW c \in Batch, c # b PROVE BatchSound(c)'
    BY <1>0, <2>1, <2>3, BatchStays
  <2> QED BY <2>2, <2>3 DEF BatchesSound
<1> QED
  BY <1>1, <1>2, <1>3, <1>4, <1>5
  DEF Next, Deleting, Create, PurgeTrashed, Remove, Tick, vars

LEMMA SoundStep ==
  ASSUME Sound, [Next]_vars
  PROVE  Sound'
BY TypeStep, RootsStep, BatchesStep DEF Sound

-----------------------------------------------------------------------------
(* Objects, stages and pages.                                              *)

LEMMA OwnedStep ==
  ASSUME Sound, ObjectsOwned, [Next]_vars
  PROVE  ObjectsOwned'
<1>1. ASSUME NEW r \in Row, Create(r) PROVE ObjectsOwned'
  <2>1. kept' = kept \cup {r} /\ stored' = stored \cup Needs[r]
    BY <1>1 DEF Create
  <2> QED BY <2>1 DEF ObjectsOwned, Needs
<1>2. CASE Smaller
  <2>1. ASSUME NEW o \in stored' PROVE \E r \in kept' : o \in Needs[r]
    <3>1. o \in stored
      BY <1>2 DEF Smaller
    <3>2. PICK r \in kept : o \in Needs[r]
      BY <3>1 DEF ObjectsOwned
    <3>3. r \in kept'
      BY <1>2, <2>1, <3>2 DEF Smaller
    <3> QED BY <3>2, <3>3
  <2> QED BY <2>1 DEF ObjectsOwned, Needs
<1>3. CASE UNCHANGED <<kept, stored>>
  BY <1>3 DEF ObjectsOwned, Needs
<1> QED BY <1>1, <1>2, <1>3, DataStep DEF Remove, dataVars, Ended

\* A stage of which nothing is listed is empty.
LEMMA NothingListedIsEmpty ==
  ASSUME Sound, Listings \subseteq {{}}
  PROVE  Here = {}
<1>1. SUFFICES ASSUME NEW r \in Here PROVE FALSE
  OBVIOUS
<1>2. BatchSize \in Nat \ {0} /\ NoRow \notin Row
  BY DeletionConstants
<1>3. r \in Row /\ r \in kept /\ StageOf[r] = stage /\ kept \subseteq Row
  BY DEF Here, Sound, TypeOK
<1>4. Here \in SUBSET Row /\ \A s : Versions(s) \in SUBSET Row
  BY <1>3 DEF Here, Versions
<1>5. CASE stage = VariablesStage
  <2>1. PICK s \in Here : RootOf[s] = NoRow
    <3>1. CASE RootOf[r] = NoRow
      BY <3>1
    <3>2. CASE RootOf[r] # NoRow
      <4>1. RootOf[r] \in kept
        BY <1>3, <3>2 DEF Sound, RootsKept
      <4>2. RootOf[RootOf[r]] = NoRow /\ StageOf[RootOf[r]] = stage
        BY <1>3, <1>5, <3>2, DeletionConstants
      <4> QED BY <4>1, <4>2 DEF Here
    <3> QED BY <3>1, <3>2
  <2>2. CASE Versions(s) = {}
    <3>1. {s} \in Listings
      BY <1>5, <2>1, <2>2 DEF Listings
    <3> QED BY <3>1
  <2>3. CASE Versions(s) # {}
    <3>1. PICK S \in Takes(Versions(s), BatchSize) : S # {}
      BY <1>2, <1>4, <2>3, TakesSome
    <3>2. S \in Listings
      BY <1>5, <2>1, <2>3, <3>1 DEF Listings
    <3> QED BY <3>1, <3>2
  <2> QED BY <2>2, <2>3
<1>6. CASE stage # VariablesStage
  <2>1. PICK S \in Takes(Here, BatchSize) : S # {}
    BY <1>2, <1>4, TakesSome
  <2>2. S \in Listings
    BY <1>6, <2>1 DEF Listings
  <2> QED BY <2>1, <2>2
<1> QED BY <1>5, <1>6

\* A stage is left when no guarded row of it is kept.
StageDone == \A r \in kept' : StageOf[r] = stage => r \in Unguarded

Progress ==
  \/ UNCHANGED <<project, stage>>
  \/ project' = "deleting" /\ stage' = VariablesStage
  \/ project = "deleting" /\ project' = "deleting" /\ stage' = stage + 1 /\ StageDone
  \/ project = "deleting" /\ project' = "gone" /\ stage = Finalize

LEMMA ProcessProgress ==
  ASSUME Sound, SeenGone, NEW d \in SUBSET Nat, NEW w, Process(d, w)
  PROVE  Progress
<1>0. TypeOK
  BY DEF Sound
<1>1. CASE NothingToDo(d, w) \/ Postpone(d, w) \/ StartBatch(d, w)
  BY <1>1 DEF NothingToDo, Postpone, StartBatch, Progress
<1>2. CASE NothingListed(d, w)
  <2>1. AdvanceStage(d) /\ stage # Finalize /\ project = "deleting" /\ kept' = kept /\ Here = {}
    BY <1>2, StagesApart, NothingListedIsEmpty DEF NothingListed, dataVars
  <2>2. StageDone
    BY <2>1 DEF StageDone, Here
  <2> QED BY <1>0, <2>1, <2>2, AdvanceEffect DEF Progress
<1>3. CASE DeleteRows(d, w)
  <2>1. stage # Finalize /\ project = "deleting"
    BY <1>3, StagesApart DEF DeleteRows
  <2>2. CASE Here = {}
    <3>1. AdvanceStage(d) /\ kept' = kept
      BY <1>3, <2>2 DEF DeleteRows
    <3>2. StageDone
      BY <2>2, <3>1 DEF StageDone, Here
    <3> QED BY <1>0, <2>1, <3>1, <3>2, AdvanceEffect DEF Progress
  <2>3. CASE Here # {}
    BY <1>3, <2>3 DEF DeleteRows, Progress
  <2> QED BY <2>2, <2>3
<1>4. CASE TakePage(d, w)
  <2> DEFINE ahead == {r \in Row : StageOf[r] = stage} \ seen
  <2>1. PICK page \in Takes(ahead, PageSize) :
          /\ kept' = kept \ page
          /\ IF page = ahead THEN AdvanceStage(d) ELSE UNCHANGED <<project, stage>>
    BY <1>4 DEF TakePage
  <2>2. stage # Finalize /\ project = "deleting"
    BY <1>4, StagesApart DEF TakePage
  <2>3. CASE page = ahead
    <3>1. AdvanceStage(d)
      BY <2>1, <2>3
    <3>2. StageDone
      BY <1>0, <2>1, <2>3 DEF StageDone, SeenGone, TypeOK
    <3> QED BY <1>0, <2>2, <3>1, <3>2, AdvanceEffect DEF Progress
  <2>4. CASE page # ahead
    BY <2>1, <2>4 DEF Progress
  <2> QED BY <2>3, <2>4
<1>5. CASE DeleteProject(d, w)
  BY <1>0, <1>5, AdvanceEffect DEF DeleteProject, Progress
<1> QED BY <1>1, <1>2, <1>3, <1>4, <1>5 DEF Process

LEMMA FinishProgress ==
  ASSUME Sound, NEW b \in Batch, Finish(b)
  PROVE  Progress
<1>0. TypeOK /\ BatchSound(b) /\ Running(b) /\ kept \subseteq Row /\ due \in SUBSET Nat
  BY DEF Sound, BatchesSound, TypeOK, Finish, Running
<1>1. CASE UNCHANGED <<project, stage>>
  BY <1>1 DEF Progress
<1>2. CASE /\ project = "deleting" /\ batch[b].stage = stage
           /\ kept' = kept \ Removed(b)
           /\ AllDeleted(b) /\ AllRemoved(b) /\ batch[b].last
           /\ AdvanceStage(due)
  <2>1. stage \in External /\ stage # Finalize /\ stage # VariablesStage
    BY <1>0, <1>2, StagesApart DEF BatchSound
  <2>2. ASSUME NEW r \in kept', StageOf[r] = stage PROVE FALSE
    <3>1. r \in kept /\ r \in Row /\ r \notin Removed(b)
      BY <1>0, <1>2, <2>2
    <3>2. r \in batch[b].list
      BY <1>0, <1>2, <2>2, <3>1 DEF BatchSound
    <3>3. r \in batch[b].done
      BY <1>2, <3>2 DEF AllDeleted
    <3>4. RootOf[r] = NoRow
      BY <2>1, <2>2, <3>1, DeletionConstants
    <3>5. r \notin granted
      BY <1>2, <3>1, <3>3 DEF AllRemoved
    <3> QED BY <3>1, <3>3, <3>4, <3>5 DEF Removed
  <2>3. StageDone
    BY <2>2 DEF StageDone
  <2> QED BY <1>0, <1>2, <2>1, <2>3, AdvanceEffect DEF Progress
<1> QED
  BY <1>1, <1>2 DEF Finish, jobVars

LEMMA ProgressStep ==
  ASSUME Sound, SeenGone, [Next]_vars
  PROVE  Progress
<1>1. CASE UNCHANGED <<project, stage>>
  BY <1>1 DEF Progress
<1>2. CASE Remove
  BY <1>2 DEF Remove, Progress
<1>3. CASE RunScheduled
  <2>1. PICK d \in SUBSET Nat : Process(d, dog)
    BY <1>3 DEF RunScheduled, Sound, TypeOK
  <2> QED BY <2>1, ProcessProgress
<1>4. ASSUME NEW b \in Batch, RunWatchdog(b) PROVE Progress
  BY <1>4, ProcessProgress DEF RunWatchdog, Sound, TypeOK
<1> QED
  BY <1>1, <1>2, <1>3, <1>4, FinishProgress
  DEF Next, Deleting, Create, PurgeTrashed, Destroy, DestroyFails, CancelWatchdog,
      BatchCrashes, Tick, vars, jobVars

LEMMA StagesStep ==
  ASSUME Sound, SeenGone, StagesEmptied, [Next]_vars
  PROVE  StagesEmptied'
<1>0. /\ Progress
      /\ stage \in Nat /\ kept' \subseteq Row /\ project \in {"live", "deleting", "gone"}
      /\ \A r \in Row : StageOf[r] \in Nat /\ 1 <= StageOf[r] /\ StageOf[r] < Finalize
  BY ProgressStep, TypeStep, Stages DEF Sound, TypeOK
<1>1. SUFFICES ASSUME NEW r \in Row \ Unguarded, r \in kept',
                      project' = "gone" \/ (project' = "deleting" /\ StageOf[r] < stage')
               PROVE FALSE
  BY DEF StagesEmptied
<1>2. project # "live" => r \in kept
  BY <1>1, NothingNew
<1>3. CASE UNCHANGED <<project, stage>>
  BY <1>0, <1>1, <1>2, <1>3 DEF StagesEmptied
<1>4. CASE project' = "deleting" /\ stage' = VariablesStage
  BY <1>0, <1>1, <1>4 DEF VariablesStage
<1>5. CASE project = "deleting" /\ project' = "deleting" /\ stage' = stage + 1 /\ StageDone
  <2>1. StageOf[r] # stage
    BY <1>1, <1>5 DEF StageDone
  <2>2. StageOf[r] < stage + 1 /\ r \in kept
    BY <1>1, <1>2, <1>5
  <2>3. StageOf[r] < stage
    BY <1>0, <2>1, <2>2
  <2> QED BY <1>5, <2>2, <2>3 DEF StagesEmptied
<1>6. CASE project = "deleting" /\ project' = "gone" /\ stage = Finalize
  BY <1>0, <1>2, <1>6 DEF StagesEmptied
<1> QED BY <1>0, <1>3, <1>4, <1>5, <1>6 DEF Progress

LEMMA ProcessSeen ==
  ASSUME Sound, SeenGone, NEW d \in SUBSET Nat, NEW w, Process(d, w)
  PROVE  SeenGone'
<1>0. TypeOK /\ (Smaller \/ Ended)
  BY ProcessData DEF Sound
<1>1. kept' \subseteq kept /\ (project' = "live" => project = "live" /\ project' = project)
  BY <1>0 DEF Smaller, Ended
<1>2. CASE seen' = {} \/ (seen' = seen /\ project' = project)
  BY <1>1, <1>2 DEF SeenGone
<1>3. CASE TakePage(d, w)
  <2>1. PICK page : kept' = kept \ page /\ (AdvanceStage(d) \/ seen' = seen \cup page)
    BY <1>3 DEF TakePage
  <2>2. project = "deleting" /\ project' # "live"
    BY <1>1, <1>3 DEF TakePage
  <2> QED BY <1>0, <1>1, <1>2, <2>1, <2>2, AdvanceEffect DEF SeenGone
<1> QED
  BY <1>0, <1>1, <1>2, <1>3, AdvanceEffect
  DEF Process, NothingToDo, Postpone, StartBatch, NothingListed, DeleteRows, DeleteProject

LEMMA SeenStep ==
  ASSUME Sound, SeenGone, [Next]_vars
  PROVE  SeenGone'
<1>0. TypeOK /\ due \in SUBSET Nat
  BY DEF Sound, TypeOK
<1>1. ASSUME NEW r \in Row, Create(r) PROVE SeenGone'
  BY <1>1 DEF Create, Creatable, SeenGone, jobVars
<1>2. CASE Remove
  BY <1>2 DEF Remove, SeenGone
<1>3. CASE RunScheduled
  <2>1. PICK d \in SUBSET Nat : Process(d, dog)
    BY <1>0, <1>3 DEF RunScheduled
  <2> QED BY <2>1, ProcessSeen
<1>4. ASSUME NEW b \in Batch, RunWatchdog(b) PROVE SeenGone'
  BY <1>0, <1>4, ProcessSeen DEF RunWatchdog
<1>5. ASSUME NEW b \in Batch, Finish(b) PROVE SeenGone'
  <2>1. Smaller
    BY <1>5, FinishData
  <2>2. seen' = {} \/ seen' = seen
    BY <1>0, <1>5, AdvanceEffect DEF Finish, jobVars
  <2> QED BY <2>1, <2>2 DEF SeenGone, Smaller
<1>6. CASE kept' \subseteq kept /\ UNCHANGED <<seen, project>>
  BY <1>6 DEF SeenGone
<1> QED
  BY <1>1, <1>2, <1>3, <1>4, <1>5, <1>6
  DEF Next, Deleting, PurgeTrashed, Destroy, DestroyFails, CancelWatchdog, BatchCrashes, Tick,
      vars, dataVars, jobVars

-----------------------------------------------------------------------------
(* The chain of runs, and the batch that is at work alone.                 *)

LEMMA ProcessPending ==
  ASSUME Sound, NEW d \in SUBSET Nat, NEW w \in [Batch -> 0..Unarmed], Process(d, w)
  PROVE  Pending'
<1>0. TypeOK /\ batch \in [Batch -> BatchState] /\ Lease # Unarmed
  BY DeletionConstants DEF Sound, TypeOK, Unarmed
<1>1. CASE NothingToDo(d, w)
  BY <1>1 DEF NothingToDo, Pending
<1>2. CASE Postpone(d, w)
  BY <1>2 DEF Postpone, Pending
<1>3. CASE StartBatch(d, w)
  <2>1. PICK S \in Listings, b \in Batch :
          batch' = [batch EXCEPT ![b] = Started(S)] /\ dog' = [w EXCEPT ![b] = Lease]
    BY <1>3 DEF StartBatch
  <2>2. stage \in External /\ UNCHANGED stage
    BY <1>3 DEF StartBatch
  <2>3. Started(S).at = "running" /\ Started(S).stage = stage
    BY <1>0, <2>1, <2>2, ListingsAre, StartedFields
  <2> QED BY <1>0, <2>1, <2>2, <2>3 DEF Pending, Running
<1>4. CASE AdvanceStage(d)
  BY <1>0, <1>4, AdvanceEffect DEF Pending
<1>5. CASE due' = d \cup {0}
  BY <1>5 DEF Pending
<1> QED
  BY <1>1, <1>2, <1>3, <1>4, <1>5
  DEF Process, NothingListed, DeleteRows, TakePage, DeleteProject

LEMMA FinishPending ==
  ASSUME Sound, Pending, NEW b \in Batch, Finish(b)
  PROVE  Pending'
<1>0. TypeOK /\ batch \in [Batch -> BatchState] /\ due \in SUBSET Nat
  BY DEF Sound, TypeOK
<1>1. batch' = [batch EXCEPT ![b] = Reported] /\ Running(b) /\ UNCHANGED dog
  BY DEF Finish, Running
<1>2. CASE project # "deleting" \/ batch[b].stage # stage
  <2>1. UNCHANGED <<project, stage, due>>
    BY <1>2 DEF Finish, jobVars
  <2>2. SUFFICES ASSUME project = "deleting", due = {} PROVE Pending'
    BY <2>1 DEF Pending
  <2>3. PICK c \in Batch : /\ dog[c] # Unarmed
                           /\ batch[c].at = "idle" \/ (Running(c) /\ batch[c].stage = stage)
    BY <2>2 DEF Pending
  <2>4. c # b
    BY <1>1, <1>2, <2>2, <2>3 DEF Running
  <2>5. batch'[c] = batch[c]
    BY <1>0, <1>1, <2>4
  <2> QED BY <1>1, <2>1, <2>3, <2>5 DEF Pending, Running
<1>3. CASE AdvanceStage(due)
  BY <1>0, <1>3, AdvanceEffect DEF Pending
<1>4. CASE due' = due \cup {IF AllDeleted(b) THEN 0 ELSE Backoff}
  BY <1>4 DEF Pending
<1> QED BY <1>2, <1>3, <1>4 DEF Finish

LEMMA PendingStep ==
  ASSUME Sound, Pending, [Next]_vars
  PROVE  Pending'
<1>0. /\ dog \in [Batch -> 0..Unarmed] /\ batch \in [Batch -> BatchState] /\ due \in SUBSET Nat
      /\ Unarmed \in 0..Unarmed
  BY DeletionConstants DEF Sound, TypeOK, Unarmed
<1>1. CASE UNCHANGED <<project, stage, due, batch, dog>>
  BY <1>1 DEF Pending, Running
<1>2. CASE Remove
  BY <1>2 DEF Remove, Pending
<1>3. CASE RunScheduled
  <2>1. PICK d \in SUBSET Nat : Process(d, dog)
    BY <1>0, <1>3 DEF RunScheduled
  <2> QED BY <1>0, <2>1, ProcessPending
<1>4. ASSUME NEW b \in Batch, RunWatchdog(b) PROVE Pending'
  <2>1. [dog EXCEPT ![b] = Unarmed] \in [Batch -> 0..Unarmed]
    BY <1>0
  <2> QED BY <1>0, <1>4, <2>1, ProcessPending DEF RunWatchdog
<1>5. ASSUME NEW b \in Batch, NEW r \in Row, Destroy(b, r) \/ DestroyFails(b, r) PROVE Pending'
  <2>1. PICK done \in SUBSET Row : batch' = [batch EXCEPT ![b] = Handled(batch[b], r, done)]
    <3>1. batch[b].done \in SUBSET Row
      BY <1>0 DEF BatchState
    <3> QED BY <1>5, <3>1 DEF Destroy, DestroyFails
  <2>2. batch[b].at = "running" /\ batch'[b].at = "running" /\ batch'[b].stage = batch[b].stage
    BY <1>0, <1>5, <2>1, HandledFields DEF Destroy, DestroyFails
  <2>3. \A c \in Batch : c # b => batch'[c] = batch[c]
    BY <1>0, <2>1
  <2>4. UNCHANGED <<project, stage, due, dog>>
    BY <1>5 DEF Destroy, DestroyFails, jobVars
  <2> QED BY <2>2, <2>3, <2>4 DEF Pending, Running
<1>6. ASSUME NEW b \in Batch, CancelWatchdog(b) PROVE Pending'
  <2>1. /\ batch[b].at = "reported" /\ UNCHANGED <<project, stage, due>>
        /\ \A c \in Batch : c # b => batch'[c] = batch[c] /\ dog'[c] = dog[c]
    BY <1>0, <1>6 DEF CancelWatchdog, jobVars
  <2> QED BY <2>1 DEF Pending, Running
<1>7. ASSUME NEW b \in Batch, BatchCrashes(b) PROVE Pending'
  <2>1. /\ batch'[b].at = "idle" /\ UNCHANGED <<project, stage, due, dog>>
        /\ \A c \in Batch : c # b => batch'[c] = batch[c]
    BY <1>0, <1>7, BatchFields DEF BatchCrashes, jobVars
  <2> QED BY <2>1 DEF Pending, Running
<1>8. CASE Tick
  <2>1. /\ UNCHANGED <<project, stage, batch>> /\ due' = {Elapse(n) : n \in due}
        /\ dog' = [b \in Batch |-> IF dog[b] = Unarmed THEN Unarmed ELSE Elapse(dog[b])]
    BY <1>8 DEF Tick
  <2>2. \A b \in Batch : dog[b] # Unarmed => Elapse(dog[b]) # Unarmed
    BY <1>0, DeletionConstants DEF Elapse, Unarmed
  <2>3. \A b \in Batch : dog[b] # Unarmed => dog'[b] # Unarmed
    BY <2>1, <2>2
  <2>4. due # {} => due' # {}
    BY <2>1
  <2> QED BY <2>1, <2>3, <2>4 DEF Pending, Running
<1> QED
  BY <1>1, <1>2, <1>3, <1>4, <1>5, <1>6, <1>7, <1>8, FinishPending
  DEF Next, Deleting, Create, PurgeTrashed, vars, jobVars

\* A batch is started, or is what it was, or none is at work.
LEMMA ProcessAlone ==
  ASSUME Sound, Alone, NEW d \in SUBSET Nat, NEW w \in [Batch -> 0..Unarmed], Process(d, w),
         \A b \in Batch : Running(b) /\ ~ excused => w[b] = dog[b],
         UNCHANGED excused
  PROVE  Alone'
<1>0. TypeOK /\ batch \in [Batch -> BatchState] /\ Lease # 0
  BY DeletionConstants DEF Sound, TypeOK
<1>1. SUFFICES ASSUME ~ excused PROVE Alone'
  BY DEF Alone
<1>2. CASE NothingToDo(d, w) \/ Postpone(d, w)
  BY <1>1, <1>2 DEF NothingToDo, Postpone, Alone, Running
<1>3. CASE StartBatch(d, w)
  <2>1. PICK S \in Listings, b \in Batch :
          batch' = [batch EXCEPT ![b] = Started(S)] /\ dog' = [w EXCEPT ![b] = Lease]
    BY <1>3 DEF StartBatch
  <2>2. /\ stage \in External /\ project = "deleting" /\ lease = 0 /\ lease' = Lease
        /\ UNCHANGED <<project, stage>>
    BY <1>3 DEF StartBatch, LeaseFree
  <2>3. Started(S).at = "running" /\ Started(S).stage = stage
    BY <1>0, <2>1, <2>2, ListingsAre, StartedFields
  <2>4. \A c \in Batch : ~ Running(c)
    BY <1>1, <2>2 DEF Alone
  <2>5. \A c \in Batch : Running(c)' => c = b
    BY <1>0, <2>1, <2>4 DEF Running
  <2>6. batch'[b].stage = stage /\ dog'[b] = Lease
    BY <1>0, <2>1, <2>3
  <2> QED BY <1>0, <2>2, <2>5, <2>6 DEF Alone
<1>4. CASE UNCHANGED batch /\ \A b \in Batch : ~ Running(b)
  BY <1>4 DEF Alone, Running
<1>5. CASE NothingListed(d, w)
  BY <1>1, <1>4, <1>5 DEF NothingListed, LeaseFree, Alone
<1>6. CASE DeleteRows(d, w) \/ TakePage(d, w) \/ DeleteProject(d, w)
  <2>1. stage \notin External /\ UNCHANGED batch
    BY <1>6, StagesApart DEF DeleteRows, TakePage, DeleteProject
  <2>2. \A b \in Batch : ~ Running(b)
    BY <1>1, <2>1 DEF Alone, Sound, BatchesSound, BatchSound
  <2> QED BY <1>4, <2>1, <2>2
<1> QED BY <1>2, <1>3, <1>5, <1>6 DEF Process

LEMMA AloneStep ==
  ASSUME Sound, Alone, [Next]_vars
  PROVE  Alone'
<1>0. /\ dog \in [Batch -> 0..Unarmed] /\ batch \in [Batch -> BatchState] /\ due \in SUBSET Nat
      /\ Unarmed \in 0..Unarmed /\ lease \in 0..Lease /\ Lease \in Nat
  BY DeletionConstants DEF Sound, TypeOK, Unarmed
<1>1. CASE UNCHANGED <<project, stage, lease, batch, dog, excused>>
  BY <1>1 DEF Alone, Running
<1>2. CASE Remove
  <2>1. CASE project = "live"
    <3>1. UNCHANGED batch /\ \A b \in Batch : ~ Running(b)
      BY <1>2, <2>1 DEF Remove, Sound, BatchesSound, BatchSound
    <3> QED BY <3>1 DEF Alone, Running
  <2>2. CASE project = "deleting"
    BY <1>2, <2>2 DEF Remove, Alone
  <2> QED BY <1>2, <2>1, <2>2 DEF Remove, Sound, TypeOK
<1>3. CASE RunScheduled
  <2>1. PICK d \in SUBSET Nat : Process(d, dog)
    BY <1>0, <1>3 DEF RunScheduled
  <2> QED BY <1>0, <1>3, <2>1, ProcessAlone DEF RunScheduled
<1>4. ASSUME NEW b \in Batch, RunWatchdog(b) PROVE Alone'
  <2> DEFINE w == [dog EXCEPT ![b] = Unarmed]
  <2>1. w \in [Batch -> 0..Unarmed] /\ Process(due, w) /\ UNCHANGED excused /\ dog[b] = 0
    BY <1>0, <1>4 DEF RunWatchdog
  <2>2. ~ excused => ~ Running(b)
    BY <2>1 DEF Alone
  <2>3. \A c \in Batch : Running(c) /\ ~ excused => w[c] = dog[c]
    BY <1>0, <2>2
  <2> HIDE DEF w
  <2> QED BY <1>0, <2>1, <2>3, ProcessAlone
<1>5. ASSUME NEW b \in Batch, NEW r \in Row, Destroy(b, r) \/ DestroyFails(b, r) PROVE Alone'
  <2>1. PICK done \in SUBSET Row : batch' = [batch EXCEPT ![b] = Handled(batch[b], r, done)]
    <3>1. batch[b].done \in SUBSET Row
      BY <1>0 DEF BatchState
    <3> QED BY <1>5, <3>1 DEF Destroy, DestroyFails
  <2>2. batch[b].at = "running" /\ batch'[b].at = "running" /\ batch'[b].stage = batch[b].stage
    BY <1>0, <1>5, <2>1, HandledFields DEF Destroy, DestroyFails
  <2>3. \A c \in Batch : c # b => batch'[c] = batch[c]
    BY <1>0, <2>1
  <2>4. UNCHANGED <<project, stage, lease, dog, excused>>
    BY <1>5 DEF Destroy, DestroyFails, jobVars
  <2>5. \A c \in Batch : Running(c)' = Running(c) /\ batch'[c].stage = batch[c].stage
    BY <2>2, <2>3 DEF Running
  <2> QED BY <2>4, <2>5 DEF Alone
<1>6. ASSUME NEW b \in Batch, Finish(b) PROVE Alone'
  <2>1. batch' = [batch EXCEPT ![b] = Reported] /\ Running(b) /\ UNCHANGED excused
    BY <1>6 DEF Finish, Running
  <2>2. ~ excused => \A c \in Batch : Running(c) => c = b
    BY <2>1 DEF Alone
  <2>3. ~ excused => \A c \in Batch : ~ Running(c)'
    BY <1>0, <2>1, <2>2, BatchFields DEF Running
  <2> QED BY <2>1, <2>3 DEF Alone
<1>7. ASSUME NEW b \in Batch, CancelWatchdog(b) \/ BatchCrashes(b) PROVE Alone'
  <2>1. /\ batch'[b].at = "idle" /\ UNCHANGED <<project, stage, lease, excused>>
        /\ \A c \in Batch : c # b => batch'[c] = batch[c] /\ dog'[c] = dog[c]
    BY <1>0, <1>7, BatchFields DEF CancelWatchdog, BatchCrashes, jobVars
  <2> QED BY <2>1 DEF Alone, Running
<1>8. CASE Tick
  <2>1. SUFFICES ASSUME ~ excused' PROVE Alone'
    BY DEF Alone
  <2>2. /\ UNCHANGED <<project, stage, batch>> /\ lease' = Elapse(lease)
        /\ \A b \in Batch : dog'[b] = IF dog[b] = Unarmed THEN Unarmed ELSE Elapse(dog[b])
    BY <1>8 DEF Tick
  <2>3. ~ excused /\ \A b \in Batch : Running(b) => dog'[b] # 0
    BY <1>8, <2>1 DEF Tick, Running
  <2>4. ASSUME NEW b \in Batch, Running(b) PROVE dog'[b] = lease' /\ lease' # 0
    <3>1. dog[b] = lease /\ dog'[b] # 0 /\ lease # Unarmed
      BY <1>0, <2>3, <2>4 DEF Alone, Unarmed
    <3>2. dog'[b] = Elapse(dog[b])
      BY <2>2, <3>1
    <3> QED BY <2>2, <3>1, <3>2
  <2> QED BY <2>2, <2>3, <2>4 DEF Alone, Running
<1> QED
  BY <1>1, <1>2, <1>3, <1>4, <1>5, <1>6, <1>7, <1>8
  DEF Next, Deleting, Create, PurgeTrashed, vars, jobVars

-----------------------------------------------------------------------------
(* The invariant, and what follows from it.                                *)

LEMMA InitInvariant == Init => IInv
<1>1. SUFFICES ASSUME Init PROVE IInv
  OBVIOUS
<1>2. \A b \in Batch : batch[b] = NoBatch /\ dog[b] = Unarmed
  BY <1>1 DEF Init
<1>3. \A b \in Batch : ~ Running(b)
  BY <1>2, BatchFields DEF Running
<1>4. /\ 0 \in 0..Finalize /\ 0 \in 0..Lease /\ 0 \in 0..Removals /\ Unarmed \in 0..Unarmed
      /\ Founding \subseteq Row
  BY Stages, DeletionConstants DEF Unarmed
<1>5. TypeOK
  <2>1. batch \in [Batch -> BatchState] /\ dog \in [Batch -> 0..Unarmed]
    BY <1>1, <1>4, BatchFields DEF Init
  <2>2. project \in {"live", "deleting", "gone"} /\ excused \in BOOLEAN
    BY <1>1 DEF Init
  <2>3. stage \in 0..Finalize /\ lease \in 0..Lease /\ removals \in 0..Removals /\ due \subseteq Nat
    BY <1>1, <1>4 DEF Init
  <2>4. seen \subseteq Row /\ kept \subseteq Row /\ granted \subseteq Shareable /\ stored \subseteq Object
    BY <1>1, <1>4 DEF Init
  <2> QED BY <2>1, <2>2, <2>3, <2>4 DEF TypeOK
<1>6. RootsKept
  BY <1>1, Plain, DeletionConstants DEF Init, RootsKept
<1>7. BatchesSound /\ Alone
  BY <1>3 DEF BatchesSound, BatchSound, Alone
<1>8. SeenGone /\ StagesEmptied /\ ObjectsOwned /\ Pending
  BY <1>1 DEF Init, SeenGone, StagesEmptied, ObjectsOwned, Pending
<1> QED BY <1>5, <1>6, <1>7, <1>8 DEF IInv, Sound

LEMMA StepInvariant == IInv /\ [Next]_vars => IInv'
BY SoundStep, SeenStep, StagesStep, OwnedStep, PendingStep, AloneStep DEF IInv

LEMMA Invariance == Spec => []IInv
BY InitInvariant, StepInvariant, PTL DEF Spec

(* Every variable keeps its type. *)
THEOREM TypeCorrect == Spec => []TypeOK
<1>1. IInv => TypeOK
  BY DEF IInv, Sound
<1> QED BY <1>1, Invariance, PTL

(* While a project is being deleted some run of its deletion is under way, *)
(* however often batches stop, are late, or are reported to another stage. *)
THEOREM ChainNeverBreaks == Spec => []WorkPending
<1>1. IInv => WorkPending
  BY DEF IInv, Pending, WorkPending, Running
<1> QED BY <1>1, Invariance, PTL

(* A stage that was left stays empty, but for rows whose creators do not   *)
(* look at deletedAt.                                                      *)
THEOREM StagesStayEmpty == Spec => []StagesEmptied
<1>1. IInv => StagesEmptied
  BY DEF IInv
<1> QED BY <1>1, Invariance, PTL

(* Only a second call of remove, or a batch that outlives its lease, makes *)
(* two batches work at once.                                               *)
THEOREM OneBatch == Spec => []OneBatchAtATime
<1>1. IInv => OneBatchAtATime
  BY DEF IInv, Alone, OneBatchAtATime, Running
<1> QED BY <1>1, Invariance, PTL

(* A project that is gone has left no object in the vault or the file      *)
(* store, and no row whose creator looks at deletedAt.                     *)
THEOREM NothingIsLeft == Spec => []LeavesNothing
<1>1. ASSUME IInv, project = "gone" PROVE kept \subseteq Unguarded /\ stored = {}
  <2>1. kept \subseteq Unguarded
    BY <1>1 DEF IInv, Sound, TypeOK, StagesEmptied
  <2>2. \A r \in kept : Needs[r] = {}
    BY <2>1, Plain
  <2> QED BY <1>1, <2>1, <2>2 DEF IInv, ObjectsOwned
<1>2. IInv => LeavesNothing
  BY <1>1 DEF LeavesNothing
<1> QED BY <1>2, Invariance, PTL

-----------------------------------------------------------------------------
(* The refinement.                                                         *)

LEMMA ErasureInit == Init => Erasure!Init
<1>1. SUFFICES ASSUME Init PROVE Erasure!Init
  OBVIOUS
<1>2. kept \ Unguarded \subseteq Row \ Unguarded
  BY <1>1, DeletionConstants DEF Init
<1>3. \A r \in kept : r \in Row /\ Needs[r] = {}
  BY <1>1, Plain, DeletionConstants DEF Init
<1>4. stored = UNION {[s \in Row \ Unguarded |-> Needs[s]][r] : r \in kept \ Unguarded}
  BY <1>1, <1>2, <1>3 DEF Init
<1> QED BY <1>1, <1>2, <1>4 DEF Erasure!Init, Init

LEMMA ErasureStep ==
  ASSUME IInv, [Next]_vars
  PROVE  [Erasure!Next]_(Erasure!erasureVars)
<1> DEFINE NeedsOf == [s \in Row \ Unguarded |-> Needs[s]]
<1>0. kept \subseteq Row /\ Sound
  BY DEF IInv, Sound, TypeOK
<1>1. ASSUME NEW r \in Row, Create(r) PROVE [Erasure!Next]_(Erasure!erasureVars)
  <2>1. /\ r \notin kept /\ kept' = kept \cup {r} /\ stored' = stored \cup Needs[r]
        /\ (project = "live" \/ r \in Unguarded) /\ UNCHANGED project
    BY <1>1 DEF Create, Creatable, jobVars
  <2>2. CASE r \in Unguarded
    BY <2>1, <2>2, <1>1, Plain DEF Erasure!erasureVars, Create, jobVars
  <2>3. CASE r \notin Unguarded
    <3>1. /\ project = "live" /\ r \notin kept \ Unguarded
          /\ kept' \ Unguarded = (kept \ Unguarded) \cup {r}
          /\ stored' = stored \cup NeedsOf[r] /\ UNCHANGED project
      BY <2>1, <2>3, <1>1 DEF Create, jobVars
    <3>2. Erasure!Add(r)
      BY <3>1 DEF Erasure!Add
    <3> QED BY <2>3, <3>2 DEF Erasure!Next
  <2> QED BY <2>2, <2>3
<1>2. CASE project = "live" /\ Remove
  BY <1>2 DEF Remove, dataVars, Erasure!Begin, Erasure!Next
<1>3. CASE Smaller
  <2>1. \A r \in (kept \ Unguarded) \ (kept' \ Unguarded) : NeedsOf[r] \cap stored' = {}
    BY <1>0, <1>3 DEF Smaller
  <2>2. Erasure!Shrink
    BY <1>3, <2>1 DEF Smaller, Erasure!Shrink
  <2> QED BY <2>2 DEF Erasure!Next
<1>4. CASE Ended
  <2>1. kept \ Unguarded = {}
    BY <1>0, <1>4, Stages DEF Ended, IInv, StagesEmptied
  <2>2. Erasure!Vanish
    BY <1>4, <2>1 DEF Ended, Erasure!Vanish
  <2> QED BY <2>2 DEF Erasure!Next
<1> QED BY <1>0, <1>1, <1>2, <1>3, <1>4, DataStep

(* The deletion of a project implements ProjectErasure.                    *)
THEOREM ImplementsErasure == Spec => KeepsPromise
<1>1. IInv /\ [Next]_vars => [Erasure!Next]_(Erasure!erasureVars)
  BY ErasureStep
<1> QED BY <1>1, ErasureInit, Invariance, PTL DEF Spec, KeepsPromise, Erasure!Spec
=============================================================================
