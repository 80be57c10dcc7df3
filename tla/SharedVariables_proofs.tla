----------------------- MODULE SharedVariables_proofs -----------------------
(***************************************************************************)
(* What holds for any number of projects, workspaces, rows, environments   *)
(* and sharings.  Types are kept on every path; uniqueness is proved for   *)
(* the paths that check for conflicts (Paths = {}), across all workspaces  *)
(* when a project may join one and within each workspace when it may join  *)
(* many.                                                                   *)
(***************************************************************************)
EXTENDS SharedVariables, FiniteSetTheorems, TLAPS

(***************************************************************************)
(* Types                                                                   *)
(***************************************************************************)

LEMMA InitTypeOK == Init => TypeOK
BY SharedAssumption DEF Init, TypeOK, IdleShare, ShareState, Container

LEMMA RowStepTypeOK ==
  ASSUME TypeOK, NEW r \in Row, RowStep(r)
  PROVE  TypeOK'
<1> USE SharedAssumption DEF TypeOK, Live, Container
<1>1. CASE \E c \in Container, E \in Environments, v \in Value : Create(r, c, E, v)
  <2>1. PICK c \in Container, E \in Environments, v \in Value : Create(r, c, E, v)
    BY <1>1
  <2>2. <<E, v>> \in Environments \X Value /\ E \in SUBSET Env
    BY DEF Environments
  <2> QED
    BY <2>1, <2>2 DEF Create
<1>2. CASE \E E \in Environments, v \in Value : Update(r, E, v)
  <2>1. PICK E \in Environments, v \in Value : Update(r, E, v)
    BY <1>2
  <2>2. <<E, v>> \in Environments \X Value /\ E \in SUBSET Env
    BY DEF Environments
  <2> QED
    BY <2>1, <2>2 DEF Update
<1>3. CASE \E e \in Env : Detach(r, e)
  <2>1. PICK e \in Env : Detach(r, e)
    BY <1>3
  <2>2. environments[r] \ {e} \in Environments
    BY <2>1 DEF Detach, Detachable, Environments
  <2> QED
    BY <2>1, <2>2 DEF Detach, Environments
<1>4. CASE Remove(r)
  BY <1>4 DEF Remove
<1>5. CASE Restore(r)
  BY <1>5 DEF Restore
<1>6. CASE \E E \in Environments, v \in Value : Rollback(r, E, v)
  <2>1. PICK E \in Environments, v \in Value : Rollback(r, E, v)
    BY <1>6
  <2>2. E \in SUBSET Env
    BY DEF Environments
  <2> QED
    BY <2>1, <2>2 DEF Rollback
<1>7. CASE DestroyRow(r)
  BY <1>7 DEF DestroyRow
<1>8. CASE \E S \in SUBSET Project : SetScope(r, S)
  BY <1>8 DEF SetScope
<1> QED
  BY <1>1, <1>2, <1>3, <1>4, <1>5, <1>6, <1>7, <1>8 DEF RowStep

LEMMA WorkspaceStepTypeOK ==
  ASSUME TypeOK, NEW w \in Workspace, WorkspaceStep(w)
  PROVE  TypeOK'
<1> USE DEF TypeOK, rowVars
<1>1. CASE CreateWorkspace(w) \/ DeleteWorkspace(w)
  BY <1>1 DEF CreateWorkspace, DeleteWorkspace
<1>2. CASE DropLinks(w)
  BY <1>2 DEF DropLinks
<1>3. CASE \E p \in Project : LinkProject(w, p)
  <2>1. PICK p \in Project : LinkProject(w, p)
    BY <1>3
  <2>2. <<w, p>> \in Workspace \X Project
    OBVIOUS
  <2> QED
    BY <2>1, <2>2 DEF LinkProject
<1>4. CASE \E p \in Project : RemoveProject(w, p)
  BY <1>4 DEF RemoveProject
<1> QED
  BY <1>1, <1>2, <1>3, <1>4 DEF WorkspaceStep

LEMMA FindShareTypeOK ==
  ASSUME TypeOK, NEW x \in Sharer, NEW r \in Row, NEW P \in SUBSET Project,
         NEW w \in Workspace, FindShare(x, r, P, w)
  PROVE  TypeOK'
<1>1. PICK D \in Copies(r, P) :
        sharing' = [sharing EXCEPT ![x] =
          [phase |-> "found", survivor |-> r, selected |-> P \cup {container[r]},
           duplicates |-> D, group |-> w, fresh |-> group[w] = "unused",
           made |-> {},
           scope |-> IF Members(w) \subseteq P \cup {container[r]}
                     THEN Project ELSE P \cup {container[r]}]]
  BY DEF FindShare
<1>2. D \subseteq Row
  BY DEF Copies, LiveIn
<1>3. P \cup {container[r]} \subseteq Project
  BY DEF FindShare
<1>4. (group[w] = "unused") \in BOOLEAN
  OBVIOUS
<1>5. sharing'[x] \in ShareState
  BY <1>1, <1>2, <1>3, <1>4 DEF ShareState, TypeOK
<1>6. sharing' \in [Sharer -> ShareState]
  BY <1>1, <1>5 DEF TypeOK
<1> QED
  BY <1>6 DEF FindShare, TypeOK, rowVars

LEMMA ShareStepTypeOK ==
  ASSUME TypeOK, NEW x \in Sharer, ShareStep(x)
  PROVE  TypeOK'
<1> DEFINE s == sharing[x]
<1>1. IdleShare \in ShareState
  BY DEF IdleShare, ShareState
<1>2. /\ s \in ShareState
      /\ s.selected \subseteq Project
      /\ s.scope \subseteq Project
  BY DEF TypeOK, ShareState
<1>3. CASE LinkShare(x)
  <2> DEFINE missing == {p \in s.selected : <<s.group, p>> \notin member}
  <2>1. s.group \in Workspace => {s.group} \X missing \subseteq Workspace \X Project
    BY <1>2
  <2>2. s.group \in Workspace
    BY <1>3 DEF LinkShare, TypeOK
  <2>3. missing \in SUBSET Project
    BY <1>2
  <2>4. sharing' = [sharing EXCEPT ![x] = [s EXCEPT !.phase = "linked", !.made = missing]]
    BY <1>3 DEF LinkShare, TypeOK, ShareState
  <2>5. /\ sharing'[x] \in ShareState
        /\ sharing'[x].survivor = s.survivor
        /\ sharing'[x].group = s.group
    BY <1>2, <2>3, <2>4 DEF TypeOK, ShareState
  <2>6. sharing' \in [Sharer -> ShareState]
    BY <2>4, <2>5 DEF TypeOK
  <2>7. member' \subseteq Workspace \X Project
    BY <1>3, <2>1, <2>2 DEF LinkShare, TypeOK
  <2>8. s.phase # "idle"
    BY <1>3 DEF LinkShare
  <2>9. /\ group' \in [Workspace -> {"unused", "open", "gone"}]
        /\ UNCHANGED rowVars
    BY <1>3 DEF LinkShare, TypeOK
  <2>10. \A y \in Sharer : y # x => sharing'[y] = sharing[y]
    BY <2>4 DEF TypeOK
  <2> QED
    BY <2>5, <2>6, <2>7, <2>8, <2>9, <2>10 DEF TypeOK, rowVars
<1> DEFINE Idle == sharing' = [sharing EXCEPT ![x] = IdleShare]
<1>7. Idle => /\ sharing' \in [Sharer -> ShareState]
              /\ \A y \in Sharer : sharing'[y].phase # "idle" =>
                   sharing'[y].survivor \in Row /\ sharing'[y].group \in Workspace
  <2> SUFFICES ASSUME Idle
               PROVE  /\ sharing' \in [Sharer -> ShareState]
                      /\ \A y \in Sharer : sharing'[y].phase # "idle" =>
                           sharing'[y].survivor \in Row /\ sharing'[y].group \in Workspace
    OBVIOUS
  <2>1. sharing' \in [Sharer -> ShareState]
    BY <1>1 DEF TypeOK
  <2>2. /\ sharing'[x].phase = "idle"
        /\ \A y \in Sharer : y # x => sharing'[y] = sharing[y]
    BY DEF TypeOK, IdleShare
  <2> QED
    BY <2>1, <2>2 DEF TypeOK
<1>4. CASE Adopt(x)
  <2>1. /\ s.survivor \in Row
        /\ s.group \in Workspace
        /\ Idle
    BY <1>4 DEF Adopt, TypeOK
  <2>2. /\ status' \in [Row -> {"none", "live", "trashed", "gone"}]
        /\ \A r \in Row : status'[r] # "none" => status[r] # "none"
    BY <1>4 DEF Adopt, TypeOK, Live
  <2>3. /\ container' \in [Row -> Container \cup {Nowhere}]
        /\ \A r \in Row : container'[r] = container[r] \/ container'[r] \in Container
    BY <1>4, <2>1 DEF Adopt, TypeOK, Container
  <2>4. /\ scope' \in [Row -> SUBSET Project]
        /\ UNCHANGED <<environments, value, recorded, group, member>>
    BY <1>2, <1>4, <2>1 DEF Adopt, TypeOK
  <2>5. \A r \in Row : status'[r] # "none" =>
          container'[r] \in Container /\ environments'[r] \in Environments
    BY <2>2, <2>3, <2>4 DEF TypeOK
  <2> QED
    BY <1>7, <2>1, <2>2, <2>3, <2>4, <2>5 DEF TypeOK
<1>5. CASE Unlink(x)
  <2>1. Idle /\ UNCHANGED rowVars /\ member' \subseteq Workspace \X Project
    BY <1>5 DEF Unlink, TypeOK
  <2>2. group' \in [Workspace -> {"unused", "open", "gone"}]
    BY <1>5 DEF Unlink, TypeOK
  <2> QED
    BY <1>7, <2>1, <2>2 DEF TypeOK, rowVars
<1>6. CASE Abandon(x)
  BY <1>7, <1>6 DEF Abandon, TypeOK, rowVars
<1> QED
  BY <1>3, <1>4, <1>5, <1>6 DEF ShareStep

LEMMA NextTypeOK ==
  ASSUME TypeOK, [Next]_vars
  PROVE  TypeOK'
<1>1. CASE Next
  BY <1>1, RowStepTypeOK, WorkspaceStepTypeOK, FindShareTypeOK, ShareStepTypeOK DEF Next
<1>2. CASE UNCHANGED vars
  BY <1>2 DEF vars, rowVars, TypeOK
<1> QED
  BY <1>1, <1>2

\* Every variable keeps its type, whatever paths are enabled.
THEOREM TypeCorrect == Spec => []TypeOK
BY InitTypeOK, NextTypeOK, PTL DEF Spec

(***************************************************************************)
(* Uniqueness on the checked paths                                         *)
(***************************************************************************)

Disjoint(r, s) == environments[r] \cap environments[s] = {}

\* The rows of one project or workspace never claim an environment twice,
\* whatever their scopes.
OwnDisjoint ==
  \A r, s \in Row :
    (Live(r) /\ Live(s) /\ r # s /\ container[r] = container[s]) => Disjoint(r, s)

\* A project's own rows claim nothing it inherits.
EdgeDisjoint ==
  \A p \in Project, r, s \in Row :
    (/\ Live(r) /\ container[r] = p
     /\ Live(s) /\ container[s] \in Groups(p) /\ group[container[s]] = "open"
     /\ p \in scope[s]) => Disjoint(r, s)

\* No project belongs to a workspace before it is created.
LinksNeedGroup == \A w \in Workspace, p \in Project : <<w, p>> \in member => group[w] # "unused"

NoSharing == \A x \in Sharer : sharing[x].phase = "idle"

IInv == TypeOK /\ NoSharing /\ LinksNeedGroup /\ OwnDisjoint /\ EdgeDisjoint

\* A project in one workspace at most.
OneGroup == \A p \in Project, w, u \in Workspace :
              (<<w, p>> \in member /\ <<u, p>> \in member) => w = u

LEMMA InvImplies == IInv => OnlyAcrossWorkspaces
<1> SUFFICES ASSUME IInv, NEW p \in Project, NEW r \in Reaching(p), NEW s \in Reaching(p),
                    r # s, environments[r] \cap environments[s] # {}
             PROVE  /\ container[r] # container[s]
                    /\ {container[r], container[s]} \subseteq Workspace
  BY DEF OnlyAcrossWorkspaces
<1>1. r \in Row /\ s \in Row /\ Live(r) /\ Live(s) /\ ~Disjoint(r, s)
  BY DEF Reaching, Disjoint
<1>2. container[r] # container[s]
  BY <1>1 DEF IInv, OwnDisjoint
<1>3. container[r] # p
  <2> SUFFICES ASSUME container[r] = p
               PROVE  FALSE
    OBVIOUS
  <2>1. container[s] \in Groups(p) /\ group[container[s]] = "open" /\ p \in scope[s]
    BY <1>2 DEF Reaching, Reaches
  <2> QED
    BY <1>1, <2>1 DEF IInv, EdgeDisjoint
<1>4. container[s] # p
  <2> SUFFICES ASSUME container[s] = p
               PROVE  FALSE
    OBVIOUS
  <2>1. container[r] \in Groups(p) /\ group[container[r]] = "open" /\ p \in scope[r]
    BY <1>2 DEF Reaching, Reaches
  <2>2. Disjoint(s, r)
    BY <1>1, <2>1 DEF IInv, EdgeDisjoint
  <2> QED
    BY <1>1, <2>2 DEF Disjoint
<1> QED
  BY <1>2, <1>3, <1>4 DEF Reaching, Reaches, Groups

LEMMA InvWithOneGroup == IInv /\ OneGroup => AtMostOnePerEnvironment
<1> SUFFICES ASSUME IInv, OneGroup, NEW p \in Project,
                    NEW r \in Reaching(p), NEW s \in Reaching(p),
                    r # s, environments[r] \cap environments[s] # {}
             PROVE  FALSE
  BY DEF AtMostOnePerEnvironment
<1>1. /\ container[r] # container[s]
      /\ container[r] \in Workspace /\ container[s] \in Workspace
  BY InvImplies DEF OnlyAcrossWorkspaces
<1>2. <<container[r], p>> \in member /\ <<container[s], p>> \in member
  BY <1>1, SharedAssumption DEF Reaching, Reaches, Groups
<1> QED
  BY <1>1, <1>2 DEF OneGroup

LEMMA InitIInv == Init => IInv /\ OneGroup
<1> SUFFICES ASSUME Init
             PROVE  IInv /\ OneGroup
  OBVIOUS
<1>1. TypeOK
  BY InitTypeOK
<1>2. \A r \in Row : ~Live(r)
  BY DEF Init, Live
<1>3. NoSharing /\ LinksNeedGroup /\ OneGroup
  BY DEF Init, NoSharing, LinksNeedGroup, OneGroup, IdleShare
<1> QED
  BY <1>1, <1>2, <1>3 DEF IInv, OwnDisjoint, EdgeDisjoint

\* A step in which rows only leave, or lose environments or scope, and links
\* and workspaces only close, keeps every pair disjoint.
LEMMA ShrinkKeeps ==
  ASSUME IInv,
         \A r \in Row : status'[r] = "live" =>
           /\ Live(r) /\ container'[r] = container[r]
           /\ environments'[r] \subseteq environments[r]
           /\ scope'[r] \subseteq scope[r],
         member' \subseteq member,
         \A w \in Workspace : group'[w] = "open" => group[w] = "open"
  PROVE  OwnDisjoint' /\ EdgeDisjoint'
<1>1. OwnDisjoint'
  <2> SUFFICES ASSUME NEW r \in Row, NEW s \in Row,
                      status'[r] = "live", status'[s] = "live", r # s,
                      container'[r] = container'[s]
               PROVE  environments'[r] \cap environments'[s] = {}
    BY DEF OwnDisjoint, Live, Disjoint
  <2>1. environments[r] \cap environments[s] = {}
    BY DEF IInv, OwnDisjoint, Disjoint
  <2>2. environments'[r] \subseteq environments[r] /\ environments'[s] \subseteq environments[s]
    OBVIOUS
  <2> QED
    BY <2>1, <2>2
<1>2. EdgeDisjoint'
  <2> SUFFICES ASSUME NEW p \in Project, NEW r \in Row, NEW s \in Row,
                      status'[r] = "live", container'[r] = p,
                      status'[s] = "live", container'[s] \in Workspace,
                      <<container'[s], p>> \in member',
                      group'[container'[s]] = "open", p \in scope'[s]
               PROVE  environments'[r] \cap environments'[s] = {}
    BY DEF EdgeDisjoint, Live, Disjoint, Groups
  <2>1. /\ Live(r) /\ container[r] = p /\ Live(s)
        /\ container[s] \in Groups(p) /\ group[container[s]] = "open" /\ p \in scope[s]
    BY DEF Groups
  <2>2. environments[r] \cap environments[s] = {}
    BY <2>1 DEF IInv, EdgeDisjoint, Disjoint
  <2>3. environments'[r] \subseteq environments[r] /\ environments'[s] \subseteq environments[s]
    OBVIOUS
  <2> QED
    BY <2>2, <2>3
<1> QED
  BY <1>1, <1>2

\* A step that writes one row as findEnvironmentConflicts allows and touches
\* nothing else keeps every pair disjoint.
LEMMA CheckedWriteKeeps ==
  ASSUME IInv, NEW r \in Row, NEW c \in Container, NEW E \in SUBSET Env,
         NEW S \in SUBSET Project,
         ConflictFree(c, E, S, {r}),
         container'[r] = c, environments'[r] = E, scope'[r] = S,
         \A s \in Row \ {r} :
           /\ status'[s] = status[s] /\ container'[s] = container[s]
           /\ environments'[s] = environments[s] /\ scope'[s] = scope[s],
         UNCHANGED <<group, member>>
  PROVE  OwnDisjoint' /\ EdgeDisjoint'
<1>1. ASSUME NEW s \in Row \ {r}, Live(s), container[s] = c
      PROVE  environments[s] \cap E = {}
  BY <1>1 DEF ConflictFree, OwnClear, LiveIn
<1>2. ASSUME NEW p \in Project, c \in Workspace, <<c, p>> \in member, p \in S,
             NEW s \in Row \ {r}, Live(s), container[s] = p
      PROVE  environments[s] \cap E = {}
  BY <1>2 DEF ConflictFree, MembersClear, Members, OwnClear, LiveIn
<1>3. ASSUME c \in Project, NEW s \in Row \ {r}, Live(s),
             container[s] \in Workspace, <<container[s], c>> \in member,
             group[container[s]] = "open", c \in scope[s]
      PROVE  environments[s] \cap E = {}
  <2>1. container[s] # c /\ Reaches(s, c)
    BY <1>3, SharedAssumption DEF Reaches, Groups
  <2> QED
    BY <1>3, <2>1 DEF ConflictFree, GroupsClear
<1>4. OwnDisjoint'
  <2> SUFFICES ASSUME NEW a \in Row, NEW b \in Row,
                      status'[a] = "live", status'[b] = "live", a # b,
                      container'[a] = container'[b]
               PROVE  environments'[a] \cap environments'[b] = {}
    BY DEF OwnDisjoint, Live, Disjoint
  <2>1. CASE a # r /\ b # r
    BY <2>1 DEF IInv, OwnDisjoint, Disjoint, Live
  <2>2. CASE a = r
    BY <2>2, <1>1 DEF Live
  <2>3. CASE b = r
    BY <2>3, <1>1 DEF Live
  <2> QED
    BY <2>1, <2>2, <2>3
<1>5. EdgeDisjoint'
  <2> SUFFICES ASSUME NEW p \in Project, NEW a \in Row, NEW b \in Row,
                      status'[a] = "live", container'[a] = p,
                      status'[b] = "live", container'[b] \in Workspace,
                      <<container'[b], p>> \in member,
                      group[container'[b]] = "open", p \in scope'[b]
               PROVE  environments'[a] \cap environments'[b] = {}
    BY DEF EdgeDisjoint, Live, Disjoint, Groups
  <2>1. a # b
    BY SharedAssumption
  <2>2. CASE a # r /\ b # r
    <3>1. /\ Live(a) /\ container[a] = p /\ Live(b)
          /\ container[b] \in Groups(p) /\ group[container[b]] = "open" /\ p \in scope[b]
          /\ environments'[a] = environments[a] /\ environments'[b] = environments[b]
      BY <2>2 DEF Live, Groups
    <3> QED
      BY <3>1 DEF IInv, EdgeDisjoint, Disjoint
  <2>3. CASE a = r
    <3>1. /\ c = p /\ b \in Row \ {r} /\ Live(b)
          /\ container[b] = container'[b] /\ scope[b] = scope'[b]
          /\ environments'[b] = environments[b] /\ environments'[a] = E
      BY <2>1, <2>3 DEF Live
    <3>2. environments[b] \cap E = {}
      BY <3>1, <1>3
    <3> QED
      BY <3>1, <3>2
  <2>4. CASE b = r
    BY <2>1, <2>4, <1>2 DEF Live
  <2> QED
    BY <2>2, <2>3, <2>4
<1> QED
  BY <1>4, <1>5

LEMMA RowStepKeeps ==
  ASSUME Paths = {}, IInv, NEW r \in Row, RowStep(r)
  PROVE  NoSharing' /\ LinksNeedGroup' /\ OwnDisjoint' /\ EdgeDisjoint' /\ member' = member
<1>1. UNCHANGED <<group, member, sharing>>
  BY DEF RowStep, Create, Update, Detach, Remove, Restore, Rollback, DestroyRow, SetScope
<1>2. NoSharing' /\ LinksNeedGroup' /\ member' = member
  BY <1>1 DEF IInv, NoSharing, LinksNeedGroup
<1>3. CASE \E c \in Container, E \in Environments, v \in Value : Create(r, c, E, v)
  <2>1. PICK c \in Container, E \in Environments, v \in Value : Create(r, c, E, v)
    BY <1>3
  <2>2. ConflictFree(c, E, Project, {r})
    BY <2>1 DEF Create, ConflictFree, OwnClear, MembersClear, GroupsClear
  <2>3. /\ container'[r] = c /\ environments'[r] = E /\ scope'[r] = Project
        /\ \A s \in Row \ {r} :
             /\ status'[s] = status[s] /\ container'[s] = container[s]
             /\ environments'[s] = environments[s] /\ scope'[s] = scope[s]
    BY <2>1 DEF Create, IInv, TypeOK
  <2>4. E \in SUBSET Env
    BY DEF Environments
  <2>5. OwnDisjoint' /\ EdgeDisjoint'
    BY <1>1, <2>2, <2>3, <2>4, CheckedWriteKeeps
  <2> QED
    BY <1>2, <2>5
<1>4. CASE \E E \in Environments, v \in Value : Update(r, E, v)
  <2>1. PICK E \in Environments, v \in Value : Update(r, E, v)
    BY <1>4
  <2>2. /\ status' = status /\ container' = container /\ scope' = scope
        /\ Live(r)
        /\ environments'[r] = E
        /\ \A s \in Row \ {r} : environments'[s] = environments[s]
    BY <2>1 DEF Update, IInv, TypeOK
  <2>3. CASE E = environments[r]
    <3>1. \A s \in Row : environments'[s] \subseteq environments[s]
      BY <2>2, <2>3
    <3>2. OwnDisjoint' /\ EdgeDisjoint'
      BY <1>1, <2>2, <3>1, ShrinkKeeps DEF Live
    <3> QED
      BY <1>2, <3>2
  <2>4. CASE ConflictFree(container[r], E, scope[r], {r})
    <3>1. container[r] \in Container /\ E \in SUBSET Env /\ scope[r] \in SUBSET Project
      BY <2>2 DEF Environments, IInv, TypeOK, Live
    <3>2. OwnDisjoint' /\ EdgeDisjoint'
      BY <1>1, <2>2, <2>4, <3>1, CheckedWriteKeeps
    <3> QED
      BY <1>2, <3>2
  <2> QED
    BY <2>1, <2>3, <2>4 DEF Update
<1>5. CASE (\E e \in Env : Detach(r, e)) \/ Remove(r) \/ DestroyRow(r)
  <2>1. \A s \in Row : status'[s] = "live" =>
          /\ Live(s) /\ container'[s] = container[s]
          /\ environments'[s] \subseteq environments[s]
          /\ scope'[s] \subseteq scope[s]
    BY <1>5 DEF Detach, Remove, DestroyRow, IInv, TypeOK, Live
  <2>2. OwnDisjoint' /\ EdgeDisjoint'
    BY <1>1, <2>1, ShrinkKeeps
  <2> QED
    BY <1>2, <2>2
<1>6. CASE Restore(r)
  <2>1. ConflictFree(container[r], environments[r], scope[r], {r})
    BY <1>6 DEF Restore, RestoreFree, ConflictFree, OwnClear, MembersClear, GroupsClear
  <2>2. container[r] \in Container /\ environments[r] \in SUBSET Env /\ scope[r] \in SUBSET Project
    BY <1>6 DEF Restore, IInv, TypeOK
  <2>3. /\ container' = container /\ environments' = environments /\ scope' = scope
        /\ \A s \in Row \ {r} : status'[s] = status[s]
    BY <1>6 DEF Restore, IInv, TypeOK
  <2>4. OwnDisjoint' /\ EdgeDisjoint'
    BY <1>1, <2>1, <2>2, <2>3, CheckedWriteKeeps
  <2> QED
    BY <1>2, <2>4
<1>7. CASE \E S \in SUBSET Project : SetScope(r, S)
  <2>1. PICK S \in SUBSET Project : SetScope(r, S)
    BY <1>7
  <2>2. /\ status' = status /\ container' = container /\ environments' = environments
        /\ Live(r) /\ container[r] \in Workspace
        /\ scope'[r] = S
        /\ \A s \in Row \ {r} : scope'[s] = scope[s]
    BY <2>1 DEF SetScope, IInv, TypeOK
  <2>3. OwnDisjoint'
    BY <2>2 DEF IInv, OwnDisjoint, Live, Disjoint
  <2>4. EdgeDisjoint'
    <3> SUFFICES ASSUME NEW p \in Project, NEW a \in Row, NEW b \in Row,
                        Live(a), container[a] = p,
                        Live(b), container[b] \in Groups(p),
                        group[container[b]] = "open", p \in scope'[b]
                 PROVE  environments[a] \cap environments[b] = {}
      BY <1>1, <2>2 DEF EdgeDisjoint, Live, Disjoint, Groups
    <3>1. CASE p \in scope[b]
      BY <3>1 DEF IInv, EdgeDisjoint, Disjoint
    <3>2. CASE p \notin scope[b]
      <4>1. b = r /\ p \in (Members(container[r]) \cap S) \ scope[r]
        BY <2>2, <3>2 DEF Members, Groups
      <4>2. ConflictFree(p, environments[r], Project, {})
        BY <2>1, <4>1 DEF SetScope
      <4>3. a \in LiveIn(p)
        BY DEF LiveIn
      <4> QED
        BY <4>1, <4>2, <4>3 DEF ConflictFree, OwnClear
    <3> QED
      BY <3>1, <3>2
  <2> QED
    BY <1>2, <2>3, <2>4
<1>8. ~ \E E \in Environments, v \in Value : Rollback(r, E, v)
  BY DEF Rollback
<1> QED
  BY <1>3, <1>4, <1>5, <1>6, <1>7, <1>8 DEF RowStep

LEMMA WorkspaceStepKeeps ==
  ASSUME IInv, NEW w \in Workspace, WorkspaceStep(w)
  PROVE  NoSharing' /\ LinksNeedGroup' /\ OwnDisjoint' /\ EdgeDisjoint'
<1>1. UNCHANGED <<rowVars, sharing>>
  BY DEF WorkspaceStep, CreateWorkspace, DeleteWorkspace, DropLinks, LinkProject, RemoveProject
<1>2. NoSharing' /\ OwnDisjoint'
  BY <1>1 DEF IInv, NoSharing, OwnDisjoint, Live, Disjoint, rowVars
<1>3. CASE DeleteWorkspace(w) \/ DropLinks(w) \/ \E p \in Project : RemoveProject(w, p)
  <2>1. /\ member' \subseteq member
        /\ \A u \in Workspace : group'[u] = "open" => group[u] = "open"
        /\ \A u \in Workspace : group'[u] = "unused" => group[u] = "unused"
    BY <1>3 DEF DeleteWorkspace, DropLinks, RemoveProject, IInv, TypeOK
  <2>2. OwnDisjoint' /\ EdgeDisjoint'
    BY <1>1, <2>1, ShrinkKeeps DEF rowVars, Live
  <2>3. LinksNeedGroup'
    BY <2>1 DEF IInv, LinksNeedGroup
  <2> QED
    BY <1>2, <2>2, <2>3
<1>4. CASE CreateWorkspace(w)
  <2>1. \A p \in Project : <<w, p>> \notin member
    BY <1>4 DEF CreateWorkspace, IInv, LinksNeedGroup
  <2>2. /\ member' = member
        /\ group'[w] = "open"
        /\ \A u \in Workspace : u # w => group'[u] = group[u]
    BY <1>4 DEF CreateWorkspace, IInv, TypeOK
  <2>3. EdgeDisjoint'
    BY <1>1, <2>1, <2>2 DEF IInv, EdgeDisjoint, Live, Disjoint, Groups, rowVars
  <2>4. LinksNeedGroup'
    BY <2>2 DEF IInv, LinksNeedGroup
  <2> QED
    BY <1>2, <2>3, <2>4
<1>5. CASE \E p \in Project : LinkProject(w, p)
  <2>1. PICK q \in Project : LinkProject(w, q)
    BY <1>5
  <2>2. /\ member' = member \cup {<<w, q>>}
        /\ group' = group
        /\ group[w] = "open"
        /\ IncomingClear(w, q)
    BY <2>1 DEF LinkProject, MayLink
  <2>3. LinksNeedGroup'
    BY <2>2 DEF IInv, LinksNeedGroup
  <2>4. EdgeDisjoint'
    <3> SUFFICES ASSUME NEW p \in Project, NEW a \in Row, NEW b \in Row,
                        Live(a), container[a] = p,
                        Live(b), container[b] \in Workspace,
                        <<container[b], p>> \in member',
                        group[container[b]] = "open", p \in scope[b]
                 PROVE  environments[a] \cap environments[b] = {}
      BY <1>1, <2>2 DEF EdgeDisjoint, Live, Disjoint, Groups, rowVars
    <3>1. CASE <<container[b], p>> \in member
      BY <3>1 DEF IInv, EdgeDisjoint, Disjoint, Groups
    <3>2. CASE container[b] = w /\ p = q
      <4>1. ConflictFree(p, environments[b], Project, {})
        BY <2>2, <3>2 DEF IncomingClear, LiveIn
      <4> QED
        BY <4>1 DEF ConflictFree, OwnClear, LiveIn
    <3> QED
      BY <2>2, <3>1, <3>2
  <2> QED
    BY <1>2, <2>3, <2>4
<1> QED
  BY <1>3, <1>4, <1>5 DEF WorkspaceStep

LEMMA LinkKeepsOneGroup ==
  ASSUME MaxGroups = 1, IInv, OneGroup, NEW w \in Workspace, WorkspaceStep(w)
  PROVE  OneGroup'
<1>1. CASE ~ \E p \in Project : LinkProject(w, p)
  <2>1. member' \subseteq member
    BY <1>1 DEF WorkspaceStep, CreateWorkspace, DeleteWorkspace, DropLinks, RemoveProject
  <2> QED
    BY <2>1 DEF OneGroup
<1>2. CASE \E p \in Project : LinkProject(w, p)
  <2>1. PICK q \in Project : LinkProject(w, q)
    BY <1>2
  <2>2. Cardinality(Groups(q)) < 1
    BY <2>1 DEF LinkProject, MayLink
  <2>3. IsFiniteSet(Groups(q))
    BY SharedAssumption, FS_Subset DEF Groups
  <2>4. Cardinality(Groups(q)) \in Nat
    BY <2>3, FS_CardinalityType
  <2>5. Cardinality(Groups(q)) = 0
    BY <2>2, <2>4
  <2>6. Groups(q) = {}
    BY <2>3, <2>5, FS_EmptySet
  <2>7. member' = member \cup {<<w, q>>}
    BY <2>1 DEF LinkProject
  <2> QED
    BY <2>6, <2>7 DEF OneGroup, Groups
<1> QED
  BY <1>1, <1>2

\* No step of a sharing is ever taken.
LEMMA NoShareSteps ==
  ASSUME Paths = {}, IInv
  PROVE  /\ ~ \E x \in Sharer : ShareStep(x)
         /\ ~ \E x \in Sharer, r \in Row, P \in SUBSET Project, w \in Workspace :
               FindShare(x, r, P, w)
BY DEF IInv, NoSharing, ShareStep, LinkShare, Adopt, Unlink, Abandon, FindShare

LEMMA NextKeeps ==
  ASSUME Paths = {}, IInv, [Next]_vars
  PROVE  IInv'
<1>1. TypeOK'
  BY NextTypeOK DEF IInv
<1>2. CASE \E r \in Row : RowStep(r)
  BY <1>1, <1>2, RowStepKeeps DEF IInv
<1>3. CASE \E w \in Workspace : WorkspaceStep(w)
  BY <1>1, <1>3, WorkspaceStepKeeps DEF IInv
<1>4. CASE UNCHANGED vars
  BY <1>1, <1>4 DEF IInv, NoSharing, LinksNeedGroup, OwnDisjoint, EdgeDisjoint,
                    Live, Disjoint, Groups, vars, rowVars
<1> QED
  BY <1>2, <1>3, <1>4, NoShareSteps DEF Next

LEMMA NextKeepsOneGroup ==
  ASSUME Paths = {}, MaxGroups = 1, IInv, OneGroup, [Next]_vars
  PROVE  OneGroup'
<1>1. CASE \E r \in Row : RowStep(r)
  BY <1>1, RowStepKeeps DEF OneGroup
<1>2. CASE \E w \in Workspace : WorkspaceStep(w)
  BY <1>2, LinkKeepsOneGroup
<1>3. CASE UNCHANGED vars
  BY <1>3 DEF OneGroup, vars
<1> QED
  BY <1>1, <1>2, <1>3, NoShareSteps DEF Next

\* With the paths that check for conflicts, two rows clash in a project only
\* when they come from two different workspaces.
THEOREM ClashesOnlyAcross ==
  ASSUME Paths = {}
  PROVE  Spec => []OnlyAcrossWorkspaces
<1>1. IInv /\ [Next]_vars => IInv'
  BY NextKeeps
<1> QED
  BY <1>1, InitIInv, InvImplies, PTL DEF Spec

\* When a project may join one workspace only, the checks leave no pair of
\* key and environment with two answers.
THEOREM UniqueWithOneGroup ==
  ASSUME Paths = {}, MaxGroups = 1
  PROVE  Spec => []AtMostOnePerEnvironment
<1>1. IInv /\ OneGroup /\ [Next]_vars => (IInv /\ OneGroup)'
  BY NextKeeps, NextKeepsOneGroup
<1> QED
  BY <1>1, InitIInv, InvWithOneGroup, PTL DEF Spec

(***************************************************************************)
(* Adoptions                                                               *)
(***************************************************************************)

\* The survivor of a share is not one of its copies, and the scope it is to
\* get includes the selected projects, whatever else runs.
ShareShape ==
  \A x \in Sharer : sharing[x].phase # "idle" =>
    /\ sharing[x].survivor \notin sharing[x].duplicates
    /\ sharing[x].selected \subseteq sharing[x].scope

\* A copy is a live row of a picked project.
LEMMA CopiesSound ==
  ASSUME NEW r \in Row, NEW P \in SUBSET Project, NEW D \in Copies(r, P), NEW d \in D
  PROVE  d \in Row /\ Live(d) /\ container[d] \in P /\ Same(r, d)
<1>1. PICK p \in P : d \in LiveIn(p)
  BY DEF Copies
<1>2. LiveIn(p) # {}
  BY <1>1
<1>3. PICK e \in LiveIn(p) : D \cap LiveIn(p) = {e} /\ Same(r, e)
  BY <1>2 DEF Copies
<1>4. d = e
  BY <1>1, <1>3
<1> QED
  BY <1>1, <1>3, <1>4 DEF LiveIn

LEMMA NextShareShape ==
  ASSUME TypeOK, ShareShape, [Next]_vars
  PROVE  ShareShape'
<1>1. CASE \/ \E r \in Row : RowStep(r)
           \/ \E w \in Workspace : WorkspaceStep(w)
           \/ UNCHANGED vars
  <2>1. UNCHANGED sharing
    BY <1>1 DEF RowStep, Create, Update, Detach, Remove, Restore, Rollback, DestroyRow, SetScope,
      WorkspaceStep, CreateWorkspace, DeleteWorkspace, DropLinks, LinkProject, RemoveProject, vars
  <2> QED
    BY <2>1 DEF ShareShape
<1>2. ASSUME NEW x \in Sharer, NEW r \in Row, NEW P \in SUBSET Project,
             NEW w \in Workspace, FindShare(x, r, P, w)
      PROVE  ShareShape'
  <2> DEFINE S == IF Members(w) \subseteq P \cup {container[r]}
                  THEN Project ELSE P \cup {container[r]}
  <2>1. container[r] \notin P /\ P \cup {container[r]} \subseteq S
    BY <1>2 DEF FindShare
  <2>2. PICK D \in Copies(r, P) :
          sharing' = [sharing EXCEPT ![x] =
            [phase |-> "found", survivor |-> r, selected |-> P \cup {container[r]},
             duplicates |-> D, group |-> w, fresh |-> group[w] = "unused",
             made |-> {}, scope |-> S]]
    BY <1>2 DEF FindShare
  <2> HIDE DEF S
  <2>3. r \notin D
    BY <2>1, CopiesSound
  <2>4. /\ sharing'[x].survivor = r /\ sharing'[x].duplicates = D /\ sharing'[x].scope = S
        /\ sharing'[x].selected = P \cup {container[r]}
        /\ \A y \in Sharer \ {x} : sharing'[y] = sharing[y]
    BY <2>2 DEF TypeOK
  <2> QED
    BY <2>1, <2>3, <2>4 DEF ShareShape
<1>3. ASSUME NEW x \in Sharer, LinkShare(x) PROVE ShareShape'
  <2>1. PICK m : sharing' = [sharing EXCEPT ![x] = [@ EXCEPT !.phase = "linked", !.made = m]]
    BY <1>3 DEF LinkShare, TypeOK, ShareState
  <2>2. /\ sharing'[x].survivor = sharing[x].survivor
        /\ sharing'[x].selected = sharing[x].selected
        /\ sharing'[x].duplicates = sharing[x].duplicates
        /\ sharing'[x].scope = sharing[x].scope
        /\ \A y \in Sharer \ {x} : sharing'[y] = sharing[y]
    BY <2>1 DEF TypeOK, ShareState
  <2>3. sharing[x].phase # "idle"
    BY <1>3 DEF LinkShare
  <2> QED
    BY <2>2, <2>3 DEF ShareShape
<1>4. ASSUME NEW x \in Sharer, Adopt(x) \/ Unlink(x) \/ Abandon(x)
      PROVE  ShareShape'
  <2>1. sharing' = [sharing EXCEPT ![x] = IdleShare]
    BY <1>4 DEF Adopt, Unlink, Abandon
  <2>2. sharing'[x].phase = "idle" /\ \A y \in Sharer \ {x} : sharing'[y] = sharing[y]
    BY <2>1 DEF TypeOK, IdleShare
  <2> QED
    BY <2>2 DEF ShareShape
<1> QED
  BY <1>1, <1>2, <1>3, <1>4 DEF Next, ShareStep

LEMMA ShapeInvariant == Spec => [](TypeOK /\ ShareShape)
<1>1. Init => ShareShape
  BY DEF Init, ShareShape, IdleShare
<1>2. TypeOK /\ ShareShape /\ [Next]_vars => (TypeOK /\ ShareShape)'
  BY NextTypeOK, NextShareShape
<1> QED
  BY <1>1, <1>2, InitTypeOK, PTL DEF Spec

\* What a sharing read is still so while nothing else runs: the survivor and
\* its copies are live rows of the selected projects, the same one and all; a
\* selected project with a row of its own has one of these; the scope it is to
\* get holds no member but the selected projects, all of them once it has linked.
SharesSound ==
  \A x \in Sharer : sharing[x].phase # "idle" =>
    /\ Live(sharing[x].survivor)
    /\ container[sharing[x].survivor] \in sharing[x].selected
    /\ \A d \in sharing[x].duplicates :
         /\ Live(d)
         /\ container[d] \in sharing[x].selected
         /\ Same(sharing[x].survivor, d)
    /\ \A p \in sharing[x].selected : LiveIn(p) # {} =>
         \E d \in sharing[x].duplicates \cup {sharing[x].survivor} : container[d] = p
    /\ Members(sharing[x].group) \cap sharing[x].scope \subseteq sharing[x].selected
    /\ sharing[x].phase = "linked" =>
         \A p \in sharing[x].selected : <<sharing[x].group, p>> \in member

OneSharing ==
  \A x, y \in Sharer : sharing[x].phase # "idle" /\ sharing[y].phase # "idle" => x = y

LEMMA NextSharesSound ==
  ASSUME Serial = TRUE, TypeOK, SharesSound, OneSharing, [Next]_vars
  PROVE  SharesSound' /\ OneSharing'
<1>1. CASE Quiet /\ (\/ \E r \in Row : RowStep(r)
                     \/ \E w \in Workspace : WorkspaceStep(w))
  <2>1. UNCHANGED sharing
    BY <1>1 DEF RowStep, Create, Update, Detach, Remove, Restore, Rollback, DestroyRow, SetScope,
      WorkspaceStep, CreateWorkspace, DeleteWorkspace, DropLinks, LinkProject, RemoveProject
  <2>2. \A x \in Sharer : sharing[x].phase = "idle"
    BY <1>1 DEF Quiet
  <2> QED
    BY <2>1, <2>2 DEF SharesSound, OneSharing
<1>2. ASSUME Quiet, NEW x \in Sharer, NEW r \in Row, NEW P \in SUBSET Project,
             NEW w \in Workspace, FindShare(x, r, P, w)
      PROVE  SharesSound' /\ OneSharing'
  <2> DEFINE S == IF Members(w) \subseteq P \cup {container[r]}
                  THEN Project ELSE P \cup {container[r]}
  <2>0. /\ Live(r) /\ container[r] \notin P /\ container[r] \in Project
        /\ UNCHANGED <<rowVars, group, member>>
    BY <1>2 DEF FindShare
  <2>7. PICK D \in Copies(r, P) :
          sharing' = [sharing EXCEPT ![x] =
            [phase |-> "found", survivor |-> r, selected |-> P \cup {container[r]},
             duplicates |-> D, group |-> w, fresh |-> group[w] = "unused",
             made |-> {}, scope |-> S]]
    BY <1>2 DEF FindShare
  <2>1. Members(w) \cap S \subseteq P \cup {container[r]}
    OBVIOUS
  <2> HIDE DEF S
  <2>2. /\ sharing'[x].phase = "found" /\ sharing'[x].survivor = r
        /\ sharing'[x].selected = P \cup {container[r]} /\ sharing'[x].group = w
        /\ sharing'[x].duplicates = D /\ sharing'[x].scope = S
        /\ \A y \in Sharer \ {x} : sharing'[y] = sharing[y]
    BY <2>7 DEF TypeOK
  <2>3. \A y \in Sharer : sharing[y].phase = "idle"
    BY <1>2 DEF Quiet
  <2>5. \A d \in D : Live(d) /\ container[d] \in P /\ Same(r, d)
    BY <2>0, CopiesSound
  <2>4. \A p \in P \cup {container[r]} : LiveIn(p) # {} => \E d \in D \cup {r} : container[d] = p
    BY DEF Copies, LiveIn
  <2>8. /\ \A d \in D \cup {r} : status'[d] = status[d] /\ container'[d] = container[d]
                 /\ environments'[d] = environments[d] /\ value'[d] = value[d]
        /\ \A p \in P \cup {container[r]} : LiveIn(p)' = LiveIn(p)
        /\ Members(w)' = Members(w)
    BY <2>0 DEF LiveIn, Live, Members, rowVars
  <2>6. SharesSound'
    <3>1. SUFFICES /\ status'[r] = "live" /\ container'[r] \in P \cup {container[r]}
                   /\ \A d \in D : /\ status'[d] = "live"
                                    /\ container'[d] \in P \cup {container[r]}
                                    /\ environments'[d] = environments'[r]
                                    /\ value'[d] = value'[r]
                   /\ \A p \in P \cup {container[r]} : LiveIn(p)' # {} =>
                        \E d \in D \cup {r} : container'[d] = p
                   /\ Members(w)' \cap S \subseteq P \cup {container[r]}
      BY <2>2, <2>3 DEF SharesSound, Live, Same
    <3> QED
      BY <2>0, <2>1, <2>4, <2>5, <2>8 DEF Live, Same
  <2> QED
    BY <2>2, <2>3, <2>6 DEF OneSharing
<1>3. ASSUME NEW x \in Sharer, LinkShare(x) PROVE SharesSound' /\ OneSharing'
  <2> DEFINE s == sharing[x]
             missing == {p \in s.selected : <<s.group, p>> \notin member}
  <2>1. /\ s.phase = "found" /\ s \in ShareState
        /\ member' = member \cup ({s.group} \X missing)
        /\ sharing' = [sharing EXCEPT ![x] = [s EXCEPT !.phase = "linked", !.made = missing]]
        /\ UNCHANGED rowVars
    BY <1>3 DEF LinkShare, TypeOK, ShareState
  <2>2. /\ sharing'[x].phase = "linked" /\ sharing'[x].survivor = s.survivor
        /\ sharing'[x].selected = s.selected /\ sharing'[x].duplicates = s.duplicates
        /\ sharing'[x].scope = s.scope /\ sharing'[x].group = s.group
        /\ \A y \in Sharer \ {x} : sharing'[y] = sharing[y]
    BY <2>1 DEF TypeOK, ShareState
  <2>3. \A p \in s.selected : <<s.group, p>> \in member'
    BY <2>1
  <2>4. \A y \in Sharer \ {x} : sharing[y].phase = "idle"
    BY <2>1 DEF OneSharing
  <2> HIDE DEF s, missing
  <2>5. /\ status'[s.survivor] = "live"
        /\ container'[s.survivor] \in s.selected
        /\ \A d \in s.duplicates :
             /\ status'[d] = "live" /\ container'[d] \in s.selected
             /\ environments'[d] = environments'[s.survivor]
             /\ value'[d] = value'[s.survivor]
    BY <2>1 DEF s, SharesSound, Live, Same, rowVars
  <2>7. \A p \in s.selected : LiveIn(p)' # {} =>
          \E d \in s.duplicates \cup {s.survivor} : container'[d] = p
    BY <2>1 DEF s, SharesSound, LiveIn, Live, rowVars
  <2>8. {p \in Project : <<s.group, p>> \in member'} \cap s.scope \subseteq s.selected
    BY <2>1 DEF s, missing, SharesSound, Members
  <2>6. SharesSound'
    BY <2>2, <2>3, <2>4, <2>5, <2>7, <2>8 DEF SharesSound, Live, Same, Members
  <2> QED
    BY <2>2, <2>4, <2>6 DEF OneSharing
<1>4. ASSUME NEW x \in Sharer, Adopt(x) \/ Unlink(x) \/ Abandon(x)
      PROVE  SharesSound' /\ OneSharing'
  <2>1. sharing[x].phase # "idle" /\ sharing' = [sharing EXCEPT ![x] = IdleShare]
    BY <1>4 DEF Adopt, Unlink, Abandon
  <2>2. \A y \in Sharer : sharing'[y].phase = "idle"
    BY <2>1 DEF OneSharing, TypeOK, IdleShare
  <2> QED
    BY <2>2 DEF SharesSound, OneSharing
<1>5. CASE UNCHANGED vars
  BY <1>5 DEF vars, rowVars, SharesSound, OneSharing, Live, Same, LiveIn, Members
<1> QED
  BY <1>1, <1>2, <1>3, <1>4, <1>5 DEF Next, ShareStep

LEMMA SharingInvariant ==
  ASSUME Serial = TRUE
  PROVE  Spec => [](TypeOK /\ SharesSound /\ OneSharing)
<1>1. Init => SharesSound /\ OneSharing
  BY DEF Init, SharesSound, OneSharing, IdleShare
<1>2. TypeOK /\ SharesSound /\ OneSharing /\ [Next]_vars
        => (TypeOK /\ SharesSound /\ OneSharing)'
  BY NextTypeOK, NextSharesSound
<1> QED
  BY <1>1, <1>2, InitTypeOK, PTL DEF Spec

\* Only an adoption moves a live row.
LEMMA WhoMoves ==
  ASSUME TypeOK, [Next]_vars, NEW r \in Row, Live(r), container'[r] # container[r]
  PROVE  \E x \in Sharer : Adopt(x) /\ r = sharing[x].survivor
<1>1. CASE \E q \in Row : RowStep(q)
  BY <1>1 DEF RowStep, Create, Update, Detach, Remove, Restore, Rollback, DestroyRow, SetScope,
    Live, TypeOK
<1>2. CASE \/ \E w \in Workspace : WorkspaceStep(w)
           \/ \E x \in Sharer : LinkShare(x) \/ Unlink(x) \/ Abandon(x)
           \/ \E x \in Sharer, q \in Row, P \in SUBSET Project, w \in Workspace :
                FindShare(x, q, P, w)
           \/ UNCHANGED vars
  BY <1>2 DEF WorkspaceStep, CreateWorkspace, DeleteWorkspace, DropLinks, LinkProject,
    RemoveProject, LinkShare, Unlink, Abandon, FindShare, vars, rowVars
<1>3. CASE \E x \in Sharer : Adopt(x)
  BY <1>3 DEF Adopt, TypeOK
<1> QED
  BY <1>1, <1>2, <1>3 DEF Next, ShareStep

\* An adoption leaves every row but its copies and the survivor as it is.
LEMMA AdoptEffect ==
  ASSUME TypeOK, ShareShape, NEW x \in Sharer, Adopt(x)
  PROVE  /\ sharing[x].survivor \in Row /\ sharing[x].group \in Workspace
         /\ status'[sharing[x].survivor] = "live"
         /\ container'[sharing[x].survivor] = sharing[x].group
         /\ scope'[sharing[x].survivor] = sharing[x].scope
         /\ \A r \in Row : r # sharing[x].survivor =>
              container'[r] = container[r] /\ scope'[r] = scope[r]
         /\ \A r \in Row : status'[r] = "live" <=> Live(r) /\ r \notin sharing[x].duplicates
         /\ \A r \in Row : Live(r) /\ status'[r] = "trashed" => r \in sharing[x].duplicates
         /\ UNCHANGED <<environments, value, group, member>>
<1>1. /\ sharing[x].phase = "linked" /\ sharing[x].survivor \in Row /\ sharing[x].group \in Workspace
      /\ Live(sharing[x].survivor)
  BY DEF Adopt, TypeOK
<1>2. sharing[x].survivor \notin sharing[x].duplicates
  BY <1>1 DEF ShareShape
<1>3. \A r \in Row : status'[r] = IF r \in sharing[x].duplicates /\ Live(r)
                                  THEN "trashed" ELSE status[r]
  BY DEF Adopt
<1>4. /\ container'[sharing[x].survivor] = sharing[x].group
      /\ scope'[sharing[x].survivor] = sharing[x].scope
      /\ \A r \in Row : r # sharing[x].survivor =>
           container'[r] = container[r] /\ scope'[r] = scope[r]
      /\ UNCHANGED <<environments, value, group, member>>
  BY <1>1 DEF Adopt, TypeOK
<1> QED
  BY <1>1, <1>2, <1>3, <1>4 DEF Live

\* An adoption keeps what a project pulls when the verdict about it stands.
LEMMA AdoptionKeeps ==
  ASSUME TypeOK, ShareShape, NEW x \in Sharer, Adopt(x), NEW p \in Project, NEW e \in Env,
         Pulls(p, e), Standing(x, p, e)
  PROVE  KeepsOwn(p, e)
<1>1. PICK k \in Row, w \in Workspace, S \in SUBSET Project, T \in SUBSET Project,
              D \in SUBSET Row :
        /\ k = sharing[x].survivor /\ w = sharing[x].group
        /\ S = sharing[x].selected /\ T = sharing[x].scope /\ D = sharing[x].duplicates
  <2>1. sharing[x] \in ShareState
    BY DEF TypeOK
  <2>2. /\ sharing[x].selected \in SUBSET Project /\ sharing[x].scope \in SUBSET Project
        /\ sharing[x].duplicates \in SUBSET Row
    BY <2>1 DEF ShareState
  <2>3. sharing[x].survivor \in Row /\ sharing[x].group \in Workspace
    BY AdoptEffect
  <2> QED
    BY <2>2, <2>3
<1>2. /\ status'[k] = "live" /\ container'[k] = w /\ scope'[k] = T
      /\ \A r \in Row : r # k => container'[r] = container[r] /\ scope'[r] = scope[r]
      /\ \A r \in Row \ {k} : status'[r] = "live" <=> Live(r) /\ r \notin D
      /\ UNCHANGED <<environments, value, group, member>>
  BY <1>1, AdoptEffect
<1>3. /\ sharing[x].phase = "linked" /\ group[w] = "open" /\ Live(k)
      /\ k \notin D /\ S \subseteq T
  BY <1>1 DEF Adopt, ShareShape
<1>4. /\ \A r \in D \cup {k} : Live(r) => container[r] \in S
      /\ p \in S => /\ <<w, p>> \in member
                    /\ \A r \in (LiveIn(p) \cap Answers(p, e)) \ {k} :
                         \/ r \in D /\ Same(k, r)
                         \/ r \notin D /\ e \notin environments[k]
      /\ p \notin S => p \notin Members(w) \cap T
  BY <1>1 DEF Standing
<1>5. Answers(p, e) # {} /\ \A r, q \in Answers(p, e) : r = q
  BY DEF Pulls, Refused
<1>6. \A r \in Row : r \in Answers(p, e) <=> Live(r) /\ Reaches(r, p) /\ e \in environments[r]
  BY DEF Answers, Reaching
<1>7. \A r \in Row \ {k} : r \in Answers(p, e)' <=> r \in Answers(p, e) /\ r \notin D
  BY <1>2, <1>6 DEF Answers, Reaching, Live, Reaches, Groups
<1>8. \A r \in D \cup {k} : r \in Answers(p, e) => container[r] = p /\ p \in S /\ r \in LiveIn(p)
  BY <1>4, <1>6, SharedAssumption DEF Reaches, Groups, LiveIn
<1>9. k \in Answers(p, e)' <=> p \in S /\ e \in environments[k]
  <2>1. k \in Answers(p, e)' <=> Reaches(k, p)' /\ e \in environments[k]
    BY <1>2 DEF Answers, Reaching, Live
  <2>2. Reaches(k, p)' <=> <<w, p>> \in member /\ p \in T
    BY <1>2, <1>3, SharedAssumption DEF Reaches, Groups
  <2> QED
    BY <2>1, <2>2, <1>3, <1>4 DEF Members
<1>10. Answers(p, e) \subseteq Row /\ Answers(p, e)' \subseteq Row
  BY DEF Answers, Reaching
<1>11. CASE p \notin S \/ e \notin environments[k]
  <2>1. \A r \in D \cup {k} : r \notin Answers(p, e)
    BY <1>4, <1>6, <1>8, <1>11, <1>3 DEF Same
  <2>2. Answers(p, e)' = Answers(p, e)
    BY <2>1, <1>7, <1>9, <1>10, <1>11
  <2> QED
    BY <2>2, <1>2, <1>5 DEF KeepsOwn, Keeps, Refused, Pulled
<1>12. CASE p \in S /\ e \in environments[k] /\ Answers(p, e) \subseteq D \cup {k}
  <2>1. Answers(p, e)' = {k}
    BY <1>7, <1>9, <1>10, <1>12
  <2>2. \A r \in Answers(p, e) : value[r] = value[k]
    BY <1>4, <1>8, <1>12 DEF Same
  <2>3. Pulled(p, e) = {value[k]}
    BY <2>2, <1>5 DEF Pulled
  <2>4. Pulled(p, e)' = {value[k]}
    BY <2>1, <1>2 DEF Pulled
  <2> QED
    BY <2>1, <2>3, <2>4 DEF KeepsOwn, Keeps, Refused
<1>13. ASSUME p \in S, e \in environments[k], NEW r \in Answers(p, e), r \notin D \cup {k}
       PROVE  KeepsOwn(p, e)
  <2>1. r \in Row /\ r \in Answers(p, e)' /\ k \in Answers(p, e)' /\ r # k
    BY <1>7, <1>9, <1>10, <1>13
  <2>2. r \notin LiveIn(p)
    BY <1>4, <1>13
  <2>3. Answers(p, e) \cap LiveIn(p) = {}
    BY <2>2, <1>5
  <2> QED
    BY <2>1, <2>3 DEF KeepsOwn, Refused
<1> QED
  BY <1>11, <1>12, <1>13

\* Whatever ran in between, an adoption takes nothing that a project pulls from
\* a row of its own while the verdict about that project still holds, and what
\* a project inherits it can only turn into a refused pull.
THEOREM AdoptionKeepsPulls == Spec => StandingVerdictKeepsPulls
<1>1. TypeOK /\ ShareShape /\ [Next]_vars =>
        [\A x \in Sharer : Adopt(x) =>
           \A p \in Project, e \in Env :
             (Pulls(p, e) /\ Standing(x, p, e)) => KeepsOwn(p, e)]_vars
  BY AdoptionKeeps
<1> QED
  BY <1>1, ShapeInvariant, PTL DEF Spec, StandingVerdictKeepsPulls

\* When nothing else runs during a share, every verdict still holds.
LEMMA QuietVerdictStands ==
  ASSUME TypeOK, SharesSound, NEW x \in Sharer, Adopt(x), NEW p \in Project, NEW e \in Env,
         Pulls(p, e)
  PROVE  Standing(x, p, e)
<1> DEFINE s == sharing[x]
<1>1. /\ s.phase = "linked" /\ s.survivor \in Row /\ s.duplicates \subseteq Row
  BY DEF Adopt, TypeOK, ShareState
<1>2. /\ Live(s.survivor) /\ container[s.survivor] \in s.selected
      /\ \A d \in s.duplicates :
           Live(d) /\ container[d] \in s.selected /\ Same(s.survivor, d)
      /\ \A u \in s.selected : LiveIn(u) # {} =>
           \E d \in s.duplicates \cup {s.survivor} : container[d] = u
      /\ Members(s.group) \cap s.scope \subseteq s.selected
      /\ \A u \in s.selected : <<s.group, u>> \in member
  BY <1>1 DEF SharesSound
<1> HIDE DEF s
<1>3. ASSUME p \in s.selected, NEW r \in (LiveIn(p) \cap Answers(p, e)) \ {s.survivor}
      PROVE  \/ r \in s.duplicates /\ Same(s.survivor, r)
             \/ r \notin s.duplicates /\ e \notin environments[s.survivor]
  <2>1. PICK d \in s.duplicates \cup {s.survivor} : container[d] = p
    BY <1>2, <1>3
  <2>2. d \in Row /\ Live(d) /\ environments[d] = environments[s.survivor]
    BY <1>1, <1>2 DEF Same
  <2>3. e \in environments[s.survivor] => d \in Answers(p, e)
    BY <2>1, <2>2 DEF Answers, Reaching, Reaches
  <2>4. d \in Answers(p, e) => d = r
    BY <1>3 DEF Pulls, Refused
  <2> QED
    BY <1>2, <1>3, <2>1, <2>3, <2>4
<1> QED
  BY <1>2, <1>3 DEF Standing, s

\* A share that nothing runs beside takes from no project anything it pulls
\* from a row of its own, for any number of projects, workspaces and copies.
THEOREM QuietShareIsSafe ==
  ASSUME Serial = TRUE
  PROVE  Spec => QuietShareKeepsPulls
<1>1. TypeOK /\ ShareShape /\ SharesSound /\ [Next]_vars =>
        [\A x \in Sharer : Adopt(x) =>
           \A p \in Project, e \in Env : Pulls(p, e) => KeepsOwn(p, e)]_vars
  BY AdoptionKeeps, QuietVerdictStands
<1> QED
  BY <1>1, ShapeInvariant, SharingInvariant, PTL DEF Spec, QuietShareKeepsPulls

\* Nor does such a share trash anything but a copy of what survives.
THEOREM AdoptionSparesOthers ==
  ASSUME Serial = TRUE
  PROVE  Spec => AdoptionTrashesCopies
<1>1. ASSUME TypeOK, ShareShape, SharesSound, [Next]_vars, NEW r \in Row, NEW d \in Row,
             Live(r), container'[r] # container[r], Live(d), status'[d] = "trashed"
      PROVE  Same(r, d)
  <2>1. PICK x \in Sharer : Adopt(x) /\ r = sharing[x].survivor
    BY <1>1, WhoMoves
  <2>2. d \in sharing[x].duplicates
    BY <1>1, <2>1, AdoptEffect
  <2>3. sharing[x].phase # "idle"
    BY <2>1 DEF Adopt
  <2> QED
    BY <1>1, <2>1, <2>2, <2>3 DEF SharesSound
<1>2. TypeOK /\ ShareShape /\ SharesSound /\ [Next]_vars =>
        [\A r, d \in Row :
           (Live(r) /\ container'[r] # container[r] /\ Live(d) /\ status'[d] = "trashed")
             => Same(r, d)]_vars
  BY <1>1
<1> QED
  BY <1>2, ShapeInvariant, SharingInvariant, PTL DEF Spec, AdoptionTrashesCopies
=============================================================================
