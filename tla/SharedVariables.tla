--------------------------- MODULE SharedVariables ---------------------------
(***************************************************************************)
(* One key of an organization, in the projects that own variables of that  *)
(* name and in the workspaces (shared-variable groups) that hand theirs to *)
(* their member projects: convex/features/variables/{helpers,mutations}.ts *)
(* and convex/features/workspaces.  A key may live in many rows; what must *)
(* hold is that a project pulling one environment finds at most one.  Each *)
(* Convex mutation is one transaction, hence one action.  Sharing a row is *)
(* an action in the code (a query, a mutation that links, a mutation that  *)
(* adopts, the last possibly days later as an approved request), so it is  *)
(* three steps here and everything else may run between them.              *)
(***************************************************************************)
EXTENDS Naturals, FiniteSets

CONSTANTS Project, Workspace, Row, Env, Value,
          Sharer,     \* sharings that may be in flight
          Nowhere,    \* container of an unused row, group of an idle sharing
          NoRow,      \* survivor of an idle sharing
          MaxGroups,  \* the tier's max_workspaces_per_project
          MaxRecords, \* bound: distinct version records of a row
          Paths,      \* which writers without a conflict check are enabled
          Serial      \* TRUE: nothing else runs while a sharing is in flight

Path == {"rollback", "share"}

ASSUME SharedAssumption ==
  /\ IsFiniteSet(Workspace)
  /\ Project \cap Workspace = {}
  /\ Nowhere \notin Project \cup Workspace
  /\ NoRow \notin Row
  /\ MaxGroups \in Nat
  /\ MaxRecords \in Nat \ {0}
  /\ Paths \subseteq Path
  /\ Serial \in BOOLEAN

VARIABLES
  status,       \* of each row: "none", "live", "trashed", "gone"
  container,    \* the project or workspace that owns the row
  environments, \* the row's environments
  scope,        \* appliesTo; every project when the field is absent
  value,        \* the secret behind the row
  recorded,     \* what the row's version records hold
  group,        \* of each workspace: "unused", "open", "gone"
  member,       \* workspaceProjects, as <<workspace, project>> pairs
  sharing       \* what each sharing has read and done so far

rowVars == <<status, container, environments, scope, value, recorded>>
vars == <<rowVars, group, member, sharing>>

Container == Project \cup Workspace
Environments == SUBSET Env \ {{}}

ShareState == [phase : {"idle", "found", "linked"},
               survivor : Row \cup {NoRow},
               selected : SUBSET Project,
               duplicates : SUBSET Row,
               group : Workspace \cup {Nowhere},
               fresh : BOOLEAN,
               made : SUBSET Project,
               scope : SUBSET Project]

IdleShare == [phase |-> "idle", survivor |-> NoRow, selected |-> {},
              duplicates |-> {}, group |-> Nowhere, fresh |-> FALSE,
              made |-> {}, scope |-> {}]

\* Rows of any state keep their environments non-empty once written: a row
\* with none would be invisible to every pull.
TypeOK ==
  /\ status \in [Row -> {"none", "live", "trashed", "gone"}]
  /\ container \in [Row -> Container \cup {Nowhere}]
  /\ environments \in [Row -> SUBSET Env]
  /\ scope \in [Row -> SUBSET Project]
  /\ value \in [Row -> Value]
  /\ recorded \in [Row -> SUBSET (Environments \X Value)]
  /\ group \in [Workspace -> {"unused", "open", "gone"}]
  /\ member \in SUBSET (Workspace \X Project)
  /\ sharing \in [Sharer -> ShareState]
  /\ \A r \in Row : status[r] # "none" =>
       /\ container[r] \in Container
       /\ environments[r] \in Environments
  /\ \A x \in Sharer : sharing[x].phase # "idle" =>
       /\ sharing[x].survivor \in Row
       /\ sharing[x].group \in Workspace

Init ==
  /\ status = [r \in Row |-> "none"]
  /\ container = [r \in Row |-> Nowhere]
  /\ environments = [r \in Row |-> {}]
  /\ scope = [r \in Row |-> {}]
  /\ value \in {[r \in Row |-> v] : v \in Value}
  /\ recorded = [r \in Row |-> {}]
  /\ group = [w \in Workspace |-> "unused"]
  /\ member = {}
  /\ sharing = [x \in Sharer |-> IdleShare]

-----------------------------------------------------------------------------
(* What a project sees                                                     *)

Live(r) == status[r] = "live"
LiveIn(c) == {r \in Row : Live(r) /\ container[r] = c}
Members(w) == {p \in Project : <<w, p>> \in member}
Groups(p) == {w \in Workspace : <<w, p>> \in member}

\* resolveWithin: the project's own rows, and those of its open workspaces
\* whose scope includes it.
Reaches(r, p) ==
  \/ container[r] = p
  \/ /\ container[r] \in Groups(p)
     /\ group[container[r]] = "open"
     /\ p \in scope[r]

Reaching(p) == {r \in Row : Live(r) /\ Reaches(r, p)}

\* The rows that answer the key when a project pulls one environment.
Answers(p, e) == {r \in Reaching(p) : e \in environments[r]}

\* assertNoDuplicatePairs: a pull with two answers throws.
Refused(p, e) == \E r, s \in Answers(p, e) : r # s

\* What a pull that is not refused returns for the key.
Pulled(p, e) == {value[r] : r \in Answers(p, e)}

-----------------------------------------------------------------------------
(* findEnvironmentConflicts, for the rows outside x                        *)

OwnClear(c, E, x) == \A r \in LiveIn(c) \ x : environments[r] \cap E = {}

\* Only the members' own rows are looked at, not what they inherit.
MembersClear(w, E, S, x) ==
  \A p \in Members(w) \cap S : OwnClear(p, E, x)

GroupsClear(p, E, x) ==
  \A r \in Row \ x :
    (Live(r) /\ container[r] # p /\ Reaches(r, p)) => environments[r] \cap E = {}

ConflictFree(c, E, S, x) ==
  /\ E # {}
  /\ OwnClear(c, E, x)
  /\ c \in Workspace => MembersClear(c, E, S, x)
  /\ c \in Project => GroupsClear(c, E, x)

RestoreFree(r) == ConflictFree(container[r], environments[r], scope[r], {})

\* assertNoIncomingCollisions, if it looked only at rows shared with everyone.
IncomingEverywhereClear(w, p) ==
  \A r \in LiveIn(w) : scope[r] = Project =>
    ConflictFree(p, environments[r], Project, {})

IncomingClear(w, p) ==
  \A r \in LiveIn(w) : p \in scope[r] =>
    ConflictFree(p, environments[r], Project, {})

-----------------------------------------------------------------------------
(* Variables                                                               *)

Usable(c) == c \in Workspace => group[c] = "open"

Create(r, c, E, v) ==
  /\ status[r] = "none"
  /\ Usable(c)
  /\ ConflictFree(c, E, Project, {})
  /\ status' = [status EXCEPT ![r] = "live"]
  /\ container' = [container EXCEPT ![r] = c]
  /\ environments' = [environments EXCEPT ![r] = E]
  /\ scope' = [scope EXCEPT ![r] = Project]
  /\ value' = [value EXCEPT ![r] = v]
  /\ recorded' = [recorded EXCEPT ![r] = {<<E, v>>}]
  /\ UNCHANGED <<group, member, sharing>>

\* updateCore; the check runs when the caller names environments.
Update(r, E, v) ==
  /\ Live(r)
  /\ E = environments[r] \/ ConflictFree(container[r], E, scope[r], {r})
  /\ Cardinality(recorded[r] \cup {<<E, v>>}) <= MaxRecords
  /\ environments' = [environments EXCEPT ![r] = E]
  /\ value' = [value EXCEPT ![r] = v]
  /\ recorded' = [recorded EXCEPT ![r] = @ \cup {<<E, v>>}]
  /\ UNCHANGED <<status, container, scope, group, member, sharing>>

Detachable(r, e) == e \in environments[r] /\ environments[r] # {e}

\* removeFromEnvironment writes no version record.
Detach(r, e) ==
  /\ Live(r)
  /\ Detachable(r, e)
  /\ environments' = [environments EXCEPT ![r] = @ \ {e}]
  /\ UNCHANGED <<status, container, scope, value, recorded, group, member, sharing>>

Remove(r) ==
  /\ Live(r)
  /\ status' = [status EXCEPT ![r] = "trashed"]
  /\ UNCHANGED <<container, environments, scope, value, recorded, group, member, sharing>>

Restore(r) ==
  /\ status[r] = "trashed"
  /\ RestoreFree(r)
  /\ status' = [status EXCEPT ![r] = "live"]
  /\ UNCHANGED <<container, environments, scope, value, recorded, group, member, sharing>>

\* rollbackCore writes the environments of the version record as they are.
Rollback(r, E, v) ==
  /\ "rollback" \in Paths
  /\ Live(r)
  /\ <<E, v>> \in recorded[r]
  /\ environments' = [environments EXCEPT ![r] = E]
  /\ value' = [value EXCEPT ![r] = v]
  /\ UNCHANGED <<status, container, scope, recorded, group, member, sharing>>

-----------------------------------------------------------------------------
(* Workspaces                                                              *)

CreateWorkspace(w) ==
  /\ group[w] = "unused"
  /\ group' = [group EXCEPT ![w] = "open"]
  /\ UNCHANGED <<rowVars, member, sharing>>

\* Deleting one stops the sharing at once; its rows and links go later.
DeleteWorkspace(w) ==
  /\ group[w] = "open"
  /\ group' = [group EXCEPT ![w] = "gone"]
  /\ UNCHANGED <<rowVars, member, sharing>>

DestroyRow(r) ==
  /\ container[r] \in Workspace
  /\ group[container[r]] = "gone"
  /\ status[r] \in {"live", "trashed"}
  /\ status' = [status EXCEPT ![r] = "gone"]
  /\ UNCHANGED <<container, environments, scope, value, recorded, group, member, sharing>>

DropLinks(w) ==
  /\ group[w] = "gone"
  /\ \A r \in Row : status[r] \in {"live", "trashed"} => container[r] # w
  /\ member' = member \ ({w} \X Project)
  /\ UNCHANGED <<rowVars, group, sharing>>

MayLink(w, p) ==
  /\ Cardinality(Groups(p)) < MaxGroups
  /\ IncomingClear(w, p)

LinkProject(w, p) ==
  /\ group[w] = "open"
  /\ <<w, p>> \notin member
  /\ MayLink(w, p)
  /\ member' = member \cup {<<w, p>>}
  /\ UNCHANGED <<rowVars, group, sharing>>

RemoveProject(w, p) ==
  /\ group[w] = "open"
  /\ <<w, p>> \in member
  /\ member' = member \ {<<w, p>>}
  /\ UNCHANGED <<rowVars, group, sharing>>

\* setVariableScope: every member the row newly reaches is checked.
SetScope(r, S) ==
  LET w == container[r]
  IN  /\ Live(r)
      /\ w \in Workspace
      /\ group[w] = "open"
      /\ S \subseteq Members(w) \/ S = Project
      /\ \A p \in (Members(w) \cap S) \ scope[r] :
           ConflictFree(p, environments[r], Project, {})
      /\ scope' = [scope EXCEPT ![r] = S]
      /\ UNCHANGED <<status, container, environments, value, recorded, group, member, sharing>>

-----------------------------------------------------------------------------
(* Sharing a project's row through a workspace                             *)

\* verdicts, if it compared nothing but the environments.
SameEnvironments(r, d) == environments[d] = environments[r]

Same(r, d) ==
  /\ environments[d] = environments[r]
  /\ value[d] = value[r]

\* One live row of each picked project that has any, each the same as r.
Copies(r, P) ==
  {D \in SUBSET UNION {LiveIn(p) : p \in P} :
     \A p \in P : LiveIn(p) # {} =>
       \E d \in LiveIn(p) : D \cap LiveIn(p) = {d} /\ Same(r, d)}

\* The query and the verdicts.  A workspace with members outside the
\* selection keeps the row scoped to the selection.
FindShare(x, r, P, w) ==
  LET selected == P \cup {container[r]}
  IN  /\ "share" \in Paths
      /\ sharing[x].phase = "idle"
      /\ Live(r)
      /\ container[r] \in Project \ P
      /\ group[w] # "gone"
      /\ \E D \in Copies(r, P) :
           sharing' = [sharing EXCEPT ![x] =
             [phase |-> "found", survivor |-> r, selected |-> selected,
              duplicates |-> D, group |-> w, fresh |-> group[w] = "unused",
              made |-> {},
              scope |-> IF Members(w) \subseteq selected THEN Project
                                                         ELSE selected]]
      /\ UNCHANGED <<rowVars, group, member>>

\* _link: mints the workspace when it was only named, links who is missing.
LinkShare(x) ==
  LET s == sharing[x]
      missing == {p \in s.selected : <<s.group, p>> \notin member}
  IN  /\ s.phase = "found"
      /\ group[s.group] = IF s.fresh THEN "unused" ELSE "open"
      /\ \A p \in missing : MayLink(s.group, p)
      /\ group' = [group EXCEPT ![s.group] = "open"]
      /\ member' = member \cup ({s.group} \X missing)
      /\ sharing' = [sharing EXCEPT ![x].phase = "linked", ![x].made = missing]
      /\ UNCHANGED rowVars

\* applyAdoptionCore: the copies go to the trash, the survivor moves up.
Adopt(x) ==
  LET s == sharing[x]
  IN  /\ s.phase = "linked"
      /\ group[s.group] = "open"
      /\ Live(s.survivor)
      /\ status' = [r \in Row |-> IF r \in s.duplicates /\ Live(r)
                                  THEN "trashed" ELSE status[r]]
      /\ container' = [container EXCEPT ![s.survivor] = s.group]
      /\ scope' = [scope EXCEPT ![s.survivor] = s.scope]
      /\ sharing' = [sharing EXCEPT ![x] = IdleShare]
      /\ UNCHANGED <<environments, value, recorded, group, member>>

\* _unlink, after an adoption that threw.
Unlink(x) ==
  LET s == sharing[x]
  IN  /\ s.phase = "linked"
      /\ member' = member \ ({s.group} \X s.made)
      /\ group' = IF s.fresh THEN [group EXCEPT ![s.group] = "gone"] ELSE group
      /\ sharing' = [sharing EXCEPT ![x] = IdleShare]
      /\ UNCHANGED rowVars

\* The link was refused, the request was turned down, or the caller died.
Abandon(x) ==
  /\ sharing[x].phase # "idle"
  /\ sharing' = [sharing EXCEPT ![x] = IdleShare]
  /\ UNCHANGED <<rowVars, group, member>>

-----------------------------------------------------------------------------

RowStep(r) ==
  \/ \E c \in Container, E \in Environments, v \in Value : Create(r, c, E, v)
  \/ \E E \in Environments, v \in Value : Update(r, E, v)
  \/ \E e \in Env : Detach(r, e)
  \/ Remove(r)
  \/ Restore(r)
  \/ \E E \in Environments, v \in Value : Rollback(r, E, v)
  \/ DestroyRow(r)
  \/ \E S \in SUBSET Project : SetScope(r, S)

WorkspaceStep(w) ==
  \/ CreateWorkspace(w)
  \/ DeleteWorkspace(w)
  \/ DropLinks(w)
  \/ \E p \in Project : LinkProject(w, p)
  \/ \E p \in Project : RemoveProject(w, p)

ShareStep(x) ==
  \/ LinkShare(x)
  \/ Adopt(x)
  \/ Unlink(x)
  \/ Abandon(x)

Quiet == Serial => \A x \in Sharer : sharing[x].phase = "idle"

Next ==
  \/ Quiet /\ \E r \in Row : RowStep(r)
  \/ Quiet /\ \E w \in Workspace : WorkspaceStep(w)
  \/ Quiet /\ \E x \in Sharer, r \in Row, P \in SUBSET Project, w \in Workspace :
       FindShare(x, r, P, w)
  \/ \E x \in Sharer : ShareStep(x)

Spec == Init /\ [][Next]_vars

-----------------------------------------------------------------------------
(* Properties                                                              *)

\* Every (key, environment) pair resolves to at most one live variable in
\* every project, whichever of its own and inherited rows it comes from.
AtMostOnePerEnvironment ==
  \A p \in Project : \A r, s \in Reaching(p) :
    r # s => environments[r] \cap environments[s] = {}

\* Two rows that clash in a project come from two different workspaces:
\* neither a project's own rows nor one workspace's rows ever clash there,
\* nor an own row with an inherited one.
OnlyAcrossWorkspaces ==
  \A p \in Project : \A r, s \in Reaching(p) :
    (r # s /\ environments[r] \cap environments[s] # {}) =>
      /\ container[r] # container[s]
      /\ {container[r], container[s]} \subseteq Workspace

\* The rows an adoption moves to the trash are still identical copies of the
\* row that survives them.
AdoptionTrashesCopies ==
  [][\A r, d \in Row :
       (Live(r) /\ container'[r] # container[r] /\ Live(d) /\ status'[d] = "trashed")
         => Same(r, d)]_vars

\* The verdict sharing x took about project p still holds for environment e:
\* nobody else moved the rows it names, a selected project is a member and owns
\* no answer but the survivor, a copy of it or one it leaves alone, and the
\* adopted row will not reach a project that was not selected.
Standing(x, p, e) ==
  LET s == sharing[x]
  IN  /\ \A r \in s.duplicates \cup {s.survivor} :
           Live(r) => container[r] \in s.selected
      /\ p \in s.selected =>
           /\ <<s.group, p>> \in member
           /\ \A r \in (LiveIn(p) \cap Answers(p, e)) \ {s.survivor} :
                \/ r \in s.duplicates /\ Same(s.survivor, r)
                \/ r \notin s.duplicates /\ e \notin environments[s.survivor]
      /\ p \notin s.selected => p \notin Members(s.group) \cap s.scope

\* The pull of one environment goes on and returns the same value.
Keeps(p, e) == ~ Refused(p, e)' /\ Pulled(p, e)' = Pulled(p, e)

\* The pull keeps its value, or it is refused from now on and what it returned
\* was inherited.
KeepsOwn(p, e) ==
  \/ Keeps(p, e)
  \/ Refused(p, e)' /\ Answers(p, e) \cap LiveIn(p) = {}

Pulls(p, e) == Answers(p, e) # {} /\ ~ Refused(p, e)

\* Whatever ran between the verdicts, the link and the adoption, an adoption
\* costs a project whose own verdict still holds nothing it pulls from a row
\* of its own, and it never exchanges what a project inherits for something
\* else: there the pull keeps its value or is refused.
StandingVerdictKeepsPulls ==
  [][\A x \in Sharer : Adopt(x) =>
       \A p \in Project, e \in Env :
         (Pulls(p, e) /\ Standing(x, p, e)) => KeepsOwn(p, e)]_vars

\* The same of every project, for a share that nothing runs beside.
QuietShareKeepsPulls ==
  [][\A x \in Sharer : Adopt(x) =>
       \A p \in Project, e \in Env : Pulls(p, e) => KeepsOwn(p, e)]_vars

\* Every project's next pull returns what it returned before, as the comment
\* on applyAdoptionCore has it.  It does not hold: _candidates reads only the
\* rows a project owns, so the adopted row may meet one the project inherits.
SharingKeepsPulls ==
  [][\A x \in Sharer : Adopt(x) =>
       \A p \in Project, e \in Env : Pulls(p, e) => Keeps(p, e)]_vars
=============================================================================
