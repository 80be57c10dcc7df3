--------------------------- MODULE ProjectErasure ---------------------------
(***************************************************************************)
(* What the deletion of a project promises to the outside, in terms of the *)
(* rows that belong to it and of the vault objects and blobs these rows    *)
(* name: what is outside the database goes before the row that names it,   *)
(* the project's row goes last, and once deletion has begun nothing is     *)
(* added.  ProjectDeletion implements this.                                *)
(***************************************************************************)
CONSTANTS
  Row,
  Needs   \* the vault objects and blobs of a row

VARIABLES project, kept, stored

erasureVars == <<project, kept, stored>>

Init ==
  /\ project = "live"
  /\ kept \subseteq Row
  /\ stored = UNION {Needs[r] : r \in kept}

Add(r) ==
  /\ project = "live"
  /\ r \notin kept
  /\ kept' = kept \cup {r}
  /\ stored' = stored \cup Needs[r]
  /\ UNCHANGED project

Begin ==
  /\ project = "live"
  /\ project' = "deleting"
  /\ UNCHANGED <<kept, stored>>

Shrink ==
  /\ kept' \subseteq kept
  /\ stored' \subseteq stored
  /\ \A r \in kept \ kept' : Needs[r] \cap stored' = {}
  /\ UNCHANGED project

Vanish ==
  /\ project = "deleting"
  /\ kept = {}
  /\ project' = "gone"
  /\ UNCHANGED <<kept, stored>>

Next ==
  \/ \E r \in Row : Add(r)
  \/ Begin
  \/ Shrink
  \/ Vanish

Spec == Init /\ [][Next]_erasureVars
=============================================================================
