------------------------- MODULE MCProjectDeletion -------------------------
(* Instances of ProjectDeletion for TLC: a variable with a version that    *)
(* shares its object, a file, a table row and an API key, in the first and *)
(* second external, one plain and one paged stage.                         *)
EXTENDS ProjectDeletion, TLC

CONSTANTS variable, version, file, member, key

MCRow == {variable, version, file, member, key}
MCStageOf == variable :> 1 @@ version :> 1 @@ file :> 2 @@ member :> 3 @@ key :> 4
MCRootOf == version :> variable @@ [r \in MCRow |-> NoRow]
MCRefs == variable :> {"value"} @@ version :> {"value"} @@ file :> {"key"}
            @@ [r \in MCRow |-> {}]
MCBlob == file :> {"blob"} @@ [r \in MCRow |-> {}]
=============================================================================
