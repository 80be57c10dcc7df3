------------------------ MODULE MCAccountCredentials ------------------------
(***************************************************************************)
(* Small instances of AccountCredentials.  Objects and requests are        *)
(* interchangeable; so are the calls.                                      *)
(***************************************************************************)
EXTENDS AccountCredentials, TLC

Symmetry == Permutations(Ref) \cup Permutations(Request) \cup Permutations(Call)
=============================================================================
