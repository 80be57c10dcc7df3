-------------------------- MODULE MCVariableVault --------------------------
(* Model-checking instances of VariableVault. *)
EXTENDS VariableVault, TLC

\* Rows, calls and objects are interchangeable in every safety property.
Symmetry == Permutations(Variable) \cup Permutations(Ref) \cup Permutations(Call)
              \cup Permutations(CronRun)
=============================================================================
