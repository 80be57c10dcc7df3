---------------------------- MODULE MCPurgeSweep ----------------------------
(* Instances of PurgeSweep for TLC.  No symmetry: liveness is checked.     *)
EXTENDS PurgeSweep

CONSTANTS v1, v2, v3, f1

ThreeVariables == {v1, v2, v3}
OneFile == {f1}
OneStuck == {v1}
TwoStuck == {v1, v2}
=============================================================================
