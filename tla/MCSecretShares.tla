--------------------------- MODULE MCSecretShares ---------------------------
(* Instances of SecretShares for TLC: a one-time and a time-limited share  *)
(* of the same variable.                                                   *)
EXTENDS SecretShares

CONSTANTS once, timed, variable

MCResourceOf == [s \in {once, timed} |-> variable]
=============================================================================
