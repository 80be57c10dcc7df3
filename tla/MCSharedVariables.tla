-------------------------- MODULE MCSharedVariables --------------------------
EXTENDS SharedVariables, TLC

NoPath == {}
JustRollback == {"rollback"}
JustShare == {"share"}
EveryPath == Path

\* Projects, workspaces, rows, environments and values are interchangeable.
Symmetry ==
  Permutations(Project) \cup Permutations(Workspace) \cup Permutations(Row)
    \cup Permutations(Env) \cup Permutations(Value)
=============================================================================
