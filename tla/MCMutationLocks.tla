-------------------------- MODULE MCMutationLocks --------------------------
EXTENDS MutationLocks, TLC

CONSTANTS g1, g2, w, s, t1, t2, t3

Replicas == t1 :> g1 @@ t2 :> g1 @@ t3 :> g2
Workspaces == s :> w
\* The sandbox's key sorts before the global one, the workspace's after it.
Derived == s :> 1 @@ w :> 3
Doings == t1 :> {"workspace", "create"} @@ t2 :> {"sandbox", "deadline", "lifecycle"}
             @@ t3 :> {"global", "create", "watch"}
=============================================================================
