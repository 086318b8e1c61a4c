-------------------------- MODULE MCSupervisorPool --------------------------
(* Small instances of SupervisorPool for TLC.                              *)
EXTENDS SupervisorPool, TLC

CONSTANTS s1, s2, r1, r2

\* One generation of one sandbox.
OneRoute == (r1 :> s1)

\* Two generations of one sandbox.
TwoGenerations == (r1 :> s1) @@ (r2 :> s1)

\* One generation of each of two sandboxes.
TwoSandboxes == (r1 :> s1) @@ (r2 :> s2)

Symmetry == Permutations(Member) \cup Permutations(Replica)
              \cup Permutations(Launch)

=============================================================================
