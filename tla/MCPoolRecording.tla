--------------------------- MODULE MCPoolRecording --------------------------
(***************************************************************************)
(* PoolRecording for TLC.  Launches are interchangeable where they are     *)
(* bounded alike, and so are recoveries and replicas.                      *)
(***************************************************************************)
EXTENDS PoolRecording, TLC

Symmetry ==
    Permutations(Launch) \cup Permutations(Recovery) \cup Permutations(Replica)

=============================================================================
