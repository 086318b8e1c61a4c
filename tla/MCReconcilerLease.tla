------------------------- MODULE MCReconcilerLease -------------------------
(* A small instance of ReconcilerLease for TLC.                            *)
EXTENDS ReconcilerLease

=============================================================================
