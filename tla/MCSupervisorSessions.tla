------------------------ MODULE MCSupervisorSessions ------------------------
(* SupervisorSessions for TLC: the first connection is made by a to g1, up *)
(* to renaming, and the second by either supervisor to either replica.     *)
EXTENDS SupervisorSessions

CONSTANTS g1, g2, a, b

Connections == {<<1, g1, a>>} \cup ({2} \X {g1, g2} \X {a, b})
=============================================================================
