---------------------------- MODULE MCHostSession ----------------------------
(***************************************************************************)
(* Three kinds of behaviour: a route and one failure, a route that competes *)
(* with another for a member's only place, and a route that may expire.     *)
(***************************************************************************)
EXTENDS HostSession

CONSTANTS r1, r2

Failing == [free |-> {r1}, steady |-> {}, expiring |-> {}, faults |-> 1]

Contended == [free |-> {r1}, steady |-> {r2}, expiring |-> {}, faults |-> 0]

Expiring == [free |-> {r1}, steady |-> {}, expiring |-> {r1}, faults |-> 0]

AllBounds == {Failing, Contended, Expiring}
=============================================================================
