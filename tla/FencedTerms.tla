---------------------------- MODULE FencedTerms ----------------------------
(***************************************************************************)
(* What the supervisor pool promises of a sandbox's credentials, whatever  *)
(* replicas, members and launches do: terms are numbered by an epoch that  *)
(* only grows, each term belongs to at most one holder, fixed when the     *)
(* term starts, and credentials are only ever issued to the holder of the  *)
(* term in force, for that term.                                           *)
(***************************************************************************)
EXTENDS Naturals

CONSTANT Sandbox

VARIABLES
    epoch,   \* epoch[s]: the term in force
    holder,  \* holder[s]: whom it belongs to; none for a launch term
    issued   \* credentials issued so far

fencedVars == <<epoch, holder, issued>>

Init ==
    /\ epoch = [s \in Sandbox |-> 0]
    /\ holder = [s \in Sandbox |-> {}]
    /\ issued = {}

\* A later term starts, for at most one holder.
Advance(s) ==
    /\ epoch'[s] > epoch[s]
    /\ \A h, k \in holder'[s] : h = k
    /\ \A t \in Sandbox \ {s} : epoch'[t] = epoch[t] /\ holder'[t] = holder[t]
    /\ UNCHANGED issued

\* Credentials of the term in force are issued to its holder.
Issue(s) ==
    /\ \E h \in holder[s] :
          issued' = issued \cup {[sandbox |-> s, epoch |-> epoch[s],
                                 holder |-> h]}
    /\ UNCHANGED <<epoch, holder>>

Next == \E s \in Sandbox : Advance(s) \/ Issue(s)

Spec == Init /\ [][Next]_fencedVars

=============================================================================
