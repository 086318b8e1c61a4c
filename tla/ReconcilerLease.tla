-------------------------- MODULE ReconcilerLease --------------------------
(***************************************************************************)
(* The lease that decides which gateway replica runs the watch, reconcile, *)
(* provisioning and restart loops: one row of the object store, taken,     *)
(* stolen once expired, renewed and released by compare-and-swap.          *)
(*                                                                         *)
(* Each replica runs lease_coordinator.  Its accesses to the store are     *)
(* steps of their own.  Time is abstracted to whether the row is older     *)
(* than its TTL, which it may become at any moment.                        *)
(***************************************************************************)
EXTENDS Naturals, ObjectStore

CONSTANTS
    Replica,      \* gateway replicas
    NoReplica,    \* nobody: the holder of an absent lease
    MayShutdown,  \* replicas that may be told to shut down
    MayFail,      \* replicas that may meet store errors
    MaxCrash,     \* bound: crashes
    MaxVersion    \* bound: resource versions of the lease

ASSUME LeaseAssumption ==
    /\ NoReplica \notin Replica
    /\ MaxCrash \in Nat
    /\ MaxVersion \in Nat

VARIABLES
    lease,   \* the row; version 0 is no row
    replica, \* each replica: where it is, and the version it goes by
    crashes, \* the number of crashes so far
    released \* history: the row was deleted, so its versions start again

history == <<crashes, released>>
vars == <<lease, replica, crashes, released>>

LeaseRow == [version : Nat, holder : Replica \cup {NoReplica},
             expired : BOOLEAN]

NoLease == [version |-> 0, holder |-> NoReplica, expired |-> FALSE]

\* Replicas that are holding, draining or leaving run the loops.  "version" is the guard's
\* while holding, and the one read while stealing.
ReplicaState == [pc : {"standby", "read", "steal", "holding", "draining",
                       "leaving", "down"},
                 version : Nat]

Standby == [pc |-> "standby", version |-> 0]

TypeOK ==
    /\ lease \in LeaseRow
    /\ lease.version = 0 <=> lease.holder = NoReplica
    /\ replica \in [Replica -> ReplicaState]
    /\ crashes \in Nat
    /\ released \in BOOLEAN

Init ==
    /\ lease = NoLease
    /\ replica = [r \in Replica |-> Standby]
    /\ crashes = 0
    /\ released = FALSE

Go(r, pc, version) ==
    replica' = [replica EXCEPT ![r] = [pc |-> pc, version |-> version]]

\* Mutant: the write leaves the stored payload, and so the holder, as it was.
HoldKeepingPayload(r, otherwise) ==
    /\ lease.version < MaxVersion
    /\ lease' = [lease EXCEPT !.version = NextVersion(lease.version),
                             !.expired = FALSE]
    /\ Go(r, "holding", NextVersion(lease.version))
    /\ UNCHANGED history

\* The write that makes r the holder, or keeps it so.  If its reply is an
\* error, r goes on as if it had failed.
Hold(r, otherwise) ==
    /\ lease.version < MaxVersion
    /\ lease' = [version |-> NextVersion(lease.version), holder |-> r,
                 expired |-> FALSE]
    /\ \/ Go(r, "holding", NextVersion(lease.version))
       \/ r \in MayFail /\ Go(r, otherwise, 0)
    /\ UNCHANGED history

-----------------------------------------------------------------------------
\* try_acquire: create the row, or else see whether it expired.
TryAcquire(r) ==
    /\ replica[r].pc = "standby"
    /\ \/ SameVersion(lease.version, 0) /\ Hold(r, "standby")
       \/ /\ ~SameVersion(lease.version, 0)
          /\ Go(r, "read", 0)
          /\ UNCHANGED <<lease, history>>

\* Mutant: a replica does not take its own expired lease over.
ReadLeaseOfOthers(r) ==
    /\ replica[r].pc = "read"
    /\ IF lease.version # 0 /\ lease.expired /\ lease.holder # r
       THEN Go(r, "steal", lease.version)
       ELSE Go(r, "standby", 0)
    /\ UNCHANGED <<lease, history>>

\* try_steal_expired, up to the check of lease_is_expired.
ReadLease(r) ==
    /\ replica[r].pc = "read"
    /\ IF lease.version # 0 /\ lease.expired
       THEN Go(r, "steal", lease.version)
       ELSE Go(r, "standby", 0)
    /\ UNCHANGED <<lease, history>>

\* Mutant: the write expects no particular version, and expects to find the
\* row at the version it was read at.
StealBlindly(r) ==
    /\ replica[r].pc = "steal"
    /\ lease' = [version |-> NextVersion(replica[r].version), holder |-> r,
                 expired |-> FALSE]
    /\ Go(r, "holding", NextVersion(replica[r].version))
    /\ UNCHANGED history

StealExpired(r) ==
    /\ replica[r].pc = "steal"
    /\ \/ SameVersion(lease.version, replica[r].version) /\ Hold(r, "standby")
       \/ /\ ~SameVersion(lease.version, replica[r].version)
          /\ Go(r, "standby", 0)
          /\ UNCHANGED <<lease, history>>

\* Mutant: a replica that finds its lease taken over goes on as holder.
RenewForgiving(r) ==
    /\ replica[r].pc = "holding"
    /\ SameVersion(lease.version, replica[r].version)
    /\ Hold(r, "draining")

\* renew: a conflict, like any error, ends the holder role.
Renew(r) ==
    /\ replica[r].pc = "holding"
    /\ \/ SameVersion(lease.version, replica[r].version) /\ Hold(r, "draining")
       \/ /\ ~SameVersion(lease.version, replica[r].version)
          /\ Go(r, "draining", 0)
          /\ UNCHANGED <<lease, history>>

\* The loops are cancelled and awaited; then the replica stands by again.
Drain(r) ==
    /\ replica[r].pc = "draining"
    /\ Go(r, "standby", 0)
    /\ UNCHANGED <<lease, history>>

\* Shutdown while holding: the lease is released first, whether or not that
\* succeeds, and the loops are cancelled and awaited after that.
Release(r) ==
    /\ r \in MayShutdown
    /\ replica[r].pc = "holding"
    /\ \/ /\ SameVersion(lease.version, replica[r].version)
          /\ lease' = NoLease
          /\ released' = TRUE
       \/ /\ ~SameVersion(lease.version, replica[r].version) \/ r \in MayFail
          /\ UNCHANGED <<lease, released>>
    /\ Go(r, "leaving", 0)
    /\ UNCHANGED crashes

Leave(r) ==
    /\ \/ replica[r].pc = "leaving"
       \/ r \in MayShutdown /\ replica[r].pc = "standby"
    /\ Go(r, "down", 0)
    /\ UNCHANGED <<lease, history>>

\* A store access fails.
FailAttempt(r) ==
    /\ r \in MayFail
    /\ replica[r].pc \in {"read", "steal", "holding"}
    /\ Go(r, IF replica[r].pc = "holding" THEN "draining" ELSE "standby", 0)
    /\ UNCHANGED <<lease, history>>

Crash(r) ==
    /\ crashes < MaxCrash
    /\ replica[r].pc # "down"
    /\ Go(r, "down", 0)
    /\ crashes' = crashes + 1
    /\ UNCHANGED <<lease, released>>

Start(r) ==
    /\ replica[r].pc = "down"
    /\ Go(r, "standby", 0)
    /\ UNCHANGED <<lease, history>>

\* LEASE_TTL passes without a renewal.
Expire ==
    /\ lease.version # 0
    /\ ~lease.expired
    /\ lease' = [lease EXCEPT !.expired = TRUE]
    /\ UNCHANGED <<replica, history>>

Coordinate(r) ==
    \/ TryAcquire(r) \/ ReadLease(r) \/ StealExpired(r) \/ Drain(r)

Next ==
    \/ \E r \in Replica : \/ Coordinate(r) \/ Renew(r) \/ Release(r)
                          \/ Leave(r) \/ FailAttempt(r) \/ Crash(r) \/ Start(r)
    \/ Expire

Spec == Init /\ [][Next]_vars

\* lease_coordinator retries every LEASE_ACQUIRE_INTERVAL and renews every
\* LEASE_RENEWAL_INTERVAL: a replica that is up takes its next step
\* eventually, though the step may fail.  Nobody needs to start again.
Fairness ==
    \A r \in Replica : WF_vars(Coordinate(r) \/ Renew(r) \/ FailAttempt(r))

FairSpec == Spec /\ Fairness

-----------------------------------------------------------------------------
(* Properties.                                                             *)

\* renew, try_steal_expired: until the row is released, a guard that still
\* matches the row is that of its holder: however often the lease was stolen
\* from holders that stalled, their guards are void, and at most one replica
\* can renew.  (A row that is created again starts at version 1, where the
\* guard of a holder that stalled throughout may match another's lease.)
GuardsOwnLease ==
    ~released =>
        \A r \in Replica :
            /\ replica[r].pc = "holding"
            /\ replica[r].version = lease.version
            => lease.holder = r

\* run_as_holder: a replica whose lease was taken over finds out and gives
\* its loops up, unless the row was meanwhile released and created again at
\* the very version of its guard.
LostLeaseNoticed ==
    \A r \in Replica :
        (replica[r].pc = "holding" /\ replica[r].version # lease.version)
            ~> \/ replica[r].pc # "holding"
               \/ replica[r].version = lease.version

\* acquire_or_steal: an expired lease, of whoever crashed or stalled, is
\* renewed, released or taken over while some replica whose store accesses
\* succeed is up, up to the bound.
ExpiredLeaseTaken ==
    lease.expired ~> \/ ~lease.expired
                     \/ lease.version = MaxVersion
                     \/ \A r \in Replica \ MayFail : replica[r].pc = "down"

=============================================================================
