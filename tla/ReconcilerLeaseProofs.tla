----------------------- MODULE ReconcilerLeaseProofs -----------------------
(***************************************************************************)
(* Proofs about ReconcilerLease, for every set of replicas and every bound *)
(* on versions and crashes.                                                *)
(***************************************************************************)
EXTENDS ReconcilerLease, TLAPS

\* No guard is ahead of the row, as long as the row was not deleted.
GuardsBehind ==
    ~released =>
        \A r \in Replica :
            replica[r].pc = "holding" => replica[r].version <= lease.version

\* Together with the types this is inductive: the write that changes the row
\* leaves every guard but the writer's behind it.
GuardInv == TypeOK /\ GuardsBehind /\ GuardsOwnLease

\* The coordinator's initial state: nobody holds the lease.
LEMMA InitGuards == Init => GuardInv
<1> SUFFICES ASSUME Init
             PROVE  GuardInv
  OBVIOUS
<1>1. TypeOK
  <2>1. released \in BOOLEAN
    BY Zenon DEF Init
  <2> QED
    BY <2>1, LeaseAssumption
    DEF Init, TypeOK, LeaseRow, NoLease, ReplicaState, Standby
<1>2. GuardsBehind /\ GuardsOwnLease
  BY DEF Init, GuardsBehind, GuardsOwnLease, Standby
<1> QED
  BY <1>1, <1>2 DEF GuardInv

\* Every step of every replica preserves the types.
LEMMA NextTypes ==
  ASSUME TypeOK, [Next]_vars
  PROVE  TypeOK'
<1> USE LeaseAssumption
    DEF TypeOK, LeaseRow, ReplicaState, NoLease, NextVersion, SameVersion,
        history
<1>1. CASE UNCHANGED vars
  BY <1>1 DEF vars
<1>2. CASE Expire
  BY <1>2 DEF Expire
<1>3. ASSUME NEW r \in Replica, NEW otherwise \in {"standby", "draining"},
             Hold(r, otherwise)
      PROVE  TypeOK'
  BY <1>3 DEF Hold, Go
<1>4. ASSUME NEW r \in Replica, TryAcquire(r) \/ StealExpired(r) \/ Renew(r)
      PROVE  TypeOK'
  BY <1>3, <1>4 DEF TryAcquire, StealExpired, Renew, Go
<1>5. ASSUME NEW r \in Replica, ReadLease(r) \/ Drain(r) \/ Release(r)
      PROVE  TypeOK'
  <2>1. CASE ReadLease(r)
    <3>1. lease' = lease /\ UNCHANGED history
      BY <2>1 DEF ReadLease
    <3>2. PICK pc \in {"steal", "standby"}, version \in Nat :
            Go(r, pc, version)
      BY <2>1 DEF ReadLease
    <3> QED
      BY <3>1, <3>2 DEF Go
  <2>2. CASE Drain(r)
    BY <2>2 DEF Drain, Go
  <2>3. CASE Release(r)
    <3>1. /\ replica' \in [Replica -> ReplicaState]
          /\ crashes' \in Nat
          /\ released' \in BOOLEAN
      BY <2>3 DEF Release, Go
    <3>2. CASE lease' = NoLease
      BY <3>1, <3>2
    <3>3. CASE lease' = lease
      BY <3>1, <3>3
    <3> QED
      BY <2>3, <3>2, <3>3 DEF Release
  <2> QED
    BY <1>5, <2>1, <2>2, <2>3
<1>6. ASSUME NEW r \in Replica,
             Leave(r) \/ FailAttempt(r) \/ Crash(r) \/ Start(r)
      PROVE  TypeOK'
  BY <1>6 DEF Leave, FailAttempt, Crash, Start, Go
<1> QED
  BY <1>1, <1>2, <1>4, <1>5, <1>6 DEF Next, Coordinate

\* Every step preserves what the guards say of the row.
LEMMA NextGuards ==
  ASSUME GuardInv, [Next]_vars
  PROVE  GuardsBehind' /\ GuardsOwnLease'
<1> SUFFICES ASSUME ~released'
             PROVE  \A q \in Replica :
                      replica'[q].pc = "holding" =>
                        /\ replica'[q].version <= lease'.version
                        /\ replica'[q].version = lease'.version =>
                             lease'.holder = q
  BY DEF GuardsBehind, GuardsOwnLease
<1> USE DEF GuardInv, TypeOK, LeaseRow, ReplicaState, GuardsBehind,
            GuardsOwnLease, NextVersion, SameVersion, history
<1>1. CASE UNCHANGED vars
  BY <1>1 DEF vars
<1>2. CASE Expire
  BY <1>2 DEF Expire
<1>3. ASSUME NEW r \in Replica, NEW otherwise \in {"standby", "draining"},
             Hold(r, otherwise)
      PROVE  \A q \in Replica :
               replica'[q].pc = "holding" =>
                 /\ replica'[q].version <= lease'.version
                 /\ replica'[q].version = lease'.version => lease'.holder = q
  BY <1>3 DEF Hold, Go
<1>4. ASSUME NEW r \in Replica, TryAcquire(r) \/ StealExpired(r) \/ Renew(r)
      PROVE  \A q \in Replica :
               replica'[q].pc = "holding" =>
                 /\ replica'[q].version <= lease'.version
                 /\ replica'[q].version = lease'.version => lease'.holder = q
  BY <1>3, <1>4 DEF TryAcquire, StealExpired, Renew, Go
<1>5. ASSUME NEW r \in Replica, ReadLease(r) \/ Drain(r) \/ Leave(r)
      PROVE  \A q \in Replica :
               replica'[q].pc = "holding" =>
                 /\ replica'[q].version <= lease'.version
                 /\ replica'[q].version = lease'.version => lease'.holder = q
  BY <1>5 DEF ReadLease, Drain, Leave, Go
<1>6. ASSUME NEW r \in Replica, FailAttempt(r) \/ Crash(r) \/ Start(r)
      PROVE  \A q \in Replica :
               replica'[q].pc = "holding" =>
                 /\ replica'[q].version <= lease'.version
                 /\ replica'[q].version = lease'.version => lease'.holder = q
  BY <1>6 DEF FailAttempt, Crash, Start, Go
<1>7. ASSUME NEW r \in Replica
      PROVE  Release(r) =>
               \A q \in Replica :
                 replica'[q].pc = "holding" =>
                   /\ replica'[q].version <= lease'.version
                   /\ replica'[q].version = lease'.version => lease'.holder = q
  BY DEF Release, Go
<1> QED
  BY <1>1, <1>2, <1>4, <1>5, <1>6, <1>7 DEF Next, Coordinate

\* renew, try_steal_expired: whichever replicas crash, stall and meet store
\* errors, until a replica that shuts down releases the lease a guard that
\* matches the row is the holder's own.
THEOREM GuardsAreOwn == Spec => []GuardsOwnLease
<1>1. Init => GuardInv
  BY InitGuards
<1>2. GuardInv /\ [Next]_vars => GuardInv'
  BY NextTypes, NextGuards DEF GuardInv
<1>3. GuardInv => GuardsOwnLease
  BY DEF GuardInv
<1> QED
  BY <1>1, <1>2, <1>3, PTL DEF Spec

\* The lease row has a version exactly when it has a holder, and no write
\* leaves it or a replica outside its type.
THEOREM LeaseTypeCorrect == Spec => []TypeOK
<1>1. Init => TypeOK
  BY InitGuards DEF GuardInv
<1>2. TypeOK /\ [Next]_vars => TypeOK'
  BY NextTypes
<1> QED
  BY <1>1, <1>2, PTL DEF Spec

=============================================================================
