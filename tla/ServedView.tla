------------------------------ MODULE ServedView ------------------------------
(***************************************************************************)
(* What a supervisor host controller promises the member streams it serves: *)
(* the part of the pool's view that snapshots are derived from, under one   *)
(* revision.  Whatever changes a member's snapshot comes with a new         *)
(* revision, so that a stream watching the revision misses nothing, and     *)
(* every ownership term and every assignment is dated by the revision that  *)
(* introduced it, so that an acknowledgement from before it is told apart.  *)
(***************************************************************************)
EXTENDS Integers, FiniteSets

CONSTANTS
    Route,      \* sandbox instances
    Member,     \* host processes of the pool
    NoMember,
    MaxEpoch    \* bound on the ownership terms of a route

ASSUME ViewAssumption ==
    /\ NoMember \notin Member
    /\ MaxEpoch \in Nat \ {0}

VARIABLES
    loaded,      \* a complete view has been derived from the records
    revision,    \* Desired.revision
    desired,     \* PoolView.desired
    owners,      \* PoolView.owners
    assigned,    \* Desired.assignments: the revision of each, 0 for none
    ownedSince,  \* Pool.owned_since, 0 for none
    stopping     \* Desired.stopping: the member told to stop the route

viewVars == <<loaded, revision, desired, owners, assigned, ownedSince, stopping>>

Owner == [member : Member, epoch : 1..MaxEpoch]
NoOwner == [member |-> NoMember, epoch |-> 0]

ViewTypeOK ==
    /\ loaded \in BOOLEAN
    /\ revision \in Nat
    /\ desired \in SUBSET Route
    /\ owners \in [Route -> Owner \cup {NoOwner}]
    /\ assigned \in [Route -> Nat]
    /\ ownedSince \in [Route -> Nat]
    /\ stopping \in [Route -> Member \cup {NoMember}]

ViewInit ==
    /\ loaded = FALSE
    /\ revision = 0
    /\ desired = {}
    /\ owners = [r \in Route |-> NoOwner]
    /\ assigned = [r \in Route |-> 0]
    /\ ownedSince = [r \in Route |-> 0]
    /\ stopping = [r \in Route |-> NoMember]

-------------------------------------------------------------------------------
(* snapshot: the routes the member's process is assigned, with their terms, *)
(* those it keeps as they are because their launch material has not been    *)
(* loaded, those it must stop, and where every route is owned.              *)

OwnedAssigned(m) == {r \in Route : owners[r].member = m /\ assigned[r] # 0}

Snapshot(m) ==
    [revision |-> revision,
     instances |-> [r \in Route |-> IF r \in OwnedAssigned(m)
                                    THEN owners[r].epoch ELSE 0],
     stops |-> {r \in Route : \/ stopping[r] = m
                              \/ /\ owners[r].member = m
                                 /\ r \notin desired
                                 /\ stopping[r] = NoMember},
     keeps |-> [r \in Route |-> IF /\ owners[r].member = m
                                   /\ r \in desired
                                   /\ assigned[r] = 0
                                   /\ stopping[r] = NoMember
                                THEN owners[r].epoch ELSE 0],
     directory |-> [r \in Route |-> owners[r].member]]

-------------------------------------------------------------------------------
\* A change of the view, at the next revision.
Serve ==
    /\ revision' = revision + 1
    /\ loaded' \in {loaded, TRUE}
    /\ desired' \in SUBSET Route
    /\ owners' \in [Route -> Owner \cup {NoOwner}]
    /\ stopping' \in [Route -> Member \cup {NoMember}]
    /\ ownedSince' = [r \in Route |->
                        IF owners'[r] = NoOwner THEN 0
                        ELSE IF owners'[r] = owners[r] THEN ownedSince[r]
                        ELSE revision']
    /\ assigned' \in [Route -> 0..revision']
    /\ \A r \in Route :
          /\ assigned'[r] \in {0, IF assigned[r] # 0 THEN assigned[r]
                                  ELSE revision'}
          /\ assigned'[r] # 0 => r \in desired'
          /\ stopping'[r] # NoMember => r \notin desired'

\* A change of the desired routes that no member's snapshot shows.
Unseen ==
    /\ desired' \in SUBSET Route
    /\ UNCHANGED <<loaded, revision, owners, assigned, ownedSince, stopping>>
    /\ \A m \in Member : Snapshot(m)' = Snapshot(m)

\* POOL_STOP_RETENTION has passed: the next snapshot shows it.
StopsExpire ==
    /\ stopping' \in [Route -> Member \cup {NoMember}]
    /\ \A r \in Route : stopping'[r] \in {stopping[r], NoMember}
    /\ UNCHANGED <<loaded, revision, desired, owners, assigned, ownedSince>>

ViewRestart ==
    /\ loaded' = FALSE
    /\ revision' = 0
    /\ desired' = {}
    /\ owners' = [r \in Route |-> NoOwner]
    /\ assigned' = [r \in Route |-> 0]
    /\ ownedSince' = [r \in Route |-> 0]
    /\ stopping' = [r \in Route |-> NoMember]

ViewNext == Serve \/ Unseen \/ StopsExpire \/ ViewRestart

ViewSpec == ViewInit /\ [][ViewNext]_viewVars
=============================================================================
