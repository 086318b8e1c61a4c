---------------------------- MODULE HostController ----------------------------
(***************************************************************************)
(* The SupervisorHostController of one gateway replica and the pass that    *)
(* feeds it.  The pool's records (which instances are published, who owns   *)
(* them in which term) change under it, through launches and withdrawals    *)
(* made here or on other replicas and through takeovers.  A pass of         *)
(* reconcile_once reads them one after the other and hands the result to    *)
(* update_pool, which must neither undo what assign, unassign and           *)
(* place_owner did here while the pass was reading, nor believe a listing   *)
(* that missed a row.                                                       *)
(*                                                                          *)
(* A member stands for one host process.  How an owner record changes is    *)
(* modelled step by step in SupervisorPool; here a takeover is the intent   *)
(* and its grant.  Routes are fresh for every generation                    *)
(* (new_generation_placement), so each is recorded once.                    *)
(***************************************************************************)
EXTENDS Integers, FiniteSets

CONSTANTS
    Route,      \* sandbox instances
    Member,     \* host processes of the pool
    NoMember,
    MaxEpoch,   \* bound on the ownership terms of a route
    FirstMayMiss,  \* whether the listings of the first pass may miss rows
    MaxFault    \* bound on failures, missed rows, restarts and lost streams

ASSUME ControllerAssumption ==
    /\ NoMember \notin Member
    /\ MaxEpoch \in Nat \ {0}
    /\ FirstMayMiss \in BOOLEAN
    /\ MaxFault \in Nat

VARIABLES
    record,       \* durable: "absent", "published" or "removed"
    owner,        \* durable: the owner record of each route
    term,         \* durable: the sandbox's current credential epoch
    launch,       \* how far the launch of a route through this gateway is
    loaded,       \* Pool.loaded, and Desired.initialized with it
    revision,     \* Desired.revision
    view,         \* Pool.view: desired routes, granted owners, assignments
    assigned,     \* Desired.assignments: the revision of each, 0 for none
    ownedSince,   \* Pool.owned_since, 0 for none
    stopping,     \* Desired.stopping: the member told to stop the route
    placed,       \* Pool.placed since the pass's listed_at
    launched,     \* Pool.launched since the pass's listed_at
    withdrawals,  \* Pool.withdrawals
    served,       \* members whose streams this gateway serves
    materials,    \* SupervisorPool.materials
    pass,         \* the pass and what it has read
    faults,       \* failures so far
    ended         \* history: routes withdrawn through this gateway

durableVars == <<record, owner, term>>
desiredVars == <<revision, view, assigned, ownedSince>>
keptVars == <<placed, launched, withdrawals>>
poolVars == <<materials, pass>>
controllerVars == <<record, owner, term, launch, loaded, revision, view, assigned,
                    ownedSince, stopping, placed, launched, withdrawals,
                    served, materials, pass, faults, ended>>

Owner == [member : Member, epoch : 1..MaxEpoch, granted : BOOLEAN]
NoOwner == [member |-> NoMember, epoch |-> 0, granted |-> FALSE]
Term(m, e) == [member |-> m, epoch |-> e, granted |-> TRUE]

Assigned == {r \in Route : assigned[r] # 0}
NoOwners == [r \in Route |-> NoOwner]
EmptyView == [desired |-> {}, owners |-> NoOwners, assignments |-> {}]
IdlePass == [at |-> "idle", todo |-> {}, owners |-> NoOwners, desired |-> {}]

Fault == faults < MaxFault /\ faults' = faults + 1

-------------------------------------------------------------------------------
ControllerTypeOK ==
    /\ record \in [Route -> {"absent", "published", "removed"}]
    /\ owner \in [Route -> Owner \cup {NoOwner}]
    /\ term \in [Route -> 0..MaxEpoch]
    /\ launch \in [Route -> [step : {"none", "recorded", "placed", "done",
                                     "refused", "dropped"},
                             member : Member \cup {NoMember}]]
    /\ loaded \in BOOLEAN
    /\ revision \in Nat
    /\ view \in [desired : SUBSET Route,
                 owners : [Route -> Owner \cup {NoOwner}],
                 assignments : SUBSET Route]
    /\ assigned \in [Route -> Nat]
    /\ ownedSince \in [Route -> Nat]
    /\ stopping \in [Route -> Member \cup {NoMember}]
    /\ placed \in [Route -> Owner \cup {NoOwner}]
    /\ launched \in SUBSET Route
    /\ withdrawals \in SUBSET Route
    /\ served \in SUBSET Member
    /\ materials \in SUBSET Route
    /\ pass \in [at : {"idle", "removing", "stamped", "owners", "records",
                       "materials"},
                 todo : SUBSET Route,
                 owners : [Route -> Owner \cup {NoOwner}],
                 desired : SUBSET Route]
    /\ faults \in 0..MaxFault
    /\ ended \in SUBSET Route

ControllerInit ==
    /\ record = [r \in Route |-> "absent"]
    /\ owner = NoOwners
    /\ term = [r \in Route |-> 0]
    /\ launch = [r \in Route |-> [step |-> "none", member |-> NoMember]]
    /\ loaded = FALSE
    /\ revision = 0
    /\ view = EmptyView
    /\ assigned = [r \in Route |-> 0]
    /\ ownedSince = [r \in Route |-> 0]
    /\ stopping = [r \in Route |-> NoMember]
    /\ placed = NoOwners
    /\ launched = {}
    /\ withdrawals = {}
    /\ served = {}
    /\ materials = {}
    /\ pass = IdlePass
    /\ faults = 0
    /\ ended = {}

-------------------------------------------------------------------------------
(* The records, as other replicas and this replica's own pass change them.  *)

PublishElsewhere(r, m) ==
    /\ record[r] = "absent"
    /\ record' = [record EXCEPT ![r] = "published"]
    /\ owner' = [owner EXCEPT ![r] = Term(m, 1)]
    /\ term' = [term EXCEPT ![r] = 1]
    /\ UNCHANGED <<launch, loaded, desiredVars, stopping, keptVars, served,
                   poolVars, faults, ended>>

WithdrawElsewhere(r) ==
    /\ record[r] = "published"
    /\ launch[r].step \notin {"recorded", "placed"}
    /\ record' = [record EXCEPT ![r] = "removed"]
    /\ UNCHANGED <<owner, term, launch, loaded, desiredVars, stopping, keptVars,
                   served, poolVars, faults, ended>>

\* The pass holds what it wrote; a write of another replica it does not see.
OwnerWritten(r, o, here) ==
    /\ here => pass.at = "records" /\ pass.owners[r] = owner[r]
    /\ owner' = [owner EXCEPT ![r] = o]
    /\ pass' = IF here THEN [pass EXCEPT !.owners[r] = o] ELSE pass
    /\ UNCHANGED <<record, launch, loaded, desiredVars, stopping, keptVars,
                   served, materials, faults, ended>>

\* take_over and place_unowned: the intent replaces the owner's record.
Intend(r, m, here) ==
    /\ record[r] = "published"
    /\ owner[r] = NoOwner \/ (owner[r].granted /\ owner[r].member # m)
    /\ term[r] < MaxEpoch
    /\ here => r \in pass.desired /\ stopping[r] = NoMember
    /\ OwnerWritten(r, [member |-> m, epoch |-> term[r] + 1,
                        granted |-> FALSE], here)
    /\ UNCHANGED term

\* A grant that advances the epoch its intent already reserved.
GrantAdvancingAgain(r, here) ==
    /\ record[r] = "published"
    /\ owner[r] # NoOwner /\ ~owner[r].granted
    /\ here => r \in pass.desired /\ stopping[r] = NoMember
    /\ OwnerWritten(r, [owner[r] EXCEPT !.granted = TRUE, !.epoch = @ + 1], here)
    /\ term' = [term EXCEPT ![r] = owner[r].epoch + 1]

\* complete_takeover
Grant(r, here) ==
    /\ record[r] = "published"
    /\ owner[r] # NoOwner /\ ~owner[r].granted
    /\ here => r \in pass.desired /\ stopping[r] = NoMember
    /\ OwnerWritten(r, [owner[r] EXCEPT !.granted = TRUE], here)
    /\ term' = [term EXCEPT ![r] = owner[r].epoch]

\* remove_withdrawn_owners
RemoveOwner(r, here) ==
    /\ owner[r] # NoOwner
    /\ IF here THEN r \notin pass.desired ELSE record[r] = "removed"
    /\ launch[r].step \notin {"recorded", "placed"}
    /\ OwnerWritten(r, NoOwner, here)
    /\ UNCHANGED term

-------------------------------------------------------------------------------
(* The coordinator's launch and withdraw.                                   *)

\* place_launch: the instance is published with the owner of its launch term.
LaunchRecorded(r, m) ==
    /\ record[r] = "absent"
    /\ record' = [record EXCEPT ![r] = "published"]
    /\ owner' = [owner EXCEPT ![r] = Term(m, 1)]
    /\ term' = [term EXCEPT ![r] = 1]
    /\ launch' = [launch EXCEPT ![r] = [step |-> "recorded", member |-> m]]
    /\ UNCHANGED <<loaded, desiredVars, stopping, keptVars, served, poolVars,
                   faults, ended>>

PlaceOwnerUnannounced(r) ==
    LET o == Term(launch[r].member, 1) IN
    /\ launch[r].step = "recorded"
    /\ launch' = [launch EXCEPT ![r].step = "placed"]
    /\ placed' = [placed EXCEPT ![r] = o]
    /\ IF ~loaded \/ view.owners[r] = o
       THEN UNCHANGED <<view, ownedSince>>
       ELSE /\ view' = [view EXCEPT !.owners[r] = o]
            /\ ownedSince' = [ownedSince EXCEPT ![r] = revision]
    /\ UNCHANGED <<durableVars, loaded, revision, assigned, stopping, launched,
                   withdrawals, served, poolVars, faults, ended>>

PlaceOwner(r) ==
    LET o == Term(launch[r].member, 1) IN
    /\ launch[r].step = "recorded"
    /\ launch' = [launch EXCEPT ![r].step = "placed"]
    /\ placed' = [placed EXCEPT ![r] = o]
    /\ IF ~loaded \/ view.owners[r] = o
       THEN UNCHANGED <<revision, view, ownedSince>>
       ELSE /\ revision' = revision + 1
            /\ view' = [view EXCEPT !.owners[r] = o]
            /\ ownedSince' = [ownedSince EXCEPT ![r] = revision + 1]
    /\ UNCHANGED <<durableVars, loaded, assigned, stopping, launched,
                   withdrawals, served, poolVars, faults, ended>>

Assign(r) ==
    /\ launch[r].step = "placed"
    /\ launch' = [launch EXCEPT ![r].step = "done"]
    /\ launched' = launched \cup {r}
    /\ withdrawals' = withdrawals \ {r}
    /\ view' = [view EXCEPT !.desired = @ \cup {r}]
    /\ stopping' = [stopping EXCEPT ![r] = NoMember]
    /\ IF r \in Assigned
       THEN UNCHANGED <<revision, assigned>>
       ELSE /\ revision' = revision + 1
            /\ assigned' = [assigned EXCEPT ![r] = revision + 1]
    /\ UNCHANGED <<durableVars, loaded, ownedSince, placed, served, poolVars,
                   faults, ended>>

Unassign(r) ==
    LET o == view.owners[r] IN
    /\ launched' = launched \ {r}
    /\ withdrawals' = withdrawals \cup {r}
    /\ view' = [view EXCEPT !.desired = @ \ {r}]
    /\ assigned' = [assigned EXCEPT ![r] = 0]
    /\ stopping' = IF o = NoOwner THEN stopping
                   ELSE [stopping EXCEPT ![r] = o.member]
    /\ revision' = IF r \in Assigned \/ o # NoOwner THEN revision + 1
                   ELSE revision
    /\ ended' = ended \cup {r}

\* The other instances assigned here may be MAX_POOL_INSTANCES already: a new
\* one is refused, and withdrawn again.
AssignRefused(r) ==
    /\ launch[r].step = "placed"
    /\ r \notin Assigned
    /\ launch' = [launch EXCEPT ![r].step = "refused"]
    /\ Unassign(r)
    /\ UNCHANGED <<durableVars, loaded, ownedSince, placed, served, poolVars,
                   faults>>

\* The create request ended while its launch waited for the write's outcome;
\* what follows is not interrupted.
DropLaunch(r) ==
    /\ Fault
    /\ launch[r].step = "recorded"
    /\ launch' = [launch EXCEPT ![r].step = "dropped"]
    /\ UNCHANGED <<durableVars, loaded, desiredVars, stopping, keptVars,
                   served, poolVars, ended>>

\* The driver removes a generation, recovery finds one it no longer runs, or
\* the sweep one that ended; the lifecycle gate of the sandbox keeps them
\* from a launch in progress.
Withdraw(r) ==
    /\ record[r] # "absent"
    /\ launch[r].step \notin {"recorded", "placed"}
    /\ r \notin ended
    /\ Unassign(r)
    /\ UNCHANGED <<durableVars, launch, loaded, ownedSince, placed, served,
                   poolVars, faults>>

-------------------------------------------------------------------------------
(* One reconciliation pass.                                                 *)

BeginPass ==
    /\ pass.at = "idle"
    /\ pass' = [IdlePass EXCEPT !.at = "removing", !.todo = withdrawals]
    /\ UNCHANGED <<durableVars, launch, loaded, desiredVars, stopping,
                   keptVars, served, materials, faults, ended>>

\* The record is deleted, and only then the withdrawal forgotten.
RemoveWithdrawn(r) ==
    /\ pass.at = "removing"
    /\ r \in pass.todo
    /\ pass' = [pass EXCEPT !.todo = @ \ {r}]
    /\ \/ /\ record' = [record EXCEPT ![r] = "removed"]
          /\ withdrawals' = withdrawals \ {r}
          /\ UNCHANGED faults
       \/ /\ Fault
          /\ UNCHANGED <<record, withdrawals>>
    /\ UNCHANGED <<owner, term, launch, loaded, desiredVars, stopping, placed,
                   launched, served, materials, ended>>

\* listed_at: what update_pool keeps is what was placed or launched since.
Stamp ==
    /\ pass.at = "removing"
    /\ pass.todo = {}
    /\ pass' = [pass EXCEPT !.at = "stamped"]
    /\ placed' = NoOwners
    /\ launched' = {}
    /\ UNCHANGED <<durableVars, launch, loaded, desiredVars, stopping,
                   withdrawals, served, materials, faults, ended>>

\* A listing reads page after page and may miss rows.
ListingMisses(missed) ==
    IF missed = {} THEN UNCHANGED faults ELSE Fault /\ (loaded \/ FirstMayMiss)

ListOwners(missed) ==
    /\ pass.at = "stamped"
    /\ missed \subseteq {r \in Route : owner[r] # NoOwner}
    /\ ListingMisses(missed)
    /\ pass' = [pass EXCEPT
                  !.at = "owners",
                  !.owners = [r \in Route |-> IF r \in missed THEN NoOwner
                                              ELSE owner[r]]]
    /\ UNCHANGED <<durableVars, launch, loaded, desiredVars, stopping,
                   keptVars, served, materials, ended>>

Published == {r \in Route : record[r] = "published"}

\* confirm_absences: rows the listings lack but the published view, or an
\* owner, names are read again one by one.
ConfirmedOwners ==
    [r \in Route |-> IF /\ loaded
                        /\ pass.owners[r] = NoOwner
                        /\ view.owners[r] # NoOwner
                     THEN owner[r]
                     ELSE pass.owners[r]]

ConfirmedDesiredAsListed(listed, owners) == listed

ConfirmedDesired(listed, owners) ==
    LET suspects == {r \in Route : r \in view.desired \/ owners[r] # NoOwner}
                        \ (listed \cup withdrawals)
    IN  IF loaded THEN listed \cup (suspects \cap Published) ELSE listed

ListRecords(missed) ==
    /\ pass.at = "owners"
    /\ missed \subseteq Published
    /\ ListingMisses(missed)
    /\ LET owners == ConfirmedOwners IN
       pass' = [pass EXCEPT
                  !.at = "records",
                  !.owners = owners,
                  !.desired = ConfirmedDesired(
                                  Published \ (missed \cup withdrawals),
                                  owners)]
    /\ UNCHANGED <<durableVars, launch, loaded, desiredVars, stopping,
                   keptVars, served, materials, ended>>

\* load_materials: of the desired instances owned by members served here;
\* an instance whose material does not load now is tried by the next pass.
LoadMaterials(failed) ==
    LET wanted == {r \in pass.desired : pass.owners[r].member \in served} IN
    /\ pass.at = "records"
    /\ failed \subseteq wanted \ materials
    /\ IF failed = {} THEN UNCHANGED faults ELSE Fault
    /\ materials' = wanted \ failed
    /\ pass' = [pass EXCEPT !.at = "materials"]
    /\ UNCHANGED <<durableVars, launch, loaded, desiredVars, stopping,
                   keptVars, served, ended>>

MergedOwnersAsListed(passed) ==
    [r \in Route |-> IF pass.owners[r].granted /\ r \notin passed
                     THEN pass.owners[r] ELSE NoOwner]

\* update_pool: what was placed, launched and withdrawn here since listed_at
\* is kept over what the pass read.
MergedOwners(passed) ==
    [r \in Route |-> IF pass.owners[r].granted /\ r \notin passed
                     THEN pass.owners[r] ELSE placed[r]]

MergedDesiredAsListed == pass.desired \cup launched

MergedDesired == (pass.desired \cup launched) \ withdrawals

MergedAssignments ==
    (materials \cup (launched \cap Assigned)) \ withdrawals

\* view and update_pool.  An owner a served member was granted is left out
\* once its credentials cannot be minted because its term has passed, and
\* the members, reports and credentials of the view may have changed as well.
UpdatePool(passed, changed) ==
    LET owners == MergedOwners(passed)
        desired == MergedDesired
        new == [desired |-> desired,
                owners |-> owners,
                assignments |-> MergedAssignments]
        stops == [r \in Route |->
                    IF r \in desired THEN NoMember
                    ELSE IF stopping[r] = NoMember /\ loaded /\ r \in view.desired
                         THEN view.owners[r].member ELSE stopping[r]]
        Stops(s) == {r \in Route : s[r] # NoMember}
        same == Cardinality(Stops(stops)) = Cardinality(Stops(stopping))
        next == revision + 1
    IN
    /\ stopping' = stops
    /\ IF loaded /\ new = view /\ same /\ ~changed
       THEN UNCHANGED <<loaded, desiredVars>>
       ELSE /\ loaded' = TRUE
            /\ revision' = next
            /\ view' = new
            /\ ownedSince' = [r \in Route |->
                 IF owners[r] = NoOwner THEN 0
                 ELSE IF owners[r] = view.owners[r] /\ ownedSince[r] # 0
                      THEN ownedSince[r] ELSE next]
            /\ assigned' = [r \in Route |->
                 IF r \notin new.assignments THEN 0
                 ELSE IF r \in Assigned THEN assigned[r] ELSE next]

PassedTerms == {r \in Route : /\ pass.owners[r].granted
                              /\ pass.owners[r].epoch > 1
                              /\ pass.owners[r].member \in served
                              /\ term[r] > pass.owners[r].epoch}

Publish(passed, changed) ==
    /\ pass.at = "materials"
    /\ passed \subseteq PassedTerms
    /\ UpdatePool(passed, changed)
    /\ IF changed THEN Fault ELSE UNCHANGED faults
    /\ pass' = IdlePass
    /\ UNCHANGED <<durableVars, launch, keptVars, served, materials, ended>>

\* A failed read ends the pass, as do takeover credentials that cannot be
\* minted; the published view stays.
AbandonPass ==
    /\ Fault
    /\ pass.at \in {"stamped", "owners", "records", "materials"}
    /\ pass' = IdlePass
    /\ UNCHANGED <<durableVars, launch, loaded, desiredVars, stopping,
                   keptVars, served, materials, ended>>

\* POOL_STOP_RETENTION has passed for a stop.
ForgetStop(r) ==
    /\ Fault
    /\ stopping[r] # NoMember
    /\ stopping' = [stopping EXCEPT ![r] = NoMember]
    /\ UNCHANGED <<durableVars, launch, loaded, desiredVars, keptVars, served,
                   poolVars, ended>>

-------------------------------------------------------------------------------
(* The gateway's streams and its restart, as the controller sees them.      *)

Attach(m) ==
    /\ m \notin served
    /\ served' = served \cup {m}
    /\ UNCHANGED <<durableVars, launch, loaded, desiredVars, stopping,
                   keptVars, poolVars, faults, ended>>

Detach(m) ==
    /\ Fault
    /\ m \in served
    /\ served' = served \ {m}
    /\ UNCHANGED <<durableVars, launch, loaded, desiredVars, stopping,
                   keptVars, poolVars, ended>>

Restart ==
    /\ Fault
    /\ revision # 0
    /\ loaded' = FALSE
    /\ revision' = 0
    /\ view' = EmptyView
    /\ assigned' = [r \in Route |-> 0]
    /\ ownedSince' = [r \in Route |-> 0]
    /\ stopping' = [r \in Route |-> NoMember]
    /\ placed' = NoOwners
    /\ launched' = {}
    /\ withdrawals' = {}
    /\ materials' = {}
    /\ pass' = IdlePass
    /\ launch' = [r \in Route |->
                    IF launch[r].step \in {"recorded", "placed"}
                    THEN [launch[r] EXCEPT !.step = "dropped"]
                    ELSE launch[r]]
    /\ served' = {}
    /\ ended' = ended \ withdrawals
    /\ UNCHANGED durableVars

-------------------------------------------------------------------------------
RecordStep ==
    \E r \in Route :
        \/ \E m \in Member : PublishElsewhere(r, m) \/ LaunchRecorded(r, m)
        \/ WithdrawElsewhere(r)
        \/ \E here \in BOOLEAN :
              \/ \E m \in Member : Intend(r, m, here)
              \/ Grant(r, here)
              \/ RemoveOwner(r, here)

LaunchStep ==
    \E r \in Route : PlaceOwner(r) \/ Assign(r) \/ AssignRefused(r)

PassStep ==
    \/ BeginPass \/ Stamp
    \/ \E r \in Route : RemoveWithdrawn(r)
    \/ \E missed \in SUBSET Route :
          ListOwners(missed) \/ ListRecords(missed) \/ LoadMaterials(missed)
    \/ \E passed \in SUBSET Route, changed \in BOOLEAN :
          Publish(passed, changed)

ControllerFault ==
    \/ AbandonPass
    \/ \E r \in Route : DropLaunch(r) \/ ForgetStop(r)

ControllerNext ==
    \/ RecordStep \/ LaunchStep \/ PassStep \/ ControllerFault \/ Restart
    \/ \E r \in Route : Withdraw(r)
    \/ \E m \in Member : Attach(m) \/ Detach(m)

ControllerSpec == ControllerInit /\ [][ControllerNext]_controllerVars

-------------------------------------------------------------------------------
(* Properties                                                               *)

\* update_pool against a pass that read the records before a withdrawal: an
\* instance withdrawn through this gateway is never served again, neither
\* while its record is still to be removed nor after.
WithdrawnStays == view.desired \cap ended = {} /\ Assigned \cap ended = {}

\* update_pool against a pass that read the records before a launch: once a
\* launch through this gateway returned, its instance stays desired here
\* until it is withdrawn, and its owner known while the launch term lasts.
LaunchesKept ==
    \A r \in Route :
        /\ loaded
        /\ launch[r].step = "done"
        /\ record[r] = "published"
        /\ r \notin ended
        => /\ r \in view.desired
           /\ owner[r] = Term(launch[r].member, 1) => view.owners[r] = owner[r]

\* The stop list of a member's snapshot.
StopRoutes(m) ==
    {r \in Route : \/ stopping[r] = m
                   \/ /\ view.owners[r].member = m
                      /\ r \notin view.desired
                      /\ stopping[r] = NoMember}

\* A member is told to stop an instance only once its record is removed, it
\* was withdrawn here, or its launch is about to assign it: never because a
\* listing missed a row, or was made before the one it is compared with.
OnlyEndedStopped ==
    loaded =>
        \A r \in Route, m \in Member :
            r \in StopRoutes(m) =>
                \/ record[r] = "removed"
                \/ r \in ended
                \/ launch[r].step = "placed"

\* What the streams rely on, ServedView: nothing a snapshot shows changes
\* without a new revision, and terms and assignments are dated right.
Served ==
    INSTANCE ServedView WITH
        desired <- view.desired,
        owners <- [r \in Route |-> [member |-> view.owners[r].member,
                                    epoch |-> view.owners[r].epoch]]

ImplementsServedView == Served!ViewSpec
=============================================================================
