# OpenShell: TLA+ models and proofs of the gateway's replicated state

OpenShell runs agents in sandboxes. A *gateway* (`crates/openshell-server`), one
process or several replicas over one database, creates sandboxes through compute
drivers. A *supervisor* enforces each sandbox's policy. Shared supervisor hosts
form a *pool*: each host is a member, and the gateway replicas decide together
which member supervises which sandbox instance, under which credentials.

This directory models the parts that are hardest to test: what several gateway
replicas do at once to rows they share, when each may stall or crash between any
two accesses; what a replica serves to its hosts while the pool's records change
under it; what a host makes of it over streams that break; and whose stream a
sandbox is served by. TLC checks the models on small instances, and TLAPS proves
the safety properties for instances of any size.

## Contents

| File | What it is |
| --- | --- |
| `ObjectStore.tla` | compare-and-swap on one row of the object store |
| `SupervisorPool.tla` | ownership: owner records, capacity rows, takeovers, launches |
| `FencedTerms.tla` | the abstract promise: one holder per credential epoch |
| `SupervisorPoolProofs.tla` | types, one holder per term, the refinement, charges and capacity, granted terms, published owners |
| `PoolRecording.tla` | instance records and their launch material |
| `PoolRecordingProofs.tla` | material is owned and kept, published records stay |
| `ReconcilerLease.tla` | the lease that elects the replica running the loops |
| `ReconcilerLeaseProofs.tla` | types; a matching guard is the holder's |
| `ServedView.tla` | the abstract promise of a controller to the streams it serves |
| `HostController.tla` | the controller of one replica and the pass that feeds it; implements `ServedView` |
| `HostControllerProofs.tla` | withdrawals and launches keep, only ended instances are stopped, the refinement of `ServedView` |
| `HostSession.tla` | a host's stream, worker and registry, over any `ServedView` |
| `HostSessionProofs.tla` | what the gateway concludes from a host's reports |
| `MutationLocks.tla` | gates, local keys, lock connections, advisory keys, SSH identity lock |
| `MutationLocksProofs.tla` | mutual exclusion of conflicting operations, no circular wait |
| `CredentialRefresh.tla` | the refresh of one provider credential |
| `CredentialRefreshProofs.tla` | grants stay stored, tombstones are final, no grant is presented twice |
| `SupervisorSessions.tla` | owner record, registries and readiness of one sandbox's supervisor sessions |
| `SupervisorSessionsProofs.tla` | whose record a session touches, later terms are kept, owners are Ready |
| `MC*.tla`, `*.cfg` | instances for TLC |
| `PROJECT.json` | components, runs, mutants, source map, findings, hazards, theorems |

## Inventory of the system

**Supervisor pool** (`supervisor_pool.rs`). Keeps, in the object store, per route
(one runtime generation of one sandbox) an instance record and an owner record,
per member a member row and a capacity row, plus candidate rows for launch
material; in memory, withdrawals and caches. Each replica runs `reconcile_once`
every `RECONCILE_INTERVAL` (2 s): it writes member rows, removes withdrawn
instances, fences overdue records, collects material, lists members, owners and
instances, and for every route places, takes over, completes an intent, or
removes an owner. Then it mints takeover credentials and publishes a view to the
controller. A launch (`place_launch`) records the instance and its owner from
another task. Hard: every replica does all of this concurrently on the same rows,
a decision is many awaits older than its write, and any of them may die half way.
Correct means: one holder per ownership term, no overfilled member, no owner
without an instance, no intent left pending, no material deleted under a live
record and none left behind.

**Sandbox session identity** (`auth/sandbox_session.rs`). The sandbox row's
annotations: runtime generation, credential epoch, current gateway token. A
takeover advances the epoch; a refresh rotates the token at the same epoch; a
start of the sandbox makes a new generation at the next epoch. The pool's fence
rests on this row, which it cannot write together with its own.

**Object store** (`persistence/`). Rows with a resource version, `put_if`,
`delete_if`, `write_atomically` on SQLite and PostgreSQL. An insert writes
version 1 also for an id that existed before.

**Reconciler lease** (`compute/lease.rs`, `compute/mod.rs`). One row; its holder
runs the watch, reconcile, provisioning and restart loops. Correct means: a
replica that lost the lease gives up, and an expired lease is taken.

**Controller and coordinator** (`openshell-supervisor-control`). Keeps in the
memory of one replica the desired instances, their assignments and owners, each
with the revision that introduced it, the routes to stop, and what launches and
withdrawals did since the last listing. `assign`, `unassign`, `place_owner` and
`update_pool` change it from three kinds of task; every member stream derives
snapshots from it. Hard: a pass reads its listings over many awaits and applies
the result to a controller that moved meanwhile; listings miss rows; a gateway
starts with nothing. Correct means: nothing withdrawn comes back, no launch is
dropped, no live instance is stopped, and every change reaches the streams.

**Supervisor hosts** (`shared_host.rs`, `sandbox_instance_host.rs` of
`openshell-supervisor`). A host process keeps a registry of instances, a worker
that applies one snapshot at a time, and one stream at a time to some gateway.
It admits, keeps and removes instances, reports them, and retries what it had to
defer. Hard: the stream ends while a snapshot is applied, the next gateway
counts revisions from zero, files of a stopped instance cannot be deleted.
Correct means: no report is counted for another term, absence is concluded, where
the pool does not report the route expired, only from a host that left the term
unstarted for want of room, and host and view agree in the end.

**Mutation locks** (`persistence/mutation_lock.rs`, `lock_order.rs`,
`compute/mutation_guard.rs`, the PostgreSQL lock pool). An operation takes some
of: a lifecycle gate, keys of a process-local table, a connection of the lock
pool, advisory locks on it, the SSH identity lock. Hard: acquisitions time out or
are cancelled at every point, sessions outlive requests, and the lock pool is
small. Correct means: conflicting operations exclude one another, no circle of
waits, and every acquisition is decided.

**Credential refresh** (`openshell-credential-issuer/src/refresh/`,
`grpc/provider.rs`). A refresh row names the grant presented to an issuer, grants
replaced but not yet deleted, a generation and a status. Workers of all replicas
refresh it under an advisory lock; requests configure and delete it without; a
sweep finishes deletions. Hard: the issuer may rotate the grant when it is
presented, so a presentation whose outcome was lost must not be repeated; rows,
material and the provider's credential are three stores. Correct means: a grant
is not presented twice without knowing the first outcome, the material of a live
row stays, a deletion is final and complete, no row stays in flight.

**Supervisor owner directory and sessions** (`supervisor_owner.rs`,
`supervisor_session.rs`, parts of `compute/mod.rs`). The owner record in the object
store says which replica holds a sandbox's stream, until when and in which term;
each replica keeps the sessions it serves in memory; the sandbox's phase says
whether one exists. A connection publishes, registers and marks the sandbox Ready,
its end takes these back in the reverse sense, and a reconciliation composes the
phase from driver and record. Hard: a reconnect on another replica, or a later
term, overtakes the setup or the cleanup of the session it replaces, and the
three are changed one after the other with nothing that spans replicas. Correct
means: no session touches the record of another, a record does not go back a
term, a late cleanup does not leave a served sandbox unready, and in the end the
sandbox is Ready exactly if one session is served.

**Configuration delivery** (`config_delivery/`). Revisioned delivery to sessions,
with acknowledgements; out-of-order acknowledgements and reconnects are hard.

**Gateway members and ring** (`gateway_members.rs`, `gateway_ring.rs`). Replica
membership with a TTL and a hash ring.

**Compute lifecycle** (`compute/mod.rs`, `provisioning_*.rs`, `image_update.rs`).
Phases of a sandbox, deadlines, restarts, staged image updates.

**The rest**: gRPC translation and authorisation, policy language and prover,
drivers, supervisor and sandbox processes, middleware, clients, observability.
They are input and output, pure data processing, or adapters to services outside
the repository, and carry no replicated protocol of their own.

`PROJECT.json` lists all of these with their status, and under "hazards" each
place where this code can go wrong in a way a test would hardly reach.

## Modules and the code

### ObjectStore

`SameVersion` is the condition of `put_if` (`MustCreate` is version 0),
`delete_if` and each row of `write_atomically`. `NextVersion` is the version a
write leaves; a deleted row is at version 0 again, so versions repeat. That
repetition is the source of several findings below.

### SupervisorPool

| Variable | In the code |
| --- | --- |
| `process`, `memberRow` | a member's process; `MemberPayload` rows (a stale row reads as none) |
| `owner` | `OwnerPayload` with its resource version |
| `capacity` | `CapacityPayload` with its resource version |
| `instance` | instance records of phase `Admitting` or `Published`, with their writer |
| `identity` | `PersistedSandboxIdentity` and the sandbox's phase |
| `launchEpoch` | the epoch a generation was launched with |
| `withdrawn` | withdrawals a replica keeps in memory |
| `work` | local variables of each pass and launch |
| `lastId`, `intents`, `minted`, `removed` | history: fresh ids, recorded intents, minted credentials, routes whose owner record was ever removed |

A worker is a replica's pass or a launch. Every access to the store is a step:
`ListMembers`, `ListOwners`, `ListInstances` (the listings of `reconcile_once`,
in its order), `Dispatch` (the match over a listed owner), `ConfirmFailure`
(`owner_failure`), `ReadIdentity` (`place_unowned`), `ChooseTarget`/`NoTarget`
(`candidates`), `ReadTarget`, `ReadSource`, `WriteOwner`, `WriteConflicts`
(`transition_admitting` and `reconciled`), `CompleteTakeover`, `View`,
`RemoveOwner`, `LeaveOwner`, and for launches `ListTargets`, `RecordAdmitting`,
`GiveUpAdmission`. `Fail` loses what a worker read. Applied writes whose reply
fails are part of `WriteOwner`.

Abstractions:

* A grace period or a retention may have elapsed at any moment.
* A pass lists once and handles its routes in turn. The model lists per route.
  Routes meet only in capacity rows, which the code re-reads per change.
* Which target comes first (ring, load) is left open.
* A member row is read and replaced in one step, and so is the sandbox row in
  `advance_identity_for_takeover`; both are loops of compare-and-swap in the code.
* After a conflict the owner, and for a launch the instance, are read in the same
  step.
* The two UUIDs of a takeover term are one fresh id. That
  `takeover_credentials` may cache by route and epoch alone is justified by
  `OneHolderPerTerm`.
* Removing a withdrawn instance is one step here; `PoolRecording` splits it.
* The code's skip of routes that are being stopped is one of the ways a pass may
  do nothing for a route.

### FencedTerms

What a sandbox relies on: its epoch only grows, a term has at most one holder,
fixed when the term starts, and credentials are issued only to the holder of the
term in force. `SupervisorPool!Terms` maps the epoch to the sandbox row's, the
holder to the intent that started the row's token lineage (none for a launch
term), and issued credentials to `minted`.

### PoolRecording

One route. `record` is the instance row with its recording (the row id contains
the writer's UUID), `material` the credential store, `candidate` the rows that
own material not yet held by a record. Actions follow `record_assignment_as`
(`Read`, `Reserve`, `ReadWinner`, `StoreMaterial`, `Stage`, `DropMaterial`,
`Unreserve`, `Publish`, `DiscardMaterial`, `ForgetCandidate`), `place_launch`
(`Admit`, `LaunchedOwner`, `Refuse`, `GiveUpAdmission`, `Settle`),
`delete_assignment` (`ReadWithdrawn`, `DeleteMaterial`, `DeleteRow`),
`fence_stale_reservations` (`List`, `Fence`), `remove_stale_candidates`
(`ListCandidate`, `CheckCandidate`, `CollectMaterial`, `CollectCandidate`) and
`sweep_ended_instances` (`Sweep`). Ownership is reduced to whether an owner
record exists; `PlaceUnowned` and `RemoveOwner` stand for `SupervisorPool`.
A publication that fails goes on with `DiscardMaterial` whether it met another
row, was not applied, or was applied with its reply lost (`MayLoseReply`).
`unstaged` and `superseded` remember the two cases in which material has lost its
owner, so that `MaterialOwned` can except exactly those. The limit of candidates
per pass is left out: the fairness of `ListCandidate` assumes a candidate is
listed again and again until it is settled.

### ReconcilerLease

The row with its version, holder and whether it is older than its TTL, and per
replica where `lease_coordinator` and `run_as_holder` are. `TryAcquire`,
`ReadLease`, `StealExpired`, `Renew`, `Release` are the accesses of `lease.rs`;
`Drain` and `Leave` wait for the cancelled loops; `FailAttempt` and the second
disjunct of `Hold` are store errors before and after a write applied. `Expire`
may happen at any moment, so clock skew and stalls need no further modelling.

### ServedView

What snapshots are derived from, under one revision: desired routes, owners with
their terms, assignments, stops. Its next-state relation is a promise: a change of
what some member's snapshot contains comes with a new revision (a stream watches
the revision and nothing else), a term and an assignment are dated by the
revision that introduced them, and a change without a revision is one that no
member's snapshot shows.
`Snapshot` is `snapshot` of `controller.rs`.

### HostController

| Variable | In the code |
| --- | --- |
| `record`, `owner`, `term` | published instance records, owner records, the sandbox's epoch (durable) |
| `launch` | the steps of a launch in `coordinator.rs` and `place_launch` |
| `loaded`, `revision`, `view`, `assigned`, `ownedSince`, `stopping` | fields of `Desired` and `Pool` |
| `placed`, `launched`, `withdrawals` | what `update_pool` must keep of the time since `listed_at` |
| `served` | members with a stream to this replica |
| `materials` | the pool's cache of launch material |
| `pass` | local variables of `reconcile_once` |
| `ended` | history: routes withdrawn through this gateway |

A launch goes `LaunchRecorded`, `PlaceOwner`, `Assign` (or `AssignRefused`,
`DropLaunch`); `Withdraw` and `Unassign` end it. A pass goes `BeginPass`,
`RemoveWithdrawn`, `Stamp` (`listed_at`), `ListOwners`, `ListRecords`,
`LoadMaterials`, `Publish` (which is `update_pool`); `AbandonPass` is an error
anywhere. `PublishElsewhere`, `WithdrawElsewhere`, `Intend`, `Grant` and
`RemoveOwner` are what this and other replicas do to the records; how, is
`SupervisorPool`'s subject. `ListOwners` and `ListRecords` may miss rows,
`ConfirmedOwners` and `ConfirmedDesired` are the confirmation against the
published view. `Restart` loses all memory.

The code reads the withdrawals just before it lists the records
(`supervisor_pool.rs` 2144-2158); in `ListRecords` both are one step. A withdrawal
that falls between the two leaves a listing with a route in it that is withdrawn
by now. This is what a listing made before the withdrawal has as well, and
`update_pool` takes withdrawals out of either. While a pass lists, withdrawals are
only added: those it settles itself it removed earlier, and a launch forgets one
by recording the instance again.

### HostSession

The view is any behaviour of `ServedView`, so that what is shown of the session
holds for what `HostController` implements. `SendSnapshot`, `RecordStatus` and
`EndSession` are `run_session`; `Connect`, `LoseStream`, `ReceiveSnapshot`,
`Acknowledge`, `ReportChange` and `SubmitRetry` are `run_stream` and the attach
loop; `BeginReconcile`, `BeginCleanup`, `Admit`, `AdmitFails`, `AdmitRemoving`,
`Depart`, `Relinquish`, `BeginRemoval`, `RemoveWithdrawn` and `FinishJob` are the
worker and the registry. Messages of a stream arrive in order or not at all.
`RestartGateway` starts revisions at zero while the host and its worker go on.

`Observed` is `observed` of `controller.rs`, with all of its outcomes. `expired` is
`PoolView.expired`, which no snapshot contains; a route in it is taken for absent
whatever its member reports. That a route expires is an input of the view, since
it rests on a clock (`expired_routes`: the recovery deadline and `MEMBER_TTL` have
passed since the owner's process was last found live); `MemberReturns` is the pass
that finds the member live again and its routes no longer expired. Until then the
view may have a route expired whose member already streams again and hosts it.

Two things are added to what the protocol's reports have, to state with them what
the gateway may conclude, and no guard reads them. `terms` has the term of each
instance described (`ReportsOfTheirTerm`). `unstarted` has the term of each
assigned instance that the last reconciliation left out while those it was to
run, new, hosted and kept, were `MaxAssigned` or more
(`NoFalseAbsence`): `within_capacity` leaves out such instances without a report.
`NoFalseAbsence` then says that a route which is assigned and not expired is taken
for absent only if the last recorded report is of a reconciliation that left this
very term unstarted so. It would be violated if a report came too early, if a
failed admission was not reported, or if a member left out what it has room for.

A behaviour starts with one of the constant's `Bounds`: which routes the view may
change, which it assigns to the member all along, which may expire, and how many
faults there are.

### MutationLocks

Every lock is a fair queue (tokio's `RwLock`, `Mutex`, `Semaphore`; PostgreSQL's
lock table). `Begin` chooses an operation and joins the gate's queue if its path
has one; `WaitLocal`/`HoldLocal` take the local keys in ascending order,
`WaitSlot` a connection, `WaitAdvisory`/`Hold` the advisory keys in ascending
order, `WaitIdentity`, `WaitIdentityKey`, `Identify`, `LeaveIdentity` the SSH
identity lock under all of them. `GiveUp` is a timeout or a cancellation at any
point; `GiveUpIdentity` is a wait for the identity's advisory key that times out or
fails, after which the create goes on to give up its guard. Local locks go with the request; `Unlock`, `ReturnSlot` and
`CloseIdentity` happen later, in tasks of their own. `LoseSession` is a lost
connection. Two abstractions: a create that is cancelled while its detached
identity worker runs keeps its guard until the worker ends; and the gate a
deadline takes after dropping its keys is a separate operation.

### CredentialRefresh

One credential. `row` has the id, version, generation (`epoch`), status, grant,
pending deletions and the last mint; `stored` is the credential driver's
material; `provider` the generation of the credential the provider holds. A
worker goes `Observe`, `Acquire`, `Check`, `Read`, `DeletePending`,
`ClearPending`, `Mark`, `Mint`, `Stage`, `Claim`, `Apply`, `Complete`, with
`RecordFailure` and `EndCleanup` on the other paths, and `GiveUp`, `ClaimFails`,
`ApplyFails`, `Crash`, `LoseLock` as failures. A request goes `Configure`,
`StageConfigured`, `StoreConfigured`, or `Delete`, `Tombstone`, `Purge`,
`Remove`; the sweep reaches `Tombstone` by `ListTombstone` and `FindTombstone`.
`unsettled` collects presented grants without a recorded outcome. A backoff or an
expiry may have elapsed at any moment. A worker stands for a replica, whose local
lock admits one refresh of the credential at a time.

### SupervisorSessions

One sandbox. `record` is the owner record with its version and freshness,
`registry` the sessions each replica has in memory, `ready` the phase, `term` the
credential epoch that bearers carry, `session` the progress of each connection.
`Connect`, `Redirect` and `Disconnect` are `handle_connect_supervisor`;
`ReadOwner`, `Publish` (`publish_term`), `Register` (`register_term`),
`Initialize`, `Connected` (`supervisor_session_connected`) and `Accept` are
`accept_supervisor_session`; `Renew`, `Close` and `CloseShutdown` the session loop
with `finish_supervisor_session`; `Release` and `Delete` are `release_if_current`;
`BeginDemotion`, `CheckOwner`, `Demote`, `CheckRestored` and `Restore` are
`supervisor_session_disconnected`, under the replica's lock; `BeginSweep`,
`SweepOwner` and `SweepWrite` are `reconcile_snapshot_sandbox`. A session that is
replaced on its replica after `is_current_session` and before the write of its
renewal still renews (`RenewReplaced`). `Expire...`, `...Fails`,
`RenewUnanswered`, `Shutdown` and `Crash` are the faults.

Abstractions: a loop of compare-and-swap on the sandbox row is one step; a
snapshot whose row was written since it was read has no effect; the wait of a
redirected session for its replacement delays its release, and nothing more; the
sandbox is running, and its driver reports no readiness of its own; every bearer
has a term (sessions without one are of gateways before terms were recorded).
Sessions are numbered as they connect, so their numbers are also the connection
epochs of a supervisor. `released` is set when the record is deleted while another
session still goes by a version of it: versions then begin again, and a session
that stalled over that and two publications can match another's record, which
`OnlyOwnRecord`, `LaterTermKept` and `OwnedIsReady` except.

## Runs

The bounds are constants of the models and are named in their declarations.

| Run | Instance | Shows |
| --- | --- | --- |
| `pool_takeover` | 2 members, 2 replicas that may fail, 1 sandbox, 3 epochs, 2 intents | `OneHolderPerTerm`, `GrantedTermInForce`, `TermsAdvance` |
| `pool_capacity` | 2 members with one slot, 1 replica, 1 launch, 2 sandboxes | `TypeOK`, `CapacityBounded`, `ChargedExactly`, `OwnersPublished` |
| `pool_generations` | 2 generations of a sandbox, a member that restarts and leaves, withdrawals | `ImplementsFencedTerms` |
| `pool_liveness` | 2 replicas, one of which may die | `IntentsResolved` |
| `recording` | 2 launches and 2 replicas, all of which may fail anywhere | `TypeOK`, `MaterialOwned`, `KeptMaterial`, `PublishedStays` |
| `recording_liveness` | 1 launch, 1 recovery, lost replies, 1 replica | `EndedInstancesRemoved`, `CandidatesSettled` |
| `lease` | 3 replicas, one with store errors and shutdowns, 2 crashes, 4 versions | `TypeOK`, `GuardsOwnLease`, `LostLeaseNoticed`, `ExpiredLeaseTaken` |
| `host_controller` | 1 route, 2 members, 2 terms, 2 failures, missed rows or restarts | `ControllerTypeOK`, `WithdrawnStays`, `LaunchesKept`, `OnlyEndedStopped`, `ImplementsServedView` |
| `host_session` | 2 terms, 2 revisions per gateway process, one place; 1 route and 1 fault, or 1 route beside another that is assigned, or 1 route that may expire | `ReportsOfTheirTerm`, `NoFalseAbsence`, `HostConverges` |
| `locks` | 3 tasks on 2 replicas with one lock connection each, 1 workspace, 1 sandbox | `TypeOK`, `ConflictsExcluded`, `NoCircularWait`, `AcquisitionsDecided` |
| `credential_refresh` | 2 workers, 1 operator and the sweep, 2 refreshes, 2 changes, 1 fault | `GrantStored`, `GrantNotReused`, `TombstoneFinal`, `RefreshesDecided`, `TombstonesRemoved` |
| `sessions` | 2 connections of 1 or 2 supervisors to 1 or 2 replicas, 2 terms, 1 shutdown, 1 fault | `OwnedIsReady`, `OnlyOwnRecord`, `LaterTermKept`, `ReadinessSettles` |

Why the bounds suffice: the races of owner changes need two workers on one route
(a stale one and a current one) and one more term than each holds, hence two
replicas, two intents and three epochs; capacity races need two routes and one
slot; a launch that gives up needs a rival on its own route, hence two recording
launches. A view that is stale needs one route that is launched, moved and ended
while a pass reads, hence one route with two terms and two members. A report of
an earlier term needs two terms and a stream that ends between them, and one
fault for the stream or the restart; want of room needs a second route that keeps
the only place or competes for it; an expiry needs neither. A circle of waits between replicas needs two
tasks that share a replica's only connection and a third elsewhere; the sandbox's
key sorts before the global one and the workspace's after it, so that the order
of keys is not that of the hierarchy. A grant presented twice needs two workers
and a crash between them; a replaced row needs two changes. A session that is
replaced needs two connections; the first is to one replica by one supervisor, up
to renaming, the second is free, and only the first one's steps and replica fail.
With two connections a publication conflicts once, so two attempts stand for
`PUBLISH_ATTEMPTS` (3). Symmetry is used for
members, replicas and launches where they are bounded alike, and only for safety
properties.

The `TypeOK` of `HostSession`, `CredentialRefresh` and `SupervisorSessions` are no
part of their runs: they say what the variables hold, and can be added to the
configurations as invariants.

`CHECK_DEADLOCK FALSE` is set for the recording runs: recordings are finitely
many, and once they are over and everything is collected the system has nothing
left to do. So it is for the refresh run, whose requests are bounded.

## Known disagreements

Where the code differs from what its comments say. The definition that states the
comment is in the module, and TLC violates it when it is checked in place of the
run's properties; where a configuration is named, it does so.

* `CredentialRefresh!MintedOnce` (`RefreshLostLock.cfg`; `refresh/engine.rs` 593). The comment before the mark says that a "lost
  advisory-lock session cannot lead another replica to reuse the grant". A worker
  checks under the lock that the row is not in flight and then loses its session.
  A second worker takes the lock, marks the row and presents the grant. The first
  one reads the row again without looking at its status, finds the mark of the
  other, marks it once more at the version it just read, and presents the grant
  while the earlier presentation has no recorded outcome.
  `GrantNotReused` holds for behaviours in which no session was lost.
* `CredentialRefresh!ReplacementPreserved` (`refresh/engine.rs` 1061, 97-110): the
  sweep lists a tombstone and then resolves its name again; if the name was
  configured anew in between, the sweep deletes the new refresh.
* `CredentialRefresh!StaleMintDiscarded` (`refresh/engine.rs` 752-759, 806): a
  refresh that claimed its generation writes the provider's credential after a
  configuration replaced the row.
* `misled` in `CredentialRefresh` (`grpc/provider.rs` 5289-5305): a configuration
  that was stored and whose reply failed deletes the grant it just stored.
  `GrantStored` excepts these grants.
* `SupervisorPool!ChargesMatchOwners` (`PoolChargeDrift.cfg`): a capacity row that
  already reads right is not part of the atomic write. A pass reads member m
  charged for the route, another replica cancels the intent that charged it, the
  owner row is gone, and the first pass then creates an owner record naming m
  without charging it. `CapacityBounded` and `ChargedExactly` are therefore stated
  for routes that never had an owner record removed.
* `SupervisorPool!PassedTermsReplaced` (`PoolPassedTerm.cfg`): a stalled grant
  finds a later intent at the version of its own, overwrites it, and the later
  intent's replica advances the epoch. The granted record stays behind the epoch
  for as long as its member lives, and `view` skips it on every pass.
* `PoolRecording!MaterialCollected` (`RecordingLeak.cfg`): a fenced launch that
  settles for another launch's owner releases its own candidate; its material
  stays.
* `PoolRecording!KeptMaterial` with `MayLoseReply` (`RecordingLostReply.cfg`): a
  publication that applied, with an error as its reply, is followed by the
  deletion of the published material.
* `HostController` with `FirstMayMiss = TRUE`: `OnlyEndedStopped` and
  `LaunchesKept` fail. A listing is confirmed against the published view, "which
  a missed row must never cause" to lose an instance (`supervisor_pool.rs`
  1093-1105); a gateway that has just started has no such view.
* `HostSession` with `MayUnload = TRUE`: `ReportsOfTheirTerm` fails. A term that is
  served as an assignment, then only as kept, and then as an assignment again, is
  dated by its first snapshot (`controller.rs` 672-677), so a report made between
  two terms can be counted.
* `HostSession!ReservedRoutesAdmitted` (`sandbox_instance_host.rs` 373-375,
  `shared_host.rs` 577-578, 633-634): "the next removal tries again" to delete the
  files of a stopped instance, but a route that is assigned again is retried as an
  admission, which never deletes them. `HostConverges` excepts such routes.

Two smaller matters of the same kind are visible in the models without a run of
their own. A delete of a withdrawn record that conflicts with a publication or an
admission counts as a removal and the withdrawal is forgotten (`DeleteRow`);
`EndedInstancesRemoved` shows that the sweep repairs this once the generation
ended. And a lease that was released and acquired again restarts at version 1,
where a holder that stalled throughout renews over another replica's lease: hence
the exceptions in `GuardsOwnLease` and `LostLeaseNoticed`. The module comment of
`lease.rs` calls the lease an optimisation, so this costs duplicate work until
the other holder's next renewal.

## Fairness

* `SupervisorPool`: a replica outside `MayFail` takes its next step eventually,
  since passes run on a timer; a removal that waits for a retention is repeated
  on every pass and is eventually due (strong fairness of `RemoveOwner`), and a
  pass decides on every route it lists (strong fairness of `ListMembers` per route).
  Members, sandboxes, launches and failing replicas owe nothing.
* `PoolRecording`: a pass that was begun is finished (weak fairness), and every
  pass runs every phase, so what a phase would find at infinitely many passes it
  takes up (strong fairness of the phases' first steps). Recordings owe nothing:
  they may be abandoned anywhere.
* `ReconcilerLease`: a replica that is up attempts its next access eventually
  (`LEASE_ACQUIRE_INTERVAL`, `LEASE_RENEWAL_INTERVAL`); the attempt may fail.
* `HostSession`: each end of the stream runs its own loop, and so does the
  worker: none stops for good, and an end whose peer is gone notices
  (heartbeats). Passes run on a timer, so one finds that a member is back
  (`MemberReturns`). Nothing else is assumed of the view, and nothing of failures.
* `MutationLocks`: an acquisition proceeds once it is granted, guarded work ends,
  and sessions are cleaned up within their timeouts. No acquisition has to time
  out, so `AcquisitionsDecided` does not rest on deadlines.
* `CredentialRefresh`: a refresh runs detached from whoever asked for it and comes
  to its end, requests do, and the sweep runs again and again. Crashes are bounded
  faults; nobody has to ask for a refresh.
* `SupervisorSessions`: a session's task goes on, supervisors that stay send
  heartbeats, a record nobody renews ages, and the reconciliation runs again and
  again on some replica. The local lock is handed on in the order it was asked
  for, so that reconciliations do not keep a session from it for ever (strong
  fairness of `Connected` and `BeginDemotion`). Nobody has to connect or to leave.
* `HostController` states safety and a refinement without fairness.

## Proofs

Every safety invariant and every action property that a run checks, and both
refinements, are theorems. They hold for all values of the constants: any sets of
members, replicas, launches, sandboxes, workers and operators, and all bounds on
epochs, versions, queues and faults. What the theorems assume is in the named
`ASSUME`s of the modules, which TLC evaluates on the runs' constants. They type
the constants and keep the "none" values apart from the others; besides, the
routes of a pool (`PoolAssumption`, `SessionAssumption`) and the tasks that take
locks (`LocksAssumption`) are finite sets, as cardinalities and the order of
waiting tasks need. `NoRowAssumption` says that the absent refresh row is not a
row.

Four theorems have a hypothesis, each a behaviour without which the property is
false of the code as well (see *Known disagreements*): `MaterialKept` has
`MayLoseReply = {}`, `LaunchesAlwaysKept` and `OnlyEndedAreStopped` have
`FirstMayMiss = FALSE`, and `ReportsCountedForTheirTerm` has `MayUnload = FALSE`. `OwnersPublished` itself speaks of pools in which nothing is
withdrawn (`MayWithdraw = {}`). The runs of these properties use the same values.

The inductive invariants were checked with TLC before they were proved. Each
module states its invariant as a conjunction of named parts, has a lemma per
action, and combines them in the step of `Next`.

`SupervisorPoolProofs`

* `TypeCorrect`: `Spec => []TypeOK`. `TypeOK` is strengthened to `TypeInv` with
  the facts that let a step be typed: an owner record that exists names a member,
  and a worker at a given point of its work holds a route and a record.
* `OneHolder`: `Spec => []OneHolderPerTerm`, without any exception for removed or
  re-created rows. `OneHolderPerTerm` is not inductive, since credentials are
  minted from a record that was read earlier. `FenceInv` adds: intents have
  distinct ids and are what was recorded (`IntentsOK`); every owner record
  (`RecordOK`) and every record a worker has read or is about to write
  (`WorkFenced`) with an id is that of a recorded intent, and a granted one is of
  a term the sandbox has reached; the sandbox's lineage is that of an intent of
  its epoch and generation (`LineageOK`); and a minted credential is that of an
  intent whose epoch is not ahead of the sandbox's, and of the lineage in force
  if it is of the current epoch (`CredentialOK`). The argument: an epoch is
  advanced to once, by one intent, whose id is the lineage from then on;
  a record can be granted only if its id is the lineage of its epoch; so whoever
  mints at that epoch mints for that intent. Facts about records only grow with
  the history (`RecordStable`, `WorkStable`), which carries every worker's stale
  copy across the steps of the others.
* `PoolImplementsFencedTerms`: `Spec => Terms!Spec`, from both invariants: a
  completed takeover and a new generation are `Advance` steps, minting is an
  `Issue` step, and all other steps leave terms and credentials alone.
* `ChargesExact`, `CapacityNeverExceeded`, `GrantedInForce`, `OwnersArePublished`
  (invariants) and `TermsOnlyAdvance` (an action property), from one invariant,
  `OwnInv`. A write of an owner record also writes the capacity rows of the member
  it charges and of the one it discharges, from copies read many steps earlier.
  `WorkersOwn` says what every worker's copies are worth: a copy at the row's
  version is the row (`CopyOK`), and the capacity rows about to be written are
  right if their rows are still at the versions read (`TargetOK`, `SourceOK`);
  a pass grants only the intent it read and offers the term after the one it read
  (`PassTerm`), a launch only the term it was launched at (`LaunchTerm`). Since
  all three rows are written together or not at all, a write that goes through
  moves the charge exactly, and a member that takes one had room.

`PoolRecordingProofs`

* `RecordingTypeCorrect`, `MaterialAlwaysOwned`, `PublishedRecordsStay` and
  `MaterialKept`, from `RecInv`. A recording reserves its route once and stores
  its material once; so a row, or anybody's copy of one, names a writer that has
  come far enough to have written it (`RowOK`), and a pass that looked at a
  candidate's row and found another writer there may delete the candidate's
  material at any later time, because that writer never comes back (`PassOK`).

`ReconcilerLeaseProofs`

* `LeaseTypeCorrect` and `GuardsAreOwn`: `Spec => []GuardsOwnLease`. The
  strengthening is that no guard is ahead of the row (`GuardsBehind`); then a
  write, which moves the row on, leaves every other guard behind it. Both hold
  until the row is released, after which versions repeat.

`HostControllerProofs`

* `ControllerTypeCorrect` and `WithdrawnNeverServed`, from `ViewInv`: what was
  withdrawn here is pending among the withdrawals or its record is gone, and a
  pass that still lists it will meet the pending withdrawal (`EndedOK`).
* `LaunchesAlwaysKept` and `OnlyEndedAreStopped`, from `LaunchInv` besides: when
  the pass in flight did not list the owner of a launch, the launch's own
  placement is among what `update_pool` keeps, or the published view confirms it
  (`OwnerKept`, `DesiredKept`); and whatever the view or the pass has an owner for
  and does not desire has ended or is about to be assigned (`StopsOK`).
* `ControllerImplementsServedView`: `ControllerSpec => Served!ViewSpec`, step by
  step. It needs how routes are dated (`DatedOK`), and per action that a step
  which leaves the revision alone changes no member's snapshot.

`HostSessionProofs`

* `ReportsCountedForTheirTerm` and `AbsenceNeverFalse`, from `HostInv`. The
  properties speak of the last recorded report only; `Installed` says the same of
  everything that may become one. Of a term installed at revision v: every
  snapshot of revision v or later, on its way, queued or being applied on this
  stream, assigns that term; every report that acknowledges v or later is of that
  term; and once the worker has applied v, the registry and what it excuses say
  so. `OrderOK` orders revisions from the worker to the gateway, which makes a new
  term later than all that is in flight; `IdsOK` keeps apart the job that an
  earlier stream left behind; `JobOK` follows the job. `InstalledOK` claims
  `Installed` of the terms the session has sent, where none is unloaded;
  `ServedOK` claims it of the terms the view assigns, from the later of the
  revisions of assignment and of ownership on. That also holds where a term was
  unloaded in between, so `AbsenceNeverFalse` needs no hypothesis. To be of a term
  is, for a report, to describe it, or to describe nothing while the member left
  that term unstarted with its places taken (`Tells`). That these are all the
  cases is `LeftUnstarted`: what `within_capacity` does not start of a snapshot was
  not hosted, and, by counting, either all fitted or what is started and kept
  fills the member. From there it is carried through the job, which reports what
  it could not admit, to the registry and to the reports; a route that is counted
  and not reported is therefore one that was left unstarted for this term.

`MutationLocksProofs`

* `LocksTypeCorrect` and `ConflictingNeverTogether`, from `LockInv`: queues are
  fair, requests have the mode their operation's lock set gives, and a task past
  an acquisition is granted in every queue of its keys; two granted requests of a
  queue are compatible.
* `NeverCircular`: `NoCircularWait` quantifies over sets of tasks. `OrderInv`
  says that a task whose request waits has none at a later stage, or at a greater
  key of the same one, sessions nobody waits for any more included. So whoever is
  waited for waits further on, if at all; the tasks further on are fewer at every
  such step (`AboveShrinks`), and a task with the fewest of a circle waits for
  nobody in it.

`CredentialRefreshProofs`

* `GrantsStored` and `TombstonesFinal`, from `RefreshInv`: what was read of the
  row at its present id and version is the row, up to a grant staged to replace
  the row's (`RowsKnown`); a staged grant is known to the one who staged it only
  (`StagedAlone`); and what anyone is about to delete is not the grant of a row
  that may be refreshed (`GrantSpared`).
* `GrantsNotReused`, from `Unpresented` besides: while lock sessions last, only
  the lock's holder is under way, a grant without a recorded outcome is marked in
  the row, and a worker past its checks carries a grant that has none.

`SupervisorSessionsProofs`

* `OwnRecordOnly` and `LaterTermsKept` (action properties), from `RecordInv`:
  until a record is deleted, no session goes by a version still to come, one that
  goes by the record's version wrote it, and one about to replace it at that
  version was not of an earlier term (`GuardsMatch`).
* `OwnersReady`: `Spec => []OwnedIsReady`, from `ReadyInv`: once a session marked
  the sandbox Ready, whoever demotes it is about to look at the owner again, and a
  snapshot that saw no owner and may still be written is older.

Only model-checked: the liveness properties (`IntentsResolved`,
`EndedInstancesRemoved`, `CandidatesSettled`, `LostLeaseNoticed`,
`ExpiredLeaseTaken`, `HostConverges`, `AcquisitionsDecided`, `RefreshesDecided`,
`TombstonesRemoved`, `ReadinessSettles`), which rest on fairness and ENABLED, and
the prover does not handle these.

## Not modelled

Recovery and `reconcile_pool` of `coordinator.rs`; the relay of status reports
between replicas and what the compute loops conclude from them; several streams
of one member at a time (the session that replaces another is modelled as its end
and a new one); the limits on listings per pass; `MAX_POOL_INSTANCES` (an advisory
check on a listing that nothing conditions the write on); in credential refresh
the issuer's protocol, access tokens kept as handles, and deletions of the
provider itself; of supervisor sessions the relays, the delivery of terminal
output, pushed configuration and stops of the sandbox; authentication of requests. The components listed as such in
`PROJECT.json`: network proxy, policy language, drivers, clients and the gRPC
translation are input and output or sequential data processing, and make up most
of the repository's lines.

## Plan

1. *Proofs*: that the composition holds together, i.e. that `HostSession` over
   `ServedView` carries over to the view `HostController` derives; lemmas on
   `Snapshot` and `Unchanged` that say which change of a view a stream may skip.
2. *Configuration delivery*: revisions, acknowledgements, reconnects; convergence.
3. *Gateway members and ring*, *provisioning deadlines*, *image update*.
4. Stops and restarts of a sandbox, composed with `SupervisorSessions`.
5. Recovery of the coordinator, composed with `HostController`.
