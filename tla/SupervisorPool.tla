--------------------------- MODULE SupervisorPool ---------------------------
(***************************************************************************)
(* Ownership of shared sandbox instances in the supervisor pool.           *)
(*                                                                         *)
(* Gateway replicas share one object store.  For each route (one runtime   *)
(* generation of one sandbox) it holds an instance record, an owner        *)
(* record naming the pool member that supervises it and the ownership term *)
(* (credential epoch), and for each member a capacity row listing the      *)
(* routes it is charged for.  The sandbox row holds the credential epoch   *)
(* and gateway-token lineage in force.                                     *)
(*                                                                         *)
(* Workers are the tasks that change owner records: each replica's         *)
(* reconciliation pass and each launch.  Every access to the store is one  *)
(* step, so any two workers interleave between their accesses.  A pass     *)
(* handles its routes one after another from one listing; the model starts *)
(* a listing per route, which only makes what is read less stale across    *)
(* routes (routes meet only in capacity rows, which are re-read).          *)
(*                                                                         *)
(* Elapsed time is abstracted: a grace period or a retention may have      *)
(* passed at any moment.                                                   *)
(***************************************************************************)
EXTENDS Naturals, FiniteSets, ObjectStore

CONSTANTS
    Member,         \* pool members (shared supervisor hosts)
    Replica,        \* gateway replicas, one reconciliation pass each
    Launch,         \* launch tasks
    Route,          \* routes: one per runtime generation
    Sandbox,        \* sandboxes
    SandboxOf,      \* the sandbox each route's generation belongs to
    MaxAssigned,    \* MAX_ASSIGNED_INSTANCES
    NoRoute,        \* no route: an idle worker, a sandbox not started
    NoMember,       \* no member: an absent owner record
    NoWriter,       \* no launch: a record that is not being admitted
    MaxProcess,     \* bound: processes each member runs, one after another
    MayLeave,       \* bound: members that may announce they are leaving
    MayQuiesce,     \* bound: sandboxes that may stop or suspend
    MayWithdraw,    \* bound: replicas on which instances are withdrawn
    MaxEpoch,       \* bound: credential epochs
    MaxIntent,      \* bound: intents recorded before the last is begun
    MayFail         \* bound: workers that may fail or crash

ASSUME PoolAssumption ==
    /\ SandboxOf \in [Route -> Sandbox]
    /\ IsFiniteSet(Route)
    /\ MaxAssigned \in Nat
    /\ MaxProcess \in Nat
    /\ MaxEpoch \in Nat
    /\ MaxIntent \in Nat
    /\ NoRoute \notin Route
    /\ NoMember \notin Member
    /\ NoWriter \notin Launch
    /\ Replica \cap Launch = {}

Worker == Replica \cup Launch

VARIABLES
    process,    \* process[m]: number of m's current process
    memberRow,  \* MEMBER rows; process 0 is no live row
    owner,      \* OWNER rows; version 0 is no row
    capacity,   \* CAPACITY rows; version 0 is no row
    instance,   \* ASSIGNMENT rows, reservations left out
    identity,   \* persisted identity and phase of each sandbox row
    launchEpoch,\* credential epoch each generation was launched with
    withdrawn,  \* withdrawn[g]: routes withdrawn on replica g (in memory)
    work,       \* what each worker read and is about to do
    lastId,     \* the fresh ids handed out so far
    intents,    \* history: the intents recorded
    minted,     \* history: takeover credentials minted
    removed     \* history: routes that had an owner record removed

members == <<process, memberRow>>
sandboxes == <<identity, launchEpoch>>
history == <<lastId, intents, minted, removed>>
vars == <<process, memberRow, owner, capacity, instance, identity,
          launchEpoch, withdrawn, work, lastId, intents, minted, removed>>

-----------------------------------------------------------------------------
(* Rows.                                                                   *)

\* OwnerPayload with its resource version.  "id" stands for the two fresh
\* UUIDs of a takeover term, supervisor_instance_id and gateway_token_id; the
\* launch term has neither: id 0.  Phase "none" with version 0 is no record.
OwnerRow == [version : Nat, phase : {"none", "granting", "granted"},
             epoch : Nat, id : Nat, member : Member \cup {NoMember},
             process : Nat]

NoOwner == [version |-> 0, phase |-> "none", epoch |-> 0, id |-> 0,
            member |-> NoMember, process |-> 0]

\* CapacityPayload with its resource version.
CapacityRow == [version : Nat, routes : SUBSET Route]

NoCapacity == [version |-> 0, routes |-> {}]

\* MemberPayload.  A row that is not fresh reads as no row everywhere.
MemberRow == [process : Nat, leaving : BOOLEAN]

NoMemberRow == [process |-> 0, leaving |-> FALSE]

\* An instance record.  "writer" is the launch whose admission it awaits; a
\* record under another writer is another row.
InstanceRow == [phase : {"none", "admitting", "published"},
                writer : Launch \cup {NoWriter}]

NoInstance == [phase |-> "none", writer |-> NoWriter]

Published == [phase |-> "published", writer |-> NoWriter]

\* The sandbox row.  Phase "running" stands for the phases in which a
\* takeover is allowed, "quiescing" for Stopping, Suspending and Suspended,
\* "ended" for Stopped, Deleting and a removed sandbox.  "lineage" is the
\* intent that started the gateway-token lineage (0: the launch), "rotated"
\* whether a refresh has replaced the lineage's first token.
Identity == [generation : Route \cup {NoRoute}, epoch : Nat, lineage : Nat,
             rotated : BOOLEAN, phase : {"running", "quiescing", "ended"}]

\* What is remembered of a recorded intent, and of minted credentials.
Intent == [id : Nat, route : Route, epoch : Nat,
           member : Member \cup {NoMember}, process : Nat]

Credential == [route : Route, epoch : Nat, instance : Nat, lineage : Nat,
               member : Member \cup {NoMember}, process : Nat]

-----------------------------------------------------------------------------
(* Workers.                                                                *)

PC == {"idle", "owner", "instance", "confirm", "identity", "choose",
       "target", "source", "write", "advance", "view", "remove", "record",
       "giveup", "done"}

WorkState == [pc : PC,
              route : Route \cup {NoRoute},
              seen : [Member -> Nat],   \* live members' processes, 0: none
              tried : SUBSET Member,    \* targets that were full
              base : Nat,               \* the term the next one follows
              before : OwnerRow,        \* the owner record as read
              after : OwnerRow,         \* the owner record to write
              target : CapacityRow,     \* capacity row of after's member
              source : CapacityRow,     \* capacity row of before's member
              admitting : InstanceRow,  \* the instance record being admitted
              created : BOOLEAN]        \* this launch wrote that record

NoWork == [pc |-> "idle", route |-> NoRoute,
           seen |-> [m \in Member |-> 0], tried |-> {}, base |-> 0,
           before |-> NoOwner, after |-> NoOwner,
           target |-> NoCapacity, source |-> NoCapacity,
           admitting |-> NoInstance, created |-> FALSE]

\* A worker that ended: a pass starts over, a launch does not.
Ended(w) == [NoWork EXCEPT !.pc = IF w \in Replica THEN "idle" ELSE "done"]

\* A pass that is left with one record of its route, to do pc with it.
Holding(g, pc, record) ==
    [NoWork EXCEPT !.pc = pc, !.route = work[g].route, !.before = record]

TypeOK ==
    /\ process \in [Member -> Nat]
    /\ memberRow \in [Member -> MemberRow]
    /\ owner \in [Route -> OwnerRow]
    /\ \A r \in Route : owner[r].version = 0 <=> owner[r].phase = "none"
    /\ capacity \in [Member -> CapacityRow]
    /\ instance \in [Route -> InstanceRow]
    /\ identity \in [Sandbox -> Identity]
    /\ launchEpoch \in [Route -> Nat]
    /\ withdrawn \in [Replica -> SUBSET Route]
    /\ work \in [Worker -> WorkState]
    /\ lastId \in Nat
    /\ intents \subseteq Intent
    /\ minted \subseteq Credential
    /\ removed \subseteq Route


Init ==
    /\ process = [m \in Member |-> 1]
    /\ memberRow = [m \in Member |-> NoMemberRow]
    /\ owner = [r \in Route |-> NoOwner]
    /\ capacity = [m \in Member |-> NoCapacity]
    /\ instance = [r \in Route |-> NoInstance]
    /\ identity = [s \in Sandbox |->
                     [generation |-> NoRoute, epoch |-> 0, lineage |-> 0,
                      rotated |-> FALSE, phase |-> "ended"]]
    /\ launchEpoch = [r \in Route |-> 0]
    /\ withdrawn = [g \in Replica |-> {}]
    /\ work = [w \in Worker |-> NoWork]
    /\ lastId = 0
    /\ intents = {}
    /\ minted = {}
    /\ removed = {}

-----------------------------------------------------------------------------
(* Pool members and their records.                                         *)

\* A member's process is replaced; its streams may outlive it at a gateway.
RestartMember(m) ==
    /\ process[m] < MaxProcess
    /\ process' = [process EXCEPT ![m] = @ + 1]
    /\ UNCHANGED <<memberRow, owner, capacity, instance, sandboxes,
                   withdrawn, work, history>>

\* write_member: a replica that serves a stream of m's process n refreshes
\* m's record, unless a newer stream of m keeps it live.  Reading the record
\* and replacing that version are one step.  A process that announced it is
\* leaving does not come back.
WriteMember(m, n, leaving) ==
    /\ ~(memberRow[m].process > n)
    /\ memberRow[m].process = n /\ memberRow[m].leaving => leaving
    /\ leaving => m \in MayLeave
    /\ memberRow' = [memberRow EXCEPT ![m] = [process |-> n,
                                              leaving |-> leaving]]
    /\ UNCHANGED <<process, owner, capacity, instance, sandboxes, withdrawn,
                   work, history>>

\* MEMBER_TTL passes without a refresh.
ExpireMember(m) ==
    /\ memberRow[m].process # 0
    /\ memberRow' = [memberRow EXCEPT ![m] = NoMemberRow]
    /\ UNCHANGED <<process, owner, capacity, instance, sandboxes, withdrawn,
                   work, history>>

\* The members a pass may place a route on: live and not leaving, with the
\* process that serves them.  (Which of them comes first is the ring's and
\* the load's choice; the model leaves the order open.)
LiveMembers ==
    [m \in Member |-> IF memberRow[m].leaving THEN 0 ELSE memberRow[m].process]

-----------------------------------------------------------------------------
(* Sandboxes: the compute side, which the pool only reads.                 *)

\* Mutant: a new generation counts its credential epochs from 1.
StartGenerationFromOne(s, r) ==
    /\ identity[s].phase = "ended"
    /\ SandboxOf[r] = s
    /\ launchEpoch[r] = 0
    /\ identity' = [identity EXCEPT ![s] =
                      [generation |-> r, epoch |-> 1, lineage |-> 0,
                       rotated |-> FALSE, phase |-> "running"]]
    /\ launchEpoch' = [launchEpoch EXCEPT ![r] = 1]
    /\ UNCHANGED <<members, owner, capacity, instance, withdrawn, work,
                   history>>

\* A sandbox is created, or started again after it stopped, as a new
\* generation: next_runtime_identity.
StartGeneration(s, r) ==
    /\ identity[s].phase = "ended"
    /\ SandboxOf[r] = s
    /\ launchEpoch[r] = 0
    /\ identity[s].epoch < MaxEpoch
    /\ identity' = [identity EXCEPT ![s] =
                      [generation |-> r, epoch |-> @.epoch + 1,
                       lineage |-> 0, rotated |-> FALSE,
                       phase |-> "running"]]
    /\ launchEpoch' = [launchEpoch EXCEPT ![r] = identity[s].epoch + 1]
    /\ UNCHANGED <<members, owner, capacity, instance, withdrawn, work,
                   history>>

\* Stop or suspend is requested; it may fail or be undone (a suspended
\* sandbox is resumed, a stop ends in Error) within the same generation.
Quiesce(s) ==
    /\ s \in MayQuiesce
    /\ identity[s].phase = "running"
    /\ identity' = [identity EXCEPT ![s].phase = "quiescing"]
    /\ UNCHANGED <<members, owner, capacity, instance, launchEpoch,
                   withdrawn, work, history>>

RunAgain(s) ==
    /\ identity[s].phase = "quiescing"
    /\ identity' = [identity EXCEPT ![s].phase = "running"]
    /\ UNCHANGED <<members, owner, capacity, instance, launchEpoch,
                   withdrawn, work, history>>

\* The sandbox is stopped or deleted: this generation never runs again.
EndGeneration(s) ==
    /\ s \in MayQuiesce
    /\ identity[s].phase # "ended"
    /\ identity' = [identity EXCEPT ![s].phase = "ended"]
    /\ UNCHANGED <<members, owner, capacity, instance, launchEpoch,
                   withdrawn, work, history>>

\* rotate_gateway_token by a host that was given credentials of the takeover
\* lineage in force: the epoch stays, the token changes.
RotateToken(s) ==
    /\ identity[s].phase # "ended"
    /\ \E c \in minted : c.lineage = identity[s].lineage
    /\ identity' = [identity EXCEPT ![s].rotated = TRUE]
    /\ UNCHANGED <<members, owner, capacity, instance, launchEpoch,
                   withdrawn, work, history>>

-----------------------------------------------------------------------------
(* Instance records, as far as ownership depends on them.                  *)

\* Recovery records an instance a driver still runs, without an owner.
RecordPublished(r) ==
    /\ instance[r] = NoInstance
    /\ launchEpoch[r] # 0
    /\ instance' = [instance EXCEPT ![r] = Published]
    /\ UNCHANGED <<members, owner, capacity, sandboxes, withdrawn, work,
                   history>>

\* fence_stale_reservations: an admitting record whose launch is overdue.
Fence(r) ==
    /\ instance[r].phase = "admitting"
    /\ instance' = [instance EXCEPT ![r] = NoInstance]
    /\ UNCHANGED <<members, owner, capacity, sandboxes, withdrawn, work,
                   history>>

\* unassign, on the replica that stops, prunes or sweeps the instance.
Withdraw(g, r) ==
    /\ g \in MayWithdraw
    /\ launchEpoch[r] # 0
    /\ withdrawn' = [withdrawn EXCEPT ![g] = @ \cup {r}]
    /\ UNCHANGED <<members, owner, capacity, instance, sandboxes, work,
                   history>>

\* remove_withdrawn: the record goes, and then the withdrawal.
RemoveWithdrawn(g, r) ==
    /\ r \in withdrawn[g]
    /\ instance' = [instance EXCEPT ![r] = NoInstance]
    /\ withdrawn' = [withdrawn EXCEPT ![g] = @ \ {r}]
    /\ UNCHANGED <<members, owner, capacity, sandboxes, work, history>>

\* A withdrawal is forgotten without removing the record: the instance is
\* assigned again, a removal loses the race with an admission, or the
\* replica, which keeps withdrawals in memory, restarts.
ForgetWithdrawal(g, r) ==
    /\ r \in withdrawn[g]
    /\ withdrawn' = [withdrawn EXCEPT ![g] = @ \ {r}]
    /\ UNCHANGED <<members, owner, capacity, instance, sandboxes, work,
                   history>>

-----------------------------------------------------------------------------
(* A reconciliation pass, for one route.                                   *)

\* live_members: members are listed first.
ListMembers(g, r) ==
    /\ work[g].pc = "idle"
    /\ launchEpoch[r] # 0
    /\ work' = [work EXCEPT ![g] = [NoWork EXCEPT !.pc = "owner",
                                                  !.route = r,
                                                  !.seen = LiveMembers]]
    /\ UNCHANGED <<members, owner, capacity, instance, sandboxes, withdrawn,
                   history>>

\* owners: then the owner records.
ListOwners(g) ==
    /\ work[g].pc = "owner"
    /\ work' = [work EXCEPT ![g] = [@ EXCEPT !.pc = "instance",
                                             !.before = owner[work[g].route]]]
    /\ UNCHANGED <<members, owner, capacity, instance, sandboxes, withdrawn,
                   history>>

\* owner_alive: the owner's process still serves its member.
OwnerAlive(record, seen) ==
    record.member \in Member /\ seen[record.member] = record.process

\* Mutant: a pass serves an intent it did not record instead of completing it.
DispatchLeavesIntents(desired, record, seen) ==
    IF desired
    THEN CASE record.phase = "none"     -> "identity"
           [] record.phase = "granting" -> "view"
           [] OTHER -> IF OwnerAlive(record, seen) THEN "view" ELSE "confirm"
    ELSE IF record.phase = "none" THEN "view" ELSE "remove"

\* The step reconcile_once takes for a route, from what it listed.
Dispatch(desired, record, seen) ==
    IF desired
    THEN CASE record.phase = "none"     -> "identity"
           [] record.phase = "granting" -> "advance"
           [] OTHER -> IF OwnerAlive(record, seen) THEN "view" ELSE "confirm"
    ELSE IF record.phase = "none" THEN "view" ELSE "remove"

\* all_assignments: then the instance records, minus withdrawals known here.
ListInstances(g) ==
    /\ work[g].pc = "instance"
    /\ LET r == work[g].route
           record == work[g].before
           desired == instance[r] = Published /\ r \notin withdrawn[g]
           next == Dispatch(desired, record, work[g].seen)
       IN  work' = [work EXCEPT ![g] =
                      IF next \in {"identity", "confirm"}
                      THEN [@ EXCEPT !.pc = next, !.base = record.epoch]
                      ELSE Holding(g, next, record)]
    /\ UNCHANGED <<members, owner, capacity, instance, sandboxes, withdrawn,
                   history>>

\* owner_failure: the owner's member is read again before a takeover.
ConfirmFailure(g) ==
    /\ work[g].pc = "confirm"
    /\ work' = [work EXCEPT ![g] =
                  IF OwnerAlive(work[g].before, LiveMembers)
                  THEN Holding(g, "view", work[g].before)
                  ELSE [@ EXCEPT !.pc = "choose"]]
    /\ UNCHANGED <<members, owner, capacity, instance, sandboxes, withdrawn,
                   history>>

\* The owner is left as it is: no takeovers are allowed yet after the start
\* of the replica, the route is not unowned for long enough, or the change
\* fails, which ends it for this route only.  The record as read is served.
LeaveOwner(g) ==
    /\ \/ work[g].pc \in {"confirm", "identity"}
       \/ g \in MayFail /\ work[g].pc \in {"choose", "target", "source",
                                            "write", "advance"}
    /\ work' = [work EXCEPT ![g] = Holding(g, "view", work[g].before)]
    /\ UNCHANGED <<members, owner, capacity, instance, sandboxes, withdrawn,
                   history>>

\* place_unowned: the new term follows the sandbox's credential epoch, if
\* the sandbox still has the route's generation.
ReadIdentity(g) ==
    /\ work[g].pc = "identity"
    /\ LET id == identity[SandboxOf[work[g].route]]
       IN  work' = [work EXCEPT ![g] =
                      IF id.generation = work[g].route
                      THEN [@ EXCEPT !.pc = "choose", !.base = id.epoch]
                      ELSE Holding(g, "view", NoOwner)]
    /\ UNCHANGED <<members, owner, capacity, instance, sandboxes, withdrawn,
                   history>>

\* remove_withdrawn_owners: the generation ended, or its owner had time to
\* be told to stop.
RemoveOwner(g) ==
    /\ work[g].pc = "remove"
    /\ work' = [work EXCEPT ![g] = [@ EXCEPT !.pc = "source",
                                             !.after = NoOwner]]
    /\ UNCHANGED <<members, owner, capacity, instance, sandboxes, withdrawn,
                   history>>

\* Mutant: an intent is accepted at the epoch of another intent.
RefusedIgnoringLineage(id, r, intent) ==
    id.phase # "running" \/ id.generation # r \/ id.epoch > intent.epoch

\* advance_identity_for_takeover: why a sandbox refuses an intent.
Refused(id, r, intent) ==
    \/ id.phase # "running"
    \/ id.generation # r
    \/ id.epoch > intent.epoch
    \/ id.epoch = intent.epoch /\ (id.lineage # intent.id \/ id.rotated)

\* complete_takeover: advance the credential epoch, then grant the term; or
\* cancel the intent.  The retried compare-and-swap on the sandbox row is
\* one step.
CompleteTakeover(g) ==
    /\ work[g].pc = "advance"
    /\ LET r == work[g].route
           s == SandboxOf[r]
           intent == work[g].before
       IN  \/ /\ Refused(identity[s], r, intent)
              /\ work' = [work EXCEPT ![g] = [@ EXCEPT !.pc = "source",
                                                       !.after = NoOwner]]
              /\ UNCHANGED identity
           \/ /\ ~Refused(identity[s], r, intent)
              /\ identity' = IF identity[s].epoch = intent.epoch
                             THEN identity
                             ELSE [identity EXCEPT ![s] =
                                     [@ EXCEPT !.epoch = intent.epoch,
                                               !.lineage = intent.id,
                                               !.rotated = FALSE]]
              /\ work' = [work EXCEPT ![g] = [@ EXCEPT
                            !.pc = "target",
                            !.after = [intent EXCEPT !.phase = "granted"]]]
    /\ UNCHANGED <<members, owner, capacity, instance, launchEpoch,
                   withdrawn, history>>

\* view: serve the record; credentials of a takeover term are minted only
\* from a sandbox row at the same generation and epoch.
View(g) ==
    /\ work[g].pc \in {"view", "remove"}
    /\ LET r == work[g].route
           id == identity[SandboxOf[r]]
           record == work[g].before
       IN  minted' = IF /\ record.phase = "granted"
                        /\ record.id # 0
                        /\ id.generation = r
                        /\ id.epoch = record.epoch
                     THEN minted \cup
                            {[route |-> r, epoch |-> record.epoch,
                              instance |-> record.id,
                              lineage |-> id.lineage,
                              member |-> record.member,
                              process |-> record.process]}
                     ELSE minted
    /\ work' = [work EXCEPT ![g] = NoWork]
    /\ UNCHANGED <<members, owner, capacity, instance, sandboxes, withdrawn,
                   lastId, intents, removed>>

-----------------------------------------------------------------------------
(* A launch: place_launch.                                                 *)

\* Members are listed before anything is recorded.  Nothing tells a launch
\* that its generation has ended meanwhile.
ListTargets(l, r) ==
    /\ work[l].pc = "idle"
    /\ launchEpoch[r] # 0
    /\ \E m \in Member : LiveMembers[m] # 0
    /\ work' = [work EXCEPT ![l] = [NoWork EXCEPT !.pc = "record",
                                                  !.route = r,
                                                  !.seen = LiveMembers,
                                                  !.base = launchEpoch[r]]]
    /\ UNCHANGED <<members, owner, capacity, instance, sandboxes, withdrawn,
                   history>>

\* record_admitting: the instance is recorded as being admitted; a record
\* of the generation that exists is kept, and admitted if it is not yet.
RecordAdmitting(l) ==
    /\ work[l].pc = "record"
    /\ LET r == work[l].route
           new == instance[r] = NoInstance
           mine == [phase |-> "admitting", writer |-> l]
       IN  /\ instance' = IF new THEN [instance EXCEPT ![r] = mine]
                          ELSE instance
           /\ work' = [work EXCEPT ![l] = [@ EXCEPT
                         !.pc = "choose",
                         !.admitting = IF new THEN mine ELSE instance[r],
                         !.created = new]]
    /\ UNCHANGED <<members, owner, capacity, sandboxes, withdrawn, history>>

\* give_up_admission: no member had room; the launch removes exactly the
\* record it created.
GiveUpAdmission(l) ==
    /\ work[l].pc = "giveup"
    /\ LET r == work[l].route
       IN  instance' = IF work[l].created /\ instance[r] = work[l].admitting
                       THEN [instance EXCEPT ![r] = NoInstance]
                       ELSE instance
    /\ work' = [work EXCEPT ![l] = Ended(l)]
    /\ UNCHANGED <<members, owner, capacity, sandboxes, withdrawn, history>>

-----------------------------------------------------------------------------
(* An owner change: transition_admitting.                                  *)

\* Mutant: a takeover is granted before the credential epoch advances.
OfferGranted(w, m) ==
    [version |-> 0, phase |-> "granted",
     epoch |-> IF w \in Launch THEN work[w].base ELSE work[w].base + 1,
     id |-> 0, member |-> m, process |-> work[w].seen[m]]

\* The record a target is offered: a launch is granted its launch term at
\* once, a takeover records its intent first.
Offer(w, m) ==
    [version |-> 0,
     phase |-> IF w \in Launch THEN "granted" ELSE "granting",
     epoch |-> IF w \in Launch THEN work[w].base ELSE work[w].base + 1,
     id |-> 0, member |-> m, process |-> work[w].seen[m]]

\* Bound on takeovers; a pass beyond it leaves the route as it is.
MayIntend(w) == w \in Launch \/ (work[w].base < MaxEpoch /\ lastId < MaxIntent)

\* The next target among the members listed, none of them tried twice.
ChooseTarget(w, m) ==
    /\ work[w].pc = "choose"
    /\ work[w].seen[m] # 0
    /\ m \notin work[w].tried
    /\ MayIntend(w)
    /\ work' = [work EXCEPT ![w] = [@ EXCEPT !.pc = "target",
                                             !.after = Offer(w, m)]]
    /\ UNCHANGED <<members, owner, capacity, instance, sandboxes, withdrawn,
                   history>>

NoTarget(w) ==
    /\ work[w].pc = "choose"
    /\ \A m \in Member :
          work[w].seen[m] = 0 \/ m \in work[w].tried \/ ~MayIntend(w)
    /\ work' = [work EXCEPT ![w] =
                  IF w \in Launch THEN [@ EXCEPT !.pc = "giveup"]
                  ELSE Holding(w, "view", work[w].before)]
    /\ UNCHANGED <<members, owner, capacity, instance, sandboxes, withdrawn,
                   history>>

\* has_room_for
HasRoomFor(row, r) == r \in row.routes \/ Cardinality(row.routes) < MaxAssigned

\* The target's capacity is read.  A full one refuses: another target is
\* tried, or the completion of an intent is left to a later pass.
ReadTarget(w) ==
    /\ work[w].pc = "target"
    /\ LET m == work[w].after.member
           row == capacity[m]
       IN  work' = [work EXCEPT ![w] =
              IF HasRoomFor(row, work[w].route)
              THEN [@ EXCEPT !.pc = "source", !.target = row]
              ELSE IF work[w].before.phase = "granting"
                   THEN Holding(w, "view", work[w].before)
                   ELSE [@ EXCEPT !.pc = "choose",
                                  !.tried = work[w].tried \cup {m}]]
    /\ UNCHANGED <<members, owner, capacity, instance, sandboxes, withdrawn,
                   history>>

\* Whether the change moves the route away from the member it was read on.
Leaves(w) == work[w].before.member \notin {NoMember, work[w].after.member}

ReadSource(w) ==
    /\ work[w].pc = "source"
    /\ work' = [work EXCEPT ![w] = [@ EXCEPT
                  !.pc = "write",
                  !.source = IF Leaves(w) THEN capacity[work[w].before.member]
                             ELSE NoCapacity]]
    /\ UNCHANGED <<members, owner, capacity, instance, sandboxes, withdrawn,
                   history>>

\* The capacity rows the atomic write contains: rows that already read right
\* are not part of it, and so not part of its condition.
Charges(w) ==
    work[w].after.phase # "none" /\ work[w].route \notin work[w].target.routes

\* Mutant: the member a route moves away from stays charged.
ReleasesNothing(w) == FALSE

Releases(w) == Leaves(w) /\ work[w].route \in work[w].source.routes

\* Mutant: the instance is not admitted in the write that makes its owner.
AdmitsLater(w) == FALSE

Admits(w) == work[w].admitting.phase = "admitting"

\* Mutant: the owner record is written whatever version it is at.
AppliesToAnyOwner(w) ==
    LET r == work[w].route
    IN  /\ Charges(w) => SameVersion(capacity[work[w].after.member].version,
                                     work[w].target.version)
        /\ Releases(w) => SameVersion(capacity[work[w].before.member].version,
                                      work[w].source.version)
        /\ Admits(w) => instance[r] = work[w].admitting

\* Mutant: the capacity rows are written whatever version they are at.
AppliesToAnyCapacity(w) ==
    /\ SameVersion(owner[work[w].route].version, work[w].before.version)
    /\ Admits(w) => instance[work[w].route] = work[w].admitting

\* Every row of the atomic write is still at the version it was read at.
WriteApplies(w) ==
    LET r == work[w].route
    IN  /\ SameVersion(owner[r].version, work[w].before.version)
        /\ Charges(w) => SameVersion(capacity[work[w].after.member].version,
                                     work[w].target.version)
        /\ Releases(w) => SameVersion(capacity[work[w].before.member].version,
                                      work[w].source.version)
        /\ Admits(w) => instance[r] = work[w].admitting

\* Mutant: a record is written at the version it was read at.
WrittenAtSameVersion(w) ==
    IF work[w].after.phase = "none" THEN NoOwner
    ELSE [work[w].after EXCEPT !.version = work[w].before.version]

\* The owner record as the write leaves it.
WrittenOwner(w) ==
    LET after == work[w].after
    IN  CASE after.phase = "none" -> NoOwner
          [] after.phase = "granting" ->
               [after EXCEPT !.version = NextVersion(work[w].before.version),
                             !.id = lastId + 1]
          [] OTHER ->
               [after EXCEPT !.version = NextVersion(work[w].before.version)]

\* The capacity row of member m as the write leaves it.
WrittenCapacity(w, m) ==
    CASE Charges(w) /\ m = work[w].after.member ->
           [version |-> NextVersion(work[w].target.version),
            routes |-> work[w].target.routes \cup {work[w].route}]
      [] Releases(w) /\ m = work[w].before.member ->
           [version |-> NextVersion(work[w].source.version),
            routes |-> work[w].source.routes \ {work[w].route}]
      [] OTHER -> capacity[m]

\* What the worker does after its write: an intent is completed at once, a
\* granted or removed record is served.
AfterWrite(w) ==
    IF w \in Launch THEN Ended(w)
    ELSE Holding(w, IF work[w].after.phase = "granting" THEN "advance"
                    ELSE "view", WrittenOwner(w))

\* The write is applied.  If its reply, or what follows it, fails, the pass
\* serves the record as it read it.
WriteOwner(w) ==
    /\ work[w].pc = "write"
    /\ WriteApplies(w)
    /\ LET r == work[w].route
           written == WrittenOwner(w)
       IN  /\ owner' = [owner EXCEPT ![r] = written]
           /\ capacity' = [m \in Member |-> WrittenCapacity(w, m)]
           /\ instance' = IF Admits(w)
                          THEN [instance EXCEPT ![r] = Published]
                          ELSE instance
           /\ removed' = IF written.phase = "none" THEN removed \cup {r}
                         ELSE removed
           /\ IF written.phase = "granting"
              THEN /\ lastId' = lastId + 1
                   /\ intents' = intents \cup
                        {[id |-> written.id, route |-> r,
                          epoch |-> written.epoch, member |-> written.member,
                          process |-> written.process]}
              ELSE UNCHANGED <<lastId, intents>>
    /\ \/ work' = [work EXCEPT ![w] = AfterWrite(w)]
       \/ /\ w \in MayFail \cap Replica
          /\ work' = [work EXCEPT ![w] = Holding(w, "view", work[w].before)]
    /\ UNCHANGED <<members, sandboxes, withdrawn, minted>>

\* The atomic write fails: the owner record is read again, and the change is
\* retried on fresh capacity rows while that, and the instance being
\* admitted, still are what the change was based on.
WriteConflicts(w) ==
    /\ work[w].pc = "write"
    /\ ~WriteApplies(w)
    /\ LET r == work[w].route
           ownerChanged == owner[r].version # work[w].before.version
           instanceChanged == Admits(w) /\ instance[r] # work[w].admitting
       IN  work' = [work EXCEPT ![w] =
              IF w \in Launch /\ (ownerChanged \/ instanceChanged)
              THEN Ended(w)
              ELSE IF ownerChanged
              THEN Holding(w, "view", owner[r])
              ELSE [@ EXCEPT !.pc = IF work[w].after.phase = "none" THEN "source"
                                    ELSE "target"]]
    /\ UNCHANGED <<members, owner, capacity, instance, sandboxes, withdrawn,
                   history>>

\* The pass or launch fails, or its gateway replica crashes: what the worker
\* read is lost, what it wrote stays.
Fail(w) ==
    /\ w \in MayFail
    /\ work[w].pc \notin {"idle", "done"}
    /\ work' = [work EXCEPT ![w] = Ended(w)]
    /\ UNCHANGED <<members, owner, capacity, instance, sandboxes, withdrawn,
                   history>>

-----------------------------------------------------------------------------
Environment ==
    \/ \E m \in Member : RestartMember(m) \/ ExpireMember(m)
    \/ \E m \in Member, leaving \in BOOLEAN :
          \E n \in 1..process[m] : WriteMember(m, n, leaving)
    \/ \E s \in Sandbox : \/ Quiesce(s) \/ RunAgain(s) \/ EndGeneration(s)
                          \/ RotateToken(s)
    \/ \E s \in Sandbox, r \in Route : StartGeneration(s, r)
    \/ \E r \in Route : RecordPublished(r) \/ Fence(r)
    \/ \E g \in Replica, r \in Route :
          Withdraw(g, r) \/ RemoveWithdrawn(g, r) \/ ForgetWithdrawal(g, r)

Change(w) ==
    \/ \E m \in Member : ChooseTarget(w, m)
    \/ NoTarget(w) \/ ReadTarget(w) \/ ReadSource(w)
    \/ WriteOwner(w) \/ WriteConflicts(w)

Reconcile(g) ==
    \/ \E r \in Route : ListMembers(g, r)
    \/ ListOwners(g) \/ ListInstances(g) \/ ConfirmFailure(g)
    \/ LeaveOwner(g) \/ ReadIdentity(g) \/ RemoveOwner(g)
    \/ CompleteTakeover(g) \/ View(g)

PlaceLaunch(l) ==
    \/ \E r \in Route : ListTargets(l, r)
    \/ RecordAdmitting(l) \/ GiveUpAdmission(l)

Next ==
    \/ Environment
    \/ \E w \in Worker : Change(w) \/ Fail(w)
    \/ \E g \in Replica : Reconcile(g)
    \/ \E l \in Launch : PlaceLaunch(l)

Spec == Init /\ [][Next]_vars

-----------------------------------------------------------------------------
(* Fairness.  Each replica runs passes on a timer, so a replica that does  *)
(* not fail takes its next step eventually; a pass decides on every route, *)
(* and a removal that waits for the retention is eventually due.  Nothing  *)
(* is assumed of members, sandboxes, launches and failures.                *)

Fairness ==
    \A g \in Replica \ MayFail :
        /\ WF_vars(Change(g) \/ Reconcile(g))
        /\ SF_vars(RemoveOwner(g))
        /\ \A r \in Route : SF_vars(ListMembers(g, r))

FairSpec == Spec /\ Fairness

-----------------------------------------------------------------------------
(* Properties.                                                             *)

\* transition_admitting: a member never owns more than MaxAssigned routes,
\* although the free slot is checked on a row read before the write and
\* several workers fill slots of one member (routes that had an owner record
\* removed left out: see ChargesMatchOwners).
CapacityBounded ==
    \A m \in Member :
        Cardinality({r \in Route \ removed : owner[r].member = m})
            <= MaxAssigned

\* complete_takeover and mint_takeover: for every credential epoch of a
\* sandbox, takeover credentials are only ever minted for one generation and
\* one process of one member, and bind its grant to the gateway-token lineage
\* of the same intent.
OneHolderPerTerm ==
    \A c, d \in minted :
        SandboxOf[c.route] = SandboxOf[d.route] /\ c.epoch = d.epoch =>
            c = d /\ c.instance = c.lineage

\* transition: while no owner record of a route has been removed, the member
\* its owner record names, and no other, is charged for it.
ChargedExactly ==
    \A r \in Route \ removed, m \in Member :
        r \in capacity[m].routes <=> owner[r].member = m

\* complete_takeover: while no owner record of a route has been removed, its
\* granted term is the one the sandbox's credentials are at.
GrantedTermInForce ==
    \A r \in Route \ removed :
        LET id == identity[SandboxOf[r]]
        IN  owner[r].phase = "granted" /\ id.generation = r =>
                owner[r].epoch = id.epoch /\ owner[r].id = id.lineage

\* take_over: terms of a route only move forward, until an owner record is
\* removed.
TermsAdvance ==
    [][\A r \in Route : r \notin removed' =>
          owner'[r].epoch >= owner[r].epoch]_vars

\* place_launch: where no instance is withdrawn, every owner has its instance
\* published.
OwnersPublished ==
    MayWithdraw = {} =>
        \A r \in Route : owner[r].phase # "none" => instance[r] = Published

\* complete_takeover: an intent, also one whose replica crashed before it was
\* granted, is granted or cancelled, unless its record is replaced.
IntentsResolved ==
    \A r \in Route, i \in 1..(MaxIntent + Cardinality(Replica)) :
        (owner[r].phase = "granting" /\ owner[r].id = i)
            ~> ~(owner[r].phase = "granting" /\ owner[r].id = i)

\* What the capacity rows are documented to be: a member is charged for
\* exactly the routes whose owner record, in any phase, names it.
ChargesMatchOwners ==
    \A r \in Route, m \in Member :
        r \in capacity[m].routes <=> owner[r].member = m

\* The granted record of a running sandbox's live owner, for a term the
\* sandbox already moved past: no credentials are minted from it.
PassedTerm(r) ==
    LET id == identity[SandboxOf[r]]
    IN  /\ owner[r].phase = "granted"
        /\ OwnerAlive(owner[r], LiveMembers)
        /\ id.generation = r
        /\ id.phase = "running"
        /\ owner[r].epoch < id.epoch

\* What view relies on when it skips such a record: it is replaced.
PassedTermsReplaced == \A r \in Route : PassedTerm(r) ~> ~PassedTerm(r)

-----------------------------------------------------------------------------
(* The promise to sandboxes: the pool implements FencedTerms.              *)

HolderOf(intent) ==
    [id |-> intent.id, route |-> intent.route, member |-> intent.member,
     process |-> intent.process]

\* The holder of a sandbox's term: the intent that started its lineage.
TermHolder(s) ==
    {HolderOf(i) : i \in {j \in intents : j.id = identity[s].lineage}}

Terms == INSTANCE FencedTerms WITH
    epoch <- [s \in Sandbox |-> identity[s].epoch],
    holder <- [s \in Sandbox |-> TermHolder(s)],
    issued <- {[sandbox |-> SandboxOf[c.route], epoch |-> c.epoch,
                holder |-> [id |-> c.instance, route |-> c.route,
                            member |-> c.member, process |-> c.process]] :
               c \in minted}

\* Every step of the pool is a step of FencedTerms or leaves terms and
\* credentials alone.
ImplementsFencedTerms == Terms!Spec

=============================================================================
