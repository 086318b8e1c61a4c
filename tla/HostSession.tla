----------------------------- MODULE HostSession -----------------------------
(***************************************************************************)
(* One member's host process and its stream to the gateway.  The gateway    *)
(* side (SupervisorHostController::run_session) sends a snapshot whenever   *)
(* the view it serves changes what the member should do, and records what   *)
(* the member reports; the member (SharedHost, Reconciler, run_stream)      *)
(* applies one snapshot at a time to its registry and acknowledges it.      *)
(* Streams are lost while a snapshot is being applied, and a restarted      *)
(* gateway counts its revisions from zero again.                            *)
(*                                                                          *)
(* The view is any behaviour of ServedView, which HostController            *)
(* implements; the routes it publishes as expired, of which no snapshot     *)
(* tells, are added here.  A report carries, besides what the protocol has, *)
(* the term of each instance it describes, and of each one left unstarted   *)
(* by a member with no room for it: for stating what the gateway may        *)
(* conclude.                                                                *)
(***************************************************************************)
EXTENDS ServedView, Sequences

CONSTANTS
    Host,          \* the member's process
    NoJob,
    MaxRevision,   \* bound on the revisions of one gateway process, the last
                   \* return of the member not counted
    MaxAssigned,   \* MAX_ASSIGNED_INSTANCES
    MaxQueue,      \* bound on messages in flight, each way
    Bounds,        \* bounds of behaviours: the routes the view is free to
                   \* change, those it assigns to the member all along, those
                   \* that may expire, and the number of lost streams,
                   \* restarts, refused admissions and files that remain
    MayUnload      \* whether an assigned term may be served as kept only

BoundType == [free : SUBSET Route, steady : SUBSET Route,
              expiring : SUBSET Route, faults : Nat]

ASSUME SessionAssumption ==
    /\ Host \in Member /\ IsFiniteSet(Route)
    /\ MaxRevision \in Nat /\ MaxAssigned \in Nat /\ MaxQueue \in Nat \ {0}
    /\ Bounds \subseteq BoundType
    /\ MayUnload \in BOOLEAN

VARIABLES
    expired,   \* PoolView.expired: routes whose owner's process is long gone
    session,   \* the gateway's HostSession, and what run_session keeps
    down, up,  \* messages on the stream, each way
    stream,    \* the member's side of the stream
    queued,    \* ReconcilerState.queued
    job,       \* the job the worker runs
    done,      \* Reconciler.done, and whether the stream has to look at it
    hosted,    \* the registry: the term of each hosted instance, 0 for none
    reserved,  \* routes whose files remained, so that their key stays taken
    excused,   \* rejected and deferred reports: the term each stands for
    unstarted, \* history: terms the last reconciliation had no room for
    deferred,  \* the snapshot to be retried
    wanted,    \* desired_routes, and whether a snapshot has been applied
    bound      \* what this behaviour is bounded to, with the failures left

workerVars == <<queued, job, done>>
registryVars == <<hosted, reserved, excused, unstarted, deferred, wanted>>
vars == <<viewVars, expired, session, down, up, stream, workerVars,
          registryVars, bound>>

NoTerms == [r \in Route |-> 0]
NoSnapshot == [revision |-> 0, instances |-> NoTerms, stops |-> {},
               keeps |-> NoTerms, directory |-> [r \in Route |-> NoMember]]
NoStatus == [applied |-> -1, terms |-> NoTerms, unstarted |-> NoTerms]
NewSession(id) == [id |-> id, sent |-> 0, seen |-> 0, last |-> NoSnapshot,
                   status |-> NoStatus,
                   terms |-> [r \in Route |-> [epoch |-> 0, since |-> 0]]]

Assigns(snapshot) == {r \in Route : snapshot.instances[r] # 0}
Keeps(snapshot) == {r \in Route : snapshot.keeps[r] # 0}
Hosted == {r \in Route : hosted[r] # 0}

Fault == bound.faults > 0 /\ bound' = [bound EXCEPT !.faults = @ - 1]

-------------------------------------------------------------------------------
Revision == 0..(MaxRevision + 1)
SnapshotType ==
    [revision : Revision, instances : [Route -> 0..MaxEpoch],
     stops : SUBSET Route, keeps : [Route -> 0..MaxEpoch],
     directory : [Route -> Member \cup {NoMember}]]
StatusType == [applied : -1..(MaxRevision + 1), terms : [Route -> 0..MaxEpoch],
               unstarted : [Route -> 0..MaxEpoch]]
JobKind == {"snapshot", "retry"}

TypeOK ==
    /\ ViewTypeOK
    /\ expired \subseteq Route
    /\ session.id \in Nat
    /\ session.sent \in Revision /\ session.seen \in Revision
    /\ session.last \in SnapshotType
    /\ session.status \in StatusType
    /\ session.terms \in [Route -> [epoch : 0..MaxEpoch, since : Revision]]
    /\ \A i \in DOMAIN down : down[i] \in SnapshotType
    /\ \A i \in DOMAIN up : up[i] \in StatusType
    /\ stream \in [id : Nat, open : BOOLEAN, received : Revision,
                   applied : Revision]
    /\ queued # NoJob => queued \in [stream : Nat, kind : JobKind,
                                     snapshot : SnapshotType]
    /\ job # NoJob => /\ job.at \in {"admitting", "departing"}
                      /\ job.todo \subseteq Route
                      /\ job.snapshot \in SnapshotType
                      /\ job.excused \in [Route -> 0..MaxEpoch]
                      /\ job.unstarted \in [Route -> 0..MaxEpoch]
    /\ done \in [stream : Nat, revision : Revision, unread : BOOLEAN]
    /\ hosted \in [Route -> 0..MaxEpoch]
    /\ reserved \subseteq Hosted
    /\ excused \in [Route -> 0..MaxEpoch]
    /\ unstarted \in [Route -> 0..MaxEpoch]
    /\ deferred \in SnapshotType
    /\ wanted \in [known : BOOLEAN, routes : SUBSET Route]
    /\ bound \in BoundType

Init ==
    /\ ViewInit
    /\ expired = {}
    /\ session = NewSession(0)
    /\ down = <<>> /\ up = <<>>
    /\ stream = [id |-> 0, open |-> FALSE, received |-> 0, applied |-> 0]
    /\ queued = NoJob /\ job = NoJob
    /\ done = [stream |-> 0, revision |-> 0, unread |-> FALSE]
    /\ hosted = NoTerms
    /\ reserved = {}
    /\ excused = NoTerms
    /\ unstarted = NoTerms
    /\ deferred = NoSnapshot
    /\ wanted = [known |-> FALSE, routes |-> {}]
    /\ bound \in Bounds

-------------------------------------------------------------------------------
(* The gateway's side.                                                      *)

\* The stream was sent the route's term as an assignment, and the view has
\* dropped its launch material: load_materials ran between two streams.
Unloads(r) ==
    /\ Snapshot(Host).keeps[r] # 0
    /\ Snapshot(Host).keeps[r] = session.terms[r].epoch

\* Routes the behaviour is not bounded to have no owner.
InPlay == bound.free \cup bound.steady

InBounds ==
    /\ desired' \in {d \in SUBSET InPlay : bound.steady \subseteq d}
    /\ owners' \in {o \in [Route -> Owner \cup {NoOwner}] :
          \A r \in Route \ bound.free :
              o[r] = IF r \in bound.steady THEN [member |-> Host, epoch |-> 1]
                     ELSE NoOwner}
    /\ stopping' \in {t \in [Route -> Member \cup {NoMember}] :
          \A r \in Route \ bound.free : t[r] = NoMember}
    /\ assigned' \in {a \in [Route -> 0..(revision + 1)] :
          \A r \in Route \ bound.free : a[r] # 0 <=> r \in bound.steady}
    /\ expired' \in SUBSET bound.expiring

ViewChanges ==
    /\ \/ revision < MaxRevision /\ InBounds /\ Serve
       \/ Unseen /\ desired' \subseteq InPlay /\ UNCHANGED expired
       \/ StopsExpire /\ UNCHANGED expired
    /\ UNCHANGED <<session, down, up, stream, workerVars, registryVars, bound>>
    /\ MayUnload \/ \A r \in Route : ~Unloads(r)'

\* The member's process streams again, so a pass finds it live and none of its
\* routes expired.
MemberReturns ==
    /\ session.id # 0
    /\ \E r \in expired : owners[r].member = Host
    /\ expired' = {r \in expired : owners[r].member # Host}
    /\ revision' = revision + 1
    /\ UNCHANGED <<loaded, desired, owners, assigned, ownedSince, stopping,
                   session, down, up, stream, workerVars, registryVars, bound>>

TermsSentSinceFirst(snapshot) ==
    [r \in Route |->
        IF snapshot.instances[r] # 0
        THEN [epoch |-> snapshot.instances[r],
              since |-> IF session.terms[r].epoch # 0 THEN session.terms[r].since
                        ELSE snapshot.revision]
        ELSE [epoch |-> 0, since |-> 0]]

\* record_sent: a route keeps the revision that installed its term while
\* snapshots repeat the term.
TermsSent(snapshot) ==
    [r \in Route |->
        LET old == session.terms[r] IN
        IF snapshot.instances[r] # 0
        THEN IF old.epoch = snapshot.instances[r] THEN old
             ELSE [epoch |-> snapshot.instances[r], since |-> snapshot.revision]
        ELSE IF snapshot.keeps[r] # 0 /\ old.epoch = snapshot.keeps[r] THEN old
             ELSE [epoch |-> 0, since |-> 0]]

UnchangedRoutes(snapshot, last) ==
    /\ last.revision # 0
    /\ Assigns(snapshot) = Assigns(last)
    /\ snapshot.stops = last.stops
    /\ snapshot.directory = last.directory
    /\ Keeps(snapshot) = Keeps(last)

Unchanged(snapshot, last) ==
    /\ last.revision # 0
    /\ snapshot.instances = last.instances
    /\ snapshot.stops = last.stops
    /\ snapshot.directory = last.directory
    /\ Keeps(snapshot) = Keeps(last)

\* run_session: at a new revision the member is sent a snapshot, unless it
\* says what the last one said.
SendSnapshot ==
    LET snapshot == Snapshot(Host) IN
    /\ session.id # 0
    /\ loaded
    /\ revision > session.seen
    /\ IF Unchanged(snapshot, session.last)
       THEN /\ session' = [session EXCEPT !.seen = revision]
            /\ UNCHANGED down
       ELSE /\ Len(down) < MaxQueue
            /\ down' = Append(down, snapshot)
            /\ session' = [session EXCEPT !.seen = revision,
                                          !.sent = revision,
                                          !.last = snapshot,
                                          !.terms = TermsSent(snapshot)]
    /\ UNCHANGED <<viewVars, expired, up, stream, workerVars, registryVars,
                   bound>>

\* record_status
StatusAccepted(status) ==
    /\ status.applied <= session.sent
    /\ status.applied >= session.status.applied

RecordStatus ==
    /\ session.id # 0
    /\ up # <<>>
    /\ up' = Tail(up)
    /\ session' = IF StatusAccepted(Head(up))
                  THEN [session EXCEPT !.status = Head(up)] ELSE session
    /\ UNCHANGED <<viewVars, expired, down, stream, workerVars, registryVars,
                   bound>>

\* The stream went silent, a send timed out, or the token expired.
EndSession ==
    /\ Fault
    /\ session.id # 0
    /\ session' = NewSession(0)
    /\ up' = <<>>
    /\ UNCHANGED <<viewVars, expired, down, stream, workerVars, registryVars>>

RestartGateway ==
    /\ Fault
    /\ revision # 0
    /\ ViewRestart
    /\ expired' = {}
    /\ session' = NewSession(0)
    /\ up' = <<>>
    /\ UNCHANGED <<down, stream, workerVars, registryVars>>

-------------------------------------------------------------------------------
(* The member's stream.                                                     *)

\* SharedHost::list
List == [r \in Route |-> IF excused[r] # 0 THEN excused[r] ELSE hosted[r]]

Status(applied) ==
    [applied |-> applied, terms |-> List, unstarted |-> unstarted]

\* begin_stream and begin_session: work queued for earlier streams is
\* dropped, the job in flight is not; an earlier session is superseded.  The
\* accepted member reports what runs before any snapshot arrives.
Connect ==
    LET id == stream.id + 1 IN
    /\ ~stream.open
    /\ stream' = [id |-> id, open |-> TRUE, received |-> 0, applied |-> 0]
    /\ queued' = NoJob
    /\ done' = [done EXCEPT !.unread = FALSE]
    /\ session' = NewSession(id)
    /\ down' = <<>>
    /\ up' = <<Status(0)>>
    /\ UNCHANGED <<viewVars, expired, job, registryVars, bound>>

\* The member loses the stream; the gateway may still read what it sent.
LoseStream ==
    /\ stream.open
    /\ IF session.id = stream.id THEN Fault ELSE UNCHANGED bound
    /\ stream' = [stream EXCEPT !.open = FALSE]
    /\ down' = <<>>
    /\ UNCHANGED <<viewVars, expired, session, up, workerVars, registryVars>>

\* A newer snapshot replaces one still queued.
ReceiveSnapshot ==
    /\ stream.open
    /\ down # <<>>
    /\ down' = Tail(down)
    /\ IF Head(down).revision > stream.received
       THEN /\ stream' = [stream EXCEPT !.received = Head(down).revision]
            /\ queued' = [stream |-> stream.id, kind |-> "snapshot",
                          snapshot |-> Head(down)]
       ELSE UNCHANGED <<stream, queued>>
    /\ UNCHANGED <<viewVars, expired, session, up, job, done, registryVars,
                   bound>>

\* The stream learns of a finished job, and acknowledges what was applied on
\* this stream.
AppliedHere ==
    IF done.stream = stream.id /\ done.revision # 0 THEN done.revision
    ELSE stream.applied

Acknowledge ==
    /\ stream.open
    /\ done.unread
    /\ Len(up) < MaxQueue
    /\ done' = [done EXCEPT !.unread = FALSE]
    /\ stream' = [stream EXCEPT !.applied = AppliedHere]
    /\ up' = Append(up, Status(AppliedHere))
    /\ UNCHANGED <<viewVars, expired, session, down, queued, job, registryVars,
                   bound>>

\* The registry changed; a report like the last one is left out.
LastReport == IF up = <<>> THEN session.status ELSE up[Len(up)]

ReportChange ==
    /\ stream.open
    /\ session.id = stream.id
    /\ Len(up) < MaxQueue
    /\ [LastReport EXCEPT !.unstarted = unstarted] # Status(stream.applied)
    /\ up' = Append(up, Status(stream.applied))
    /\ UNCHANGED <<viewVars, expired, session, down, stream, workerVars,
                   registryVars, bound>>

HasPending ==
    \/ deferred # NoSnapshot
    \/ wanted.known /\ Hosted \ wanted.routes # {}

\* submit_retry, with a heartbeat, when the worker has nothing to do.
SubmitRetry ==
    /\ stream.open
    /\ HasPending
    /\ job = NoJob /\ queued = NoJob
    /\ queued' = [stream |-> stream.id, kind |-> "retry", snapshot |-> NoSnapshot]
    /\ UNCHANGED <<viewVars, expired, session, down, up, stream, job, done,
                   registryVars, bound>>

-------------------------------------------------------------------------------
(* The worker: one job at a time, whatever becomes of its stream.           *)

\* within_capacity: hosted instances the snapshot assigns stay, new ones are
\* started while there is room (in route order; here, any).
Admissions(snapshot) ==
    LET staying == Hosted \cap (Assigns(snapshot) \cup Keeps(snapshot))
        fresh == Assigns(snapshot) \ Hosted
        room == MaxAssigned - Cardinality(staying)
    IN  {(Hosted \cap Assigns(snapshot)) \cup new : new \in
            {n \in SUBSET fresh :
                Cardinality(n) = IF Cardinality(fresh) <= room
                                 THEN Cardinality(fresh)
                                 ELSE IF room > 0 THEN room ELSE 0}}

\* The instances that are not started, of a member that is to run as many
\* others as it may.
Unstarted(snapshot, todo) ==
    LET running == todo \cup (Hosted \cap Keeps(snapshot)) IN
    [r \in Route |-> IF r \notin todo /\ Cardinality(running) >= MaxAssigned
                     THEN snapshot.instances[r] ELSE 0]

Departing(routes) == Hosted \ routes

\* reconcile's first half, for a new snapshot or the deferred one.
BeginReconcile ==
    LET snapshot == IF queued.kind = "snapshot" THEN queued.snapshot
                    ELSE deferred IN
    /\ job = NoJob /\ queued # NoJob
    /\ queued.kind = "snapshot" \/ deferred # NoSnapshot
    /\ queued' = NoJob
    /\ wanted' = [known |-> TRUE, routes |-> Assigns(snapshot) \cup Keeps(snapshot)]
    /\ \E todo \in Admissions(snapshot) :
          job' = [stream |-> queued.stream, kind |-> queued.kind,
                  snapshot |-> snapshot, at |-> "admitting", todo |-> todo,
                  unstarted |-> Unstarted(snapshot, todo),
                  excused |-> NoTerms, again |-> FALSE]
    /\ UNCHANGED <<viewVars, expired, session, down, up, stream, done, hosted,
                   reserved, excused, unstarted, deferred, bound>>

\* retry_pending with nothing deferred: only remove_withdrawn.
BeginCleanup ==
    /\ job = NoJob /\ queued # NoJob
    /\ queued.kind = "retry" /\ deferred = NoSnapshot
    /\ queued' = NoJob
    /\ job' = [stream |-> queued.stream, kind |-> "retry",
               snapshot |-> NoSnapshot, at |-> "departing",
               todo |-> IF wanted.known THEN Departing(wanted.routes) ELSE {},
               unstarted |-> NoTerms, excused |-> NoTerms, again |-> FALSE]
    /\ UNCHANGED <<viewVars, expired, session, down, up, stream, done,
                   registryVars, bound>>

Admitting(r) == job # NoJob /\ job.at = "admitting" /\ r \in job.todo

Admitted(r) == job' = [job EXCEPT !.todo = @ \ {r}]

Excused(r, again) ==
    job' = [job EXCEPT !.todo = @ \ {r},
                       !.excused[r] = job.snapshot.instances[r],
                       !.again = @ \/ again]

\* admit, for the term the snapshot assigns: hosted already, or started.
Admit(r) ==
    LET term == job.snapshot.instances[r] IN
    /\ Admitting(r)
    /\ hosted[r] \in {0, term} /\ r \notin reserved
    /\ hosted' = [hosted EXCEPT ![r] = term]
    /\ Admitted(r)
    /\ UNCHANGED <<viewVars, expired, session, down, up, stream, queued, done,
                   reserved, excused, unstarted, deferred, wanted, bound>>

\* The term's credentials have not arrived (deferred), or the instance cannot
\* be started (rejected).
AdmitFails(r) ==
    /\ Fault
    /\ Admitting(r)
    /\ hosted[r] = 0
    /\ \E again \in BOOLEAN : Excused(r, again)
    /\ UNCHANGED <<viewVars, expired, session, down, up, stream, queued, done,
                   registryVars>>

\* An earlier instance of the route holds its key.
AdmitRemoving(r) ==
    /\ Admitting(r)
    /\ r \in reserved
    /\ Excused(r, TRUE)
    /\ UNCHANGED <<viewVars, expired, session, down, up, stream, queued, done,
                   registryVars, bound>>

\* depart: the instance and its files are gone, or the files remain.
Depart(r) ==
    \/ /\ hosted' = [hosted EXCEPT ![r] = 0]
       /\ reserved' = reserved \ {r}
       /\ UNCHANGED bound
    \/ /\ Fault
       /\ reserved' = reserved \cup {r}
       /\ UNCHANGED hosted

\* The process still hosts an earlier term of the route: that one is handed
\* over before the new one is admitted.
Relinquish(r) ==
    /\ Admitting(r)
    /\ hosted[r] \notin {0, job.snapshot.instances[r]} /\ r \notin reserved
    /\ Depart(r)
    /\ UNCHANGED <<viewVars, expired, session, down, up, stream, workerVars,
                   excused, unstarted, deferred, wanted>>

BeginRemovalUnreported ==
    /\ job # NoJob
    /\ job.at = "admitting" /\ job.todo = {}
    /\ unstarted' = job.unstarted
    /\ deferred' = IF job.again THEN job.snapshot ELSE NoSnapshot
    /\ job' = [job EXCEPT !.at = "departing", !.todo = Departing(wanted.routes)]
    /\ UNCHANGED <<viewVars, expired, session, down, up, stream, queued, done,
                   hosted, reserved, excused, wanted, bound>>

\* The reports of what was not admitted replace those of the job before, and
\* what the snapshot omits leaves.
BeginRemoval ==
    /\ job # NoJob
    /\ job.at = "admitting" /\ job.todo = {}
    /\ excused' = job.excused
    /\ unstarted' = job.unstarted
    /\ deferred' = IF job.again THEN job.snapshot ELSE NoSnapshot
    /\ job' = [job EXCEPT !.at = "departing", !.todo = Departing(wanted.routes)]
    /\ UNCHANGED <<viewVars, expired, session, down, up, stream, queued, done,
                   hosted, reserved, wanted, bound>>

\* Stopped when the snapshot's stop list names it, relinquished otherwise;
\* either way it leaves the registry.
RemoveWithdrawn(r) ==
    /\ job # NoJob
    /\ job.at = "departing" /\ r \in job.todo
    /\ job' = [job EXCEPT !.todo = @ \ {r}]
    /\ Depart(r)
    /\ UNCHANGED <<viewVars, expired, session, down, up, stream, queued, done,
                   excused, unstarted, deferred, wanted>>

\* A finished job carries the last revision applied on its stream.
FinishJob ==
    /\ job # NoJob
    /\ job.at = "departing" /\ job.todo = {}
    /\ job' = NoJob
    /\ done' = [stream |-> job.stream,
                revision |-> IF job.kind = "snapshot" THEN job.snapshot.revision
                             ELSE IF done.stream = job.stream THEN done.revision
                             ELSE 0,
                unread |-> TRUE]
    /\ UNCHANGED <<viewVars, expired, session, down, up, stream, queued,
                   registryVars, bound>>

-------------------------------------------------------------------------------
Reconcile ==
    \/ BeginReconcile \/ BeginCleanup \/ BeginRemoval \/ FinishJob
    \/ \E r \in Route : \/ Admit(r) \/ AdmitRemoving(r) \/ Relinquish(r)
                         \/ RemoveWithdrawn(r) \/ AdmitFails(r)

Next ==
    \/ ViewChanges \/ MemberReturns \/ EndSession \/ RestartGateway
    \/ SendSnapshot \/ RecordStatus
    \/ Connect \/ LoseStream \/ ReceiveSnapshot \/ Acknowledge
    \/ ReportChange \/ SubmitRetry
    \/ Reconcile

Spec == Init /\ [][Next]_vars

(***************************************************************************)
(* Each end of the stream runs its own loop and never stops for good: the   *)
(* gateway's session task, the member's attach loop with its heartbeats,    *)
(* and the worker.  Passes run on a timer, so one follows the member's      *)
(* return.  Nothing else is assumed of the view, and nothing of failures.   *)
(***************************************************************************)
Fairness ==
    /\ WF_vars(MemberReturns)
    /\ WF_vars(SendSnapshot) /\ WF_vars(RecordStatus)
    /\ WF_vars(Connect) /\ WF_vars(LoseStream /\ session.id # stream.id)
    /\ WF_vars(ReceiveSnapshot)
    /\ WF_vars(Acknowledge) /\ WF_vars(ReportChange)
    /\ WF_vars(SubmitRetry) /\ WF_vars(Reconcile)

FairSpec == Spec /\ Fairness

-------------------------------------------------------------------------------
(* Properties                                                               *)

\* The status renders a verdict on the route: the stream acknowledged the
\* snapshot that installed the term.
Counted(r) ==
    /\ session.terms[r].epoch # 0
    /\ session.status.applied >= session.terms[r].since

Observed(r) ==
    IF r \in expired THEN "absent"
    ELSE IF owners[r].member # Host \/ session.id = 0 THEN "nohost"
    ELSE IF session.terms[r].epoch # owners[r].epoch \/ ~Counted(r) THEN "pending"
    ELSE IF session.status.terms[r] # 0 THEN "reported"
    ELSE IF \/ assigned[r] > session.status.applied
            \/ ownedSince[r] > session.status.applied THEN "pending"
    ELSE "absent"

\* member_reports and observed: a report counted for a term describes the
\* instance of that term, although the member may be between two terms of
\* the route, lose its stream and finish the old stream's snapshot on the
\* next one, or hear from a gateway whose revisions start again.
ReportsOfTheirTerm ==
    \A r \in Route :
        Counted(r) /\ session.status.terms[r] # 0 =>
            session.status.terms[r] = session.terms[r].epoch

\* observed: unless the pool reports the route expired, the gateway concludes
\* that an assigned instance is gone only from a report of a member that left
\* this very term unstarted, running as many others as it may: never from one
\* that still has to start it, has failed to, or is between two terms.
NoFalseAbsence ==
    \A r \in Route :
        assigned[r] # 0 /\ r \notin expired /\ Observed(r) = "absent"
            => session.status.unstarted[r] = owners[r].epoch

\* What a member that has followed the view hosts: the routes assigned to
\* its process, for their current term, or a report that it could not, as far
\* as there is room; of the rest only what it was told to keep.
Settled ==
    loaded =>
        \A r \in Route :
            IF owners[r].member = Host /\ assigned[r] # 0
            THEN \/ hosted[r] = owners[r].epoch
                 \/ excused[r] = owners[r].epoch /\ deferred = NoSnapshot
                 \/ unstarted[r] = owners[r].epoch
            ELSE hosted[r] = 0 \/ Snapshot(Host).keeps[r] # 0

\* The gateway sees what its member hosts.
Seen ==
    \A r \in Route :
        loaded /\ owners[r].member = Host /\ assigned[r] # 0
            => /\ r \notin expired
               /\ \/ Observed(r) = "reported"
                  \/ Observed(r) = "absent" /\ unstarted[r] = owners[r].epoch

\* run_session, run_stream, Reconciler: once the view stays and failures end,
\* the member hosts what the gateway assigned it and the gateway knows.
\* Excepted is a route assigned again while the files of its earlier instance
\* remain: admissions are deferred for ever, as nothing deletes the files.
HostConverges == <>[]((Settled /\ Seen) \/ reserved \cap wanted.routes # {})

\* As the comment of SandboxInstanceHost::remove has it, "if the directory
\* cannot be deleted, the key stays reserved and the next removal tries
\* again", and a deferred admission is "retried shortly".
ReservedRoutesAdmitted == <>[](Settled /\ Seen)
=============================================================================
