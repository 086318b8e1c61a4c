-------------------------- MODULE HostSessionProofs --------------------------
(***************************************************************************)
(* What a gateway concludes from a member's reports, for any routes and     *)
(* bounds.                                                                  *)
(***************************************************************************)
EXTENDS HostSession, FiniteSetTheorems, SequenceTheorems, TLAPS

Terms == [Route -> 0..MaxEpoch]
Shot == [revision : Nat, instances : Terms, stops : SUBSET Route, keeps : Terms,
         directory : [Route -> Member \cup {NoMember}]]
Report == [applied : Int, terms : Terms, unstarted : Terms]
SessionType == [id : Nat, sent : Nat, seen : Nat, last : Shot, status : Report,
                terms : [Route -> [epoch : 0..MaxEpoch, since : Nat]]]
StreamType == [id : Nat, open : BOOLEAN, received : Nat, applied : Nat]
QueuedType == [stream : Nat, kind : JobKind, snapshot : Shot]
JobType == [stream : Nat, kind : JobKind, snapshot : Shot,
            at : {"admitting", "departing"}, todo : SUBSET Route,
            excused : Terms, unstarted : Terms, again : BOOLEAN]
DoneType == [stream : Nat, revision : Nat, unread : BOOLEAN]
WantedType == [known : BOOLEAN, routes : SUBSET Route]

HostTypes ==
    /\ ViewTypeOK
    /\ session \in SessionType
    /\ down \in Seq(Shot)
    /\ up \in Seq(Report)
    /\ stream \in StreamType
    /\ queued \in QueuedType \cup {NoJob}
    /\ job \in JobType \cup {NoJob}
    /\ done \in DoneType
    /\ hosted \in Terms
    /\ excused \in Terms
    /\ unstarted \in Terms
    /\ deferred \in Shot
    /\ wanted \in WantedType

\* The last revision the member's worker has applied on the stream.
Applied == IF done.stream = stream.id THEN done.revision ELSE 0

\* Queued work is of the stream, and what the worker does or did is of this
\* one or an earlier one.
IdsOK ==
    /\ session.id \in {0, stream.id}
    /\ session.id = 0 => \A r \in Route : session.terms[r].epoch = 0
    /\ done.stream <= stream.id
    /\ queued # NoJob => queued.stream = stream.id
    /\ job # NoJob =>
          /\ job.stream <= stream.id
          /\ done.stream = stream.id => job.stream = stream.id

\* Revisions reach the worker in order, and nothing is acknowledged before it
\* was sent.
OrderOK ==
    /\ stream.applied <= Applied /\ Applied <= stream.received
    /\ \A i \in DOMAIN up : up[i].applied <= Applied
    /\ queued # NoJob /\ queued.kind = "snapshot" =>
          Applied <= queued.snapshot.revision /\ queued.snapshot.revision <= stream.received
    /\ job # NoJob /\ job.kind = "snapshot" /\ job.stream = stream.id =>
          /\ Applied <= job.snapshot.revision
          /\ job.snapshot.revision <= stream.received
          /\ queued # NoJob /\ queued.kind = "snapshot" =>
                job.snapshot.revision <= queued.snapshot.revision
    /\ session.id # 0 =>
          /\ stream.received <= session.sent
          /\ \A i \in DOMAIN down : down[i].revision <= session.sent
    /\ session.sent <= session.seen
    /\ session.status.applied <= session.sent
    /\ \A r \in Route : session.terms[r].epoch # 0 =>
          session.terms[r].since >= 1 /\ session.terms[r].since <= session.sent

\* The route's term was never sent as kept.
NotUnloaded == MayUnload \/ \A r \in Route : ~Unloads(r)

\* A report of a route assigned for term e: of that term, or of nothing where
\* the term was left unstarted for want of room.
Tells(x, u, e) == x = e \/ (x = 0 /\ u = e)
Telling(r, e) ==
    excused[r] = e \/ (excused[r] = 0 /\ Tells(hosted[r], unstarted[r], e))

\* The worker's job, towards what its snapshot assigns.
JobOK ==
    job # NoJob =>
        /\ job.at = "departing" => deferred \in {NoSnapshot, job.snapshot}
        /\ job.at = "admitting" =>
              /\ job.kind = "retry" => /\ deferred = job.snapshot
                                       /\ deferred # NoSnapshot
              /\ job.todo \subseteq Assigns(job.snapshot)
        /\ Assigns(job.snapshot) \subseteq wanted.routes
        /\ job.at = "departing" => job.todo \cap wanted.routes = {}
        /\ job.kind = "snapshot" => wanted.known
        /\ \A r \in Assigns(job.snapshot) :
              /\ job.excused[r] \in {0, job.snapshot.instances[r]}
              /\ job.at = "admitting" =>
                    \/ r \in job.todo
                    \/ job.excused[r] = job.snapshot.instances[r]
                    \/ Tells(hosted[r], job.unstarted[r], job.snapshot.instances[r])
              /\ job.at = "departing" => Telling(r, job.snapshot.instances[r])

\* What follows the snapshot that installed a term, for the term e of route r
\* since revision v.
Installed(r, e, v) ==
    /\ \A i \in DOMAIN down : down[i].revision >= v => down[i].instances[r] = e
    /\ queued # NoJob /\ queued.kind = "snapshot" /\ queued.snapshot.revision >= v
          => queued.snapshot.instances[r] = e
    /\ /\ job # NoJob /\ job.kind = "snapshot" /\ job.stream = stream.id
       /\ job.snapshot.revision >= v
       => job.snapshot.instances[r] = e
    /\ \A i \in DOMAIN up :
          up[i].applied >= v => Tells(up[i].terms[r], up[i].unstarted[r], e)
    /\ session.status.applied >= v =>
          Tells(session.status.terms[r], session.status.unstarted[r], e)
    /\ Applied >= v =>
          /\ Telling(r, e)
          /\ r \in wanted.routes
          /\ deferred # NoSnapshot => deferred.instances[r] = e

\* The terms that were sent, where none of them is unloaded.
InstalledOK ==
    MayUnload \/ \A r \in Route :
        session.terms[r].epoch # 0 =>
            Installed(r, session.terms[r].epoch, session.terms[r].since)

\* The terms that the view assigns to the member, unloaded in between or not:
\* a stream that has seen the date of both the term and the assignment was
\* sent the term.
Dated(r) == IF assigned[r] > ownedSince[r] THEN assigned[r] ELSE ownedSince[r]

ServedOK ==
    session.id # 0 =>
        /\ session.seen <= revision
        /\ \A r \in Route :
              owners[r].member = Host /\ assigned[r] # 0 =>
                  Installed(r, owners[r].epoch, Dated(r))

SessionInv ==
    /\ HostTypes
    /\ IdsOK
    /\ OrderOK
    /\ JobOK
    /\ NotUnloaded

HostInv == SessionInv /\ InstalledOK /\ ServedOK

-------------------------------------------------------------------------------
(* The records the state consists of.                                       *)

\* A snapshot with nothing in it.
LEMMA NoSnapshotFields ==
    /\ NoSnapshot \in Shot
    /\ NoSnapshot.revision = 0
    /\ \A r \in Route : NoSnapshot.instances[r] = 0
    /\ Assigns(NoSnapshot) = {}
<1>1. NoTerms \in Terms
  BY ViewAssumption DEF NoTerms, Terms
<1> QED
  BY <1>1 DEF NoSnapshot, Shot, Assigns, NoTerms

\* What the view shows the member.
LEMMA SnapshotFields ==
    ASSUME ViewTypeOK
    PROVE  /\ Snapshot(Host) \in Shot
           /\ Snapshot(Host).revision = revision
           /\ \A r \in Route : Snapshot(Host).keeps[r] # 0 =>
                                 Snapshot(Host).instances[r] = 0
<1>1. \A r \in Route : owners[r].epoch \in 0..MaxEpoch
  BY ViewAssumption DEF ViewTypeOK, Owner, NoOwner
<1>2. 0 \in 0..MaxEpoch
  BY ViewAssumption
<1>3. \A r \in Route : owners[r].member \in Member \cup {NoMember}
  BY DEF ViewTypeOK, Owner, NoOwner
<1>4. revision \in Nat
  BY DEF ViewTypeOK
<1> QED
  BY <1>1, <1>2, <1>3, <1>4 DEF Snapshot, OwnedAssigned, Shot, Terms

\* The fields of the state's records.
LEMMA HostFields ==
    ASSUME HostTypes
    PROVE  /\ session.id \in Nat /\ session.sent \in Nat /\ session.seen \in Nat
           /\ session.last \in Shot /\ session.status \in Report
           /\ session.status.applied \in Int /\ session.status.terms \in Terms
           /\ session.status.unstarted \in Terms
           /\ \A r \in Route : /\ session.terms[r].epoch \in 0..MaxEpoch
                               /\ session.terms[r].since \in Nat
           /\ stream.id \in Nat /\ stream.received \in Nat /\ stream.applied \in Nat
           /\ stream.open \in BOOLEAN
           /\ done.stream \in Nat /\ done.revision \in Nat /\ done.unread \in BOOLEAN
           /\ deferred.instances \in Terms
           /\ wanted.routes \in SUBSET Route
  BY DEF HostTypes, SessionType, StreamType, DoneType, Shot, Report, WantedType

\* Those of a snapshot.
LEMMA ShotFields ==
    ASSUME NEW s \in Shot
    PROVE  /\ s.revision \in Nat
           /\ s.instances \in Terms /\ s.keeps \in Terms
           /\ \A r \in Route : s.instances[r] \in 0..MaxEpoch
           /\ Assigns(s) \in SUBSET Route
           /\ \A r \in Route : r \in Assigns(s) <=> s.instances[r] # 0
  BY DEF Shot, Terms, Assigns

\* Those of a report.
LEMMA ReportFields ==
    ASSUME NEW s \in Report
    PROVE  s.applied \in Int /\ s.terms \in Terms /\ s.unstarted \in Terms
  BY DEF Report

\* Those of queued work and of the worker's job.
LEMMA JobFields ==
    ASSUME HostTypes
    PROVE  /\ queued # NoJob =>
                /\ queued.stream \in Nat /\ queued.kind \in JobKind
                /\ queued.snapshot \in Shot
           /\ job # NoJob =>
                /\ job \in JobType
                /\ job.stream \in Nat /\ job.kind \in JobKind
                /\ job.snapshot \in Shot /\ job.todo \in SUBSET Route
                /\ job.at \in {"admitting", "departing"}
                /\ job.excused \in Terms /\ job.unstarted \in Terms
                /\ job.again \in BOOLEAN
  BY DEF HostTypes, QueuedType, JobType

\* Those of messages on the way.
LEMMA MessageFields ==
    ASSUME HostTypes
    PROVE  /\ \A i \in DOMAIN down : down[i] \in Shot
           /\ \A i \in DOMAIN up : up[i] \in Report
           /\ DOMAIN down = 1..Len(down) /\ Len(down) \in Nat
           /\ DOMAIN up = 1..Len(up) /\ Len(up) \in Nat
  BY DEF HostTypes

\* The session of a new stream, or of none.
LEMMA NewSessionFields ==
    ASSUME NEW id \in Nat
    PROVE  /\ NewSession(id) \in SessionType
           /\ NewSession(id).id = id
           /\ NewSession(id).sent = 0 /\ NewSession(id).seen = 0
           /\ NewSession(id).status.applied = -1
           /\ \A r \in Route : NewSession(id).terms[r].epoch = 0
<1>1. NoTerms \in Terms /\ 0 \in 0..MaxEpoch
  BY ViewAssumption DEF NoTerms, Terms
<1>2. NoStatus \in Report /\ NoStatus.applied = -1
  BY <1>1 DEF NoStatus, Report
<1> QED
  BY <1>1, <1>2, NoSnapshotFields DEF NewSession, SessionType

\* What the member reports.
LEMMA StatusFields ==
    ASSUME HostTypes, NEW a \in Nat
    PROVE  /\ Status(a) \in Report /\ Status(a).applied = a
           /\ Status(a).unstarted = unstarted
           /\ \A r \in Route : Status(a).terms[r] =
                 IF excused[r] # 0 THEN excused[r] ELSE hosted[r]
  BY DEF HostTypes, Status, List, Report, Terms

\* As long as neither the view nor the terms sent change, no term is unloaded.
LEMMA NotUnloadedKept ==
    ASSUME NotUnloaded, UNCHANGED viewVars, session'.terms = session.terms
    PROVE  NotUnloaded'
  BY DEF NotUnloaded, Unloads, Snapshot, OwnedAssigned, viewVars

\* A message is received.
LEMMA TailProps ==
    ASSUME NEW S, NEW q \in Seq(S), q # <<>>
    PROVE  /\ Tail(q) \in Seq(S) /\ Head(q) \in S
           /\ 1 \in DOMAIN q /\ Head(q) = q[1]
           /\ \A i \in DOMAIN Tail(q) : i + 1 \in DOMAIN q /\ Tail(q)[i] = q[i + 1]
  BY HeadTailProperties

\* A message is sent.
LEMMA AppendProps ==
    ASSUME NEW S, NEW q \in Seq(S), NEW x \in S
    PROVE  /\ Append(q, x) \in Seq(S)
           /\ \A i \in DOMAIN Append(q, x) :
                 \/ i \in DOMAIN q /\ Append(q, x)[i] = q[i]
                 \/ Append(q, x)[i] = x
  BY AppendProperties

\* What holds for each installed term stays, as long as the same terms are.
LEMMA InstalledStays ==
    ASSUME HostTypes, OrderOK, InstalledOK, session'.terms = session.terms,
           \A r \in Route, e \in 1..MaxEpoch, v \in Nat :
              v >= 1 /\ Installed(r, e, v) => Installed(r, e, v)'
    PROVE  InstalledOK'
<1>1. ASSUME NEW r \in Route, session.terms[r].epoch # 0
      PROVE  /\ session.terms[r].epoch \in 1..MaxEpoch
             /\ session.terms[r].since \in Nat /\ session.terms[r].since >= 1
  BY <1>1, HostFields DEF OrderOK
<1>2. ASSUME NEW r \in Route, session.terms[r].epoch # 0, ~MayUnload
      PROVE  Installed(r, session.terms[r].epoch, session.terms[r].since)'
  <2>1. Installed(r, session.terms[r].epoch, session.terms[r].since)
    BY <1>2 DEF InstalledOK
  <2>2. ASSUME NEW e \in 1..MaxEpoch, NEW v \in Nat, v >= 1, Installed(r, e, v),
               e = session'.terms[r].epoch, v = session'.terms[r].since
        PROVE  Installed(r, session.terms[r].epoch, session.terms[r].since)'
    <3>1. Installed(r, e, v)'
      BY <2>2
    <3> QED
      BY <2>2, <3>1 DEF Installed
  <2> QED
    BY <1>1, <1>2, <2>1, <2>2
<1> QED
  BY <1>2 DEF InstalledOK

\* The term and the date of a route that the view assigns to the member.
LEMMA ServedTerm ==
    ASSUME ViewTypeOK, NEW r \in Route, owners[r].member = Host, assigned[r] # 0
    PROVE  owners[r].epoch \in 1..MaxEpoch /\ Dated(r) \in Nat /\ Dated(r) >= 1
<1>1. owners[r] \in Owner \cup {NoOwner} /\ Host # NoMember
  BY ViewAssumption, SessionAssumption DEF ViewTypeOK
<1>2. assigned[r] \in Nat /\ ownedSince[r] \in Nat
  BY DEF ViewTypeOK
<1>3. owners[r] \in Owner
  BY <1>1 DEF NoOwner
<1> QED
  BY <1>2, <1>3 DEF Owner, Dated

\* The same of the terms the view assigns, as long as the view is the same.
LEMMA ServedStays ==
    ASSUME HostTypes, ServedOK, UNCHANGED viewVars,
           session'.id = session.id, session'.seen = session.seen,
           \A r \in Route, e \in 1..MaxEpoch, v \in Nat :
              v >= 1 /\ Installed(r, e, v) => Installed(r, e, v)'
    PROVE  ServedOK'
<1>1. /\ UNCHANGED <<revision, owners, assigned, ownedSince>>
      /\ ViewTypeOK
  BY DEF viewVars, HostTypes
<1>2. ASSUME NEW r \in Route, owners[r].member = Host, assigned[r] # 0,
             session.id # 0
      PROVE  Installed(r, owners[r].epoch, Dated(r))'
  <2>1. Installed(r, owners[r].epoch, Dated(r))
    BY <1>2 DEF ServedOK
  <2>2. /\ owners[r].epoch \in 1..MaxEpoch /\ Dated(r) \in Nat /\ Dated(r) >= 1
        /\ Dated(r)' = Dated(r)
    BY <1>1, <1>2, ServedTerm DEF Dated
  <2>3. ASSUME NEW e \in 1..MaxEpoch, NEW v \in Nat, v >= 1, Installed(r, e, v),
               e = owners'[r].epoch, v = Dated(r)'
        PROVE  Installed(r, owners[r].epoch, Dated(r))'
    <3>1. Installed(r, e, v)'
      BY <2>3
    <3> QED
      BY <2>3, <3>1 DEF Installed
  <2> QED
    BY <1>1, <2>1, <2>2, <2>3
<1> QED
  BY <1>1, <1>2 DEF ServedOK

\* Nothing is known yet of a revision that is still to be sent.
LEMMA NothingYet ==
    ASSUME HostTypes, OrderOK, session.id # 0, NEW r \in Route, NEW e \in 1..MaxEpoch,
           NEW v \in Nat, v > session.sent
    PROVE  Installed(r, e, v)
<1> USE HostFields, JobFields, MessageFields, ShotFields, ReportFields
<1>1. Applied \in Nat /\ Applied <= session.sent /\ stream.received <= session.sent
  BY DEF OrderOK, Applied
<1>2. \A i \in DOMAIN down : ~(down[i].revision >= v)
  BY DEF OrderOK
<1>3. queued # NoJob /\ queued.kind = "snapshot" => ~(queued.snapshot.revision >= v)
  BY <1>1 DEF OrderOK
<1>4. job # NoJob /\ job.kind = "snapshot" /\ job.stream = stream.id
         => ~(job.snapshot.revision >= v)
  BY <1>1 DEF OrderOK
<1>5. \A i \in DOMAIN up : ~(up[i].applied >= v)
  BY <1>1 DEF OrderOK
<1>6. ~(session.status.applied >= v) /\ ~(Applied >= v)
  BY <1>1 DEF OrderOK
<1> QED
  BY ONLY <1>2, <1>3, <1>4, <1>5, <1>6 DEF Installed

-------------------------------------------------------------------------------
(* The steps, one lemma per action.                                         *)

\* The gateway ends the session.
LEMMA EndSessionKeeps ==
    ASSUME HostInv, EndSession
    PROVE  HostInv'
<1> USE HostFields, JobFields, MessageFields, ShotFields, ReportFields
    DEF HostInv, SessionInv
<1>1. /\ session' \in SessionType /\ session'.id = 0
      /\ session'.sent = 0 /\ session'.seen = 0 /\ session'.status.applied = -1
      /\ \A r \in Route : session'.terms[r].epoch = 0
  BY NewSessionFields DEF EndSession
<1>2. /\ up' = <<>> /\ up' \in Seq(Report) /\ DOMAIN up' = {}
      /\ UNCHANGED <<viewVars, down, stream, workerVars, registryVars>>
  BY DEF EndSession
<1>3. HostTypes'
  BY <1>1, <1>2 DEF HostTypes, workerVars, registryVars, viewVars, ViewTypeOK
<1>4. IdsOK'
  BY <1>1, <1>2, <1>3 DEF IdsOK, workerVars, registryVars
<1>5. OrderOK'
  BY <1>1, <1>2, <1>3 DEF OrderOK, Applied, workerVars, registryVars
<1>6. JobOK'
  BY <1>1, <1>2, <1>3 DEF JobOK, Telling, Tells, workerVars, registryVars
<1>7. NotUnloaded'
  BY <1>1 DEF NotUnloaded, Unloads
<1>8. ASSUME NEW r \in Route, NEW e \in 1..MaxEpoch, NEW v \in Nat, v >= 1,
             Installed(r, e, v)
      PROVE  Installed(r, e, v)'
  BY <1>1, <1>2, <1>3, <1>8 DEF Installed, Applied, Telling, Tells, workerVars, registryVars, IdsOK, OrderOK
<1>9. InstalledOK'
  BY <1>1, <1>2, <1>3, <1>8 DEF InstalledOK
<1>9a. ServedOK'
  BY <1>1 DEF ServedOK
<1> QED
  BY <1>3, <1>4, <1>5, <1>6, <1>7, <1>8, <1>9, <1>9a DEF HostInv, SessionInv

\* The gateway restarts.
LEMMA RestartGatewayKeeps ==
    ASSUME HostInv, RestartGateway
    PROVE  HostInv'
<1> USE HostFields, JobFields, MessageFields, ShotFields, ReportFields
    DEF HostInv, SessionInv
<1>1. /\ session' \in SessionType /\ session'.id = 0
      /\ session'.sent = 0 /\ session'.seen = 0 /\ session'.status.applied = -1
      /\ \A r \in Route : session'.terms[r].epoch = 0
  BY NewSessionFields DEF RestartGateway
<1>2. /\ up' = <<>> /\ up' \in Seq(Report) /\ DOMAIN up' = {}
      /\ UNCHANGED <<down, stream, workerVars, registryVars>>
  BY DEF RestartGateway
<1>3. ViewTypeOK'
  BY DEF RestartGateway, ViewRestart, ViewTypeOK
<1>4. HostTypes'
  BY <1>1, <1>2, <1>3 DEF HostTypes, workerVars, registryVars
<1>5. IdsOK'
  BY <1>1, <1>2, <1>3, <1>4 DEF IdsOK, workerVars, registryVars
<1>6. OrderOK'
  BY <1>1, <1>2, <1>3, <1>4 DEF OrderOK, Applied, workerVars, registryVars
<1>7. JobOK'
  BY <1>1, <1>2, <1>3, <1>4 DEF JobOK, Telling, Tells, workerVars, registryVars
<1>8. NotUnloaded'
  BY <1>1 DEF NotUnloaded, Unloads
<1>9. ASSUME NEW r \in Route, NEW e \in 1..MaxEpoch, NEW v \in Nat, v >= 1,
             Installed(r, e, v)
      PROVE  Installed(r, e, v)'
  BY <1>1, <1>2, <1>3, <1>4, <1>9 DEF Installed, Applied, Telling, Tells, workerVars, registryVars, IdsOK, OrderOK
<1>10. InstalledOK'
  BY <1>1, <1>2, <1>3, <1>4, <1>9 DEF InstalledOK
<1>10a. ServedOK'
  BY <1>1 DEF ServedOK
<1> QED
  BY <1>4, <1>5, <1>6, <1>7, <1>8, <1>9, <1>10, <1>10a DEF HostInv, SessionInv

\* The gateway records a report.
LEMMA RecordStatusKeeps ==
    ASSUME HostInv, RecordStatus
    PROVE  HostInv'
<1> USE HostFields, JobFields, MessageFields, ShotFields, ReportFields
    DEF HostInv, SessionInv
<1>1. up # <<>> /\ up' = Tail(up) /\ up \in Seq(Report)
  BY DEF RecordStatus, HostTypes
<1>2. /\ up' \in Seq(Report) /\ Head(up) \in Report /\ 1 \in DOMAIN up /\ Head(up) = up[1]
      /\ \A i \in DOMAIN up' : i + 1 \in DOMAIN up /\ up'[i] = up[i + 1]
  BY <1>1, TailProps
<1>3. UNCHANGED <<viewVars, down, stream, workerVars, registryVars>>
  BY DEF RecordStatus
<1>4. /\ session' \in SessionType
      /\ session'.id = session.id /\ session'.sent = session.sent
      /\ session'.seen = session.seen /\ session'.terms = session.terms
      /\ \/ session'.status = session.status
         \/ session'.status = up[1] /\ up[1].applied <= session.sent
  <2>1. CASE StatusAccepted(Head(up))
    <3>1. session' = [session EXCEPT !.status = Head(up)] /\ session \in SessionType
      BY <2>1 DEF RecordStatus, HostTypes
    <3>2. /\ session' \in SessionType
          /\ session'.id = session.id /\ session'.sent = session.sent
          /\ session'.seen = session.seen /\ session'.terms = session.terms
          /\ session'.status = Head(up)
      BY <1>2, <3>1 DEF SessionType
    <3> QED
      BY <1>2, <2>1, <3>2 DEF StatusAccepted
  <2>2. CASE ~StatusAccepted(Head(up))
    BY <2>2 DEF RecordStatus, HostTypes
  <2> QED
    BY <2>1, <2>2
<1>5. HostTypes'
  BY <1>1, <1>2, <1>3, <1>4 DEF HostTypes, workerVars, registryVars, viewVars, ViewTypeOK
<1>6. IdsOK'
  BY <1>1, <1>2, <1>3, <1>4, <1>5 DEF IdsOK, workerVars, registryVars
<1>7. OrderOK'
  BY <1>1, <1>2, <1>3, <1>4, <1>5 DEF OrderOK, Applied, workerVars, registryVars
<1>8. JobOK'
  BY <1>1, <1>2, <1>3, <1>4, <1>5 DEF JobOK, Telling, Tells, workerVars, registryVars
<1>9. NotUnloaded'
  BY <1>1, <1>2, <1>3, <1>4, NotUnloadedKept
<1>10. ASSUME NEW r \in Route, NEW e \in 1..MaxEpoch, NEW v \in Nat, v >= 1,
             Installed(r, e, v)
      PROVE  Installed(r, e, v)'
  <2>1. \A i \in DOMAIN up' :
           up'[i].applied >= v => Tells(up'[i].terms[r], up'[i].unstarted[r], e)
    BY ONLY <1>2, <1>10 DEF Installed
  <2>2. session'.status.applied >= v =>
          Tells(session'.status.terms[r], session'.status.unstarted[r], e)
    BY ONLY <1>2, <1>4, <1>10 DEF Installed
  <2> QED
    BY ONLY <1>3, <1>10, <2>1, <2>2
       DEF Installed, Applied, Telling, Tells, workerVars, registryVars
<1>11. InstalledOK'
  BY <1>1, <1>2, <1>3, <1>4, <1>5, <1>10, InstalledStays
<1>11a. ServedOK'
  BY <1>1, <1>2, <1>3, <1>4, <1>5, <1>10, ServedStays
<1> QED
  BY <1>5, <1>6, <1>7, <1>8, <1>9, <1>10, <1>11, <1>11a DEF HostInv, SessionInv

\* The member loses its stream.
LEMMA LoseStreamKeeps ==
    ASSUME HostInv, LoseStream
    PROVE  HostInv'
<1> USE HostFields, JobFields, MessageFields, ShotFields, ReportFields
    DEF HostInv, SessionInv
<1>1. /\ stream' \in StreamType /\ stream'.id = stream.id
      /\ stream'.received = stream.received /\ stream'.applied = stream.applied
  BY DEF LoseStream, HostTypes, StreamType
<1>2. /\ down' = <<>> /\ down' \in Seq(Shot) /\ DOMAIN down' = {}
      /\ UNCHANGED <<viewVars, session, up, workerVars, registryVars>>
  BY DEF LoseStream
<1>3. HostTypes'
  BY <1>1, <1>2 DEF HostTypes, workerVars, registryVars, viewVars, ViewTypeOK
<1>4. IdsOK'
  BY <1>1, <1>2, <1>3 DEF IdsOK, workerVars, registryVars
<1>5. OrderOK'
  BY <1>1, <1>2, <1>3 DEF OrderOK, Applied, workerVars, registryVars
<1>6. JobOK'
  BY <1>1, <1>2, <1>3 DEF JobOK, Telling, Tells, workerVars, registryVars
<1>7. NotUnloaded'
  BY <1>1, <1>2, NotUnloadedKept
<1>8. ASSUME NEW r \in Route, NEW e \in 1..MaxEpoch, NEW v \in Nat, v >= 1,
             Installed(r, e, v)
      PROVE  Installed(r, e, v)'
  BY <1>1, <1>2, <1>3, <1>8 DEF Installed, Applied, Telling, Tells, workerVars, registryVars, IdsOK, OrderOK
<1>9. InstalledOK'
  BY <1>1, <1>2, <1>3, <1>8, InstalledStays
<1>9a. ServedOK'
  BY <1>1, <1>2, <1>3, <1>8, ServedStays
<1> QED
  BY <1>3, <1>4, <1>5, <1>6, <1>7, <1>8, <1>9, <1>9a DEF HostInv, SessionInv

\* The view changes, without unloading a term the stream was sent.
LEMMA ViewChangesKeeps ==
    ASSUME HostInv, ViewChanges
    PROVE  HostInv'
<1> USE HostFields, JobFields, MessageFields, ShotFields, ReportFields
    DEF HostInv, SessionInv
<1>1. UNCHANGED <<session, down, up, stream, workerVars, registryVars>>
  BY DEF ViewChanges
<1>2. ViewTypeOK'
  <2>1. ViewTypeOK
    BY DEF HostTypes
  <2>2. CASE Serve
    <3>1. revision' \in Nat /\ revision' = revision + 1
      BY <2>1, <2>2 DEF Serve, ViewTypeOK
    <3>2. assigned' \in [Route -> Nat]
      BY <2>2, <3>1 DEF Serve
    <3>3. ownedSince' \in [Route -> Nat]
      BY <2>1, <2>2, <3>1 DEF Serve, ViewTypeOK
    <3>4. /\ loaded' \in BOOLEAN /\ desired' \in SUBSET Route
          /\ owners' \in [Route -> Owner \cup {NoOwner}]
          /\ stopping' \in [Route -> Member \cup {NoMember}]
      BY <2>1, <2>2 DEF Serve, ViewTypeOK
    <3> QED
      BY <3>1, <3>2, <3>3, <3>4 DEF ViewTypeOK
  <2>3. CASE Unseen \/ StopsExpire
    BY <2>1, <2>3 DEF Unseen, StopsExpire, ViewTypeOK
  <2> QED
    BY <2>2, <2>3 DEF ViewChanges
<1>3. HostTypes'
  BY <1>1, <1>2 DEF HostTypes, workerVars, registryVars
<1>4. IdsOK'
  BY <1>1, <1>2, <1>3 DEF IdsOK, workerVars, registryVars
<1>5. OrderOK'
  BY <1>1, <1>2, <1>3 DEF OrderOK, Applied, workerVars, registryVars
<1>6. JobOK'
  BY <1>1, <1>2, <1>3 DEF JobOK, Telling, Tells, workerVars, registryVars
<1>7. NotUnloaded'
  BY DEF ViewChanges, NotUnloaded
<1>8. ASSUME NEW r \in Route, NEW e \in 1..MaxEpoch, NEW v \in Nat, v >= 1,
             Installed(r, e, v)
      PROVE  Installed(r, e, v)'
  BY <1>1, <1>2, <1>3, <1>8 DEF Installed, Applied, Telling, Tells, workerVars, registryVars, IdsOK, OrderOK
<1>9. InstalledOK'
  BY <1>1, <1>2, <1>3, <1>8, InstalledStays
<1>10. ASSUME NEW r \in Route, owners'[r].member = Host, assigned'[r] # 0,
              session.id # 0
       PROVE  Installed(r, owners[r].epoch, Dated(r))'
  <2>1. /\ owners'[r].epoch \in 1..MaxEpoch /\ Dated(r)' \in Nat /\ Dated(r)' >= 1
        /\ revision \in Nat /\ ViewTypeOK
    <3>1. ViewTypeOK /\ revision \in Nat
      BY DEF HostTypes, ViewTypeOK
    <3>2. owners'[r] \in Owner
      BY <1>2, <1>10, ViewAssumption, SessionAssumption DEF ViewTypeOK, NoOwner
    <3>3. assigned'[r] \in Nat /\ ownedSince'[r] \in Nat
      BY <1>2 DEF ViewTypeOK
    <3> QED
      BY <1>10, <3>1, <3>2, <3>3 DEF Owner, Dated
  <2>2. CASE owners'[r] = owners[r] /\ Dated(r)' = Dated(r) /\ assigned[r] # 0
    <3>1. Installed(r, owners[r].epoch, Dated(r))
      BY <1>10, <2>2 DEF ServedOK
    <3>2. ASSUME NEW e \in 1..MaxEpoch, NEW v \in Nat, v >= 1, Installed(r, e, v),
                 e = owners'[r].epoch, v = Dated(r)'
          PROVE  Installed(r, owners[r].epoch, Dated(r))'
      <4>1. Installed(r, e, v)'
        BY <1>8, <3>2
      <4> QED
        BY <3>2, <4>1 DEF Installed
    <3> QED
      BY <2>1, <2>2, <3>1, <3>2
  <2>3. CASE Dated(r)' > revision
    <3>1. Dated(r)' > session.sent
      BY <1>10, <2>1, <2>3 DEF ServedOK, OrderOK
    <3>2. ASSUME NEW e \in 1..MaxEpoch, NEW v \in Nat, v > session.sent, v >= 1,
                 e = owners'[r].epoch, v = Dated(r)'
          PROVE  Installed(r, owners[r].epoch, Dated(r))'
      <4>1. Installed(r, e, v)
        BY <1>10, <3>2, NothingYet
      <4>2. Installed(r, e, v)'
        BY <1>8, <3>2, <4>1
      <4> QED
        BY <3>2, <4>2 DEF Installed
    <3> QED
      BY <2>1, <3>1, <3>2
  <2>4. \/ owners'[r] = owners[r] /\ Dated(r)' = Dated(r) /\ assigned[r] # 0
        \/ Dated(r)' > revision
    <3>1. CASE Serve
      <4>1. /\ revision' = revision + 1 /\ owners'[r] # NoOwner
            /\ assigned[r] \in Nat /\ ownedSince[r] \in Nat
            /\ assigned'[r] = IF assigned[r] # 0 THEN assigned[r] ELSE revision'
            /\ ownedSince'[r] = IF owners'[r] = owners[r] THEN ownedSince[r]
                                ELSE revision'
        <5>1. owners'[r] # NoOwner
          BY <2>1 DEF NoOwner
        <5> QED
          BY <1>10, <2>1, <3>1, <5>1 DEF Serve, ViewTypeOK
      <4> QED
        BY <2>1, <4>1 DEF Dated
    <3>2. CASE Unseen \/ StopsExpire
      <4>1. UNCHANGED <<owners, assigned, ownedSince>>
        BY <3>2 DEF Unseen, StopsExpire
      <4> QED
        BY <1>10, <4>1 DEF Dated
    <3> QED
      BY <3>1, <3>2 DEF ViewChanges
  <2> QED
    BY <2>2, <2>3, <2>4
<1>9a. ServedOK'
  <2>1. revision \in Nat /\ revision' \in Nat /\ revision' >= revision
    <3>1. revision \in Nat
      BY DEF HostTypes, ViewTypeOK
    <3>2. revision' = revision + 1 \/ revision' = revision
      BY DEF ViewChanges, Serve, Unseen, StopsExpire
    <3> QED
      BY <3>1, <3>2
  <2>2. session.id # 0 => session.seen <= revision'
    BY <2>1 DEF ServedOK
  <2> QED
    BY <1>1, <1>10, <2>2 DEF ServedOK
<1> QED
  BY <1>3, <1>4, <1>5, <1>6, <1>7, <1>8, <1>9, <1>9a DEF HostInv, SessionInv

\* A pass finds the member's process streaming again: of what snapshots say,
\* only the revision changes.
LEMMA MemberReturnsKeeps ==
    ASSUME HostInv, MemberReturns
    PROVE  HostInv'
<1> USE HostFields, JobFields, MessageFields, ShotFields, ReportFields
    DEF HostInv, SessionInv
<1>1. /\ UNCHANGED <<session, down, up, stream, workerVars, registryVars>>
      /\ UNCHANGED <<loaded, desired, owners, assigned, ownedSince, stopping>>
      /\ revision' = revision + 1 /\ revision \in Nat /\ ViewTypeOK
  BY DEF MemberReturns, HostTypes, ViewTypeOK
<1>2. HostTypes'
  BY <1>1 DEF HostTypes, ViewTypeOK, workerVars, registryVars
<1>3. IdsOK'
  BY <1>1 DEF IdsOK, workerVars
<1>4. OrderOK'
  BY <1>1 DEF OrderOK, Applied, workerVars
<1>5. JobOK'
  BY <1>1 DEF JobOK, Telling, Tells, workerVars, registryVars
<1>6. NotUnloaded'
  <2>1. Snapshot(Host)'.keeps = Snapshot(Host).keeps
    BY <1>1 DEF Snapshot, OwnedAssigned
  <2> QED
    BY <1>1, <2>1 DEF NotUnloaded, Unloads
<1>7. ASSUME NEW r \in Route, NEW e \in 1..MaxEpoch, NEW v \in Nat, v >= 1,
             Installed(r, e, v)
      PROVE  Installed(r, e, v)'
  BY <1>1, <1>7 DEF Installed, Applied, Telling, Tells, workerVars, registryVars
<1>8. InstalledOK'
  BY <1>1, <1>7, InstalledStays
<1>9. ServedOK'
  <2>1. ASSUME NEW r \in Route, owners[r].member = Host, assigned[r] # 0,
               session.id # 0
        PROVE  Installed(r, owners[r].epoch, Dated(r))'
    <3>1. Installed(r, owners[r].epoch, Dated(r))
      BY <2>1 DEF ServedOK
    <3>2. Dated(r)' = Dated(r) /\ owners' = owners
      BY <1>1 DEF Dated
    <3> QED
      BY ONLY <1>1, <3>1, <3>2
         DEF Installed, Applied, Telling, Tells, workerVars, registryVars
  <2>2. session.id # 0 => session.seen <= revision'
    BY <1>1 DEF ServedOK
  <2> QED
    BY <1>1, <2>1, <2>2 DEF ServedOK
<1> QED
  BY <1>2, <1>3, <1>4, <1>5, <1>6, <1>8, <1>9

\* A new stream: nothing of the earlier one is counted on it.
LEMMA ConnectKeeps ==
    ASSUME HostInv, Connect
    PROVE  HostInv'
<1> USE HostFields, JobFields, MessageFields, ShotFields, ReportFields
    DEF HostInv, SessionInv
<1>1. /\ stream' \in StreamType /\ stream'.id = stream.id + 1
      /\ stream'.received = 0 /\ stream'.applied = 0
  BY DEF Connect, StreamType
<1>2. /\ session' \in SessionType /\ session'.id = stream.id + 1
      /\ session'.sent = 0 /\ session'.seen = 0 /\ session'.status.applied = -1
      /\ \A r \in Route : session'.terms[r].epoch = 0
  <2>1. session' = NewSession(stream.id + 1) /\ stream.id + 1 \in Nat
    BY DEF Connect
  <2> QED
    BY <2>1, NewSessionFields
<1>3. /\ done' \in DoneType /\ done'.stream = done.stream /\ done'.revision = done.revision
  BY DEF Connect, HostTypes, DoneType
<1>4. /\ queued' = NoJob /\ down' = <<>> /\ down' \in Seq(Shot) /\ DOMAIN down' = {}
      /\ UNCHANGED <<viewVars, job, registryVars>>
  BY DEF Connect
<1>5. /\ up' \in Seq(Report)
      /\ \A i \in DOMAIN up' : up'[i].applied = 0
  <2>1. up' = <<Status(0)>> /\ Status(0) \in Report /\ Status(0).applied = 0
    BY StatusFields DEF Connect
  <2> QED
    BY <2>1
<1>6. Applied' = 0
  BY <1>1, <1>3 DEF Applied, IdsOK
<1>7. HostTypes'
  BY <1>1, <1>2, <1>3, <1>4, <1>5, <1>6 DEF HostTypes, workerVars, registryVars, viewVars, ViewTypeOK
<1>8. IdsOK'
  BY <1>1, <1>2, <1>3, <1>4, <1>5, <1>6, <1>7 DEF IdsOK, workerVars, registryVars
<1>9. OrderOK'
  BY <1>1, <1>2, <1>3, <1>4, <1>5, <1>6 DEF OrderOK, IdsOK, registryVars
<1>10. JobOK'
  BY <1>1, <1>2, <1>3, <1>4, <1>5, <1>6, <1>7 DEF JobOK, Telling, Tells, workerVars, registryVars
<1>11. NotUnloaded'
  BY <1>2 DEF NotUnloaded, Unloads
<1>12. InstalledOK'
  BY <1>1, <1>2, <1>3, <1>4, <1>5, <1>6 DEF InstalledOK
<1>13. ServedOK'
  <2>1. revision' \in Nat
    BY <1>7 DEF HostTypes, ViewTypeOK
  <2>2. ASSUME NEW r \in Route, owners'[r].member = Host, assigned'[r] # 0
        PROVE  Installed(r, owners[r].epoch, Dated(r))'
    <3>1. Dated(r)' \in Nat /\ Dated(r)' >= 1
      <4>1. assigned'[r] \in Nat /\ ownedSince'[r] \in Nat
        BY <1>7 DEF HostTypes, ViewTypeOK
      <4> QED
        BY <2>2, <4>1 DEF Dated
    <3>2. job # NoJob => job.stream # stream'.id
      BY <1>1 DEF IdsOK
    <3>3. ~(session'.status.applied >= Dated(r)') /\ ~(Applied' >= Dated(r)')
      BY ONLY <1>2, <1>6, <3>1
    <3>4. \A i \in DOMAIN up' : ~(up'[i].applied >= Dated(r)')
      BY ONLY <1>5, <3>1
    <3> QED
      BY ONLY <1>4, <3>2, <3>3, <3>4 DEF Installed
  <2> QED
    BY <1>2, <2>1, <2>2 DEF ServedOK
<1> QED
  BY <1>7, <1>8, <1>9, <1>10, <1>11, <1>12, <1>13 DEF HostInv, SessionInv

\* The member receives a snapshot.
LEMMA ReceiveSnapshotKeeps ==
    ASSUME HostInv, ReceiveSnapshot
    PROVE  HostInv'
<1> USE HostFields, JobFields, MessageFields, ShotFields, ReportFields
    DEF HostInv, SessionInv
<1>1. down # <<>> /\ down' = Tail(down) /\ down \in Seq(Shot)
  BY DEF ReceiveSnapshot, HostTypes
<1>2. /\ down' \in Seq(Shot) /\ Head(down) \in Shot /\ 1 \in DOMAIN down /\ Head(down) = down[1]
      /\ \A i \in DOMAIN down' : i + 1 \in DOMAIN down /\ down'[i] = down[i + 1]
  BY <1>1, TailProps
<1>3. UNCHANGED <<viewVars, session, up, job, done, registryVars>>
  BY DEF ReceiveSnapshot
<1>4. \/ /\ down[1].revision > stream.received
         /\ stream' \in StreamType /\ stream'.id = stream.id
         /\ stream'.received = down[1].revision /\ stream'.applied = stream.applied
         /\ queued' \in QueuedType /\ queued'.stream = stream.id
         /\ queued'.kind = "snapshot" /\ queued'.snapshot = down[1]
      \/ stream' = stream /\ queued' = queued
  <2>1. CASE Head(down).revision > stream.received
    <3>1. /\ stream' = [stream EXCEPT !.received = Head(down).revision]
          /\ queued' = [stream |-> stream.id, kind |-> "snapshot",
                        snapshot |-> Head(down)]
      BY <2>1 DEF ReceiveSnapshot
    <3>2. stream \in StreamType /\ Head(down).revision \in Nat /\ stream.id \in Nat
      BY <1>2 DEF HostTypes
    <3>3. /\ stream' \in StreamType /\ stream'.id = stream.id
          /\ stream'.received = Head(down).revision /\ stream'.applied = stream.applied
      BY <3>1, <3>2 DEF StreamType
    <3>4. /\ queued' \in QueuedType /\ queued'.stream = stream.id
          /\ queued'.kind = "snapshot" /\ queued'.snapshot = Head(down)
      BY <1>2, <3>1, <3>2 DEF QueuedType, JobKind
    <3> QED
      BY <1>2, <2>1, <3>3, <3>4
  <2>2. CASE ~(Head(down).revision > stream.received)
    BY <2>2 DEF ReceiveSnapshot
  <2> QED
    BY <2>1, <2>2
<1>5. HostTypes'
  BY <1>1, <1>2, <1>3, <1>4 DEF HostTypes, workerVars, registryVars, viewVars, ViewTypeOK
<1>6. IdsOK'
  BY <1>1, <1>2, <1>3, <1>4, <1>5 DEF IdsOK, workerVars, registryVars
<1>7. OrderOK'
  <2>1. CASE stream' = stream /\ queued' = queued
    BY <1>2, <1>3, <2>1 DEF OrderOK, Applied, registryVars
  <2>2. CASE ~(stream' = stream /\ queued' = queued)
    <3>1. /\ down[1].revision > stream.received
          /\ stream'.id = stream.id
          /\ stream'.received = down[1].revision /\ stream'.applied = stream.applied
          /\ queued'.kind = "snapshot" /\ queued'.snapshot = down[1]
      BY <1>4, <2>2
    <3>2. down[1].revision \in Nat /\ Applied \in Nat
      BY <1>2 DEF Applied
    <3>3. Applied' = Applied
      BY <1>3, <3>1 DEF Applied
    <3>4. session.id # 0 => down[1].revision <= session.sent
      BY <1>2 DEF OrderOK
    <3>5. job # NoJob /\ job.kind = "snapshot" /\ job.stream = stream.id =>
             /\ Applied <= job.snapshot.revision
             /\ job.snapshot.revision <= down[1].revision
      BY <3>1, <3>2 DEF OrderOK
    <3> QED
      BY <1>2, <1>3, <3>1, <3>2, <3>3, <3>4, <3>5 DEF OrderOK
  <2> QED
    BY <2>1, <2>2
<1>8. JobOK'
  BY <1>1, <1>2, <1>3, <1>4, <1>5 DEF JobOK, Telling, Tells, workerVars, registryVars
<1>9. NotUnloaded'
  BY <1>1, <1>2, <1>3, <1>4, NotUnloadedKept
<1>10. ASSUME NEW r \in Route, NEW e \in 1..MaxEpoch, NEW v \in Nat, v >= 1,
             Installed(r, e, v)
      PROVE  Installed(r, e, v)'
  <2>1. \A i \in DOMAIN down' :
           down'[i].revision >= v => down'[i].instances[r] = e
    BY ONLY <1>2, <1>10 DEF Installed
  <2>2. queued' # NoJob /\ queued'.kind = "snapshot" /\ queued'.snapshot.revision >= v
           => queued'.snapshot.instances[r] = e
    BY ONLY <1>2, <1>4, <1>10 DEF Installed
  <2>3. stream'.id = stream.id
    BY ONLY <1>4
  <2> QED
    BY ONLY <1>3, <1>10, <2>1, <2>2, <2>3
       DEF Installed, Applied, Telling, Tells, registryVars
<1>11. InstalledOK'
  BY <1>1, <1>2, <1>3, <1>4, <1>5, <1>10, InstalledStays
<1>11a. ServedOK'
  BY <1>1, <1>2, <1>3, <1>4, <1>5, <1>10, ServedStays
<1> QED
  BY <1>5, <1>6, <1>7, <1>8, <1>9, <1>10, <1>11, <1>11a DEF HostInv, SessionInv

\* The stream acknowledges what was applied on it.
LEMMA AcknowledgeKeeps ==
    ASSUME HostInv, Acknowledge
    PROVE  HostInv'
<1> USE HostFields, JobFields, MessageFields, ShotFields, ReportFields
    DEF HostInv, SessionInv
<1>1. AppliedHere \in Nat /\ AppliedHere <= Applied /\ (AppliedHere >= 1 => AppliedHere = Applied \/ AppliedHere = stream.applied)
  BY DEF AppliedHere, Applied, OrderOK
<1>2. /\ stream' \in StreamType /\ stream'.id = stream.id
      /\ stream'.received = stream.received /\ stream'.applied = AppliedHere
  <2>1. stream' = [stream EXCEPT !.applied = AppliedHere] /\ stream \in StreamType
    BY DEF Acknowledge, HostTypes
  <2> QED
    BY <1>1, <2>1 DEF StreamType
<1>3. /\ done' \in DoneType /\ done'.stream = done.stream /\ done'.revision = done.revision
  BY DEF Acknowledge, HostTypes, DoneType
<1>4. UNCHANGED <<viewVars, session, down, queued, job, registryVars>>
  BY DEF Acknowledge
<1>5. /\ up' \in Seq(Report)
      /\ \A i \in DOMAIN up' :
           \/ i \in DOMAIN up /\ up'[i] = up[i]
           \/ /\ up'[i].applied = AppliedHere
              /\ up'[i].unstarted = unstarted
              /\ \A r \in Route : up'[i].terms[r] =
                   IF excused[r] # 0 THEN excused[r] ELSE hosted[r]
  <2>1. up' = Append(up, Status(AppliedHere)) /\ up \in Seq(Report)
    BY DEF Acknowledge, HostTypes
  <2> QED
    BY <1>1, <2>1, StatusFields, AppendProps
<1>6. Applied' = Applied
  BY <1>2, <1>3 DEF Applied
<1>7. HostTypes'
  BY <1>1, <1>2, <1>3, <1>4, <1>5, <1>6 DEF HostTypes, workerVars, registryVars, viewVars, ViewTypeOK
<1>8. IdsOK'
  BY <1>1, <1>2, <1>3, <1>4, <1>5, <1>6, <1>7 DEF IdsOK, workerVars, registryVars
<1>9. OrderOK'
  BY <1>1, <1>2, <1>3, <1>4, <1>5, <1>6 DEF OrderOK, registryVars
<1>10. JobOK'
  BY <1>1, <1>2, <1>3, <1>4, <1>5, <1>6, <1>7 DEF JobOK, Telling, Tells, workerVars, registryVars
<1>11. NotUnloaded'
  BY <1>1, <1>2, <1>3, <1>4, <1>5, <1>6, NotUnloadedKept
<1>12. ASSUME NEW r \in Route, NEW e \in 1..MaxEpoch, NEW v \in Nat, v >= 1,
             Installed(r, e, v)
      PROVE  Installed(r, e, v)'
  <2>1. ASSUME NEW i \in DOMAIN up', up'[i].applied >= v
        PROVE  Tells(up'[i].terms[r], up'[i].unstarted[r], e)
    <3>1. CASE i \in DOMAIN up /\ up'[i] = up[i]
      BY <2>1, <3>1, <1>12 DEF Installed
    <3>2. CASE /\ up'[i].applied = AppliedHere
               /\ up'[i].unstarted = unstarted
               /\ \A q \in Route : up'[i].terms[q] =
                     IF excused[q] # 0 THEN excused[q] ELSE hosted[q]
      <4>1. Applied >= v
        BY <1>1, <2>1, <3>2 DEF OrderOK, Applied
      <4>2. Telling(r, e)
        BY <4>1, <1>12 DEF Installed
      <4> QED
        BY <3>2, <4>2 DEF Telling, Tells
    <3> QED
      BY <2>1, <3>1, <3>2, <1>5
  <2> QED
    BY <1>2, <1>3, <1>4, <1>6, <2>1, <1>12
       DEF Installed, Applied, Telling, Tells, workerVars, registryVars
<1>13. InstalledOK'
  BY <1>1, <1>2, <1>3, <1>4, <1>5, <1>6, <1>7, <1>12, InstalledStays
<1>13a. ServedOK'
  BY <1>1, <1>2, <1>3, <1>4, <1>5, <1>6, <1>7, <1>12, ServedStays
<1> QED
  BY <1>7, <1>8, <1>9, <1>10, <1>11, <1>12, <1>13, <1>13a DEF HostInv, SessionInv

\* The member reports that its registry changed.
LEMMA ReportChangeKeeps ==
    ASSUME HostInv, ReportChange
    PROVE  HostInv'
<1> USE HostFields, JobFields, MessageFields, ShotFields, ReportFields
    DEF HostInv, SessionInv
<1>1. UNCHANGED <<viewVars, session, down, stream, workerVars, registryVars>>
  BY DEF ReportChange
<1>2. /\ up' \in Seq(Report)
      /\ \A i \in DOMAIN up' :
           \/ i \in DOMAIN up /\ up'[i] = up[i]
           \/ /\ up'[i].applied = stream.applied
              /\ up'[i].unstarted = unstarted
              /\ \A r \in Route : up'[i].terms[r] =
                   IF excused[r] # 0 THEN excused[r] ELSE hosted[r]
  <2>1. up' = Append(up, Status(stream.applied)) /\ up \in Seq(Report)
    BY DEF ReportChange, HostTypes
  <2> QED
    BY <2>1, StatusFields, AppendProps
<1>3. HostTypes'
  BY <1>1, <1>2 DEF HostTypes, workerVars, registryVars, viewVars, ViewTypeOK
<1>4. IdsOK'
  BY <1>1, <1>2, <1>3 DEF IdsOK, workerVars, registryVars
<1>5. OrderOK'
  BY <1>1, <1>2, <1>3 DEF OrderOK, Applied, workerVars, registryVars
<1>6. JobOK'
  BY <1>1, <1>2, <1>3 DEF JobOK, Telling, Tells, workerVars, registryVars
<1>7. NotUnloaded'
  BY <1>1, <1>2, NotUnloadedKept
<1>8. ASSUME NEW r \in Route, NEW e \in 1..MaxEpoch, NEW v \in Nat, v >= 1,
             Installed(r, e, v)
      PROVE  Installed(r, e, v)'
  <2>1. ASSUME NEW i \in DOMAIN up', up'[i].applied >= v
        PROVE  Tells(up'[i].terms[r], up'[i].unstarted[r], e)
    <3>1. CASE i \in DOMAIN up /\ up'[i] = up[i]
      BY <2>1, <3>1, <1>8 DEF Installed
    <3>2. CASE /\ up'[i].applied = stream.applied
               /\ up'[i].unstarted = unstarted
               /\ \A q \in Route : up'[i].terms[q] =
                     IF excused[q] # 0 THEN excused[q] ELSE hosted[q]
      <4>1. Applied >= v
        BY <1>1, <2>1, <3>2 DEF OrderOK, Applied
      <4>2. Telling(r, e)
        BY <4>1, <1>8 DEF Installed
      <4> QED
        BY <3>2, <4>2 DEF Telling, Tells
    <3> QED
      BY <2>1, <3>1, <3>2, <1>2
  <2> QED
    BY <1>1, <2>1, <1>8
       DEF Installed, Applied, Telling, Tells, workerVars, registryVars
<1>9. InstalledOK'
  BY <1>1, <1>2, <1>3, <1>8, InstalledStays
<1>9a. ServedOK'
  BY <1>1, <1>2, <1>3, <1>8, ServedStays
<1> QED
  BY <1>3, <1>4, <1>5, <1>6, <1>7, <1>8, <1>9, <1>9a DEF HostInv, SessionInv

\* The member queues a retry.
LEMMA SubmitRetryKeeps ==
    ASSUME HostInv, SubmitRetry
    PROVE  HostInv'
<1> USE HostFields, JobFields, MessageFields, ShotFields, ReportFields
    DEF HostInv, SessionInv
<1>1. UNCHANGED <<viewVars, session, down, up, stream, job, done, registryVars>>
  BY DEF SubmitRetry
<1>2. /\ queued' \in QueuedType /\ queued'.stream = stream.id /\ queued'.kind = "retry"
  <2>1. queued' = [stream |-> stream.id, kind |-> "retry", snapshot |-> NoSnapshot]
    BY DEF SubmitRetry
  <2> QED
    BY <2>1, NoSnapshotFields DEF QueuedType, JobKind
<1>3. HostTypes'
  BY <1>1, <1>2 DEF HostTypes, workerVars, registryVars, viewVars, ViewTypeOK
<1>4. IdsOK'
  BY <1>1, <1>2, <1>3 DEF IdsOK, workerVars, registryVars
<1>5. OrderOK'
  BY <1>1, <1>2, <1>3 DEF OrderOK, Applied, workerVars, registryVars
<1>6. JobOK'
  BY <1>1, <1>2, <1>3 DEF JobOK, Telling, Tells, workerVars, registryVars
<1>7. NotUnloaded'
  BY <1>1, <1>2, NotUnloadedKept
<1>8. ASSUME NEW r \in Route, NEW e \in 1..MaxEpoch, NEW v \in Nat, v >= 1,
             Installed(r, e, v)
      PROVE  Installed(r, e, v)'
  BY <1>1, <1>2, <1>3, <1>8 DEF Installed, Applied, Telling, Tells, workerVars, registryVars, IdsOK, OrderOK
<1>9. InstalledOK'
  BY <1>1, <1>2, <1>3, <1>8, InstalledStays
<1>9a. ServedOK'
  BY <1>1, <1>2, <1>3, <1>8, ServedStays
<1> QED
  BY <1>3, <1>4, <1>5, <1>6, <1>7, <1>8, <1>9, <1>9a DEF HostInv, SessionInv

\* The gateway sends a snapshot: a term it repeats keeps its date, and a term
\* it installs is newer than all that is on its way.
LEMMA SendSnapshotKeeps ==
    ASSUME HostInv, SendSnapshot
    PROVE  HostInv'
<1> DEFINE snap == Snapshot(Host)
<1> USE HostFields, JobFields, MessageFields, ShotFields, ReportFields
    DEF HostInv, SessionInv
<1>1. /\ snap \in Shot /\ snap.revision = revision
      /\ \A r \in Route : snap.keeps[r] # 0 => snap.instances[r] = 0
  BY SnapshotFields DEF HostTypes
<1>2. /\ session.id # 0 /\ revision > session.seen /\ revision \in Nat
      /\ session \in SessionType
      /\ UNCHANGED <<viewVars, up, stream, workerVars, registryVars>>
  BY DEF SendSnapshot, HostTypes, ViewTypeOK
<1>a. ASSUME NEW r \in Route, owners[r].member = Host, assigned[r] # 0
      PROVE  /\ Installed(r, owners[r].epoch, Dated(r))
             /\ snap.instances[r] = owners[r].epoch
  BY <1>2, <1>a DEF ServedOK, Snapshot, OwnedAssigned
<1>b. UNCHANGED <<revision, owners, assigned, ownedSince>>
  BY <1>2 DEF viewVars
<1>3. CASE Unchanged(snap, session.last)
  <2>1. session' = [session EXCEPT !.seen = revision] /\ down' = down
    BY <1>3 DEF SendSnapshot
  <2>2. /\ session' \in SessionType /\ session'.id = session.id
        /\ session'.sent = session.sent /\ session'.seen = revision
        /\ session'.status = session.status /\ session'.terms = session.terms
    BY <1>2, <2>1 DEF SessionType
  <2>3. HostTypes'
    BY <1>2, <2>1, <2>2 DEF HostTypes, workerVars, registryVars, viewVars, ViewTypeOK
  <2>4. IdsOK'
    BY <1>2, <2>1, <2>2 DEF IdsOK, workerVars
  <2>5. OrderOK'
    BY <1>2, <2>1, <2>2 DEF OrderOK, Applied, workerVars
  <2>6. JobOK'
    BY <1>2 DEF JobOK, Telling, Tells, workerVars, registryVars
  <2>7. NotUnloaded'
    BY <1>2, <2>2, NotUnloadedKept
  <2>8. ASSUME NEW r \in Route, NEW e \in 1..MaxEpoch, NEW v \in Nat, v >= 1,
               Installed(r, e, v)
        PROVE  Installed(r, e, v)'
    BY <1>2, <2>1, <2>2, <2>8 DEF Installed, Applied, Telling, Tells, workerVars, registryVars
  <2>9. InstalledOK'
    BY <2>2, <2>8, InstalledStays
  <2>10. ServedOK'
    <3>1. ASSUME NEW r \in Route, owners[r].member = Host, assigned[r] # 0
          PROVE  Installed(r, owners[r].epoch, Dated(r))'
      <4>1. /\ owners[r].epoch \in 1..MaxEpoch /\ Dated(r) \in Nat /\ Dated(r) >= 1
            /\ Dated(r)' = Dated(r) /\ owners' = owners
        BY <1>b, <3>1, ServedTerm DEF Dated, HostTypes
      <4>2. Installed(r, owners[r].epoch, Dated(r))
        BY <1>a, <3>1
      <4> QED
        BY ONLY <1>2, <2>1, <2>2, <4>1, <4>2
           DEF Installed, Applied, Telling, Tells, workerVars, registryVars
    <3> QED
      BY <1>2, <1>b, <2>2, <3>1 DEF ServedOK
  <2> QED
    BY <2>3, <2>4, <2>5, <2>6, <2>7, <2>9, <2>10
<1>4. CASE ~Unchanged(snap, session.last)
  <2>1. /\ down' = Append(down, snap) /\ down \in Seq(Shot)
        /\ session' = [session EXCEPT !.seen = revision, !.sent = revision,
                                      !.last = snap, !.terms = TermsSent(snap)]
    BY <1>4 DEF SendSnapshot, HostTypes
  <2>2. ASSUME NEW r \in Route, ~MayUnload
        PROVE  ~(snap.keeps[r] # 0 /\ session.terms[r].epoch = snap.keeps[r])
    BY <2>2 DEF NotUnloaded, Unloads
  <2>3. ASSUME NEW r \in Route
        PROVE  TermsSent(snap)[r] =
                 IF snap.instances[r] # 0
                 THEN IF session.terms[r].epoch = snap.instances[r]
                      THEN session.terms[r]
                      ELSE [epoch |-> snap.instances[r], since |-> revision]
                 ELSE IF snap.keeps[r] # 0 /\ session.terms[r].epoch = snap.keeps[r]
                      THEN session.terms[r] ELSE [epoch |-> 0, since |-> 0]
    <3> HIDE DEF snap
    <3> QED
      BY <1>1 DEF TermsSent
  <2>4. TermsSent(snap) \in [Route -> [epoch : 0..MaxEpoch, since : Nat]]
    <3> HIDE DEF snap
    <3>1. \A r \in Route : TermsSent(snap)[r] \in [epoch : 0..MaxEpoch, since : Nat]
      <4>1. ASSUME NEW r \in Route
            PROVE  TermsSent(snap)[r] \in [epoch : 0..MaxEpoch, since : Nat]
        <5>1. /\ snap.instances[r] \in 0..MaxEpoch /\ revision \in Nat /\ 0 \in 0..MaxEpoch
              /\ session.terms[r] \in [epoch : 0..MaxEpoch, since : Nat]
          BY <1>1, <1>2, ViewAssumption DEF SessionType
        <5>2. /\ [epoch |-> snap.instances[r], since |-> revision]
                   \in [epoch : 0..MaxEpoch, since : Nat]
              /\ [epoch |-> 0, since |-> 0] \in [epoch : 0..MaxEpoch, since : Nat]
          BY <5>1
        <5> QED
          BY ONLY <2>3, <5>1, <5>2
      <4> QED
        BY <4>1
    <3>2. TermsSent(snap) = [r \in Route |-> TermsSent(snap)[r]]
      BY DEF TermsSent
    <3> QED
      BY <3>1, <3>2
  <2> HIDE DEF snap
  <2>5. /\ session' \in SessionType /\ session'.id = session.id
        /\ session'.sent = revision /\ session'.seen = revision
        /\ session'.status = session.status /\ session'.terms = TermsSent(snap)
    BY <1>1, <1>2, <2>1, <2>4 DEF SessionType
  <2>6. /\ down' \in Seq(Shot)
        /\ \A i \in DOMAIN down' : \/ i \in DOMAIN down /\ down'[i] = down[i]
                                   \/ down'[i] = snap
    BY <1>1, <2>1, AppendProps
  <2>7. ASSUME NEW r \in Route, session'.terms[r].epoch # 0
        PROVE  /\ ~MayUnload => session'.terms[r].epoch = snap.instances[r]
               /\ \/ /\ session.terms[r].epoch # 0
                     /\ session'.terms[r] = session.terms[r]
                  \/ session'.terms[r].since = revision
    <3>1. session'.terms[r] =
            IF snap.instances[r] # 0
            THEN IF session.terms[r].epoch = snap.instances[r]
                 THEN session.terms[r]
                 ELSE [epoch |-> snap.instances[r], since |-> revision]
            ELSE IF snap.keeps[r] # 0 /\ session.terms[r].epoch = snap.keeps[r]
                 THEN session.terms[r] ELSE [epoch |-> 0, since |-> 0]
      BY ONLY <2>3, <2>5
    <3>2. CASE snap.instances[r] = 0
      <4>1. snap.keeps[r] # 0 /\ session.terms[r].epoch = snap.keeps[r]
        BY ONLY <2>7, <3>1, <3>2
      <4> QED
        BY ONLY <2>2, <3>1, <3>2, <4>1
    <3>3. CASE snap.instances[r] # 0 /\ session.terms[r].epoch = snap.instances[r]
      BY ONLY <3>1, <3>3
    <3>4. CASE snap.instances[r] # 0 /\ session.terms[r].epoch # snap.instances[r]
      BY ONLY <3>1, <3>4
    <3> QED
      BY <3>2, <3>3, <3>4
  <2>8. /\ revision > session.sent /\ Applied \in Nat /\ Applied <= session.sent
        /\ Applied' = Applied
    BY <1>2 DEF OrderOK, Applied, workerVars
  <2>9. HostTypes'
    BY <1>2, <2>5, <2>6 DEF HostTypes, workerVars, registryVars, viewVars, ViewTypeOK
  <2>10. IdsOK'
    BY <1>2, <2>5 DEF IdsOK, workerVars
  <2>11. OrderOK'
    <3>1. ASSUME NEW r \in Route, session'.terms[r].epoch # 0
          PROVE  session'.terms[r].since >= 1 /\ session'.terms[r].since <= revision
      BY <2>7, <2>8, <3>1, <1>2 DEF OrderOK
    <3>2. \A i \in DOMAIN down' : down'[i].revision <= revision
      <4>1. ASSUME NEW i \in DOMAIN down, session.id # 0
            PROVE  down[i].revision \in Nat /\ down[i].revision <= session.sent
        BY <4>1 DEF OrderOK
      <4> QED
        BY ONLY <1>1, <1>2, <2>6, <2>8, <4>1, HostFields, HostTypes
    <3> QED
      BY <1>2, <2>5, <2>8, <3>1, <3>2 DEF OrderOK, workerVars
  <2>12. JobOK'
    BY <1>2 DEF JobOK, Telling, Tells, workerVars, registryVars
  <2>13. NotUnloaded'
    <3>1. Snapshot(Host)' = snap
      BY <1>2 DEF snap, Snapshot, OwnedAssigned, viewVars
    <3>2. ASSUME NEW r \in Route, snap.keeps[r] # 0, ~MayUnload
          PROVE  session'.terms[r].epoch # snap.keeps[r]
      <4>1. snap.instances[r] = 0
        BY ONLY <1>1, <3>2
      <4>2. session'.terms[r] = [epoch |-> 0, since |-> 0]
        BY ONLY <2>2, <2>3, <2>5, <3>2, <4>1
      <4> QED
        BY ONLY <3>2, <4>2
    <3> QED
      BY <3>1, <3>2 DEF NotUnloaded, Unloads
  <2>14. ASSUME NEW r \in Route, session'.terms[r].epoch # 0, ~MayUnload
         PROVE  Installed(r, session.terms[r].epoch, session.terms[r].since)'
    <3> DEFINE e == session'.terms[r].epoch
               v == session'.terms[r].since
    <3>1. e = snap.instances[r]
      BY <2>7, <2>14
    <3>2. CASE session.terms[r].epoch # 0 /\ session'.terms[r] = session.terms[r]
      <4>1. Installed(r, e, v)
        BY <2>14, <3>2 DEF InstalledOK
      <4> HIDE DEF e, v
      <4>2. \A i \in DOMAIN down' : down'[i].revision >= v => down'[i].instances[r] = e
        BY <2>6, <3>1, <4>1 DEF Installed
      <4> QED
        BY <1>2, <2>5, <2>8, <4>1, <4>2 DEF Installed, Telling, Tells, workerVars, registryVars, e, v
    <3>3. CASE session'.terms[r].since = revision
      <4>1. v = revision
        BY <3>3
      <4> HIDE DEF e, v
      <4>2. \A i \in DOMAIN down' : down'[i].revision >= v => down'[i].instances[r] = e
        <5>1. ASSUME NEW i \in DOMAIN down
              PROVE  down[i].revision \in Nat /\ down[i].revision <= session.sent
          BY <1>2 DEF OrderOK
        <5> QED
          BY ONLY <1>2, <2>6, <2>8, <3>1, <4>1, <5>1, HostFields, HostTypes
      <4>3. queued # NoJob /\ queued.kind = "snapshot" => ~(queued.snapshot.revision >= v)
        BY <1>2, <2>8, <4>1 DEF OrderOK
      <4>4. job # NoJob /\ job.kind = "snapshot" /\ job.stream = stream.id
               => ~(job.snapshot.revision >= v)
        BY <1>2, <2>8, <4>1 DEF OrderOK
      <4>5. \A i \in DOMAIN up : ~(up[i].applied >= v)
        BY <1>2, <2>8, <4>1 DEF OrderOK
      <4>6. ~(session.status.applied >= v) /\ ~(Applied >= v)
        <5>1. /\ Applied <= session.sent /\ session.status.applied <= session.sent
              /\ session.sent < v /\ session.sent \in Nat /\ Applied \in Nat
              /\ session.status.applied \in Int /\ v \in Nat
          BY <1>2, <2>8, <4>1 DEF OrderOK
        <5> QED
          BY ONLY <5>1
      <4> QED
        BY ONLY <1>2, <2>5, <2>8, <4>2, <4>3, <4>4, <4>5, <4>6
           DEF Installed, workerVars, registryVars, e, v
    <3> QED
      BY <2>7, <2>14, <3>2, <3>3
  <2>15. InstalledOK'
    BY <2>14 DEF InstalledOK
  <2>16. ASSUME NEW r \in Route, owners[r].member = Host, assigned[r] # 0
         PROVE  Installed(r, owners[r].epoch, Dated(r))'
    <3>1. Dated(r)' = Dated(r) /\ owners' = owners
      BY <1>b DEF Dated
    <3>2. /\ Installed(r, owners[r].epoch, Dated(r))
          /\ snap.instances[r] = owners[r].epoch
      BY <1>a, <2>16
    <3>3. \A i \in DOMAIN down' :
             down'[i].revision >= Dated(r) => down'[i].instances[r] = owners[r].epoch
      BY ONLY <2>6, <3>2 DEF Installed
    <3> QED
      BY ONLY <1>2, <2>5, <2>8, <3>1, <3>2, <3>3
         DEF Installed, Telling, Tells, workerVars, registryVars
  <2>17. ServedOK'
    BY <1>2, <1>b, <2>5, <2>16 DEF ServedOK
  <2> QED
    BY <2>9, <2>10, <2>11, <2>12, <2>13, <2>15, <2>17
<1> QED
  BY <1>3, <1>4

\* The job admits what the stream was told to assign: with it the worker
\* reaches a term at least as new as the one installed.
LEMMA JobTowards ==
    ASSUME HostInv, job # NoJob, job.at = "admitting",
           NEW r \in Route, NEW e \in 1..MaxEpoch, NEW v \in Nat, v >= 1,
           Installed(r, e, v), Applied >= v
    PROVE  job.snapshot.instances[r] = e /\ r \in Assigns(job.snapshot)
<1> USE HostFields, JobFields, ShotFields DEF HostInv, SessionInv
<1>1. job.snapshot \in Shot /\ job.kind \in {"snapshot", "retry"}
  BY DEF JobKind
<1>2. CASE job.kind = "retry"
  <2>1. deferred = job.snapshot /\ deferred # NoSnapshot
    BY <1>2 DEF JobOK
  <2>2. job.snapshot.instances[r] = e
    BY <2>1 DEF Installed
  <2> QED
    BY <1>1, <2>2
<1>3. CASE job.kind = "snapshot"
  <2>1. done.stream = stream.id
    BY DEF Applied
  <2>2. job.stream = stream.id
    BY <2>1 DEF IdsOK
  <2>3. Applied <= job.snapshot.revision /\ Applied \in Nat
    BY <1>3, <2>2 DEF OrderOK, Applied
  <2>4. job.snapshot.revision >= v
    BY <1>1, <2>3
  <2>5. job.snapshot.instances[r] = e
    BY <1>3, <2>2, <2>4 DEF Installed
  <2> QED
    BY <1>1, <2>5
<1> QED
  BY <1>1, <1>2, <1>3

\* An instance the snapshot assigns is started, unless the member is to run as
\* many others as it may: the hosted ones that stay, and as many new ones as
\* there is room for.
LEMMA LeftUnstarted ==
    ASSUME HostTypes, NEW snapshot \in Shot, NEW todo \in Admissions(snapshot)
    PROVE  /\ todo \subseteq Assigns(snapshot)
           /\ Hosted \cap Assigns(snapshot) \subseteq todo
           /\ Unstarted(snapshot, todo) \in Terms
           /\ \A r \in Assigns(snapshot) \ todo :
                 Unstarted(snapshot, todo)[r] = snapshot.instances[r]
<1> DEFINE staying == Hosted \cap (Assigns(snapshot) \cup Keeps(snapshot))
           fresh == Assigns(snapshot) \ Hosted
           room == MaxAssigned - Cardinality(staying)
           running == todo \cup (Hosted \cap Keeps(snapshot))
<1>1. PICK new \in SUBSET fresh :
          /\ todo = (Hosted \cap Assigns(snapshot)) \cup new
          /\ Cardinality(new) = IF Cardinality(fresh) <= room THEN Cardinality(fresh)
                                ELSE IF room > 0 THEN room ELSE 0
  BY DEF Admissions
<1>2. /\ staying \subseteq Route /\ fresh \subseteq Route
      /\ staying \cap new = {} /\ running = staying \cup new
      /\ todo = Assigns(snapshot) \/ new # fresh
  BY <1>1 DEF Assigns, Hosted
<1>3. todo \subseteq Assigns(snapshot) /\ Hosted \cap Assigns(snapshot) \subseteq todo
  BY <1>1
<1>4. Unstarted(snapshot, todo) \in Terms
  <2>1. 0 \in 0..MaxEpoch /\ \A r \in Route : snapshot.instances[r] \in 0..MaxEpoch
    BY ViewAssumption, ShotFields
  <2> QED
    BY <2>1 DEF Unstarted, Terms
<1>5. ASSUME NEW r \in Assigns(snapshot), r \notin todo
      PROVE  Unstarted(snapshot, todo)[r] = snapshot.instances[r]
  <2>1. r \in Route
    BY DEF Assigns
  <2>2. Cardinality(running) >= MaxAssigned
    <3> HIDE DEF staying, fresh, running
    <3>1. IsFiniteSet(staying) /\ IsFiniteSet(fresh) /\ MaxAssigned \in Nat
      BY <1>2, SessionAssumption, FS_Subset
    <3>2. IsFiniteSet(new)
      BY <3>1, FS_Subset
    <3>3. Cardinality(running) =
            Cardinality(staying) + Cardinality(new) - Cardinality(staying \cap new)
      BY <1>2, <3>1, <3>2, FS_Union
    <3>4. Cardinality(staying \cap new) = 0
      BY <1>2, FS_EmptySet
    <3>5. /\ Cardinality(staying) \in Nat /\ Cardinality(fresh) \in Nat
          /\ Cardinality(new) \in Nat
      BY <3>1, <3>2, FS_CardinalityType
    <3>6. Cardinality(new) # Cardinality(fresh)
      BY <1>2, <1>5, <3>1, FS_Subset
    <3> QED
      BY <1>1, <3>1, <3>3, <3>4, <3>5, <3>6
  <2> QED
    BY <1>5, <2>1, <2>2 DEF Unstarted
<1> QED
  BY <1>3, <1>4, <1>5

\* The worker takes up a snapshot, or the deferred one again.
LEMMA BeginReconcileKeeps ==
    ASSUME HostInv, BeginReconcile
    PROVE  HostInv'
<1> DEFINE snap == IF queued.kind = "snapshot" THEN queued.snapshot ELSE deferred
<1> USE HostFields, JobFields, MessageFields, ShotFields, ReportFields
    DEF HostInv, SessionInv
<1>1. /\ job = NoJob /\ queued # NoJob /\ queued' = NoJob
      /\ queued.kind = "snapshot" \/ deferred # NoSnapshot
      /\ queued.kind \in JobKind /\ queued.stream = stream.id
      /\ wanted' = [known |-> TRUE, routes |-> Assigns(snap) \cup Keeps(snap)]
      /\ UNCHANGED <<viewVars, session, down, up, stream, done, hosted, reserved,
                     excused, unstarted, deferred>>
  BY DEF BeginReconcile, IdsOK
<1>2. snap \in Shot
  BY <1>1 DEF HostTypes
<1>3. PICK todo \in Admissions(snap) :
         job' = [stream |-> queued.stream, kind |-> queued.kind,
                 snapshot |-> snap, at |-> "admitting", todo |-> todo,
                 unstarted |-> Unstarted(snap, todo),
                 excused |-> NoTerms, again |-> FALSE]
  BY DEF BeginReconcile
<1>4. /\ queued.kind = "snapshot" => snap = queued.snapshot
      /\ queued.kind # "snapshot" => snap = deferred
  OBVIOUS
<1> HIDE DEF snap
<1>5. /\ todo \subseteq Assigns(snap)
      /\ Hosted \cap Assigns(snap) \subseteq todo
      /\ Unstarted(snap, todo) \in Terms
      /\ \A r \in Assigns(snap) \ todo :
            Unstarted(snap, todo)[r] = snap.instances[r]
  BY <1>2, LeftUnstarted
<1>6. NoTerms \in Terms /\ \A r \in Route : NoTerms[r] = 0
  BY ViewAssumption DEF NoTerms, Terms
<1>7. /\ job' \in JobType /\ job'.stream = stream.id /\ job'.kind = queued.kind
      /\ job'.snapshot = snap /\ job'.at = "admitting" /\ job'.todo = todo
      /\ job'.excused = NoTerms /\ job'.unstarted = Unstarted(snap, todo)
  <2>1. todo \in SUBSET Route
    BY <1>2, <1>5
  <2> QED
    BY <1>1, <1>2, <1>3, <1>5, <1>6, <2>1 DEF JobType
<1>8. wanted' \in WantedType /\ wanted'.routes = Assigns(snap) \cup Keeps(snap)
      /\ wanted'.known = TRUE
  BY <1>1 DEF WantedType, Assigns, Keeps
<1>10. HostTypes'
  BY <1>1, <1>7, <1>8 DEF HostTypes, viewVars, ViewTypeOK
<1>11. IdsOK'
  BY <1>1, <1>7 DEF IdsOK
<1>12. OrderOK'
  BY <1>1, <1>4, <1>7 DEF OrderOK, Applied
<1>13. JobOK'
  <2>1. ASSUME NEW r \in Assigns(snap), r \notin todo
        PROVE  Tells(hosted[r], job'.unstarted[r], snap.instances[r])
    <3>1. /\ r \notin Hosted /\ r \in Route
          /\ job'.unstarted[r] = snap.instances[r]
      BY <1>2, <1>5, <1>7, <2>1
    <3> QED
      BY <3>1 DEF Tells, Hosted
  <2>2. \A r \in Assigns(snap) : NoTerms[r] = 0
    BY <1>2, <1>6
  <2>3. job'.kind = "retry" => deferred' = job'.snapshot /\ deferred' # NoSnapshot
    BY <1>1, <1>4, <1>7
  <2> HIDE HostFields, JobFields, MessageFields, ShotFields, ReportFields
  <2> QED
    BY ONLY <1>1, <1>5, <1>7, <1>8, <2>1, <2>2, <2>3 DEF JobOK, Tells
<1>14. NotUnloaded'
  BY <1>1, NotUnloadedKept
<1>15. ASSUME NEW r \in Route, NEW e \in 1..MaxEpoch, NEW v \in Nat, v >= 1,
              Installed(r, e, v)
       PROVE  Installed(r, e, v)'
  <2>1. Applied' = Applied
    BY <1>1 DEF Applied
  <2>2. ASSUME Applied >= v
        PROVE  snap.instances[r] = e
    <3>1. CASE queued.kind = "snapshot"
      <4>1. queued.snapshot.revision >= v
        BY <1>1, <2>2, <3>1 DEF OrderOK, Applied
      <4> QED
        BY <1>1, <1>4, <1>15, <3>1, <4>1 DEF Installed
    <3>2. CASE queued.kind # "snapshot"
      BY <1>1, <1>4, <1>15, <2>2, <3>2 DEF Installed
    <3> QED
      BY <3>1, <3>2
  <2>3. ASSUME Applied >= v
        PROVE  r \in wanted'.routes
    BY <1>2, <1>8, <2>2, <2>3
  <2>4. ASSUME job'.kind = "snapshot", job'.snapshot.revision >= v
        PROVE  job'.snapshot.instances[r] = e
    BY <1>1, <1>4, <1>7, <1>15, <2>4 DEF Installed
  <2> QED
    BY ONLY <1>1, <1>15, <2>1, <2>3, <2>4 DEF Installed, Telling, Tells
<1>16. InstalledOK'
  BY <1>1, <1>15, InstalledStays
<1>16a. ServedOK'
  BY <1>1, <1>15, ServedStays
<1> QED
  BY <1>10, <1>11, <1>12, <1>13, <1>14, <1>16, <1>16a

\* The worker only removes what is no longer wanted.
LEMMA BeginCleanupKeeps ==
    ASSUME HostInv, BeginCleanup
    PROVE  HostInv'
<1> USE HostFields, JobFields, MessageFields, ShotFields, ReportFields
    DEF HostInv, SessionInv
<1>1. /\ job = NoJob /\ queued # NoJob /\ queued' = NoJob
      /\ queued.stream = stream.id /\ deferred = NoSnapshot
      /\ UNCHANGED <<viewVars, session, down, up, stream, done, registryVars>>
  BY DEF BeginCleanup, IdsOK
<1>2. /\ job' \in JobType /\ job'.stream = stream.id /\ job'.kind = "retry"
      /\ job'.snapshot = NoSnapshot /\ job'.at = "departing"
      /\ job'.todo \cap wanted.routes = {}
  <2> DEFINE todo == IF wanted.known THEN Departing(wanted.routes) ELSE {}
  <2>1. job' = [stream |-> queued.stream, kind |-> "retry",
                snapshot |-> NoSnapshot, at |-> "departing", todo |-> todo,
                unstarted |-> NoTerms, excused |-> NoTerms, again |-> FALSE]
    BY DEF BeginCleanup
  <2>2. todo \in SUBSET Route /\ todo \cap wanted.routes = {}
    BY DEF Departing, Hosted
  <2>3. NoTerms \in Terms
    BY ViewAssumption DEF NoTerms, Terms
  <2> HIDE DEF todo
  <2> QED
    BY <1>1, <2>1, <2>2, <2>3, NoSnapshotFields DEF JobType, JobKind
<1>3. HostTypes'
  BY <1>1, <1>2 DEF HostTypes, registryVars, viewVars, ViewTypeOK
<1>4. IdsOK'
  BY <1>1, <1>2 DEF IdsOK
<1>5. OrderOK'
  BY <1>1, <1>2 DEF OrderOK, Applied
<1>6. JobOK'
  BY <1>1, <1>2, NoSnapshotFields DEF JobOK, registryVars
<1>7. NotUnloaded'
  BY <1>1, NotUnloadedKept
<1>8. ASSUME NEW r \in Route, NEW e \in 1..MaxEpoch, NEW v \in Nat, v >= 1,
             Installed(r, e, v)
      PROVE  Installed(r, e, v)'
  BY <1>1, <1>2, <1>8 DEF Installed, Applied, Telling, Tells, registryVars
<1>9. InstalledOK'
  BY <1>1, <1>8, InstalledStays
<1>9a. ServedOK'
  BY <1>1, <1>8, ServedStays
<1> QED
  BY <1>3, <1>4, <1>5, <1>6, <1>7, <1>9, <1>9a

\* The worker has admitted what it could.
LEMMA BeginRemovalKeeps ==
    ASSUME HostInv, BeginRemoval
    PROVE  HostInv'
<1> USE HostFields, JobFields, MessageFields, ShotFields, ReportFields
    DEF HostInv, SessionInv
<1>1. /\ job # NoJob /\ job.at = "admitting" /\ job.todo = {}
      /\ excused' = job.excused /\ unstarted' = job.unstarted
      /\ deferred' \in {NoSnapshot, job.snapshot}
      /\ UNCHANGED <<viewVars, session, down, up, stream, queued, done, hosted,
                     reserved, wanted>>
  BY DEF BeginRemoval
<1>2. /\ job' \in JobType /\ job'.stream = job.stream /\ job'.kind = job.kind
      /\ job'.snapshot = job.snapshot /\ job'.at = "departing"
      /\ job'.todo \cap wanted.routes = {} /\ job'.excused = job.excused
      /\ job'.unstarted = job.unstarted
  <2>1. job' = [job EXCEPT !.at = "departing", !.todo = Departing(wanted.routes)]
    BY DEF BeginRemoval
  <2>2. Departing(wanted.routes) \in SUBSET Route
        /\ Departing(wanted.routes) \cap wanted.routes = {}
    BY DEF Departing, Hosted
  <2> QED
    BY <1>1, <2>1, <2>2 DEF JobType
<1>3. HostTypes'
  BY <1>1, <1>2, NoSnapshotFields DEF HostTypes, viewVars, ViewTypeOK
<1>4. IdsOK'
  BY <1>1, <1>2 DEF IdsOK
<1>5. OrderOK'
  BY <1>1, <1>2 DEF OrderOK, Applied
<1>6. ASSUME NEW r \in Assigns(job.snapshot)
      PROVE  Telling(r, job.snapshot.instances[r])'
  <2>1. job.excused[r] \in {0, job.snapshot.instances[r]}
    BY <1>1 DEF JobOK
  <2>2. \/ job.excused[r] = job.snapshot.instances[r]
        \/ Tells(hosted[r], job.unstarted[r], job.snapshot.instances[r])
    BY <1>1 DEF JobOK
  <2> QED
    BY <1>1, <1>2, <2>1, <2>2 DEF Telling, Tells
<1>7. JobOK'
  BY <1>1, <1>2, <1>6 DEF JobOK
<1>8. NotUnloaded'
  BY <1>1, NotUnloadedKept
<1>9. ASSUME NEW r \in Route, NEW e \in 1..MaxEpoch, NEW v \in Nat, v >= 1,
             Installed(r, e, v)
      PROVE  Installed(r, e, v)'
  <2>1. Applied' = Applied
    BY <1>1 DEF Applied
  <2>2. ASSUME Applied >= v
        PROVE  /\ Telling(r, e)'
               /\ deferred' # NoSnapshot => deferred'.instances[r] = e
    <3>1. job.snapshot.instances[r] = e /\ r \in Assigns(job.snapshot)
      BY <1>1, <1>9, <2>2, JobTowards
    <3>2. Telling(r, job.snapshot.instances[r])'
      BY <1>6, <3>1
    <3> QED
      BY <1>1, <1>2, <3>1, <3>2 DEF Telling
  <2>3. \A i \in DOMAIN up :
           up[i].applied >= v => Tells(up[i].terms[r], up[i].unstarted[r], e)
    BY <1>9 DEF Installed
  <2> QED
    BY ONLY <1>1, <1>2, <1>9, <2>1, <2>2, <2>3 DEF Installed, Tells
<1>10. InstalledOK'
  BY <1>1, <1>9, InstalledStays
<1>10a. ServedOK'
  BY <1>1, <1>9, ServedStays
<1> QED
  BY <1>3, <1>4, <1>5, <1>7, <1>8, <1>10, <1>10a

\* The worker finishes its job.
LEMMA FinishJobKeeps ==
    ASSUME HostInv, FinishJob
    PROVE  HostInv'
<1> USE HostFields, JobFields, MessageFields, ShotFields, ReportFields
    DEF HostInv, SessionInv
<1>1. /\ job # NoJob /\ job.at = "departing" /\ job' = NoJob
      /\ UNCHANGED <<viewVars, session, down, up, stream, queued, registryVars>>
      /\ job.snapshot \in Shot /\ job.stream \in Nat /\ job.snapshot.revision \in Nat
  BY DEF FinishJob
<1>2. /\ done' \in DoneType /\ done'.stream = job.stream
      /\ done'.revision = IF job.kind = "snapshot" THEN job.snapshot.revision
                          ELSE IF done.stream = job.stream THEN done.revision ELSE 0
  <2> DEFINE last == IF job.kind = "snapshot" THEN job.snapshot.revision
                     ELSE IF done.stream = job.stream THEN done.revision ELSE 0
  <2>1. done' = [stream |-> job.stream, revision |-> last, unread |-> TRUE]
    BY DEF FinishJob
  <2>2. last \in Nat
    BY <1>1
  <2> HIDE DEF last
  <2>3. done' \in DoneType /\ done'.stream = job.stream /\ done'.revision = last
    BY <1>1, <2>1, <2>2 DEF DoneType
  <2> QED
    BY <2>3 DEF last
<1>3. /\ Applied \in Nat /\ Applied' \in Nat /\ Applied <= Applied'
      /\ \/ Applied' = Applied
         \/ /\ job.kind = "snapshot" /\ job.stream = stream.id
            /\ Applied' = job.snapshot.revision
  BY <1>1, <1>2 DEF Applied, IdsOK, OrderOK, JobKind
<1>4. HostTypes'
  BY <1>1, <1>2 DEF HostTypes, registryVars, viewVars, ViewTypeOK
<1>5. IdsOK'
  BY <1>1, <1>2 DEF IdsOK
<1>6. OrderOK'
  <2>1. \A i \in DOMAIN up : up[i].applied <= Applied'
    <3>1. ASSUME NEW i \in DOMAIN up
          PROVE  up[i].applied <= Applied /\ up[i].applied \in Int
      BY DEF OrderOK
    <3> QED
      BY ONLY <1>3, <3>1
  <2>2. stream.applied <= Applied' /\ Applied' <= stream.received
    BY <1>1, <1>3 DEF OrderOK
  <2>3. queued # NoJob /\ queued.kind = "snapshot" => Applied' <= queued.snapshot.revision
    BY <1>1, <1>3 DEF OrderOK
  <2> QED
    BY <1>1, <2>1, <2>2, <2>3 DEF OrderOK
<1>7. JobOK'
  BY <1>1 DEF JobOK
<1>8. NotUnloaded'
  BY <1>1, NotUnloadedKept
<1>9. ASSUME NEW r \in Route, NEW e \in 1..MaxEpoch, NEW v \in Nat, v >= 1,
             Installed(r, e, v)
      PROVE  Installed(r, e, v)'
  <2>1. ASSUME Applied' >= v
        PROVE  /\ Telling(r, e)
               /\ r \in wanted.routes
               /\ deferred # NoSnapshot => deferred.instances[r] = e
    <3>1. CASE Applied' = Applied
      BY <1>9, <2>1, <3>1 DEF Installed
    <3>2. CASE /\ job.kind = "snapshot" /\ job.stream = stream.id
               /\ Applied' = job.snapshot.revision
      <4>1. job.snapshot.instances[r] = e
        BY <1>1, <1>9, <2>1, <3>2 DEF Installed
      <4>2. r \in Assigns(job.snapshot)
        BY <1>1, <4>1
      <4>3. Telling(r, e) /\ r \in wanted.routes
        BY <1>1, <4>1, <4>2 DEF JobOK
      <4>4. deferred \in {NoSnapshot, job.snapshot}
        BY <1>1 DEF JobOK
      <4> QED
        BY <4>1, <4>3, <4>4
    <3> QED
      BY <1>3, <3>1, <3>2
  <2> QED
    BY ONLY <1>1, <1>9, <2>1 DEF Installed, Telling, Tells, registryVars
<1>10. InstalledOK'
  BY <1>1, <1>9, InstalledStays
<1>10a. ServedOK'
  BY <1>1, <1>9, ServedStays
<1> QED
  BY <1>4, <1>5, <1>6, <1>7, <1>8, <1>10, <1>10a

\* What a step of the worker's job on one route has to leave as it is.
LEMMA JobStepKeeps ==
    ASSUME HostInv, job # NoJob,
           UNCHANGED <<viewVars, session, down, up, stream, queued, done, excused, unstarted,
                       deferred, wanted>>,
           hosted' \in Terms,
           job' \in JobType, job'.stream = job.stream, job'.kind = job.kind,
           job'.snapshot = job.snapshot, job'.at = job.at,
           job'.todo \subseteq job.todo, job'.unstarted = job.unstarted,
           \A r \in Assigns(job.snapshot) :
              /\ job'.excused[r] \in {0, job.snapshot.instances[r]}
              /\ job.at = "admitting" =>
                    \/ r \in job'.todo
                    \/ job'.excused[r] = job.snapshot.instances[r]
                    \/ Tells(hosted'[r], job.unstarted[r], job.snapshot.instances[r])
              /\ job.at = "departing" => hosted'[r] = hosted[r],
           \A r \in Route, e \in 1..MaxEpoch, v \in Nat :
              v >= 1 /\ Installed(r, e, v) /\ Applied >= v => Telling(r, e)'
    PROVE  HostInv'
<1> USE HostFields, JobFields, MessageFields, ShotFields, ReportFields
    DEF HostInv, SessionInv
<1>1. HostTypes'
  BY DEF HostTypes, viewVars, ViewTypeOK
<1>2. IdsOK'
  BY DEF IdsOK
<1>3. Applied' = Applied
  BY DEF Applied
<1>4. OrderOK'
  BY <1>3 DEF OrderOK
<1>5. JobOK'
  <2>1. ASSUME NEW r \in Assigns(job.snapshot), job.at = "departing"
        PROVE  Telling(r, job.snapshot.instances[r])'
    <3>1. Telling(r, job.snapshot.instances[r]) /\ hosted'[r] = hosted[r]
      BY <2>1 DEF JobOK
    <3> QED
      BY <3>1 DEF Telling, Tells
  <2> QED
    BY <2>1 DEF JobOK, Tells
<1>6. NotUnloaded'
  BY NotUnloadedKept
<1>7. ASSUME NEW r \in Route, NEW e \in 1..MaxEpoch, NEW v \in Nat, v >= 1,
             Installed(r, e, v)
      PROVE  Installed(r, e, v)'
  <2>1. Applied >= v => Telling(r, e)'
    BY <1>7
  <2> QED
    BY <1>3, <1>7, <2>1 DEF Installed, Tells
<1>8. InstalledOK'
  BY <1>7, InstalledStays
<1>8a. ServedOK'
  BY <1>7, ServedStays
<1> QED
  BY <1>1, <1>2, <1>4, <1>5, <1>6, <1>8, <1>8a

\* The job without one of its routes.
LEMMA JobWithout ==
    ASSUME HostTypes, job # NoJob, NEW r \in Route,
           job' = [job EXCEPT !.todo = @ \ {r}]
    PROVE  /\ job' \in JobType /\ job'.stream = job.stream /\ job'.kind = job.kind
           /\ job'.snapshot = job.snapshot /\ job'.at = job.at
           /\ job'.todo = job.todo \ {r} /\ job'.excused = job.excused
           /\ job'.unstarted = job.unstarted
<1>1. job \in JobType /\ job.todo \ {r} \in SUBSET Route
  BY JobFields
<1> QED
  BY <1>1 DEF JobType

\* An instance is hosted for the term the snapshot assigns.
LEMMA AdmitKeeps ==
    ASSUME HostInv, NEW q \in Route, Admit(q)
    PROVE  HostInv'
<1> USE HostFields, JobFields, ShotFields DEF HostInv, SessionInv
<1>1. /\ job # NoJob /\ job.at = "admitting" /\ q \in job.todo
      /\ job' = [job EXCEPT !.todo = @ \ {q}]
      /\ hosted' = [hosted EXCEPT ![q] = job.snapshot.instances[q]]
      /\ hosted[q] \in {0, job.snapshot.instances[q]}
      /\ UNCHANGED <<viewVars, session, down, up, stream, queued, done, excused, unstarted,
                     deferred, wanted>>
      /\ hosted \in Terms /\ job.snapshot \in Shot
  BY DEF Admit, Admitting, Admitted, HostTypes
<1>2. /\ job' \in JobType /\ job'.stream = job.stream /\ job'.kind = job.kind
      /\ job'.snapshot = job.snapshot /\ job'.at = job.at
      /\ job'.todo = job.todo \ {q} /\ job'.excused = job.excused
      /\ job'.unstarted = job.unstarted
  BY <1>1, JobWithout
<1>3. /\ hosted' \in Terms /\ hosted'[q] = job.snapshot.instances[q]
      /\ \A r \in Route : r # q => hosted'[r] = hosted[r]
  BY <1>1 DEF Terms
<1>4. ASSUME NEW r \in Assigns(job.snapshot)
      PROVE  /\ job'.excused[r] \in {0, job.snapshot.instances[r]}
             /\ \/ r \in job'.todo
                \/ job'.excused[r] = job.snapshot.instances[r]
                \/ Tells(hosted'[r], job.unstarted[r], job.snapshot.instances[r])
  <2>1. /\ r \in Route
        /\ job.excused[r] \in {0, job.snapshot.instances[r]}
        /\ \/ r \in job.todo
           \/ job.excused[r] = job.snapshot.instances[r]
           \/ Tells(hosted[r], job.unstarted[r], job.snapshot.instances[r])
    BY <1>1 DEF JobOK
  <2> QED
    BY <1>2, <1>3, <2>1 DEF Tells
<1>5. ASSUME NEW r \in Route, NEW e \in 1..MaxEpoch, NEW v \in Nat, v >= 1,
             Installed(r, e, v), Applied >= v
      PROVE  Telling(r, e)'
  <2>1. Telling(r, e)
    BY <1>5 DEF Installed
  <2>2. job.snapshot.instances[r] = e
    BY <1>1, <1>5, JobTowards
  <2> QED
    BY <1>1, <1>3, <2>1, <2>2 DEF Telling, Tells
<1> QED
  BY <1>1, <1>2, <1>3, <1>4, <1>5, JobStepKeeps

\* A route is excused from the job.
LEMMA ExcusedKeeps ==
    ASSUME HostInv, NEW q \in Route, NEW again \in BOOLEAN,
           Admitting(q), Excused(q, again),
           UNCHANGED <<viewVars, session, down, up, stream, queued, done,
                       registryVars>>
    PROVE  HostInv'
<1> USE HostFields, JobFields, ShotFields DEF HostInv, SessionInv
<1>1. /\ job # NoJob /\ job.at = "admitting" /\ q \in job.todo
      /\ UNCHANGED <<viewVars, session, down, up, stream, queued, done, excused, unstarted,
                     deferred, wanted, hosted>>
      /\ hosted' \in Terms /\ job.snapshot \in Shot
  BY DEF Admitting, HostTypes, registryVars
<1>2. /\ job' \in JobType /\ job'.stream = job.stream /\ job'.kind = job.kind
      /\ job'.snapshot = job.snapshot /\ job'.at = job.at
      /\ job'.todo = job.todo \ {q} /\ job'.unstarted = job.unstarted
      /\ job'.excused = [job.excused EXCEPT ![q] = job.snapshot.instances[q]]
  <2> DEFINE told == [job.excused EXCEPT ![q] = job.snapshot.instances[q]]
             more == job.again \/ again
  <2>1. told \in Terms /\ more \in BOOLEAN /\ job.todo \ {q} \in SUBSET Route
    BY <1>1 DEF Terms
  <2>2. job \in JobType
    BY <1>1
  <2>3. job' = [job EXCEPT !.todo = job.todo \ {q}, !.excused = told, !.again = more]
    BY DEF Excused
  <2> HIDE DEF told, more
  <2>4. /\ job' \in JobType /\ job'.stream = job.stream /\ job'.kind = job.kind
        /\ job'.snapshot = job.snapshot /\ job'.at = job.at
        /\ job'.todo = job.todo \ {q} /\ job'.excused = told
        /\ job'.unstarted = job.unstarted
    BY <2>1, <2>2, <2>3 DEF JobType
  <2> QED
    BY <2>4 DEF told
<1>3. ASSUME NEW r \in Assigns(job.snapshot)
      PROVE  /\ job'.excused[r] \in {0, job.snapshot.instances[r]}
             /\ \/ r \in job'.todo
                \/ job'.excused[r] = job.snapshot.instances[r]
                \/ Tells(hosted'[r], job.unstarted[r], job.snapshot.instances[r])
  <2>1. /\ r \in Route /\ job.excused \in Terms
        /\ job.excused[r] \in {0, job.snapshot.instances[r]}
        /\ \/ r \in job.todo
           \/ job.excused[r] = job.snapshot.instances[r]
           \/ Tells(hosted[r], job.unstarted[r], job.snapshot.instances[r])
    BY <1>1 DEF JobOK
  <2> QED
    BY <1>1, <1>2, <2>1 DEF Tells, Terms
<1>4. ASSUME NEW r \in Route, NEW e \in 1..MaxEpoch, NEW v \in Nat, v >= 1,
             Installed(r, e, v), Applied >= v
      PROVE  Telling(r, e)'
  <2>1. Telling(r, e)
    BY <1>4 DEF Installed
  <2> QED
    BY <1>1, <2>1 DEF Telling, Tells
<1> QED
  BY <1>1, <1>2, <1>3, <1>4, JobStepKeeps

\* What departs is gone, or its files remain.
LEMMA DepartKeeps ==
    ASSUME HostTypes, NEW q \in Route, Depart(q)
    PROVE  /\ hosted' \in Terms
           /\ \A r \in Route : r # q => hosted'[r] = hosted[r]
           /\ hosted'[q] \in {0, hosted[q]}
<1>1. hosted \in Terms /\ 0 \in 0..MaxEpoch
  BY ViewAssumption DEF HostTypes
<1> QED
  BY <1>1 DEF Depart, Terms

\* An earlier term of the route departs.
LEMMA RelinquishKeeps ==
    ASSUME HostInv, NEW q \in Route, Relinquish(q)
    PROVE  HostInv'
<1> USE HostFields, JobFields, ShotFields DEF HostInv, SessionInv
<1>1. /\ job # NoJob /\ job.at = "admitting" /\ q \in job.todo /\ job' = job
      /\ hosted[q] \notin {0, job.snapshot.instances[q]}
      /\ UNCHANGED <<viewVars, session, down, up, stream, queued, done, excused, unstarted,
                     deferred, wanted>>
      /\ job.snapshot \in Shot
  BY DEF Relinquish, Admitting, workerVars
<1>2. /\ hosted' \in Terms
      /\ \A r \in Route : r # q => hosted'[r] = hosted[r]
  BY DepartKeeps DEF Relinquish
<1>3. ASSUME NEW r \in Assigns(job.snapshot)
      PROVE  /\ job.excused[r] \in {0, job.snapshot.instances[r]}
             /\ \/ r \in job.todo
                \/ job.excused[r] = job.snapshot.instances[r]
                \/ Tells(hosted'[r], job.unstarted[r], job.snapshot.instances[r])
  <2>1. /\ r \in Route
        /\ job.excused[r] \in {0, job.snapshot.instances[r]}
        /\ \/ r \in job.todo
           \/ job.excused[r] = job.snapshot.instances[r]
           \/ Tells(hosted[r], job.unstarted[r], job.snapshot.instances[r])
    BY <1>1 DEF JobOK
  <2> QED
    BY <1>1, <1>2, <2>1 DEF Tells
<1>4. ASSUME NEW r \in Route, NEW e \in 1..MaxEpoch, NEW v \in Nat, v >= 1,
             Installed(r, e, v), Applied >= v
      PROVE  Telling(r, e)'
  <2>1. Telling(r, e)
    BY <1>4 DEF Installed
  <2>2. job.snapshot.instances[r] = e
    BY <1>1, <1>4, JobTowards
  <2> QED
    BY <1>1, <1>2, <2>1, <2>2 DEF Telling, Tells
<1> QED
  BY <1>1, <1>2, <1>3, <1>4, JobStepKeeps

\* A route that the snapshot omits departs.
LEMMA RemoveWithdrawnKeeps ==
    ASSUME HostInv, NEW q \in Route, RemoveWithdrawn(q)
    PROVE  HostInv'
<1> USE HostFields, JobFields, ShotFields DEF HostInv, SessionInv
<1>1. /\ job # NoJob /\ job.at = "departing" /\ q \in job.todo
      /\ job' = [job EXCEPT !.todo = @ \ {q}]
      /\ UNCHANGED <<viewVars, session, down, up, stream, queued, done, excused, unstarted,
                     deferred, wanted>>
      /\ job.snapshot \in Shot
  BY DEF RemoveWithdrawn
<1>2. /\ hosted' \in Terms
      /\ \A r \in Route : r # q => hosted'[r] = hosted[r]
  BY DepartKeeps DEF RemoveWithdrawn
<1>3. /\ job' \in JobType /\ job'.stream = job.stream /\ job'.kind = job.kind
      /\ job'.snapshot = job.snapshot /\ job'.at = job.at
      /\ job'.todo = job.todo \ {q} /\ job'.excused = job.excused
      /\ job'.unstarted = job.unstarted
  BY <1>1, JobWithout
<1>4. q \notin wanted.routes
  BY <1>1 DEF JobOK
<1>5. ASSUME NEW r \in Assigns(job.snapshot)
      PROVE  /\ job'.excused[r] \in {0, job.snapshot.instances[r]}
             /\ hosted'[r] = hosted[r]
  <2>1. /\ r \in Route /\ r \in wanted.routes
        /\ job.excused[r] \in {0, job.snapshot.instances[r]}
    BY <1>1 DEF JobOK
  <2> QED
    BY <1>2, <1>3, <1>4, <2>1
<1>6. ASSUME NEW r \in Route, NEW e \in 1..MaxEpoch, NEW v \in Nat, v >= 1,
             Installed(r, e, v), Applied >= v
      PROVE  Telling(r, e)'
  <2>1. Telling(r, e) /\ r \in wanted.routes
    BY <1>6 DEF Installed
  <2> QED
    BY <1>1, <1>2, <1>4, <2>1 DEF Telling, Tells
<1> QED
  BY <1>1, <1>2, <1>3, <1>5, <1>6, JobStepKeeps

-------------------------------------------------------------------------------
\* The invariant holds initially.
LEMMA HostStarts ==
    ASSUME Init
    PROVE  HostInv
<1>1. /\ session = NewSession(0) /\ 0 \in Nat
      /\ down = <<>> /\ up = <<>>
      /\ stream = [id |-> 0, open |-> FALSE, received |-> 0, applied |-> 0]
      /\ queued = NoJob /\ job = NoJob
      /\ done = [stream |-> 0, revision |-> 0, unread |-> FALSE]
      /\ hosted = NoTerms /\ excused = NoTerms /\ unstarted = NoTerms
      /\ deferred = NoSnapshot
      /\ wanted = [known |-> FALSE, routes |-> {}]
  BY DEF Init
<1>2. /\ session \in SessionType /\ session.id = 0 /\ session.sent = 0
      /\ session.seen = 0 /\ session.status.applied = -1
      /\ \A r \in Route : session.terms[r].epoch = 0
  BY <1>1, NewSessionFields
<1>3. NoTerms \in Terms
  BY ViewAssumption DEF NoTerms, Terms
<1>4. ViewTypeOK
  BY DEF Init, ViewInit, ViewTypeOK
<1>5. HostTypes
  BY <1>1, <1>2, <1>3, <1>4, NoSnapshotFields
     DEF HostTypes, StreamType, DoneType, WantedType
<1>6. IdsOK /\ JobOK
  BY <1>1, <1>2 DEF IdsOK, JobOK
<1>7. OrderOK
  BY <1>1, <1>2 DEF OrderOK, Applied
<1>8. NotUnloaded /\ InstalledOK /\ ServedOK
  BY <1>2 DEF NotUnloaded, Unloads, InstalledOK, ServedOK
<1> QED
  BY <1>5, <1>6, <1>7, <1>8 DEF HostInv, SessionInv

\* Every step keeps it.
LEMMA HostSteps ==
    ASSUME HostInv, [Next]_vars
    PROVE  HostInv'
<1>1. CASE ViewChanges
  BY <1>1, ViewChangesKeeps
<1>1a. CASE MemberReturns
  BY <1>1a, MemberReturnsKeeps
<1>2. CASE EndSession
  BY <1>2, EndSessionKeeps
<1>3. CASE RestartGateway
  BY <1>3, RestartGatewayKeeps
<1>4. CASE SendSnapshot
  BY <1>4, SendSnapshotKeeps
<1>5. CASE RecordStatus
  BY <1>5, RecordStatusKeeps
<1>6. CASE Connect
  BY <1>6, ConnectKeeps
<1>7. CASE LoseStream
  BY <1>7, LoseStreamKeeps
<1>8. CASE ReceiveSnapshot
  BY <1>8, ReceiveSnapshotKeeps
<1>9. CASE Acknowledge
  BY <1>9, AcknowledgeKeeps
<1>10. CASE ReportChange
  BY <1>10, ReportChangeKeeps
<1>11. CASE SubmitRetry
  BY <1>11, SubmitRetryKeeps
<1>12. CASE BeginReconcile
  BY <1>12, BeginReconcileKeeps
<1>13. CASE BeginCleanup
  BY <1>13, BeginCleanupKeeps
<1>14. CASE BeginRemoval
  BY <1>14, BeginRemovalKeeps
<1>15. CASE FinishJob
  BY <1>15, FinishJobKeeps
<1>16. CASE \E r \in Route : Admit(r)
  BY <1>16, AdmitKeeps
<1>17. CASE \E r \in Route : AdmitRemoving(r)
  <2>1. PICK r \in Route : AdmitRemoving(r)
    BY <1>17
  <2> QED
    BY <2>1, ExcusedKeeps DEF AdmitRemoving
<1>18. CASE \E r \in Route : Relinquish(r)
  BY <1>18, RelinquishKeeps
<1>19. CASE \E r \in Route : RemoveWithdrawn(r)
  BY <1>19, RemoveWithdrawnKeeps
<1>20. CASE \E r \in Route : AdmitFails(r)
  <2>1. PICK r \in Route : AdmitFails(r)
    BY <1>20
  <2>2. PICK again \in BOOLEAN : Excused(r, again)
    BY <2>1 DEF AdmitFails
  <2>3. /\ Admitting(r)
        /\ UNCHANGED <<viewVars, session, down, up, stream, queued, done,
                       registryVars>>
    BY <2>1 DEF AdmitFails
  <2> QED
    BY <2>2, <2>3, ExcusedKeeps
<1>21. CASE UNCHANGED vars
  <2>1. UNCHANGED <<viewVars, session, down, up, stream, queued, job, done,
                    hosted, excused, unstarted, deferred, wanted>>
    BY <1>21 DEF vars, workerVars, registryVars
  <2>2. SessionInv'
    <3>1. NotUnloaded'
      BY <2>1, NotUnloadedKept DEF HostInv, SessionInv
    <3>2. HostTypes'
      BY <2>1 DEF HostInv, SessionInv, HostTypes, ViewTypeOK, viewVars
    <3>3. IdsOK' /\ OrderOK'
      BY <2>1 DEF HostInv, SessionInv, IdsOK, OrderOK, Applied
    <3>4. JobOK'
      BY <2>1 DEF HostInv, SessionInv, JobOK, Telling, Tells
    <3> QED
      BY <3>1, <3>2, <3>3, <3>4 DEF SessionInv
  <2>3. InstalledOK'
    BY <2>1 DEF HostInv, InstalledOK, Installed, Applied, Telling, Tells
  <2>4. ServedOK'
    BY <2>1 DEF HostInv, ServedOK, Dated, Installed, Applied, Telling, Tells, viewVars
  <2> QED
    BY <2>2, <2>3, <2>4 DEF HostInv
<1> QED
  BY <1>1, <1>1a, <1>2, <1>3, <1>4, <1>5, <1>6, <1>7, <1>8, <1>9, <1>10, <1>11,
     <1>12, <1>13, <1>14, <1>15, <1>16, <1>17, <1>18, <1>19, <1>20, <1>21
     DEF Next, Reconcile

\* member_reports and observed: a report that the gateway counts for a term
\* describes the instance of that term, for any routes, any revisions and any
\* lengths of the queues, while the gateway unloads no term a stream was sent.
THEOREM ReportsCountedForTheirTerm ==
    MayUnload = FALSE => (Spec => []ReportsOfTheirTerm)
<1> SUFFICES ASSUME MayUnload = FALSE
             PROVE  Spec => []ReportsOfTheirTerm
  OBVIOUS
<1>1. Init => HostInv
  BY HostStarts
<1>2. HostInv /\ [Next]_vars => HostInv'
  BY HostSteps
<1>3. HostInv => ReportsOfTheirTerm
  <2> SUFFICES ASSUME HostInv, NEW r \in Route, Counted(r),
                      session.status.terms[r] # 0
               PROVE  session.status.terms[r] = session.terms[r].epoch
    BY DEF ReportsOfTheirTerm
  <2>1. Tells(session.status.terms[r], session.status.unstarted[r],
              session.terms[r].epoch)
    BY DEF HostInv, InstalledOK, Installed, Counted
  <2> QED
    BY <2>1 DEF Tells
<1> QED
  BY <1>1, <1>2, <1>3, PTL DEF Spec

\* observed: unless the pool reports the route expired, the gateway concludes
\* that an assigned instance is gone only from a report of a member that left
\* this very term unstarted, running as many others as it may; for any routes,
\* any revisions and any lengths of the queues, also where a term is unloaded
\* and assigned again.
THEOREM AbsenceNeverFalse == Spec => []NoFalseAbsence
<1>1. Init => HostInv
  BY HostStarts
<1>2. HostInv /\ [Next]_vars => HostInv'
  BY HostSteps
<1>3. HostInv => NoFalseAbsence
  <2> SUFFICES ASSUME HostInv, NEW r \in Route, assigned[r] # 0, r \notin expired,
                      Observed(r) = "absent"
               PROVE  session.status.unstarted[r] = owners[r].epoch
    BY DEF NoFalseAbsence
  <2>1. /\ owners[r].member = Host /\ session.id # 0
        /\ session.status.terms[r] = 0
        /\ ~(assigned[r] > session.status.applied)
        /\ ~(ownedSince[r] > session.status.applied)
    BY DEF Observed
  <2>2. /\ assigned[r] \in Nat /\ ownedSince[r] \in Nat
        /\ session.status.applied \in Int
        /\ owners[r].epoch \in 1..MaxEpoch
    BY <2>1, HostFields, ServedTerm DEF HostInv, SessionInv, HostTypes, ViewTypeOK
  <2>3. session.status.applied >= Dated(r)
    BY <2>1, <2>2 DEF Dated
  <2>4. Installed(r, owners[r].epoch, Dated(r))
    BY <2>1 DEF HostInv, ServedOK
  <2>5. Tells(0, session.status.unstarted[r], owners[r].epoch)
    BY <2>1, <2>3, <2>4 DEF Installed
  <2> QED
    BY <2>2, <2>5 DEF Tells
<1> QED
  BY <1>1, <1>2, <1>3, PTL DEF Spec
=============================================================================
