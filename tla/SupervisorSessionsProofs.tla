---------------------- MODULE SupervisorSessionsProofs ----------------------
(***************************************************************************)
(* Proofs about the owner record of SupervisorSessions, for every set of    *)
(* replicas and supervisor processes and every bound on sessions, terms,    *)
(* versions and faults.                                                     *)
(***************************************************************************)
EXTENDS SupervisorSessions, TLAPS

\* Where a session goes by a record that it wrote or found to be its own.
Owning == {"published", "registered", "initialized", "ready", "live", "deleting"}

SessionTypes ==
    /\ term \in Nat
    /\ record \in [version : Nat, session : Session \cup {NoSession},
                   fresh : BOOLEAN]
    /\ session \in [Session -> SessionState]
    /\ released \in BOOLEAN

\* A record has an owner that connected, and a session that goes by a record
\* goes by one that was there.
RecordsOwned ==
    /\ record.version = 0 <=> record.session = NoSession
    /\ record.fresh => record.session # NoSession
    /\ record.session # NoSession => At(record.session) # "idle"
    /\ \A s \in Session : At(s) \in Owning => session[s].version > 0

\* Until a record is deleted: nobody goes by a version that is still to come;
\* one who goes by the record's own version wrote it; one about to replace it
\* at that version may, as long as it is fresh.
GuardsMatch ==
    ~released => \A s \in Session :
        /\ session[s].version <= record.version
        /\ session[s].version = record.version =>
              /\ At(s) \in Owning => record.session = s
              /\ At(s) = "writing" /\ record.fresh =>
                    session[s].term >= session[record.session].term

RecordInv == SessionTypes /\ RecordsOwned /\ GuardsMatch

\* Where the owner's record is renewed by its session, and where the sandbox
\* was marked Ready for it.
Present == {"published", "registered", "initialized", "ready", "live"}
MarkedReady == {"ready", "live"}

\* While nothing fails: the record of a session in its setup or served is
\* fresh; once it marked the sandbox Ready, whoever demotes it is about to look
\* again; a snapshot that found no owner and is still valid is older than that.
ReadinessKept ==
    faults = 0 /\ ~released => \A s \in Session : record.session = s =>
        /\ At(s) \in Present => record.fresh
        /\ At(s) \in MarkedReady =>
              /\ ready \/ \E x \in Session : At(x) \in {"restoring", "restore"}
              /\ ~(sweep.at = "writing" /\ sweep.valid /\ ~sweep.connected)

ReadinessTypes ==
    /\ ready \in BOOLEAN
    /\ sweep \in [on : Replica \cup {NoReplica}, at : {"idle", "checking", "writing"},
                  connected : BOOLEAN, valid : BOOLEAN]
    /\ faults \in Nat

ReadyInv == ReadinessTypes /\ ReadinessKept

-------------------------------------------------------------------------------
(* The record.                                                              *)

\* What one step may do to the record, by OnlyOwnRecord and LaterTermKept.
OwnStep ==
    \A s \in Session :
        /\ ~released
        /\ \/ Serves(s) /\ record' # record /\ record'.session = s
           \/ At(s) = "deleting" /\ record' = NoRecord /\ session'[s] # session[s]
        => record.session \in {s, NoSession}

TermStep ==
    record.fresh /\ ~released /\ record'.session # NoSession
        => session'[record'.session].term >= session[record.session].term

\* What becomes of a session in a step that leaves the record alone: it goes
\* on by the same version, or by none.
Continues(s) ==
    /\ session'[s].version = session[s].version
    /\ session'[s].term = session[s].term
    /\ session'[s].at \in Owning => At(s) \in Owning
    /\ session'[s].at = "writing" => At(s) = "writing"

LetsGo(s) ==
    /\ session'[s].version = 0
    /\ record.session = s => session'[s].term = session[s].term
    /\ session'[s].at \notin Owning \cup {"writing"}

Quiet ==
    /\ UNCHANGED <<record, released>>
    /\ term' \in Nat
    /\ session' \in [Session -> SessionState]
    /\ \A s \in Session : /\ Continues(s) \/ LetsGo(s)
                          /\ session'[s].at = "idle" => At(s) = "idle"

\* A step that leaves the owner record to its session keeps the invariant.
LEMMA QuietRecord ==
  ASSUME RecordInv, Quiet
  PROVE  RecordInv' /\ OwnStep /\ TermStep
<1> USE DEF RecordInv, SessionTypes, Session, NoSession, At
<1>1. SessionTypes'
  BY DEF Quiet
<1>2. RecordsOwned'
  BY DEF Quiet, RecordsOwned, Continues, LetsGo
<1>3. ASSUME record.session # NoSession
      PROVE  session'[record.session].term = session[record.session].term
  BY <1>3 DEF Quiet, Continues, LetsGo
<1>4. GuardsMatch'
  <2> SUFFICES ASSUME ~released, NEW s \in Session
               PROVE  /\ session'[s].version <= record.version
                      /\ session'[s].version = record.version =>
                           /\ session'[s].at \in Owning => record.session = s
                           /\ session'[s].at = "writing" /\ record.fresh =>
                                session'[s].term >= session'[record.session].term
    BY DEF Quiet, GuardsMatch
  <2>1. CASE Continues(s)
    BY <1>3, <2>1 DEF Continues, GuardsMatch, RecordsOwned
  <2>2. CASE LetsGo(s)
    BY <2>2 DEF LetsGo
  <2> QED
    BY <2>1, <2>2 DEF Quiet
<1>5. OwnStep
  BY DEF Quiet, OwnStep, NoRecord
<1>6. TermStep
  BY <1>3 DEF Quiet, TermStep, SessionState
<1> QED
  BY <1>1, <1>2, <1>4, <1>5, <1>6


\* A step that changes one session.
LEMMA OneSession ==
  ASSUME RecordInv, NEW s \in Session, NEW x \in SessionState,
         session' = [session EXCEPT ![s] = x],
         UNCHANGED <<record, released, term>>,
         \/ /\ x.version = session[s].version
            /\ x.term = session[s].term
            /\ x.at \in Owning => At(s) \in Owning
            /\ x.at # "writing"
         \/ /\ x.version = 0
            /\ record.session = s => x.term = session[s].term
            /\ x.at \notin Owning \cup {"writing"},
         x.at # "idle"
  PROVE  Quiet
<1> USE DEF RecordInv, SessionTypes
<1>1. /\ session'[s] = x
      /\ \A y \in Session \ {s} : session'[y] = session[y]
      /\ session' \in [Session -> SessionState]
  OBVIOUS
<1>2. \A y \in Session \ {s} :
         Continues(y) /\ (session'[y].at = "idle" => At(y) = "idle")
  BY <1>1 DEF Continues, At
<1>3. Continues(s) \/ LetsGo(s)
  BY <1>1 DEF Continues, LetsGo
<1> QED
  BY <1>1, <1>2, <1>3 DEF Quiet

States == Setup \cup Cleanup \cup {"idle", "redirecting", "live", "ended"}

\* Ended(s) keeps a session's term exactly if the record needs it.
LEMMA EndedState ==
  ASSUME RecordInv, NEW s \in Session
  PROVE  /\ Ended(s) \in SessionState
         /\ Ended(s).at = "ended" /\ Ended(s).version = 0
         /\ record.session = s => Ended(s).term = session[s].term
<1> DEFINE v == session[s]
           x == Ended(s)
<1>1. v \in SessionState
  BY DEF RecordInv, SessionTypes
<1>2. /\ x \in SessionState
      /\ x.at = "ended" /\ x.version = 0
      /\ record.session = s => x.term = v.term
  <2>1. CASE record.session = s
    <3>1. x = [v EXCEPT !.at = "ended", !.version = 0, !.demotes = FALSE]
      BY <2>1 DEF Ended
    <3> HIDE DEF x, v
    <3> QED
      BY <1>1, <3>1 DEF SessionState
  <2>2. CASE record.session # s
    BY <2>2 DEF Ended, Idle, SessionState
  <2> QED
    BY <2>1, <2>2
<1> QED
  BY <1>2

\* A session that ends.
LEMMA EndsQuiet ==
  ASSUME RecordInv, NEW s \in Session, Ends(s),
         UNCHANGED <<record, released, term>>
  PROVE  Quiet
<1> DEFINE x == Ended(s)
<1>1. /\ x \in SessionState
      /\ x.at = "ended" /\ x.version = 0
      /\ record.session = s => x.term = session[s].term
  BY EndedState
<1>2. session' = [session EXCEPT ![s] = x]
  BY DEF Ends
<1> HIDE DEF x
<1> QED
  BY <1>1, <1>2, OneSession DEF Owning

\* A session that goes on.
LEMMA GoesQuiet ==
  ASSUME RecordInv, NEW s \in Session, NEW at \in States, Goes(s, at),
         UNCHANGED <<record, released, term>>,
         at \notin {"idle", "writing"},
         at \in Owning => At(s) \in Owning
  PROVE  Quiet
<1> DEFINE v == session[s]
           x == [v EXCEPT !.at = at]
<1>1. v \in SessionState
  BY DEF RecordInv, SessionTypes
<1>2. x \in SessionState /\ x.at = at /\ x.version = v.version /\ x.term = v.term
  <2> HIDE DEF v
  <2> QED
    BY <1>1 DEF SessionState, States
<1>3. session' = [session EXCEPT ![s] = x]
  BY DEF Goes
<1> HIDE DEF x
<1> QED
  BY <1>2, <1>3, OneSession

\* A session that leaves its loop.
LEMMA LeaveQuiet ==
  ASSUME RecordInv, NEW s \in Session, NEW demotes \in BOOLEAN, Leave(s, demotes),
         UNCHANGED <<record, released, term>>
  PROVE  Quiet
<1> DEFINE v == session[s]
           x == [v EXCEPT !.at = "releasing", !.version = 0, !.demotes = demotes]
<1>1. v \in SessionState
  BY DEF RecordInv, SessionTypes
<1>2. x \in SessionState /\ x.at = "releasing" /\ x.version = 0 /\ x.term = v.term
  <2> HIDE DEF v
  <2> QED
    BY <1>1 DEF SessionState, Cleanup, Releasing
<1>3. session' = [session EXCEPT ![s] = x]
  BY DEF Leave
<1> HIDE DEF x
<1> QED
  BY <1>2, <1>3, OneSession DEF Owning

\* A session after its release.
LEMMA AfterReleaseQuiet ==
  ASSUME RecordInv, NEW s \in Session, AfterRelease(s),
         UNCHANGED <<record, released, term>>
  PROVE  Quiet
<1> DEFINE v == session[s]
           x == [v EXCEPT !.at = "demoting", !.version = 0]
<1>1. CASE Ends(s)
  BY <1>1, EndsQuiet
<1>2. CASE session' = [session EXCEPT ![s] = x]
  <2>1. v \in SessionState
    BY DEF RecordInv, SessionTypes
  <2>2. x \in SessionState /\ x.at = "demoting" /\ x.version = 0 /\ x.term = v.term
    <3> HIDE DEF v
    <3> QED
      BY <2>1 DEF SessionState, Cleanup
  <2> HIDE DEF x
  <2> QED
    BY <1>2, <2>2, OneSession DEF Owning
<1> QED
  BY <1>1, <1>2 DEF AfterRelease

\* Connections, and the steps of a session that leave the record alone.
LEMMA ConnectQuiet ==
  ASSUME RecordInv, NEW s \in Session, NEW r \in Replica, NEW by \in Instance,
         Connect(s, r, by) \/ Redirect(s, r, by)
  PROVE  Quiet
<1>0. UNCHANGED <<record, released, term>> /\ At(s) = "idle"
  BY DEF Connect, Redirect, Connects
<1>1. CASE Ends(s)
  BY <1>0, <1>1, EndsQuiet
<1>2. ASSUME NEW at \in {"reading", "redirecting"}, Arrived(s, r, by, at)
      PROVE  Quiet
  <2> DEFINE x == [Idle EXCEPT !.at = at, !.on = r, !.by = by, !.term = term]
  <2>1. x \in SessionState /\ x.at = at /\ x.version = 0
    BY DEF RecordInv, SessionTypes, SessionState, Idle, Setup
  <2>2. session' = [session EXCEPT ![s] = x]
    BY <1>2 DEF Arrived
  <2>3. record.session # s
    BY <1>0 DEF RecordInv, RecordsOwned, Session, NoSession
  <2> HIDE DEF x
  <2> QED
    BY <1>0, <1>2, <2>1, <2>2, <2>3, OneSession DEF Owning
<1> QED
  BY <1>1, <1>2 DEF Connect, Redirect

\* A session on its way to being served.
LEMMA SetupQuiet ==
  ASSUME RecordInv, NEW s \in Session,
         \/ Disconnect(s) \/ Register(s) \/ Initialize(s) \/ InitializeFails(s)
         \/ Connected(s) \/ ConnectedFails(s) \/ Accept(s) \/ Close(s)
  PROVE  Quiet
<1> USE DEF States, Setup, Owning
<1>1. CASE Disconnect(s)
  BY <1>1, EndsQuiet DEF Disconnect
<1>2. CASE Register(s)
  BY <1>2, LeaveQuiet, GoesQuiet DEF Register
<1>3. CASE Initialize(s)
  BY <1>3, LeaveQuiet, GoesQuiet DEF Initialize
<1>4. CASE InitializeFails(s)
  BY <1>4, LeaveQuiet DEF InitializeFails, Current
<1>5. CASE Connected(s)
  BY <1>5, GoesQuiet DEF Connected
<1>6. CASE ConnectedFails(s)
  BY <1>6, LeaveQuiet DEF ConnectedFails
<1>7. CASE Accept(s)
  BY <1>7, LeaveQuiet, GoesQuiet DEF Accept
<1>8. CASE Close(s)
  BY <1>8, LeaveQuiet DEF Close, Finish, Current
<1> QED
  BY <1>1, <1>2, <1>3, <1>4, <1>5, <1>6, <1>7, <1>8

\* A session that demotes its sandbox, or finds that it must not.
LEMMA CleanupQuiet ==
  ASSUME RecordInv, NEW s \in Session,
         \/ BeginDemotion(s) \/ CheckOwner(s) \/ Demote(s) \/ CheckRestored(s)
         \/ Restore(s) \/ StepFails(s)
  PROVE  Quiet
<1> USE DEF States, Cleanup, Demotion, Owning
<1>1. CASE BeginDemotion(s)
  BY <1>1, EndsQuiet, GoesQuiet DEF BeginDemotion
<1>2. CASE CheckOwner(s)
  BY <1>2, EndsQuiet, GoesQuiet DEF CheckOwner
<1>3. CASE Demote(s)
  BY <1>3, GoesQuiet DEF Demote
<1>4. CASE CheckRestored(s)
  BY <1>4, EndsQuiet, GoesQuiet DEF CheckRestored
<1>5. CASE Restore(s)
  BY <1>5, EndsQuiet DEF Restore
<1>6. CASE StepFails(s)
  BY <1>6, EndsQuiet, AfterReleaseQuiet DEF StepFails
<1> QED
  BY <1>1, <1>2, <1>3, <1>4, <1>5, <1>6

\* Steps that touch neither the record nor a session; a crash ends the
\* sessions of its replica.
LEMMA ReplicaQuiet ==
  ASSUME RecordInv,
         \/ \E r \in Replica : BeginSweep(r)
         \/ \E r \in MayShutdown : Shutdown(r) \/ Crash(r)
         \/ Sweeps \/ Advance \/ UNCHANGED vars
  PROVE  Quiet
<1> USE DEF RecordInv, SessionTypes
<1>1. CASE UNCHANGED <<record, released, session>> /\ term' \in Nat
  BY <1>1 DEF Quiet, Continues, At
<1>2. ASSUME NEW r \in MayShutdown, Crash(r)
      PROVE  Quiet
  <2>1. /\ UNCHANGED <<record, released, term>>
        /\ session' = [s \in Session |-> IF On(s) = r THEN Ended(s) ELSE session[s]]
    BY <1>2 DEF Crash
  <2>2. \A s \in Session :
          /\ Ended(s) \in SessionState
          /\ Ended(s).at = "ended" /\ Ended(s).version = 0
          /\ record.session = s => Ended(s).term = session[s].term
    BY EndedState
  <2>3. session' \in [Session -> SessionState]
    BY <2>1, <2>2
  <2>4. \A s \in Session : /\ Continues(s) \/ LetsGo(s)
                           /\ session'[s].at = "idle" => At(s) = "idle"
    BY <2>1, <2>2 DEF Continues, LetsGo, Owning, At
  <2> QED
    BY <2>1, <2>3, <2>4 DEF Quiet
<1> QED
  BY <1>1, <1>2 DEF BeginSweep, Shutdown, Sweeps, SweepOwner, SweepWrite, Advance, vars

-------------------------------------------------------------------------------
\* publish_term notes the version it read, having seen that the record yields.
LEMMA ReadOwnerRecord ==
  ASSUME RecordInv, NEW s \in Session, ReadOwner(s)
  PROVE  RecordInv' /\ OwnStep /\ TermStep
<1> DEFINE v == session[s]
           n == v.tries + 1
           x == [v EXCEPT !.at = "writing", !.tries = n,
                          !.version = record.version]
<1>0. UNCHANGED <<record, released, term>> /\ At(s) = "reading"
  BY DEF ReadOwner
<1>1. CASE Ends(s)
  BY <1>0, <1>1, EndsQuiet, QuietRecord
<1>2. CASE /\ CanSupersede(s, session[s].by, session[s].term)
           /\ session' = [session EXCEPT ![s] = x]
  <2>1. v \in SessionState /\ record.version \in Nat
    BY DEF RecordInv, SessionTypes
  <2>2. /\ x \in SessionState /\ x.at = "writing"
        /\ x.version = record.version /\ x.term = v.term
    <3>1. n \in Nat
      BY <2>1 DEF SessionState
    <3> HIDE DEF v, n
    <3> QED
      BY <2>1, <3>1 DEF SessionState, Setup
  <2>3. /\ session'[s] = x
        /\ \A y \in Session \ {s} : session'[y] = session[y]
        /\ session' \in [Session -> SessionState]
    <3> HIDE DEF x
    <3> QED
      BY <1>2, <2>2 DEF RecordInv, SessionTypes
  <2> HIDE DEF x
  <2>4. SessionTypes'
    BY <1>0, <2>3 DEF RecordInv, SessionTypes
  <2>5. RecordsOwned'
    BY <1>0, <2>2, <2>3
    DEF RecordInv, SessionTypes, RecordsOwned, Session, NoSession, Owning, At
  <2>6. \A y \in Session : session'[y].term = session[y].term
    BY <2>2, <2>3
  <2>7. record.fresh => v.term >= session[record.session].term
    <3> SUFFICES ASSUME record.fresh
                 PROVE  v.term >= session[record.session].term
      OBVIOUS
    <3>1. v.term \in Nat /\ session[record.session].term \in Nat
      BY <2>1 DEF SessionState, RecordInv, SessionTypes, RecordsOwned
    <3> QED
      BY <1>2, <3>1 DEF CanSupersede
  <2>8. GuardsMatch'
    <3> SUFFICES ASSUME ~released, NEW y \in Session
                 PROVE  /\ session'[y].version <= record.version
                        /\ session'[y].version = record.version =>
                             /\ session'[y].at \in Owning => record.session = y
                             /\ session'[y].at = "writing" /\ record.fresh =>
                                  session'[y].term >= session'[record.session].term
      BY <1>0 DEF GuardsMatch, At
    <3>1. record.fresh => record.session \in Session
      BY DEF RecordInv, SessionTypes, RecordsOwned
    <3>2. CASE y = s
      BY <2>1, <2>2, <2>3, <2>6, <2>7, <3>1, <3>2 DEF Owning
    <3>3. CASE y # s
      BY <2>3, <2>6, <3>1, <3>3 DEF RecordInv, GuardsMatch, At
    <3> QED
      BY <3>2, <3>3
  <2>9. OwnStep
    BY <1>0, <2>3 DEF OwnStep, NoRecord
  <2>10. TermStep
    BY <1>0, <2>6 DEF TermStep, RecordInv, SessionTypes, SessionState
  <2> QED
    BY <2>4, <2>5, <2>8, <2>9, <2>10 DEF RecordInv
<1> QED
  BY <1>1, <1>2 DEF ReadOwner

\* A write of the record at the version s goes by, by a session that may.
LEMMA WriteRecord ==
  ASSUME RecordInv, NEW s \in Session, NEW x \in SessionState,
         x.at \in Owning, x.term = session[s].term,
         x.version = record'.version \/ x = session[s],
         At(s) \in Owning \cup {"writing"},
         record.version = session[s].version,
         record' = Written(s),
         session' = [session EXCEPT ![s] = x],
         UNCHANGED <<term, released>>,
         ~released /\ Serves(s) => record.session = s,
         ~released /\ record.fresh => session[s].term >= session[record.session].term
  PROVE  RecordInv' /\ OwnStep /\ TermStep
<1> USE DEF RecordInv, SessionTypes
<1>1. /\ session'[s] = x
      /\ \A y \in Session \ {s} : session'[y] = session[y]
      /\ session' \in [Session -> SessionState]
  OBVIOUS
<1>2. /\ record'.version = record.version + 1
      /\ record'.session = s
      /\ record'.fresh = TRUE
      /\ record' \in [version : Nat, session : Session \cup {NoSession}, fresh : BOOLEAN]
  BY DEF Written, NextVersion
<1>3. SessionTypes'
  BY <1>1, <1>2
<1>4. \A y \in Session : session[y].version \in Nat
  BY DEF SessionState
<1>5. RecordsOwned'
  BY <1>1, <1>2 DEF RecordsOwned, Session, NoSession, Owning, At
<1>6. GuardsMatch'
  <2> SUFFICES ASSUME ~released, NEW y \in Session
               PROVE  /\ session'[y].version <= record'.version
                      /\ session'[y].version = record'.version =>
                           /\ session'[y].at \in Owning => record'.session = y
                           /\ session'[y].at = "writing" /\ record'.fresh =>
                                session'[y].term >= session'[record'.session].term
    BY DEF GuardsMatch, At
  <2>1. session[y].version <= record.version
    BY DEF GuardsMatch
  <2>2. CASE y = s
    BY <1>1, <1>2, <1>4, <2>1, <2>2 DEF Owning, SessionState
  <2>3. CASE y # s
    BY <1>1, <1>2, <1>4, <2>1, <2>3
  <2> QED
    BY <2>2, <2>3
<1>7. OwnStep
  BY <1>1, <1>2 DEF OwnStep, NoRecord, Serves, Session, NoSession
<1>8. TermStep
  BY <1>1, <1>2 DEF TermStep
<1> QED
  BY <1>3, <1>5, <1>6, <1>7, <1>8

\* A session writes the owner record.
LEMMA PublishRecord ==
  ASSUME RecordInv, NEW s \in Session, Publish(s)
  PROVE  RecordInv' /\ OwnStep /\ TermStep
<1> DEFINE v == session[s]
<1>0. UNCHANGED <<term, released>> /\ At(s) = "writing"
  BY DEF Publish
<1>1. v \in SessionState
  BY DEF RecordInv, SessionTypes
<1>2. CASE record.version = v.version
  <2> DEFINE n == record'.version
             x == [v EXCEPT !.at = "published", !.tries = 0, !.version = n]
  <2>1. record' = Written(s) /\ session' = [session EXCEPT ![s] = x]
    BY <1>2 DEF Publish, SameVersion
  <2>2. n \in Nat
    BY <2>1 DEF Written, NextVersion, RecordInv, SessionTypes
  <2>3. /\ x \in SessionState /\ x.at = "published"
        /\ x.version = n /\ x.term = v.term
    <3> HIDE DEF v, n
    <3> QED
      BY <1>1, <2>2 DEF SessionState, Setup
  <2>4. ~released /\ record.fresh => v.term >= session[record.session].term
    BY <1>0, <1>2 DEF RecordInv, GuardsMatch
  <2>5. ~Serves(s)
    BY <1>0 DEF Serves
  <2> HIDE DEF x
  <2> QED
    BY <1>0, <1>2, <2>1, <2>3, <2>4, <2>5, WriteRecord DEF Owning
<1>3. CASE record.version # v.version
  <2> DEFINE x == [v EXCEPT !.at = "reading", !.version = 0]
  <2>1. record' = record
    BY <1>3 DEF Publish, SameVersion
  <2>2. CASE Ends(s)
    BY <1>0, <2>1, <2>2, EndsQuiet, QuietRecord
  <2>3. CASE session' = [session EXCEPT ![s] = x]
    <3>1. x \in SessionState /\ x.at = "reading" /\ x.version = 0 /\ x.term = v.term
      <4> HIDE DEF v
      <4> QED
        BY <1>1 DEF SessionState, Setup
    <3> HIDE DEF x
    <3> QED
      BY <1>0, <2>1, <2>3, <3>1, OneSession, QuietRecord DEF Owning
  <2> QED
    BY <1>3, <2>2, <2>3 DEF Publish, SameVersion
<1> QED
  BY <1>2, <1>3

\* A renewal, answered or not, is a write of the session's own record.
LEMMA RenewRecord ==
  ASSUME RecordInv, NEW s \in Session,
         Renew(s) \/ RenewReplaced(s) \/ RenewUnanswered(s)
  PROVE  RecordInv' /\ OwnStep /\ TermStep
<1> DEFINE v == session[s]
<1>0. UNCHANGED <<term, released>> /\ At(s) = "live"
  BY DEF Renew, RenewReplaced, RenewUnanswered
<1>1. v \in SessionState
  BY DEF RecordInv, SessionTypes
<1>2. CASE Finish(s) /\ UNCHANGED record
  BY <1>0, <1>2, LeaveQuiet, QuietRecord DEF Finish, Current
<1>3. CASE /\ record.version = v.version
           /\ record' = Written(s)
           /\ \/ session' = [session EXCEPT ![s] =
                               [session[s] EXCEPT !.version = record'.version]]
              \/ session' = session
  <2>1. ~released => record.session = s
    BY <1>0, <1>3 DEF RecordInv, GuardsMatch, Owning
  <2>2. ~released => v.term >= session[record.session].term
    BY <1>1, <2>1 DEF SessionState
  <2> DEFINE n == record'.version
             x == [v EXCEPT !.version = n]
  <2>3. n \in Nat
    BY <1>3 DEF Written, NextVersion, RecordInv, SessionTypes
  <2>4. /\ x \in SessionState /\ x.at = v.at
        /\ x.version = n /\ x.term = v.term
    <3> HIDE DEF v, n
    <3> QED
      BY <1>1, <2>3 DEF SessionState
  <2>5. session' = [session EXCEPT ![s] = x] \/ session' = [session EXCEPT ![s] = v]
    BY <1>3 DEF RecordInv, SessionTypes
  <2>6. v.at = "live"
    BY <1>0 DEF At
  <2> HIDE DEF x
  <2>7. CASE session' = [session EXCEPT ![s] = x]
    BY <1>0, <1>3, <2>1, <2>2, <2>4, <2>6, <2>7, WriteRecord DEF Owning
  <2>8. CASE session' = [session EXCEPT ![s] = v]
    BY <1>0, <1>1, <1>3, <2>1, <2>2, <2>6, <2>8, WriteRecord DEF Owning
  <2> QED
    BY <2>5, <2>7, <2>8
<1> QED
  BY <1>2, <1>3 DEF Renew, RenewReplaced, RenewUnanswered, SameVersion

\* release_if_current notes the version of a record it found to be its own.
LEMMA ReleaseRecord ==
  ASSUME RecordInv, NEW s \in Session, Release(s)
  PROVE  RecordInv' /\ OwnStep /\ TermStep
<1> DEFINE v == session[s]
           x == [v EXCEPT !.at = "deleting", !.version = record.version]
<1>0. UNCHANGED <<record, released, term>> /\ At(s) = "releasing"
  BY DEF Release
<1>1. CASE AfterRelease(s)
  BY <1>0, <1>1, AfterReleaseQuiet, QuietRecord
<1>2. CASE record.session = s /\ session' = [session EXCEPT ![s] = x]
  <2>1. v \in SessionState /\ record.version \in Nat
    BY DEF RecordInv, SessionTypes
  <2>2. /\ x \in SessionState /\ x.at = "deleting"
        /\ x.version = record.version /\ x.term = v.term
    <3> HIDE DEF v
    <3> QED
      BY <2>1 DEF SessionState, Cleanup, Releasing
  <2> HIDE DEF x
  <2>3. /\ session'[s] = x
        /\ \A y \in Session \ {s} : session'[y] = session[y]
        /\ session' \in [Session -> SessionState]
    BY <1>2, <2>2 DEF RecordInv, SessionTypes
  <2>4. SessionTypes'
    BY <1>0, <2>3 DEF RecordInv, SessionTypes
  <2>5. RecordsOwned'
    BY <1>0, <1>2, <2>2, <2>3
    DEF RecordInv, SessionTypes, RecordsOwned, Session, NoSession, Owning, At
  <2>6. \A y \in Session : session'[y].term = session[y].term
    BY <2>2, <2>3
  <2>7. GuardsMatch'
    <3> SUFFICES ASSUME ~released, NEW y \in Session
                 PROVE  /\ session'[y].version <= record.version
                        /\ session'[y].version = record.version =>
                             /\ session'[y].at \in Owning => record.session = y
                             /\ session'[y].at = "writing" /\ record.fresh =>
                                  session'[y].term >= session'[record.session].term
      BY <1>0 DEF GuardsMatch, At
    <3>2. CASE y = s
      BY <1>2, <2>1, <2>2, <2>3, <3>2
    <3>3. CASE y # s
      BY <1>2, <2>3, <2>6, <3>3 DEF RecordInv, GuardsMatch, At
    <3> QED
      BY <3>2, <3>3
  <2>8. OwnStep
    BY <1>0, <2>3 DEF OwnStep, NoRecord
  <2>9. TermStep
    BY <1>0, <2>6 DEF TermStep, RecordInv, SessionTypes, SessionState
  <2> QED
    BY <2>4, <2>5, <2>7, <2>8, <2>9 DEF RecordInv
<1> QED
  BY <1>1, <1>2 DEF Release

\* A deletion at the version of its own record; when no other session goes by
\* a version, versions may start again.
LEMMA DeleteRecord ==
  ASSUME RecordInv, NEW s \in Session, Delete(s)
  PROVE  RecordInv' /\ OwnStep /\ TermStep
<1>0. UNCHANGED term /\ At(s) = "deleting" /\ AfterRelease(s)
  BY DEF Delete
<1>1. CASE UNCHANGED <<record, released>>
  BY <1>0, <1>1, AfterReleaseQuiet, QuietRecord
<1>2. CASE /\ record.version = session[s].version
           /\ record' = NoRecord
           /\ released' = (released \/ \E x \in Session \ {s} : session[x].version # 0)
  <2>1. PICK x \in SessionState :
          /\ session' = [session EXCEPT ![s] = x]
          /\ x.version = 0 /\ x.at \in {"demoting", "ended"}
    <3> DEFINE v == session[s]
               d == [v EXCEPT !.at = "demoting", !.version = 0]
    <3>1. v \in SessionState
      BY DEF RecordInv, SessionTypes
    <3>2. d \in SessionState /\ d.version = 0 /\ d.at = "demoting"
      <4> HIDE DEF v
      <4> QED
        BY <3>1 DEF SessionState, Cleanup
    <3>3. session' = [session EXCEPT ![s] = d] \/ session' = [session EXCEPT ![s] = Ended(s)]
      BY <1>0 DEF AfterRelease, Ends
    <3> HIDE DEF d
    <3> QED
      BY <3>2, <3>3, EndedState
  <2>2. /\ session'[s] = x
        /\ \A y \in Session \ {s} : session'[y] = session[y]
        /\ session' \in [Session -> SessionState]
    BY <2>1 DEF RecordInv, SessionTypes
  <2>3. SessionTypes'
    BY <1>0, <1>2, <2>2 DEF RecordInv, SessionTypes, NoRecord
  <2>4. RecordsOwned'
    BY <1>2, <2>1, <2>2 DEF RecordInv, RecordsOwned, NoRecord, NoSession, Owning, At
  <2>5. GuardsMatch'
    <3> SUFFICES ASSUME ~released', NEW y \in Session
                 PROVE  /\ session'[y].version = 0
                        /\ session'[y].at \notin Owning
      BY <1>2 DEF GuardsMatch, NoRecord, At
    <3>1. CASE y = s
      BY <2>1, <2>2, <3>1 DEF Owning
    <3>2. CASE y # s
      <4>1. session[y].version = 0
        BY <1>2, <3>2, Zenon
      <4>2. At(y) \notin Owning
        BY <4>1 DEF RecordInv, RecordsOwned
      <4> QED
        BY <2>2, <3>2, <4>1, <4>2 DEF At
    <3> QED
      BY <3>1, <3>2
  <2>6. OwnStep
    <3>1. ~released => record.session = s
      BY <1>0, <1>2 DEF RecordInv, GuardsMatch, Owning
    <3> QED
      BY <1>2, <2>2, <3>1 DEF OwnStep, NoRecord, NoSession, Session
  <2>7. TermStep
    BY <1>2 DEF TermStep, NoRecord
  <2> QED
    BY <2>3, <2>4, <2>5, <2>6, <2>7 DEF RecordInv
<1> QED
  BY <1>1, <1>2 DEF Delete, SameVersion

\* A record that nobody renews grows old.
LEMMA ExpireRecord ==
  ASSUME RecordInv, ExpireAbandoned \/ ExpireStalled
  PROVE  RecordInv' /\ OwnStep /\ TermStep
<1> USE DEF RecordInv, SessionTypes
<1>1. /\ UNCHANGED <<term, session, released>>
      /\ record' = [record EXCEPT !.fresh = FALSE]
  BY DEF ExpireAbandoned, ExpireStalled
<1>2. SessionTypes'
  BY <1>1
<1>3. RecordsOwned' /\ GuardsMatch'
  BY <1>1 DEF RecordsOwned, GuardsMatch, At
<1>4. OwnStep
  BY <1>1 DEF OwnStep, NoRecord
<1>5. TermStep
  BY <1>1 DEF TermStep, SessionState
<1> QED
  BY <1>2, <1>3, <1>4, <1>5

\* Every step keeps the record invariant, and disturbs no other session's record.
LEMMA NextRecord ==
  ASSUME RecordInv, [Next]_vars
  PROVE  RecordInv' /\ OwnStep /\ TermStep
<1>1. ASSUME NEW s \in Session, NEW r \in Replica, NEW by \in Instance,
             Connect(s, r, by) \/ Redirect(s, r, by)
      PROVE  RecordInv' /\ OwnStep /\ TermStep
  BY <1>1, ConnectQuiet, QuietRecord
<1>2. ASSUME NEW s \in Session, \/ Close(s) \/ Proceed(s) \/ RenewReplaced(s)
                                \/ SessionFault(s)
      PROVE  RecordInv' /\ OwnStep /\ TermStep
  <2>1. CASE Quiet
    BY <2>1, QuietRecord
  <2> QED
    BY <1>2, <2>1, SetupQuiet, CleanupQuiet, ReadOwnerRecord, PublishRecord,
       RenewRecord, ReleaseRecord, DeleteRecord
    DEF Proceed, SessionFault, CloseShutdown
<1>3. ASSUME \/ \E r \in Replica : BeginSweep(r)
             \/ \E r \in MayShutdown : Shutdown(r) \/ Crash(r)
             \/ Sweeps \/ Advance \/ UNCHANGED vars
      PROVE  RecordInv' /\ OwnStep /\ TermStep
  BY <1>3, ReplicaQuiet, QuietRecord
<1>4. \A s \in MayFail : s \in Session
  BY SessionsAssumption DEF Session
<1> QED
  BY <1>1, <1>2, <1>3, <1>4, ExpireRecord DEF Next

\* The record invariant holds initially.
LEMMA InitRecord == Init => RecordInv
<1> SUFFICES ASSUME Init
             PROVE  RecordInv
  OBVIOUS
<1>1. Idle \in SessionState /\ Idle.at = "idle" /\ Idle.version = 0
  BY DEF Idle, SessionState
<1>2. SessionTypes
  <2>1. released \in BOOLEAN
    BY Zenon DEF Init
  <2> QED
    BY <1>1, <2>1 DEF Init, SessionTypes, NoRecord
<1> QED
  BY <1>1, <1>2 DEF Init, RecordInv, RecordsOwned, GuardsMatch, NoRecord, Owning, At

-------------------------------------------------------------------------------
\* renew, release_if_current: whatever stalls, crashes and loses replies, a
\* session renews and deletes no record but its own, as long as versions did
\* not start again under it.
THEOREM OwnRecordOnly == Spec => OnlyOwnRecord
<1>1. RecordInv /\ [Next]_vars => RecordInv'
  BY NextRecord
<1>2. RecordInv /\ [Next]_vars =>
        [\A s \in Session :
            /\ ~released
            /\ \/ Serves(s) /\ record' # record /\ record'.session = s
               \/ At(s) = "deleting" /\ record' = NoRecord /\ session'[s] # session[s]
            => record.session \in {s, NoSession}]_vars
  BY NextRecord DEF OwnStep
<1> QED
  BY <1>1, <1>2, InitRecord, PTL DEF Spec, OnlyOwnRecord

\* can_supersede, publish_term: a fresh record yields to no earlier term, with
\* the same exception.
THEOREM LaterTermsKept == Spec => LaterTermKept
<1>1. RecordInv /\ [Next]_vars => RecordInv'
  BY NextRecord
<1>2. RecordInv /\ [Next]_vars =>
        [record.fresh /\ ~released /\ record'.session # NoSession
            => session'[record'.session].term >= session[record.session].term]_vars
  BY NextRecord DEF TermStep
<1> QED
  BY <1>1, <1>2, InitRecord, PTL DEF Spec, LaterTermKept

-------------------------------------------------------------------------------
(* Readiness.                                                               *)

\* One session goes to a state, and the others stay where they are.
Lands(s, at) ==
    /\ session'[s].at = at
    /\ \A y \in Session \ {s} : session'[y] = session[y]

\* Where the steps of a session lead.
LEMMA Landings ==
  ASSUME RecordInv, NEW s \in Session
  PROVE  /\ Ends(s) => Lands(s, "ended")
         /\ \A at \in States : Goes(s, at) => Lands(s, at)
         /\ \A demotes \in BOOLEAN : Leave(s, demotes) => Lands(s, "releasing")
         /\ AfterRelease(s) => Lands(s, "demoting") \/ Lands(s, "ended")
<1> DEFINE v == session[s]
<1>1. v \in SessionState /\ session \in [Session -> SessionState]
  BY DEF RecordInv, SessionTypes
<1>2. ASSUME NEW x, NEW at, x.at = at, session' = [session EXCEPT ![s] = x]
      PROVE  Lands(s, at)
  BY <1>1, <1>2 DEF Lands
<1>3. Ends(s) => Lands(s, "ended")
  <2> DEFINE x == Ended(s)
  <2>1. x.at = "ended"
    BY EndedState
  <2>2. Ends(s) => session' = [session EXCEPT ![s] = x]
    BY DEF Ends
  <2> HIDE DEF x
  <2> QED
    BY <1>2, <2>1, <2>2
<1>4. ASSUME NEW at \in States, Goes(s, at)
      PROVE  Lands(s, at)
  <2> DEFINE x == [v EXCEPT !.at = at]
  <2>1. x.at = at
    <3> HIDE DEF v
    <3> QED
      BY <1>1 DEF SessionState
  <2>2. session' = [session EXCEPT ![s] = x]
    BY <1>4 DEF Goes
  <2> HIDE DEF x
  <2> QED
    BY <1>2, <2>1, <2>2
<1>5. ASSUME NEW demotes \in BOOLEAN, Leave(s, demotes)
      PROVE  Lands(s, "releasing")
  <2> DEFINE x == [v EXCEPT !.at = "releasing", !.version = 0, !.demotes = demotes]
  <2>1. x.at = "releasing"
    <3> HIDE DEF v
    <3> QED
      BY <1>1 DEF SessionState
  <2>2. session' = [session EXCEPT ![s] = x]
    BY <1>5 DEF Leave
  <2> HIDE DEF x
  <2> QED
    BY <1>2, <2>1, <2>2
<1>6. AfterRelease(s) => Lands(s, "demoting") \/ Lands(s, "ended")
  <2> DEFINE x == [v EXCEPT !.at = "demoting", !.version = 0]
  <2>1. x.at = "demoting"
    <3> HIDE DEF v
    <3> QED
      BY <1>1 DEF SessionState
  <2>2. AfterRelease(s) => session' = [session EXCEPT ![s] = x] \/ Ends(s)
    BY DEF AfterRelease
  <2> HIDE DEF x
  <2> QED
    BY <1>2, <1>3, <2>1, <2>2
<1> QED
  BY <1>3, <1>4, <1>5, <1>6

\* A step of a session that neither marks the sandbox nor ends a restoration,
\* nor makes the session an owner.
LEMMA LandsReady ==
  ASSUME ReadyInv, NEW s \in Session, NEW at, Lands(s, at),
         UNCHANGED <<ready, sweep, faults>>,
         record'.session # record.session => record'.session = NoSession,
         record'.session = record.session => (record.fresh => record'.fresh),
         ~released' => ~released,
         at \in Present => At(s) \in Present,
         at \in MarkedReady => At(s) \in MarkedReady,
         At(s) \notin {"restoring", "restore"}
  PROVE  ReadyInv'
<1> USE DEF ReadyInv
<1>1. ReadinessTypes'
  BY DEF ReadinessTypes
<1>2. CASE record'.session # record.session
  BY <1>1, <1>2 DEF ReadinessKept, Session, NoSession
<1>3. CASE record'.session = record.session
  <2>1. \A y \in Session : At(y) \in {"restoring", "restore"} =>
                             session'[y].at \in {"restoring", "restore"}
    BY DEF Lands, At
  <2>2. \A y \in Session :
          /\ session'[y].at \in Present => At(y) \in Present
          /\ session'[y].at \in MarkedReady => At(y) \in MarkedReady
    BY DEF Lands, At
  <2>3. ReadinessKept'
    BY <1>3, <2>1, <2>2 DEF ReadinessKept, At
  <2> QED
    BY <1>1, <2>3
<1> QED
  BY <1>2, <1>3

\* Nothing is claimed once something failed.
LEMMA FaultReady ==
  ASSUME ReadyInv, Fault, ready' \in BOOLEAN,
         sweep' \in [on : Replica \cup {NoReplica}, at : {"idle", "checking", "writing"},
                     connected : BOOLEAN, valid : BOOLEAN]
  PROVE  ReadyInv'
  BY DEF ReadyInv, ReadinessTypes, ReadinessKept, Fault

\* A supervisor connects.
LEMMA ConnectReady ==
  ASSUME RecordInv, ReadyInv, NEW s \in Session, NEW r \in Replica, NEW by \in Instance,
         Connect(s, r, by) \/ Redirect(s, r, by)
  PROVE  ReadyInv'
<1>0. UNCHANGED <<record, released, ready, sweep, faults>> /\ At(s) = "idle"
  BY DEF Connect, Redirect, Connects
<1>1. PICK at \in {"ended", "reading", "redirecting"} : Lands(s, at)
  <2>1. ASSUME NEW at \in {"reading", "redirecting"}, Arrived(s, r, by, at)
        PROVE  Lands(s, at)
    BY <2>1 DEF Arrived, Lands, Idle, RecordInv, SessionTypes
  <2> QED
    BY <2>1, Landings DEF Connect, Redirect
<1> QED
  BY <1>0, <1>1, LandsReady DEF Present, MarkedReady

\* A session on its way to being served leaves readiness right.
LEMMA SetupReady ==
  ASSUME RecordInv, ReadyInv, NEW s \in Session,
         \/ Disconnect(s) \/ ReadOwner(s) \/ Register(s) \/ Initialize(s)
         \/ Accept(s) \/ Close(s)
  PROVE  ReadyInv'
<1> USE DEF Present, MarkedReady
<1>0. UNCHANGED <<record, released, ready, sweep, faults>>
  BY DEF Disconnect, ReadOwner, Register, Initialize, Accept, Close
<1>1. CASE Disconnect(s)
  BY <1>0, <1>1, Landings, LandsReady DEF Disconnect
<1>2. CASE ReadOwner(s)
  <2>1. Lands(s, "ended") \/ Lands(s, "writing")
    <3> DEFINE v == session[s]
               n == v.tries + 1
               x == [v EXCEPT !.at = "writing", !.tries = n,
                              !.version = record.version]
    <3>1. v \in SessionState
      BY DEF RecordInv, SessionTypes
    <3>2. x.at = "writing"
      <4> HIDE DEF v, n
      <4> QED
        BY <3>1 DEF SessionState
    <3>3. Ends(s) \/ session' = [session EXCEPT ![s] = x]
      BY <1>2 DEF ReadOwner
    <3> HIDE DEF x
    <3> QED
      BY <3>2, <3>3, Landings DEF Lands, RecordInv, SessionTypes
  <2> QED
    BY <1>0, <1>2, <2>1, LandsReady DEF ReadOwner
<1>3. CASE Register(s)
  <2>1. Lands(s, "releasing") \/ Lands(s, "registered")
    BY <1>3, Landings DEF Register, States, Setup
  <2> QED
    BY <1>0, <1>3, <2>1, LandsReady DEF Register
<1>4. CASE Initialize(s)
  <2>1. Lands(s, "releasing") \/ Lands(s, "initialized")
    BY <1>4, Landings DEF Initialize, States, Setup
  <2> QED
    BY <1>0, <1>4, <2>1, LandsReady DEF Initialize
<1>5. CASE Accept(s)
  <2>1. Lands(s, "releasing") \/ Lands(s, "live")
    BY <1>5, Landings DEF Accept, States
  <2> QED
    BY <1>0, <1>5, <2>1, LandsReady DEF Accept
<1>6. CASE Close(s)
  <2>1. Lands(s, "releasing")
    BY <1>6, Landings DEF Close, Finish, Current
  <2> QED
    BY <1>0, <1>6, <2>1, LandsReady DEF Close
<1> QED
  BY <1>1, <1>2, <1>3, <1>4, <1>5, <1>6

\* A session that publishes is an owner whose sandbox is not yet marked.
LEMMA PublishReady ==
  ASSUME RecordInv, ReadyInv, NEW s \in Session, Publish(s)
  PROVE  ReadyInv'
<1> DEFINE v == session[s]
           p == [v EXCEPT !.at = "published", !.tries = 0, !.version = record'.version]
           x == [v EXCEPT !.at = "reading", !.version = 0]
<1> USE DEF Present, MarkedReady
<1>0. UNCHANGED <<released, ready, sweep, faults>> /\ At(s) = "writing"
  BY DEF Publish
<1>1. v \in SessionState /\ session \in [Session -> SessionState]
  BY DEF RecordInv, SessionTypes
<1>2. p.at = "published" /\ x.at = "reading"
  <2> HIDE DEF v
  <2> QED
    BY <1>1 DEF SessionState
<1> HIDE DEF p, x
<1>3. CASE record' = Written(s) /\ session' = [session EXCEPT ![s] = p]
  <2>1. record'.session = s /\ record'.fresh = TRUE /\ session'[s].at = "published"
    BY <1>1, <1>2, <1>3 DEF Written
  <2>2. ReadinessKept'
    BY <2>1 DEF ReadinessKept, At
  <2> QED
    BY <1>0, <2>2 DEF ReadyInv, ReadinessTypes
<1>4. CASE record' = record /\ (session' = [session EXCEPT ![s] = x] \/ Ends(s))
  <2>1. Lands(s, "reading") \/ Lands(s, "ended")
    BY <1>1, <1>2, <1>4, Landings DEF Lands
  <2> QED
    BY <1>0, <1>4, <2>1, LandsReady
<1> QED
  BY <1>3, <1>4 DEF Publish, p, x

\* A renewal keeps the owner and the record fresh.
LEMMA RenewReady ==
  ASSUME RecordInv, ReadyInv, NEW s \in Session, Renew(s) \/ RenewReplaced(s)
  PROVE  ReadyInv'
<1> DEFINE v == session[s]
           n == record'.version
           x == [v EXCEPT !.version = n]
<1> USE DEF Present, MarkedReady
<1>0. UNCHANGED <<released, ready, sweep, faults>> /\ At(s) = "live"
  BY DEF Renew, RenewReplaced
<1>1. CASE Finish(s) /\ record' = record
  BY <1>0, <1>1, Landings, LandsReady DEF Finish, Current
<1>2. CASE /\ record.version = v.version
           /\ record' = Written(s)
           /\ session' = [session EXCEPT ![s] = x]
  <2>1. v \in SessionState /\ v.at = "live"
    BY <1>0 DEF RecordInv, SessionTypes, At
  <2>2. x.at = "live"
    <3> HIDE DEF v, n
    <3> QED
      BY <2>1 DEF SessionState
  <2> HIDE DEF x
  <2>3. Lands(s, "live")
    BY <1>2, <2>2 DEF Lands, RecordInv, SessionTypes
  <2>4. record'.session = s /\ record'.fresh = TRUE
    BY <1>2 DEF Written
  <2>5. CASE released
    BY <1>0, <2>5 DEF ReadyInv, ReadinessTypes, ReadinessKept
  <2>6. CASE ~released
    <3>1. record.session = s
      BY <1>0, <1>2, <2>6 DEF RecordInv, GuardsMatch, Owning
    <3> QED
      BY <1>0, <2>3, <2>4, <3>1, LandsReady
  <2> QED
    BY <2>5, <2>6
<1> QED
  BY <1>1, <1>2 DEF Renew, RenewReplaced, SameVersion

\* A release, and the checks before a demotion.
LEMMA ReleaseReady ==
  ASSUME RecordInv, ReadyInv, NEW s \in Session,
         Release(s) \/ Delete(s) \/ BeginDemotion(s) \/ CheckOwner(s)
  PROVE  ReadyInv'
<1> USE DEF Present, MarkedReady
<1>0. /\ UNCHANGED <<ready, sweep, faults>>
      /\ record' = record \/ record' = NoRecord
      /\ ~released' => ~released
      /\ At(s) \in {"releasing", "deleting", "demoting", "checking"}
  <2>1. CASE Delete(s)
    BY <2>1, Zenon DEF Delete
  <2>2. CASE Release(s) \/ BeginDemotion(s) \/ CheckOwner(s)
    BY <2>2 DEF Release, BeginDemotion, CheckOwner
  <2> QED
    BY <2>1, <2>2
<1>1. PICK at \in {"deleting", "demoting", "ended", "checking", "lapsed"} : Lands(s, at)
  <2>1. CASE Release(s)
    <3> DEFINE v == session[s]
               x == [v EXCEPT !.at = "deleting", !.version = record.version]
    <3>1. v \in SessionState
      BY DEF RecordInv, SessionTypes
    <3>2. x.at = "deleting"
      <4> HIDE DEF v
      <4> QED
        BY <3>1 DEF SessionState
    <3>3. AfterRelease(s) \/ session' = [session EXCEPT ![s] = x]
      BY <2>1 DEF Release
    <3> HIDE DEF x
    <3> QED
      BY <3>2, <3>3, Landings DEF Lands, RecordInv, SessionTypes
  <2>2. CASE Delete(s)
    BY <2>2, Landings DEF Delete
  <2>3. CASE BeginDemotion(s) \/ CheckOwner(s)
    BY <2>3, Landings DEF BeginDemotion, CheckOwner, States, Cleanup, Demotion
  <2> QED
    BY <2>1, <2>2, <2>3
<1>2. record'.session # record.session => record'.session = NoSession
  BY <1>0 DEF NoRecord
<1>3. record'.session = record.session => (record.fresh => record'.fresh)
  <2>1. record.fresh => record.session # NoSession
    BY DEF RecordInv, RecordsOwned
  <2> QED
    BY <1>0, <2>1 DEF NoRecord
<1> QED
  BY <1>0, <1>1, <1>2, <1>3, LandsReady

\* A session's mark and a restoration make the sandbox Ready and void the
\* snapshot; a demotion is looked at again.
LEMMA MarksReady ==
  ASSUME RecordInv, ReadyInv, NEW s \in Session,
         Connected(s) \/ Demote(s) \/ CheckRestored(s) \/ Restore(s)
  PROVE  ReadyInv'
<1> USE DEF Present, MarkedReady
<1>0. UNCHANGED <<record, released, faults>>
  BY DEF Connected, Demote, CheckRestored, Restore
<1>1. ReadinessTypes'
  BY <1>0 DEF Connected, Demote, CheckRestored, Restore, SetReady, ReadyInv,
              ReadinessTypes
<1>2. CASE Connected(s)
  <2>1. Lands(s, "ready") /\ At(s) = "initialized"
    BY <1>2, Landings DEF Connected, States, Setup
  <2>2. ready' = TRUE /\ sweep'.valid = FALSE
    BY <1>2 DEF Connected, SetReady, ReadyInv, ReadinessTypes
  <2>3. ReadinessKept'
    BY <1>0, <2>1, <2>2 DEF ReadyInv, ReadinessKept, Lands, At
  <2> QED
    BY <1>1, <2>3 DEF ReadyInv
<1>3. CASE Demote(s)
  <2>1. Lands(s, "restoring") /\ At(s) = "lapsed"
    BY <1>3, Landings DEF Demote, States, Cleanup, Demotion
  <2>2. sweep'.valid => sweep' = sweep
    BY <1>3 DEF Demote, SetReady, ReadyInv, ReadinessTypes
  <2>3. ReadinessKept'
    BY <1>0, <2>1, <2>2 DEF ReadyInv, ReadinessKept, Lands, At
  <2> QED
    BY <1>1, <2>3 DEF ReadyInv
<1>4. CASE CheckRestored(s)
  <2>1. /\ UNCHANGED <<ready, sweep>>
        /\ At(s) = "restoring"
        /\ \/ record.fresh /\ Lands(s, "restore")
           \/ ~record.fresh /\ Lands(s, "ended")
    <3>1. /\ UNCHANGED <<ready, sweep>>
          /\ At(s) = "restoring"
          /\ IF record.fresh THEN Goes(s, "restore") ELSE Ends(s)
      BY <1>4 DEF CheckRestored
    <3>2. Goes(s, "restore") => Lands(s, "restore")
      BY Landings DEF States, Cleanup, Demotion
    <3>3. Ends(s) => Lands(s, "ended")
      BY Landings
    <3> QED
      BY <3>1, <3>2, <3>3, Zenon
  <2>2. ReadinessKept'
    BY <1>0, <2>1 DEF ReadyInv, ReadinessKept, Lands, At
  <2> QED
    BY <1>1, <2>2 DEF ReadyInv
<1>5. CASE Restore(s)
  <2>1. Lands(s, "ended") /\ At(s) = "restore"
    BY <1>5, Landings DEF Restore
  <2>2. ready' = TRUE /\ sweep'.valid = FALSE
    BY <1>5 DEF Restore, SetReady, ReadyInv, ReadinessTypes
  <2>3. ReadinessKept'
    BY <1>0, <2>1, <2>2 DEF ReadyInv, ReadinessKept, Lands, At
  <2> QED
    BY <1>1, <2>3 DEF ReadyInv
<1> QED
  BY <1>2, <1>3, <1>4, <1>5

\* A snapshot that saw no owner, and a record that lapses for want of one.
LEMMA SweepReady ==
  ASSUME RecordInv, ReadyInv,
         (\E r \in Replica : BeginSweep(r)) \/ Sweeps \/ ExpireAbandoned
  PROVE  ReadyInv'
<1> USE DEF ReadyInv, ReadinessTypes, ReadinessKept, At
<1>1. ASSUME NEW r \in Replica, BeginSweep(r)
      PROVE  ReadyInv'
  <2>1. /\ UNCHANGED <<record, session, ready, released, faults>>
        /\ sweep' \in [on : Replica \cup {NoReplica},
                       at : {"idle", "checking", "writing"},
                       connected : BOOLEAN, valid : BOOLEAN]
        /\ ~(sweep'.at = "writing" /\ ~sweep'.connected)
    BY <1>1 DEF BeginSweep
  <2> QED
    BY <2>1
<1>2. CASE SweepOwner
  <2>1. /\ UNCHANGED <<record, session, ready, released, faults>>
        /\ sweep' \in [on : Replica \cup {NoReplica},
                       at : {"idle", "checking", "writing"},
                       connected : BOOLEAN, valid : BOOLEAN]
        /\ sweep'.connected = record.fresh
    BY <1>2 DEF SweepOwner, RecordInv, SessionTypes
  <2> QED
    BY <2>1 DEF Present, MarkedReady
<1>3. CASE SweepWrite
  <2>1. /\ UNCHANGED <<record, session, released, faults>>
        /\ sweep' = NoSweep /\ sweep.at = "writing"
        /\ ready' = ready \/ (sweep.valid /\ ready' = sweep.connected)
    <3>1. /\ UNCHANGED <<record, session, released, faults>>
          /\ sweep' = NoSweep /\ sweep.at = "writing"
          /\ ready' = IF sweep.valid THEN sweep.connected ELSE ready
      BY <1>3 DEF SweepWrite
    <3> QED
      BY <3>1, Zenon
  <2> QED
    BY <2>1 DEF NoSweep
<1>4. CASE ExpireAbandoned
  <2>1. /\ UNCHANGED <<session, ready, sweep, released, faults>>
        /\ record'.session = record.session
        /\ At(record.session) \in Cleanup \cup {"ended"}
    BY <1>4 DEF ExpireAbandoned, RecordInv, SessionTypes
  <2> QED
    BY <2>1 DEF Present, MarkedReady, Cleanup, Releasing, Demotion
<1> QED
  BY <1>1, <1>2, <1>3, <1>4 DEF Sweeps

\* Failures end what readiness promises.
LEMMA FailuresReady ==
  ASSUME RecordInv, ReadyInv,
         \/ \E s \in Session : SessionFault(s)
         \/ \E r \in Replica : Crash(r)
         \/ ExpireStalled
  PROVE  ReadyInv'
<1>1. NoSweep \in [on : Replica \cup {NoReplica}, at : {"idle", "checking", "writing"},
                   connected : BOOLEAN, valid : BOOLEAN]
  BY DEF NoSweep
<1> QED
  BY <1>1, FaultReady
  DEF SessionFault, InitializeFails, ConnectedFails, RenewUnanswered, StepFails,
      Crash, ExpireStalled, ReadyInv, ReadinessTypes

\* Every step keeps the readiness invariant.
LEMMA NextReady ==
  ASSUME RecordInv, ReadyInv, [Next]_vars
  PROVE  ReadyInv'
<1>1. ASSUME UNCHANGED <<record, session, ready, sweep, released, faults>>
      PROVE  ReadyInv'
  BY <1>1 DEF ReadyInv, ReadinessTypes, ReadinessKept, At
<1>2. ASSUME NEW s \in Session, Close(s) \/ Proceed(s) \/ RenewReplaced(s)
      PROVE  ReadyInv'
  BY <1>2, SetupReady, PublishReady, RenewReady, ReleaseReady, MarksReady
  DEF Proceed, CloseShutdown
<1>3. /\ \A s \in MayFail : s \in Session
      /\ \A r \in MayShutdown : r \in Replica
  BY SessionsAssumption DEF Session
<1>4. ASSUME NEW r \in MayShutdown, Shutdown(r)
      PROVE  ReadyInv'
  BY <1>1, <1>4 DEF Shutdown
<1>5. ASSUME Advance \/ UNCHANGED vars
      PROVE  ReadyInv'
  BY <1>1, <1>5 DEF Advance, vars
<1> QED
  BY <1>2, <1>3, <1>4, <1>5, ConnectReady, SweepReady, FailuresReady DEF Next

\* supervisor_session_disconnected, reconcile_snapshot_sandbox: while nothing
\* fails, a sandbox whose owner is served is Ready, but for demotions and
\* snapshots under way.
THEOREM OwnersReady == Spec => []OwnedIsReady
<1>1. Init => RecordInv /\ ReadyInv
  <2>1. ASSUME Init
        PROVE  ReadyInv
    <3>1. ready \in BOOLEAN
      BY <2>1, Zenon DEF Init
    <3>2. NoSweep \in [on : Replica \cup {NoReplica}, at : {"idle", "checking", "writing"},
                       connected : BOOLEAN, valid : BOOLEAN]
      BY DEF NoSweep
    <3> QED
      BY <2>1, <3>1, <3>2
      DEF Init, ReadyInv, ReadinessTypes, ReadinessKept, NoRecord, NoSession, Session
  <2> QED
    BY <2>1, InitRecord
<1>2. RecordInv /\ ReadyInv /\ [Next]_vars => RecordInv' /\ ReadyInv'
  BY NextRecord, NextReady
<1>3. RecordInv /\ ReadyInv => OwnedIsReady
  BY DEF ReadyInv, ReadinessKept, OwnedIsReady, Serves, MarkedReady, Demotion
<1> QED
  BY <1>1, <1>2, <1>3, PTL DEF Spec

=============================================================================
