-------------------------- MODULE SupervisorSessions --------------------------
(***************************************************************************)
(* The supervisor sessions of one sandbox.  A supervisor connects to some   *)
(* gateway replica, which publishes an owner record for all replicas to     *)
(* see, registers the session in its memory, marks the sandbox Ready and    *)
(* serves the stream until it ends; then it takes all of this back.  A      *)
(* reconnect, or a later ownership term, replaces a session while the       *)
(* earlier one is still being set up, served or cleaned up, often on        *)
(* another replica.  Record, registries and the sandbox's phase are three   *)
(* places that no lock spans: lock_sandbox_local covers one replica.        *)
(*                                                                          *)
(* A read of the sandbox row with the compare-and-swap loop that follows it *)
(* is one step.  The sandbox is running, its driver reports no readiness of *)
(* its own and its configuration is admitted: stops, deletions and pushed   *)
(* configuration, which hold Ready back for other reasons, are left out.    *)
(***************************************************************************)
EXTENDS Integers, FiniteSets, ObjectStore

CONSTANTS
    Replica,
    Instance,         \* supervisor processes
    NoReplica,
    PublishAttempts,  \* PUBLISH_ATTEMPTS
    MaxSession,       \* bound: connections that are made
    MaxTerm,          \* bound: ownership terms
    MaxVersion,       \* bound: renewals of a fresh record go up to it
    MaxFault,         \* bound: crashes, failed steps, lost replies, stalls
    MayConnect,       \* bound: which process connects to which replica
    MayFail,          \* bound: sessions with failed steps
    MayShutdown       \* bound: replicas that may shut down or crash

ASSUME SessionsAssumption ==
    /\ NoReplica \notin Replica
    /\ PublishAttempts \in Nat \ {0}
    /\ {MaxSession, MaxTerm, MaxVersion, MaxFault} \subseteq Nat
    /\ MayShutdown \subseteq Replica
    /\ MayFail \subseteq 1..MaxSession
    /\ MayConnect \subseteq (1..MaxSession) \X Replica \X Instance

\* Sessions are numbered as they connect, which is also the order of the
\* connection epochs of one supervisor.
Session == 1..MaxSession
NoSession == 0

VARIABLES
    term,      \* the sandbox's credential epoch
    record,    \* the owner record
    registry,  \* SupervisorSessionRegistry.sessions of each replica
    session,   \* the setup, serving and cleanup of each session
    ready,     \* the sandbox's phase is Ready
    sweep,     \* the driver snapshot being applied
    closing,   \* replicas that shut down
    released,  \* history: versions started again under a session that goes by one
    faults

vars == <<term, record, registry, session, ready, sweep, closing, released,
          faults>>

NoRecord == [version |-> 0, session |-> NoSession, fresh |-> FALSE]
NoSweep == [on |-> NoReplica, at |-> "idle", connected |-> FALSE, valid |-> FALSE]

Setup == {"reading", "writing", "published", "registered", "initialized", "ready"}
Releasing == {"releasing", "deleting"}
Demotion == {"checking", "lapsed", "restoring", "restore"}
Cleanup == Releasing \cup {"demoting"} \cup Demotion

(***************************************************************************)
(* One session: its replica, supervisor process and term, the attempts at   *)
(* publishing, the version of the record it goes by, 0 when it goes by      *)
(* none, and whether its end demotes the sandbox.                           *)
(***************************************************************************)
SessionState ==
    [at : Setup \cup Cleanup \cup {"idle", "redirecting", "live", "ended"},
     on : Replica \cup {NoReplica}, by : Instance \cup {NoReplica}, term : Nat,
     tries : Nat, version : Nat, demotes : BOOLEAN]

Idle == [at |-> "idle", on |-> NoReplica, by |-> NoReplica, term |-> 0,
         tries |-> 0, version |-> 0, demotes |-> FALSE]

\* Types, and the record's owner exists exactly if the record does.
TypeOK ==
    /\ term \in 1..MaxTerm
    /\ record \in [version : Nat, session : Session \cup {NoSession},
                   fresh : BOOLEAN]
    /\ record.version = 0 <=> record.session = NoSession
    /\ registry \in [Replica -> Session \cup {NoSession}]
    /\ session \in [Session -> SessionState]
    /\ ready \in BOOLEAN
    /\ sweep \in [on : Replica \cup {NoReplica}, at : {"idle", "checking", "writing"},
                  connected : BOOLEAN, valid : BOOLEAN]
    /\ closing \subseteq MayShutdown
    /\ released \in BOOLEAN
    /\ faults \in 0..MaxFault

Init ==
    /\ term = 1
    /\ record = NoRecord
    /\ registry = [r \in Replica |-> NoSession]
    /\ session = [s \in Session |-> Idle]
    /\ ready = FALSE
    /\ sweep = NoSweep
    /\ closing = {}
    /\ released = FALSE
    /\ faults = 0

At(s) == session[s].at
On(s) == session[s].on
Goes(s, at) == session' = [session EXCEPT ![s].at = at]
Current(s) == registry[On(s)] = s
Fault == faults < MaxFault /\ faults' = faults + 1

\* Of a session that ended nothing remains but its record.
Ended(s) ==
    IF record.session = s
    THEN [session[s] EXCEPT !.at = "ended", !.version = 0, !.demotes = FALSE]
    ELSE [Idle EXCEPT !.at = "ended"]
Ends(s) == session' = [session EXCEPT ![s] = Ended(s)]

\* lock_sandbox_local is held by demotions and by the reconciliation.
Free(r) == sweep.on # r /\ \A s \in Session : On(s) = r => At(s) \notin Demotion

-------------------------------------------------------------------------------
(* The owner record.                                                        *)

\* Mutant: the terms are not compared.
CanSupersedeAnyTerm(s, by, epoch) ==
    LET owner == session[record.session] IN
    ~record.fresh \/ by # owner.by \/ s > record.session

CanSupersede(s, by, epoch) ==
    LET owner == session[record.session] IN
    \/ ~record.fresh
    \/ epoch > owner.term
    \/ epoch = owner.term /\ by = owner.by /\ s > record.session

\* The record under its next version, written by s.
Written(s) ==
    [version |-> NextVersion(record.version), session |-> s, fresh |-> TRUE]

\* Takeovers and starts of a new generation.
Advance ==
    /\ term < MaxTerm
    /\ term' = term + 1
    /\ UNCHANGED <<record, registry, session, ready, sweep, closing, released,
                   faults>>

\* OWNER_TTL passes without a renewal, once nobody renews ...
ExpireAbandoned ==
    /\ record.fresh
    /\ At(record.session) \in Cleanup \cup {"ended"}
    /\ record' = [record EXCEPT !.fresh = FALSE]
    /\ UNCHANGED <<term, registry, session, ready, sweep, closing, released,
                   faults>>

\* ... or while the owner stalls.
ExpireStalled ==
    /\ Fault
    /\ record.fresh
    /\ record.session \in MayFail
    /\ At(record.session) \in Setup \cup {"live"}
    /\ record' = [record EXCEPT !.fresh = FALSE]
    /\ UNCHANGED <<term, registry, session, ready, sweep, closing, released>>

-------------------------------------------------------------------------------
(* handle_connect_supervisor.                                               *)

Connects(s) ==
    /\ At(s) = "idle"
    /\ s > 1 => At(s - 1) # "idle"

Arrived(s, r, by, at) ==
    session' = [session EXCEPT
        ![s] = [Idle EXCEPT !.at = at, !.on = r, !.by = by, !.term = term]]

\* track_session refuses a session once the gateway shuts down.
Connect(s, r, by) ==
    /\ Connects(s)
    /\ IF r \in closing THEN Ends(s) ELSE Arrived(s, r, by, "reading")
    /\ UNCHANGED <<term, record, registry, ready, sweep, closing, released,
                   faults>>

\* The ring prefers another replica, where the supervisor will connect anew.
\* The session it replaces here is told to close.
Redirect(s, r, by) ==
    /\ Connects(s)
    /\ IF registry[r] # NoSession /\ CanSupersede(s, by, term)
       THEN Arrived(s, r, by, "redirecting") ELSE Ends(s)
    /\ UNCHANGED <<term, record, registry, ready, sweep, closing, released,
                   faults>>

\* disconnect: whichever session is registered by now.
Disconnect(s) ==
    /\ At(s) = "redirecting"
    /\ registry' = [registry EXCEPT ![On(s)] = NoSession]
    /\ Ends(s)
    /\ UNCHANGED <<term, record, ready, sweep, closing, released, faults>>

-------------------------------------------------------------------------------
(* accept_supervisor_session.                                               *)

\* publish_term reads the record, and refuses if it does not yield.
ReadOwner(s) ==
    /\ At(s) = "reading"
    /\ IF CanSupersede(s, session[s].by, session[s].term)
       THEN session' = [session EXCEPT ![s] =
               [@ EXCEPT !.at = "writing", !.tries = session[s].tries + 1,
                         !.version = record.version]]
       ELSE Ends(s)
    /\ UNCHANGED <<term, record, registry, ready, sweep, closing, released,
                   faults>>

\* A record changed since is read again; one created since is someone's.
Publish(s) ==
    /\ At(s) = "writing"
    /\ IF SameVersion(record.version, session[s].version) 
       THEN /\ record' = Written(s)
            /\ session' = [session EXCEPT ![s] =
                  [@ EXCEPT !.at = "published", !.tries = 0,
                            !.version = record'.version]]
       ELSE /\ IF session[s].version # 0 /\ session[s].tries < PublishAttempts
               THEN session' = [session EXCEPT ![s] =
                       [@ EXCEPT !.at = "reading", !.version = 0]]
               ELSE Ends(s)
            /\ UNCHANGED record
    /\ UNCHANGED <<term, registry, ready, sweep, closing, released, faults>>

\* remove_if_current, before the record is released and, if due, the sandbox
\* demoted.
Leave(s, demotes) ==
    /\ registry' = IF Current(s) THEN [registry EXCEPT ![On(s)] = NoSession]
                   ELSE registry
    /\ session' = [session EXCEPT ![s] =
          [@ EXCEPT !.at = "releasing", !.version = 0, !.demotes = demotes]]

\* register_term: a session of a later term keeps the sandbox; any other is
\* replaced and told to close.
Register(s) ==
    LET registered == registry[On(s)] IN
    /\ At(s) = "published"
    /\ IF registered # NoSession /\ session[s].term < session[registered].term
       THEN Leave(s, TRUE)
       ELSE /\ registry' = [registry EXCEPT ![On(s)] = s]
            /\ Goes(s, "registered")
    /\ UNCHANGED <<term, record, ready, sweep, closing, released, faults>>

\* The session gets authority over endpoint status, then over provider
\* readiness.  A session that was replaced is refused either, and abandons
\* its setup without a demotion or with one.
Initialize(s) ==
    /\ At(s) = "registered"
    /\ \/ Current(s) /\ Goes(s, "initialized") /\ UNCHANGED registry
       \/ ~Current(s) /\ \E demotes \in BOOLEAN : Leave(s, demotes)
    /\ UNCHANGED <<term, record, ready, sweep, closing, released, faults>>

\* The reset of the endpoint status fails.
InitializeFails(s) ==
    /\ Fault
    /\ At(s) = "registered"
    /\ Leave(s, Current(s))
    /\ UNCHANGED <<term, record, ready, sweep, closing, released>>

\* A write of the sandbox row, which voids a snapshot that read it before.
SetReady(value) ==
    /\ ready' = value
    /\ sweep' = [sweep EXCEPT !.valid = FALSE]

\* supervisor_session_connected.
Connected(s) ==
    /\ At(s) = "initialized"
    /\ Free(On(s))
    /\ SetReady(TRUE)
    /\ Goes(s, "ready")
    /\ UNCHANGED <<term, record, registry, closing, released, faults>>

ConnectedFails(s) ==
    /\ Fault
    /\ At(s) = "initialized"
    /\ Leave(s, TRUE)
    /\ UNCHANGED <<term, record, ready, sweep, closing, released>>

\* SessionAccepted is sent, or the supervisor is gone.
Accept(s) ==
    /\ At(s) = "ready"
    /\ \/ Goes(s, "live") /\ UNCHANGED registry
       \/ Leave(s, TRUE)
    /\ UNCHANGED <<term, record, ready, sweep, closing, released, faults>>

-------------------------------------------------------------------------------
(* run_session_loop and finish_supervisor_session.  A session that is still *)
(* registered demotes the sandbox.  Its wait for a replacement, when it was *)
(* redirected by a gateway that shuts down, delays its release.             *)

Finish(s) == Leave(s, Current(s))

\* The stream ends, or the gateway closes it.
Close(s) ==
    /\ At(s) = "live"
    /\ Finish(s)
    /\ UNCHANGED <<term, record, ready, sweep, closing, released, faults>>

CloseShutdown(s) == On(s) \in closing /\ Close(s)

\* Mutant: the renewal does not depend on the guard's version.
RenewOver(s) ==
    /\ At(s) = "live"
    /\ record.session = s /\ record.fresh => record.version < MaxVersion
    /\ record' = Written(s)
    /\ session' = [session EXCEPT ![s].version = record'.version]
    /\ UNCHANGED <<term, registry, ready, sweep, closing, released, faults>>

\* A heartbeat of a session that is registered renews the record; without it,
\* or without the record, the session closes.
Renew(s) ==
    /\ At(s) = "live"
    /\ IF Current(s) /\ SameVersion(record.version, session[s].version)
       THEN /\ record.session = s /\ record.fresh => record.version < MaxVersion
            /\ record' = Written(s)
            /\ session' = [session EXCEPT ![s].version = record'.version]
            /\ UNCHANGED registry
       ELSE Finish(s) /\ UNCHANGED record
    /\ UNCHANGED <<term, ready, sweep, closing, released, faults>>

\* The session is replaced here between its look at the registry and the write.
RenewReplaced(s) ==
    /\ At(s) = "live"
    /\ ~Current(s) /\ SameVersion(record.version, session[s].version)
    /\ record.session = s /\ record.fresh => record.version < MaxVersion
    /\ record' = Written(s)
    /\ session' = [session EXCEPT ![s].version = record'.version]
    /\ UNCHANGED <<term, registry, ready, sweep, closing, released, faults>>

\* The renewal is applied and its reply lost: the guard is void.  The session
\* may have been replaced here meanwhile.
RenewUnanswered(s) ==
    /\ Fault
    /\ At(s) = "live"
    /\ SameVersion(record.version, session[s].version)
    /\ record' = Written(s)
    /\ UNCHANGED <<term, registry, session, ready, sweep, closing, released>>

AfterRelease(s) ==
    IF session[s].demotes
    THEN session' = [session EXCEPT ![s] =
            [@ EXCEPT !.at = "demoting", !.version = 0]]
    ELSE Ends(s)

\* release_if_current reads the record and deletes it at the version read.
Release(s) ==
    /\ At(s) = "releasing"
    /\ IF record.session = s
       THEN session' = [session EXCEPT ![s] =
               [@ EXCEPT !.at = "deleting", !.version = record.version]]
       ELSE AfterRelease(s)
    /\ UNCHANGED <<term, record, registry, ready, sweep, closing, released,
                   faults>>

Delete(s) ==
    /\ At(s) = "deleting"
    /\ IF SameVersion(record.version, session[s].version)
       THEN /\ record' = NoRecord
            /\ released' = (released \/ \E x \in Session \ {s} : session[x].version # 0)
       ELSE UNCHANGED <<record, released>>
    /\ AfterRelease(s)
    /\ UNCHANGED <<term, registry, ready, sweep, closing, faults>>

-------------------------------------------------------------------------------
(* supervisor_session_disconnected.                                         *)

\* Under the local lock, a session registered here ends the demotion.
BeginDemotion(s) ==
    /\ At(s) = "demoting"
    /\ Free(On(s))
    /\ IF registry[On(s)] # NoSession THEN Ends(s) ELSE Goes(s, "checking")
    /\ UNCHANGED <<term, record, registry, ready, sweep, closing, released,
                   faults>>

\* So does a fresh owner anywhere.
CheckOwner(s) ==
    /\ At(s) = "checking"
    /\ IF record.fresh THEN Ends(s) ELSE Goes(s, "lapsed")
    /\ UNCHANGED <<term, record, registry, ready, sweep, closing, released,
                   faults>>

Demote(s) ==
    /\ At(s) = "lapsed"
    /\ IF ready THEN SetReady(FALSE) ELSE UNCHANGED <<ready, sweep>>
    /\ Goes(s, "restoring")
    /\ UNCHANGED <<term, record, registry, closing, released, faults>>

\* Mutant: ownership is not looked at again.
NotRestored(s) ==
    /\ At(s) = "restoring"
    /\ Ends(s)
    /\ UNCHANGED <<term, record, registry, ready, sweep, closing, released,
                   faults>>

\* Ownership may have moved meanwhile: Ready is restored for the new owner.
CheckRestored(s) ==
    /\ At(s) = "restoring"
    /\ IF record.fresh THEN Goes(s, "restore") ELSE Ends(s)
    /\ UNCHANGED <<term, record, registry, ready, sweep, closing, released,
                   faults>>

Restore(s) ==
    /\ At(s) = "restore"
    /\ SetReady(TRUE)
    /\ Ends(s)
    /\ UNCHANGED <<term, record, registry, closing, released, faults>>

\* The store fails a publication, a release or a demotion.
StepFails(s) ==
    /\ Fault
    /\ \/ At(s) \in {"redirecting", "reading", "writing"} \cup Demotion /\ Ends(s)
       \/ At(s) \in Releasing /\ AfterRelease(s)
    /\ UNCHANGED <<term, record, registry, ready, sweep, closing, released>>

-------------------------------------------------------------------------------
(* reconcile_snapshot_sandbox: a driver snapshot of the running sandbox is   *)
(* composed with the presence of a session, under the local lock.            *)

BeginSweep(r) ==
    LET registered == registry[r] # NoSession IN
    /\ sweep = NoSweep
    /\ r \notin closing
    /\ Free(r)
    /\ sweep' = [on |-> r, at |-> IF registered THEN "writing" ELSE "checking",
                 connected |-> registered, valid |-> TRUE]
    /\ UNCHANGED <<term, record, registry, session, ready, closing, released,
                   faults>>

\* Mutant: a record counts although it is stale.
SweepAnyOwner ==
    /\ sweep.at = "checking"
    /\ sweep' = [sweep EXCEPT !.at = "writing", !.connected = record.version # 0]
    /\ UNCHANGED <<term, record, registry, session, ready, closing, released,
                   faults>>

SweepOwner ==
    /\ sweep.at = "checking"
    /\ sweep' = [sweep EXCEPT !.at = "writing", !.connected = record.fresh]
    /\ UNCHANGED <<term, record, registry, session, ready, closing, released,
                   faults>>

\* One attempt at the version read in the beginning.
SweepWrite ==
    /\ sweep.at = "writing"
    /\ ready' = IF sweep.valid THEN sweep.connected ELSE ready
    /\ sweep' = NoSweep
    /\ UNCHANGED <<term, record, registry, session, closing, released, faults>>

-------------------------------------------------------------------------------
Shutdown(r) ==
    /\ r \notin closing
    /\ closing' = closing \cup {r}
    /\ UNCHANGED <<term, record, registry, session, ready, sweep, released, faults>>

\* The replica's process is replaced, with what it had in memory.
Crash(r) ==
    /\ Fault
    /\ registry' = [registry EXCEPT ![r] = NoSession]
    /\ session' = [s \in Session |-> IF On(s) = r THEN Ended(s) ELSE session[s]]
    /\ sweep' = IF sweep.on = r THEN NoSweep ELSE sweep
    /\ UNCHANGED <<term, record, ready, closing, released>>

\* Steps a session's own task takes.
Proceed(s) ==
    \/ Disconnect(s) \/ ReadOwner(s) \/ Publish(s) \/ Register(s) \/ Initialize(s)
    \/ Connected(s) \/ Accept(s) \/ Renew(s) \/ CloseShutdown(s)
    \/ Release(s) \/ Delete(s) \/ BeginDemotion(s) \/ CheckOwner(s) \/ Demote(s)
    \/ CheckRestored(s) \/ Restore(s)

SessionFault(s) ==
    InitializeFails(s) \/ ConnectedFails(s) \/ RenewUnanswered(s) \/ StepFails(s)

Sweeps == SweepOwner \/ SweepWrite

Next ==
    \/ \E s \in Session, r \in Replica, by \in Instance :
          <<s, r, by>> \in MayConnect /\ (Connect(s, r, by) \/ Redirect(s, r, by))
    \/ \E s \in Session : Close(s) \/ Proceed(s) \/ RenewReplaced(s)
    \/ \E s \in MayFail : SessionFault(s)
    \/ \E r \in Replica : BeginSweep(r)
    \/ \E r \in MayShutdown : Shutdown(r) \/ Crash(r)
    \/ Sweeps \/ Advance \/ ExpireAbandoned \/ ExpireStalled

Spec == Init /\ [][Next]_vars

(***************************************************************************)
(* A session's task goes on, a supervisor that stays sends heartbeats, a    *)
(* replaced session is told so, the reconciliation runs again and again on  *)
(* some replica, and a record that nobody renews ages.  No supervisor has   *)
(* to connect or to leave.                                                  *)
(***************************************************************************)
Fairness ==
    /\ \A s \in Session : /\ WF_vars(Proceed(s))
                          /\ SF_vars(Connected(s) \/ BeginDemotion(s))
    /\ WF_vars(\E r \in Replica : BeginSweep(r))
    /\ WF_vars(Sweeps)
    /\ WF_vars(ExpireAbandoned)

FairSpec == Spec /\ Fairness

-------------------------------------------------------------------------------
(* Properties                                                               *)

Serves(s) == At(s) = "live"

\* renew, release_if_current: a session renews or deletes no record but its
\* own, however long it stalled, unless the record was deleted and created
\* again meanwhile, at the version the session goes by.
OnlyOwnRecord ==
    [][\A s \in Session :
          /\ ~released
          /\ \/ Serves(s) /\ record' # record /\ record'.session = s
             \/ At(s) = "deleting" /\ record' = NoRecord /\ session'[s] # session[s]
          => record.session \in {s, NoSession}]_vars

\* can_supersede: a fresh record yields to no earlier term, although sessions
\* replace it that read it while it was stale or another's; with the same
\* exception.
LaterTermKept ==
    [][record.fresh /\ ~released /\ record'.session # NoSession
          => session'[record'.session].term >= session[record.session].term]_vars

\* supervisor_session_disconnected: while nothing fails, a sandbox whose owner
\* is served is Ready, except while a demotion or a snapshot is under way: the
\* cleanup of an earlier session on another replica, which saw no owner, takes
\* back the demotion it did too late.  The exception is the same: a session
\* that renews another's record is served already when it becomes the owner.
OwnedIsReady ==
    (/\ faults = 0 /\ ~released
     /\ sweep = NoSweep /\ \A s \in Session : At(s) \notin Demotion)
        => \A s \in Session :
              Serves(s) /\ record.session = s /\ record.fresh => ready

\* Once connections and failures end, at most one session is served, and the
\* sandbox is Ready exactly if one is: replaced sessions notice, and what a
\* crash or a race of cleanups left behind is swept.
ReadinessSettles ==
    <>[](/\ Cardinality({s \in Session : Serves(s)}) <= 1
         /\ ready <=> \E s \in Session : Serves(s))
=============================================================================
