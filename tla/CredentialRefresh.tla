-------------------------- MODULE CredentialRefresh --------------------------
(***************************************************************************)
(* The refresh of one provider credential.  The refresh row names the grant *)
(* (a handle of material in the credential driver) that is presented to the *)
(* issuer for a new access token; the issuer may rotate the grant with it.  *)
(* Workers on several replicas refresh when the credential is due or on     *)
(* request, under a lock of the credential; an operator may reconfigure or  *)
(* delete the refresh at any time without that lock, and the sweep of some  *)
(* replica finishes deletions.  All of them meet in the row's version.      *)
(*                                                                          *)
(* Every grant has a handle of its own, so a handle stands for its grant.   *)
(* A worker stands for a replica: its process-local lock and its executors  *)
(* admit one refresh of the credential at a time.                           *)
(***************************************************************************)
EXTENDS Integers, FiniteSets

CONSTANTS
    Worker,        \* replicas that refresh
    Operator,      \* requests that configure or delete
    Sweeper,       \* the operator that stands for the sweep
    NoRow, NoWorker,
    Automatic, Explicit, Cleaning,  \* bounds: the workers that meet each trigger
    MayLoseLock,   \* bound: the workers whose lock session may be lost
    MaxAttempt,    \* bound on refreshes and cleanups begun
    MaxChange,     \* bound on configurations and deletions begun
    MaxFault       \* bound on crashes, failed calls, lost sessions and replies

ASSUME RefreshAssumption ==
    /\ Sweeper \in Operator
    /\ NoWorker \notin Worker
    /\ Automatic \cup Explicit \cup Cleaning \cup MayLoseLock \subseteq Worker
    /\ MaxAttempt \in Nat /\ MaxChange \in Nat /\ MaxFault \in Nat

VARIABLES
    row,        \* the refresh row
    stored,     \* handles with material in the credential driver
    provider,   \* the epoch whose minted credential the provider holds
    lock,       \* the holder of the credential's advisory lock
    worker,     \* what each worker does
    request,    \* what each operator does
    unsettled,  \* grants presented to the issuer whose outcome is unrecorded
    lockLost,   \* history: a worker's lock session was lost
    misled,     \* history: grants of rows stored by a write told as failed
    handles, epochs, attempts, changes, faults

history == <<lockLost, misled>>
counters == <<handles, epochs, attempts, changes, faults>>
vars == <<row, stored, provider, lock, worker, request, unsettled, history,
          counters>>

\* "error" stands for every failure that is tried again after a backoff: also
\* configuration_required and investigation_required.
Status == {"configured", "refresh_in_progress", "refresh_committing",
           "refreshed", "error", "reauthorization_required", "deleting"}
Row == [id : Nat, version : Nat, epoch : Nat, status : Status, grant : Nat,
        pending : SUBSET Nat, mint : Nat, deleting : BOOLEAN]

ASSUME NoRowAssumption == NoRow \notin Row

InFlight(status) == status \in {"refresh_in_progress", "refresh_committing"}

IdleWorker == [at |-> "idle", kind |-> "automatic", seen |-> NoRow,
               state |-> NoRow, result |-> "none"]
IdleRequest == [at |-> "idle", state |-> NoRow, staged |-> 0]

TypeOK ==
    /\ row = NoRow \/ row \in Row
    /\ stored \subseteq 1..handles
    /\ provider \in 0..epochs
    /\ lock \in Worker \cup {NoWorker}
    /\ \A w \in Worker :
          /\ worker[w].at \in {"idle", "waiting", "locked", "checked", "read",
                "swept", "ready", "minting", "minted", "staged", "claimed",
                "applied"}
          /\ worker[w].kind \in {"automatic", "explicit", "cleanup"}
          /\ worker[w].result \in {"none", "rotated", "kept", "error",
                                   "reauthorization_required"}
          /\ worker[w].at \notin {"idle", "waiting", "locked", "checked"} =>
                worker[w].state \in Row
    /\ \A o \in Operator :
          /\ request[o].at \in {"idle", "configuring", "staged", "listed",
                                "deleting", "purging", "removing"}
          /\ request[o].at \in {"deleting", "purging", "removing"} =>
                request[o].state \in Row
    /\ unsettled \subseteq 1..handles
    /\ lockLost \in BOOLEAN
    /\ misled \subseteq 1..handles
    /\ attempts \in 0..MaxAttempt /\ changes \in 0..MaxChange
    /\ faults \in 0..MaxFault

\* The refresh was configured once; what follows a deletion starts anew.
Init ==
    /\ row = [id |-> 1, version |-> 1, epoch |-> 1, status |-> "configured",
              grant |-> 1, pending |-> {}, mint |-> 0, deleting |-> FALSE]
    /\ stored = {1}
    /\ provider = 0
    /\ lock = NoWorker
    /\ worker = [w \in Worker |-> IdleWorker]
    /\ request = [o \in Operator |-> IdleRequest]
    /\ unsettled = {}
    /\ lockLost = FALSE
    /\ misled = {}
    /\ handles = 1 /\ epochs = 1
    /\ attempts = 0 /\ changes = 0 /\ faults = 0

Fault == faults < MaxFault /\ faults' = faults + 1

-------------------------------------------------------------------------------
(* The row is replaced and removed by identity and version.                 *)

\* persist_refresh_state_if_current
Current(state) ==
    /\ row # NoRow
    /\ row.id = state.id
    /\ row.version = state.version

Advanced(state) == [state EXCEPT !.version = state.version + 1]
Live == row # NoRow /\ ~row.deleting
Tombstoned == row # NoRow /\ row.deleting

-------------------------------------------------------------------------------
(* Refreshing.                                                              *)

Goes(w, at) == worker' = [worker EXCEPT ![w].at = at]
Ends(w) ==
    /\ worker' = [worker EXCEPT ![w] = IdleWorker]
    /\ lock' = IF lock = w THEN NoWorker ELSE lock

\* Parked rows are due to nobody.
MayBeDue(status) == status \in {"configured", "refreshed", "error"}

\* The sweep or a reader sees a due credential, an operator asks for a
\* rotation, or the sweep sees material to delete.
Observe(w, kind) ==
    /\ worker[w].at = "idle"
    /\ Live
    /\ kind = "automatic" => w \in Automatic /\ MayBeDue(row.status)
    /\ kind = "explicit" => w \in Explicit
    /\ kind = "cleanup" => w \in Cleaning /\ row.pending # {}
    /\ attempts < MaxAttempt
    /\ attempts' = attempts + 1
    /\ worker' = [worker EXCEPT ![w] =
                     [IdleWorker EXCEPT !.at = "waiting", !.kind = kind,
                        !.seen = [id |-> row.id, epoch |-> row.epoch,
                                  mint |-> row.mint]]]
    /\ UNCHANGED <<row, stored, provider, lock, request, unsettled, history,
                   handles, epochs, changes, faults>>

\* The local lock, an executor and the advisory lock, in this order.
Acquire(w) ==
    /\ worker[w].at = "waiting"
    /\ lock = NoWorker
    /\ lock' = w
    /\ Goes(w, "locked")
    /\ UNCHANGED <<row, stored, provider, request, unsettled, history,
                   counters>>

Superseded(seen) ==
    \/ row = NoRow
    \/ row.id # seen.id \/ row.epoch # seen.epoch
    \/ row.deleting

\* A mint completed since the caller looked satisfies it.
Coalesces(seen) == row.status = "refreshed" /\ row.mint # seen.mint

RefusedWhileSettled(w) ==
    \/ Superseded(worker[w].seen)
    \/ /\ worker[w].kind # "cleanup"
       /\ \/ Coalesces(worker[w].seen)
          \/ /\ worker[w].kind = "automatic"
             /\ row.status = "reauthorization_required"

Refused(w) ==
    \/ Superseded(worker[w].seen)
    \/ /\ worker[w].kind # "cleanup"
       /\ \/ Coalesces(worker[w].seen)
          \/ InFlight(row.status)
          \/ /\ worker[w].kind = "automatic"
             /\ row.status = "reauthorization_required"

\* refresh_from_snapshot_with_trigger and
\* cleanup_pending_secret_deletions_coordinated, under the locks.  A recorded
\* failure may still be in its backoff.
Check(w) ==
    /\ worker[w].at = "locked"
    /\ IF Refused(w)
       THEN Ends(w)
       ELSE \/ /\ worker[w].kind = "automatic" /\ row.status = "error"
               /\ Ends(w)
            \/ /\ worker' = [worker EXCEPT
                     ![w] = IF @.kind = "cleanup"
                            THEN [@ EXCEPT !.at = "read", !.state = row]
                            ELSE [@ EXCEPT !.at = "checked"]]
               /\ UNCHANGED lock
    /\ UNCHANGED <<row, stored, provider, request, unsettled, history,
                   counters>>

\* refresh_provider_credential_locked reads the row again.
Read(w) ==
    /\ worker[w].at = "checked"
    /\ IF Live
       THEN /\ worker' = [worker EXCEPT ![w] = [@ EXCEPT !.at = "read", !.state = row]]
            /\ UNCHANGED lock
       ELSE Ends(w)
    /\ UNCHANGED <<row, stored, provider, request, unsettled, history,
                   counters>>

\* cleanup_pending_secret_deletions: the material goes first, then its mention
\* in the row.  A failure is left to the next sweep.
DeletePending(w) ==
    /\ worker[w].at = "read"
    /\ worker[w].state.pending # {}
    /\ \/ /\ stored' = stored \ worker[w].state.pending
          /\ Goes(w, "swept")
          /\ UNCHANGED faults
       \/ /\ Fault
          /\ Goes(w, "ready")
          /\ UNCHANGED stored
    /\ UNCHANGED <<row, provider, lock, request, unsettled, history, handles,
                   epochs, attempts, changes>>

ClearPending(w) ==
    LET cleaned == [Advanced(worker[w].state) EXCEPT !.pending = {}] IN
    /\ worker[w].at = "swept"
    /\ IF Current(worker[w].state)
       THEN /\ row' = cleaned
            /\ worker' = [worker EXCEPT ![w] =
                  [@ EXCEPT !.at = "ready", !.state = cleaned]]
       ELSE /\ Goes(w, "ready")
            /\ UNCHANGED row
    /\ UNCHANGED <<stored, provider, lock, request, unsettled, history,
                   counters>>

Cleaned(w) ==
    \/ worker[w].at = "ready"
    \/ worker[w].at = "read" /\ worker[w].state.pending = {}

EndCleanup(w) ==
    /\ worker[w].kind = "cleanup"
    /\ Cleaned(w)
    /\ Ends(w)
    /\ UNCHANGED <<row, stored, provider, request, unsettled, history,
                   counters>>

\* The uncertainty is recorded before the issuer is contacted.
Mark(w) ==
    LET marked == [Advanced(worker[w].state) EXCEPT !.status = "refresh_in_progress"]
    IN
    /\ worker[w].kind # "cleanup"
    /\ Cleaned(w)
    /\ IF Current(worker[w].state)
       THEN /\ row' = marked
            /\ worker' = [worker EXCEPT ![w] =
                  [@ EXCEPT !.at = "minting", !.state = marked]]
            /\ UNCHANGED lock
       ELSE /\ Ends(w)
            /\ UNCHANGED row
    /\ UNCHANGED <<stored, provider, request, unsettled, history, counters>>

\* resolve_refresh_material and mint_credential.  The issuer accepts the
\* grant and keeps or rotates it, refuses it, or cannot be reached.
Mint(w) ==
    LET grant == worker[w].state.grant IN
    /\ worker[w].at = "minting"
    /\ IF grant \in stored
       THEN /\ \E result \in {"rotated", "kept", "error",
                              "reauthorization_required"} :
                  worker' = [worker EXCEPT ![w] =
                                [@ EXCEPT !.at = "minted", !.result = result]]
            /\ unsettled' = unsettled \cup {grant}
       ELSE /\ worker' = [worker EXCEPT ![w] =
                             [@ EXCEPT !.at = "minted", !.result = "error"]]
            /\ UNCHANGED unsettled
    /\ UNCHANGED <<row, stored, provider, lock, request, history, counters>>

\* A rotated grant is stored under a handle of its own; when it cannot be,
\* the refresh needs a new authorization.
Stage(w) ==
    LET state == worker[w].state IN
    /\ worker[w].at = "minted"
    /\ worker[w].result = "rotated"
    /\ \/ /\ handles' = handles + 1
          /\ stored' = stored \cup {handles'}
          /\ worker' = [worker EXCEPT ![w] =
                [@ EXCEPT !.at = "staged",
                          !.state = [state EXCEPT !.grant = handles',
                                        !.pending = state.pending \cup {state.grant}]]]
          /\ UNCHANGED faults
       \/ /\ Fault
          /\ worker' = [worker EXCEPT ![w].result = "reauthorization_required"]
          /\ UNCHANGED <<handles, stored>>
    /\ UNCHANGED <<row, provider, lock, request, unsettled, epochs, history,
                   attempts, changes>>

\* persist_refresh_failure_state
Record(state, status) ==
    IF Current(state)
    THEN /\ row' = [Advanced(state) EXCEPT !.status = status]
         /\ unsettled' = unsettled \ ({state.grant} \cup state.pending)
    ELSE UNCHANGED <<row, unsettled>>

RecordFailureNowhere(w) ==
    /\ worker[w].at = "minted"
    /\ worker[w].result \in {"error", "reauthorization_required"}
    /\ Ends(w)
    /\ UNCHANGED <<row, stored, provider, request, unsettled, history,
                   counters>>

RecordFailure(w) ==
    /\ worker[w].at = "minted"
    /\ worker[w].result \in {"error", "reauthorization_required"}
    /\ Record(worker[w].state, worker[w].result)
    /\ Ends(w)
    /\ UNCHANGED <<stored, provider, request, history, counters>>

\* The generation is claimed before the provider is touched; a refresh that
\* lost it discards the rotated grant.
Claim(w) ==
    LET claimed == [Advanced(worker[w].state) EXCEPT !.status = "refresh_committing"]
    IN
    /\ \/ worker[w].at = "staged"
       \/ worker[w].at = "minted" /\ worker[w].result = "kept"
    /\ IF Current(worker[w].state)
       THEN /\ row' = claimed
            /\ worker' = [worker EXCEPT ![w] =
                  [@ EXCEPT !.at = "claimed", !.state = claimed]]
            /\ UNCHANGED <<lock, stored>>
       ELSE /\ stored' = IF worker[w].at = "staged"
                         THEN stored \ {worker[w].state.grant} ELSE stored
            /\ Ends(w)
            /\ UNCHANGED row
    /\ UNCHANGED <<provider, request, unsettled, history, counters>>

\* The database failed: the rotated grant is kept with the failure.
ClaimFails(w) ==
    /\ Fault
    /\ \/ worker[w].at = "staged"
       \/ worker[w].at = "minted" /\ worker[w].result = "kept"
    /\ Record(worker[w].state, "error")
    /\ Ends(w)
    /\ UNCHANGED <<stored, provider, request, history, handles, epochs,
                   attempts, changes>>

\* A configuration holds the workspace's mutation guard.
Configuring == \E o \in Operator : request[o].at \in {"configuring", "staged"}

\* apply_minted_credential and commit, under the workspace's guard.
Apply(w) ==
    /\ worker[w].at = "claimed"
    /\ ~Configuring
    /\ provider' = worker[w].state.epoch
    /\ Goes(w, "applied")
    /\ UNCHANGED <<row, stored, lock, request, unsettled, history, counters>>

ApplyFails(w) ==
    /\ Fault
    /\ worker[w].at = "claimed"
    /\ Record(worker[w].state, "error")
    /\ Ends(w)
    /\ UNCHANGED <<stored, provider, request, history, handles, epochs,
                   attempts, changes>>

\* What is left is the cleanup of the replaced grant.
Complete(w) ==
    LET completed == [Advanced(worker[w].state) EXCEPT
                         !.status = "refreshed", !.mint = worker[w].state.mint + 1]
    IN
    /\ worker[w].at = "applied"
    /\ IF Current(worker[w].state)
       THEN /\ row' = completed
            /\ unsettled' = unsettled \ ({completed.grant} \cup completed.pending)
            /\ worker' = [worker EXCEPT ![w] =
                  [@ EXCEPT !.at = "read", !.state = completed, !.kind = "cleanup"]]
            /\ UNCHANGED lock
       ELSE /\ Ends(w)
            /\ UNCHANGED <<row, unsettled>>
    /\ UNCHANGED <<stored, provider, request, history, counters>>

\* The lock cannot be had in time.
GiveUp(w) ==
    /\ worker[w].at = "waiting"
    /\ Ends(w)
    /\ UNCHANGED <<row, stored, provider, request, unsettled, history,
                   counters>>

\* The replica crashes, or the database fails a write it may have made.
Crash(w) ==
    /\ Fault
    /\ worker[w].at # "idle"
    /\ Ends(w)
    /\ UNCHANGED <<row, stored, provider, request, unsettled, history,
                   handles, epochs, attempts, changes>>

\* The database ends the session that holds the lock; the worker goes on.
LoseLock(w) ==
    /\ w \in MayLoseLock
    /\ Fault
    /\ lock = w
    /\ lock' = NoWorker
    /\ lockLost' = TRUE
    /\ UNCHANGED <<row, stored, provider, worker, request, unsettled, misled,
                   handles, epochs, attempts, changes>>

-------------------------------------------------------------------------------
(* Configuring and deleting.                                                *)

Answers(o) == request' = [request EXCEPT ![o] = IdleRequest]

\* handle_configure_provider_refresh, up to the read of the existing row.
Configure(o) ==
    /\ request[o].at = "idle" /\ o # Sweeper
    /\ ~Configuring
    /\ ~Tombstoned
    /\ changes < MaxChange
    /\ changes' = changes + 1
    /\ request' = [request EXCEPT ![o] =
          [@ EXCEPT !.at = "configuring", !.state = row]]
    /\ UNCHANGED <<row, stored, provider, lock, worker, unsettled, history,
                   handles, epochs, attempts, faults>>

StageConfigured(o) ==
    /\ request[o].at = "configuring"
    /\ handles' = handles + 1
    /\ stored' = stored \cup {handles'}
    /\ request' = [request EXCEPT ![o] =
          [@ EXCEPT !.at = "staged", !.staged = handles']]
    /\ UNCHANGED <<row, provider, lock, worker, unsettled, epochs, history,
                   attempts, changes, faults>>

\* The row it creates, or the one that replaces the row it read: a new
\* generation, with the replaced grant to be deleted.
Configured(o) ==
    LET old == request[o].state IN
    [id |-> IF old = NoRow THEN epochs' ELSE old.id,
     version |-> IF old = NoRow THEN 1 ELSE old.version + 1,
     epoch |-> epochs',
     status |-> "configured",
     grant |-> request[o].staged,
     pending |-> IF old = NoRow THEN {} ELSE old.pending \cup {old.grant},
     mint |-> IF old = NoRow THEN 0 ELSE old.mint,
     deleting |-> FALSE]

UnchangedIdentity(o) ==
    IF request[o].state = NoRow THEN row = NoRow
    ELSE row # NoRow /\ row.id = request[o].state.id

Unchanged(o) ==
    IF request[o].state = NoRow THEN row = NoRow ELSE Current(request[o].state)

\* Whatever the failure, the staged material is deleted: also when the write
\* applied and only its reply was lost.
StoreConfigured(o) ==
    /\ request[o].at = "staged"
    /\ \/ /\ Unchanged(o)
          /\ epochs' = epochs + 1
          /\ row' = Configured(o)
          /\ UNCHANGED <<stored, misled, faults>>
       \/ /\ ~Unchanged(o)
          /\ stored' = stored \ {request[o].staged}
          /\ UNCHANGED <<row, misled, epochs, faults>>
       \/ /\ Fault
          /\ Unchanged(o)
          /\ epochs' = epochs + 1
          /\ row' = Configured(o)
          /\ stored' = stored \ {request[o].staged}
          /\ misled' = misled \cup {request[o].staged}
    /\ Answers(o)
    /\ UNCHANGED <<provider, lock, worker, unsettled, lockLost, handles,
                   attempts, changes>>

\* A deletion takes up the row where it stands.
Found(x) ==
    [x EXCEPT !.state = row, !.at = IF row.deleting THEN "purging" ELSE "deleting"]

\* handle_delete_provider_refresh, up to its read.
Delete(o) ==
    /\ request[o].at = "idle" /\ o # Sweeper
    /\ row # NoRow
    /\ changes < MaxChange
    /\ changes' = changes + 1
    /\ request' = [request EXCEPT ![o] = Found(@)]
    /\ UNCHANGED <<row, stored, provider, lock, worker, unsettled, history,
                   handles, epochs, attempts, faults>>

\* refresh_states: the sweep lists a tombstone, and later looks its name up.
ListTombstone ==
    /\ request[Sweeper].at = "idle"
    /\ Tombstoned
    /\ request' = [request EXCEPT ![Sweeper].at = "listed"]
    /\ UNCHANGED <<row, stored, provider, lock, worker, unsettled, history,
                   counters>>

FindTombstoneHandled ==
    /\ request[Sweeper].at = "listed"
    /\ IF ~Live
       THEN Answers(Sweeper)
       ELSE request' = [request EXCEPT ![Sweeper] =
               [@ EXCEPT !.state = row, !.at = "deleting"]]
    /\ UNCHANGED <<row, stored, provider, lock, worker, unsettled, history,
                   counters>>

FindTombstone ==
    /\ request[Sweeper].at = "listed"
    /\ IF row = NoRow
       THEN Answers(Sweeper)
       ELSE request' = [request EXCEPT ![Sweeper] = Found(@)]
    /\ UNCHANGED <<row, stored, provider, lock, worker, unsettled, history,
                   counters>>

\* delete_observed_refresh_state_with_credentials
Tombstone(o) ==
    LET state == request[o].state
        marked == [Advanced(state) EXCEPT !.epoch = epochs', !.deleting = TRUE,
                                          !.status = "deleting"]
    IN
    /\ request[o].at = "deleting"
    /\ IF Current(state)
       THEN /\ epochs' = epochs + 1
            /\ row' = marked
            /\ request' = [request EXCEPT ![o] =
                  [@ EXCEPT !.at = "purging", !.state = marked]]
       ELSE /\ Answers(o)
            /\ UNCHANGED <<row, epochs>>
    /\ UNCHANGED <<stored, provider, lock, worker, unsettled, history,
                   handles, attempts, changes, faults>>

PurgeUnmarked(o) ==
    /\ request[o].at \in {"deleting", "purging"}
    /\ stored' = stored \ (request[o].state.pending \cup {request[o].state.grant})
    /\ request' = [request EXCEPT ![o].at = "removing"]
    /\ UNCHANGED <<row, provider, lock, worker, unsettled, history, counters>>

Purge(o) ==
    /\ request[o].at = "purging"
    /\ stored' = stored \ (request[o].state.pending \cup {request[o].state.grant})
    /\ request' = [request EXCEPT ![o].at = "removing"]
    /\ UNCHANGED <<row, provider, lock, worker, unsettled, history, counters>>

Remove(o) ==
    /\ request[o].at = "removing"
    /\ row' = IF Current(request[o].state) THEN NoRow ELSE row
    /\ Answers(o)
    /\ UNCHANGED <<stored, provider, lock, worker, unsettled, history,
                   counters>>

\* A crash, or a driver or database that fails.
RequestFails(o) ==
    /\ Fault
    /\ request[o].at # "idle"
    /\ Answers(o)
    /\ UNCHANGED <<row, stored, provider, lock, worker, unsettled, history,
                   handles, epochs, attempts, changes>>

-------------------------------------------------------------------------------
Kind == {"automatic", "explicit", "cleanup"}

Refresh(w) ==
    \/ Acquire(w) \/ Check(w) \/ Read(w) \/ DeletePending(w) \/ ClearPending(w)
    \/ EndCleanup(w) \/ Mark(w) \/ Mint(w) \/ Stage(w) \/ RecordFailure(w)
    \/ Claim(w) \/ Apply(w) \/ Complete(w)

Operate(o) ==
    \/ StageConfigured(o) \/ StoreConfigured(o)
    \/ Tombstone(o) \/ Purge(o) \/ Remove(o)

Next ==
    \/ \E w \in Worker : \/ \E kind \in Kind : Observe(w, kind)
                         \/ Refresh(w) \/ GiveUp(w) \/ ClaimFails(w)
                         \/ ApplyFails(w) \/ Crash(w) \/ LoseLock(w)
    \/ \E o \in Operator : Configure(o) \/ Delete(o) \/ Operate(o) \/ RequestFails(o)
    \/ ListTombstone \/ FindTombstone

Spec == Init /\ [][Next]_vars

(***************************************************************************)
(* A detached refresh runs to its end, requests do, and the sweep runs      *)
(* again and again.  Nobody has to ask for anything.                        *)
(***************************************************************************)
Fairness ==
    /\ \A w \in Worker : WF_vars(Refresh(w))
    /\ \A o \in Operator : WF_vars(Operate(o))
    /\ WF_vars(ListTombstone) /\ WF_vars(FindTombstone)

FairSpec == Spec /\ Fairness

-------------------------------------------------------------------------------
(* Properties                                                               *)

Presents(w) ==
    /\ worker[w].at = "minting" /\ worker'[w].at = "minted"
    /\ worker[w].state.grant \in stored

\* refresh_provider_credential_locked: while lock sessions last, a grant is
\* not presented to the issuer when an earlier presentation of it has no
\* recorded outcome, although its worker may have crashed anywhere in between.
GrantNotReused ==
    [][\A w \in Worker :
          Presents(w) /\ ~lockLost => worker[w].state.grant \notin unsettled]_vars

\* As the comment before the mark has it: "A crashed process or a lost
\* advisory-lock session cannot lead another replica to reuse the grant."
MintedOnce ==
    [][\A w \in Worker : Presents(w) => worker[w].state.grant \notin unsettled]_vars

\* The material of the row's grant is in the credential driver for as long as
\* the row may be refreshed, although replaced grants are deleted by workers
\* and by the sweep, staged ones by whoever loses the row, and deletions by
\* name race with a new configuration.  Excepted is a configuration that was
\* stored and answered with an error, which deletes its own grant.
GrantStored == Live => row.grant \in stored \cup misled

\* A deletion is final: no refresh under way and no configuration brings the
\* row back, whatever they read before.
TombstoneFinal ==
    [][Tombstoned =>
          row' = NoRow \/ (row'.id = row.id /\ row'.deleting)]_vars

\* Unless something failed, a refresh that was begun is decided: the row is
\* not left in flight, which only a new configuration would end.
RefreshesDecided ==
    (row # NoRow /\ InFlight(row.status) /\ faults = 0)
        ~> (row = NoRow \/ ~InFlight(row.status) \/ faults # 0)

\* A tombstone is removed with its material, although the request that made
\* it may have failed halfway.
TombstonesRemoved ==
    Tombstoned ~> ~Tombstoned

\* The sweep deletes no refresh that was configured after the tombstone it
\* listed was gone.
ReplacementPreserved ==
    [][request[Sweeper].at = "deleting" => row' = row \/ ~Current(request[Sweeper].state)]_vars

\* The provider is given no credential minted from an earlier generation.
StaleMintDiscarded ==
    [][provider' # provider => row # NoRow /\ provider' = row.epoch]_vars
=============================================================================
