---------------------------- MODULE MutationLocks ----------------------------
(***************************************************************************)
(* The locks that serialise mutations spanning several objects, within a    *)
(* gateway replica and, on PostgreSQL, across replicas.  An operation takes *)
(* the sandbox's lifecycle gate if its path uses one, then its keys in the  *)
(* process-local table in ascending order, then a connection of the lock    *)
(* pool, and on it the same keys as session-level advisory locks, again in  *)
(* ascending order.  Lifecycle, watch and deadline paths stop after the     *)
(* local keys; a deadline drops its keys before it takes the gate for the   *)
(* work of a lifecycle path, an operation of its own here.  The SSH         *)
(* identity lock is taken last, under everything else.                      *)
(*                                                                          *)
(* Every lock is a fair queue: tokio's RwLock, Mutex and Semaphore, and     *)
(* PostgreSQL's lock table, grant a request once it is compatible with all  *)
(* that came before it.  A waiting acquisition may time out or be           *)
(* cancelled at any point.  Its local locks go at once, its session later:  *)
(* the connection returns to the pool, or closes, in a task of its own, and *)
(* a backend that waits for a lock does not notice a closed socket.         *)
(***************************************************************************)
EXTENDS Integers, FiniteSets

CONSTANTS
    Replica, Workspace, Sandbox,
    Task,          \* requests and background tasks
    ReplicaOf,     \* the replica of each task
    WorkspaceOf,   \* the workspace of each sandbox
    GlobalKey,     \* GLOBAL_MUTATION_LOCK_KEY
    KeyOf,         \* derived_key of each workspace and sandbox
    Slots,         \* connections of a replica's lock pool
    MayDo,         \* bound: the kinds of operation each task may do
    NoOperation

Kind == {"global", "workspace", "sandbox", "create", "lifecycle", "watch",
         "deadline"}

\* avoid_reserved keeps derived keys off the global key; two of them may
\* coincide.
ASSUME LocksAssumption ==
    /\ IsFiniteSet(Task)
    /\ ReplicaOf \in [Task -> Replica]
    /\ WorkspaceOf \in [Sandbox -> Workspace]
    /\ GlobalKey \in Int
    /\ KeyOf \in [Workspace \cup Sandbox -> Int \ {GlobalKey}]
    /\ Workspace \cap Sandbox = {}
    /\ Slots \in Nat \ {0}
    /\ MayDo \in [Task -> SUBSET Kind]

VARIABLES
    at,           \* where each task is
    operation,    \* what it is doing
    lost,         \* the session of a held guard was lost
    gate,         \* LifecycleGateRegistry, by replica and sandbox
    local,        \* LocalMutationLocks, by replica and key
    slot,         \* the lock pool of each replica
    advisory,     \* PostgreSQL's advisory locks, by key
    identity,     \* SshIdentityStore.mutation of each replica
    identityKey   \* SSH_IDENTITY_LOCK_KEY

taskVars == <<at, operation, lost>>
vars == <<taskVars, gate, local, slot, advisory, identity, identityKey>>

Key == {GlobalKey} \cup {KeyOf[x] : x \in Workspace \cup Sandbox}

-------------------------------------------------------------------------------
(* Fair queues.                                                             *)

\* A queue gives each request, waiting or granted, its mode and the requests
\* that came before it.
IsQueue(q) ==
    /\ DOMAIN q \subseteq Task
    /\ \A o \in DOMAIN q :
          q[o] \in [mode : {"shared", "exclusive"}, ahead : SUBSET (DOMAIN q \ {o})]

EmptyQueue == [o \in {} |-> {}]

Join(q, o, m) ==
    [p \in DOMAIN q \cup {o} |->
        IF p = o THEN [mode |-> m, ahead |-> DOMAIN q] ELSE q[p]]

LeaveStayingAhead(q, o) == [p \in DOMAIN q \ {o} |-> q[p]]

Leave(q, o) ==
    [p \in DOMAIN q \ {o} |-> [mode |-> q[p].mode, ahead |-> q[p].ahead \ {o}]]

Granted(q, o) ==
    /\ o \in DOMAIN q
    /\ \A p \in q[o].ahead : q[o].mode = "shared" /\ q[p].mode = "shared"

SlotGranted(q, o) ==
    /\ o \in DOMAIN q
    /\ Cardinality(q[o].ahead) < Slots

-------------------------------------------------------------------------------
(* Operations and their lock sets.                                          *)

SandboxKind == Kind \ {"global", "workspace"}
Operation ==
    {[kind |-> "global", on |-> NoOperation]}
        \cup [kind : {"workspace"}, on : Workspace]
        \cup [kind : SandboxKind, on : Sandbox]

Exclusive(op) == IF op.kind = "global" THEN {GlobalKey} ELSE {KeyOf[op.on]}

SharedGlobalOnly(op) == IF op.kind = "global" THEN {} ELSE {GlobalKey}

Shared(op) ==
    IF op.kind = "global" THEN {}
    ELSE IF op.kind \in {"workspace", "lifecycle", "watch"} THEN {GlobalKey}
    ELSE {GlobalKey, KeyOf[WorkspaceOf[op.on]]}

\* MutationLockSet keeps the strongest mode of a key.
LockMode(op, k) == IF k \in Exclusive(op) THEN "exclusive" ELSE "shared"
Keys(op) == Exclusive(op) \cup Shared(op)

Gated(op) == op.kind \in {"create", "lifecycle"}
Distributed(op) == op.kind \in {"global", "workspace", "sandbox", "create"}
\* Creation prepares the sandbox's SSH identity, deletion cleans it up.
Identifies(op) == op.kind \in {"create", "lifecycle", "watch"}

-------------------------------------------------------------------------------
TypeOK ==
    /\ at \in [Task -> {"idle", "local", "session", "held", "identity",
                        "identified", "finishing"}]
    /\ operation \in [Task -> Operation \cup {NoOperation}]
    /\ lost \in [Task -> BOOLEAN]
    /\ \A r \in Replica :
          /\ \A s \in Sandbox : IsQueue(gate[r][s])
          /\ \A k \in Key : IsQueue(local[r][k])
          /\ IsQueue(slot[r])
          /\ IsQueue(identity[r])
    /\ \A k \in Key : IsQueue(advisory[k])
    /\ IsQueue(identityKey)
    /\ \A t \in Task : at[t] # "idle" => operation[t] \in Operation

Init ==
    /\ at = [t \in Task |-> "idle"]
    /\ operation = [t \in Task |-> NoOperation]
    /\ lost = [t \in Task |-> FALSE]
    /\ gate = [r \in Replica |-> [s \in Sandbox |-> EmptyQueue]]
    /\ local = [r \in Replica |-> [k \in Key |-> EmptyQueue]]
    /\ slot = [r \in Replica |-> EmptyQueue]
    /\ advisory = [k \in Key |-> EmptyQueue]
    /\ identity = [r \in Replica |-> EmptyQueue]
    /\ identityKey = EmptyQueue

-------------------------------------------------------------------------------
\* A task stands for one operation at a time, until the last of its sessions
\* is gone.
Fresh(t) ==
    /\ t \notin DOMAIN slot[ReplicaOf[t]]
    /\ \A k \in Key : t \notin DOMAIN advisory[k]
    /\ t \notin DOMAIN identityKey

Begin(t, op) ==
    LET r == ReplicaOf[t] IN
    /\ at[t] = "idle"
    /\ op.kind \in MayDo[t]
    /\ Fresh(t)
    /\ at' = [at EXCEPT ![t] = "local"]
    /\ operation' = [operation EXCEPT ![t] = op]
    /\ gate' = IF Gated(op)
               THEN [gate EXCEPT ![r][op.on] = Join(@, t, "exclusive")]
               ELSE gate
    /\ UNCHANGED <<lost, local, slot, advisory, identity, identityKey>>

LocalOf(t) == local[ReplicaOf[t]]
Joined(queues, t) ==
    {k \in Keys(operation[t]) : t \in DOMAIN queues[k]}
AllGranted(queues, t) ==
    \A k \in Joined(queues, t) : Granted(queues[k], t)
Complete(queues, t) ==
    /\ Joined(queues, t) = Keys(operation[t])
    /\ AllGranted(queues, t)

\* The keys of a set are taken in ascending order.
IsNext(queues, t, k) ==
    /\ k \in Keys(operation[t]) \ Joined(queues, t)
    /\ \A j \in Keys(operation[t]) \ Joined(queues, t) : k <= j

WaitLocalUngated(t, k) ==
    /\ at[t] = "local"
    /\ AllGranted(LocalOf(t), t)
    /\ IsNext(LocalOf(t), t, k)
    /\ local' = [local EXCEPT ![ReplicaOf[t]][k] =
                    Join(@, t, LockMode(operation[t], k))]
    /\ UNCHANGED <<taskVars, gate, slot, advisory, identity, identityKey>>

\* LocalMutationLocks::acquire
WaitLocal(t, k) ==
    /\ at[t] = "local"
    /\ Gated(operation[t]) =>
          Granted(gate[ReplicaOf[t]][operation[t].on], t)
    /\ AllGranted(LocalOf(t), t)
    /\ IsNext(LocalOf(t), t, k)
    /\ local' = [local EXCEPT ![ReplicaOf[t]][k] =
                    Join(@, t, LockMode(operation[t], k))]
    /\ UNCHANGED <<taskVars, gate, slot, advisory, identity, identityKey>>

HoldLocal(t) ==
    /\ at[t] = "local"
    /\ ~Distributed(operation[t])
    /\ Complete(LocalOf(t), t)
    /\ at' = [at EXCEPT ![t] = "held"]
    /\ UNCHANGED <<operation, lost, gate, local, slot, advisory, identity,
                   identityKey>>

\* acquire_mutation_locks: the lock pool's connection first.
WaitSlot(t) ==
    /\ at[t] = "local"
    /\ Distributed(operation[t])
    /\ Complete(LocalOf(t), t)
    /\ at' = [at EXCEPT ![t] = "session"]
    /\ slot' = [slot EXCEPT ![ReplicaOf[t]] = Join(@, t, "exclusive")]
    /\ UNCHANGED <<operation, lost, gate, local, advisory, identity,
                   identityKey>>

HasSlot(t) == SlotGranted(slot[ReplicaOf[t]], t)

WaitAdvisory(t, k) ==
    /\ at[t] = "session"
    /\ HasSlot(t)
    /\ AllGranted(advisory, t)
    /\ IsNext(advisory, t, k)
    /\ advisory' = [advisory EXCEPT ![k] =
                       Join(@, t, LockMode(operation[t], k))]
    /\ UNCHANGED <<taskVars, gate, local, slot, identity, identityKey>>

Hold(t) ==
    /\ at[t] = "session"
    /\ HasSlot(t)
    /\ Complete(advisory, t)
    /\ at' = [at EXCEPT ![t] = "held"]
    /\ UNCHANGED <<operation, lost, gate, local, slot, advisory, identity,
                   identityKey>>

-------------------------------------------------------------------------------
(* SshIdentityStore::prepare and delete: the replica's mutex, then the key  *)
(* on a connection of the data pool.                                        *)

WaitIdentity(t) ==
    /\ at[t] = "held"
    /\ Identifies(operation[t])
    /\ at' = [at EXCEPT ![t] = "identity"]
    /\ identity' = [identity EXCEPT ![ReplicaOf[t]] = Join(@, t, "exclusive")]
    /\ UNCHANGED <<operation, lost, gate, local, slot, advisory, identityKey>>

WaitIdentityKey(t) ==
    /\ at[t] = "identity"
    /\ Granted(identity[ReplicaOf[t]], t)
    /\ t \notin DOMAIN identityKey
    /\ identityKey' = Join(identityKey, t, "exclusive")
    /\ UNCHANGED <<taskVars, gate, local, slot, advisory, identity>>

Identify(t) ==
    /\ at[t] = "identity"
    /\ Granted(identityKey, t)
    /\ at' = [at EXCEPT ![t] = "identified"]
    /\ UNCHANGED <<operation, lost, gate, local, slot, advisory, identity,
                   identityKey>>

\* The connection closes in the background.
DropIdentity(t) ==
    /\ at' = [at EXCEPT ![t] = "finishing"]
    /\ identity' = [identity EXCEPT ![ReplicaOf[t]] = Leave(@, t)]
    /\ UNCHANGED <<operation, lost, gate, local, slot, advisory, identityKey>>

LeaveIdentity(t) == at[t] = "identified" /\ DropIdentity(t)

\* The statement that waits for the key times out or fails.
GiveUpIdentity(t) ==
    /\ at[t] = "identity"
    /\ t \in DOMAIN identityKey
    /\ DropIdentity(t)

-------------------------------------------------------------------------------
\* What a task holds in its process goes at once; a session it had is left to
\* the background.
Drop(t) ==
    LET r == ReplicaOf[t] IN
    /\ at' = [at EXCEPT ![t] = "idle"]
    /\ operation' = [operation EXCEPT ![t] = NoOperation]
    /\ lost' = [lost EXCEPT ![t] = FALSE]
    /\ gate' = [gate EXCEPT ![r] = [s \in Sandbox |-> Leave(gate[r][s], t)]]
    /\ local' = [local EXCEPT ![r] = [k \in Key |-> Leave(local[r][k], t)]]

\* The guard is dropped when the guarded work ends.
Release(t) ==
    /\ at[t] \in {"held", "finishing"}
    /\ Drop(t)
    /\ UNCHANGED <<slot, advisory, identity, identityKey>>

\* A deadline passes, an error ends the acquisition or the request is
\* cancelled; a task still waiting for a connection has none to give back.
GiveUp(t) ==
    /\ at[t] \in {"local", "session"}
    /\ Drop(t)
    /\ slot' = IF at[t] = "session" /\ ~HasSlot(t)
               THEN [slot EXCEPT ![ReplicaOf[t]] = Leave(@, t)] ELSE slot
    /\ UNCHANGED <<advisory, identity, identityKey>>

UnlockGlobalKey(t) ==
    /\ at[t] = "idle"
    /\ \E k \in Key : t \in DOMAIN advisory[k]
    /\ advisory' = [advisory EXCEPT ![GlobalKey] = Leave(@, t)]
    /\ UNCHANGED <<taskVars, gate, local, slot, identity, identityKey>>

\* pg_advisory_unlock_all before the connection is reused, or the end of the
\* backend of a closed one.
Unlock(t) ==
    /\ at[t] = "idle"
    /\ \E k \in Key : t \in DOMAIN advisory[k]
    /\ advisory' = [k \in Key |-> Leave(advisory[k], t)]
    /\ UNCHANGED <<taskVars, gate, local, slot, identity, identityKey>>

\* The permit comes back when the connection is returned or closed, at the
\* latest after LOCK_CONNECTION_RELEASE_TIMEOUT, whatever the backend does.
ReturnSlot(t) ==
    LET r == ReplicaOf[t] IN
    /\ at[t] = "idle"
    /\ t \in DOMAIN slot[r]
    /\ slot' = [slot EXCEPT ![r] = Leave(@, t)]
    /\ UNCHANGED <<taskVars, gate, local, advisory, identity, identityKey>>

CloseIdentity(t) ==
    /\ t \in DOMAIN identityKey
    /\ at[t] \in {"finishing", "idle"}
    /\ identityKey' = Leave(identityKey, t)
    /\ UNCHANGED <<taskVars, gate, local, slot, advisory, identity>>

\* PostgreSQL ends the session of a held guard; nothing tells the holder.
LoseSession(t) ==
    /\ at[t] \in {"held", "identity", "identified", "finishing"}
    /\ Distributed(operation[t])
    /\ ~lost[t]
    /\ lost' = [lost EXCEPT ![t] = TRUE]
    /\ advisory' = [k \in Key |-> Leave(advisory[k], t)]
    /\ UNCHANGED <<at, operation, gate, local, slot, identity, identityKey>>

-------------------------------------------------------------------------------
Acquire(t) ==
    \/ \E k \in Key : WaitLocal(t, k) \/ WaitAdvisory(t, k)
    \/ HoldLocal(t) \/ WaitSlot(t) \/ Hold(t)

Work(t) ==
    \/ WaitIdentity(t) \/ WaitIdentityKey(t) \/ Identify(t) \/ LeaveIdentity(t)
    \/ Release(t)

Background(t) == Unlock(t) \/ ReturnSlot(t) \/ CloseIdentity(t)

Next ==
    \/ \E t \in Task : \/ \E op \in Operation : Begin(t, op)
                       \/ Acquire(t) \/ Work(t) \/ GiveUp(t) \/ GiveUpIdentity(t)
                       \/ LoseSession(t)
    \/ \E t \in Task : Background(t)

Spec == Init /\ [][Next]_vars

(***************************************************************************)
(* An acquisition proceeds as soon as its requests are granted, guarded     *)
(* work ends, and sessions are cleaned up within their timeouts.  No        *)
(* acquisition has to time out.                                             *)
(***************************************************************************)
Fairness ==
    \A t \in Task : WF_vars(Acquire(t) \/ Work(t) \/ Background(t))

FairSpec == Spec /\ Fairness

-------------------------------------------------------------------------------
(* Properties                                                               *)

Guarding(t) == at[t] \in {"held", "identity", "identified", "finishing"}

\* What two operations read and write, by the documentation of MutationScope:
\* a lifecycle or watch path touches its own sandbox only.
Conflict(a, b) ==
    \/ "global" \in {a.kind, b.kind}
    \/ a.on = b.on
    \/ /\ a.kind = "workspace" /\ b.kind \in {"sandbox", "create", "deadline"}
       /\ WorkspaceOf[b.on] = a.on
    \/ /\ b.kind = "workspace" /\ a.kind \in {"sandbox", "create", "deadline"}
       /\ WorkspaceOf[a.on] = b.on

\* mutation_guard: conflicting operations never run together in a replica,
\* nor on two replicas while their sessions last, although acquisitions are
\* abandoned halfway and sessions outlive the requests that opened them.
ConflictsExcluded ==
    \A t, u \in Task :
        /\ t # u /\ Guarding(t) /\ Guarding(u)
        /\ \/ ReplicaOf[t] = ReplicaOf[u]
           \/ /\ Distributed(operation[t]) /\ Distributed(operation[u])
              /\ ~lost[t] /\ ~lost[u]
        => ~Conflict(operation[t], operation[u])

\* The requests that one which is not granted comes after.
Waits(q, o) == IF o \in DOMAIN q /\ ~Granted(q, o) THEN q[o].ahead ELSE {}

WaitsFor(t) ==
    LET r == ReplicaOf[t] IN
    (UNION {Waits(gate[r][s], t) : s \in Sandbox})
        \cup (UNION {Waits(local[r][k], t) : k \in Key})
        \cup (IF t \in DOMAIN slot[r] /\ ~SlotGranted(slot[r], t)
              THEN slot[r][t].ahead ELSE {})
        \cup (UNION {Waits(advisory[k], t) : k \in Key})
        \cup Waits(identity[r], t)
        \cup Waits(identityKey, t)

\* The ordering rules of mutation_lock: no set of tasks and sessions in which
\* each waits for another of the set.
NoCircularWait ==
    LET waits == [o \in Task |-> WaitsFor(o)]
        waiting == {o \in Task : waits[o] # {}}
    IN  \A knot \in (SUBSET waiting) \ {{}} :
            \E o \in knot : waits[o] \cap knot = {}

\* Every acquisition is decided, without having to wait for its deadline,
\* even when the lock pool is exhausted and others keep coming.
AcquisitionsDecided ==
    \A t \in Task :
        at[t] \in {"local", "session"} ~> at[t] \notin {"local", "session"}
=============================================================================
