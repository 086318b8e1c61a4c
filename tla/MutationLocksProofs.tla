------------------------ MODULE MutationLocksProofs ------------------------
(***************************************************************************)
(* Proofs about MutationLocks, for every set of tasks, replicas, workspaces *)
(* and sandboxes, every assignment of derived keys, coinciding ones         *)
(* included, and every size of the lock pool.                               *)
(***************************************************************************)
EXTENDS MutationLocks, FiniteSetTheorems, WellFoundedInduction, TLAPS

\* The queues a lock can be in: of two requests one came before the other,
\* and what came before a request that came before came before.
FairQueue ==
    {q \in UNION {[D -> [mode : {"shared", "exclusive"}, ahead : SUBSET Task]] :
                     D \in SUBSET Task} :
        /\ IsQueue(q)
        /\ \A o, p \in DOMAIN q : o # p => o \in q[p].ahead \/ p \in q[o].ahead
        /\ \A o \in DOMAIN q : \A p \in q[o].ahead : q[p].ahead \subseteq q[o].ahead}

QueueTypes ==
    /\ at \in [Task -> {"idle", "local", "session", "held", "identity",
                        "identified", "finishing"}]
    /\ operation \in [Task -> Operation \cup {NoOperation}]
    /\ lost \in [Task -> BOOLEAN]
    /\ gate \in [Replica -> [Sandbox -> FairQueue]]
    /\ local \in [Replica -> [Key -> FairQueue]]
    /\ slot \in [Replica -> FairQueue]
    /\ advisory \in [Key -> FairQueue]
    /\ identity \in [Replica -> FairQueue]
    /\ identityKey \in FairQueue
    /\ \A t \in Task : at[t] # "idle" => operation[t] \in Operation

\* Where a task has no request: nothing in its process once it is idle, no
\* session before it asks for one, the identity mutex only under the guard.
NoRequests ==
    \A t \in Task :
        /\ at[t] = "idle" =>
              /\ \A s \in Sandbox : t \notin DOMAIN gate[ReplicaOf[t]][s]
              /\ \A k \in Key : t \notin DOMAIN local[ReplicaOf[t]][k]
        /\ at[t] = "local" =>
              t \notin DOMAIN slot[ReplicaOf[t]]
        /\ at[t] \notin {"identity", "identified"} =>
              t \notin DOMAIN identity[ReplicaOf[t]]

\* A request has the mode that the lock set of the task's operation gives it.
Modes ==
    \A t \in Task : \A k \in Key :
        at[t] # "idle" =>
            /\ t \in DOMAIN local[ReplicaOf[t]][k] =>
                  local[ReplicaOf[t]][k][t].mode = LockMode(operation[t], k)
            /\ t \in DOMAIN advisory[k] =>
                  advisory[k][t].mode = LockMode(operation[t], k)

\* A task past its local acquisition holds all its keys in its replica, one
\* with an intact guard holds them in PostgreSQL too.
Holdings ==
    \A t \in Task : at[t] \notin {"idle", "local"} =>
        \A k \in Keys(operation[t]) :
            /\ Granted(local[ReplicaOf[t]][k], t)
            /\ at[t] # "session" /\ Distributed(operation[t]) /\ ~lost[t] =>
                  Granted(advisory[k], t)

LockInv == QueueTypes /\ NoRequests /\ Modes /\ Holdings

-------------------------------------------------------------------------------
(* Queues.                                                                  *)

\* What it takes to be a queue.
LEMMA QueueFacts ==
  ASSUME NEW q \in FairQueue
  PROVE  /\ IsQueue(q)
         /\ q = [p \in DOMAIN q |-> q[p]]
         /\ \A o, p \in DOMAIN q : o # p => o \in q[p].ahead \/ p \in q[o].ahead
         /\ \A o \in DOMAIN q : \A p \in q[o].ahead : q[p].ahead \subseteq q[o].ahead
  BY DEF FairQueue

\* What makes a function a fair queue.
LEMMA QueueIntro ==
  ASSUME NEW q, q = [p \in DOMAIN q |-> q[p]], IsQueue(q),
         \A o, p \in DOMAIN q : o # p => o \in q[p].ahead \/ p \in q[o].ahead,
         \A o \in DOMAIN q : \A p \in q[o].ahead : q[p].ahead \subseteq q[o].ahead
  PROVE  q \in FairQueue
<1>1. DOMAIN q \in SUBSET Task
  BY DEF IsQueue
<1>2. q \in [DOMAIN q -> [mode : {"shared", "exclusive"}, ahead : SUBSET Task]]
  BY DEF IsQueue
<1> QED
  BY <1>1, <1>2 DEF FairQueue

\* A table starts with queues nobody is in.
LEMMA EmptyIsQueue == EmptyQueue \in FairQueue /\ DOMAIN EmptyQueue = {}
<1>1. EmptyQueue \in [{} -> [mode : {"shared", "exclusive"}, ahead : SUBSET Task]]
  BY DEF EmptyQueue
<1>2. IsQueue(EmptyQueue)
  BY DEF EmptyQueue, IsQueue
<1> QED
  BY <1>1, <1>2 DEF FairQueue, EmptyQueue

\* A request joins behind the ones that are there, and takes nothing from one
\* that is granted.
LEMMA JoinQueue ==
  ASSUME NEW q \in FairQueue, NEW o \in Task, o \notin DOMAIN q,
         NEW m \in {"shared", "exclusive"}
  PROVE  /\ Join(q, o, m) \in FairQueue
         /\ DOMAIN Join(q, o, m) = DOMAIN q \cup {o}
         /\ Join(q, o, m)[o].mode = m
         /\ \A p \in DOMAIN q : Join(q, o, m)[p] = q[p]
         /\ \A p \in Task : Granted(q, p) => Granted(Join(q, o, m), p)
<1> DEFINE j == Join(q, o, m)
<1>1. j = [p \in DOMAIN j |-> j[p]]
  BY DEF Join
<1>2. IsQueue(j)
  BY QueueFacts DEF IsQueue, Join
<1>3. \A p, r \in DOMAIN j : p # r => p \in j[r].ahead \/ r \in j[p].ahead
  BY QueueFacts DEF Join
<1>4. \A p \in DOMAIN j : \A r \in j[p].ahead : j[r].ahead \subseteq j[p].ahead
  BY QueueFacts DEF IsQueue, Join
<1>5. j \in FairQueue
  BY <1>1, <1>2, <1>3, <1>4, QueueIntro
<1>6. \A p \in Task : Granted(q, p) => Granted(Join(q, o, m), p)
  BY QueueFacts DEF IsQueue, Granted, Join
<1> QED
  BY <1>5, <1>6 DEF Join

\* A request that leaves opens the way for the others and closes it for none.
LEMMA LeaveQueue ==
  ASSUME NEW q \in FairQueue, NEW o \in Task
  PROVE  /\ Leave(q, o) \in FairQueue
         /\ DOMAIN Leave(q, o) = DOMAIN q \ {o}
         /\ \A p \in DOMAIN q \ {o} : Leave(q, o)[p].mode = q[p].mode
         /\ \A p \in Task \ {o} : Granted(q, p) => Granted(Leave(q, o), p)
<1> DEFINE j == Leave(q, o)
<1>1. j = [p \in DOMAIN j |-> j[p]]
  BY DEF Leave
<1>2. IsQueue(j)
  BY QueueFacts DEF IsQueue, Leave
<1>3. \A p, r \in DOMAIN j : p # r => p \in j[r].ahead \/ r \in j[p].ahead
  BY QueueFacts DEF Leave
<1>4. \A p \in DOMAIN j : \A r \in j[p].ahead : j[r].ahead \subseteq j[p].ahead
  BY QueueFacts DEF IsQueue, Leave
<1>5. j \in FairQueue
  BY <1>1, <1>2, <1>3, <1>4, QueueIntro
<1>6. \A p \in Task \ {o} : Granted(q, p) => Granted(Leave(q, o), p)
  BY QueueFacts DEF IsQueue, Granted, Leave
<1> QED
  BY <1>5, <1>6 DEF Leave

\* Of two granted requests of a queue neither is exclusive.
LEMMA TwoGranted ==
  ASSUME NEW q \in FairQueue, NEW o \in Task, NEW p \in Task, o # p,
         Granted(q, o), Granted(q, p)
  PROVE  q[o].mode = "shared" /\ q[p].mode = "shared"
  BY QueueFacts DEF Granted

-------------------------------------------------------------------------------
(* Lock sets.                                                               *)

\* The keys of an operation, and how it asks for them.
LEMMA LockSets ==
  ASSUME NEW op \in Operation
  PROVE  /\ Keys(op) \subseteq Key
         /\ GlobalKey \in Keys(op)
         /\ Exclusive(op) \subseteq Keys(op)
         /\ \A k \in Key : LockMode(op, k) \in {"shared", "exclusive"}
         /\ Gated(op) => op.on \in Sandbox
  BY LocksAssumption
  DEF Operation, SandboxKind, Kind, Keys, Exclusive, Shared, Key, LockMode, Gated

\* MutationScope::locks: operations that conflict share a key that one of
\* them takes exclusively.
LEMMA ConflictsMeet ==
  ASSUME NEW a \in Operation, NEW b \in Operation, Conflict(a, b)
  PROVE  \E k \in Keys(a) \cap Keys(b) :
             LockMode(a, k) = "exclusive" \/ LockMode(b, k) = "exclusive"
<1>1. CASE a.kind = "global" \/ b.kind = "global"
  BY <1>1, LockSets DEF LockMode, Exclusive
<1>2. CASE a.kind # "global" /\ b.kind # "global" /\ a.on = b.on
  BY <1>2 DEF LockMode, Exclusive, Keys
<1>3. CASE /\ a.kind = "workspace" /\ b.kind \in {"sandbox", "create", "deadline"}
           /\ WorkspaceOf[b.on] = a.on
  BY <1>3 DEF LockMode, Exclusive, Keys, Shared
<1>4. CASE /\ b.kind = "workspace" /\ a.kind \in {"sandbox", "create", "deadline"}
           /\ WorkspaceOf[a.on] = b.on
  BY <1>4 DEF LockMode, Exclusive, Keys, Shared
<1> QED
  BY <1>1, <1>2, <1>3, <1>4 DEF Conflict

-------------------------------------------------------------------------------
(* The invariant, action by action.                                         *)

\* The invariant holds initially.
LEMMA InitLocks == Init => LockInv
<1> SUFFICES ASSUME Init
             PROVE  LockInv
  OBVIOUS
<1>1. QueueTypes
  BY EmptyIsQueue DEF Init, QueueTypes
<1>2. NoRequests /\ Modes /\ Holdings
  BY EmptyIsQueue, LocksAssumption DEF Init, NoRequests, Modes, Holdings
<1> QED
  BY <1>1, <1>2 DEF LockInv

\* A task that starts has no request left, so joining the gate is safe and
\* nothing it holds has a mode of the operation before.
LEMMA BeginLocks ==
  ASSUME LockInv, NEW t \in Task, NEW op \in Operation, Begin(t, op)
  PROVE  LockInv'
<1> DEFINE r == ReplicaOf[t]
<1>0. r \in Replica
  BY LocksAssumption
<1>1. at[t] = "idle" /\ Fresh(t)
  BY DEF Begin
<1>2. \A s \in Sandbox :
        /\ gate[r][s] \in FairQueue
        /\ t \notin DOMAIN gate[r][s]
  BY <1>0, <1>1 DEF LockInv, QueueTypes, NoRequests
<1>3. gate' \in [Replica -> [Sandbox -> FairQueue]]
  <2>1. CASE Gated(op)
    <3>1. op.on \in Sandbox
      BY <2>1, LockSets
    <3>2. Join(gate[r][op.on], t, "exclusive") \in FairQueue
      BY <1>2, <3>1, JoinQueue
    <3>3. gate' = [gate EXCEPT ![r][op.on] = Join(gate[r][op.on], t, "exclusive")]
      BY <2>1 DEF Begin
    <3> QED
      BY <1>0, <3>1, <3>2, <3>3 DEF LockInv, QueueTypes
  <2>2. CASE ~Gated(op)
    BY <2>2 DEF Begin, LockInv, QueueTypes
  <2> QED
    BY <2>1, <2>2
<1>4. \A u \in Task \ {t}, s \in Sandbox :
        /\ ReplicaOf[u] \in Replica
        /\ u \in DOMAIN gate'[ReplicaOf[u]][s] => u \in DOMAIN gate[ReplicaOf[u]][s]
  <2> SUFFICES ASSUME NEW u \in Task \ {t}, NEW s \in Sandbox
               PROVE  /\ ReplicaOf[u] \in Replica
                      /\ u \in DOMAIN gate'[ReplicaOf[u]][s] =>
                           u \in DOMAIN gate[ReplicaOf[u]][s]
    OBVIOUS
  <2>1. ReplicaOf[u] \in Replica
    BY LocksAssumption
  <2>2. CASE Gated(op)
    <3>1. op.on \in Sandbox
      BY <2>2, LockSets
    <3>2. DOMAIN Join(gate[r][op.on], t, "exclusive") = DOMAIN gate[r][op.on] \cup {t}
      BY <1>2, <3>1, JoinQueue
    <3>3. gate' = [gate EXCEPT ![r][op.on] = Join(gate[r][op.on], t, "exclusive")]
      BY <2>2 DEF Begin
    <3> QED
      BY <1>0, <2>1, <3>1, <3>2, <3>3 DEF LockInv, QueueTypes
  <2>3. CASE ~Gated(op)
    BY <2>1, <2>3 DEF Begin
  <2> QED
    BY <2>2, <2>3, <2>1
<1>5. QueueTypes'
  BY <1>3 DEF Begin, LockInv, QueueTypes
<1>6. NoRequests'
  BY <1>1, <1>4 DEF Begin, Fresh, LockInv, QueueTypes, NoRequests
<1>7. Modes'
  BY <1>1 DEF Begin, Fresh, LockInv, QueueTypes, NoRequests, Modes
<1>8. Holdings'
  BY <1>1 DEF Begin, LockInv, QueueTypes, Holdings
<1> QED
  BY <1>5, <1>6, <1>7, <1>8 DEF LockInv

\* LocalMutationLocks::acquire joins one queue of the task's replica.
LEMMA WaitLocalLocks ==
  ASSUME LockInv, NEW t \in Task, NEW k \in Key, WaitLocal(t, k)
  PROVE  LockInv'
<1> DEFINE r == ReplicaOf[t]
           q == local[r][k]
           m == LockMode(operation[t], k)
           j == Join(q, t, m)
<1>0. r \in Replica /\ \A u \in Task : ReplicaOf[u] \in Replica
  BY LocksAssumption
<1>1. q \in FairQueue /\ operation[t] \in Operation /\ at[t] = "local"
  BY <1>0 DEF WaitLocal, LockInv, QueueTypes
<1>2. t \notin DOMAIN q
  BY DEF WaitLocal, IsNext, Joined, LocalOf
<1>3. /\ j \in FairQueue
      /\ DOMAIN j = DOMAIN q \cup {t}
      /\ j[t].mode = m
      /\ \A p \in DOMAIN q : j[p] = q[p]
      /\ \A p \in Task : Granted(q, p) => Granted(j, p)
  <2>1. m \in {"shared", "exclusive"}
    BY <1>1, LockSets
  <2>2. q \in FairQueue
    BY <1>1
  <2> HIDE DEF m, q
  <2>3. j \in FairQueue
    BY <1>2, <2>1, <2>2, JoinQueue
  <2>4. DOMAIN j = DOMAIN q \cup {t}
    BY <1>2, <2>1, <2>2, JoinQueue
  <2>5. j[t].mode = m
    BY DEF Join
  <2>6. \A p \in DOMAIN q : j[p] = q[p]
    BY <1>2 DEF Join
  <2>7. \A p \in Task : Granted(q, p) => Granted(j, p)
    BY <1>2, <2>1, <2>2, JoinQueue
  <2> QED
    BY <2>3, <2>4, <2>5, <2>6, <2>7
<1>4. local' = [local EXCEPT ![r][k] = j]
  BY DEF WaitLocal
<1> HIDE DEF q, j
<1>5. \A u \in Task, i \in Key :
        \/ ReplicaOf[u] = r /\ i = k /\ local'[ReplicaOf[u]][i] = j
                                     /\ local[ReplicaOf[u]][i] = q
        \/ local'[ReplicaOf[u]][i] = local[ReplicaOf[u]][i]
  BY <1>0, <1>4 DEF LockInv, QueueTypes, q
<1>6. QueueTypes'
  BY <1>0, <1>3, <1>4 DEF WaitLocal, taskVars, LockInv, QueueTypes
<1>7. NoRequests'
  BY <1>1, <1>3, <1>5 DEF WaitLocal, taskVars, LockInv, NoRequests
<1>8. Modes'
  BY <1>1, <1>3, <1>5 DEF WaitLocal, taskVars, LockInv, Modes
<1>9. Holdings'
  <2> SUFFICES ASSUME NEW u \in Task, at[u] \notin {"idle", "local"},
                      NEW i \in Keys(operation[u])
               PROVE  Granted(local'[ReplicaOf[u]][i], u)
    BY DEF WaitLocal, taskVars, LockInv, Holdings
  <2>1. i \in Key
    BY LockSets DEF LockInv, QueueTypes
  <2> QED
    BY <1>3, <1>5, <2>1 DEF LockInv, Holdings
<1> QED
  BY <1>6, <1>7, <1>8, <1>9 DEF LockInv

\* A connection is asked for once all local keys are held.
LEMMA WaitSlotLocks ==
  ASSUME LockInv, NEW t \in Task, WaitSlot(t)
  PROVE  LockInv'
<1> DEFINE r == ReplicaOf[t]
           j == Join(slot[r], t, "exclusive")
<1>0. r \in Replica /\ \A u \in Task : ReplicaOf[u] \in Replica
  BY LocksAssumption
<1>1. slot[r] \in FairQueue /\ t \notin DOMAIN slot[r]
  BY <1>0 DEF WaitSlot, LockInv, QueueTypes, NoRequests
<1>2. j \in FairQueue /\ DOMAIN j = DOMAIN slot[r] \cup {t}
  BY <1>1, JoinQueue
<1>3. slot' = [slot EXCEPT ![r] = j] /\ at' = [at EXCEPT ![t] = "session"]
  BY DEF WaitSlot
<1> HIDE DEF j
<1>4. QueueTypes'
  BY <1>0, <1>2, <1>3 DEF WaitSlot, LockInv, QueueTypes
<1>5. NoRequests'
  BY <1>0, <1>2, <1>3 DEF WaitSlot, LockInv, QueueTypes, NoRequests
<1>6. Modes'
  BY <1>3 DEF WaitSlot, LockInv, QueueTypes, Modes
<1>7. Holdings'
  BY <1>3 DEF WaitSlot, Complete, Joined, AllGranted, LocalOf,
              LockInv, QueueTypes, Holdings
<1> QED
  BY <1>4, <1>5, <1>6, <1>7 DEF LockInv

\* acquire_mutation_locks joins one advisory lock; nothing holds it there
\* before the guard exists.
LEMMA WaitAdvisoryLocks ==
  ASSUME LockInv, NEW t \in Task, NEW k \in Key, WaitAdvisory(t, k)
  PROVE  LockInv'
<1> DEFINE q == advisory[k]
           m == LockMode(operation[t], k)
           j == Join(q, t, m)
<1>1. q \in FairQueue /\ operation[t] \in Operation /\ at[t] = "session"
  BY DEF WaitAdvisory, LockInv, QueueTypes
<1>2. t \notin DOMAIN q
  BY DEF WaitAdvisory, IsNext, Joined
<1>3. /\ j \in FairQueue
      /\ DOMAIN j = DOMAIN q \cup {t}
      /\ j[t].mode = m
      /\ \A p \in DOMAIN q : j[p] = q[p]
      /\ \A p \in Task : Granted(q, p) => Granted(j, p)
  <2>1. m \in {"shared", "exclusive"}
    BY <1>1, LockSets
  <2>2. q \in FairQueue
    BY <1>1
  <2> HIDE DEF m, q
  <2>3. j \in FairQueue
    BY <1>2, <2>1, <2>2, JoinQueue
  <2>4. DOMAIN j = DOMAIN q \cup {t}
    BY <1>2, <2>1, <2>2, JoinQueue
  <2>5. j[t].mode = m
    BY DEF Join
  <2>6. \A p \in DOMAIN q : j[p] = q[p]
    BY <1>2 DEF Join
  <2>7. \A p \in Task : Granted(q, p) => Granted(j, p)
    BY <1>2, <2>1, <2>2, JoinQueue
  <2> QED
    BY <2>3, <2>4, <2>5, <2>6, <2>7
<1>4. advisory' = [advisory EXCEPT ![k] = j]
  BY DEF WaitAdvisory
<1> HIDE DEF j
<1>5. QueueTypes'
  BY <1>3, <1>4 DEF WaitAdvisory, taskVars, LockInv, QueueTypes
<1>6. NoRequests'
  BY DEF WaitAdvisory, taskVars, LockInv, NoRequests
<1>7. Modes'
  BY <1>1, <1>3, <1>4 DEF WaitAdvisory, taskVars, LockInv, QueueTypes, Modes
<1>8. Holdings'
  <2> SUFFICES ASSUME NEW u \in Task, at[u] \notin {"idle", "local"},
                      NEW i \in Keys(operation[u]),
                      at[u] # "session", Distributed(operation[u]), ~lost[u]
               PROVE  Granted(advisory'[i], u)
    BY DEF WaitAdvisory, taskVars, LockInv, Holdings
  <2>1. i \in Key
    BY LockSets DEF LockInv, QueueTypes
  <2> QED
    BY <1>3, <1>4, <2>1 DEF LockInv, QueueTypes, Holdings
<1> QED
  BY <1>5, <1>6, <1>7, <1>8 DEF LockInv

\* A guard, of a local path or of a distributed one, covers all its keys.
LEMMA HoldLocks ==
  ASSUME LockInv, NEW t \in Task, HoldLocal(t) \/ Hold(t)
  PROVE  LockInv'
<1> USE DEF HoldLocal, Hold
<1>1. QueueTypes'
  BY DEF LockInv, QueueTypes
<1>2. NoRequests'
  BY DEF LockInv, QueueTypes, NoRequests
<1>3. Modes'
  BY DEF LockInv, QueueTypes, Modes
<1>4. Holdings'
  <2>1. CASE HoldLocal(t)
    BY <2>1 DEF Complete, Joined, AllGranted, LocalOf, LockInv, QueueTypes, Holdings
  <2>2. CASE Hold(t)
    BY <2>2 DEF Complete, Joined, AllGranted, LockInv, QueueTypes, Holdings
  <2> QED
    BY <2>1, <2>2
<1> QED
  BY <1>1, <1>2, <1>3, <1>4 DEF LockInv

\* The SSH identity locks are taken and given back under the guard.
LEMMA IdentityLocks ==
  ASSUME LockInv, NEW t \in Task,
         \/ WaitIdentity(t) \/ WaitIdentityKey(t) \/ Identify(t)
         \/ LeaveIdentity(t) \/ GiveUpIdentity(t) \/ CloseIdentity(t)
  PROVE  LockInv'
<1>0. \A u \in Task : ReplicaOf[u] \in Replica
  BY LocksAssumption
<1>1. CASE WaitIdentity(t)
  <2> DEFINE j == Join(identity[ReplicaOf[t]], t, "exclusive")
  <2>1. identity[ReplicaOf[t]] \in FairQueue /\ t \notin DOMAIN identity[ReplicaOf[t]]
    BY <1>0, <1>1 DEF WaitIdentity, LockInv, QueueTypes, NoRequests
  <2>2. j \in FairQueue /\ DOMAIN j = DOMAIN identity[ReplicaOf[t]] \cup {t}
    BY <2>1, JoinQueue
  <2>3. /\ identity' = [identity EXCEPT ![ReplicaOf[t]] = j]
        /\ at' = [at EXCEPT ![t] = "identity"] /\ at[t] = "held"
    BY <1>1 DEF WaitIdentity
  <2> HIDE DEF j
  <2>4. QueueTypes' /\ NoRequests'
    BY <1>0, <1>1, <2>2, <2>3 DEF WaitIdentity, LockInv, QueueTypes, NoRequests
  <2>5. Modes' /\ Holdings'
    BY <1>1, <2>3 DEF WaitIdentity, LockInv, QueueTypes, Modes, Holdings
  <2> QED
    BY <2>4, <2>5 DEF LockInv
<1>2. CASE WaitIdentityKey(t) \/ CloseIdentity(t)
  <2>1. identityKey' \in FairQueue
    <3>1. identityKey \in FairQueue
      BY DEF LockInv, QueueTypes
    <3>2. CASE WaitIdentityKey(t)
      <4>1. /\ t \notin DOMAIN identityKey
            /\ identityKey' = Join(identityKey, t, "exclusive")
        BY <3>2 DEF WaitIdentityKey
      <4> QED
        BY <3>1, <4>1, JoinQueue
    <3>3. CASE CloseIdentity(t)
      BY <3>1, <3>3, LeaveQueue DEF CloseIdentity
    <3> QED
      BY <1>2, <3>2, <3>3
  <2>2. UNCHANGED <<at, operation, lost, gate, local, slot, advisory, identity>>
    BY <1>2 DEF WaitIdentityKey, CloseIdentity, taskVars
  <2>3. QueueTypes'
    BY <2>1, <2>2 DEF LockInv, QueueTypes
  <2> QED
    BY <2>2, <2>3 DEF LockInv, NoRequests, Modes, Holdings
<1>3. CASE Identify(t)
  <2>1. QueueTypes' /\ NoRequests'
    BY <1>3 DEF Identify, LockInv, QueueTypes, NoRequests
  <2>2. Modes' /\ Holdings'
    BY <1>3 DEF Identify, LockInv, QueueTypes, Modes, Holdings
  <2> QED
    BY <2>1, <2>2 DEF LockInv
<1>4. CASE LeaveIdentity(t) \/ GiveUpIdentity(t)
  <2> DEFINE j == Leave(identity[ReplicaOf[t]], t)
  <2>1. j \in FairQueue /\ DOMAIN j = DOMAIN identity[ReplicaOf[t]] \ {t}
    BY <1>0, LeaveQueue DEF LockInv, QueueTypes
  <2>2. /\ identity' = [identity EXCEPT ![ReplicaOf[t]] = j]
        /\ at' = [at EXCEPT ![t] = "finishing"] 
        /\ at[t] \in {"identity", "identified"}
        /\ UNCHANGED <<operation, lost, gate, local, slot, advisory, identityKey>>
    BY <1>4 DEF LeaveIdentity, GiveUpIdentity, DropIdentity
  <2> HIDE DEF j
  <2>3. QueueTypes' /\ NoRequests'
    BY <1>0, <2>1, <2>2 DEF LockInv, QueueTypes, NoRequests
  <2>4. Modes' /\ Holdings'
    BY <2>2 DEF LockInv, QueueTypes, Modes, Holdings
  <2> QED
    BY <2>3, <2>4 DEF LockInv
<1> QED
  BY <1>1, <1>2, <1>3, <1>4

\* A dropped guard or acquisition leaves nothing in its process, and takes
\* nothing from the others there.
LEMMA DropLocks ==
  ASSUME LockInv, NEW t \in Task, Release(t) \/ GiveUp(t)
  PROVE  LockInv'
<1> DEFINE r == ReplicaOf[t]
<1>0. r \in Replica /\ \A u \in Task : ReplicaOf[u] \in Replica
  BY LocksAssumption
<1>1. /\ Drop(t)
      /\ at[t] \notin {"idle", "identity", "identified"}
      /\ UNCHANGED <<advisory, identity, identityKey>>
  BY DEF Release, GiveUp
<1>2. \A s \in Sandbox :
        /\ Leave(gate[r][s], t) \in FairQueue
        /\ DOMAIN Leave(gate[r][s], t) = DOMAIN gate[r][s] \ {t}
  <2>1. \A s \in Sandbox : gate[r][s] \in FairQueue
    BY <1>0 DEF LockInv, QueueTypes
  <2> QED
    BY <2>1, LeaveQueue
<1>3. \A k \in Key :
        /\ Leave(local[r][k], t) \in FairQueue
        /\ DOMAIN Leave(local[r][k], t) = DOMAIN local[r][k] \ {t}
        /\ \A u \in DOMAIN local[r][k] \ {t} :
             Leave(local[r][k], t)[u].mode = local[r][k][u].mode
        /\ \A u \in Task \ {t} :
             Granted(local[r][k], u) => Granted(Leave(local[r][k], t), u)
  <2>1. \A k \in Key : local[r][k] \in FairQueue
    BY <1>0 DEF LockInv, QueueTypes
  <2> QED
    BY <2>1, LeaveQueue
<1>4. /\ gate' = [gate EXCEPT ![r] = [s \in Sandbox |-> Leave(gate[r][s], t)]]
      /\ local' = [local EXCEPT ![r] = [k \in Key |-> Leave(local[r][k], t)]]
      /\ at' = [at EXCEPT ![t] = "idle"]
      /\ operation' = [operation EXCEPT ![t] = NoOperation]
      /\ lost' = [lost EXCEPT ![t] = FALSE]
  BY <1>1 DEF Drop
<1>5. /\ slot' \in [Replica -> FairQueue]
      /\ \A u \in Task : u \notin DOMAIN slot[ReplicaOf[u]] =>
                           u \notin DOMAIN slot'[ReplicaOf[u]]
  <2>1. Leave(slot[r], t) \in FairQueue /\ DOMAIN Leave(slot[r], t) = DOMAIN slot[r] \ {t}
    BY <1>0, LeaveQueue DEF LockInv, QueueTypes
  <2>2. slot' = slot \/ slot' = [slot EXCEPT ![r] = Leave(slot[r], t)]
    BY DEF Release, GiveUp
  <2> QED
    BY <1>0, <2>1, <2>2 DEF LockInv, QueueTypes
<1>6. \A u \in Task, s \in Sandbox :
        \/ /\ ReplicaOf[u] = r
           /\ gate'[ReplicaOf[u]][s] = Leave(gate[r][s], t)
        \/ u # t /\ gate'[ReplicaOf[u]][s] = gate[ReplicaOf[u]][s]
  BY <1>0, <1>4 DEF LockInv, QueueTypes
<1>7. \A u \in Task, k \in Key :
        \/ /\ ReplicaOf[u] = r
           /\ local'[ReplicaOf[u]][k] = Leave(local[r][k], t)
        \/ u # t /\ local'[ReplicaOf[u]][k] = local[ReplicaOf[u]][k]
  BY <1>0, <1>4 DEF LockInv, QueueTypes
<1>8. QueueTypes'
  <2>1. gate' \in [Replica -> [Sandbox -> FairQueue]]
    BY <1>0, <1>2, <1>4 DEF LockInv, QueueTypes
  <2>2. local' \in [Replica -> [Key -> FairQueue]]
    BY <1>0, <1>3, <1>4 DEF LockInv, QueueTypes
  <2> QED
    BY <1>1, <1>4, <1>5, <2>1, <2>2 DEF LockInv, QueueTypes
<1>9. NoRequests'
  <2> SUFFICES ASSUME NEW u \in Task
               PROVE  /\ at'[u] = "idle" =>
                           /\ \A s \in Sandbox : u \notin DOMAIN gate'[ReplicaOf[u]][s]
                           /\ \A k \in Key : u \notin DOMAIN local'[ReplicaOf[u]][k]
                      /\ at'[u] = "local" => u \notin DOMAIN slot'[ReplicaOf[u]]
                      /\ at'[u] \notin {"identity", "identified"} =>
                           u \notin DOMAIN identity[ReplicaOf[u]]
    BY <1>1 DEF NoRequests
  <2>1. u # t => at'[u] = at[u]
    BY <1>4 DEF LockInv, QueueTypes
  <2>2. at'[t] = "idle"
    BY <1>4 DEF LockInv, QueueTypes
  <2>3. at'[u] = "idle" =>
          \A s \in Sandbox : u \notin DOMAIN gate'[ReplicaOf[u]][s]
    <3> SUFFICES ASSUME NEW s \in Sandbox, u = t \/ at[u] = "idle"
                 PROVE  u \notin DOMAIN gate'[ReplicaOf[u]][s]
      BY <2>1
    <3>1. u = t \/ u \notin DOMAIN gate[ReplicaOf[u]][s]
      BY DEF LockInv, NoRequests
    <3>2. DOMAIN Leave(gate[r][s], t) = DOMAIN gate[r][s] \ {t}
      BY <1>2
    <3> QED
      BY <1>6, <3>1, <3>2
  <2>4. at'[u] = "idle" =>
          \A k \in Key : u \notin DOMAIN local'[ReplicaOf[u]][k]
    <3> SUFFICES ASSUME NEW k \in Key, u = t \/ at[u] = "idle"
                 PROVE  u \notin DOMAIN local'[ReplicaOf[u]][k]
      BY <2>1
    <3>1. u = t \/ u \notin DOMAIN local[ReplicaOf[u]][k]
      BY DEF LockInv, NoRequests
    <3>2. DOMAIN Leave(local[r][k], t) = DOMAIN local[r][k] \ {t}
      BY <1>3
    <3> QED
      BY <1>7, <3>1, <3>2
  <2> QED
    BY <1>1, <1>5, <2>1, <2>2, <2>3, <2>4 DEF LockInv, NoRequests
<1>10. Modes'
  <2> SUFFICES ASSUME NEW u \in Task \ {t}, NEW k \in Key, at[u] # "idle"
               PROVE  /\ u \in DOMAIN local'[ReplicaOf[u]][k] =>
                           local'[ReplicaOf[u]][k][u].mode = LockMode(operation[u], k)
                      /\ u \in DOMAIN advisory[k] =>
                           advisory[k][u].mode = LockMode(operation[u], k)
    BY <1>1, <1>4 DEF LockInv, QueueTypes, Modes
  <2>1. /\ u \in DOMAIN local[ReplicaOf[u]][k] =>
             local[ReplicaOf[u]][k][u].mode = LockMode(operation[u], k)
        /\ u \in DOMAIN advisory[k] =>
             advisory[k][u].mode = LockMode(operation[u], k)
    BY DEF LockInv, Modes
  <2>2. CASE local'[ReplicaOf[u]][k] = local[ReplicaOf[u]][k]
    BY <2>1, <2>2
  <2>3. CASE ReplicaOf[u] = r /\ local'[ReplicaOf[u]][k] = Leave(local[r][k], t)
    BY <1>3, <2>1, <2>3
  <2> QED
    BY <1>7, <2>2, <2>3
<1>11. Holdings'
  <2> SUFFICES ASSUME NEW u \in Task \ {t}, at[u] \notin {"idle", "local"},
                      NEW k \in Keys(operation[u])
               PROVE  Granted(local'[ReplicaOf[u]][k], u)
    BY <1>1, <1>4 DEF LockInv, QueueTypes, Holdings
  <2>1. k \in Key
    BY LockSets DEF LockInv, QueueTypes
  <2> QED
    BY <1>3, <1>7, <2>1 DEF LockInv, Holdings
<1> QED
  BY <1>8, <1>9, <1>10, <1>11 DEF LockInv

\* A session ends, with the task long gone or under a guard that does not
\* notice; the pool takes a connection back.
LEMMA SessionLocks ==
  ASSUME LockInv, NEW t \in Task, Unlock(t) \/ ReturnSlot(t) \/ LoseSession(t)
  PROVE  LockInv'
<1>0. \A u \in Task : ReplicaOf[u] \in Replica
  BY LocksAssumption
<1>1. CASE ReturnSlot(t)
  <2> DEFINE j == Leave(slot[ReplicaOf[t]], t)
  <2>1. j \in FairQueue /\ DOMAIN j = DOMAIN slot[ReplicaOf[t]] \ {t}
    BY <1>0, LeaveQueue DEF LockInv, QueueTypes
  <2>2. slot' = [slot EXCEPT ![ReplicaOf[t]] = j]
    BY <1>1 DEF ReturnSlot
  <2> HIDE DEF j
  <2>3. QueueTypes' /\ NoRequests'
    BY <1>0, <1>1, <2>1, <2>2
    DEF ReturnSlot, taskVars, LockInv, QueueTypes, NoRequests
  <2>4. Modes' /\ Holdings'
    BY <1>1 DEF ReturnSlot, taskVars, LockInv, Modes, Holdings
  <2> QED
    BY <2>3, <2>4 DEF LockInv
<1>2. CASE Unlock(t) \/ LoseSession(t)
  <2>1. \A k \in Key :
          /\ Leave(advisory[k], t) \in FairQueue
          /\ DOMAIN Leave(advisory[k], t) = DOMAIN advisory[k] \ {t}
          /\ \A u \in DOMAIN advisory[k] \ {t} :
               Leave(advisory[k], t)[u].mode = advisory[k][u].mode
          /\ \A u \in Task \ {t} :
               Granted(advisory[k], u) => Granted(Leave(advisory[k], t), u)
    BY LeaveQueue DEF LockInv, QueueTypes
  <2>2. /\ advisory' = [k \in Key |-> Leave(advisory[k], t)]
        /\ UNCHANGED <<at, operation, gate, local, slot, identity, identityKey>>
        /\ lost' \in [Task -> BOOLEAN]
        /\ \A u \in Task \ {t} : lost'[u] = lost[u]
        /\ at[t] = "idle" \/ lost'[t]
    BY <1>2 DEF Unlock, LoseSession, taskVars, LockInv, QueueTypes
  <2>3. QueueTypes' /\ NoRequests'
    BY <2>1, <2>2 DEF LockInv, QueueTypes, NoRequests
  <2>4. Modes'
    BY <2>1, <2>2 DEF LockInv, Modes
  <2>5. Holdings'
    <3> SUFFICES ASSUME NEW u \in Task \ {t}, at[u] \notin {"idle", "local"},
                        NEW k \in Keys(operation[u]), at[u] # "session",
                        Distributed(operation[u]), ~lost[u]
                 PROVE  Granted(advisory'[k], u)
      BY <2>2 DEF LockInv, Holdings
    <3>1. k \in Key
      BY LockSets DEF LockInv, QueueTypes
    <3> QED
      BY <2>1, <2>2, <3>1 DEF LockInv, Holdings
  <2> QED
    BY <2>3, <2>4, <2>5 DEF LockInv
<1> QED
  BY <1>1, <1>2

\* Every step keeps the invariant.
LEMMA NextLocks == LockInv /\ [Next]_vars => LockInv'
<1> SUFFICES ASSUME LockInv, [Next]_vars
             PROVE  LockInv'
  OBVIOUS
<1>1. CASE UNCHANGED vars
  BY <1>1 DEF vars, taskVars, LockInv, QueueTypes, NoRequests, Modes, Holdings
<1>2. CASE Next
  BY <1>2, BeginLocks, WaitLocalLocks, WaitSlotLocks, WaitAdvisoryLocks,
     HoldLocks, IdentityLocks, DropLocks, SessionLocks
  DEF Next, Acquire, Work, Background
<1> QED
  BY <1>1, <1>2

\* The invariant is what rules conflicts out: the common key of two
\* conflicting operations would have two holders, one of them exclusive, in
\* the replica's table or in PostgreSQL's.
LEMMA LocksExclude == LockInv => ConflictsExcluded
<1> SUFFICES ASSUME LockInv, NEW t \in Task, NEW u \in Task,
                    t # u, Guarding(t), Guarding(u),
                    \/ ReplicaOf[t] = ReplicaOf[u]
                    \/ /\ Distributed(operation[t]) /\ Distributed(operation[u])
                       /\ ~lost[t] /\ ~lost[u],
                    Conflict(operation[t], operation[u])
             PROVE  FALSE
  BY DEF ConflictsExcluded
<1>0. ReplicaOf[t] \in Replica
  BY LocksAssumption
<1>1. operation[t] \in Operation /\ operation[u] \in Operation
  BY DEF Guarding, LockInv, QueueTypes
<1>2. PICK k \in Keys(operation[t]) \cap Keys(operation[u]) :
        \/ LockMode(operation[t], k) = "exclusive"
        \/ LockMode(operation[u], k) = "exclusive"
  BY <1>1, ConflictsMeet
<1>3. k \in Key
  BY <1>1, LockSets
<1>4. CASE ReplicaOf[t] = ReplicaOf[u]
  <2> DEFINE q == local[ReplicaOf[t]][k]
  <2>1. q \in FairQueue
    BY <1>0, <1>3 DEF LockInv, QueueTypes
  <2>2. Granted(q, t) /\ Granted(q, u)
    BY <1>4 DEF Guarding, LockInv, Holdings
  <2>3. /\ q[t].mode = LockMode(operation[t], k)
        /\ q[u].mode = LockMode(operation[u], k)
    BY <1>3, <1>4, <2>2 DEF Guarding, Granted, LockInv, Modes
  <2> QED
    BY <1>2, <2>1, <2>2, <2>3, TwoGranted
<1>5. CASE /\ Distributed(operation[t]) /\ Distributed(operation[u])
           /\ ~lost[t] /\ ~lost[u]
  <2>1. advisory[k] \in FairQueue
    BY <1>3 DEF LockInv, QueueTypes
  <2>2. Granted(advisory[k], t) /\ Granted(advisory[k], u)
    BY <1>5 DEF Guarding, LockInv, Holdings
  <2>3. /\ advisory[k][t].mode = LockMode(operation[t], k)
        /\ advisory[k][u].mode = LockMode(operation[u], k)
    BY <1>3, <2>2 DEF Guarding, Granted, LockInv, Modes
  <2> QED
    BY <1>2, <2>1, <2>2, <2>3, TwoGranted
<1> QED
  BY <1>4, <1>5

\* The invariant types the state.
LEMMA LocksTyped == LockInv => TypeOK
<1> SUFFICES ASSUME LockInv
             PROVE  TypeOK
  OBVIOUS
<1>1. \A q \in FairQueue : IsQueue(q)
  BY QueueFacts
<1> QED
  BY <1>1 DEF LockInv, QueueTypes, TypeOK

-------------------------------------------------------------------------------
\* Every queue of every replica and of PostgreSQL stays a queue of tasks, and
\* a task that is not idle knows its operation.
THEOREM LocksTypeCorrect == Spec => []TypeOK
<1>1. LockInv => TypeOK
  BY LocksTyped
<1> QED
  BY <1>1, InitLocks, NextLocks, PTL DEF Spec

\* mutation_guard: whatever is abandoned, timed out or lost, conflicting
\* operations never run together in a replica, nor across replicas while
\* their sessions last.
THEOREM ConflictingNeverTogether == Spec => []ConflictsExcluded
<1>1. LockInv => ConflictsExcluded
  BY LocksExclude
<1> QED
  BY <1>1, InitLocks, NextLocks, PTL DEF Spec

-------------------------------------------------------------------------------
(***************************************************************************)
(* No circular wait.  The locks form stages: gate, local keys, slot,        *)
(* advisory keys, identity mutex, identity key.  Ordered says that a task   *)
(* whose request waits has no request in a later stage, or at a greater key *)
(* of the same one, abandoned sessions included.  So whoever is waited for  *)
(* waits further on, if at all, and the set of tasks that wait further on   *)
(* shrinks along every chain of waits.                                      *)
(***************************************************************************)

\* Requests to a replica's locks are its own tasks'.
AtHome(t) ==
    \A r \in Replica \ {ReplicaOf[t]} :
        /\ \A s \in Sandbox : t \notin DOMAIN gate[r][s]
        /\ \A k \in Key : t \notin DOMAIN local[r][k]
        /\ t \notin DOMAIN slot[r]
        /\ t \notin DOMAIN identity[r]

\* The gate comes before the local keys.
GateFirst(t) ==
    \A s \in Sandbox : t \in DOMAIN gate[ReplicaOf[t]][s] =>
        /\ Gated(operation[t]) /\ s = operation[t].on
        /\ \A k \in Key : t \in DOMAIN local[ReplicaOf[t]][k] =>
              Granted(gate[ReplicaOf[t]][s], t)

\* Local keys are asked for in ascending order, each once the last is granted.
LocalAscends(t) ==
    \A k \in Key : t \in DOMAIN local[ReplicaOf[t]][k] =>
        /\ k \in Keys(operation[t])
        /\ \A j \in Keys(operation[t]) : j < k => Granted(local[ReplicaOf[t]][j], t)

\* A connection comes after the local keys and before the advisory ones; only
\* a task that waits for one has a request for it that is not granted.
SlotNext(t) ==
    /\ t \in DOMAIN slot[ReplicaOf[t]] /\ at[t] # "session" => HasSlot(t)
    /\ at[t] = "local" => \A k \in Key : t \notin DOMAIN advisory[k]
    /\ at[t] = "session" => \A k \in Key : t \in DOMAIN advisory[k] => HasSlot(t)

\* Advisory keys ascend too, also those of a session nobody waits for any
\* more, and are all granted before the identity key is asked for.
AdvisoryAscends(t) ==
    \A k \in Key : t \in DOMAIN advisory[k] =>
        /\ \A j \in Key : t \in DOMAIN advisory[j] /\ j < k => Granted(advisory[j], t)
        /\ at[t] = "session" =>
              /\ k \in Keys(operation[t])
              /\ \A j \in Keys(operation[t]) : j < k => Granted(advisory[j], t)
        /\ Guarding(t) \/ t \in DOMAIN identityKey => Granted(advisory[k], t)

IdentityLast(t) ==
    /\ at[t] \in {"local", "session", "held"} => t \notin DOMAIN identityKey
    /\ t \in DOMAIN identityKey /\ t \in DOMAIN identity[ReplicaOf[t]] =>
          Granted(identity[ReplicaOf[t]], t)

Ordered(t) ==
    /\ AtHome(t) /\ GateFirst(t) /\ LocalAscends(t)
    /\ SlotNext(t) /\ AdvisoryAscends(t) /\ IdentityLast(t)

OrderInv == \A t \in Task : Ordered(t)

\* What a step of another task leaves a task of its request in a queue.
Kept(q, j, u) ==
    /\ u \in DOMAIN q <=> u \in DOMAIN j
    /\ Granted(q, u) => Granted(j, u)
    /\ SlotGranted(q, u) => SlotGranted(j, u)

\* A queue that stays keeps the place of every task.
LEMMA SameKept == \A q, u : Kept(q, q, u)
  BY DEF Kept

\* A task that joins a queue leaves the others their places.
LEMMA JoinKept ==
  ASSUME NEW q \in FairQueue, NEW o \in Task, o \notin DOMAIN q,
         NEW m \in {"shared", "exclusive"}, NEW u \in Task \ {o}
  PROVE  Kept(q, Join(q, o, m), u)
<1>1. DOMAIN Join(q, o, m) = DOMAIN q \cup {o}
  BY JoinQueue
<1>2. u \in DOMAIN q => Join(q, o, m)[u] = q[u]
  BY DEF Join
<1>3. Granted(q, u) => Granted(Join(q, o, m), u)
  BY JoinQueue
<1>4. SlotGranted(q, u) => SlotGranted(Join(q, o, m), u)
  BY <1>1, <1>2 DEF SlotGranted
<1> QED
  BY <1>1, <1>3, <1>4 DEF Kept

\* A task that leaves a queue takes no other's place.
LEMMA LeaveKept ==
  ASSUME NEW q \in FairQueue, NEW o \in Task, NEW u \in Task \ {o}
  PROVE  Kept(q, Leave(q, o), u)
<1>1. DOMAIN Leave(q, o) = DOMAIN q \ {o}
  BY LeaveQueue
<1>2. Granted(q, u) => Granted(Leave(q, o), u)
  BY LeaveQueue
<1>3. SlotGranted(q, u) => SlotGranted(Leave(q, o), u)
  <2> SUFFICES ASSUME SlotGranted(q, u) PROVE SlotGranted(Leave(q, o), u)
    OBVIOUS
  <2>1. u \in DOMAIN q /\ Cardinality(q[u].ahead) < Slots
    BY DEF SlotGranted
  <2>2. Leave(q, o)[u].ahead = q[u].ahead \ {o}
    BY <2>1 DEF Leave
  <2>3. q[u].ahead \in SUBSET Task
    BY <2>1, QueueFacts DEF IsQueue
  <2>4. IsFiniteSet(q[u].ahead)
    BY <2>3, LocksAssumption, FS_Subset
  <2>5. /\ Cardinality(q[u].ahead) \in Nat /\ Cardinality(q[u].ahead \ {o}) \in Nat
        /\ Cardinality(q[u].ahead \ {o}) <= Cardinality(q[u].ahead)
    <3>1. /\ IsFiniteSet(q[u].ahead \ {o})
          /\ Cardinality(q[u].ahead \ {o}) <= Cardinality(q[u].ahead)
      BY <2>4, FS_Subset
    <3> QED
      BY <2>4, <3>1, FS_CardinalityType
  <2>6. Slots \in Nat
    BY LocksAssumption
  <2>7. Cardinality(Leave(q, o)[u].ahead) < Slots
    BY <2>1, <2>2, <2>5, <2>6
  <2> QED
    BY <1>1, <2>1, <2>7 DEF SlotGranted
<1> QED
  BY <1>1, <1>2, <1>3 DEF Kept

\* A task that a step leaves all its requests is ordered as before.
TaskKept(u) ==
    /\ at'[u] = at[u] /\ operation'[u] = operation[u]
    /\ \A r \in Replica :
          /\ \A s \in Sandbox : Kept(gate[r][s], gate'[r][s], u)
          /\ \A k \in Key : Kept(local[r][k], local'[r][k], u)
          /\ Kept(slot[r], slot'[r], u)
          /\ Kept(identity[r], identity'[r], u)
    /\ \A k \in Key : Kept(advisory[k], advisory'[k], u)
    /\ Kept(identityKey, identityKey', u)

\* A task whose places are kept stays in order.
LEMMA OrderedKept ==
  ASSUME LockInv, NEW u \in Task, Ordered(u), TaskKept(u)
  PROVE  Ordered(u)'
<1> DEFINE r == ReplicaOf[u]
<1>0. r \in Replica
  BY LocksAssumption
<1>1. AtHome(u)'
  BY DEF Ordered, AtHome, TaskKept, Kept
<1>2. GateFirst(u)'
  BY <1>0 DEF Ordered, GateFirst, TaskKept, Kept
<1>3. \A k \in Key : u \in DOMAIN local[r][k] => Keys(operation[u]) \subseteq Key
  <2>1. \A k \in Key : u \in DOMAIN local[r][k] => at[u] # "idle"
    BY DEF LockInv, NoRequests
  <2> QED
    BY <2>1, LockSets DEF LockInv, QueueTypes
<1>4. LocalAscends(u)'
  BY <1>0, <1>3 DEF Ordered, LocalAscends, TaskKept, Kept
<1>5. SlotNext(u)'
  BY <1>0 DEF Ordered, SlotNext, HasSlot, TaskKept, Kept
<1>6. at[u] = "session" => Keys(operation[u]) \subseteq Key
  BY LockSets DEF LockInv, QueueTypes
<1>7. AdvisoryAscends(u)'
  BY <1>6 DEF Ordered, AdvisoryAscends, Guarding, TaskKept, Kept
<1>8. IdentityLast(u)'
  BY <1>0 DEF Ordered, IdentityLast, TaskKept, Kept
<1> QED
  BY <1>1, <1>2, <1>4, <1>5, <1>7, <1>8 DEF Ordered

\* A step of one task: the others keep their places.
LEMMA OrderFromParts ==
  ASSUME LockInv, OrderInv, NEW t \in Task,
         \A u \in Task \ {t} : TaskKept(u), Ordered(t)'
  PROVE  OrderInv'
<1>1. \A u \in Task \ {t} : Ordered(u)'
  BY OrderedKept DEF OrderInv
<1> QED
  BY <1>1 DEF OrderInv

\* Initially no task asks for anything.
LEMMA InitOrder == Init => OrderInv
<1> SUFFICES ASSUME Init, NEW t \in Task
             PROVE  Ordered(t)
  BY DEF OrderInv
<1>0. ReplicaOf[t] \in Replica
  BY LocksAssumption
<1>1. DOMAIN EmptyQueue = {}
  BY EmptyIsQueue
<1>2. /\ \A r \in Replica : /\ \A s \in Sandbox : gate[r][s] = EmptyQueue
                            /\ \A k \in Key : local[r][k] = EmptyQueue
                            /\ slot[r] = EmptyQueue /\ identity[r] = EmptyQueue
      /\ \A k \in Key : advisory[k] = EmptyQueue
      /\ identityKey = EmptyQueue
  BY DEF Init
<1> QED
  BY <1>0, <1>1, <1>2
  DEF Ordered, AtHome, GateFirst, LocalAscends, SlotNext, AdvisoryAscends,
      IdentityLast

\* A task begins an acquisition, at its first gate or key.
LEMMA BeginOrder ==
  ASSUME LockInv, OrderInv, NEW t \in Task, NEW op \in Operation, Begin(t, op)
  PROVE  OrderInv'
<1> DEFINE r == ReplicaOf[t]
<1>0. r \in Replica
  BY LocksAssumption
<1>1. /\ at[t] = "idle" /\ Fresh(t) /\ Ordered(t)
      /\ at' = [at EXCEPT ![t] = "local"]
      /\ operation' = [operation EXCEPT ![t] = op]
      /\ UNCHANGED <<local, slot, advisory, identity, identityKey>>
  BY DEF Begin, OrderInv
<1>2. /\ at \in [Task -> {"idle", "local", "session", "held", "identity",
                          "identified", "finishing"}]
      /\ operation \in [Task -> Operation \cup {NoOperation}]
      /\ gate \in [Replica -> [Sandbox -> FairQueue]]
  BY DEF LockInv, QueueTypes
<1>3. \A s \in Sandbox : t \notin DOMAIN gate[r][s]
  BY <1>1 DEF LockInv, NoRequests
<1>4. \A k \in Key : t \notin DOMAIN local[r][k]
  BY <1>1 DEF LockInv, NoRequests
<1>5. \A q \in Replica, s \in Sandbox :
        \/ gate'[q][s] = gate[q][s]
        \/ /\ q = r /\ s = op.on /\ Gated(op)
           /\ gate'[q][s] = Join(gate[q][s], t, "exclusive")
  <2>1. CASE Gated(op)
    <3> DEFINE i == op.on
               n == Join(gate[r][i], t, "exclusive")
    <3>1. i \in Sandbox
      BY <2>1, LockSets
    <3>2. gate' = [gate EXCEPT ![r][i] = n]
      BY <2>1 DEF Begin
    <3> HIDE DEF i, n
    <3>3. \A q \in Replica, s \in Sandbox :
             gate'[q][s] = gate[q][s] \/ (q = r /\ s = i /\ gate'[q][s] = n)
      BY <1>0, <1>2, <3>1, <3>2
    <3> QED
      BY <2>1, <3>3 DEF i, n
  <2>2. CASE ~Gated(op)
    BY <2>2 DEF Begin
  <2> QED
    BY <2>1, <2>2
<1>6. \A u \in Task \ {t} : TaskKept(u)
  <2> SUFFICES ASSUME NEW u \in Task \ {t}
               PROVE  TaskKept(u)
    OBVIOUS
  <2>1. \A q \in Replica, s \in Sandbox : Kept(gate[q][s], gate'[q][s], u)
    BY <1>0, <1>2, <1>3, <1>5, SameKept, JoinKept
  <2> QED
    BY <1>1, <1>2, <2>1, SameKept DEF TaskKept
<1>7. Ordered(t)'
  <2>1. AtHome(t)'
    BY <1>1, <1>5 DEF Ordered, AtHome
  <2>2. \A s \in Sandbox : t \in DOMAIN gate'[r][s] => Gated(op) /\ s = op.on
    BY <1>0, <1>3, <1>5
  <2>3. GateFirst(t)'
    BY <1>1, <1>2, <1>4, <2>2 DEF GateFirst
  <2>4. LocalAscends(t)'
    BY <1>1, <1>4 DEF LocalAscends
  <2>5. SlotNext(t)' /\ AdvisoryAscends(t)' /\ IdentityLast(t)'
    BY <1>1, <1>2 DEF Fresh, SlotNext, AdvisoryAscends, IdentityLast
  <2> QED
    BY <2>1, <2>3, <2>4, <2>5 DEF Ordered
<1> QED
  BY <1>6, <1>7, OrderFromParts

\* A task asks for a local key, after the smaller ones.
LEMMA WaitLocalOrder ==
  ASSUME LockInv, OrderInv, NEW t \in Task, NEW k \in Key, WaitLocal(t, k)
  PROVE  OrderInv'
<1> DEFINE r == ReplicaOf[t]
           q == local[r][k]
           m == LockMode(operation[t], k)
           n == Join(q, t, m)
<1>0. r \in Replica
  BY LocksAssumption
<1>1. /\ at[t] = "local" /\ Ordered(t) /\ operation[t] \in Operation
      /\ Gated(operation[t]) => Granted(gate[r][operation[t].on], t)
      /\ AllGranted(local[r], t) /\ IsNext(local[r], t, k)
      /\ UNCHANGED <<at, operation, gate, slot, advisory, identity, identityKey>>
  BY DEF WaitLocal, LocalOf, OrderInv, taskVars, LockInv, QueueTypes
<1>2. /\ q \in FairQueue /\ m \in {"shared", "exclusive"} /\ t \notin DOMAIN q
      /\ local \in [Replica -> [Key -> FairQueue]]
  BY <1>0, <1>1, LockSets DEF LockInv, QueueTypes, IsNext, Joined
<1>3. local' = [local EXCEPT ![r][k] = n]
  BY DEF WaitLocal
<1>4. \A p \in Replica, j \in Key :
        \/ local'[p][j] = local[p][j]
        \/ p = r /\ j = k /\ local'[p][j] = n
  BY <1>0, <1>2, <1>3
<1>5. \A u \in Task \ {t} : TaskKept(u)
  <2> SUFFICES ASSUME NEW u \in Task \ {t}
               PROVE  TaskKept(u)
    OBVIOUS
  <2>1. Kept(q, n, u)
    BY <1>2, JoinKept
  <2> HIDE DEF n
  <2>2. \A p \in Replica, j \in Key : Kept(local[p][j], local'[p][j], u)
    BY <1>4, <2>1, SameKept
  <2> QED
    BY <1>1, <2>2, SameKept DEF TaskKept
<1>6. DOMAIN n = DOMAIN q \cup {t}
  BY DEF Join
<1>7. Keys(operation[t]) \subseteq Key /\ Key \subseteq Int
  BY <1>1, LockSets, LocksAssumption DEF Key
<1> HIDE DEF n
<1>8. Ordered(t)'
  <2>1. AtHome(t)'
    BY <1>1, <1>4 DEF Ordered, AtHome
  <2>2. GateFirst(t)'
    <3>1. \A s \in Sandbox : t \in DOMAIN gate[r][s] =>
             /\ Gated(operation[t]) /\ s = operation[t].on
             /\ Granted(gate[r][s], t)
      BY <1>1 DEF Ordered, GateFirst
    <3> QED
      BY <1>1, <3>1 DEF GateFirst
  <2>3. LocalAscends(t)'
    <3> SUFFICES ASSUME NEW i \in Key, t \in DOMAIN local'[r][i]
                 PROVE  /\ i \in Keys(operation[t])
                        /\ \A j \in Keys(operation[t]) :
                             j < i => Granted(local'[r][j], t)
      BY <1>1 DEF LocalAscends
    <3>1. i \in Keys(operation[t])
      BY <1>0, <1>1, <1>4 DEF Ordered, LocalAscends, IsNext
    <3>2. ASSUME NEW j \in Keys(operation[t]), j < i
          PROVE  Granted(local'[r][j], t)
      <4>1. CASE i = k
        <5>1. t \in DOMAIN local[r][j]
          <6>1. j \in Joined(local[r], t) \/ k =< j
            BY <1>1 DEF IsNext
          <6>2. j \in Int /\ k \in Int
            BY <1>7
          <6>3. ~(k =< j)
            BY <6>2, <3>2, <4>1
          <6> QED
            BY <6>1, <6>3 DEF Joined
        <5>2. Granted(local[r][j], t)
          BY <1>1, <5>1 DEF AllGranted, Joined
        <5> QED
          BY <1>0, <1>2, <1>4, <1>7, <5>1, <5>2
      <4>2. CASE i # k
        <5>1. t \in DOMAIN local[r][i]
          BY <1>0, <1>4, <4>2
        <5>2. Granted(local[r][j], t)
          BY <1>1, <3>2, <5>1 DEF Ordered, LocalAscends
        <5>3. t \in DOMAIN local[r][j]
          BY <5>2 DEF Granted
        <5> QED
          BY <1>0, <1>2, <1>4, <1>7, <5>2, <5>3
      <4> QED
        BY <4>1, <4>2
    <3> QED
      BY <3>1, <3>2
  <2>4. SlotNext(t)' /\ AdvisoryAscends(t)' /\ IdentityLast(t)'
    BY <1>1 DEF Ordered, SlotNext, AdvisoryAscends, IdentityLast, HasSlot, Guarding
  <2> QED
    BY <2>1, <2>2, <2>3, <2>4 DEF Ordered
<1> QED
  BY <1>5, <1>8, OrderFromParts

\* A local guard is complete and has no session; a distributed one has all its
\* keys granted.
LEMMA HoldOrder ==
  ASSUME LockInv, OrderInv, NEW t \in Task, HoldLocal(t) \/ Hold(t)
  PROVE  OrderInv'
<1> DEFINE r == ReplicaOf[t]
<1>0. r \in Replica
  BY LocksAssumption
<1>1. /\ at' = [at EXCEPT ![t] = "held"] /\ Ordered(t)
      /\ UNCHANGED <<operation, gate, local, slot, advisory, identity, identityKey>>
  BY DEF HoldLocal, Hold, OrderInv
<1>2. /\ at \in [Task -> {"idle", "local", "session", "held", "identity",
                          "identified", "finishing"}]
      /\ at'[t] = "held"
  BY <1>1 DEF LockInv, QueueTypes
<1>3. \A u \in Task \ {t} : TaskKept(u)
  BY <1>1, <1>2, SameKept DEF TaskKept
<1>4. AtHome(t)' /\ GateFirst(t)' /\ LocalAscends(t)' /\ IdentityLast(t)'
  BY <1>1, <1>2 DEF Ordered, AtHome, GateFirst, LocalAscends, IdentityLast,
                    HoldLocal, Hold
<1>5. SlotNext(t)' /\ AdvisoryAscends(t)'
  <2>1. CASE HoldLocal(t)
    <3>1. at[t] = "local" /\ t \notin DOMAIN slot[r]
      BY <2>1 DEF HoldLocal, LockInv, NoRequests
    <3>2. \A k \in Key : t \notin DOMAIN advisory[k]
      BY <1>1, <3>1 DEF Ordered, SlotNext
    <3> QED
      BY <1>1, <1>2, <3>1, <3>2 DEF SlotNext, AdvisoryAscends, HasSlot
  <2>2. CASE Hold(t)
    <3>1. at[t] = "session" /\ HasSlot(t) /\ Complete(advisory, t)
      BY <2>2 DEF Hold
    <3>2. \A k \in Key : t \in DOMAIN advisory[k] => Granted(advisory[k], t)
      BY <1>1, <3>1 DEF Ordered, AdvisoryAscends, Complete, AllGranted, Joined
    <3>3. SlotNext(t)'
      BY <1>1, <1>2, <3>1 DEF SlotNext, HasSlot
    <3> QED
      BY <1>1, <1>2, <3>2, <3>3 DEF AdvisoryAscends, Guarding
  <2> QED
    BY <2>1, <2>2
<1>6. Ordered(t)'
  BY <1>4, <1>5 DEF Ordered
<1> QED
  BY <1>3, <1>6, OrderFromParts

\* A connection is asked for with no advisory lock held.
LEMMA WaitSlotOrder ==
  ASSUME LockInv, OrderInv, NEW t \in Task, WaitSlot(t)
  PROVE  OrderInv'
<1> DEFINE r == ReplicaOf[t]
           n == Join(slot[r], t, "exclusive")
<1>0. r \in Replica
  BY LocksAssumption
<1>1. /\ at[t] = "local" /\ Ordered(t) /\ at' = [at EXCEPT ![t] = "session"]
      /\ slot' = [slot EXCEPT ![r] = n]
      /\ UNCHANGED <<operation, gate, local, advisory, identity, identityKey>>
  BY DEF WaitSlot, OrderInv
<1>2. /\ at \in [Task -> {"idle", "local", "session", "held", "identity",
                          "identified", "finishing"}]
      /\ slot \in [Replica -> FairQueue] /\ t \notin DOMAIN slot[r]
  BY <1>1 DEF LockInv, QueueTypes, NoRequests
<1>3. \A u \in Task \ {t} : TaskKept(u)
  <2> SUFFICES ASSUME NEW u \in Task \ {t}
               PROVE  TaskKept(u)
    OBVIOUS
  <2>1. Kept(slot[r], n, u)
    BY <1>0, <1>2, JoinKept
  <2> HIDE DEF n
  <2>2. \A p \in Replica : Kept(slot[p], slot'[p], u)
    BY <1>1, <1>2, <2>1, SameKept
  <2> QED
    BY <1>1, <1>2, <2>2, SameKept DEF TaskKept
<1> HIDE DEF n
<1>4. at'[t] = "session" /\ \A p \in Replica \ {r} : slot'[p] = slot[p]
  BY <1>1, <1>2
<1>5. AtHome(t)' /\ GateFirst(t)' /\ LocalAscends(t)' /\ IdentityLast(t)'
  BY <1>1, <1>4 DEF Ordered, AtHome, GateFirst, LocalAscends, IdentityLast
<1>6. SlotNext(t)' /\ AdvisoryAscends(t)'
  BY <1>1, <1>4 DEF Ordered, SlotNext, AdvisoryAscends
<1>7. Ordered(t)'
  BY <1>5, <1>6 DEF Ordered
<1> QED
  BY <1>3, <1>7, OrderFromParts

\* acquire_mutation_locks takes the next advisory key once the ones before it
\* are granted.
LEMMA WaitAdvisoryOrder ==
  ASSUME LockInv, OrderInv, NEW t \in Task, NEW k \in Key, WaitAdvisory(t, k)
  PROVE  OrderInv'
<1> DEFINE q == advisory[k]
           m == LockMode(operation[t], k)
           n == Join(q, t, m)
<1>1. /\ at[t] = "session" /\ Ordered(t) /\ operation[t] \in Operation
      /\ HasSlot(t) /\ AllGranted(advisory, t) /\ IsNext(advisory, t, k)
      /\ UNCHANGED <<at, operation, gate, local, slot, identity, identityKey>>
  BY DEF WaitAdvisory, OrderInv, taskVars, LockInv, QueueTypes
<1>2. /\ q \in FairQueue /\ m \in {"shared", "exclusive"} /\ t \notin DOMAIN q
      /\ advisory \in [Key -> FairQueue]
  BY <1>1, LockSets DEF LockInv, QueueTypes, IsNext, Joined
<1>3. advisory' = [advisory EXCEPT ![k] = n]
  BY DEF WaitAdvisory
<1>4. \A j \in Key : \/ j # k /\ advisory'[j] = advisory[j]
                     \/ j = k /\ advisory'[j] = n
  BY <1>2, <1>3
<1>5. \A u \in Task \ {t} : TaskKept(u)
  <2> SUFFICES ASSUME NEW u \in Task \ {t}
               PROVE  TaskKept(u)
    OBVIOUS
  <2>1. Kept(q, n, u)
    BY <1>2, JoinKept
  <2> HIDE DEF n
  <2>2. \A j \in Key : Kept(advisory[j], advisory'[j], u)
    BY <1>4, <2>1, SameKept
  <2> QED
    BY <1>1, <2>2, SameKept DEF TaskKept
<1>6. Keys(operation[t]) \subseteq Key /\ Key \subseteq Int
  BY <1>1, LockSets, LocksAssumption DEF Key
<1> HIDE DEF n
<1>7. Ordered(t)'
  <2>1. AtHome(t)' /\ GateFirst(t)' /\ LocalAscends(t)' /\ IdentityLast(t)'
    BY <1>1 DEF Ordered, AtHome, GateFirst, LocalAscends, IdentityLast
  <2>2. SlotNext(t)'
    BY <1>1 DEF SlotNext, HasSlot
  <2>3. t \notin DOMAIN identityKey /\ ~Guarding(t)
    BY <1>1 DEF Ordered, IdentityLast, Guarding
  <2>4. \A i \in Key : t \in DOMAIN advisory'[i] =>
          /\ i \in Keys(operation[t])
          /\ \A j \in Keys(operation[t]) : j < i => Granted(advisory'[j], t)
    <3> SUFFICES ASSUME NEW i \in Key, t \in DOMAIN advisory'[i]
                 PROVE  /\ i \in Keys(operation[t])
                        /\ \A j \in Keys(operation[t]) :
                             j < i => Granted(advisory'[j], t)
      OBVIOUS
    <3>1. i \in Keys(operation[t])
      BY <1>1, <1>4 DEF Ordered, AdvisoryAscends, IsNext
    <3>2. ASSUME NEW j \in Keys(operation[t]), j < i
          PROVE  Granted(advisory'[j], t)
      <4>1. CASE i = k
        <5>1. t \in DOMAIN advisory[j]
          <6>1. j \in Joined(advisory, t) \/ k =< j
            BY <1>1 DEF IsNext
          <6>2. j \in Int /\ k \in Int
            BY <1>6
          <6>3. ~(k =< j)
            BY <6>2, <3>2, <4>1
          <6> QED
            BY <6>1, <6>3 DEF Joined
        <5>2. Granted(advisory[j], t)
          BY <1>1, <5>1 DEF AllGranted, Joined
        <5> QED
          BY <1>2, <1>4, <1>6, <5>1, <5>2
      <4>2. CASE i # k
        <5>1. t \in DOMAIN advisory[i]
          BY <1>4, <4>2
        <5>2. Granted(advisory[j], t)
          BY <1>1, <3>2, <5>1 DEF Ordered, AdvisoryAscends
        <5>3. t \in DOMAIN advisory[j]
          BY <5>2 DEF Granted
        <5> QED
          BY <1>2, <1>4, <1>6, <5>2, <5>3
      <4> QED
        BY <4>1, <4>2
    <3> QED
      BY <3>1, <3>2
  <2>5. AdvisoryAscends(t)'
    BY <1>1, <2>3, <2>4 DEF AdvisoryAscends, Guarding
  <2> QED
    BY <2>1, <2>2, <2>5 DEF Ordered
<1> QED
  BY <1>5, <1>7, OrderFromParts

\* The identity mutex and then the identity key are asked for under the guard,
\* the key once the mutex is held.
LEMMA IdentityOrder ==
  ASSUME LockInv, OrderInv, NEW t \in Task,
         \/ WaitIdentity(t) \/ WaitIdentityKey(t) \/ Identify(t) \/ LeaveIdentity(t)
         \/ GiveUpIdentity(t)
  PROVE  OrderInv'
<1> DEFINE r == ReplicaOf[t]
<1>0. r \in Replica
  BY LocksAssumption
<1>1. /\ UNCHANGED <<operation, gate, local, slot, advisory>>
      /\ Ordered(t) /\ Guarding(t) /\ Guarding(t)'
      /\ at'[t] # "held" /\ \A u \in Task \ {t} : at'[u] = at[u]
  BY DEF WaitIdentity, WaitIdentityKey, Identify, LeaveIdentity, GiveUpIdentity,
         DropIdentity, OrderInv, taskVars, Guarding, LockInv, QueueTypes
<1>2. identity \in [Replica -> FairQueue] /\ identityKey \in FairQueue
  BY DEF LockInv, QueueTypes
<1>3. /\ \A p \in Replica \ {r} : identity'[p] = identity[p]
      /\ \A u \in Task \ {t}, p \in Replica : Kept(identity[p], identity'[p], u)
      /\ \A u \in Task \ {t} : Kept(identityKey, identityKey', u)
      /\ t \in DOMAIN identityKey' /\ t \in DOMAIN identity'[r] =>
           Granted(identity'[r], t)
  <2>1. CASE WaitIdentity(t)
    <3> DEFINE n == Join(identity[r], t, "exclusive")
    <3>1. t \notin DOMAIN identity[r] /\ t \notin DOMAIN identityKey
      BY <1>1, <2>1 DEF WaitIdentity, LockInv, NoRequests, Ordered, IdentityLast
    <3>2. \A u \in Task \ {t} : Kept(identity[r], n, u)
      BY <1>0, <1>2, <3>1, JoinKept
    <3>3. identity' = [identity EXCEPT ![r] = n] /\ identityKey' = identityKey
      BY <2>1 DEF WaitIdentity
    <3> HIDE DEF n
    <3> QED
      BY <1>0, <1>2, <3>1, <3>2, <3>3, SameKept
  <2>2. CASE WaitIdentityKey(t)
    <3>1. /\ t \notin DOMAIN identityKey /\ Granted(identity[r], t)
          /\ identity' = identity /\ identityKey' = Join(identityKey, t, "exclusive")
      BY <2>2 DEF WaitIdentityKey
    <3>2. \A u \in Task \ {t} : Kept(identityKey, identityKey', u)
      BY <1>2, <3>1, JoinKept
    <3> QED
      BY <3>1, <3>2, SameKept
  <2>3. CASE Identify(t)
    BY <1>1, <2>3, SameKept DEF Identify, Ordered, IdentityLast
  <2>4. CASE LeaveIdentity(t) \/ GiveUpIdentity(t)
    <3> DEFINE n == Leave(identity[r], t)
    <3>1. \A u \in Task \ {t} : Kept(identity[r], n, u)
      BY <1>0, <1>2, LeaveKept
    <3>2. t \notin DOMAIN n
      BY DEF Leave
    <3>3. identity' = [identity EXCEPT ![r] = n] /\ identityKey' = identityKey
      BY <2>4 DEF LeaveIdentity, GiveUpIdentity, DropIdentity
    <3> HIDE DEF n
    <3> QED
      BY <1>0, <1>2, <3>1, <3>2, <3>3, SameKept
  <2> QED
    BY <2>1, <2>2, <2>3, <2>4
<1>4. \A u \in Task \ {t} : TaskKept(u)
  BY <1>1, <1>3, SameKept DEF TaskKept
<1>5. AtHome(t)' /\ GateFirst(t)' /\ LocalAscends(t)'
  BY <1>1, <1>3 DEF Ordered, AtHome, GateFirst, LocalAscends
<1>6. SlotNext(t)'
  BY <1>1 DEF Ordered, SlotNext, HasSlot, Guarding
<1>7. AdvisoryAscends(t)'
  BY <1>1 DEF Ordered, AdvisoryAscends, Guarding
<1>8. IdentityLast(t)'
  BY <1>1, <1>3 DEF IdentityLast, Guarding
<1>9. Ordered(t)'
  BY <1>5, <1>6, <1>7, <1>8 DEF Ordered
<1> QED
  BY <1>4, <1>9, OrderFromParts

\* What is dropped leaves the process; the session it may leave behind has its
\* connection, and its advisory requests stay in order.
LEMMA DropOrder ==
  ASSUME LockInv, OrderInv, NEW t \in Task, Release(t) \/ GiveUp(t)
  PROVE  OrderInv'
<1> DEFINE r == ReplicaOf[t]
<1>0. r \in Replica
  BY LocksAssumption
<1>1. /\ at' = [at EXCEPT ![t] = "idle"] /\ Ordered(t)
      /\ operation' = [operation EXCEPT ![t] = NoOperation]
      /\ gate' = [gate EXCEPT ![r] = [s \in Sandbox |-> Leave(gate[r][s], t)]]
      /\ local' = [local EXCEPT ![r] = [k \in Key |-> Leave(local[r][k], t)]]
      /\ UNCHANGED <<advisory, identity, identityKey>>
  BY DEF Release, GiveUp, Drop, OrderInv
<1>2. /\ at \in [Task -> {"idle", "local", "session", "held", "identity",
                          "identified", "finishing"}]
      /\ operation \in [Task -> Operation \cup {NoOperation}]
      /\ gate \in [Replica -> [Sandbox -> FairQueue]]
      /\ local \in [Replica -> [Key -> FairQueue]]
      /\ slot \in [Replica -> FairQueue]
  BY DEF LockInv, QueueTypes
<1>3. \A p \in Replica, s \in Sandbox :
        \/ p # r /\ gate'[p][s] = gate[p][s]
        \/ p = r /\ gate'[p][s] = Leave(gate[p][s], t)
  BY <1>0, <1>1, <1>2
<1>4. \A p \in Replica, k \in Key :
        \/ p # r /\ local'[p][k] = local[p][k]
        \/ p = r /\ local'[p][k] = Leave(local[p][k], t)
  BY <1>0, <1>1, <1>2
<1>5. \/ slot' = slot /\ (t \in DOMAIN slot[r] => HasSlot(t))
      \/ slot' = [slot EXCEPT ![r] = Leave(slot[r], t)]
  <2>1. CASE Release(t)
    BY <1>1, <2>1 DEF Release, Ordered, SlotNext
  <2>2. CASE GiveUp(t) /\ at[t] = "local"
    BY <2>2 DEF GiveUp, LockInv, NoRequests
  <2>3. CASE GiveUp(t) /\ at[t] = "session"
    BY <2>3 DEF GiveUp
  <2> QED
    BY <2>1, <2>2, <2>3 DEF GiveUp
<1>6. \A p \in Replica :
        \/ slot'[p] = slot[p]
        \/ p = r /\ slot'[p] = Leave(slot[p], t)
  BY <1>0, <1>2, <1>5
<1>7. \A u \in Task \ {t} : TaskKept(u)
  <2> SUFFICES ASSUME NEW u \in Task \ {t}
               PROVE  TaskKept(u)
    OBVIOUS
  <2>1. \A p \in Replica, s \in Sandbox : Kept(gate[p][s], gate'[p][s], u)
    BY <1>2, <1>3, SameKept, LeaveKept
  <2>2. \A p \in Replica, k \in Key : Kept(local[p][k], local'[p][k], u)
    BY <1>2, <1>4, SameKept, LeaveKept
  <2>3. \A p \in Replica : Kept(slot[p], slot'[p], u)
    BY <1>2, <1>6, SameKept, LeaveKept
  <2> QED
    BY <1>1, <1>2, <2>1, <2>2, <2>3, SameKept DEF TaskKept
<1>8. Ordered(t)'
  <2>1. \A q : t \notin DOMAIN Leave(q, t)
    BY DEF Leave
  <2>2. at'[t] = "idle"
    BY <1>1, <1>2
  <2>3. /\ \A s \in Sandbox : t \notin DOMAIN gate'[r][s]
        /\ \A k \in Key : t \notin DOMAIN local'[r][k]
    BY <1>0, <1>3, <1>4, <2>1
  <2>4. AtHome(t)'
    BY <1>1, <1>3, <1>4, <1>6, <2>1 DEF Ordered, AtHome
  <2>5. GateFirst(t)' /\ LocalAscends(t)'
    BY <2>3 DEF GateFirst, LocalAscends
  <2>6. SlotNext(t)'
    <3>1. CASE slot' = slot /\ (t \in DOMAIN slot[r] => HasSlot(t))
      BY <2>2, <3>1 DEF SlotNext, HasSlot
    <3>2. CASE slot' = [slot EXCEPT ![r] = Leave(slot[r], t)]
      <4>1. t \notin DOMAIN slot'[r]
        BY <1>0, <1>2, <2>1, <3>2
      <4> QED
        BY <2>2, <4>1 DEF SlotNext
    <3> QED
      BY <1>5, <3>1, <3>2
  <2>7. AdvisoryAscends(t)'
    BY <1>1, <2>2 DEF Ordered, AdvisoryAscends, Guarding
  <2>8. IdentityLast(t)'
    BY <1>1, <2>2 DEF Ordered, IdentityLast
  <2> QED
    BY <2>4, <2>5, <2>6, <2>7, <2>8 DEF Ordered
<1> QED
  BY <1>7, <1>8, OrderFromParts

\* Sessions and connections only go.
LEMMA SessionOrder ==
  ASSUME LockInv, OrderInv, NEW t \in Task,
         Unlock(t) \/ ReturnSlot(t) \/ CloseIdentity(t) \/ LoseSession(t)
  PROVE  OrderInv'
<1> DEFINE r == ReplicaOf[t]
<1>0. r \in Replica
  BY LocksAssumption
<1>1. UNCHANGED <<at, operation, gate, local, identity>> /\ Ordered(t)
  BY DEF Unlock, ReturnSlot, CloseIdentity, LoseSession, taskVars, OrderInv
<1>2. /\ slot \in [Replica -> FairQueue] /\ advisory \in [Key -> FairQueue]
      /\ identityKey \in FairQueue
  BY DEF LockInv, QueueTypes
<1>3. \A q : t \notin DOMAIN Leave(q, t)
  BY DEF Leave
<1>4. \A p \in Replica :
        \/ slot'[p] = slot[p]
        \/ p = r /\ slot'[p] = Leave(slot[p], t)
  BY <1>0, <1>2
  DEF Unlock, ReturnSlot, CloseIdentity, LoseSession
<1>5. \/ \A k \in Key : advisory'[k] = advisory[k]
      \/ /\ at[t] # "session"
         /\ \A k \in Key : advisory'[k] = Leave(advisory[k], t)
  BY DEF Unlock, ReturnSlot, CloseIdentity, LoseSession
<1>6. identityKey' = identityKey \/ identityKey' = Leave(identityKey, t)
  BY DEF Unlock, ReturnSlot, CloseIdentity, LoseSession
<1>7. at[t] = "session" => slot'[r] = slot[r]
  BY DEF Unlock, ReturnSlot, CloseIdentity, LoseSession
<1>8. \A u \in Task \ {t} : TaskKept(u)
  <2> SUFFICES ASSUME NEW u \in Task \ {t}
               PROVE  TaskKept(u)
    OBVIOUS
  <2>1. \A p \in Replica : Kept(slot[p], slot'[p], u)
    BY <1>2, <1>4, SameKept, LeaveKept
  <2>2. \A k \in Key : Kept(advisory[k], advisory'[k], u)
    BY <1>2, <1>5, SameKept, LeaveKept
  <2>3. Kept(identityKey, identityKey', u)
    BY <1>2, <1>6, SameKept, LeaveKept
  <2> QED
    BY <1>1, <2>1, <2>2, <2>3, SameKept DEF TaskKept
<1>9. Ordered(t)'
  <2>1. AtHome(t)' /\ GateFirst(t)' /\ LocalAscends(t)'
    BY <1>1, <1>3, <1>4 DEF Ordered, AtHome, GateFirst, LocalAscends
  <2>2. SlotNext(t)'
    <3>1. \A k \in Key : t \in DOMAIN advisory'[k] => t \in DOMAIN advisory[k]
      BY <1>3, <1>5
    <3>2. t \in DOMAIN slot'[r] => slot'[r] = slot[r]
      BY <1>0, <1>3, <1>4
    <3> QED
      BY <1>1, <1>7, <3>1, <3>2 DEF Ordered, SlotNext, HasSlot
  <2>3. t \in DOMAIN identityKey' => t \in DOMAIN identityKey
    BY <1>3, <1>6
  <2>4. AdvisoryAscends(t)'
    <3>1. CASE \A k \in Key : advisory'[k] = advisory[k]
      <4>1. at[t] = "session" => Keys(operation[t]) \subseteq Key
        BY LockSets DEF LockInv, QueueTypes
      <4> QED
        BY <1>1, <2>3, <3>1, <4>1 DEF Ordered, AdvisoryAscends, Guarding
    <3>2. CASE \A k \in Key : advisory'[k] = Leave(advisory[k], t)
      BY <1>3, <3>2 DEF AdvisoryAscends
    <3> QED
      BY <1>5, <3>1, <3>2
  <2>5. IdentityLast(t)'
    BY <1>1, <2>3 DEF Ordered, IdentityLast
  <2> QED
    BY <2>1, <2>2, <2>4, <2>5 DEF Ordered
<1> QED
  BY <1>8, <1>9, OrderFromParts

\* Every step keeps tasks asking in one order.
LEMMA NextOrder == LockInv /\ OrderInv /\ [Next]_vars => OrderInv'
<1> SUFFICES ASSUME LockInv, OrderInv, [Next]_vars
             PROVE  OrderInv'
  OBVIOUS
<1>1. CASE UNCHANGED vars
  BY <1>1 DEF vars, taskVars, OrderInv, Ordered, AtHome, GateFirst, LocalAscends,
              SlotNext, AdvisoryAscends, IdentityLast, HasSlot, Guarding
<1>2. CASE Next
  BY <1>2, BeginOrder, WaitLocalOrder, HoldOrder, WaitSlotOrder,
     WaitAdvisoryOrder, IdentityOrder, DropOrder, SessionOrder
  DEF Next, Acquire, Work, Background
<1> QED
  BY <1>1, <1>2

-------------------------------------------------------------------------------
(* From the order of requests to the absence of cycles.                     *)

\* The places of the lock order: gate, local keys, slot, advisory keys,
\* identity mutex, identity key.
IsPlace(g, k) == g \in 0..5 /\ IF g \in {1, 3} THEN k \in Key ELSE k = 0

Before(g, k, h, j) == g < h \/ (g = h /\ k < j)

Queue(t, g, k) ==
    IF g = 0 THEN gate[ReplicaOf[t]][operation[t].on]
    ELSE IF g = 1 THEN local[ReplicaOf[t]][k]
    ELSE IF g = 2 THEN slot[ReplicaOf[t]]
    ELSE IF g = 3 THEN advisory[k]
    ELSE IF g = 4 THEN identity[ReplicaOf[t]]
    ELSE identityKey

Asked(t, g, k) ==
    /\ IsPlace(g, k)
    /\ g = 0 => Gated(operation[t]) /\ operation[t].on \in Sandbox
    /\ t \in DOMAIN Queue(t, g, k)

Waiting(t, g, k) ==
    /\ Asked(t, g, k)
    /\ IF g = 2 THEN ~SlotGranted(Queue(t, g, k), t) ELSE ~Granted(Queue(t, g, k), t)

\* A task waits at the last place it asked at.
LEMMA WaitsAtLast ==
  ASSUME LockInv, OrderInv, NEW t \in Task, NEW g, NEW k, NEW h, NEW j,
         Waiting(t, g, k), Asked(t, h, j)
  PROVE  ~Before(g, k, h, j)
<1> DEFINE r == ReplicaOf[t]
<1>0. /\ r \in Replica /\ Ordered(t)
      /\ IsPlace(g, k) /\ IsPlace(h, j) /\ Key \subseteq Int
  BY LocksAssumption DEF OrderInv, Waiting, Asked, Key
<1>1. at[t] = "local" => h \in {0, 1}
  <2> SUFFICES ASSUME at[t] = "local", h \notin {0, 1}
               PROVE  FALSE
    OBVIOUS
  <2>1. /\ t \notin DOMAIN slot[r] /\ t \notin DOMAIN identity[r]
        /\ t \notin DOMAIN identityKey /\ \A i \in Key : t \notin DOMAIN advisory[i]
    BY <1>0 DEF LockInv, NoRequests, Ordered, SlotNext, IdentityLast
  <2> QED
    BY <1>0, <2>1 DEF Asked, Queue, IsPlace
<1>2. at[t] \notin {"idle", "local"} =>
        \A i \in Keys(operation[t]) : Granted(local[r][i], t)
  BY DEF LockInv, Holdings
<1>3. at[t] # "idle" => operation[t] \in Operation
  BY DEF LockInv, QueueTypes
<1>4. CASE g = 0
  <2>1. t \in DOMAIN gate[r][operation[t].on] /\ operation[t].on \in Sandbox
    BY <1>4 DEF Waiting, Asked, Queue
  <2>2. ~Granted(gate[r][operation[t].on], t)
    BY <1>4 DEF Waiting, Queue
  <2>3. at[t] # "idle"
    BY <2>1 DEF LockInv, NoRequests
  <2>4. \A i \in Key : t \notin DOMAIN local[r][i]
    BY <1>0, <2>1, <2>2 DEF Ordered, GateFirst
  <2>5. at[t] = "local"
    <3>1. GlobalKey \in Keys(operation[t]) /\ GlobalKey \in Key
      BY <1>3, <2>3, LockSets DEF Key
    <3> QED
      BY <1>2, <2>3, <2>4, <3>1 DEF Granted
  <2>6. h # 1
    BY <2>4 DEF Asked, Queue, IsPlace
  <2> QED
    BY <1>0, <1>1, <1>4, <2>5, <2>6 DEF Before, IsPlace
<1>5. CASE g = 1
  <2>1. k \in Key /\ t \in DOMAIN local[r][k] /\ ~Granted(local[r][k], t)
    BY <1>5 DEF Waiting, Asked, Queue, IsPlace
  <2>2. k \in Keys(operation[t])
    BY <1>0, <2>1 DEF Ordered, LocalAscends
  <2>3. at[t] # "idle"
    BY <2>1 DEF LockInv, NoRequests
  <2>4. at[t] = "local"
    BY <1>2, <2>1, <2>2, <2>3
  <2>5. h = 1 => j \in Key /\ t \in DOMAIN local[r][j]
    BY DEF Asked, Queue, IsPlace
  <2>6. h = 1 => ~(k < j)
    BY <1>0, <2>1, <2>2, <2>5 DEF Ordered, LocalAscends
  <2> QED
    BY <1>0, <1>1, <1>5, <2>4, <2>6 DEF Before, IsPlace
<1>6. CASE g = 2
  <2>1. t \in DOMAIN slot[r] /\ ~HasSlot(t)
    BY <1>6 DEF Waiting, Asked, Queue, HasSlot
  <2>2. at[t] = "session"
    BY <1>0, <2>1 DEF Ordered, SlotNext
  <2>3. /\ t \notin DOMAIN identity[r] /\ t \notin DOMAIN identityKey
        /\ \A i \in Key : t \notin DOMAIN advisory[i]
    BY <1>0, <2>1, <2>2 DEF LockInv, NoRequests, Ordered, SlotNext, IdentityLast
  <2>4. h \notin {3, 4, 5}
    BY <2>3 DEF Asked, Queue, IsPlace
  <2> QED
    BY <1>0, <1>6, <2>4 DEF Before, IsPlace
<1>7. CASE g = 3
  <2>1. k \in Key /\ t \in DOMAIN advisory[k] /\ ~Granted(advisory[k], t)
    BY <1>7 DEF Waiting, Asked, Queue, IsPlace
  <2>2. t \notin DOMAIN identityKey /\ ~Guarding(t)
    BY <1>0, <2>1 DEF Ordered, AdvisoryAscends
  <2>3. t \notin DOMAIN identity[r]
    BY <2>2 DEF Guarding, LockInv, NoRequests
  <2>4. h = 3 => ~(k < j)
    BY <1>0, <2>1 DEF Asked, Queue, IsPlace, Ordered, AdvisoryAscends
  <2>5. h \notin {4, 5}
    BY <2>2, <2>3 DEF Asked, Queue
  <2> QED
    BY <1>0, <1>7, <2>4, <2>5 DEF Before, IsPlace
<1>8. CASE g = 4
  <2>1. t \in DOMAIN identity[r] /\ ~Granted(identity[r], t)
    BY <1>8 DEF Waiting, Asked, Queue
  <2>2. h # 5
    BY <1>0, <2>1 DEF Asked, Queue, Ordered, IdentityLast
  <2> QED
    BY <1>0, <1>8, <2>2 DEF Before, IsPlace
<1>9. CASE g = 5
  BY <1>0, <1>9 DEF Before, IsPlace
<1> QED
  BY <1>0, <1>4, <1>5, <1>6, <1>7, <1>8, <1>9 DEF IsPlace

\* The tasks ahead of a request asked at the same place, in the same queue.
LEMMA SameQueue ==
  ASSUME LockInv, OrderInv, NEW u \in Task, NEW g, NEW k, Asked(u, g, k),
         NEW v \in Queue(u, g, k)[u].ahead
  PROVE  /\ v \in Task /\ v # u
         /\ Asked(v, g, k) /\ Queue(v, g, k) = Queue(u, g, k)
         /\ Queue(u, g, k) \in FairQueue
<1> DEFINE r == ReplicaOf[u]
           q == Queue(u, g, k)
<1>0. r \in Replica /\ IsPlace(g, k) /\ g \in 0..5 /\ u \in DOMAIN q
  BY LocksAssumption DEF Asked, IsPlace
<1>1. q \in FairQueue
  <2>1. g = 0 => operation[u].on \in Sandbox
    BY DEF Asked
  <2> QED
    BY <1>0, <2>1 DEF LockInv, QueueTypes, Queue, IsPlace
<1>2. v \in DOMAIN q /\ v \in Task /\ v # u
  <2> HIDE DEF q
  <2>1. IsQueue(q)
    BY <1>1, QueueFacts
  <2>2. v \in q[u].ahead
    BY DEF q
  <2> QED
    BY <1>0, <2>1, <2>2 DEF IsQueue
<1>3. Ordered(v)
  BY <1>2 DEF OrderInv
<1>4. g \in {0, 1, 2, 4} => ReplicaOf[v] = r
  <2>1. g = 0 => operation[u].on \in Sandbox
    BY DEF Asked
  <2> QED
    BY <1>0, <1>2, <1>3, <2>1 DEF Ordered, AtHome, Queue, IsPlace
<1>5. CASE g = 0
  <2>1. operation[u].on \in Sandbox /\ v \in DOMAIN gate[ReplicaOf[v]][operation[u].on]
    BY <1>2, <1>4, <1>5 DEF Asked, Queue
  <2>2. Gated(operation[v]) /\ operation[v].on = operation[u].on
    BY <1>3, <2>1 DEF Ordered, GateFirst
  <2> QED
    BY <1>0, <1>1, <1>2, <1>4, <1>5, <2>1, <2>2 DEF Asked, Queue
<1>6. CASE g # 0
  BY <1>0, <1>1, <1>2, <1>4, <1>6 DEF Asked, Queue, IsPlace
<1> QED
  BY <1>5, <1>6

\* v waits further on than u.
Later(v, u) ==
    \E g, h \in 0..5 : \E k, j \in Key \cup {0} :
        /\ Waiting(u, g, k) /\ Waiting(v, h, j)
        /\ \/ Before(g, k, h, j)
           \/ g = h /\ k = j /\ v \in Queue(u, g, k)[u].ahead

\* A task waits at one place.
LEMMA WaitsAtOne ==
  ASSUME LockInv, OrderInv, NEW t \in Task, NEW g, NEW k, NEW h, NEW j,
         Waiting(t, g, k), Waiting(t, h, j)
  PROVE  g = h /\ k = j
<1>1. Asked(t, g, k) /\ Asked(t, h, j)
  BY DEF Waiting
<1>2. ~Before(g, k, h, j) /\ ~Before(h, j, g, k)
  BY <1>1, WaitsAtLast
<1>3. g \in Int /\ h \in Int /\ k \in Int /\ j \in Int
  BY <1>1, LocksAssumption DEF Asked, IsPlace, Key
<1> QED
  BY <1>2, <1>3 DEF Before

\* No task waits at a place later than its own.
LEMMA LaterIrreflexive ==
  ASSUME LockInv, OrderInv, NEW u \in Task
  PROVE  ~Later(u, u)
<1> SUFFICES ASSUME Later(u, u)
             PROVE  FALSE
  OBVIOUS
<1>1. PICK g, h \in 0..5 : \E k, j \in Key \cup {0} :
        /\ Waiting(u, g, k) /\ Waiting(u, h, j)
        /\ \/ Before(g, k, h, j)
           \/ g = h /\ k = j /\ u \in Queue(u, g, k)[u].ahead
  BY DEF Later
<1>2. PICK k, j \in Key \cup {0} :
        /\ Waiting(u, g, k) /\ Waiting(u, h, j)
        /\ \/ Before(g, k, h, j)
           \/ g = h /\ k = j /\ u \in Queue(u, g, k)[u].ahead
  BY <1>1
<1>3. g = h /\ k = j
  BY <1>2, WaitsAtOne
<1>4. ~Before(g, k, h, j)
  BY <1>3, LocksAssumption DEF Before, Key
<1>5. Asked(u, g, k) /\ u \in Queue(u, g, k)[u].ahead
  BY <1>2, <1>4 DEF Waiting
<1> QED
  BY <1>5, SameQueue

\* The order of the places tasks wait at is transitive.
LEMMA LaterTransitive ==
  ASSUME LockInv, OrderInv, NEW u \in Task, NEW v \in Task, NEW w \in Task,
         Later(w, v), Later(v, u)
  PROVE  Later(w, u)
<1>1. PICK g, h \in 0..5, k, j \in Key \cup {0} :
        /\ Waiting(u, g, k) /\ Waiting(v, h, j)
        /\ \/ Before(g, k, h, j)
           \/ g = h /\ k = j /\ v \in Queue(u, g, k)[u].ahead
  BY DEF Later
<1>2. PICK h2, i \in 0..5, j2, l \in Key \cup {0} :
        /\ Waiting(v, h2, j2) /\ Waiting(w, i, l)
        /\ \/ Before(h2, j2, i, l)
           \/ h2 = i /\ j2 = l /\ w \in Queue(v, h2, j2)[v].ahead
  BY DEF Later
<1>3. h2 = h /\ j2 = j
  BY <1>1, <1>2, WaitsAtOne
<1>4. k \in Int /\ j \in Int /\ l \in Int
  BY LocksAssumption DEF Key
<1>5. \/ Before(g, k, i, l)
      \/ /\ g = i /\ k = l /\ g = h /\ k = j
         /\ v \in Queue(u, g, k)[u].ahead /\ w \in Queue(v, g, k)[v].ahead
  BY <1>1, <1>2, <1>3, <1>4 DEF Before
<1>6. CASE Before(g, k, i, l)
  BY <1>1, <1>2, <1>6 DEF Later
<1>7. CASE /\ g = i /\ k = l
           /\ v \in Queue(u, g, k)[u].ahead /\ w \in Queue(v, g, k)[v].ahead
  <2> DEFINE q == Queue(u, g, k)
  <2>1. Asked(u, g, k)
    BY <1>1 DEF Waiting
  <2>2. q \in FairQueue /\ Queue(v, g, k) = q
    BY <1>7, <2>1, SameQueue
  <2>3. v \in q[u].ahead /\ w \in q[v].ahead /\ u \in DOMAIN q
    BY <1>7, <2>1, <2>2 DEF Asked
  <2> HIDE DEF q
  <2>4. w \in q[u].ahead
    BY <2>2, <2>3, QueueFacts
  <2> QED
    BY <1>1, <1>2, <1>7, <2>4 DEF Later, q
<1> QED
  BY <1>5, <1>6, <1>7

\* What WaitsFor collects: the tasks ahead of a waiting request.
LEMMA WaitsSomewhere ==
  ASSUME LockInv, OrderInv, NEW t \in Task, NEW v \in WaitsFor(t)
  PROVE  \E g \in 0..5 : \E k \in Key \cup {0} :
             Waiting(t, g, k) /\ v \in Queue(t, g, k)[t].ahead
<1> DEFINE r == ReplicaOf[t]
<1>0. Ordered(t)
  BY DEF OrderInv
<1>1. \A q : v \in Waits(q, t) => t \in DOMAIN q /\ ~Granted(q, t) /\ v \in q[t].ahead
  BY DEF Waits
<1>2. CASE \E s \in Sandbox : v \in Waits(gate[r][s], t)
  <2>1. PICK s \in Sandbox : v \in Waits(gate[r][s], t)
    BY <1>2
  <2>2. t \in DOMAIN gate[r][s] /\ ~Granted(gate[r][s], t) /\ v \in gate[r][s][t].ahead
    BY <1>1, <2>1
  <2>3. Gated(operation[t]) /\ s = operation[t].on
    BY <1>0, <2>2 DEF Ordered, GateFirst
  <2>4. Waiting(t, 0, 0) /\ v \in Queue(t, 0, 0)[t].ahead
    BY <2>2, <2>3 DEF Waiting, Asked, Queue, IsPlace
  <2> QED
    BY <2>4
<1>3. CASE \E k \in Key : v \in Waits(local[r][k], t)
  <2>1. PICK k \in Key : v \in Waits(local[r][k], t)
    BY <1>3
  <2>2. t \in DOMAIN local[r][k] /\ ~Granted(local[r][k], t) /\ v \in local[r][k][t].ahead
    BY <1>1, <2>1
  <2>3. Waiting(t, 1, k) /\ v \in Queue(t, 1, k)[t].ahead
    BY <2>2 DEF Waiting, Asked, Queue, IsPlace
  <2> QED
    BY <2>3
<1>4. CASE t \in DOMAIN slot[r] /\ ~SlotGranted(slot[r], t) /\ v \in slot[r][t].ahead
  <2>1. Waiting(t, 2, 0) /\ v \in Queue(t, 2, 0)[t].ahead
    BY <1>4 DEF Waiting, Asked, Queue, IsPlace
  <2> QED
    BY <2>1
<1>5. CASE \E k \in Key : v \in Waits(advisory[k], t)
  <2>1. PICK k \in Key : v \in Waits(advisory[k], t)
    BY <1>5
  <2>2. t \in DOMAIN advisory[k] /\ ~Granted(advisory[k], t) /\ v \in advisory[k][t].ahead
    BY <1>1, <2>1
  <2>3. Waiting(t, 3, k) /\ v \in Queue(t, 3, k)[t].ahead
    BY <2>2 DEF Waiting, Asked, Queue, IsPlace
  <2> QED
    BY <2>3
<1>6. CASE v \in Waits(identity[r], t)
  <2>1. Waiting(t, 4, 0) /\ v \in Queue(t, 4, 0)[t].ahead
    BY <1>1, <1>6 DEF Waiting, Asked, Queue, IsPlace
  <2> QED
    BY <2>1
<1>7. CASE v \in Waits(identityKey, t)
  <2>1. Waiting(t, 5, 0) /\ v \in Queue(t, 5, 0)[t].ahead
    BY <1>1, <1>7 DEF Waiting, Asked, Queue, IsPlace
  <2> QED
    BY <2>1
<1>8. \/ v \in UNION {Waits(gate[r][s], t) : s \in Sandbox}
      \/ v \in UNION {Waits(local[r][k], t) : k \in Key}
      \/ v \in IF t \in DOMAIN slot[r] /\ ~SlotGranted(slot[r], t)
              THEN slot[r][t].ahead ELSE {}
      \/ v \in UNION {Waits(advisory[k], t) : k \in Key}
      \/ v \in Waits(identity[r], t)
      \/ v \in Waits(identityKey, t)
  BY DEF WaitsFor
<1>9. /\ v \in UNION {Waits(gate[r][s], t) : s \in Sandbox} =>
           \E s \in Sandbox : v \in Waits(gate[r][s], t)
      /\ v \in UNION {Waits(local[r][k], t) : k \in Key} =>
           \E k \in Key : v \in Waits(local[r][k], t)
      /\ v \in UNION {Waits(advisory[k], t) : k \in Key} =>
           \E k \in Key : v \in Waits(advisory[k], t)
  OBVIOUS
<1> QED
  BY <1>2, <1>3, <1>4, <1>5, <1>6, <1>7, <1>8, <1>9

\* Whoever is waited for, if it waits, waits further on.
LEMMA WaitedForLater ==
  ASSUME LockInv, OrderInv, NEW u \in Task, NEW v \in WaitsFor(u),
         WaitsFor(v) # {}
  PROVE  v \in Task /\ Later(v, u)
<1>1. PICK g \in 0..5, k \in Key \cup {0} :
        Waiting(u, g, k) /\ v \in Queue(u, g, k)[u].ahead
  BY WaitsSomewhere
<1>2. v \in Task /\ Asked(v, g, k)
  <2>1. Asked(u, g, k)
    BY <1>1 DEF Waiting
  <2> QED
    BY <1>1, <2>1, SameQueue
<1>3. PICK w : w \in WaitsFor(v)
  OBVIOUS
<1>4. PICK h \in 0..5, j \in Key \cup {0} : Waiting(v, h, j)
  BY <1>2, <1>3, WaitsSomewhere
<1>5. ~Before(h, j, g, k)
  BY <1>2, <1>4, WaitsAtLast
<1>6. k \in Int /\ j \in Int
  BY LocksAssumption DEF Key
<1>7. Before(g, k, h, j) \/ (g = h /\ k = j)
  BY <1>5, <1>6 DEF Before
<1> QED
  BY <1>1, <1>2, <1>4, <1>7 DEF Later

\* A nonempty set of numbers has a least one.
LEMMA LeastElement ==
  ASSUME NEW T \in SUBSET Nat, T # {}
  PROVE  \E x \in T : \A y \in T : x <= y
<1> DEFINE R == OpToRel(<, Nat)
<1>1. IsWellFoundedOn(R, Nat)
  BY NatLessThanWellFounded
<1>2. \A a, b \in Nat : <<a, b>> \in R <=> a < b
  BY DEF OpToRel
<1> HIDE DEF R
<1>3. PICK x \in T : \A y \in T : ~(<<y, x>> \in R)
  BY <1>1, WFMin
<1>4. \A y \in T : ~(y < x)
  BY <1>2, <1>3
<1> QED
  BY <1>4

\* The tasks that wait further on than a given one.
Above(u) == {v \in Task : Later(v, u)}

\* Whoever waits at a later place has fewer tasks above it.
LEMMA AboveShrinks ==
  ASSUME LockInv, OrderInv, NEW u \in Task, NEW v \in Task, Later(v, u)
  PROVE  /\ Cardinality(Above(v)) \in Nat /\ Cardinality(Above(u)) \in Nat
         /\ Cardinality(Above(v)) < Cardinality(Above(u))
<1>1. Above(v) \subseteq Above(u)
  BY LaterTransitive DEF Above
<1>2. v \in Above(u) /\ v \notin Above(v)
  BY LaterIrreflexive DEF Above
<1>3. IsFiniteSet(Above(u))
  <2>1. Above(u) \in SUBSET Task
    BY DEF Above
  <2> QED
    BY <2>1, LocksAssumption, FS_Subset
<1>4. /\ IsFiniteSet(Above(v))
      /\ Cardinality(Above(v)) <= Cardinality(Above(u))
      /\ Cardinality(Above(v)) # Cardinality(Above(u))
  BY <1>1, <1>2, <1>3, FS_Subset
<1>5. Cardinality(Above(v)) \in Nat /\ Cardinality(Above(u)) \in Nat
  BY <1>3, <1>4, FS_CardinalityType
<1> QED
  BY <1>4, <1>5

\* Tasks that ask in one order never wait in a circle.
LEMMA OrderedNeverCircular == LockInv /\ OrderInv => NoCircularWait
<1> DEFINE waits == [o \in Task |-> WaitsFor(o)]
           waiting == {o \in Task : waits[o] # {}}
<1>0. \A o \in Task : waits[o] = WaitsFor(o)
  OBVIOUS
<1> HIDE DEF waits
<1> SUFFICES ASSUME LockInv, OrderInv,
                    NEW knot \in SUBSET waiting, knot # {},
                    \A o \in knot : waits[o] \cap knot # {}
             PROVE  FALSE
  <2>1. ASSUME \A knot \in (SUBSET waiting) \ {{}} :
                  \E o \in knot : waits[o] \cap knot = {}
        PROVE  NoCircularWait
    BY <2>1 DEF NoCircularWait, waits
  <2> QED
    BY <2>1
<1> DEFINE T == {Cardinality(Above(o)) : o \in knot}
<1>1. \A u \in knot : \E v \in knot : Later(v, u)
  BY <1>0, WaitedForLater
<1>2. \A u \in knot : Cardinality(Above(u)) \in Nat
  BY <1>1, AboveShrinks
<1>3. T \in SUBSET Nat /\ T # {}
  BY <1>2
<1>4. PICK x \in T : \A y \in T : x <= y
  BY <1>3, LeastElement
<1>5. PICK u \in knot : x = Cardinality(Above(u))
  BY <1>4
<1>6. PICK v \in knot : Later(v, u)
  BY <1>1
<1>7. Cardinality(Above(v)) < Cardinality(Above(u))
  BY <1>6, AboveShrinks
<1>8. x <= Cardinality(Above(v))
  BY <1>4
<1>9. Cardinality(Above(u)) \in Nat /\ Cardinality(Above(v)) \in Nat
  BY <1>2
<1> QED
  BY <1>5, <1>7, <1>8, <1>9

\* mutation_lock's ordering rules: whatever tasks and abandoned sessions do,
\* no set of them waits for each other in a circle, so no acquisition needs
\* its deadline to get out of a deadlock.
THEOREM NeverCircular == Spec => []NoCircularWait
<1>1. LockInv /\ OrderInv => NoCircularWait
  BY OrderedNeverCircular
<1> QED
  BY <1>1, InitLocks, NextLocks, InitOrder, NextOrder, PTL DEF Spec

=============================================================================
