----------------------- MODULE CredentialRefreshProofs -----------------------
(***************************************************************************)
(* Proofs about CredentialRefresh, for every set of workers and operators   *)
(* and every bound on attempts, changes and faults.                         *)
(*                                                                          *)
(* The argument has three layers.  RowsKnown: versions make what anyone     *)
(* read of a row either the row or out of date.  StagedAlone and            *)
(* GrantSpared: a staged grant is known to one actor until the row names    *)
(* it, so nothing on its way to deletion is the grant of a live row.        *)
(* Unpresented: while lock sessions last, one worker is under way, and a    *)
(* grant with an unrecorded outcome is the grant of a row in flight.        *)
(***************************************************************************)
EXTENDS CredentialRefresh, TLAPS

Observation == [id : Nat, epoch : Nat, mint : Nat]

WorkerState ==
    [at : {"idle", "waiting", "locked", "checked", "read", "swept", "ready",
           "minting", "minted", "staged", "claimed", "applied"},
     kind : Kind, seen : Observation \cup {NoRow}, state : Row \cup {NoRow},
     result : {"none", "rotated", "kept", "error", "reauthorization_required"}]

RequestState ==
    [at : {"idle", "configuring", "staged", "listed", "deleting", "purging",
           "removing"},
     state : Row \cup {NoRow}, staged : Nat]

RefreshTypes ==
    /\ row \in Row \cup {NoRow}
    /\ stored \in SUBSET Nat
    /\ lock \in Worker \cup {NoWorker}
    /\ worker \in [Worker -> WorkerState]
    /\ request \in [Operator -> RequestState]
    /\ unsettled \in SUBSET Nat
    /\ lockLost \in BOOLEAN
    /\ misled \in SUBSET Nat
    /\ handles \in Nat /\ epochs \in Nat

\* A worker, or a request, that goes by a row it read.
Carries(x) ==
    x.at \in {"read", "swept", "ready", "minting", "minted", "staged",
              "claimed", "applied"}
TookUp(y) ==
    \/ y.at \in {"deleting", "purging", "removing"}
    \/ y.at \in {"configuring", "staged"} /\ y.state # NoRow

\* r is the row that state was read from, at the same version.
Agrees(state, r) == r # NoRow /\ r.id = state.id /\ r.version = state.version

\* Rows are numbered by the epochs they begin in, and versions only grow: what
\* was read of a row is not ahead of it.
NotAhead(state, r, e) ==
    /\ state \in Row
    /\ state.id <= e
    /\ r # NoRow /\ r.id = state.id => state.version <= r.version

\* What was read of a row at its present version is the row, up to a grant
\* that a worker has staged to replace the row's.
WorkerFits(x, r, e) ==
    Carries(x) =>
        /\ NotAhead(x.state, r, e)
        /\ ~x.state.deleting
        /\ Agrees(x.state, r) =>
              /\ ~r.deleting
              /\ x.state.status = r.status
              /\ x.at = "staged" => x.state.pending = r.pending \cup {r.grant}
              /\ x.at # "staged" =>
                    x.state.grant = r.grant /\ x.state.pending = r.pending

RequestFits(y, r, e) ==
    TookUp(y) =>
        /\ NotAhead(y.state, r, e)
        /\ y.at \in {"configuring", "staged"} => ~y.state.deleting
        /\ y.at \in {"purging", "removing"} => y.state.deleting
        /\ Agrees(y.state, r) =>
              /\ r.deleting = y.state.deleting
              /\ y.state.grant = r.grant /\ y.state.pending = r.pending

RowsKnown ==
    /\ row # NoRow => row.id <= epochs
    /\ \A w \in Worker : WorkerFits(worker[w], row, epochs)
    /\ \A o \in Operator : RequestFits(request[o], row, epochs)

\* The handles that a row, a worker and a request speak of, and the ones that
\* a worker or a request has staged and nobody else should know.
Mentions(state) == state.pending \cup {state.grant}
RowUses(r) == {h \in Nat : r # NoRow /\ h \in Mentions(r)}
WorkerUses(x) ==
    {h \in Nat : /\ Carries(x)
                 /\ \/ h \in x.state.pending
                    \/ x.at # "staged" /\ h = x.state.grant}
WorkerHolds(x) == {h \in Nat : x.at = "staged" /\ h = x.state.grant}
RequestUses(y) == {h \in Nat : TookUp(y) /\ h \in Mentions(y.state)}
RequestHolds(y) == {h \in Nat : y.at = "staged" /\ h = y.staged}

Known(h) ==
    \/ h \in unsettled \/ h \in RowUses(row)
    \/ \E w \in Worker : h \in WorkerUses(worker[w])
    \/ \E o \in Operator : h \in RequestUses(request[o])
HeldByWorker(w, h) == h \in WorkerHolds(worker[w])
HeldByRequest(o, h) == h \in RequestHolds(request[o])

\* Handles are numbered as material is staged.
HandlesNumbered ==
    \A h \in Nat :
        (\/ Known(h) \/ h \in stored
         \/ \E w \in Worker : HeldByWorker(w, h)
         \/ \E o \in Operator : HeldByRequest(o, h)) => h <= handles

\* A staged grant is known to nobody but the one who staged it, and stored.
StagedAlone ==
    \A h \in Nat :
        /\ \A w \in Worker : HeldByWorker(w, h) =>
              /\ h \in stored /\ ~Known(h)
              /\ \A v \in Worker : HeldByWorker(v, h) => v = w
              /\ \A o \in Operator : ~HeldByRequest(o, h)
        /\ \A o \in Operator : HeldByRequest(o, h) =>
              /\ h \in stored /\ ~Known(h)
              /\ \A p \in Operator : HeldByRequest(p, h) => p = o

\* The handles that a worker or a request may be about to delete.
WorkerDooms(x) ==
    {h \in Nat : Carries(x) /\ x.at # "staged" /\ h \in x.state.pending}
RequestDooms(y) ==
    {h \in Nat : y.at \in {"purging", "removing"} /\ h \in Mentions(y.state)}

\* What anyone is about to delete is not the grant of a live row.
GrantSpared ==
    /\ row # NoRow => row.grant \notin row.pending
    /\ Live =>
          /\ row.grant \in stored \cup misled
          /\ \A w \in Worker : row.grant \notin WorkerDooms(worker[w])
          /\ \A o \in Operator : row.grant \notin RequestDooms(request[o])

RefreshInv ==
    RefreshTypes /\ RowsKnown /\ HandlesNumbered /\ StagedAlone /\ GrantSpared

\* A row in which a grant without a recorded outcome is marked, and a worker
\* that goes on to the issuer only with a grant that has none outstanding.
RowMarked(r, open) ==
    r # NoRow /\ ~r.deleting /\ r.grant \in open => InFlight(r.status)
Presentable(x, r, open) ==
    /\ x.at \in {"checked", "minting"} => x.kind # "cleanup"
    /\ x.kind # "cleanup" =>
          /\ x.at = "checked" /\ r # NoRow /\ ~r.deleting => r.grant \notin open
          /\ x.at \in {"read", "swept", "ready", "minting"} =>
                x.state.grant \notin open
    /\ x.at \in {"minting", "minted"} /\ r # NoRow /\ ~r.deleting
          /\ r.grant = x.state.grant => InFlight(r.status)

\* While lock sessions last, only the holder of the lock is under way.
Unpresented ==
    ~lockLost =>
        /\ \A w \in Worker : worker[w].at \notin {"idle", "waiting"} => lock = w
        /\ RowMarked(row, unsettled)
        /\ \A w \in Worker : Presentable(worker[w], row, unsettled)

-------------------------------------------------------------------------------
(* What a step may do to the row, and what it leaves of everyone else.      *)

RowStep(r, e, q, d) ==
    \/ q = r /\ d = e
    \/ /\ r # NoRow /\ q # NoRow
       /\ q.id = r.id /\ q.version = r.version + 1
       /\ r.deleting => q.deleting
       /\ d >= e
    \/ r = NoRow /\ q # NoRow /\ q.id = d /\ d = e + 1
    \/ r # NoRow /\ q = NoRow /\ d = e

\* What fitted the row before a change of it fits the changed row.
LEMMA WorkerFitKept ==
    ASSUME NEW r \in Row \cup {NoRow}, NEW q \in Row \cup {NoRow},
           NEW e \in Nat, NEW d \in Nat, RowStep(r, e, q, d),
           NEW x \in WorkerState, WorkerFits(x, r, e)
    PROVE  WorkerFits(x, q, d)
  <1>1. CASE ~Carries(x)  BY <1>1 DEF WorkerFits
  <1>2. CASE Carries(x)
    <2> DEFINE s == x.state
    <2>1. s \in Row /\ s.id <= e /\ (r # NoRow /\ r.id = s.id => s.version <= r.version)
      BY <1>2 DEF WorkerFits, NotAhead
    <2>2. s.id \in Nat /\ s.version \in Nat  BY <2>1 DEF Row
    <2>3. r # NoRow => r.id \in Nat /\ r.version \in Nat  BY DEF Row
    <2>4. q # NoRow => q.id \in Nat /\ q.version \in Nat  BY DEF Row
    <2>5. CASE q = r /\ d = e  BY <2>5
    <2>6. CASE ~(q = r /\ d = e)
      <3>1. ~Agrees(s, q)
        BY <2>1, <2>2, <2>3, <2>4, <2>6 DEF RowStep, Agrees
      <3>2. NotAhead(s, q, d)
        BY <2>1, <2>2, <2>3, <2>4, <2>6 DEF RowStep, NotAhead
      <3> QED  BY <3>1, <3>2 DEF WorkerFits
    <2> QED  BY <2>5, <2>6
  <1> QED  BY <1>1, <1>2

\* What a request read stays consistent with the row as the row moves on.
LEMMA RequestFitKept ==
    ASSUME NEW r \in Row \cup {NoRow}, NEW q \in Row \cup {NoRow},
           NEW e \in Nat, NEW d \in Nat, RowStep(r, e, q, d),
           NEW y \in RequestState, RequestFits(y, r, e)
    PROVE  RequestFits(y, q, d)
  <1>1. CASE ~TookUp(y)  BY <1>1 DEF RequestFits
  <1>2. CASE TookUp(y)
    <2> DEFINE s == y.state
    <2>1. s \in Row /\ s.id <= e /\ (r # NoRow /\ r.id = s.id => s.version <= r.version)
      BY <1>2 DEF RequestFits, NotAhead
    <2>2. s.id \in Nat /\ s.version \in Nat  BY <2>1 DEF Row
    <2>3. r # NoRow => r.id \in Nat /\ r.version \in Nat  BY DEF Row
    <2>4. q # NoRow => q.id \in Nat /\ q.version \in Nat  BY DEF Row
    <2>5. CASE q = r /\ d = e  BY <2>5
    <2>6. CASE ~(q = r /\ d = e)
      <3>1. ~Agrees(s, q)
        BY <2>1, <2>2, <2>3, <2>4, <2>6 DEF RowStep, Agrees
      <3>2. NotAhead(s, q, d)
        BY <2>1, <2>2, <2>3, <2>4, <2>6 DEF RowStep, NotAhead
      <3> QED  BY <3>1, <3>2 DEF RequestFits
    <2> QED  BY <2>5, <2>6
  <1> QED  BY <1>1, <1>2

\* What a step of a worker, which becomes x, does: the row moves on, the worker
\* speaks of what it or the row spoke of before and of what it stages, and it
\* deletes what it was about to delete or gives up a grant it staged.
WorkerStep(w, x) ==
    /\ x \in WorkerState
    /\ worker' = [worker EXCEPT ![w] = x]
    /\ request' = request
    /\ row' \in Row \cup {NoRow} /\ epochs' \in Nat
    /\ RowStep(row, epochs, row', epochs')
    /\ WorkerFits(x, row', epochs')
    /\ lock' \in Worker \cup {NoWorker} /\ lockLost' \in BOOLEAN
    /\ stored' \in SUBSET Nat /\ unsettled' \in SUBSET Nat
    /\ misled' \in SUBSET Nat /\ misled \subseteq misled'
    /\ handles' \in Nat /\ handles <= handles'
    /\ \A h \in Nat :
          h \in unsettled' \/ h \in RowUses(row') \/ h \in WorkerUses(x) =>
              \/ h \in unsettled \/ h \in RowUses(row) \/ h \in WorkerUses(worker[w])
              \/ h \in WorkerHolds(worker[w]) /\ h \notin WorkerHolds(x)
    /\ \A h \in WorkerHolds(x) :
          /\ h \in stored' /\ h <= handles'
          /\ h \in WorkerHolds(worker[w]) \/ handles < h
    /\ \A h \in stored \ stored' :
          \/ h \in WorkerDooms(worker[w])
          \/ h \in WorkerHolds(worker[w]) /\ h \notin WorkerHolds(x)
    /\ \A h \in stored' \ stored : h <= handles'
    /\ row' # NoRow => row'.grant \notin row'.pending
    /\ row' # NoRow /\ ~row'.deleting =>
          /\ row'.grant \notin WorkerDooms(x)
          /\ \/ row # NoRow /\ ~row.deleting /\ row'.grant = row.grant
             \/ /\ row'.grant \in WorkerHolds(worker[w])
                /\ row'.grant \notin WorkerHolds(x)
                /\ row'.grant \in stored' \cup misled'

\* Such a step keeps the invariant.
LEMMA WorkerStepKeeps ==
    ASSUME RefreshInv, NEW w \in Worker, NEW x, WorkerStep(w, x)
    PROVE  RefreshInv'
  <1> DEFINE z == worker[w]
  <1>1. /\ row \in Row \cup {NoRow} /\ epochs \in Nat /\ handles \in Nat
        /\ worker \in [Worker -> WorkerState] /\ request \in [Operator -> RequestState]
        /\ z \in WorkerState
    BY DEF RefreshInv, RefreshTypes
  <1>2. /\ \A v \in Worker \ {w} : worker'[v] = worker[v]
        /\ worker'[w] = x
        /\ request' = request
    BY <1>1 DEF WorkerStep
  <1>3. RefreshTypes'
    BY <1>1 DEF RefreshInv, RefreshTypes, WorkerStep
  <1>4. RowsKnown'
    <2>1. row' # NoRow => row'.id <= epochs'
      <3>1. row # NoRow => row.id <= epochs /\ row.id \in Nat
        BY <1>1 DEF RefreshInv, RowsKnown, Row
      <3> QED  BY <1>1, <3>1 DEF WorkerStep, RowStep
    <2>2. \A v \in Worker : WorkerFits(worker'[v], row', epochs')
      <3>1. TAKE v \in Worker
      <3>2. CASE v = w  BY <1>2, <3>2 DEF WorkerStep
      <3>3. CASE v # w
        <4>1. worker[v] \in WorkerState  BY <1>1, <3>1
        <4>2. WorkerFits(worker[v], row, epochs)  BY <3>1 DEF RefreshInv, RowsKnown
        <4>3. WorkerFits(worker[v], row', epochs')
          BY <1>1, <4>1, <4>2, WorkerFitKept DEF WorkerStep
        <4> QED  BY <1>2, <3>3, <4>3
      <3> QED  BY <3>2, <3>3
    <2>3. \A o \in Operator : RequestFits(request'[o], row', epochs')
      <3>1. TAKE o \in Operator
      <3>2. request[o] \in RequestState  BY <1>1, <3>1
      <3>3. RequestFits(request[o], row, epochs)  BY <3>1 DEF RefreshInv, RowsKnown
      <3>4. RequestFits(request[o], row', epochs')
        BY <1>1, <3>2, <3>3, RequestFitKept DEF WorkerStep
      <3> QED  BY <1>2, <3>4
    <2> QED  BY <2>1, <2>2, <2>3 DEF RowsKnown
  <1> DEFINE Released(h) == h \in WorkerHolds(z) /\ h \notin WorkerHolds(x)
  <1>5. ASSUME NEW h \in Nat, Known(h)' PROVE Known(h) \/ Released(h)
    <2>1. CASE \E o \in Operator : h \in RequestUses(request'[o])
      BY <1>2, <2>1 DEF Known
    <2>2. CASE \E v \in Worker : h \in WorkerUses(worker'[v])
      <3>1. PICK v \in Worker : h \in WorkerUses(worker'[v])  BY <2>2
      <3>2. CASE v = w  BY <1>2, <3>1, <3>2 DEF WorkerStep, Known
      <3>3. CASE v # w  BY <1>2, <3>1, <3>3 DEF Known
      <3> QED  BY <3>2, <3>3
    <2>3. CASE h \in unsettled' \/ h \in RowUses(row')
      BY <2>3 DEF WorkerStep, Known
    <2> QED  BY <1>5, <2>1, <2>2, <2>3 DEF Known
  <1>6. ASSUME NEW h \in Nat, NEW v \in Worker, h \in WorkerHolds(worker'[v])
        PROVE  h \in WorkerHolds(worker[v]) \/ (v = w /\ handles < h)
    BY <1>2, <1>6 DEF WorkerStep
  <1>7. ASSUME NEW h \in Nat, Released(h)
        PROVE  /\ ~Known(h)
               /\ \A v \in Worker : h \notin WorkerHolds(worker'[v])
               /\ \A o \in Operator : h \notin RequestHolds(request[o])
               /\ h <= handles
    <2>1. HeldByWorker(w, h)  BY <1>7 DEF HeldByWorker
    <2>2. /\ ~Known(h) /\ h <= handles
          /\ \A v \in Worker : h \in WorkerHolds(worker[v]) => v = w
          /\ \A o \in Operator : h \notin RequestHolds(request[o])
      BY <2>1 DEF RefreshInv, StagedAlone, HandlesNumbered, HeldByWorker, HeldByRequest
    <2>3. ASSUME NEW v \in Worker PROVE h \notin WorkerHolds(worker'[v])
      <3>1. CASE v = w  BY <1>2, <1>7, <3>1
      <3>2. CASE v # w  BY <1>2, <2>2, <3>2
      <3> QED  BY <3>1, <3>2
    <2> QED  BY <2>2, <2>3
  <1> HIDE DEF z
  <1>8. HandlesNumbered'
    <2> SUFFICES ASSUME NEW h \in Nat,
                        \/ Known(h)' \/ h \in stored'
                        \/ \E q \in Worker : HeldByWorker(q, h)'
                        \/ \E q \in Operator : HeldByRequest(q, h)'
                 PROVE  h <= handles'
      BY DEF HandlesNumbered
    <2>1. handles \in Nat /\ handles' \in Nat /\ handles <= handles'
      BY <1>1 DEF WorkerStep
    <2>2. CASE Known(h)'
      <3>1. Known(h) \/ Released(h)  BY <1>5, <2>2
      <3>2. h <= handles  BY <1>7, <3>1 DEF RefreshInv, HandlesNumbered
      <3> QED  BY <2>1, <3>2
    <2>3. CASE h \in stored'
      <3>1. h \in stored => h <= handles  BY DEF RefreshInv, HandlesNumbered
      <3> QED  BY <2>1, <2>3, <3>1 DEF WorkerStep
    <2>4. CASE \E q \in Worker : HeldByWorker(q, h)'
      <3>1. PICK q \in Worker : h \in WorkerHolds(worker'[q])  BY <2>4 DEF HeldByWorker
      <3>2. CASE q = w  BY <1>2, <3>1, <3>2 DEF WorkerStep
      <3>3. CASE q # w
        <4>1. HeldByWorker(q, h)  BY <1>2, <3>1, <3>3 DEF HeldByWorker
        <4>2. h <= handles  BY <4>1 DEF RefreshInv, HandlesNumbered
        <4> QED  BY <2>1, <4>2
      <3> QED  BY <3>2, <3>3
    <2>5. CASE \E q \in Operator : HeldByRequest(q, h)'
      <3>1. PICK q \in Operator : HeldByRequest(q, h)  BY <1>2, <2>5 DEF HeldByRequest
      <3>2. h <= handles  BY <3>1 DEF RefreshInv, HandlesNumbered
      <3> QED  BY <2>1, <3>2
    <2> QED  BY <2>2, <2>3, <2>4, <2>5
  <1>9. ASSUME NEW h \in Nat, Known(h) PROVE h <= handles
    BY <1>9 DEF RefreshInv, HandlesNumbered
  <1>10. ASSUME NEW h \in Nat, h \in stored, h \notin stored'
         PROVE  Known(h) \/ Released(h)
    <2>1. h \in WorkerDooms(worker[w]) => h \in WorkerUses(worker[w])
      BY DEF WorkerDooms, WorkerUses, TookUp, Mentions
    <2> QED  BY <1>10, <2>1 DEF WorkerStep, Known, z
  <1>11. StagedAlone'
    <2> SUFFICES ASSUME NEW h \in Nat
                 PROVE  /\ \A q \in Worker : HeldByWorker(q, h)' =>
                             /\ h \in stored' /\ ~Known(h)'
                             /\ \A v \in Worker : HeldByWorker(v, h)' => v = q
                             /\ \A r \in Operator : ~HeldByRequest(r, h)'
                        /\ \A q \in Operator : HeldByRequest(q, h)' =>
                             /\ h \in stored' /\ ~Known(h)'
                             /\ \A p \in Operator : HeldByRequest(p, h)' => p = q
      BY DEF StagedAlone
    <2>1. ASSUME NEW q \in Worker, HeldByWorker(q, h)'
          PROVE  /\ h \in stored' /\ ~Known(h)'
                 /\ \A v \in Worker : HeldByWorker(v, h)' => v = q
                 /\ \A r \in Operator : ~HeldByRequest(r, h)'
      <3>1. h \in WorkerHolds(worker'[q])  BY <2>1 DEF HeldByWorker
      <3>2. ~Released(h)  BY <1>7, <3>1
      <3>3. CASE HeldByWorker(q, h)
        <4>1. /\ h \in stored /\ ~Known(h) /\ h <= handles
              /\ \A v \in Worker : HeldByWorker(v, h) => v = q
              /\ \A o \in Operator : ~HeldByRequest(o, h)
          BY <3>3 DEF RefreshInv, StagedAlone, HandlesNumbered
        <4>2. h \in stored'  BY <1>10, <3>2, <4>1
        <4>3. ~Known(h)'  BY <1>5, <3>2, <4>1
        <4>4. ASSUME NEW v \in Worker, HeldByWorker(v, h)' PROVE v = q
          <5>1. h \in WorkerHolds(worker[v]) \/ handles < h
            BY <1>6, <4>4 DEF HeldByWorker
          <5>2. ~(handles < h)  BY <1>1, <4>1
          <5> QED  BY <4>1, <5>1, <5>2 DEF HeldByWorker
        <4>5. \A r \in Operator : ~HeldByRequest(r, h)'
          BY <1>2, <4>1 DEF HeldByRequest
        <4> QED  BY <4>2, <4>3, <4>4, <4>5
      <3>4. CASE ~HeldByWorker(q, h)
        <4>1. q = w /\ handles < h  BY <1>6, <3>1, <3>4 DEF HeldByWorker
        <4>2. ~(h <= handles)  BY <1>1, <4>1
        <4>3. ~Known(h)'  BY <1>5, <1>9, <3>2, <4>2
        <4>4. h \in stored'  BY <1>2, <3>1, <4>1 DEF WorkerStep
        <4>5. ASSUME NEW v \in Worker, HeldByWorker(v, h)' PROVE v = q
          <5>1. h \in WorkerHolds(worker[v]) \/ v = w
            BY <1>6, <4>5 DEF HeldByWorker
          <5>2. h \notin WorkerHolds(worker[v])
            BY <4>2 DEF RefreshInv, HandlesNumbered, HeldByWorker
          <5> QED  BY <4>1, <5>1, <5>2
        <4>6. \A r \in Operator : ~HeldByRequest(r, h)'
          BY <1>2, <4>2 DEF RefreshInv, HandlesNumbered, HeldByRequest
        <4> QED  BY <4>3, <4>4, <4>5, <4>6
      <3> QED  BY <3>3, <3>4
    <2>2. ASSUME NEW q \in Operator, HeldByRequest(q, h)'
          PROVE  /\ h \in stored' /\ ~Known(h)'
                 /\ \A r \in Operator : HeldByRequest(r, h)' => r = q
                 /\ \A v \in Worker : ~HeldByWorker(v, h)'
      <3>1. HeldByRequest(q, h)  BY <1>2, <2>2 DEF HeldByRequest
      <3>2. /\ h \in stored /\ ~Known(h) /\ h <= handles
            /\ \A r \in Operator : HeldByRequest(r, h) => r = q
            /\ \A v \in Worker : ~HeldByWorker(v, h)
        BY <3>1 DEF RefreshInv, StagedAlone, HandlesNumbered
      <3>3. ~Released(h)  BY <1>7, <3>1 DEF HeldByRequest
      <3>4. h \in stored'  BY <1>10, <3>2, <3>3
      <3>5. ~Known(h)'  BY <1>5, <3>2, <3>3
      <3>6. \A r \in Operator : HeldByRequest(r, h)' => r = q
        BY <1>2, <3>2 DEF HeldByRequest
      <3>7. ASSUME NEW v \in Worker, HeldByWorker(v, h)' PROVE FALSE
        <4>1. h \in WorkerHolds(worker[v]) \/ handles < h
          BY <1>6, <3>7 DEF HeldByWorker
        <4>2. ~(handles < h)  BY <1>1, <3>2
        <4> QED  BY <3>2, <4>1, <4>2 DEF HeldByWorker
      <3> QED  BY <3>4, <3>5, <3>6, <3>7
    <2> QED  BY <2>1, <2>2
  <1>12. GrantSpared'
    <2>1. row' # NoRow => row'.grant \notin row'.pending  BY DEF WorkerStep
    <2>2. ASSUME Live'
          PROVE  /\ row'.grant \in stored' \cup misled'
                 /\ \A v \in Worker : row'.grant \notin WorkerDooms(worker'[v])
                 /\ \A o \in Operator : row'.grant \notin RequestDooms(request'[o])
      <3> DEFINE g == row'.grant
      <3>1. row' # NoRow /\ ~row'.deleting  BY <2>2 DEF Live
      <3>2. g \in Nat  BY <3>1 DEF WorkerStep, Row
      <3>3. g \notin WorkerDooms(x)  BY <3>1 DEF WorkerStep
      <3>4. CASE Live /\ g = row.grant
        <4>1. /\ g \in stored \cup misled
              /\ \A v \in Worker : g \notin WorkerDooms(worker[v])
              /\ \A o \in Operator : g \notin RequestDooms(request[o])
          BY <3>4 DEF RefreshInv, GrantSpared
        <4>2. g \in stored' \cup misled'
          <5>1. CASE g \in misled  BY <5>1 DEF WorkerStep
          <5>2. CASE g \in stored
            <6>1. ~Released(g)
              <7>1. Known(g)  BY <3>2, <3>4 DEF Known, RowUses, Mentions, Live
              <7> QED  BY <1>7, <3>2, <7>1
            <6> QED  BY <4>1, <5>2, <6>1 DEF WorkerStep, z
          <5> QED  BY <4>1, <5>1, <5>2
        <4>3. \A v \in Worker : g \notin WorkerDooms(worker'[v])
          BY <1>2, <3>3, <4>1
        <4> QED  BY <1>2, <4>1, <4>2, <4>3
      <3>5. CASE ~(Live /\ g = row.grant)
        <4>1. g \in stored' \cup misled' /\ Released(g)
          BY <3>1, <3>5 DEF WorkerStep, Live, z
        <4>2. ~Known(g)  BY <1>7, <3>2, <4>1
        <4>3. \A v \in Worker : g \notin WorkerDooms(worker[v])
          BY <3>2, <4>2 DEF Known, WorkerDooms, WorkerUses, TookUp, Mentions
        <4>4. \A o \in Operator : g \notin RequestDooms(request[o])
          BY <3>2, <4>2 DEF Known, RequestDooms, RequestUses, TookUp, Mentions
        <4> QED  BY <1>2, <3>3, <4>1, <4>3, <4>4
      <3> QED  BY <3>4, <3>5
    <2> QED  BY <2>1, <2>2 DEF GrantSpared
  <1> QED  BY <1>3, <1>4, <1>8, <1>11, <1>12 DEF RefreshInv

\* The same of a step of a request, which becomes y.
RequestStep(o, y) ==
    /\ y \in RequestState
    /\ request' = [request EXCEPT ![o] = y]
    /\ worker' = worker
    /\ row' \in Row \cup {NoRow} /\ epochs' \in Nat
    /\ RowStep(row, epochs, row', epochs')
    /\ RequestFits(y, row', epochs')
    /\ lock' \in Worker \cup {NoWorker} /\ lockLost' \in BOOLEAN
    /\ stored' \in SUBSET Nat /\ unsettled' \in SUBSET Nat
    /\ misled' \in SUBSET Nat /\ misled \subseteq misled'
    /\ handles' \in Nat /\ handles <= handles'
    /\ \A h \in Nat :
          h \in unsettled' \/ h \in RowUses(row') \/ h \in RequestUses(y) =>
              \/ h \in unsettled \/ h \in RowUses(row) \/ h \in RequestUses(request[o])
              \/ h \in RequestHolds(request[o]) /\ h \notin RequestHolds(y)
    /\ \A h \in RequestHolds(y) :
          /\ h \in stored' /\ h <= handles'
          /\ h \in RequestHolds(request[o]) \/ handles < h
    /\ \A h \in stored \ stored' :
          \/ h \in RequestDooms(request[o])
          \/ h \in RequestHolds(request[o]) /\ h \notin RequestHolds(y)
    /\ \A h \in stored' \ stored : h <= handles'
    /\ row' # NoRow => row'.grant \notin row'.pending
    /\ row' # NoRow /\ ~row'.deleting =>
          /\ row'.grant \notin RequestDooms(y)
          /\ \/ row # NoRow /\ ~row.deleting /\ row'.grant = row.grant
             \/ /\ row'.grant \in RequestHolds(request[o])
                /\ row'.grant \notin RequestHolds(y)
                /\ row'.grant \in stored' \cup misled'

\* So does such a step of a request.
LEMMA RequestStepKeeps ==
    ASSUME RefreshInv, NEW o \in Operator, NEW y, RequestStep(o, y)
    PROVE  RefreshInv'
  <1> DEFINE z == request[o]
  <1>1. /\ row \in Row \cup {NoRow} /\ epochs \in Nat /\ handles \in Nat
        /\ request \in [Operator -> RequestState] /\ worker \in [Worker -> WorkerState]
        /\ z \in RequestState
    BY DEF RefreshInv, RefreshTypes
  <1>2. /\ \A p \in Operator \ {o} : request'[p] = request[p]
        /\ request'[o] = y
        /\ worker' = worker
    BY <1>1 DEF RequestStep
  <1>3. RefreshTypes'
    BY <1>1 DEF RefreshInv, RefreshTypes, RequestStep
  <1>4. RowsKnown'
    <2>1. row' # NoRow => row'.id <= epochs'
      <3>1. row # NoRow => row.id <= epochs /\ row.id \in Nat
        BY <1>1 DEF RefreshInv, RowsKnown, Row
      <3> QED  BY <1>1, <3>1 DEF RequestStep, RowStep
    <2>2. \A p \in Operator : RequestFits(request'[p], row', epochs')
      <3>1. TAKE p \in Operator
      <3>2. CASE p = o  BY <1>2, <3>2 DEF RequestStep
      <3>3. CASE p # o
        <4>1. request[p] \in RequestState  BY <1>1, <3>1
        <4>2. RequestFits(request[p], row, epochs)  BY <3>1 DEF RefreshInv, RowsKnown
        <4>3. RequestFits(request[p], row', epochs')
          BY <1>1, <4>1, <4>2, RequestFitKept DEF RequestStep
        <4> QED  BY <1>2, <3>3, <4>3
      <3> QED  BY <3>2, <3>3
    <2>3. \A w \in Worker : WorkerFits(worker'[w], row', epochs')
      <3>1. TAKE w \in Worker
      <3>2. worker[w] \in WorkerState  BY <1>1, <3>1
      <3>3. WorkerFits(worker[w], row, epochs)  BY <3>1 DEF RefreshInv, RowsKnown
      <3>4. WorkerFits(worker[w], row', epochs')
        BY <1>1, <3>2, <3>3, WorkerFitKept DEF RequestStep
      <3> QED  BY <1>2, <3>4
    <2> QED  BY <2>1, <2>2, <2>3 DEF RowsKnown
  <1> DEFINE Released(h) == h \in RequestHolds(z) /\ h \notin RequestHolds(y)
  <1>5. ASSUME NEW h \in Nat, Known(h)' PROVE Known(h) \/ Released(h)
    <2>1. CASE \E w \in Worker : h \in WorkerUses(worker'[w])
      BY <1>2, <2>1 DEF Known
    <2>2. CASE \E p \in Operator : h \in RequestUses(request'[p])
      <3>1. PICK p \in Operator : h \in RequestUses(request'[p])  BY <2>2
      <3>2. CASE p = o  BY <1>2, <3>1, <3>2 DEF RequestStep, Known
      <3>3. CASE p # o  BY <1>2, <3>1, <3>3 DEF Known
      <3> QED  BY <3>2, <3>3
    <2>3. CASE h \in unsettled' \/ h \in RowUses(row')
      BY <2>3 DEF RequestStep, Known
    <2> QED  BY <1>5, <2>1, <2>2, <2>3 DEF Known
  <1>6. ASSUME NEW h \in Nat, NEW p \in Operator, h \in RequestHolds(request'[p])
        PROVE  h \in RequestHolds(request[p]) \/ (p = o /\ handles < h)
    BY <1>2, <1>6 DEF RequestStep
  <1>7. ASSUME NEW h \in Nat, Released(h)
        PROVE  /\ ~Known(h)
               /\ \A p \in Operator : h \notin RequestHolds(request'[p])
               /\ \A w \in Worker : h \notin WorkerHolds(worker[w])
               /\ h <= handles
    <2>1. HeldByRequest(o, h)  BY <1>7 DEF HeldByRequest
    <2>2. /\ ~Known(h) /\ h <= handles
          /\ \A p \in Operator : h \in RequestHolds(request[p]) => p = o
          /\ \A w \in Worker : h \notin WorkerHolds(worker[w])
      BY <2>1 DEF RefreshInv, StagedAlone, HandlesNumbered, HeldByWorker, HeldByRequest
    <2>3. ASSUME NEW p \in Operator PROVE h \notin RequestHolds(request'[p])
      <3>1. CASE p = o  BY <1>2, <1>7, <3>1
      <3>2. CASE p # o  BY <1>2, <2>2, <3>2
      <3> QED  BY <3>1, <3>2
    <2> QED  BY <2>2, <2>3
  <1> HIDE DEF z
  <1>8. HandlesNumbered'
    <2> SUFFICES ASSUME NEW h \in Nat,
                        \/ Known(h)' \/ h \in stored'
                        \/ \E q \in Worker : HeldByWorker(q, h)'
                        \/ \E q \in Operator : HeldByRequest(q, h)'
                 PROVE  h <= handles'
      BY DEF HandlesNumbered
    <2>1. handles \in Nat /\ handles' \in Nat /\ handles <= handles'
      BY <1>1 DEF RequestStep
    <2>2. CASE Known(h)'
      <3>1. Known(h) \/ Released(h)  BY <1>5, <2>2
      <3>2. h <= handles  BY <1>7, <3>1 DEF RefreshInv, HandlesNumbered
      <3> QED  BY <2>1, <3>2
    <2>3. CASE h \in stored'
      <3>1. h \in stored => h <= handles  BY DEF RefreshInv, HandlesNumbered
      <3> QED  BY <2>1, <2>3, <3>1 DEF RequestStep
    <2>4. CASE \E q \in Operator : HeldByRequest(q, h)'
      <3>1. PICK q \in Operator : h \in RequestHolds(request'[q])  BY <2>4 DEF HeldByRequest
      <3>2. CASE q = o  BY <1>2, <3>1, <3>2 DEF RequestStep
      <3>3. CASE q # o
        <4>1. HeldByRequest(q, h)  BY <1>2, <3>1, <3>3 DEF HeldByRequest
        <4>2. h <= handles  BY <4>1 DEF RefreshInv, HandlesNumbered
        <4> QED  BY <2>1, <4>2
      <3> QED  BY <3>2, <3>3
    <2>5. CASE \E q \in Worker : HeldByWorker(q, h)'
      <3>1. PICK q \in Worker : HeldByWorker(q, h)  BY <1>2, <2>5 DEF HeldByWorker
      <3>2. h <= handles  BY <3>1 DEF RefreshInv, HandlesNumbered
      <3> QED  BY <2>1, <3>2
    <2> QED  BY <2>2, <2>3, <2>4, <2>5
  <1>9. ASSUME NEW h \in Nat, Known(h) PROVE h <= handles
    BY <1>9 DEF RefreshInv, HandlesNumbered
  <1>10. ASSUME NEW h \in Nat, h \in stored, h \notin stored'
         PROVE  Known(h) \/ Released(h)
    <2>1. h \in RequestDooms(request[o]) => h \in RequestUses(request[o])
      BY DEF RequestDooms, RequestUses, TookUp, Mentions
    <2> QED  BY <1>10, <2>1 DEF RequestStep, Known, z
  <1>11. StagedAlone'
    <2> SUFFICES ASSUME NEW h \in Nat
                 PROVE  /\ \A q \in Worker : HeldByWorker(q, h)' =>
                             /\ h \in stored' /\ ~Known(h)'
                             /\ \A v \in Worker : HeldByWorker(v, h)' => v = q
                             /\ \A r \in Operator : ~HeldByRequest(r, h)'
                        /\ \A q \in Operator : HeldByRequest(q, h)' =>
                             /\ h \in stored' /\ ~Known(h)'
                             /\ \A p \in Operator : HeldByRequest(p, h)' => p = q
      BY DEF StagedAlone
    <2>1. ASSUME NEW q \in Operator, HeldByRequest(q, h)'
          PROVE  /\ h \in stored' /\ ~Known(h)'
                 /\ \A p \in Operator : HeldByRequest(p, h)' => p = q
                 /\ \A w \in Worker : ~HeldByWorker(w, h)'
      <3>1. h \in RequestHolds(request'[q])  BY <2>1 DEF HeldByRequest
      <3>2. ~Released(h)  BY <1>7, <3>1
      <3>3. CASE HeldByRequest(q, h)
        <4>1. /\ h \in stored /\ ~Known(h) /\ h <= handles
              /\ \A p \in Operator : HeldByRequest(p, h) => p = q
              /\ \A w \in Worker : ~HeldByWorker(w, h)
          BY <3>3 DEF RefreshInv, StagedAlone, HandlesNumbered
        <4>2. h \in stored'  BY <1>10, <3>2, <4>1
        <4>3. ~Known(h)'  BY <1>5, <3>2, <4>1
        <4>4. ASSUME NEW p \in Operator, HeldByRequest(p, h)' PROVE p = q
          <5>1. h \in RequestHolds(request[p]) \/ handles < h
            BY <1>6, <4>4 DEF HeldByRequest
          <5>2. ~(handles < h)  BY <1>1, <4>1
          <5> QED  BY <4>1, <5>1, <5>2 DEF HeldByRequest
        <4>5. \A w \in Worker : ~HeldByWorker(w, h)'
          BY <1>2, <4>1 DEF HeldByWorker
        <4> QED  BY <4>2, <4>3, <4>4, <4>5
      <3>4. CASE ~HeldByRequest(q, h)
        <4>1. q = o /\ handles < h  BY <1>6, <3>1, <3>4 DEF HeldByRequest
        <4>2. ~(h <= handles)  BY <1>1, <4>1
        <4>3. ~Known(h)'  BY <1>5, <1>9, <3>2, <4>2
        <4>4. h \in stored'  BY <1>2, <3>1, <4>1 DEF RequestStep
        <4>5. ASSUME NEW p \in Operator, HeldByRequest(p, h)' PROVE p = q
          <5>1. h \in RequestHolds(request[p]) \/ p = o
            BY <1>6, <4>5 DEF HeldByRequest
          <5>2. h \notin RequestHolds(request[p])
            BY <4>2 DEF RefreshInv, HandlesNumbered, HeldByRequest
          <5> QED  BY <4>1, <5>1, <5>2
        <4>6. \A w \in Worker : ~HeldByWorker(w, h)'
          BY <1>2, <4>2 DEF RefreshInv, HandlesNumbered, HeldByWorker
        <4> QED  BY <4>3, <4>4, <4>5, <4>6
      <3> QED  BY <3>3, <3>4
    <2>2. ASSUME NEW q \in Worker, HeldByWorker(q, h)'
          PROVE  /\ h \in stored' /\ ~Known(h)'
                 /\ \A r \in Worker : HeldByWorker(r, h)' => r = q
                 /\ \A p \in Operator : ~HeldByRequest(p, h)'
      <3>1. HeldByWorker(q, h)  BY <1>2, <2>2 DEF HeldByWorker
      <3>2. /\ h \in stored /\ ~Known(h) /\ h <= handles
            /\ \A r \in Worker : HeldByWorker(r, h) => r = q
            /\ \A p \in Operator : ~HeldByRequest(p, h)
        BY <3>1 DEF RefreshInv, StagedAlone, HandlesNumbered
      <3>3. ~Released(h)  BY <1>7, <3>1 DEF HeldByWorker
      <3>4. h \in stored'  BY <1>10, <3>2, <3>3
      <3>5. ~Known(h)'  BY <1>5, <3>2, <3>3
      <3>6. \A r \in Worker : HeldByWorker(r, h)' => r = q
        BY <1>2, <3>2 DEF HeldByWorker
      <3>7. ASSUME NEW p \in Operator, HeldByRequest(p, h)' PROVE FALSE
        <4>1. h \in RequestHolds(request[p]) \/ handles < h
          BY <1>6, <3>7 DEF HeldByRequest
        <4>2. ~(handles < h)  BY <1>1, <3>2
        <4> QED  BY <3>2, <4>1, <4>2 DEF HeldByRequest
      <3> QED  BY <3>4, <3>5, <3>6, <3>7
    <2> QED  BY <2>1, <2>2
  <1>12. GrantSpared'
    <2>1. row' # NoRow => row'.grant \notin row'.pending  BY DEF RequestStep
    <2>2. ASSUME Live'
          PROVE  /\ row'.grant \in stored' \cup misled'
                 /\ \A p \in Operator : row'.grant \notin RequestDooms(request'[p])
                 /\ \A w \in Worker : row'.grant \notin WorkerDooms(worker'[w])
      <3> DEFINE g == row'.grant
      <3>1. row' # NoRow /\ ~row'.deleting  BY <2>2 DEF Live
      <3>2. g \in Nat  BY <3>1 DEF RequestStep, Row
      <3>3. g \notin RequestDooms(y)  BY <3>1 DEF RequestStep
      <3>4. CASE Live /\ g = row.grant
        <4>1. /\ g \in stored \cup misled
              /\ \A p \in Operator : g \notin RequestDooms(request[p])
              /\ \A w \in Worker : g \notin WorkerDooms(worker[w])
          BY <3>4 DEF RefreshInv, GrantSpared
        <4>2. g \in stored' \cup misled'
          <5>1. CASE g \in misled  BY <5>1 DEF RequestStep
          <5>2. CASE g \in stored
            <6>1. ~Released(g)
              <7>1. Known(g)  BY <3>2, <3>4 DEF Known, RowUses, Mentions, Live
              <7> QED  BY <1>7, <3>2, <7>1
            <6> QED  BY <4>1, <5>2, <6>1 DEF RequestStep, z
          <5> QED  BY <4>1, <5>1, <5>2
        <4>3. \A p \in Operator : g \notin RequestDooms(request'[p])
          BY <1>2, <3>3, <4>1
        <4> QED  BY <1>2, <4>1, <4>2, <4>3
      <3>5. CASE ~(Live /\ g = row.grant)
        <4>1. g \in stored' \cup misled' /\ Released(g)
          BY <3>1, <3>5 DEF RequestStep, Live, z
        <4>2. ~Known(g)  BY <1>7, <3>2, <4>1
        <4>3. \A p \in Operator : g \notin RequestDooms(request[p])
          BY <3>2, <4>2 DEF Known, RequestDooms, RequestUses, TookUp, Mentions
        <4>4. \A w \in Worker : g \notin WorkerDooms(worker[w])
          BY <3>2, <4>2 DEF Known, WorkerDooms, WorkerUses, TookUp, Mentions
        <4> QED  BY <1>2, <3>3, <4>1, <4>3, <4>4
      <3> QED  BY <3>4, <3>5
    <2> QED  BY <2>1, <2>2 DEF GrantSpared
  <1> QED  BY <1>3, <1>4, <1>8, <1>11, <1>12 DEF RefreshInv

-------------------------------------------------------------------------------
(* The steps of workers.                                                    *)

\* What the types give of a worker that goes by a row.
LEMMA CarriedState ==
    ASSUME RefreshInv, NEW w \in Worker, Carries(worker[w])
    PROVE  /\ worker[w] \in WorkerState
           /\ worker[w].state \in Row
           /\ worker[w].state.id \in Nat /\ worker[w].state.version \in Nat
           /\ worker[w].state.grant \in Nat /\ worker[w].state.pending \in SUBSET Nat
           /\ worker[w].state.status \in Status /\ worker[w].state.mint \in Nat
           /\ ~worker[w].state.deleting
  <1>1. worker[w] \in WorkerState  BY DEF RefreshInv, RefreshTypes
  <1>2. worker[w].state \in Row /\ ~worker[w].state.deleting
    BY DEF RefreshInv, RowsKnown, WorkerFits, NotAhead
  <1> QED  BY <1>1, <1>2 DEF Row

\* A worker replaces the row it read, with a grant it staged or the same.
LEMMA WorkerWrites ==
    ASSUME RefreshInv, NEW w \in Worker, NEW q \in Row, NEW x \in WorkerState,
           Carries(worker[w]), Current(worker[w].state),
           row' = q,
           q.id = worker[w].state.id,
           q.version = worker[w].state.version + 1,
           q.deleting = worker[w].state.deleting,
           q.grant = worker[w].state.grant,
           q.pending = worker[w].state.pending \/ q.pending = {},
           Carries(x) => x.state = q /\ x.at # "staged",
           worker' = [worker EXCEPT ![w] = x], request' = request,
           epochs' = epochs, handles' = handles, stored' = stored,
           misled' = misled, lockLost' = lockLost,
           unsettled' \subseteq unsettled,
           lock' \in Worker \cup {NoWorker}
    PROVE  WorkerStep(w, x)
  <1> DEFINE z == worker[w]  s == worker[w].state
  <1>1. /\ z \in WorkerState /\ s \in Row /\ ~s.deleting
        /\ s.id \in Nat /\ s.version \in Nat
        /\ s.grant \in Nat /\ s.pending \in SUBSET Nat
    BY CarriedState
  <1>2. /\ row # NoRow /\ row \in Row /\ row.id = s.id /\ row.version = s.version
        /\ row.grant \in Nat /\ row.pending \in SUBSET Nat
    BY DEF Current, RefreshInv, RefreshTypes, Row
  <1>3. /\ ~row.deleting /\ s.id <= epochs
        /\ z.at = "staged" => s.pending = row.pending \cup {row.grant}
        /\ z.at # "staged" => s.grant = row.grant /\ s.pending = row.pending
    BY <1>2 DEF RefreshInv, RowsKnown, WorkerFits, NotAhead, Agrees
  <1>4. /\ q.id \in Nat /\ q.version \in Nat /\ q.grant \in Nat
        /\ q.pending \in SUBSET Nat /\ ~q.deleting
    BY <1>1 DEF Row
  <1>5. x.at # "staged"  BY DEF Carries
  <1>6. RowStep(row, epochs, row', epochs')
    <2>1. CASE q = NoRow
      <3> QED  BY <1>2, <2>1 DEF RowStep
    <2>2. CASE q # NoRow
      <3>1. epochs' >= epochs  BY DEF RefreshInv, RefreshTypes
      <3> QED  BY <1>1, <1>2, <1>3, <1>4, <2>2, <3>1 DEF RowStep
    <2> QED  BY <2>1, <2>2
  <1>7. WorkerFits(x, row', epochs')
    <2>1. CASE Carries(x)
      <3>1. NotAhead(x.state, row', epochs')
        BY <1>3, <1>4, <2>1 DEF NotAhead
      <3> QED  BY <1>4, <2>1, <3>1 DEF WorkerFits
    <2> QED  BY <2>1 DEF WorkerFits
  <1>8. ASSUME NEW h \in Nat,
               h \in unsettled' \/ h \in RowUses(row') \/ h \in WorkerUses(x)
        PROVE  \/ h \in unsettled \/ h \in RowUses(row) \/ h \in WorkerUses(z)
               \/ h \in WorkerHolds(z) /\ h \notin WorkerHolds(x)
    <2>1. h \in unsettled \/ h = s.grant \/ h \in s.pending
      BY <1>8 DEF RowUses, WorkerUses, Mentions
    <2>2. h \notin WorkerHolds(x)  BY <1>5 DEF WorkerHolds
    <2> QED  BY <2>1, <2>2 DEF WorkerUses, WorkerHolds
  <1>9. \A h \in WorkerHolds(x) : FALSE  BY <1>5 DEF WorkerHolds
  <1>10. s.grant \notin s.pending
    <2>1. CASE z.at = "staged"
      <3>1. HeldByWorker(w, s.grant)  BY <1>1, <2>1 DEF HeldByWorker, WorkerHolds
      <3>2. ~Known(s.grant)  BY <1>1, <3>1 DEF RefreshInv, StagedAlone
      <3> QED  BY <1>1, <3>2 DEF Known, WorkerUses
    <2>2. CASE z.at # "staged"
      BY <1>2, <1>3, <2>2 DEF RefreshInv, GrantSpared
    <2> QED  BY <2>1, <2>2
  <1>11. q.grant \notin q.pending  BY <1>10
  <1>12. q.grant \notin WorkerDooms(x)  BY <1>11 DEF WorkerDooms
  <1>13. \/ row # NoRow /\ ~row.deleting /\ row'.grant = row.grant
         \/ /\ row'.grant \in WorkerHolds(z) /\ row'.grant \notin WorkerHolds(x)
            /\ row'.grant \in stored' \cup misled'
    <2>1. CASE z.at = "staged"
      <3>1. HeldByWorker(w, s.grant)  BY <1>1, <2>1 DEF HeldByWorker, WorkerHolds
      <3>2. s.grant \in stored  BY <1>1, <3>1 DEF RefreshInv, StagedAlone
      <3> QED  BY <1>9, <3>1, <3>2 DEF HeldByWorker
    <2>2. CASE z.at # "staged"  BY <1>2, <1>3, <2>2
    <2> QED  BY <2>1, <2>2
  <1>14. /\ stored' \in SUBSET Nat /\ unsettled' \in SUBSET Nat
         /\ misled' \in SUBSET Nat /\ handles' \in Nat /\ handles <= handles'
         /\ lockLost' \in BOOLEAN /\ epochs' \in Nat /\ row' \in Row \cup {NoRow}
    BY DEF RefreshInv, RefreshTypes
  <1> QED
    BY <1>6, <1>7, <1>8, <1>9, <1>11, <1>12, <1>13, <1>14 DEF WorkerStep

\* A worker leaves the row alone: it goes on by what it read, reads the live
\* row, or goes by none.
LEMMA WorkerGoesOn ==
    ASSUME RefreshInv, NEW w \in Worker, NEW x \in WorkerState,
           Carries(x) =>
              \/ x.state = row /\ Live /\ x.at # "staged"
              \/ /\ Carries(worker[w]) /\ x.state = worker[w].state
                 /\ x.at = "staged" <=> worker[w].at = "staged",
           worker' = [worker EXCEPT ![w] = x], request' = request,
           row' = row, epochs' = epochs, handles' = handles,
           misled' = misled, lockLost' \in BOOLEAN,
           lock' \in Worker \cup {NoWorker},
           stored' \subseteq stored,
           \A h \in stored \ stored' :
              \/ h \in WorkerDooms(worker[w])
              \/ h \in WorkerHolds(worker[w]) /\ ~Carries(x),
           unsettled' \in SUBSET Nat,
           \A h \in unsettled' : h \in unsettled \/ h \in WorkerUses(worker[w])
    PROVE  WorkerStep(w, x)
  <1> DEFINE z == worker[w]  s == worker[w].state
  <1>1. /\ row \in Row \cup {NoRow} /\ epochs \in Nat /\ handles \in Nat
        /\ stored \in SUBSET Nat /\ unsettled \in SUBSET Nat /\ misled \in SUBSET Nat
        /\ z \in WorkerState
    BY DEF RefreshInv, RefreshTypes
  <1>2. RowStep(row, epochs, row', epochs')  BY DEF RowStep
  <1>3. CASE ~Carries(x)
    <2>1. WorkerFits(x, row', epochs')  BY <1>3 DEF WorkerFits
    <2>2. x.at # "staged"  BY <1>3 DEF Carries
    <2>3. \A h \in Nat : h \notin WorkerHolds(x) /\ h \notin WorkerUses(x)
                          /\ h \notin WorkerDooms(x)
      BY <1>3, <2>2 DEF WorkerHolds, WorkerUses, WorkerDooms
    <2>4. \A h \in WorkerHolds(x) : FALSE  BY <2>2 DEF WorkerHolds
    <2>5. row' # NoRow => row'.grant \in Nat /\ row'.grant \notin row'.pending
      BY <1>1 DEF RefreshInv, GrantSpared, Row
    <2> QED  BY <1>1, <1>2, <2>1, <2>3, <2>4, <2>5 DEF WorkerStep
  <1>4. CASE x.state = row /\ Live /\ x.at # "staged" /\ Carries(x)
    <2>1. /\ row \in Row /\ row # NoRow /\ ~row.deleting
          /\ row.id \in Nat /\ row.version \in Nat /\ row.id <= epochs
          /\ row.grant \in Nat /\ row.grant \notin row.pending
      BY <1>1, <1>4 DEF Live, Row, RefreshInv, RowsKnown, GrantSpared
    <2>2. WorkerFits(x, row', epochs')
      BY <1>4, <2>1 DEF WorkerFits, NotAhead
    <2>3. \A h \in Nat : h \in WorkerUses(x) => h \in RowUses(row)
      BY <1>4, <2>1 DEF WorkerUses, RowUses, Mentions
    <2>4. \A h \in WorkerHolds(x) : FALSE  BY <1>4 DEF WorkerHolds
    <2>5. row.grant \notin WorkerDooms(x)  BY <1>4, <2>1 DEF WorkerDooms
    <2> QED  BY <1>1, <1>2, <1>4, <2>1, <2>2, <2>3, <2>4, <2>5 DEF WorkerStep
  <1>5. CASE /\ Carries(z) /\ Carries(x) /\ x.state = s
             /\ x.at = "staged" <=> z.at = "staged"
    <2>1. WorkerFits(z, row, epochs)  BY DEF RefreshInv, RowsKnown
    <2>2. WorkerFits(x, row', epochs')  BY <1>5, <2>1 DEF WorkerFits
    <2>3. /\ \A h \in Nat : h \in WorkerUses(x) <=> h \in WorkerUses(z)
          /\ \A h \in WorkerHolds(x) : h \in Nat /\ h \in WorkerHolds(z)
          /\ \A h \in Nat : h \in WorkerDooms(x) <=> h \in WorkerDooms(z)
      BY <1>5 DEF WorkerUses, WorkerHolds, WorkerDooms
    <2>4. \A h \in WorkerHolds(x) : h \in stored' /\ h <= handles'
      <3>1. TAKE h \in WorkerHolds(x)
      <3>2. HeldByWorker(w, h) /\ h \in Nat  BY <2>3 DEF HeldByWorker
      <3>3. h \in stored /\ h <= handles /\ ~Known(h)
        BY <3>2 DEF RefreshInv, StagedAlone, HandlesNumbered
      <3>4. h \notin WorkerDooms(z)
        BY <3>2, <3>3 DEF Known, WorkerUses, WorkerDooms
      <3> QED  BY <1>5, <3>3, <3>4
    <2>5. row' # NoRow => row'.grant \in Nat /\ row'.grant \notin row'.pending
      BY <1>1 DEF RefreshInv, GrantSpared, Row
    <2>6. row' # NoRow /\ ~row'.deleting => row'.grant \notin WorkerDooms(x)
      BY <2>3, <2>5 DEF RefreshInv, GrantSpared, Live
    <2>7. \A h \in stored \ stored' : h \in WorkerDooms(z)  BY <1>5
    <2>8. \A h \in Nat : h \in unsettled' \/ h \in RowUses(row') \/ h \in WorkerUses(x) =>
             h \in unsettled \/ h \in RowUses(row) \/ h \in WorkerUses(z)
      BY <2>3
    <2> QED
      BY <1>1, <1>2, <2>2, <2>3, <2>4, <2>5, <2>6, <2>7, <2>8 DEF WorkerStep
  <1> QED  BY <1>3, <1>4, <1>5

\* The worker that is at another place, and the one that is done.
LEMMA WorkerGoes ==
    ASSUME RefreshInv, NEW w \in Worker,
           NEW at \in {"locked", "checked", "swept", "ready", "applied"},
           Goes(w, at)
    PROVE  \E x \in WorkerState :
              /\ worker' = [worker EXCEPT ![w] = x]
              /\ x.at = at /\ x.kind = worker[w].kind /\ x.seen = worker[w].seen
              /\ x.state = worker[w].state /\ x.result = worker[w].result
  <1> DEFINE z == worker[w]
             x == [z EXCEPT !.at = at]
  <1>1. z \in WorkerState  BY DEF RefreshInv, RefreshTypes
  <1>2. worker' = [worker EXCEPT ![w] = x]  BY DEF Goes
  <1> HIDE DEF z
  <1>3. /\ x \in WorkerState /\ x.at = at /\ x.kind = z.kind /\ x.seen = z.seen
        /\ x.state = z.state /\ x.result = z.result
    BY <1>1 DEF WorkerState
  <1> QED  BY <1>2, <1>3 DEF z

\* A worker that ends is idle and carries nothing.
LEMMA WorkerEnds ==
    ASSUME RefreshInv, NEW w \in Worker, Ends(w)
    PROVE  /\ IdleWorker \in WorkerState /\ IdleWorker.at = "idle"
           /\ ~Carries(IdleWorker)
           /\ worker' = [worker EXCEPT ![w] = IdleWorker]
           /\ lock' \in Worker \cup {NoWorker}
  <1>1. IdleWorker \in WorkerState /\ IdleWorker.at = "idle"
    BY DEF IdleWorker, WorkerState, Kind
  <1>2. ~Carries(IdleWorker)  BY <1>1 DEF Carries
  <1> QED  BY <1>1, <1>2 DEF Ends, RefreshInv, RefreshTypes

\* A worker that ends, deleting at most material of its own.
LEMMA EndsSteps ==
    ASSUME RefreshInv, NEW w \in Worker, Ends(w),
           UNCHANGED <<row, request, unsettled, history, handles, epochs>>,
           stored' \subseteq stored,
           \A h \in stored \ stored' : h \in WorkerHolds(worker[w])
    PROVE  \E x \in WorkerState : WorkerStep(w, x)
  <1>1. unsettled' \in SUBSET Nat /\ lockLost' \in BOOLEAN
    BY DEF RefreshInv, RefreshTypes, history
  <1>2. WorkerStep(w, IdleWorker)
    BY <1>1, WorkerEnds, WorkerGoesOn DEF history
  <1> QED  BY <1>2, WorkerEnds

\* A worker is asked for a refresh.
LEMMA ObserveSteps ==
    ASSUME RefreshInv, NEW w \in Worker, NEW kind \in Kind, Observe(w, kind)
    PROVE  \E x \in WorkerState : WorkerStep(w, x)
  <1> DEFINE seen == [id |-> row.id, epoch |-> row.epoch, mint |-> row.mint]
             x == [IdleWorker EXCEPT !.at = "waiting", !.kind = kind, !.seen = seen]
  <1>1. row \in Row  BY DEF Observe, Live, RefreshInv, RefreshTypes
  <1>2. seen \in Observation  BY <1>1 DEF Observation, Row
  <1>3. worker' = [worker EXCEPT ![w] = x]  BY DEF Observe
  <1> HIDE DEF seen
  <1>4. x \in WorkerState /\ x.at = "waiting"  BY <1>2 DEF IdleWorker, WorkerState
  <1> HIDE DEF x
  <1>5. ~Carries(x)  BY <1>4 DEF Carries
  <1>6. WorkerStep(w, x)
    BY <1>3, <1>4, <1>5, WorkerGoesOn DEF Observe, history, RefreshInv, RefreshTypes
  <1> QED  BY <1>4, <1>6

\* A worker takes the lock.
LEMMA AcquireSteps ==
    ASSUME RefreshInv, NEW w \in Worker, Acquire(w)
    PROVE  \E x \in WorkerState : WorkerStep(w, x)
  <1>1. PICK x \in WorkerState : worker' = [worker EXCEPT ![w] = x] /\ x.at = "locked"
    BY WorkerGoes DEF Acquire
  <1>2. ~Carries(x)  BY <1>1 DEF Carries
  <1>3. WorkerStep(w, x)
    BY <1>1, <1>2, WorkerGoesOn
    DEF Acquire, history, counters, RefreshInv, RefreshTypes
  <1> QED  BY <1>3

\* A worker takes up the live row.
LEMMA WorkerReads ==
    ASSUME RefreshInv, NEW w \in Worker, Live,
           worker' = [worker EXCEPT ![w] = [@ EXCEPT !.at = "read", !.state = row]],
           UNCHANGED <<row, stored, lock, request, unsettled, history, handles, epochs>>
    PROVE  \E x \in WorkerState :
              /\ WorkerStep(w, x)
              /\ worker' = [worker EXCEPT ![w] = x]
              /\ x.at = "read" /\ x.state = row /\ x.kind = worker[w].kind
  <1> DEFINE z == worker[w]
             x == [z EXCEPT !.at = "read", !.state = row]
  <1>1. z \in WorkerState /\ row \in Row  BY DEF RefreshInv, RefreshTypes, Live
  <1>2. worker' = [worker EXCEPT ![w] = x]  OBVIOUS
  <1> HIDE DEF z
  <1>3. x \in WorkerState /\ x.at = "read" /\ x.state = row /\ x.kind = z.kind
    BY <1>1 DEF WorkerState
  <1> HIDE DEF x
  <1>4. WorkerStep(w, x)
    BY <1>2, <1>3, WorkerGoesOn DEF history, RefreshInv, RefreshTypes
  <1> QED  BY <1>2, <1>3, <1>4 DEF z

\* A worker decides whether there is anything to refresh.
LEMMA CheckSteps ==
    ASSUME RefreshInv, NEW w \in Worker, Check(w)
    PROVE  \E x \in WorkerState : WorkerStep(w, x)
  <1>1. CASE Ends(w)
    BY <1>1, EndsSteps DEF Check, counters
  <1>2. CASE ~Ends(w)
    <2> DEFINE z == worker[w]
    <2>0. z \in WorkerState  BY DEF RefreshInv, RefreshTypes
    <2>1. /\ ~Refused(w) /\ UNCHANGED lock
          /\ worker' = [worker EXCEPT
                ![w] = IF z.kind = "cleanup"
                       THEN [z EXCEPT !.at = "read", !.state = row]
                       ELSE [z EXCEPT !.at = "checked"]]
          /\ UNCHANGED <<row, stored, request, unsettled, history, handles, epochs>>
      BY <1>2 DEF Check, counters
    <2>2. Live  BY <2>1 DEF Refused, Superseded, Live
    <2>3. CASE z.kind = "cleanup"
      BY <2>1, <2>2, <2>3, WorkerReads
    <2>4. CASE z.kind # "cleanup"
      <3> DEFINE x == [z EXCEPT !.at = "checked"]
      <3>1. worker' = [worker EXCEPT ![w] = x]  BY <2>1, <2>4
      <3> HIDE DEF z
      <3>2. x \in WorkerState /\ x.at = "checked"  BY <2>0 DEF WorkerState
      <3> HIDE DEF x
      <3>3. ~Carries(x)  BY <3>2 DEF Carries
      <3>4. WorkerStep(w, x)
        BY <2>1, <3>1, <3>2, <3>3, WorkerGoesOn DEF history, RefreshInv, RefreshTypes
      <3> QED  BY <3>2, <3>4
    <2> QED  BY <2>3, <2>4
  <1> QED  BY <1>1, <1>2

\* A worker reads the row under the lock.
LEMMA ReadSteps ==
    ASSUME RefreshInv, NEW w \in Worker, Read(w)
    PROVE  \E x \in WorkerState : WorkerStep(w, x)
  <1>1. CASE Live
    <2>1. \E x \in WorkerState : /\ WorkerStep(w, x)
                                 /\ x.at = "read"
      BY <1>1, WorkerReads DEF Read, counters
    <2> QED  BY <2>1
  <1>2. CASE ~Live
    BY <1>2, EndsSteps DEF Read, counters
  <1> QED  BY <1>1, <1>2

\* A worker deletes the material of grants left pending.
LEMMA DeletePendingSteps ==
    ASSUME RefreshInv, NEW w \in Worker, DeletePending(w)
    PROVE  \E x \in WorkerState : WorkerStep(w, x)
  <1>1. PICK at \in {"swept", "ready"} : Goes(w, at)  BY DEF DeletePending
  <1>2. PICK x \in WorkerState :
              /\ worker' = [worker EXCEPT ![w] = x]
              /\ x.at = at /\ x.state = worker[w].state
    BY <1>1, WorkerGoes
  <1>3. Carries(worker[w]) /\ worker[w].at # "staged"  BY DEF DeletePending, Carries
  <1>4. x.at # "staged"  BY <1>2
  <1>5. stored' \subseteq stored /\ \A h \in stored \ stored' : h \in WorkerDooms(worker[w])
    BY <1>3 DEF DeletePending, WorkerDooms, RefreshInv, RefreshTypes
  <1>6. WorkerStep(w, x)
    BY <1>2, <1>3, <1>4, <1>5, WorkerGoesOn
    DEF DeletePending, history, RefreshInv, RefreshTypes
  <1> QED  BY <1>6

\* The rows that workers write.
LEMMA Written ==
    ASSUME NEW s \in Row, NEW status \in Status
    PROVE  LET q == [Advanced(s) EXCEPT !.status = status] IN
           /\ q \in Row /\ q.id = s.id /\ q.version = s.version + 1
           /\ q.deleting = s.deleting /\ q.grant = s.grant /\ q.pending = s.pending
           /\ q.status = status
  <1> DEFINE a == [s EXCEPT !.version = s.version + 1]
             q == [a EXCEPT !.status = status]
  <1>1. /\ a \in Row /\ a.id = s.id /\ a.version = s.version + 1
        /\ a.deleting = s.deleting /\ a.grant = s.grant /\ a.pending = s.pending
    BY DEF Row
  <1>2. Advanced(s) = a  BY DEF Advanced
  <1> HIDE DEF a
  <1>3. /\ q \in Row /\ q.id = a.id /\ q.version = a.version
        /\ q.deleting = a.deleting /\ q.grant = a.grant /\ q.pending = a.pending
        /\ q.status = status
    BY <1>1 DEF Row
  <1> QED  BY <1>1, <1>2, <1>3

\* The row without pending grants, at the next version.
LEMMA WrittenCleaned ==
    ASSUME NEW s \in Row
    PROVE  LET q == [Advanced(s) EXCEPT !.pending = {}] IN
           /\ q \in Row /\ q.id = s.id /\ q.version = s.version + 1
           /\ q.deleting = s.deleting /\ q.grant = s.grant /\ q.pending = {}
           /\ q.status = s.status
  <1> DEFINE a == [s EXCEPT !.version = s.version + 1]
             q == [a EXCEPT !.pending = {}]
  <1>1. /\ a \in Row /\ a.id = s.id /\ a.version = s.version + 1
        /\ a.deleting = s.deleting /\ a.grant = s.grant /\ a.status = s.status
    BY DEF Row
  <1>2. Advanced(s) = a  BY DEF Advanced
  <1> HIDE DEF a
  <1>3. /\ q \in Row /\ q.id = a.id /\ q.version = a.version
        /\ q.deleting = a.deleting /\ q.grant = a.grant /\ q.pending = {}
        /\ q.status = a.status
    BY <1>1 DEF Row
  <1> QED  BY <1>1, <1>2, <1>3

\* The row with a completed refresh, at the next version.
LEMMA WrittenCompleted ==
    ASSUME NEW s \in Row
    PROVE  LET q == [Advanced(s) EXCEPT !.status = "refreshed", !.mint = s.mint + 1] IN
           /\ q \in Row /\ q.id = s.id /\ q.version = s.version + 1
           /\ q.deleting = s.deleting /\ q.grant = s.grant /\ q.pending = s.pending
  <1> DEFINE a == [s EXCEPT !.version = s.version + 1]
             n == s.mint + 1
             q == [a EXCEPT !.status = "refreshed", !.mint = n]
  <1>1. /\ a \in Row /\ a.id = s.id /\ a.version = s.version + 1
        /\ a.deleting = s.deleting /\ a.grant = s.grant /\ a.pending = s.pending
        /\ n \in Nat
    BY DEF Row
  <1>2. Advanced(s) = a  BY DEF Advanced
  <1> HIDE DEF a, n
  <1>3. /\ q \in Row /\ q.id = a.id /\ q.version = a.version
        /\ q.deleting = a.deleting /\ q.grant = a.grant /\ q.pending = a.pending
    BY <1>1 DEF Row, Status
  <1> QED  BY <1>1, <1>2, <1>3 DEF n

\* A worker goes on with a row it read or wrote.
LEMMA TakesUp ==
    ASSUME NEW z \in WorkerState, NEW q \in Row,
           NEW at \in {"read", "ready", "minting", "claimed"}
    PROVE  LET x == [z EXCEPT !.at = at, !.state = q] IN
           /\ x \in WorkerState /\ x.at = at /\ x.state = q
           /\ x.kind = z.kind /\ x.result = z.result
  BY DEF WorkerState

\* A worker records that nothing is pending.
LEMMA ClearPendingSteps ==
    ASSUME RefreshInv, NEW w \in Worker, ClearPending(w)
    PROVE  \E x \in WorkerState : WorkerStep(w, x)
  <1> DEFINE z == worker[w]  s == worker[w].state
             q == [Advanced(s) EXCEPT !.pending = {}]
             x == [z EXCEPT !.at = "ready", !.state = q]
  <1>1. Carries(z) /\ z.at # "staged"  BY DEF ClearPending, Carries
  <1>2. z \in WorkerState /\ s \in Row  BY <1>1, CarriedState
  <1>3. CASE Current(s)
    <2>1. row' = q /\ worker' = [worker EXCEPT ![w] = x]
      BY <1>3 DEF ClearPending
    <2>2. /\ q \in Row /\ q.id = s.id /\ q.version = s.version + 1
          /\ q.deleting = s.deleting /\ q.grant = s.grant /\ q.pending = {}
      BY <1>2, WrittenCleaned
    <2> HIDE DEF q, z
    <2>3. x \in WorkerState /\ x.at = "ready" /\ x.state = q
      BY <1>2, <2>2, TakesUp
    <2> HIDE DEF x
    <2>4. WorkerStep(w, x)
      BY <1>1, <1>3, <2>1, <2>2, <2>3, WorkerWrites
      DEF ClearPending, history, counters, RefreshInv, RefreshTypes, z
    <2> QED  BY <2>3, <2>4
  <1>4. CASE ~Current(s)
    <2>1. PICK y \in WorkerState :
              worker' = [worker EXCEPT ![w] = y] /\ y.at = "ready" /\ y.state = s
      BY <1>4, WorkerGoes DEF ClearPending
    <2>2. WorkerStep(w, y)
      BY <1>1, <1>4, <2>1, WorkerGoesOn
      DEF ClearPending, history, counters, RefreshInv, RefreshTypes
    <2> QED  BY <2>2
  <1> QED  BY <1>3, <1>4

\* A worker marks the row before it presents the grant.
LEMMA MarkSteps ==
    ASSUME RefreshInv, NEW w \in Worker, Mark(w)
    PROVE  \E x \in WorkerState : WorkerStep(w, x)
  <1> DEFINE z == worker[w]  s == worker[w].state
             q == [Advanced(s) EXCEPT !.status = "refresh_in_progress"]
             x == [z EXCEPT !.at = "minting", !.state = q]
  <1>1. Carries(z) /\ z.at # "staged"  BY DEF Mark, Cleaned, Carries
  <1>2. z \in WorkerState /\ s \in Row  BY <1>1, CarriedState
  <1>3. CASE Current(s)
    <2>1. row' = q /\ worker' = [worker EXCEPT ![w] = x]
      BY <1>3 DEF Mark
    <2>2. /\ q \in Row /\ q.id = s.id /\ q.version = s.version + 1
          /\ q.deleting = s.deleting /\ q.grant = s.grant /\ q.pending = s.pending
      BY <1>2, Written DEF Status
    <2> HIDE DEF q
    <2>3. x \in WorkerState /\ x.at = "minting" /\ x.state = q
      BY <1>2, <2>2, TakesUp
    <2> HIDE DEF x
    <2>4. WorkerStep(w, x)
      BY <1>1, <1>3, <2>1, <2>2, <2>3, WorkerWrites
      DEF Mark, history, counters, RefreshInv, RefreshTypes
    <2> QED  BY <2>3, <2>4
  <1>4. CASE ~Current(s)
    BY <1>4, EndsSteps DEF Mark, counters
  <1> QED  BY <1>3, <1>4

\* A worker presents the grant to the issuer.
LEMMA MintSteps ==
    ASSUME RefreshInv, NEW w \in Worker, Mint(w)
    PROVE  \E x \in WorkerState : WorkerStep(w, x)
  <1> DEFINE z == worker[w]
  <1>1. PICK result \in {"rotated", "kept", "error", "reauthorization_required"} :
           worker' = [worker EXCEPT ![w] = [z EXCEPT !.at = "minted", !.result = result]]
    BY DEF Mint
  <1> DEFINE x == [z EXCEPT !.at = "minted", !.result = result]
  <1>2. Carries(z) /\ z.at # "staged"  BY DEF Mint, Carries
  <1>3. z \in WorkerState  BY <1>2, CarriedState
  <1>4. worker' = [worker EXCEPT ![w] = x]  BY <1>1
  <1>5. z.state.grant \in WorkerUses(z)  BY <1>2, CarriedState DEF WorkerUses
  <1>6. \A h \in unsettled' : h \in unsettled \/ h \in WorkerUses(z)
    BY <1>5 DEF Mint
  <1>7. unsettled' \in SUBSET Nat
    BY <1>2, CarriedState DEF Mint, RefreshInv, RefreshTypes
  <1> HIDE DEF z
  <1>8. x \in WorkerState /\ x.at = "minted" /\ x.state = z.state
    BY <1>3 DEF WorkerState
  <1> HIDE DEF x
  <1>9. WorkerStep(w, x)
    BY <1>2, <1>4, <1>6, <1>7, <1>8, WorkerGoesOn
    DEF Mint, history, counters, RefreshInv, RefreshTypes, z
  <1> QED  BY <1>8, <1>9

\* A worker records the outcome of its refresh.
LEMMA RecordSteps ==
    ASSUME RefreshInv, NEW w \in Worker, NEW status \in Status, Carries(worker[w]),
           Record(worker[w].state, status), Ends(w),
           UNCHANGED <<stored, request, history, handles, epochs>>
    PROVE  \E x \in WorkerState : WorkerStep(w, x)
  <1> DEFINE s == worker[w].state
             q == [Advanced(s) EXCEPT !.status = status]
  <1>1. s \in Row  BY CarriedState
  <1>2. CASE Current(s)
    <2>1. row' = q /\ unsettled' \subseteq unsettled  BY <1>2 DEF Record
    <2>2. /\ q \in Row /\ q.id = s.id /\ q.version = s.version + 1
          /\ q.deleting = s.deleting /\ q.grant = s.grant /\ q.pending = s.pending
      BY <1>1, Written
    <2> HIDE DEF q
    <2>3. WorkerStep(w, IdleWorker)
      BY <1>2, <2>1, <2>2, WorkerEnds, WorkerWrites DEF history
    <2> QED  BY <2>3, WorkerEnds
  <1>3. CASE ~Current(s)
    BY <1>3, EndsSteps DEF Record
  <1> QED  BY <1>2, <1>3

\* A worker claims the next generation of the credential.
LEMMA ClaimSteps ==
    ASSUME RefreshInv, NEW w \in Worker, Claim(w)
    PROVE  \E x \in WorkerState : WorkerStep(w, x)
  <1> DEFINE z == worker[w]  s == worker[w].state
             q == [Advanced(s) EXCEPT !.status = "refresh_committing"]
             x == [z EXCEPT !.at = "claimed", !.state = q]
  <1>1. Carries(z)  BY DEF Claim, Carries
  <1>2. z \in WorkerState /\ s \in Row /\ s.grant \in Nat  BY <1>1, CarriedState
  <1>3. CASE Current(s)
    <2>1. row' = q /\ worker' = [worker EXCEPT ![w] = x]
      BY <1>3 DEF Claim
    <2>2. /\ q \in Row /\ q.id = s.id /\ q.version = s.version + 1
          /\ q.deleting = s.deleting /\ q.grant = s.grant /\ q.pending = s.pending
      BY <1>2, Written DEF Status
    <2> HIDE DEF q
    <2>3. x \in WorkerState /\ x.at = "claimed" /\ x.state = q
      BY <1>2, <2>2, TakesUp
    <2> HIDE DEF x
    <2>4. WorkerStep(w, x)
      BY <1>1, <1>3, <2>1, <2>2, <2>3, WorkerWrites
      DEF Claim, history, counters, RefreshInv, RefreshTypes
    <2> QED  BY <2>3, <2>4
  <1>4. CASE ~Current(s)
    <2>1. stored' \subseteq stored /\ \A h \in stored \ stored' : h \in WorkerHolds(z)
      BY <1>2, <1>4 DEF Claim, WorkerHolds
    <2> QED  BY <1>4, <2>1, EndsSteps DEF Claim, counters
  <1> QED  BY <1>3, <1>4

\* A worker completes the refresh.
LEMMA CompleteSteps ==
    ASSUME RefreshInv, NEW w \in Worker, Complete(w)
    PROVE  \E x \in WorkerState : WorkerStep(w, x)
  <1> DEFINE z == worker[w]  s == worker[w].state
             q == [Advanced(s) EXCEPT !.status = "refreshed", !.mint = s.mint + 1]
             x == [z EXCEPT !.at = "read", !.state = q, !.kind = "cleanup"]
  <1>1. Carries(z)  BY DEF Complete, Carries
  <1>2. z \in WorkerState /\ s \in Row  BY <1>1, CarriedState
  <1>3. CASE Current(s)
    <2>1. /\ row' = q /\ worker' = [worker EXCEPT ![w] = x]
          /\ unsettled' \subseteq unsettled
      BY <1>3 DEF Complete
    <2>2. /\ q \in Row /\ q.id = s.id /\ q.version = s.version + 1
          /\ q.deleting = s.deleting /\ q.grant = s.grant /\ q.pending = s.pending
      BY <1>2, WrittenCompleted
    <2> HIDE DEF q, z
    <2>3. x \in WorkerState /\ x.at = "read" /\ x.state = q
      BY <1>2, <2>2 DEF WorkerState, Kind
    <2> HIDE DEF x
    <2>4. WorkerStep(w, x)
      BY <1>1, <1>3, <2>1, <2>2, <2>3, WorkerWrites
      DEF Complete, history, counters, RefreshInv, RefreshTypes, z
    <2> QED  BY <2>3, <2>4
  <1>4. CASE ~Current(s)
    BY <1>4, EndsSteps DEF Complete, counters
  <1> QED  BY <1>3, <1>4

\* A worker writes the credential of the provider.
LEMMA ApplySteps ==
    ASSUME RefreshInv, NEW w \in Worker, Apply(w)
    PROVE  \E x \in WorkerState : WorkerStep(w, x)
  <1>1. PICK x \in WorkerState :
            /\ worker' = [worker EXCEPT ![w] = x]
            /\ x.at = "applied" /\ x.state = worker[w].state
    BY WorkerGoes DEF Apply
  <1>2. Carries(worker[w]) /\ worker[w].at # "staged"  BY DEF Apply, Carries
  <1>3. WorkerStep(w, x)
    BY <1>1, <1>2, WorkerGoesOn
    DEF Apply, history, counters, RefreshInv, RefreshTypes
  <1> QED  BY <1>3

\* A worker's lock session is lost.
LEMMA LoseLockSteps ==
    ASSUME RefreshInv, NEW w \in Worker, LoseLock(w)
    PROVE  \E x \in WorkerState : WorkerStep(w, x)
  <1> DEFINE x == worker[w]
  <1>1. x \in WorkerState /\ worker' = [worker EXCEPT ![w] = x]
    BY DEF LoseLock, RefreshInv, RefreshTypes
  <1>2. WorkerStep(w, x)
    BY <1>1, WorkerGoesOn DEF LoseLock, RefreshInv, RefreshTypes
  <1> QED  BY <1>1, <1>2

\* A worker stores the material of a rotated grant.
LEMMA StageSteps ==
    ASSUME RefreshInv, NEW w \in Worker, Stage(w)
    PROVE  \E x \in WorkerState : WorkerStep(w, x)
  <1> DEFINE z == worker[w]  s == worker[w].state
  <1>1. Carries(z) /\ z.at = "minted"  BY DEF Stage, Carries
  <1>2. /\ z \in WorkerState /\ s \in Row /\ s.grant \in Nat /\ s.pending \in SUBSET Nat
        /\ ~s.deleting
    BY <1>1, CarriedState
  <1>3. CASE handles' = handles
    <2> DEFINE x == [z EXCEPT !.result = "reauthorization_required"]
    <2>1. worker' = [worker EXCEPT ![w] = x] /\ UNCHANGED stored
      BY <1>3 DEF Stage, RefreshInv, RefreshTypes
    <2>2. Carries(z) /\ z.at = "minted" /\ z \in WorkerState  BY <1>1, <1>2
    <2> HIDE DEF z
    <2>3. x \in WorkerState /\ x.at = "minted" /\ x.state = z.state
      BY <2>2 DEF WorkerState
    <2> HIDE DEF x
    <2>4. WorkerStep(w, x)
      BY <1>3, <2>1, <2>2, <2>3, WorkerGoesOn
      DEF Stage, history, RefreshInv, RefreshTypes, z
    <2> QED  BY <2>3, <2>4
  <1>4. CASE handles' # handles
    <2> DEFINE n == handles + 1
               p == s.pending \cup {s.grant}
               t == [s EXCEPT !.grant = n, !.pending = p]
               x == [z EXCEPT !.at = "staged", !.state = t]
    <2>1. /\ handles' = n /\ stored' = stored \cup {n}
          /\ worker' = [worker EXCEPT ![w] = x]
          /\ UNCHANGED <<row, lock, request, unsettled, epochs, lockLost, misled>>
      BY <1>4 DEF Stage, history
    <2>2. handles \in Nat /\ n \in Nat /\ p \in SUBSET Nat /\ handles < n /\ handles <= n
      BY <1>2 DEF RefreshInv, RefreshTypes
    <2>3. WorkerFits(z, row, epochs)  BY DEF RefreshInv, RowsKnown
    <2>4. /\ NotAhead(s, row, epochs)
          /\ Agrees(s, row) => /\ ~row.deleting /\ s.status = row.status
                               /\ s.grant = row.grant /\ s.pending = row.pending
      BY <1>1, <2>3 DEF WorkerFits
    <2>5. \A h \in Nat : h \in p => h \in WorkerUses(z)
      BY <1>1 DEF WorkerUses
    <2>6. \A h \in p : h \in Nat  BY <2>2
    <2>7. p = s.pending \cup {s.grant}  OBVIOUS
    <2> HIDE DEF n, p, s
    <2>8. /\ t \in Row /\ t.id = s.id /\ t.version = s.version /\ t.grant = n
          /\ t.pending = p /\ t.status = s.status /\ t.deleting = s.deleting
      BY <1>2, <2>2 DEF Row
    <2> HIDE DEF t, z
    <2>9. x \in WorkerState /\ x.at = "staged" /\ x.state = t
      BY <1>2, <2>8 DEF WorkerState
    <2> HIDE DEF x
    <2>10. WorkerFits(x, row', epochs')
      <3>1. NotAhead(t, row, epochs)  BY <2>4, <2>8 DEF NotAhead
      <3>2. Agrees(t, row) => Agrees(s, row)  BY <2>8 DEF Agrees
      <3>3. Agrees(t, row) => /\ ~row.deleting /\ t.status = row.status
                              /\ t.pending = row.pending \cup {row.grant}
        BY <2>4, <2>7, <2>8, <3>2
      <3> QED  BY <1>2, <2>1, <2>8, <2>9, <3>1, <3>3 DEF WorkerFits
    <2>11. \A h \in Nat : h \in WorkerUses(x) => h \in WorkerUses(z)
      BY <2>5, <2>8, <2>9 DEF WorkerUses
    <2>12. \A h \in WorkerHolds(x) : h = n  BY <2>8, <2>9 DEF WorkerHolds
    <2>13. \A h : h \notin WorkerDooms(x)  BY <2>9 DEF WorkerDooms
    <2>14. RowStep(row, epochs, row', epochs')  BY <2>1 DEF RowStep
    <2>15. \A h \in Nat :
             h \in unsettled' \/ h \in RowUses(row') \/ h \in WorkerUses(x) =>
               h \in unsettled \/ h \in RowUses(row) \/ h \in WorkerUses(z)
      BY <2>1, <2>11
    <2>16. row' # NoRow => row'.grant \notin row'.pending
      BY <2>1 DEF RefreshInv, GrantSpared
    <2>17. /\ stored \in SUBSET Nat /\ unsettled \in SUBSET Nat /\ misled \in SUBSET Nat
           /\ lock \in Worker \cup {NoWorker} /\ lockLost \in BOOLEAN
           /\ row \in Row \cup {NoRow} /\ epochs \in Nat
      BY DEF RefreshInv, RefreshTypes
    <2>18. WorkerStep(w, x)
      BY <2>1, <2>2, <2>9, <2>10, <2>12, <2>13, <2>14, <2>15, <2>16, <2>17
      DEF WorkerStep, z
    <2> QED  BY <2>9, <2>18
  <1> QED  BY <1>3, <1>4

\* Every step of a worker is a WorkerStep.
LEMMA WorkerNext ==
    ASSUME RefreshInv, NEW w \in Worker,
           \/ \E kind \in Kind : Observe(w, kind)
           \/ Refresh(w) \/ GiveUp(w) \/ ClaimFails(w)
           \/ ApplyFails(w) \/ Crash(w) \/ LoseLock(w)
    PROVE  \E x \in WorkerState : WorkerStep(w, x)
  <1>1. CASE \E kind \in Kind : Observe(w, kind)  BY <1>1, ObserveSteps
  <1>2. CASE Acquire(w)  BY <1>2, AcquireSteps
  <1>3. CASE Check(w)  BY <1>3, CheckSteps
  <1>4. CASE Read(w)  BY <1>4, ReadSteps
  <1>5. CASE DeletePending(w)  BY <1>5, DeletePendingSteps
  <1>6. CASE ClearPending(w)  BY <1>6, ClearPendingSteps
  <1>7. CASE EndCleanup(w)  BY <1>7, EndsSteps DEF EndCleanup, counters
  <1>8. CASE Mark(w)  BY <1>8, MarkSteps
  <1>9. CASE Mint(w)  BY <1>9, MintSteps
  <1>10. CASE Stage(w)  BY <1>10, StageSteps
  <1>11. CASE RecordFailure(w)
    <2>1. Carries(worker[w])  BY <1>11 DEF RecordFailure, Carries
    <2>2. worker[w].result \in Status  BY <1>11 DEF RecordFailure, Status
    <2> QED  BY <1>11, <2>1, <2>2, RecordSteps DEF RecordFailure, counters
  <1>12. CASE Claim(w)  BY <1>12, ClaimSteps
  <1>13. CASE Apply(w)  BY <1>13, ApplySteps
  <1>14. CASE Complete(w)  BY <1>14, CompleteSteps
  <1>15. CASE GiveUp(w)  BY <1>15, EndsSteps DEF GiveUp, counters
  <1>16. CASE ClaimFails(w)
    <2>1. Carries(worker[w])  BY <1>16 DEF ClaimFails, Carries
    <2> QED  BY <1>16, <2>1, RecordSteps DEF ClaimFails, Status
  <1>17. CASE ApplyFails(w)
    <2>1. Carries(worker[w])  BY <1>17 DEF ApplyFails, Carries
    <2> QED  BY <1>17, <2>1, RecordSteps DEF ApplyFails, Status
  <1>18. CASE Crash(w)  BY <1>18, EndsSteps DEF Crash
  <1>19. CASE LoseLock(w)  BY <1>19, LoseLockSteps
  <1> QED
    BY <1>1, <1>2, <1>3, <1>4, <1>5, <1>6, <1>7, <1>8, <1>9, <1>10, <1>11, <1>12,
       <1>13, <1>14, <1>15, <1>16, <1>17, <1>18, <1>19 DEF Refresh

-------------------------------------------------------------------------------
(* The steps of requests.                                                   *)

\* The row that a request took up.
LEMMA TookUpState ==
    ASSUME RefreshInv, NEW o \in Operator, TookUp(request[o])
    PROVE  /\ request[o] \in RequestState
           /\ request[o].state \in Row
           /\ request[o].state.id \in Nat /\ request[o].state.version \in Nat
           /\ request[o].state.grant \in Nat /\ request[o].state.pending \in SUBSET Nat
           /\ request[o].state.mint \in Nat /\ request[o].state.deleting \in BOOLEAN
  <1>1. request[o] \in RequestState  BY DEF RefreshInv, RefreshTypes
  <1>2. request[o].state \in Row
    BY DEF RefreshInv, RowsKnown, RequestFits, NotAhead
  <1> QED  BY <1>1, <1>2 DEF Row

\* A request leaves the row alone: it goes on by what it read, takes up the
\* row as it is, or goes by none.
LEMMA RequestGoesOn ==
    ASSUME RefreshInv, NEW o \in Operator, NEW y \in RequestState,
           y.at # "staged",
           TookUp(y) =>
              \/ /\ y.state = row /\ row # NoRow
                 /\ y.at \in {"configuring", "deleting"} => ~row.deleting
                 /\ y.at \in {"purging", "removing"} => row.deleting
              \/ /\ request[o].at = "purging" /\ y.at = "removing"
                 /\ y.state = request[o].state,
           request' = [request EXCEPT ![o] = y], worker' = worker,
           row' = row, epochs' = epochs, handles' = handles,
           UNCHANGED <<misled, lockLost, lock, unsettled>>,
           stored' \subseteq stored,
           \A h \in stored \ stored' :
              h \in RequestDooms(request[o]) \/ h \in RequestHolds(request[o])
    PROVE  RequestStep(o, y)
  <1> DEFINE z == request[o]
  <1>1. /\ row \in Row \cup {NoRow} /\ epochs \in Nat /\ handles \in Nat
        /\ stored \in SUBSET Nat /\ unsettled \in SUBSET Nat /\ misled \in SUBSET Nat
        /\ lock \in Worker \cup {NoWorker} /\ lockLost \in BOOLEAN
        /\ z \in RequestState
    BY DEF RefreshInv, RefreshTypes
  <1>2. RowStep(row, epochs, row', epochs')  BY DEF RowStep
  <1>3. \A h : h \notin RequestHolds(y)  BY DEF RequestHolds
  <1>4. row' # NoRow => row'.grant \in Nat /\ row'.grant \notin row'.pending
    BY <1>1 DEF RefreshInv, GrantSpared, Row
  <1>5. CASE ~TookUp(y)
    <2>1. RequestFits(y, row', epochs')  BY <1>5 DEF RequestFits
    <2>2. \A h : h \notin RequestUses(y) /\ h \notin RequestDooms(y)
      BY <1>5 DEF RequestUses, RequestDooms, TookUp
    <2> QED  BY <1>1, <1>2, <1>3, <1>4, <2>1, <2>2 DEF RequestStep
  <1>6. CASE /\ TookUp(y) /\ y.state = row /\ row # NoRow
             /\ y.at \in {"configuring", "deleting"} => ~row.deleting
             /\ y.at \in {"purging", "removing"} => row.deleting
    <2>1. row \in Row /\ row.id \in Nat /\ row.version \in Nat /\ row.id <= epochs
      BY <1>1, <1>6 DEF Row, RefreshInv, RowsKnown
    <2>2. RequestFits(y, row', epochs')
      BY <1>6, <2>1 DEF RequestFits, NotAhead
    <2>3. \A h \in Nat : h \in RequestUses(y) => h \in RowUses(row)
      BY <1>6 DEF RequestUses, RowUses
    <2>4. ~row.deleting => \A h : h \notin RequestDooms(y)
      BY <1>6 DEF RequestDooms
    <2> QED  BY <1>1, <1>2, <1>3, <1>4, <2>2, <2>3, <2>4 DEF RequestStep
  <1>7. CASE z.at = "purging" /\ y.at = "removing" /\ y.state = z.state
    <2>1. RequestFits(z, row, epochs)  BY DEF RefreshInv, RowsKnown
    <2>2. RequestFits(y, row', epochs')  BY <1>7, <2>1 DEF RequestFits, TookUp
    <2>3. \A h \in Nat : h \in RequestUses(y) => h \in RequestUses(z)
      BY <1>7 DEF RequestUses, TookUp
    <2>4. \A h \in Nat : h \in RequestDooms(y) => h \in RequestDooms(z)
      BY <1>7 DEF RequestDooms
    <2>5. row' # NoRow /\ ~row'.deleting => row'.grant \notin RequestDooms(y)
      BY <1>4, <2>4 DEF RefreshInv, GrantSpared, Live
    <2> QED  BY <1>1, <1>2, <1>3, <1>4, <2>2, <2>3, <2>5 DEF RequestStep
  <1> QED  BY <1>5, <1>6, <1>7

\* A request that is answered is idle and took up nothing.
LEMMA RequestAnswers ==
    ASSUME RefreshInv, NEW o \in Operator, Answers(o)
    PROVE  /\ IdleRequest \in RequestState /\ IdleRequest.at = "idle"
           /\ ~TookUp(IdleRequest)
           /\ request' = [request EXCEPT ![o] = IdleRequest]
  <1>1. IdleRequest \in RequestState /\ IdleRequest.at = "idle"
    BY DEF IdleRequest, RequestState
  <1>2. ~TookUp(IdleRequest)  BY <1>1 DEF TookUp
  <1> QED  BY <1>1, <1>2 DEF Answers

\* A request that is answered, deleting at most material of its own.
LEMMA AnswersSteps ==
    ASSUME RefreshInv, NEW o \in Operator, Answers(o),
           UNCHANGED <<row, lock, worker, unsettled, history, handles, epochs>>,
           stored' \subseteq stored,
           \A h \in stored \ stored' : h \in RequestHolds(request[o])
    PROVE  \E y \in RequestState : RequestStep(o, y)
  <1>1. RequestStep(o, IdleRequest)
    BY RequestAnswers, RequestGoesOn DEF history
  <1> QED  BY <1>1, RequestAnswers

\* A request begins, with what it reads of the row.
LEMMA ConfigureSteps ==
    ASSUME RefreshInv, NEW o \in Operator, Configure(o)
    PROVE  \E y \in RequestState : RequestStep(o, y)
  <1> DEFINE z == request[o]
             y == [z EXCEPT !.at = "configuring", !.state = row]
  <1>1. z \in RequestState /\ row \in Row \cup {NoRow}  BY DEF RefreshInv, RefreshTypes
  <1>2. request' = [request EXCEPT ![o] = y]  BY DEF Configure
  <1> HIDE DEF z
  <1>3. y \in RequestState /\ y.at = "configuring" /\ y.state = row
    BY <1>1 DEF RequestState
  <1> HIDE DEF y
  <1>4. TookUp(y) => row # NoRow /\ ~row.deleting
    BY <1>3 DEF TookUp, Configure, Tombstoned
  <1>5. RequestStep(o, y)
    BY <1>2, <1>3, <1>4, RequestGoesOn DEF Configure, history
  <1> QED  BY <1>3, <1>5

\* A deletion takes up the row as it is.
LEMMA FoundSteps ==
    ASSUME RefreshInv, NEW o \in Operator, row # NoRow,
           request' = [request EXCEPT ![o] = Found(request[o])],
           UNCHANGED <<row, stored, lock, worker, unsettled, history, handles, epochs>>
    PROVE  \E y \in RequestState : RequestStep(o, y)
  <1> DEFINE z == request[o]
             at == IF row.deleting THEN "purging" ELSE "deleting"
             y == [z EXCEPT !.state = row, !.at = at]
  <1>1. z \in RequestState /\ row \in Row  BY DEF RefreshInv, RefreshTypes
  <1>2. request' = [request EXCEPT ![o] = y]  BY DEF Found
  <1>3. /\ at \in {"purging", "deleting"}
        /\ at = "purging" => row.deleting
        /\ at = "deleting" => ~row.deleting
    OBVIOUS
  <1> HIDE DEF z, at
  <1>4. y \in RequestState /\ y.at = at /\ y.state = row
    BY <1>1, <1>3 DEF RequestState
  <1> HIDE DEF y
  <1>5. RequestStep(o, y)
    BY <1>2, <1>3, <1>4, RequestGoesOn DEF history
  <1> QED  BY <1>4, <1>5

\* The sweep lists a tombstone.
LEMMA ListTombstoneSteps ==
    ASSUME RefreshInv, ListTombstone
    PROVE  \E y \in RequestState : RequestStep(Sweeper, y)
  <1> DEFINE z == request[Sweeper]
             y == [z EXCEPT !.at = "listed"]
  <1>1. Sweeper \in Operator  BY RefreshAssumption
  <1>2. z \in RequestState  BY <1>1 DEF RefreshInv, RefreshTypes
  <1>3. request' = [request EXCEPT ![Sweeper] = y]  BY DEF ListTombstone
  <1> HIDE DEF z
  <1>4. y \in RequestState /\ y.at = "listed"  BY <1>2 DEF RequestState
  <1> HIDE DEF y
  <1>5. ~TookUp(y)  BY <1>4 DEF TookUp
  <1>6. RequestStep(Sweeper, y)
    BY <1>1, <1>3, <1>4, <1>5, RequestGoesOn DEF ListTombstone, history, counters
  <1> QED  BY <1>4, <1>6

\* The sweep looks the tombstone up by name.
LEMMA FindTombstoneSteps ==
    ASSUME RefreshInv, FindTombstone
    PROVE  \E y \in RequestState : RequestStep(Sweeper, y)
  <1>1. Sweeper \in Operator  BY RefreshAssumption
  <1>2. CASE row = NoRow
    BY <1>1, <1>2, AnswersSteps DEF FindTombstone, counters
  <1>3. CASE row # NoRow
    BY <1>1, <1>3, FoundSteps DEF FindTombstone, counters
  <1> QED  BY <1>2, <1>3

\* A request deletes material of the row it read.
LEMMA PurgeSteps ==
    ASSUME RefreshInv, NEW o \in Operator, Purge(o)
    PROVE  \E y \in RequestState : RequestStep(o, y)
  <1> DEFINE z == request[o]
             y == [z EXCEPT !.at = "removing"]
  <1>1. TookUp(z)  BY DEF Purge, TookUp
  <1>2. /\ z \in RequestState /\ z.state.grant \in Nat /\ z.state.pending \in SUBSET Nat
        /\ stored \in SUBSET Nat
    BY <1>1, TookUpState DEF RefreshInv, RefreshTypes
  <1>3. request' = [request EXCEPT ![o] = y]  BY DEF Purge
  <1>4. stored' \subseteq stored /\ \A h \in stored \ stored' : h \in RequestDooms(z)
    BY <1>2 DEF Purge, RequestDooms, Mentions
  <1> HIDE DEF z
  <1>5. y \in RequestState /\ y.at = "removing" /\ y.state = z.state
    BY <1>2 DEF RequestState
  <1> HIDE DEF y
  <1>6. RequestStep(o, y)
    BY <1>3, <1>4, <1>5, RequestGoesOn DEF Purge, history, counters, z
  <1> QED  BY <1>5, <1>6

\* A configuration stores the material of its grant.
LEMMA StageConfiguredSteps ==
    ASSUME RefreshInv, NEW o \in Operator, StageConfigured(o)
    PROVE  \E y \in RequestState : RequestStep(o, y)
  <1> DEFINE z == request[o]
             n == handles + 1
             y == [z EXCEPT !.at = "staged", !.staged = n]
  <1>1. /\ handles' = n /\ stored' = stored \cup {n}
        /\ request' = [request EXCEPT ![o] = y] /\ z.at = "configuring"
        /\ UNCHANGED <<row, lock, worker, unsettled, epochs, lockLost, misled>>
    BY DEF StageConfigured, history
  <1>2. /\ row \in Row \cup {NoRow} /\ epochs \in Nat /\ handles \in Nat
        /\ stored \in SUBSET Nat /\ unsettled \in SUBSET Nat /\ misled \in SUBSET Nat
        /\ lock \in Worker \cup {NoWorker} /\ lockLost \in BOOLEAN
        /\ z \in RequestState
        /\ n \in Nat /\ handles < n /\ handles <= n
    BY DEF RefreshInv, RefreshTypes
  <1>3. RequestFits(z, row, epochs)  BY DEF RefreshInv, RowsKnown
  <1> HIDE DEF z, n
  <1>4. y \in RequestState /\ y.at = "staged" /\ y.staged = n /\ y.state = z.state
    BY <1>2 DEF RequestState
  <1> HIDE DEF y
  <1>5. RequestFits(y, row', epochs')
    BY <1>1, <1>3, <1>4 DEF RequestFits, TookUp
  <1>6. \A h \in Nat : h \in RequestUses(y) => h \in RequestUses(z)
    BY <1>1, <1>4 DEF RequestUses, TookUp
  <1>7. \A h \in RequestHolds(y) : h = n  BY <1>4 DEF RequestHolds
  <1>8. \A h : h \notin RequestDooms(y)  BY <1>4 DEF RequestDooms
  <1>9. RowStep(row, epochs, row', epochs')  BY <1>1 DEF RowStep
  <1>10. row' # NoRow => row'.grant \notin row'.pending
    BY <1>1 DEF RefreshInv, GrantSpared
  <1>11. \A h \in Nat :
           h \in unsettled' \/ h \in RowUses(row') \/ h \in RequestUses(y) =>
             h \in unsettled \/ h \in RowUses(row) \/ h \in RequestUses(z)
    BY <1>1, <1>6
  <1>12. RequestStep(o, y)
    BY <1>1, <1>2, <1>4, <1>5, <1>7, <1>8, <1>9, <1>10, <1>11 DEF RequestStep, z
  <1> QED  BY <1>4, <1>12

\* The row that a configuration stores.
LEMMA ConfiguredRow ==
    ASSUME RefreshInv, NEW o \in Operator, request[o].at = "staged",
           epochs' = epochs + 1
    PROVE  LET q == Configured(o)  old == request[o].state IN
           /\ q \in Row /\ ~q.deleting /\ q.grant = request[o].staged
           /\ old = NoRow => q.id = epochs' /\ q.pending = {}
           /\ old # NoRow => /\ q.id = old.id /\ q.version = old.version + 1
                             /\ q.pending = old.pending \cup {old.grant}
           /\ q.status = "configured"
  <1> DEFINE old == request[o].state
  <1>1. request[o].staged \in Nat /\ epochs' \in Nat
    BY DEF RefreshInv, RefreshTypes, RequestState
  <1>2. CASE old = NoRow
    BY <1>1, <1>2 DEF Configured, Row, Status
  <1>3. CASE old # NoRow
    <2>1. /\ old.id \in Nat /\ old.version \in Nat /\ old.grant \in Nat
          /\ old.pending \in SUBSET Nat /\ old.mint \in Nat
      BY <1>3, TookUpState DEF TookUp
    <2>2. old.version + 1 \in Nat /\ old.pending \cup {old.grant} \in SUBSET Nat
      BY <2>1
    <2> QED  BY <1>1, <1>3, <2>1, <2>2 DEF Configured, Row, Status
  <1> QED  BY <1>2, <1>3

\* A configuration writes its row.
LEMMA StoreConfiguredSteps ==
    ASSUME RefreshInv, NEW o \in Operator, StoreConfigured(o)
    PROVE  \E y \in RequestState : RequestStep(o, y)
  <1> DEFINE z == request[o]  old == request[o].state  n == request[o].staged
             q == Configured(o)
             y == IdleRequest
  <1>1. /\ z \in RequestState /\ n \in Nat /\ z.at = "staged"
        /\ row \in Row \cup {NoRow} /\ epochs \in Nat /\ handles \in Nat
        /\ stored \in SUBSET Nat /\ unsettled \in SUBSET Nat /\ misled \in SUBSET Nat
        /\ lock \in Worker \cup {NoWorker} /\ lockLost \in BOOLEAN
    BY DEF StoreConfigured, RefreshInv, RefreshTypes, RequestState
  <1>2. n \in RequestHolds(z)  BY <1>1 DEF RequestHolds
  <1>3. /\ y \in RequestState /\ y.at = "idle" /\ ~TookUp(y)
        /\ request' = [request EXCEPT ![o] = y]
    BY RequestAnswers DEF StoreConfigured
  <1>4. UNCHANGED <<lock, worker, unsettled, lockLost, handles>>
    BY DEF StoreConfigured
  <1>5. CASE ~Unchanged(o)
    <2>1. /\ stored' = stored \ {n} /\ row' = row /\ epochs' = epochs
          /\ misled' = misled
      BY <1>5 DEF StoreConfigured
    <2>2. stored' \subseteq stored /\ \A h \in stored \ stored' : h \in RequestHolds(z)
      BY <1>2, <2>1
    <2> QED  BY <1>4, <2>1, <2>2, AnswersSteps DEF StoreConfigured, history
  <1>6. CASE Unchanged(o)
    <2>1. /\ row' = q /\ epochs' = epochs + 1
          /\ \/ stored' = stored /\ misled' = misled
             \/ stored' = stored \ {n} /\ misled' = misled \cup {n}
      BY <1>6 DEF StoreConfigured
    <2>2. /\ q \in Row /\ ~q.deleting /\ q.grant = n
          /\ old = NoRow => q.id = epochs' /\ q.pending = {}
          /\ old # NoRow => /\ q.id = old.id /\ q.version = old.version + 1
                            /\ q.pending = old.pending \cup {old.grant}
      BY <1>1, <2>1, ConfiguredRow
    <2> HIDE DEF q
    <2>3. q # NoRow  BY <2>2, NoRowAssumption
    <2>4. HeldByRequest(o, n)  BY <1>2 DEF HeldByRequest
    <2>5. n \in stored /\ ~Known(n)  BY <1>1, <2>4 DEF RefreshInv, StagedAlone
    <2>6. old # NoRow =>
             /\ TookUp(z) /\ Current(old) /\ ~old.deleting
             /\ old.grant = row.grant /\ old.pending = row.pending
             /\ row.deleting = old.deleting
      BY <1>1, <1>6 DEF Unchanged, TookUp, RefreshInv, RowsKnown, RequestFits,
                        Agrees, Current
    <2>7. old = NoRow => row = NoRow  BY <1>6 DEF Unchanged
    <2>8. RowStep(row, epochs, row', epochs')
      <3>1. epochs' >= epochs  BY <1>1, <2>1
      <3>2. CASE old = NoRow  BY <2>1, <2>2, <2>3, <2>7, <3>2 DEF RowStep
      <3>3. CASE old # NoRow
        BY <2>1, <2>2, <2>3, <2>6, <3>1, <3>3 DEF RowStep, Current
      <3> QED  BY <3>2, <3>3
    <2>9. \A h : h \notin RequestHolds(y) /\ h \notin RequestDooms(y) /\ h \notin RequestUses(y)
      BY <1>3 DEF RequestHolds, RequestDooms, RequestUses, TookUp
    <2>10. ASSUME NEW h \in Nat, h \in RowUses(row')
           PROVE  h \in RowUses(row) \/ (h \in RequestHolds(z) /\ h \notin RequestHolds(y))
      <3>1. h = n \/ (old # NoRow /\ (h = row.grant \/ h \in row.pending) /\ row # NoRow)
        BY <2>1, <2>2, <2>6, <2>10 DEF RowUses, Mentions, Current
      <3> QED  BY <1>2, <2>9, <3>1 DEF RowUses, Mentions
    <2>11. q.grant \notin q.pending
      <3>1. CASE old = NoRow  BY <2>2, <3>1
      <3>2. CASE old # NoRow
        <4>1. n \notin RequestUses(z)  BY <2>5 DEF Known
        <4> QED  BY <1>1, <2>2, <2>6, <3>2, <4>1 DEF RequestUses, Mentions
      <3> QED  BY <3>1, <3>2
    <2>12. RequestFits(y, row', epochs')  BY <1>3 DEF RequestFits
    <2>13. /\ n \in stored' \cup misled' /\ misled \subseteq misled'
           /\ stored' \in SUBSET Nat /\ misled' \in SUBSET Nat
           /\ stored' \subseteq stored /\ \A h \in stored \ stored' : h = n
           /\ handles \in Nat /\ handles <= handles' /\ epochs' \in Nat
      <3> HIDE DEF n
      <3>1. handles \in Nat /\ handles <= handles' /\ epochs' \in Nat
        BY <1>1, <1>4, <2>1
      <3>2. CASE stored' = stored /\ misled' = misled  BY <1>1, <2>5, <3>1, <3>2
      <3>3. CASE stored' = stored \ {n} /\ misled' = misled \cup {n}
        BY <1>1, <2>5, <3>1, <3>3
      <3> QED  BY <2>1, <3>2, <3>3
    <2>14. RequestStep(o, y)
      BY <1>1, <1>2, <1>3, <1>4, <2>1, <2>2, <2>8, <2>9, <2>10, <2>11, <2>12, <2>13
      DEF RequestStep
    <2> QED  BY <1>3, <2>14
  <1> QED  BY <1>5, <1>6

\* A deletion writes the tombstone.
LEMMA TombstoneSteps ==
    ASSUME RefreshInv, NEW o \in Operator, Tombstone(o)
    PROVE  \E y \in RequestState : RequestStep(o, y)
  <1> DEFINE z == request[o]  s == request[o].state
             e == epochs + 1
             q == [Advanced(s) EXCEPT !.epoch = e, !.deleting = TRUE,
                                      !.status = "deleting"]
             y == [z EXCEPT !.at = "purging", !.state = q]
  <1>1. TookUp(z)  BY DEF Tombstone, TookUp
  <1>2. CASE ~Current(s)
    BY <1>2, AnswersSteps DEF Tombstone
  <1>3. CASE Current(s)
    <2>1. /\ z \in RequestState /\ s \in Row /\ s.id \in Nat /\ s.version \in Nat
          /\ s.grant \in Nat /\ s.pending \in SUBSET Nat /\ z.at = "deleting"
          /\ row \in Row /\ row # NoRow /\ epochs \in Nat /\ e \in Nat /\ epochs <= e
          /\ handles \in Nat
          /\ stored \in SUBSET Nat /\ unsettled \in SUBSET Nat /\ misled \in SUBSET Nat
          /\ lock \in Worker \cup {NoWorker} /\ lockLost \in BOOLEAN
      BY <1>1, <1>3, TookUpState DEF Tombstone, Current, RefreshInv, RefreshTypes
    <2>2. /\ epochs' = e /\ row' = q /\ request' = [request EXCEPT ![o] = y]
          /\ UNCHANGED <<stored, lock, worker, unsettled, misled, lockLost, handles>>
      BY <1>3 DEF Tombstone, history
    <2>3. /\ row.id = s.id /\ row.version = s.version /\ s.id <= epochs
          /\ s.grant = row.grant /\ s.pending = row.pending
      BY <1>1, <1>3 DEF Current, Agrees, RefreshInv, RowsKnown, RequestFits, NotAhead
    <2>4. /\ q \in Row /\ q.id = s.id /\ q.version = s.version + 1
          /\ q.deleting = TRUE /\ q.grant = s.grant /\ q.pending = s.pending
      <3> DEFINE a == [s EXCEPT !.version = s.version + 1]
      <3>1. /\ a \in Row /\ a.id = s.id /\ a.version = s.version + 1
            /\ a.grant = s.grant /\ a.pending = s.pending
        BY <2>1 DEF Row
      <3>2. Advanced(s) = a  BY DEF Advanced
      <3> HIDE DEF a, s, e
      <3>3. q = [a EXCEPT !.epoch = e, !.deleting = TRUE, !.status = "deleting"]
        BY <3>2
      <3> DEFINE b == [a EXCEPT !.epoch = e, !.deleting = TRUE, !.status = "deleting"]
      <3>4. /\ b \in Row /\ b.id = a.id /\ b.version = a.version
            /\ b.deleting = TRUE /\ b.grant = a.grant /\ b.pending = a.pending
        BY <2>1, <3>1 DEF Row, Status
      <3> QED  BY <3>1, <3>3, <3>4
    <2> HIDE DEF q, z, e
    <2>5. y \in RequestState /\ y.at = "purging" /\ y.state = q
      BY <2>1, <2>4 DEF RequestState
    <2> HIDE DEF y
    <2>6. RowStep(row, epochs, row', epochs')
      <3>1. q # NoRow  BY <2>4, NoRowAssumption
      <3>2. epochs' >= epochs  BY <2>1, <2>2
      <3> QED  BY <2>1, <2>2, <2>3, <2>4, <3>1, <3>2 DEF RowStep
    <2>7. RequestFits(y, row', epochs')
      <3>1. NotAhead(q, row', epochs')
        <4>1. s.id <= epochs'  BY <2>1, <2>2, <2>3
        <4>2. s.version + 1 <= s.version + 1  BY <2>1
        <4> QED  BY <2>2, <2>4, <4>1, <4>2 DEF NotAhead
      <3> QED  BY <2>2, <2>4, <2>5, <3>1 DEF RequestFits
    <2>8. \A h \in Nat : h \in RowUses(row') \/ h \in RequestUses(y) => h \in RowUses(row)
      BY <2>1, <2>2, <2>3, <2>4, <2>5 DEF RowUses, RequestUses, Mentions
    <2>9. \A h : h \notin RequestHolds(y)  BY <2>5 DEF RequestHolds
    <2>10. row'.grant \notin row'.pending
      BY <2>1, <2>2, <2>3, <2>4 DEF RefreshInv, GrantSpared
    <2>11. RequestStep(o, y)
      BY <2>1, <2>2, <2>4, <2>5, <2>6, <2>7, <2>8, <2>9, <2>10 DEF RequestStep
    <2> QED  BY <2>5, <2>11
  <1> QED  BY <1>2, <1>3

\* A deletion removes the row.
LEMMA RemoveSteps ==
    ASSUME RefreshInv, NEW o \in Operator, Remove(o)
    PROVE  \E y \in RequestState : RequestStep(o, y)
  <1> DEFINE y == IdleRequest
  <1>1. CASE ~Current(request[o].state)
    BY <1>1, AnswersSteps DEF Remove, counters
  <1>2. CASE Current(request[o].state)
    <2>1. /\ row' = NoRow /\ row # NoRow
          /\ UNCHANGED <<stored, lock, worker, unsettled, misled, lockLost, handles, epochs>>
      BY <1>2 DEF Remove, history, counters, Current
    <2>2. /\ y \in RequestState /\ y.at = "idle" /\ ~TookUp(y)
          /\ request' = [request EXCEPT ![o] = y]
      BY RequestAnswers DEF Remove
    <2>3. /\ row \in Row \cup {NoRow} /\ epochs \in Nat /\ handles \in Nat
          /\ stored \in SUBSET Nat /\ unsettled \in SUBSET Nat /\ misled \in SUBSET Nat
          /\ lock \in Worker \cup {NoWorker} /\ lockLost \in BOOLEAN
      BY DEF RefreshInv, RefreshTypes
    <2>4. RowStep(row, epochs, row', epochs')  BY <2>1 DEF RowStep
    <2>5. RequestFits(y, row', epochs')  BY <2>2 DEF RequestFits
    <2>6. \A h : h \notin RequestHolds(y) /\ h \notin RequestUses(y) /\ h \notin RowUses(row')
      BY <2>1, <2>2 DEF RequestHolds, RequestUses, RowUses
    <2>7. RequestStep(o, y)
      BY <2>1, <2>2, <2>3, <2>4, <2>5, <2>6 DEF RequestStep
    <2> QED  BY <2>2, <2>7
  <1> QED  BY <1>1, <1>2

\* Every step of a request is a RequestStep.
LEMMA RequestNext ==
    ASSUME RefreshInv, NEW o \in Operator,
           Configure(o) \/ Delete(o) \/ Operate(o) \/ RequestFails(o)
    PROVE  \E y \in RequestState : RequestStep(o, y)
  <1>1. CASE Configure(o)  BY <1>1, ConfigureSteps
  <1>2. CASE Delete(o)  BY <1>2, FoundSteps DEF Delete
  <1>3. CASE StageConfigured(o)  BY <1>3, StageConfiguredSteps
  <1>4. CASE StoreConfigured(o)  BY <1>4, StoreConfiguredSteps
  <1>5. CASE Tombstone(o)  BY <1>5, TombstoneSteps
  <1>6. CASE Purge(o)  BY <1>6, PurgeSteps
  <1>7. CASE Remove(o)  BY <1>7, RemoveSteps
  <1>8. CASE RequestFails(o)  BY <1>8, AnswersSteps DEF RequestFails
  <1> QED  BY <1>1, <1>2, <1>3, <1>4, <1>5, <1>6, <1>7, <1>8 DEF Operate

-------------------------------------------------------------------------------
(* The invariant, and what it gives.                                        *)

\* The invariant holds initially.
LEMMA InitRefreshInv == Init => RefreshInv
  <1> SUFFICES ASSUME Init PROVE RefreshInv  OBVIOUS
  <1>1. /\ row \in Row /\ row.id = 1 /\ row.grant = 1 /\ row.pending = {}
        /\ ~row.deleting
    BY DEF Init, Row, Status
  <1>2. /\ IdleWorker \in WorkerState /\ IdleRequest \in RequestState
        /\ ~Carries(IdleWorker) /\ ~TookUp(IdleRequest)
        /\ IdleWorker.at = "idle" /\ IdleRequest.at = "idle"
    BY DEF IdleWorker, IdleRequest, WorkerState, RequestState, Carries, TookUp, Kind
  <1>3. /\ worker = [w \in Worker |-> IdleWorker]
        /\ request = [o \in Operator |-> IdleRequest]
    BY DEF Init
  <1>4. /\ \A w \in Worker : worker[w] = IdleWorker
        /\ \A o \in Operator : request[o] = IdleRequest
    BY <1>3
  <1>11. RefreshTypes
    <2>1. worker \in [Worker -> WorkerState] /\ request \in [Operator -> RequestState]
      BY <1>2, <1>3
    <2>2. stored = {1} /\ unsettled = {} /\ misled = {} /\ handles = 1 /\ epochs = 1
      BY DEF Init
    <2>3. /\ stored \in SUBSET Nat /\ unsettled \in SUBSET Nat /\ misled \in SUBSET Nat
          /\ handles \in Nat /\ epochs \in Nat
      BY <2>2
    <2>4. lockLost \in BOOLEAN /\ lock \in Worker \cup {NoWorker}  BY DEF Init
    <2> QED  BY <1>1, <2>1, <2>3, <2>4 DEF RefreshTypes
  <1>5. RowsKnown
    <2>1. row.id <= epochs  BY <1>1 DEF Init
    <2> QED  BY <1>2, <1>4, <2>1 DEF RowsKnown, WorkerFits, RequestFits
  <1>6. /\ \A w \in Worker : \A h : /\ h \notin WorkerUses(worker[w])
                                    /\ h \notin WorkerHolds(worker[w])
                                    /\ h \notin WorkerDooms(worker[w])
        /\ \A o \in Operator : \A h : /\ h \notin RequestUses(request[o])
                                      /\ h \notin RequestHolds(request[o])
                                      /\ h \notin RequestDooms(request[o])
    BY <1>2, <1>4 DEF WorkerUses, WorkerHolds, WorkerDooms, RequestUses,
                      RequestHolds, RequestDooms
  <1>7. \A h : h \in RowUses(row) => h = 1  BY <1>1 DEF RowUses, Mentions
  <1>8. HandlesNumbered
    BY <1>6, <1>7 DEF Init, HandlesNumbered, Known, HeldByWorker, HeldByRequest
  <1>9. StagedAlone
    BY <1>6 DEF StagedAlone, HeldByWorker, HeldByRequest
  <1>10. GrantSpared
    BY <1>1, <1>6 DEF Init, GrantSpared
  <1> QED  BY <1>11, <1>5, <1>8, <1>9, <1>10 DEF RefreshInv

\* A step of the specification moves the row on as RowStep allows.
LEMMA NextRefreshInv ==
    ASSUME RefreshInv, [Next]_vars
    PROVE  RefreshInv' /\ RowStep(row, epochs, row', epochs')
  <1>1. ASSUME NEW w \in Worker,
               \/ \E kind \in Kind : Observe(w, kind)
               \/ Refresh(w) \/ GiveUp(w) \/ ClaimFails(w)
               \/ ApplyFails(w) \/ Crash(w) \/ LoseLock(w)
        PROVE  RefreshInv' /\ RowStep(row, epochs, row', epochs')
    <2>1. PICK x \in WorkerState : WorkerStep(w, x)  BY <1>1, WorkerNext
    <2>2. RefreshInv'  BY <2>1, WorkerStepKeeps
    <2> QED  BY <2>1, <2>2 DEF WorkerStep
  <1>2. ASSUME NEW o \in Operator,
               \/ Configure(o) \/ Delete(o) \/ Operate(o) \/ RequestFails(o)
        PROVE  RefreshInv' /\ RowStep(row, epochs, row', epochs')
    <2>1. PICK y \in RequestState : RequestStep(o, y)  BY <1>2, RequestNext
    <2>2. RefreshInv'  BY <2>1, RequestStepKeeps
    <2> QED  BY <2>1, <2>2 DEF RequestStep
  <1>3. CASE ListTombstone \/ FindTombstone
    <2>1. Sweeper \in Operator  BY RefreshAssumption
    <2>2. PICK y \in RequestState : RequestStep(Sweeper, y)
      BY <1>3, ListTombstoneSteps, FindTombstoneSteps
    <2>3. RefreshInv'  BY <2>1, <2>2, RequestStepKeeps
    <2> QED  BY <2>2, <2>3 DEF RequestStep
  <1>4. CASE UNCHANGED vars
    <2>1. RowStep(row, epochs, row', epochs')  BY <1>4 DEF RowStep, vars, counters
    <2>2. RefreshInv'
      BY <1>4 DEF RefreshInv, RefreshTypes, RowsKnown, HandlesNumbered, StagedAlone,
                  GrantSpared, Known, HeldByWorker, HeldByRequest, Live,
                  vars, history, counters
    <2> QED  BY <2>1, <2>2
  <1> QED  BY <1>1, <1>2, <1>3, <1>4 DEF Next

\* The invariant of rows, workers, requests and stored material.
LEMMA RefreshInvariant == Spec => []RefreshInv
  <1>1. RefreshInv /\ [Next]_vars => RefreshInv'  BY NextRefreshInv
  <1> QED  BY <1>1, InitRefreshInv, PTL DEF Spec

\* GrantStored, for every number of workers, operators and changes: no cleanup,
\* lost row or deletion by name takes the material of a live row's grant.
THEOREM GrantsStored == Spec => []GrantStored
  <1>1. RefreshInv => GrantStored  BY DEF RefreshInv, GrantSpared, GrantStored
  <1> QED  BY <1>1, RefreshInvariant, PTL

\* TombstoneFinal: whatever a worker or a request read before, a tombstone is
\* only removed.
THEOREM TombstonesFinal == Spec => TombstoneFinal
  <1>1. RefreshInv /\ [Next]_vars =>
           [Tombstoned => row' = NoRow \/ (row'.id = row.id /\ row'.deleting)]_vars
    <2> SUFFICES ASSUME RefreshInv, [Next]_vars, Tombstoned
                 PROVE  row' = NoRow \/ (row'.id = row.id /\ row'.deleting)
      OBVIOUS
    <2>1. RowStep(row, epochs, row', epochs')  BY NextRefreshInv
    <2> QED  BY <2>1 DEF RowStep, Tombstoned
  <1> QED  BY <1>1, RefreshInvariant, PTL DEF Spec, TombstoneFinal

-------------------------------------------------------------------------------
(* One presentation of a grant at a time.                                   *)

\* A worker under way is alone, so what it does to the row and to the grants
\* presented concerns only itself.
LEMMA AloneKeeps ==
    ASSUME RefreshInv, Unpresented, ~lockLost, NEW w \in Worker, NEW x,
           worker' = [worker EXCEPT ![w] = x],
           \/ worker[w].at \notin {"idle", "waiting"}
           \/ row' = row /\ unsettled' = unsettled,
           x.at \notin {"idle", "waiting"} => lock' = w,
           \A v \in Worker \ {w} : lock = v => lock' = v,
           RowMarked(row', unsettled'),
           Presentable(x, row', unsettled')
    PROVE  Unpresented'
  <1>1. worker \in [Worker -> WorkerState]  BY DEF RefreshInv, RefreshTypes
  <1>2. /\ worker'[w] = x
        /\ \A v \in Worker \ {w} : worker'[v] = worker[v]
    BY <1>1
  <1>3. /\ \A v \in Worker : worker[v].at \notin {"idle", "waiting"} => lock = v
        /\ \A v \in Worker : Presentable(worker[v], row, unsettled)
    BY DEF Unpresented
  <1>4. \A v \in Worker : worker'[v].at \notin {"idle", "waiting"} => lock' = v
    BY <1>2, <1>3
  <1>5. ASSUME NEW v \in Worker PROVE Presentable(worker'[v], row', unsettled')
    <2>1. CASE v = w  BY <1>2, <2>1
    <2>2. CASE v # w /\ row' = row /\ unsettled' = unsettled
      BY <1>2, <1>3, <2>2
    <2>3. CASE v # w /\ worker[w].at \notin {"idle", "waiting"}
      <3>1. worker[v].at \in {"idle", "waiting"}  BY <1>3, <2>3
      <3> QED  BY <1>2, <2>3, <3>1 DEF Presentable
    <2> QED  BY <2>1, <2>2, <2>3
  <1> QED  BY <1>4, <1>5 DEF Unpresented

\* A worker that ends presents nothing any more.
LEMMA EndsKeeps ==
    ASSUME RefreshInv, Unpresented, ~lockLost, NEW w \in Worker, Ends(w),
           \/ worker[w].at \notin {"idle", "waiting"}
           \/ row' = row /\ unsettled' = unsettled,
           RowMarked(row', unsettled')
    PROVE  Unpresented'
  <1>1. IdleWorker.at = "idle" /\ worker' = [worker EXCEPT ![w] = IdleWorker]
    BY WorkerEnds
  <1>2. Presentable(IdleWorker, row', unsettled')  BY <1>1 DEF Presentable
  <1>3. \A v \in Worker \ {w} : lock = v => lock' = v  BY DEF Ends
  <1> QED  BY <1>1, <1>2, <1>3, AloneKeeps

\* A recorded outcome leaves no presentation unsettled.
LEMMA RecordKeeps ==
    ASSUME RefreshInv, Unpresented, ~lockLost, NEW w \in Worker, NEW status \in Status,
           Carries(worker[w]), Record(worker[w].state, status), Ends(w)
    PROVE  Unpresented'
  <1> DEFINE s == worker[w].state
             q == [Advanced(s) EXCEPT !.status = status]
  <1>1. s \in Row /\ worker[w].at \notin {"idle", "waiting"}
    BY CarriedState DEF Carries
  <1>2. RowMarked(row', unsettled')
    <2>1. CASE Current(s)
      <3>1. row' = q /\ s.grant \notin unsettled'  BY <2>1 DEF Record
      <3>2. q.grant = s.grant  BY <1>1, Written
      <3> QED  BY <3>1, <3>2 DEF RowMarked
    <2>2. CASE ~Current(s)
      BY <2>2 DEF Record, Unpresented
    <2> QED  BY <2>1, <2>2
  <1> QED  BY <1>1, <1>2, EndsKeeps

\* While sessions last, the worker under way holds the lock.
LEMMA HolderKept ==
    ASSUME Unpresented, ~lockLost, NEW w \in Worker,
           worker[w].at \notin {"idle", "waiting"}, lock' = lock
    PROVE  lock' = w /\ \A v \in Worker \ {w} : lock = v => lock' = v
  BY DEF Unpresented

\* No step of a worker leads to a grant presented twice.
LEMMA WorkerUnpresented ==
    ASSUME RefreshInv, Unpresented, NEW w \in Worker,
           \/ \E kind \in Kind : Observe(w, kind)
           \/ Refresh(w) \/ GiveUp(w) \/ ClaimFails(w)
           \/ ApplyFails(w) \/ Crash(w) \/ LoseLock(w),
           ~lockLost, ~lockLost'
    PROVE  Unpresented'
  <1> DEFINE z == worker[w]  s == worker[w].state
  <1>1. /\ RowMarked(row, unsettled) /\ Presentable(z, row, unsettled)
        /\ z.at \notin {"idle", "waiting"} => lock = w
    BY DEF Unpresented
  <1>2. z \in WorkerState  BY DEF RefreshInv, RefreshTypes
  <1>3. ASSUME NEW kind \in Kind, Observe(w, kind) PROVE Unpresented'
    <2> DEFINE seen == [id |-> row.id, epoch |-> row.epoch, mint |-> row.mint]
               x == [IdleWorker EXCEPT !.at = "waiting", !.kind = kind, !.seen = seen]
    <2>1. /\ worker' = [worker EXCEPT ![w] = x] /\ row' = row /\ unsettled' = unsettled
          /\ lock' = lock
      BY <1>3 DEF Observe
    <2> HIDE DEF seen
    <2>2. x.at = "waiting"  BY DEF IdleWorker
    <2> HIDE DEF x
    <2>3. Presentable(x, row', unsettled')  BY <2>2 DEF Presentable
    <2> QED  BY <1>1, <2>1, <2>2, <2>3, AloneKeeps
  <1>4. CASE Acquire(w)
    <2>1. PICK x \in WorkerState : worker' = [worker EXCEPT ![w] = x] /\ x.at = "locked"
      BY <1>4, WorkerGoes DEF Acquire
    <2>2. Presentable(x, row', unsettled')  BY <2>1 DEF Presentable
    <2>3. lock = NoWorker /\ lock' = w /\ row' = row /\ unsettled' = unsettled
      BY <1>4 DEF Acquire
    <2>4. \A v \in Worker \ {w} : lock = v => lock' = v
      BY <2>3, RefreshAssumption
    <2> QED  BY <1>1, <2>1, <2>2, <2>3, <2>4, AloneKeeps
  <1>5. CASE Check(w)
    <2>1. z.at \notin {"idle", "waiting"} /\ row' = row /\ unsettled' = unsettled
      BY <1>5 DEF Check
    <2>2. CASE Ends(w)  BY <1>1, <2>1, <2>2, EndsKeeps
    <2>3. CASE ~Ends(w)
      <3>1. /\ ~Refused(w) /\ lock' = lock
            /\ worker' = [worker EXCEPT
                  ![w] = IF z.kind = "cleanup"
                         THEN [z EXCEPT !.at = "read", !.state = row]
                         ELSE [z EXCEPT !.at = "checked"]]
        BY <1>5, <2>3 DEF Check
      <3>2. /\ row # NoRow /\ ~row.deleting
            /\ z.kind # "cleanup" => ~InFlight(row.status)
        BY <3>1 DEF Refused, Superseded
      <3>3. z.kind # "cleanup" => row.grant \notin unsettled
        BY <1>1, <3>2 DEF RowMarked
      <3>4. CASE z.kind = "cleanup"
        <4> DEFINE x == [z EXCEPT !.at = "read", !.state = row]
        <4>1. worker' = [worker EXCEPT ![w] = x]  BY <3>1, <3>4
        <4>2. row \in Row \cup {NoRow}  BY DEF RefreshInv, RefreshTypes
        <4>3. z.kind = "cleanup"  BY <3>4
        <4> HIDE DEF z
        <4>4. x.at = "read" /\ x.kind = "cleanup"  BY <1>2, <4>2, <4>3 DEF WorkerState
        <4> HIDE DEF x
        <4>5. Presentable(x, row', unsettled')  BY <4>4 DEF Presentable
        <4> QED  BY <1>1, <2>1, <3>1, <4>1, <4>5, HolderKept, AloneKeeps DEF z
      <3>5. CASE z.kind # "cleanup"
        <4> DEFINE x == [z EXCEPT !.at = "checked"]
        <4>1. worker' = [worker EXCEPT ![w] = x]  BY <3>1, <3>5
        <4>2. z.kind # "cleanup"  BY <3>5
        <4> HIDE DEF z
        <4>3. x.at = "checked" /\ x.kind # "cleanup"  BY <1>2, <4>2 DEF WorkerState
        <4> HIDE DEF x
        <4>4. Presentable(x, row', unsettled')  BY <2>1, <3>3, <4>2, <4>3 DEF Presentable
        <4> QED  BY <1>1, <2>1, <3>1, <4>1, <4>4, HolderKept, AloneKeeps DEF z
      <3> QED  BY <3>4, <3>5
    <2> QED  BY <2>2, <2>3
  <1>6. CASE Read(w)
    <2>1. /\ z.at = "checked" /\ row' = row /\ unsettled' = unsettled
          /\ z.at \notin {"idle", "waiting"}
      BY <1>6 DEF Read
    <2>2. CASE ~Live  BY <1>1, <1>6, <2>1, <2>2, EndsKeeps DEF Read
    <2>3. CASE Live
      <3>1. PICK x \in WorkerState :
                /\ worker' = [worker EXCEPT ![w] = x]
                /\ x.at = "read" /\ x.state = row /\ x.kind = z.kind
        BY <1>6, <2>3, WorkerReads DEF Read, counters
      <3>2. z.kind # "cleanup" /\ row.grant \notin unsettled
        BY <1>1, <2>1, <2>3 DEF Presentable, Live
      <3>3. Presentable(x, row', unsettled')  BY <2>1, <3>1, <3>2 DEF Presentable
      <3>4. lock' = lock  BY <1>6, <2>3 DEF Read
      <3> QED  BY <1>1, <2>1, <3>1, <3>3, <3>4, HolderKept, AloneKeeps
    <2> QED  BY <2>2, <2>3
  <1>7. CASE DeletePending(w)
    <2>1. PICK at \in {"swept", "ready"} : Goes(w, at)  BY <1>7 DEF DeletePending
    <2>2. PICK x \in WorkerState :
              /\ worker' = [worker EXCEPT ![w] = x]
              /\ x.at = at /\ x.state = s /\ x.kind = z.kind
      BY <2>1, WorkerGoes
    <2>3. /\ z.at = "read" /\ row' = row /\ unsettled' = unsettled /\ lock' = lock
          /\ z.at \notin {"idle", "waiting"}
      BY <1>7 DEF DeletePending
    <2>4. Presentable(x, row', unsettled')  BY <1>1, <2>2, <2>3 DEF Presentable
    <2> QED  BY <1>1, <2>2, <2>3, <2>4, HolderKept, AloneKeeps
  <1>8. CASE ClearPending(w)
    <2> DEFINE q == [Advanced(s) EXCEPT !.pending = {}]
               y == [z EXCEPT !.at = "ready", !.state = q]
    <2>1. /\ z.at = "swept" /\ z.at # "staged" /\ unsettled' = unsettled /\ lock' = lock
          /\ z.at \notin {"idle", "waiting"}
      BY <1>8 DEF ClearPending
    <2>2. Carries(z) /\ s \in Row  BY <2>1, CarriedState DEF Carries
    <2>3. CASE Current(s)
      <3>1. row' = q /\ worker' = [worker EXCEPT ![w] = y]  BY <1>8, <2>3 DEF ClearPending
      <3>2. /\ q \in Row /\ q.deleting = s.deleting /\ q.grant = s.grant
            /\ q.status = s.status
        BY <2>2, WrittenCleaned
      <3>3. /\ row # NoRow /\ ~row.deleting /\ s.grant = row.grant
            /\ s.status = row.status
        BY <2>1, <2>2, <2>3
        DEF Current, Agrees, RefreshInv, RowsKnown, WorkerFits
      <3>4. RowMarked(row', unsettled')
        BY <1>1, <2>1, <3>1, <3>2, <3>3 DEF RowMarked
      <3>5. z.kind # "cleanup" => s.grant \notin unsettled
        BY <1>1, <2>1 DEF Presentable
      <3> HIDE DEF q, z
      <3>6. y.at = "ready" /\ y.state = q /\ y.kind = z.kind
        BY <1>2, <3>2 DEF WorkerState
      <3> HIDE DEF y
      <3>7. Presentable(y, row', unsettled')
        BY <2>1, <3>1, <3>2, <3>5, <3>6 DEF Presentable
      <3> QED  BY <1>1, <2>1, <3>1, <3>4, <3>7, HolderKept, AloneKeeps DEF z
    <2>4. CASE ~Current(s)
      <3>1. PICK x \in WorkerState :
                /\ worker' = [worker EXCEPT ![w] = x]
                /\ x.at = "ready" /\ x.state = s /\ x.kind = z.kind
        BY <1>8, <2>4, WorkerGoes DEF ClearPending
      <3>2. row' = row  BY <1>8, <2>4 DEF ClearPending
      <3>3. Presentable(x, row', unsettled')  BY <1>1, <2>1, <3>1, <3>2 DEF Presentable
      <3> QED  BY <1>1, <2>1, <3>1, <3>2, <3>3, HolderKept, AloneKeeps
    <2> QED  BY <2>3, <2>4
  <1>9. CASE EndCleanup(w)
    <2>1. z.at \notin {"idle", "waiting"} /\ row' = row /\ unsettled' = unsettled /\ Ends(w)
      BY <1>9 DEF EndCleanup, Cleaned
    <2> QED  BY <1>1, <2>1, EndsKeeps
  <1>10. CASE Mark(w)
    <2> DEFINE q == [Advanced(s) EXCEPT !.status = "refresh_in_progress"]
               x == [z EXCEPT !.at = "minting", !.state = q]
    <2>1. /\ z.at \in {"ready", "read"} /\ z.kind # "cleanup"
          /\ unsettled' = unsettled /\ z.at \notin {"idle", "waiting"}
      BY <1>10 DEF Mark, Cleaned
    <2>2. Carries(z) /\ s \in Row  BY <2>1, CarriedState DEF Carries
    <2>3. CASE Current(s)
      <3>1. row' = q /\ worker' = [worker EXCEPT ![w] = x] /\ lock' = lock
        BY <1>10, <2>3 DEF Mark
      <3>2. q \in Row /\ q.grant = s.grant /\ q.status = "refresh_in_progress"
        BY <2>2, Written DEF Status
      <3>3. InFlight(q.status)  BY <3>2 DEF InFlight
      <3>4. s.grant \notin unsettled  BY <1>1, <2>1 DEF Presentable
      <3> HIDE DEF q, z
      <3>5. x.at = "minting" /\ x.state = q /\ x.kind = z.kind
        BY <1>2, <3>2 DEF WorkerState
      <3> HIDE DEF x
      <3>6. Presentable(x, row', unsettled') /\ RowMarked(row', unsettled')
        BY <2>1, <3>1, <3>2, <3>3, <3>4, <3>5 DEF Presentable, RowMarked
      <3> QED  BY <1>1, <2>1, <3>1, <3>6, HolderKept, AloneKeeps DEF z
    <2>4. CASE ~Current(s)
      <3>1. Ends(w) /\ row' = row  BY <1>10, <2>4 DEF Mark
      <3> QED  BY <1>1, <2>1, <3>1, EndsKeeps
    <2> QED  BY <2>3, <2>4
  <1>11. CASE Mint(w)
    <2>1. PICK result \in {"rotated", "kept", "error", "reauthorization_required"} :
             worker' = [worker EXCEPT ![w] = [z EXCEPT !.at = "minted", !.result = result]]
      BY <1>11 DEF Mint
    <2> DEFINE x == [z EXCEPT !.at = "minted", !.result = result]
    <2>2. /\ z.at = "minting" /\ row' = row /\ lock' = lock
          /\ \A h \in unsettled' : h \in unsettled \/ h = s.grant
          /\ z.at \notin {"idle", "waiting"}
      BY <1>11 DEF Mint
    <2>3. row # NoRow /\ ~row.deleting /\ row.grant = s.grant => InFlight(row.status)
      BY <1>1, <2>2 DEF Presentable
    <2>4. RowMarked(row', unsettled')  BY <1>1, <2>2, <2>3 DEF RowMarked
    <2>5. worker' = [worker EXCEPT ![w] = x]  BY <2>1
    <2>6. x.at = "minted" /\ x.state = s
      <3> HIDE DEF z
      <3>1. x.at = "minted" /\ x.state = z.state  BY <1>2 DEF WorkerState
      <3> QED  BY <3>1 DEF z
    <2> HIDE DEF x
    <2>7. Presentable(x, row', unsettled')  BY <2>2, <2>3, <2>6 DEF Presentable
    <2> QED  BY <1>1, <2>2, <2>4, <2>5, <2>7, HolderKept, AloneKeeps
  <1>12. CASE Stage(w)
    <2>1. /\ z.at = "minted" /\ row' = row /\ unsettled' = unsettled /\ lock' = lock
          /\ z.at \notin {"idle", "waiting"}
      BY <1>12 DEF Stage
    <2>2. row # NoRow /\ ~row.deleting /\ row.grant = s.grant => InFlight(row.status)
      BY <1>1, <2>1 DEF Presentable
    <2>3. Carries(z) /\ s \in Row /\ s.grant \in Nat /\ s.pending \in SUBSET Nat
      BY <2>1, CarriedState DEF Carries
    <2>4. CASE worker' = [worker EXCEPT ![w].result = "reauthorization_required"]
      <3> DEFINE x == [z EXCEPT !.result = "reauthorization_required"]
      <3>1. worker' = [worker EXCEPT ![w] = x]  BY <2>4
      <3>2. x.at = "minted" /\ x.state = s
        <4>1. z.at = "minted"  BY <2>1
        <4> HIDE DEF z
        <4>2. x.at = "minted" /\ x.state = z.state  BY <1>2, <4>1 DEF WorkerState
        <4> QED  BY <4>2 DEF z
      <3> HIDE DEF x
      <3>3. Presentable(x, row', unsettled')  BY <2>1, <2>2, <3>2 DEF Presentable
      <3> QED  BY <1>1, <2>1, <3>1, <3>3, HolderKept, AloneKeeps
    <2>5. CASE worker' # [worker EXCEPT ![w].result = "reauthorization_required"]
      <3> DEFINE n == handles'
                 p == s.pending \cup {s.grant}
                 t == [s EXCEPT !.grant = n, !.pending = p]
                 x == [z EXCEPT !.at = "staged", !.state = t]
      <3>1. worker' = [worker EXCEPT ![w] = x]  BY <1>12, <2>5 DEF Stage
      <3> HIDE DEF z, t
      <3>2. x.at = "staged"  BY <1>2 DEF WorkerState
      <3> HIDE DEF x
      <3>3. Presentable(x, row', unsettled')  BY <3>2 DEF Presentable
      <3> QED  BY <1>1, <2>1, <3>1, <3>3, HolderKept, AloneKeeps DEF z
    <2> QED  BY <2>4, <2>5
  <1>13. CASE RecordFailure(w)
    <2>1. Carries(z) /\ z.result \in Status
      BY <1>13 DEF RecordFailure, Carries, Status
    <2> QED  BY <1>13, <2>1, RecordKeeps DEF RecordFailure
  <1>14. CASE Claim(w)
    <2> DEFINE q == [Advanced(s) EXCEPT !.status = "refresh_committing"]
               x == [z EXCEPT !.at = "claimed", !.state = q]
    <2>1. /\ z.at \in {"staged", "minted"} /\ z.at \notin {"idle", "waiting"}
          /\ unsettled' = unsettled
      BY <1>14 DEF Claim
    <2>2. Carries(z) /\ s \in Row  BY <2>1, CarriedState DEF Carries
    <2>3. CASE Current(s)
      <3>1. row' = q /\ worker' = [worker EXCEPT ![w] = x] /\ lock' = lock
        BY <1>14, <2>3 DEF Claim
      <3>2. q \in Row /\ q.status = "refresh_committing"  BY <2>2, Written DEF Status
      <3> HIDE DEF q, z
      <3>3. x.at = "claimed"  BY <1>2, <3>2 DEF WorkerState
      <3> HIDE DEF x
      <3>4. Presentable(x, row', unsettled') /\ RowMarked(row', unsettled')
        BY <3>1, <3>2, <3>3 DEF Presentable, RowMarked, InFlight
      <3> QED  BY <1>1, <2>1, <3>1, <3>4, HolderKept, AloneKeeps DEF z
    <2>4. CASE ~Current(s)
      <3>1. Ends(w) /\ row' = row  BY <1>14, <2>4 DEF Claim
      <3> QED  BY <1>1, <2>1, <3>1, EndsKeeps
    <2> QED  BY <2>3, <2>4
  <1>15. CASE Apply(w)
    <2>1. PICK x \in WorkerState : worker' = [worker EXCEPT ![w] = x] /\ x.at = "applied"
      BY <1>15, WorkerGoes DEF Apply
    <2>2. /\ z.at \notin {"idle", "waiting"} /\ row' = row /\ unsettled' = unsettled
          /\ lock' = lock
      BY <1>15 DEF Apply
    <2>3. Presentable(x, row', unsettled')  BY <2>1 DEF Presentable
    <2> QED  BY <1>1, <2>1, <2>2, <2>3, HolderKept, AloneKeeps
  <1>16. CASE Complete(w)
    <2> DEFINE q == [Advanced(s) EXCEPT !.status = "refreshed", !.mint = s.mint + 1]
               x == [z EXCEPT !.at = "read", !.state = q, !.kind = "cleanup"]
    <2>1. z.at = "applied" /\ z.at \notin {"idle", "waiting"}  BY <1>16 DEF Complete
    <2>2. Carries(z) /\ s \in Row  BY <2>1, CarriedState DEF Carries
    <2>3. CASE Current(s)
      <3>1. /\ row' = q /\ worker' = [worker EXCEPT ![w] = x] /\ lock' = lock
            /\ unsettled' = unsettled \ ({q.grant} \cup q.pending)
        BY <1>16, <2>3 DEF Complete
      <3>2. q \in Row  BY <2>2, WrittenCompleted
      <3> HIDE DEF q, z
      <3>3. x.at = "read" /\ x.kind = "cleanup"  BY <1>2, <3>2 DEF WorkerState, Kind
      <3> HIDE DEF x
      <3>4. Presentable(x, row', unsettled') /\ RowMarked(row', unsettled')
        BY <3>1, <3>3 DEF Presentable, RowMarked
      <3> QED  BY <1>1, <2>1, <3>1, <3>4, HolderKept, AloneKeeps DEF z
    <2>4. CASE ~Current(s)
      <3>1. Ends(w) /\ row' = row /\ unsettled' = unsettled  BY <1>16, <2>4 DEF Complete
      <3> QED  BY <1>1, <2>1, <3>1, EndsKeeps
    <2> QED  BY <2>3, <2>4
  <1>17. CASE GiveUp(w)
    <2>1. Ends(w) /\ row' = row /\ unsettled' = unsettled  BY <1>17 DEF GiveUp
    <2> QED  BY <1>1, <2>1, EndsKeeps
  <1>18. CASE ClaimFails(w)
    <2>1. Carries(z)  BY <1>18 DEF ClaimFails, Carries
    <2> QED  BY <1>18, <2>1, RecordKeeps DEF ClaimFails, Status
  <1>19. CASE ApplyFails(w)
    <2>1. Carries(z)  BY <1>19 DEF ApplyFails, Carries
    <2> QED  BY <1>19, <2>1, RecordKeeps DEF ApplyFails, Status
  <1>20. CASE Crash(w)
    <2>1. Ends(w) /\ row' = row /\ unsettled' = unsettled  BY <1>20 DEF Crash
    <2> QED  BY <1>1, <2>1, EndsKeeps
  <1>21. CASE LoseLock(w)
    <2>1. lockLost'  BY <1>21 DEF LoseLock
    <2> QED  BY <2>1
  <1> QED
    BY <1>3, <1>4, <1>5, <1>6, <1>7, <1>8, <1>9, <1>10, <1>11, <1>12, <1>13,
       <1>14, <1>15, <1>16, <1>17, <1>18, <1>19, <1>20, <1>21 DEF Refresh

\* Requests leave the workers and the grants presented alone; the row they
\* store has a grant that nobody has presented.
LEMMA RequestUnpresented ==
    ASSUME RefreshInv, Unpresented,
           \/ \E o \in Operator :
                 Configure(o) \/ Delete(o) \/ Operate(o) \/ RequestFails(o)
           \/ ListTombstone \/ FindTombstone,
           ~lockLost
    PROVE  Unpresented'
  <1>1. /\ RowMarked(row, unsettled)
        /\ \A w \in Worker : Presentable(worker[w], row, unsettled)
        /\ \A w \in Worker : worker[w].at \notin {"idle", "waiting"} => lock = w
    BY DEF Unpresented
  <1>2. UNCHANGED <<worker, lock, unsettled, lockLost>>
    BY DEF Configure, Delete, Operate, RequestFails, StageConfigured, StoreConfigured,
           Tombstone, Purge, Remove, ListTombstone, FindTombstone, history
  <1> SUFFICES /\ RowMarked(row', unsettled)
               /\ \A w \in Worker : Presentable(worker[w], row', unsettled)
    BY <1>1, <1>2 DEF Unpresented
  <1>3. CASE row' = row  BY <1>1, <1>3
  <1>4. CASE row' = NoRow \/ row'.deleting
    BY <1>1, <1>4 DEF RowMarked, Presentable
  <1>5. ASSUME NEW o \in Operator, StoreConfigured(o), row' # row
        PROVE  /\ RowMarked(row', unsettled)
               /\ \A w \in Worker : Presentable(worker[w], row', unsettled)
    <2> DEFINE n == request[o].staged
    <2>1. /\ row' = Configured(o) /\ epochs' = epochs + 1 /\ request[o].at = "staged"
      BY <1>5 DEF StoreConfigured
    <2>2. row'.grant = n  BY <2>1, ConfiguredRow
    <2>3. n \in Nat  BY DEF RefreshInv, RefreshTypes, RequestState
    <2>4. HeldByRequest(o, n)  BY <2>1, <2>3 DEF HeldByRequest, RequestHolds
    <2>5. ~Known(n)  BY <2>3, <2>4 DEF RefreshInv, StagedAlone
    <2>6. n \notin unsettled /\ \A w \in Worker : n \notin WorkerUses(worker[w])
      BY <2>5 DEF Known
    <2>7. \A w \in Worker : worker[w].at \in {"minting", "minted"} =>
                               worker[w].state.grant # n
      BY <2>3, <2>6 DEF WorkerUses, Carries
    <2> QED  BY <1>1, <2>2, <2>6, <2>7 DEF RowMarked, Presentable
  <1>6. ASSUME NEW o \in Operator, Tombstone(o), row' # row PROVE row'.deleting
    <2> DEFINE s == request[o].state
               e == epochs + 1
               a == [s EXCEPT !.version = s.version + 1]
               q == [a EXCEPT !.epoch = e, !.deleting = TRUE, !.status = "deleting"]
    <2>1. row' = [Advanced(s) EXCEPT !.epoch = e, !.deleting = TRUE, !.status = "deleting"]
      BY <1>6 DEF Tombstone
    <2>2. row' = q  BY <2>1 DEF Advanced
    <2>3. s \in Row  BY <1>6, TookUpState DEF Tombstone, TookUp
    <2> HIDE DEF s, e
    <2>4. a \in Row  BY <2>3 DEF Row
    <2> HIDE DEF a
    <2>5. q.deleting = TRUE  BY <2>4 DEF Row
    <2> QED  BY <2>2, <2>5
  <1>7. ASSUME NEW o \in Operator, Remove(o), row' # row PROVE row' = NoRow
    BY <1>7 DEF Remove
  <1>8. CASE ListTombstone \/ FindTombstone
    BY <1>3, <1>8 DEF ListTombstone, FindTombstone
  <1>9. ASSUME NEW o \in Operator,
               Configure(o) \/ Delete(o) \/ StageConfigured(o) \/ Purge(o) \/ RequestFails(o)
        PROVE  row' = row
    BY <1>9 DEF Configure, Delete, StageConfigured, Purge, RequestFails
  <1> QED  BY <1>3, <1>4, <1>5, <1>6, <1>7, <1>8, <1>9 DEF Operate

\* While sessions last, no unsettled grant can be presented.
LEMMA UnpresentedInvariant == Spec => []Unpresented
  <1>1. Init => Unpresented
    <2> SUFFICES ASSUME Init PROVE Unpresented  OBVIOUS
    <2>1. worker = [w \in Worker |-> IdleWorker] /\ unsettled = {}  BY DEF Init
    <2>2. IdleWorker.at = "idle"  BY DEF IdleWorker
    <2>3. \A w \in Worker : worker[w].at = "idle"  BY <2>1, <2>2
    <2> QED  BY <2>1, <2>3 DEF Unpresented, RowMarked, Presentable
  <1>2. RefreshInv /\ Unpresented /\ [Next]_vars => Unpresented'
    <2> SUFFICES ASSUME RefreshInv, Unpresented, [Next]_vars PROVE Unpresented'
      OBVIOUS
    <2>1. CASE UNCHANGED vars
      BY <2>1 DEF vars, history, Unpresented
    <2>2. CASE lockLost'
      BY <2>2 DEF Unpresented
    <2>3. CASE ~lockLost' /\ Next
      <3>1. ~lockLost
        BY <2>3
        DEF Next, Observe, Refresh, Acquire, Check, Read, DeletePending, ClearPending,
            EndCleanup, Mark, Mint, Stage, RecordFailure, Claim, Apply, Complete,
            GiveUp, ClaimFails, ApplyFails, Crash, LoseLock, Configure, Delete,
            Operate, StageConfigured, StoreConfigured, Tombstone, Purge, Remove,
            RequestFails, ListTombstone, FindTombstone, history
      <3> QED  BY <2>3, <3>1, WorkerUnpresented, RequestUnpresented DEF Next
    <2> QED  BY <2>1, <2>2, <2>3
  <1> QED  BY <1>1, <1>2, RefreshInvariant, PTL DEF Spec

\* GrantNotReused: while lock sessions last, no grant goes to the issuer while
\* an earlier presentation of it has no recorded outcome.
THEOREM GrantsNotReused == Spec => GrantNotReused
  <1>1. Unpresented /\ [Next]_vars =>
           [\A w \in Worker :
              Presents(w) /\ ~lockLost => worker[w].state.grant \notin unsettled]_vars
    BY DEF Unpresented, Presents, Presentable
  <1> QED  BY <1>1, UnpresentedInvariant, PTL DEF Spec, GrantNotReused
=============================================================================
