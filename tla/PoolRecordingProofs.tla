------------------------- MODULE PoolRecordingProofs -------------------------
(***************************************************************************)
(* Proofs about recording an instance with its launch material.            *)
(***************************************************************************)
EXTENDS PoolRecording, TLAPS

\* Before a recording has reserved the route, and before it has published.
Fresh == {"idle", "reserve", "lost"}
Early == Fresh \cup {"store", "unreserve", "stage", "drop", "publish"}

\* A row, or a copy of one: its writer reserved the route, once, and has
\* published if the row holds material.
RowOK(row, tasks) ==
    \A t \in Task : row.writer = t => /\ tasks[t].pc \notin Fresh
                                      /\ Holds(row) => tasks[t].pc \notin Early

\* What holds of recording t: once it stored its material it never stores
\* again, and as long as it can publish, material and candidate are there.
RecordingOK(t) ==
    /\ RowOK(task[t].row, task)
    /\ t \in candidate => task[t].pc \notin Fresh \cup {"store"}
    /\ task[t].pc \in {"stage", "publish"} /\ record.writer = t => t \in material
    /\ task[t].pc = "publish" /\ record.writer = t => t \in candidate
    /\ task[t].pc \in {"admit", "changed", "giveup"} /\ task[t].staged =>
          task[t].row.writer = t /\ task[t].row.phase = "admitting"
    /\ task[t].pc = "forget" => t \notin material
    /\ MayLoseReply = {} /\ task[t].pc = "discard" /\ record.writer = t =>
          record.phase = "reserved"
    /\ record.writer = t /\ record.phase = "admitting" /\ t \in material =>
          t \in candidate \cup superseded

\* What holds of the pass of replica g.  Of the candidate t it settles: t can
\* not reserve the route again, so a record that is not t's never will be.
PassOK(g) ==
    LET p == pass[g] IN
    /\ RowOK(p.row, task)
    /\ p.pc \in {"material", "row"} => g \in withdrawn
    /\ p.pc = "material" => p.row.phase = "published"
    /\ p.pc = "row" /\ p.row.phase = "published" => p.row.writer \notin material
    /\ p.pc = "fence" => p.row.phase \in {"reserved", "admitting"}
    /\ p.pc \in {"check", "discard", "forget"} =>
          p.of \in Task /\ task[p.of].pc \notin Fresh \cup {"store"}
    /\ p.pc = "discard" => record.writer # p.of
    /\ p.pc = "forget" =>
          \/ record.writer # p.of /\ p.of \notin material
          \/ record.writer = p.of /\ record.phase = "published"

RecInv ==
    /\ TypeOK
    /\ RowOK(record, task)
    /\ \A t \in Task : RecordingOK(t)
    /\ \A g \in Replica : PassOK(g)
    /\ MaterialOwned

\* The records that stand for nothing.
LEMMA NoRowFacts ==
    /\ NoRow \in Row /\ NoRow.phase = "none" /\ NoRow.writer = NoTask /\ ~Holds(NoRow)
    /\ NoTask \notin Task
    /\ Idle \in TaskState /\ Idle.row = NoRow /\ Idle.staged = FALSE /\ Idle.pc = "idle"
    /\ IdlePass \in PassState /\ IdlePass.pc = "idle" /\ IdlePass.row = NoRow
    /\ IdlePass.of = NoTask
<1>1. NoTask \notin Task
  BY RecordingAssumption DEF Task
<1>2. NoRow \in Row /\ NoRow.phase = "none" /\ NoRow.writer = NoTask /\ ~Holds(NoRow)
  BY DEF NoRow, Row, Holds
<1> QED
  BY <1>1, <1>2 DEF Idle, IdlePass, TaskState, PassState

\* Rows are no row, or what a recording wrote.
LEMMA RowFacts ==
    ASSUME NEW x \in Row
    PROVE  /\ x = NoRow \/ (/\ x.phase \in {"reserved", "admitting", "published"}
                            /\ x.writer \in Task)
           /\ x.writer \notin Task => x = NoRow
           /\ x.phase = "none" => x = NoRow
           /\ \A y \in Row : x = y <=> x.phase = y.phase /\ x.writer = y.writer
  BY NoRowFacts DEF Row, NoRow

\* A row as a recording writes it.
LEMMA WrittenRow ==
    ASSUME NEW t \in Task, NEW f \in {"reserved", "admitting", "published"}
    PROVE  /\ [phase |-> f, writer |-> t] \in Row
           /\ [phase |-> f, writer |-> t].phase = f
           /\ [phase |-> f, writer |-> t].writer = t
  BY DEF Row

TaskPC == {"idle", "reserve", "lost", "store", "unreserve", "stage", "drop", "publish",
           "admit", "changed", "giveup", "settle", "discard", "forget", "done"}

\* Where a recording goes, and what it takes along.
LEMMA GoFacts ==
    ASSUME task \in [Task -> TaskState], NEW t \in Task, NEW pc \in TaskPC, Go(t, pc)
    PROVE  /\ task' \in [Task -> TaskState]
           /\ task'[t].pc = pc
           /\ pc = "done" => task'[t].row = NoRow /\ task'[t].staged = FALSE
           /\ pc # "done" => /\ task'[t].row = task[t].row
                             /\ task'[t].staged = task[t].staged
           /\ \A u \in Task : u # t => task'[u] = task[u]
<1> DEFINE x == IF pc = "done" THEN Idle ELSE task[t]
           y == [x EXCEPT !.pc = pc]
<1>1. task' = [task EXCEPT ![t] = y]
  BY DEF Go
<1>2. x \in TaskState /\ (pc = "done" => x = Idle) /\ (pc # "done" => x = task[t])
  BY NoRowFacts
<1> HIDE DEF x
<1>3. y \in TaskState /\ y.pc = pc /\ y.row = x.row /\ y.staged = x.staged
  BY <1>2 DEF TaskState, TaskPC
<1> HIDE DEF y
<1>4. task'[t] = y /\ task' \in [Task -> TaskState]
      /\ \A u \in Task : u # t => task'[u] = task[u]
  BY <1>1, <1>3
<1> QED
  BY <1>2, <1>3, <1>4, NoRowFacts

\* A pass changes its own state only.
LEMMA StepFacts ==
    ASSUME pass \in [Replica -> PassState], NEW g \in Replica, NEW x \in PassState,
           Step(g, x)
    PROVE  /\ pass' \in [Replica -> PassState]
           /\ pass'[g] = x
           /\ \A h \in Replica : h # g => pass'[h] = pass[h]
  BY DEF Step

\* A pass goes on with the row it holds.
LEMMA StepTo ==
    ASSUME pass \in [Replica -> PassState], NEW g \in Replica,
           NEW pc \in {"idle", "row", "discard", "forget"},
           Step(g, [pass[g] EXCEPT !.pc = pc])
    PROVE  /\ pass' \in [Replica -> PassState]
           /\ pass'[g].pc = pc /\ pass'[g].row = pass[g].row /\ pass'[g].of = pass[g].of
           /\ \A h \in Replica : h # g => pass'[h] = pass[h]
<1> DEFINE p == pass[g]
           x == [p EXCEPT !.pc = pc]
<1>1. p \in PassState
  OBVIOUS
<1> HIDE DEF p
<1>2. x \in PassState /\ x.pc = pc /\ x.row = p.row /\ x.of = p.of
  BY <1>1 DEF PassState
<1>3. Step(g, x)
  BY DEF p
<1> HIDE DEF x
<1> QED
  BY <1>2, <1>3, StepFacts DEF p

\* The invariant holds initially.
LEMMA RecInit == Init => RecInv
<1> SUFFICES ASSUME Init PROVE RecInv
  OBVIOUS
<1> USE NoRowFacts DEF RecInv, TypeOK, RowOK, RecordingOK, PassOK, MaterialOwned, Owned,
                       Holds, Fresh, Early
<1>1. \A t \in Task : task[t] = Idle
  BY DEF Init
<1>2. \A g \in Replica : pass[g] = IdlePass
  BY DEF Init
<1>3. TypeOK
  BY DEF Init
<1> QED
  BY <1>1, <1>2, <1>3 DEF Init

\* A recording up to its publication.
LEMMA RecBegins ==
    ASSUME RecInv, NEW t \in Task,
           \/ Read(t) \/ Reserve(t) \/ ReadWinner(t) \/ StoreMaterial(t) \/ Stage(t)
           \/ DropMaterial(t) \/ Unreserve(t)
    PROVE  RecInv'
<1> USE NoRowFacts DEF RecInv, TypeOK, RowOK, RecordingOK, PassOK, MaterialOwned, Owned,
                       Holds, Fresh, Early
<1>0. record \in Row /\ task \in [Task -> TaskState] /\ owner \in BOOLEAN
      /\ ended \in BOOLEAN
  OBVIOUS
<1>1. CASE Read(t) \/ ReadWinner(t)
  <2>1. /\ UNCHANGED <<record, material, candidate, owner, ended, pass, withdrawn,
                       unstaged, superseded>>
        /\ task[t].pc \in {"idle", "lost"}
        /\ \E pc \in {"reserve", "done"} : Keep(t, pc)
    BY <1>1 DEF Read, ReadWinner, store, replicas, history
  <2>2. PICK pc \in {"reserve", "done"} : Keep(t, pc)
    BY <2>1
  <2>3. CASE Holds(record) /\ t \in Launch
    <3> DEFINE x == [pc |-> "admit", row |-> record, staged |-> FALSE]
    <3>1. task' = [task EXCEPT ![t] = x]
      BY <2>2, <2>3 DEF Keep
    <3>2. x \in TaskState /\ x.pc = "admit" /\ x.row = record /\ x.staged = FALSE
      BY <1>0 DEF TaskState
    <3> HIDE DEF x
    <3>3. /\ task' \in [Task -> TaskState] /\ task'[t] = x
          /\ \A u \in Task : u # t => task'[u] = task[u]
      BY <1>0, <3>1, <3>2
    <3> QED
      BY <2>1, <3>2, <3>3
  <2>4. CASE ~(Holds(record) /\ t \in Launch)
    <3> DEFINE new == IF Holds(record) THEN "done" ELSE pc
               x == [Idle EXCEPT !.pc = new]
    <3>1. task' = [task EXCEPT ![t] = x]
      BY <2>2, <2>4 DEF Keep
    <3>2. new \in {"reserve", "done"}
      BY <2>2
    <3> HIDE DEF new
    <3>3. x \in TaskState /\ x.pc = new /\ x.row = NoRow /\ x.staged = FALSE
      BY <3>2 DEF TaskState, Idle
    <3> HIDE DEF x
    <3>4. /\ task' \in [Task -> TaskState] /\ task'[t] = x
          /\ \A u \in Task : u # t => task'[u] = task[u]
      BY <1>0, <3>1, <3>3
    <3> QED
      BY <2>1, <3>2, <3>3, <3>4
  <2> QED
    BY <2>3, <2>4
<1>2. CASE Reserve(t)
  <2>0. /\ task[t].pc = "reserve"
        /\ UNCHANGED <<material, candidate, owner, ended, pass, withdrawn, unstaged,
                       superseded>>
    BY <1>2 DEF Reserve, replicas, history
  <2>1. CASE /\ record = NoRow /\ record' = [phase |-> "reserved", writer |-> t]
             /\ Go(t, "store")
    <3>1. record' \in Row /\ record'.phase = "reserved" /\ record'.writer = t
      BY <2>1, WrittenRow
    <3>2. /\ task' \in [Task -> TaskState] /\ task'[t].pc = "store"
          /\ task'[t].row = task[t].row /\ task'[t].staged = task[t].staged
          /\ \A u \in Task : u # t => task'[u] = task[u]
      BY <1>0, <2>1, GoFacts DEF TaskPC
    <3> QED
      BY <2>0, <2>1, <3>1, <3>2
  <2>2. CASE record # NoRow /\ record' = record /\ Go(t, "lost")
    <3>1. /\ task' \in [Task -> TaskState] /\ task'[t].pc = "lost"
          /\ task'[t].row = task[t].row /\ task'[t].staged = task[t].staged
          /\ \A u \in Task : u # t => task'[u] = task[u]
      BY <1>0, <2>2, GoFacts DEF TaskPC
    <3> QED
      BY <2>0, <2>2, <3>1
  <2> QED
    BY <1>2, <2>1, <2>2 DEF Reserve
<1>3. CASE StoreMaterial(t)
  <2>0. /\ task[t].pc = "store"
        /\ UNCHANGED <<record, candidate, owner, ended, pass, withdrawn, unstaged,
                       superseded>>
    BY <1>3 DEF StoreMaterial, replicas, history
  <2>1. CASE material' = material \cup {t} /\ Go(t, "stage")
    <3>1. /\ task' \in [Task -> TaskState] /\ task'[t].pc = "stage"
          /\ task'[t].row = task[t].row /\ task'[t].staged = task[t].staged
          /\ \A u \in Task : u # t => task'[u] = task[u]
      BY <1>0, <2>1, GoFacts DEF TaskPC
    <3> QED
      BY <2>0, <2>1, <3>1
  <2>2. CASE material' = material /\ Go(t, "unreserve")
    <3>1. /\ task' \in [Task -> TaskState] /\ task'[t].pc = "unreserve"
          /\ task'[t].row = task[t].row /\ task'[t].staged = task[t].staged
          /\ \A u \in Task : u # t => task'[u] = task[u]
      BY <1>0, <2>2, GoFacts DEF TaskPC
    <3> QED
      BY <2>0, <2>2, <3>1
  <2> QED
    BY <1>3, <2>1, <2>2 DEF StoreMaterial
<1>4. CASE Stage(t)
  <2>0. /\ task[t].pc = "stage"
        /\ UNCHANGED <<record, material, owner, ended, pass, withdrawn, unstaged,
                       superseded>>
    BY <1>4 DEF Stage, replicas, history
  <2>1. CASE candidate' = candidate \cup {t} /\ Go(t, "publish")
    <3>1. /\ task' \in [Task -> TaskState] /\ task'[t].pc = "publish"
          /\ task'[t].row = task[t].row /\ task'[t].staged = task[t].staged
          /\ \A u \in Task : u # t => task'[u] = task[u]
      BY <1>0, <2>1, GoFacts DEF TaskPC
    <3> QED
      BY <2>0, <2>1, <3>1
  <2>2. CASE candidate' \in {candidate, candidate \cup {t}} /\ Go(t, "drop")
    <3>1. /\ task' \in [Task -> TaskState] /\ task'[t].pc = "drop"
          /\ task'[t].row = task[t].row /\ task'[t].staged = task[t].staged
          /\ \A u \in Task : u # t => task'[u] = task[u]
      BY <1>0, <2>2, GoFacts DEF TaskPC
    <3> QED
      BY <2>0, <2>2, <3>1
  <2> QED
    BY <1>4, <2>1, <2>2 DEF Stage
<1>5. CASE DropMaterial(t)
  <2>0. /\ task[t].pc = "drop"
        /\ UNCHANGED <<record, candidate, owner, ended, pass, withdrawn, superseded>>
        /\ Go(t, "unreserve")
        /\ \/ material' = material \ {t} /\ unstaged' = unstaged
           \/ /\ material' = material
              /\ unstaged' = IF t \in candidate THEN unstaged ELSE unstaged \cup {t}
    BY <1>5 DEF DropMaterial, replicas
  <2>1. /\ task' \in [Task -> TaskState] /\ task'[t].pc = "unreserve"
        /\ task'[t].row = task[t].row /\ task'[t].staged = task[t].staged
        /\ \A u \in Task : u # t => task'[u] = task[u]
    BY <1>0, <2>0, GoFacts DEF TaskPC
  <2> QED
    BY <2>0, <2>1
<1>6. CASE Unreserve(t)
  <2>0. /\ task[t].pc = "unreserve"
        /\ UNCHANGED <<material, candidate, owner, ended, pass, withdrawn, unstaged,
                       superseded>>
        /\ Go(t, "done")
        /\ record' = IF record = [phase |-> "reserved", writer |-> t] THEN NoRow ELSE record
    BY <1>6 DEF Unreserve, replicas, history
  <2>1. /\ task' \in [Task -> TaskState] /\ task'[t].pc = "done"
        /\ task'[t].row = NoRow /\ task'[t].staged = FALSE
        /\ \A u \in Task : u # t => task'[u] = task[u]
    BY <1>0, <2>0, GoFacts DEF TaskPC
  <2>2. record' = record \/ (record' = NoRow /\ record.phase = "reserved")
    BY <2>0, WrittenRow
  <2> QED
    BY <2>0, <2>1, <2>2
<1> QED
  BY <1>1, <1>2, <1>3, <1>4, <1>5, <1>6

\* The publication of a recording, its settling, and failure.
LEMMA RecPublishes ==
    ASSUME RecInv, NEW t \in Task,
           \/ Publish(t) \/ DiscardMaterial(t) \/ ForgetCandidate(t) \/ Settle(t)
           \/ Fail(t)
    PROVE  RecInv'
<1> USE NoRowFacts DEF RecInv, TypeOK, RowOK, RecordingOK, PassOK, MaterialOwned, Owned,
                       Holds, Fresh, Early
<1>0. record \in Row /\ task \in [Task -> TaskState] /\ owner \in BOOLEAN
      /\ ended \in BOOLEAN
  OBVIOUS
<1>1. CASE Publish(t)
  <2> DEFINE f == IF t \in Launch THEN "admitting" ELSE "published"
             row == [phase |-> f, writer |-> t]
             reserved == [phase |-> "reserved", writer |-> t]
  <2>0. /\ task[t].pc = "publish"
        /\ UNCHANGED <<material, candidate, owner, ended, pass, withdrawn, unstaged,
                       superseded>>
    BY <1>1 DEF Publish, replicas, history
  <2>a. /\ f \in {"admitting", "published"}
        /\ reserved \in Row /\ reserved.phase = "reserved" /\ reserved.writer = t
    BY WrittenRow
  <2>b. /\ t \in Launch => f = "admitting"
        /\ t \notin Launch => f = "published"
    OBVIOUS
  <2> HIDE DEF f
  <2>c. row \in Row /\ row.phase = f /\ row.writer = t
    BY <2>a, WrittenRow
  <2>d. record # reserved => record.writer # t
    BY <1>0, <2>0, <2>a, RowFacts
  <2>1. CASE /\ record = reserved /\ record' = row
             /\ task' = [task EXCEPT ![t] =
                           [pc |-> IF t \in Launch THEN "admit" ELSE "settle",
                            row |-> row, staged |-> TRUE]]
    <3> DEFINE pc == IF t \in Launch THEN "admit" ELSE "settle"
               x == [pc |-> pc, row |-> row, staged |-> TRUE]
    <3>1. pc \in {"admit", "settle"} /\ (pc = "admit" => t \in Launch)
      OBVIOUS
    <3> HIDE DEF pc, row, reserved
    <3>2. x \in TaskState /\ x.pc = pc /\ x.row = row /\ x.staged = TRUE
      BY <2>c, <3>1 DEF TaskState
    <3>3. task' = [task EXCEPT ![t] = x]
      BY <2>1 DEF pc
    <3> HIDE DEF x
    <3>4. /\ task' \in [Task -> TaskState] /\ task'[t] = x
          /\ \A u \in Task : u # t => task'[u] = task[u]
      BY <1>0, <3>2, <3>3
    <3> QED
      BY <2>0, <2>1, <2>a, <2>b, <2>c, <3>1, <3>2, <3>4
  <2>2. CASE /\ record = reserved /\ record' = row
             /\ t \in MayLoseReply /\ Go(t, "discard")
    <3> HIDE DEF row, reserved
    <3>1. /\ task' \in [Task -> TaskState] /\ task'[t].pc = "discard"
          /\ task'[t].row = task[t].row /\ task'[t].staged = task[t].staged
          /\ \A u \in Task : u # t => task'[u] = task[u]
      BY <1>0, <2>2, GoFacts DEF TaskPC
    <3> QED
      BY <2>0, <2>2, <2>a, <2>c, <3>1
  <2>3. CASE /\ record # reserved \/ t \in MayFail
             /\ record' = record /\ Go(t, "discard")
    <3> HIDE DEF row, reserved
    <3>1. /\ task' \in [Task -> TaskState] /\ task'[t].pc = "discard"
          /\ task'[t].row = task[t].row /\ task'[t].staged = task[t].staged
          /\ \A u \in Task : u # t => task'[u] = task[u]
      BY <1>0, <2>3, GoFacts DEF TaskPC
    <3> QED
      BY <2>0, <2>3, <2>a, <2>d, <3>1
  <2> QED
    BY <1>1, <2>1, <2>2, <2>3 DEF Publish, f
<1>2. CASE DiscardMaterial(t)
  <2>0. /\ task[t].pc = "discard"
        /\ UNCHANGED <<record, candidate, owner, ended, pass, withdrawn, unstaged,
                       superseded>>
    BY <1>2 DEF DiscardMaterial, replicas, history
  <2>1. CASE material' = material \ {t} /\ Go(t, "forget")
    <3>1. /\ task' \in [Task -> TaskState] /\ task'[t].pc = "forget"
          /\ task'[t].row = task[t].row /\ task'[t].staged = task[t].staged
          /\ \A u \in Task : u # t => task'[u] = task[u]
      BY <1>0, <2>1, GoFacts DEF TaskPC
    <3> QED
      BY <2>0, <2>1, <3>1
  <2>2. CASE material' = material /\ Go(t, "done")
    <3>1. /\ task' \in [Task -> TaskState] /\ task'[t].pc = "done"
          /\ task'[t].row = NoRow /\ task'[t].staged = FALSE
          /\ \A u \in Task : u # t => task'[u] = task[u]
      BY ONLY <1>0, <2>2, GoFacts, t \in Task DEF TaskPC
    <3> QED
      BY <2>0, <2>2, <3>1
  <2> QED
    BY <1>2, <2>1, <2>2 DEF DiscardMaterial
<1>3. CASE ForgetCandidate(t)
  <2>0. /\ task[t].pc = "forget" /\ candidate' = candidate \ {t}
        /\ UNCHANGED <<record, material, owner, ended, pass, withdrawn, unstaged,
                       superseded>>
        /\ Go(t, "done")
    BY <1>3 DEF ForgetCandidate, replicas, history
  <2>1. /\ task' \in [Task -> TaskState] /\ task'[t].pc = "done"
        /\ task'[t].row = NoRow /\ task'[t].staged = FALSE
        /\ \A u \in Task : u # t => task'[u] = task[u]
    BY <1>0, <2>0, GoFacts DEF TaskPC
  <2> QED
    BY <2>0, <2>1
<1>4. CASE Settle(t)
  <2>0. /\ task[t].pc = "settle"
        /\ UNCHANGED <<record, material, owner, ended, pass, withdrawn, unstaged>>
        /\ Go(t, "done")
        /\ candidate' = IF task[t].staged THEN candidate \ {t} ELSE candidate
        /\ superseded' = IF task[t].staged
                            /\ record # [phase |-> "published", writer |-> t]
                         THEN superseded \cup {t} ELSE superseded
    BY <1>4 DEF Settle, replicas
  <2>1. /\ task' \in [Task -> TaskState] /\ task'[t].pc = "done"
        /\ task'[t].row = NoRow /\ task'[t].staged = FALSE
        /\ \A u \in Task : u # t => task'[u] = task[u]
    BY <1>0, <2>0, GoFacts DEF TaskPC
  <2>2. \/ candidate' = candidate /\ superseded' = superseded
        \/ candidate' = candidate \ {t} /\ superseded' = superseded \cup {t}
        \/ /\ candidate' = candidate \ {t} /\ superseded' = superseded
           /\ record.phase = "published" /\ record.writer = t
    BY <2>0, WrittenRow
  <2>3. CASE candidate' = candidate /\ superseded' = superseded
    BY <2>0, <2>1, <2>3
  <2>4. CASE candidate' = candidate \ {t} /\ superseded' = superseded \cup {t}
    BY <2>0, <2>1, <2>4
  <2>5. CASE /\ candidate' = candidate \ {t} /\ superseded' = superseded
             /\ record.phase = "published" /\ record.writer = t
    BY <2>0, <2>1, <2>5
  <2> QED
    BY <2>2, <2>3, <2>4, <2>5
<1>5. CASE Fail(t)
  <2>0. /\ task[t].pc \notin {"idle", "done"}
        /\ UNCHANGED <<record, material, candidate, owner, ended, pass, withdrawn,
                       superseded>>
        /\ Go(t, "done")
        /\ unstaged' = IF t \in material \ candidate /\ task[t].pc \in {"stage", "drop"}
                       THEN unstaged \cup {t} ELSE unstaged
    BY <1>5 DEF Fail, replicas, store
  <2>1. /\ task' \in [Task -> TaskState] /\ task'[t].pc = "done"
        /\ task'[t].row = NoRow /\ task'[t].staged = FALSE
        /\ \A u \in Task : u # t => task'[u] = task[u]
    BY ONLY <1>0, <2>0, GoFacts, t \in Task DEF TaskPC
  <2> QED
    BY <2>0, <2>1
<1> QED
  BY <1>1, <1>2, <1>3, <1>4, <1>5

\* The owner change of a launch: its admission, and what it does without one.
LEMMA RecLaunches ==
    ASSUME RecInv, NEW t \in Task,
           Admit(t) \/ LaunchedOwner(t) \/ Refuse(t) \/ GiveUpAdmission(t)
    PROVE  RecInv'
<1> USE NoRowFacts DEF RecInv, TypeOK, RowOK, RecordingOK, PassOK, MaterialOwned, Owned,
                       Holds, Fresh, Early
<1>0. record \in Row /\ task \in [Task -> TaskState] /\ task[t] \in TaskState
      /\ owner \in BOOLEAN /\ ended \in BOOLEAN
  OBVIOUS
<1>a. task[t].row \in Row
  BY <1>0 DEF TaskState
<1>1. CASE Admit(t)
  <2>0. /\ task[t].pc = "admit"
        /\ UNCHANGED <<material, candidate, ended, pass, withdrawn, unstaged, superseded>>
    BY <1>1 DEF Admit, replicas, history
  <2>1. CASE /\ Admissible(t) /\ owner' = TRUE
             /\ record' = IF task[t].row.phase = "admitting"
                          THEN [record EXCEPT !.phase = "published"] ELSE record
             /\ Go(t, "settle") \/ Go(t, "done")
    <3>0. owner' \in BOOLEAN
      BY <2>1
    <3>1. \/ record' = record
          \/ /\ record'.phase = "published" /\ record'.writer = record.writer
             /\ record.phase = "admitting" /\ record' \in Row
      <4>1. CASE task[t].row.phase = "admitting"
        <5>1. record.phase = "admitting" /\ record' = [record EXCEPT !.phase = "published"]
          BY <2>1, <4>1 DEF Admissible
        <5>2. record \in [phase : {"reserved", "admitting", "published"}, writer : Task]
          BY <1>0, <5>1 DEF Row
        <5>3. /\ record' \in [phase : {"reserved", "admitting", "published"}, writer : Task]
              /\ record'.phase = "published" /\ record'.writer = record.writer
          BY <5>1, <5>2
        <5> QED
          BY <5>1, <5>3 DEF Row
      <4>2. CASE task[t].row.phase # "admitting"
        BY <2>1, <4>2
      <4> QED
        BY <4>1, <4>2
    <3>2. CASE Go(t, "settle")
      <4>1. /\ task' \in [Task -> TaskState] /\ task'[t].pc = "settle"
            /\ task'[t].row = task[t].row /\ task'[t].staged = task[t].staged
            /\ \A u \in Task : u # t => task'[u] = task[u]
        BY <1>0, <3>2, GoFacts DEF TaskPC
      <4> QED
        BY <2>0, <3>0, <3>1, <4>1
    <3>3. CASE Go(t, "done")
      <4>1. /\ task' \in [Task -> TaskState] /\ task'[t].pc = "done"
            /\ task'[t].row = NoRow /\ task'[t].staged = FALSE
            /\ \A u \in Task : u # t => task'[u] = task[u]
        BY ONLY <1>0, <3>3, GoFacts, t \in Task DEF TaskPC
      <4> QED
        BY <2>0, <3>0, <3>1, <4>1
    <3> QED
      BY <2>1, <3>2, <3>3
  <2>2. CASE Go(t, "changed") /\ record' = record /\ owner' = owner
    <3>1. /\ task' \in [Task -> TaskState] /\ task'[t].pc = "changed"
          /\ task'[t].row = task[t].row /\ task'[t].staged = task[t].staged
          /\ \A u \in Task : u # t => task'[u] = task[u]
      BY <1>0, <2>2, GoFacts DEF TaskPC
    <3> QED
      BY <2>0, <2>2, <3>1
  <2> QED
    BY <1>1, <2>1, <2>2 DEF Admit
<1>2. CASE LaunchedOwner(t)
  <2>0. /\ task[t].pc = "changed"
        /\ UNCHANGED <<record, material, candidate, owner, ended, pass, withdrawn, unstaged,
                       superseded>>
        /\ Go(t, "settle") \/ Go(t, "done")
    BY <1>2 DEF LaunchedOwner, replicas, history, store
  <2>1. CASE Go(t, "settle")
    <3>1. /\ task' \in [Task -> TaskState] /\ task'[t].pc = "settle"
          /\ task'[t].row = task[t].row /\ task'[t].staged = task[t].staged
          /\ \A u \in Task : u # t => task'[u] = task[u]
      BY <1>0, <2>1, GoFacts DEF TaskPC
    <3> QED
      BY <2>0, <2>1, <3>1
  <2>2. CASE Go(t, "done")
    <3>1. /\ task' \in [Task -> TaskState] /\ task'[t].pc = "done"
          /\ task'[t].row = NoRow /\ task'[t].staged = FALSE
          /\ \A u \in Task : u # t => task'[u] = task[u]
      BY ONLY <1>0, <2>2, GoFacts, t \in Task DEF TaskPC
    <3> QED
      BY <2>0, <2>2, <3>1
  <2> QED
    BY <2>0, <2>1, <2>2
<1>3. CASE Refuse(t)
  <2>0. /\ task[t].pc = "admit" /\ Go(t, "giveup")
        /\ UNCHANGED <<record, material, candidate, owner, ended, pass, withdrawn, unstaged,
                       superseded>>
    BY <1>3 DEF Refuse, replicas, history, store
  <2>1. /\ task' \in [Task -> TaskState] /\ task'[t].pc = "giveup"
        /\ task'[t].row = task[t].row /\ task'[t].staged = task[t].staged
        /\ \A u \in Task : u # t => task'[u] = task[u]
    BY <1>0, <2>0, GoFacts DEF TaskPC
  <2> QED
    BY <2>0, <2>1
<1>4. CASE GiveUpAdmission(t)
  <2>0. /\ task[t].pc = "giveup"
        /\ UNCHANGED <<material, candidate, owner, ended, pass, withdrawn, unstaged,
                       superseded>>
    BY <1>4 DEF GiveUpAdmission, replicas, history
  <2>1. CASE /\ task[t].staged /\ record = task[t].row /\ record' = NoRow
             /\ Go(t, "discard")
    <3>0. record.phase = "admitting" /\ record.writer = t
      BY <2>0, <2>1
    <3>1. /\ task' \in [Task -> TaskState] /\ task'[t].pc = "discard"
          /\ task'[t].row = task[t].row /\ task'[t].staged = task[t].staged
          /\ \A u \in Task : u # t => task'[u] = task[u]
      BY <1>0, <2>1, GoFacts DEF TaskPC
    <3> QED
      BY <2>0, <2>1, <3>0, <3>1
  <2>2. CASE record' = record /\ Go(t, "done")
    <3>1. /\ task' \in [Task -> TaskState] /\ task'[t].pc = "done"
          /\ task'[t].row = NoRow /\ task'[t].staged = FALSE
          /\ \A u \in Task : u # t => task'[u] = task[u]
      BY ONLY <1>0, <2>2, GoFacts, t \in Task DEF TaskPC
    <3> QED
      BY <2>0, <2>2, <3>1
  <2> QED
    BY <1>4, <2>1, <2>2 DEF GiveUpAdmission
<1> QED
  BY <1>1, <1>2, <1>3, <1>4

\* A pass that removes a withdrawn record or fences an overdue one.
LEMMA RecRemoves ==
    ASSUME RecInv, NEW g \in Replica, Removal(g) \/ Fencing(g)
    PROVE  RecInv'
<1> USE NoRowFacts DEF RecInv, TypeOK, RowOK, RecordingOK, PassOK, MaterialOwned, Owned,
                       Holds, Fresh, Early
<1>0. /\ record \in Row /\ pass \in [Replica -> PassState] /\ pass[g] \in PassState
      /\ owner \in BOOLEAN /\ ended \in BOOLEAN
  OBVIOUS
<1>a. UNCHANGED <<candidate, owner, ended, task, unstaged, superseded>>
  BY DEF Removal, Fencing, ReadWithdrawn, DeleteMaterial, DeleteRow, List, Fence, store,
         history
<1>b. pass[g].row \in Row
  BY <1>0 DEF PassState
<1>1. ASSUME NEW pc \in {"material", "row", "fence"},
             Step(g, [pc |-> pc, row |-> record, of |-> NoTask])
      PROVE  /\ pass' \in [Replica -> PassState]
             /\ pass'[g].pc = pc /\ pass'[g].row = record /\ pass'[g].of = NoTask
             /\ \A h \in Replica : h # g => pass'[h] = pass[h]
  <2> DEFINE x == [pc |-> pc, row |-> record, of |-> NoTask]
  <2>1. x \in PassState /\ x.pc = pc /\ x.row = record /\ x.of = NoTask
    BY <1>0 DEF PassState
  <2>2. Step(g, x)
    BY <1>1
  <2> HIDE DEF x
  <2> QED
    BY <1>0, <2>1, <2>2, StepFacts
<1>2. CASE ReadWithdrawn(g)
  <2>0. g \in withdrawn /\ pass[g].pc = "idle" /\ UNCHANGED <<record, material>>
    BY <1>2 DEF ReadWithdrawn, store
  <2>1. CASE /\ record.phase = "published" /\ withdrawn' = withdrawn
             /\ Step(g, [pc |-> "material", row |-> record, of |-> NoTask])
    <3>1. /\ pass' \in [Replica -> PassState]
          /\ pass'[g].pc = "material" /\ pass'[g].row = record /\ pass'[g].of = NoTask
          /\ \A h \in Replica : h # g => pass'[h] = pass[h]
      BY <1>1, <2>1
    <3> QED
      BY <1>a, <2>0, <2>1, <3>1
  <2>2. CASE /\ record.phase # "published" /\ withdrawn' = withdrawn
             /\ Step(g, [pc |-> "row", row |-> record, of |-> NoTask])
    <3>1. /\ pass' \in [Replica -> PassState]
          /\ pass'[g].pc = "row" /\ pass'[g].row = record /\ pass'[g].of = NoTask
          /\ \A h \in Replica : h # g => pass'[h] = pass[h]
      BY <1>1, <2>2
    <3> QED
      BY <1>a, <2>0, <2>2, <3>1
  <2>3. CASE withdrawn' = withdrawn \ {g} /\ pass' = pass
    BY <1>a, <2>0, <2>3
  <2> QED
    BY <1>2, <2>1, <2>2, <2>3 DEF ReadWithdrawn
<1>3. CASE DeleteMaterial(g)
  <2>0. /\ pass[g].pc = "material" /\ material' = material \ {pass[g].row.writer}
        /\ UNCHANGED <<record, withdrawn>> /\ Step(g, [pass[g] EXCEPT !.pc = "row"])
    BY <1>3 DEF DeleteMaterial
  <2>1. /\ pass' \in [Replica -> PassState]
        /\ pass'[g].pc = "row" /\ pass'[g].row = pass[g].row /\ pass'[g].of = pass[g].of
        /\ \A h \in Replica : h # g => pass'[h] = pass[h]
    BY <1>0, <2>0, StepTo
  <2>2. /\ pass[g].row.phase = "published"
        /\ g \in withdrawn
        /\ UNCHANGED <<record, withdrawn>> /\ pass[g].pc = "material"
        /\ material' = material \ {pass[g].row.writer}
    BY <2>0
  <2> QED
    BY <1>a, <1>b, <2>1, <2>2
<1>4. CASE DeleteRow(g) \/ Fence(g)
  <2>0. /\ pass[g].pc \in {"row", "fence"} /\ material' = material
        /\ Step(g, IdlePass)
        /\ record' = IF record = pass[g].row THEN NoRow ELSE record
        /\ withdrawn' \in {withdrawn, withdrawn \ {g}}
    BY <1>4 DEF DeleteRow, Fence
  <2>1. /\ pass' \in [Replica -> PassState] /\ pass'[g] = IdlePass
        /\ \A h \in Replica : h # g => pass'[h] = pass[h]
    BY <1>0, <2>0, StepFacts
  <2>2. \/ record' = record
        \/ /\ record' = NoRow /\ record = pass[g].row
           /\ record.phase = "published" => record.writer \notin material
    BY <2>0
  <2> QED
    BY <1>a, <2>0, <2>1, <2>2
<1>5. CASE List(g)
  <2>0. /\ pass[g].pc = "idle" /\ record.phase \in {"reserved", "admitting"}
        /\ UNCHANGED <<record, material, withdrawn>>
        /\ Step(g, [pc |-> "fence", row |-> record, of |-> NoTask])
    BY <1>5 DEF List, store
  <2>1. /\ pass' \in [Replica -> PassState]
        /\ pass'[g].pc = "fence" /\ pass'[g].row = record /\ pass'[g].of = NoTask
        /\ \A h \in Replica : h # g => pass'[h] = pass[h]
    BY <1>1, <2>0
  <2> QED
    BY <1>a, <2>0, <2>1
<1> QED
  BY <1>2, <1>3, <1>4, <1>5 DEF Removal, Fencing

\* A pass that settles a candidate.
LEMMA RecCollects ==
    ASSUME RecInv, NEW g \in Replica, Collection(g)
    PROVE  RecInv'
<1> USE NoRowFacts DEF RecInv, TypeOK, RowOK, RecordingOK, PassOK, MaterialOwned, Owned,
                       Holds, Fresh, Early
<1>0. /\ record \in Row /\ pass \in [Replica -> PassState] /\ pass[g] \in PassState
      /\ owner \in BOOLEAN /\ ended \in BOOLEAN
  OBVIOUS
<1>a. UNCHANGED <<record, owner, ended, task, withdrawn, unstaged, superseded>>
  BY DEF Collection, ListCandidate, CheckCandidate, CollectMaterial, CollectCandidate,
         store, history
<1>b. pass[g].row \in Row
  BY <1>0 DEF PassState
<1>1. ASSUME NEW t \in Task, ListCandidate(g, t) PROVE RecInv'
  <2> DEFINE x == [pc |-> "check", row |-> NoRow, of |-> t]
  <2>0. t \in candidate /\ UNCHANGED <<material, candidate>> /\ Step(g, x)
    BY <1>1 DEF ListCandidate, store
  <2>1. x \in PassState /\ x.pc = "check" /\ x.row = NoRow /\ x.of = t
    BY DEF PassState
  <2> HIDE DEF x
  <2>2. /\ pass' \in [Replica -> PassState] /\ pass'[g] = x
        /\ \A h \in Replica : h # g => pass'[h] = pass[h]
    BY <1>0, <2>0, <2>1, StepFacts
  <2> QED
    BY <1>a, <2>0, <2>1, <2>2
<1>2. CASE CheckCandidate(g)
  <2> DEFINE t == pass[g].of
             mine == record.writer = t
             pc == CASE mine /\ record.phase \in {"reserved", "admitting"} -> "idle"
                     [] mine /\ record.phase = "published" -> "forget"
                     [] OTHER -> "discard"
  <2>0. /\ pass[g].pc = "check" /\ UNCHANGED <<material, candidate>>
        /\ Step(g, [pass[g] EXCEPT !.pc = pc])
    BY <1>2 DEF CheckCandidate, store
  <2>1. t \in Task /\ task[t].pc \notin Fresh \cup {"store"}
    BY <2>0
  <2>2. mine => record.phase \in {"reserved", "admitting", "published"}
    BY <1>0, <2>1, RowFacts
  <2>3. \/ pc = "idle"
        \/ pc = "forget" /\ mine /\ record.phase = "published"
        \/ pc = "discard" /\ ~mine
    <3>1. CASE mine /\ record.phase \in {"reserved", "admitting"}
      BY <3>1, Zenon
    <3>2. CASE mine /\ record.phase = "published"
      BY <3>2, Zenon
    <3>3. CASE ~mine
      BY <3>3, Zenon
    <3> QED
      BY <2>2, <3>1, <3>2, <3>3
  <2>4. pc \in {"idle", "row", "discard", "forget"}
    BY <2>3
  <2> HIDE DEF pc
  <2>5. /\ pass' \in [Replica -> PassState]
        /\ pass'[g].pc = pc /\ pass'[g].row = pass[g].row /\ pass'[g].of = pass[g].of
        /\ \A h \in Replica : h # g => pass'[h] = pass[h]
    BY <1>0, <2>0, <2>4, StepTo
  <2>6. pass[g].pc = "check" /\ UNCHANGED <<material, candidate>>
    BY <2>0
  <2> QED
    BY <1>a, <1>b, <2>1, <2>3, <2>5, <2>6
<1>3. CASE CollectMaterial(g)
  <2>0. /\ pass[g].pc = "discard" /\ material' = material \ {pass[g].of}
        /\ candidate' = candidate /\ Step(g, [pass[g] EXCEPT !.pc = "forget"])
    BY <1>3 DEF CollectMaterial
  <2>1. /\ pass' \in [Replica -> PassState]
        /\ pass'[g].pc = "forget" /\ pass'[g].row = pass[g].row /\ pass'[g].of = pass[g].of
        /\ \A h \in Replica : h # g => pass'[h] = pass[h]
    BY <1>0, <2>0, StepTo
  <2>2. /\ pass[g].pc = "discard" /\ material' = material \ {pass[g].of}
        /\ candidate' = candidate
    BY <2>0
  <2> QED
    BY <1>a, <1>b, <2>1, <2>2
<1>4. CASE CollectCandidate(g)
  <2>0. /\ pass[g].pc = "forget" /\ candidate' = candidate \ {pass[g].of}
        /\ material' = material /\ Step(g, IdlePass)
    BY <1>4 DEF CollectCandidate
  <2>1. /\ pass' \in [Replica -> PassState] /\ pass'[g] = IdlePass
        /\ \A h \in Replica : h # g => pass'[h] = pass[h]
    BY <1>0, <2>0, StepFacts
  <2> QED
    BY <1>a, <2>0, <2>1
<1> QED
  BY <1>1, <1>2, <1>3, <1>4 DEF Collection

\* The rest of the pool, and failing passes.
LEMMA RecEnvironment ==
    ASSUME RecInv,
           \/ \E g \in Replica : \/ Sweep(g) \/ Withdraw(g)
                                 \/ \E crash \in BOOLEAN : FailPass(g, crash)
           \/ PlaceUnowned \/ RemoveOwner \/ EndGeneration
           \/ UNCHANGED vars
    PROVE  RecInv'
<1> USE NoRowFacts DEF RecInv, TypeOK, RowOK, RecordingOK, PassOK, MaterialOwned, Owned,
                       Holds, Fresh, Early
<1>0. record \in Row /\ owner \in BOOLEAN /\ ended \in BOOLEAN
  OBVIOUS
<1>1. ASSUME NEW g \in Replica, Sweep(g) \/ Withdraw(g) PROVE RecInv'
  <2>1. /\ UNCHANGED <<record, material, candidate, owner, ended, task, pass, unstaged,
                       superseded>>
        /\ withdrawn' = withdrawn \cup {g}
    BY <1>1 DEF Sweep, Withdraw, store, history
  <2> QED
    BY <2>1
<1>2. ASSUME NEW g \in Replica, NEW crash \in BOOLEAN, FailPass(g, crash) PROVE RecInv'
  <2>1. /\ UNCHANGED <<record, material, candidate, owner, ended, task, unstaged,
                       superseded>>
        /\ withdrawn' \in {withdrawn, withdrawn \ {g}} /\ Step(g, IdlePass)
    BY <1>2 DEF FailPass, store, history
  <2>2. /\ pass' \in [Replica -> PassState] /\ pass'[g] = IdlePass
        /\ \A h \in Replica : h # g => pass'[h] = pass[h]
    BY <2>1, StepFacts
  <2> QED
    BY <2>1, <2>2
<1>3. CASE PlaceUnowned \/ RemoveOwner \/ EndGeneration
  <2>1. /\ UNCHANGED <<record, material, candidate, task, pass, withdrawn, unstaged,
                       superseded>>
        /\ owner' \in BOOLEAN /\ ended' \in BOOLEAN
    BY <1>0, <1>3 DEF PlaceUnowned, RemoveOwner, EndGeneration, store, history, replicas
  <2> QED
    BY <2>1
<1>4. CASE UNCHANGED vars
  BY <1>4 DEF vars
<1> QED
  BY <1>1, <1>2, <1>3, <1>4

\* Every step keeps the invariant.
LEMMA RecNext == RecInv /\ [Next]_vars => RecInv'
<1> SUFFICES ASSUME RecInv, [Next]_vars PROVE RecInv'
  OBVIOUS
<1>1. ASSUME NEW t \in Task, Recording(t) \/ Fail(t) PROVE RecInv'
  BY <1>1, RecBegins, RecPublishes, RecLaunches DEF Recording
<1>2. ASSUME NEW g \in Replica, Removal(g) \/ Fencing(g) \/ Collection(g) PROVE RecInv'
  BY <1>2, RecRemoves, RecCollects
<1> QED
  BY <1>1, <1>2, RecEnvironment DEF Next

\* The invariant of recordings, passes and stored material.
LEMMA Recorded == Spec => []RecInv
  BY RecInit, RecNext, PTL DEF Spec

\* The rows, recordings and passes of the model keep their types.
THEOREM RecordingTypeCorrect == Spec => []TypeOK
<1>1. RecInv => TypeOK
  BY DEF RecInv
<1> QED
  BY <1>1, Recorded, PTL

\* However recordings, fences, withdrawals and collections interleave, fail
\* or are told that a write failed which applied, record_assignment_as and
\* place_launch leave no material that nobody will delete but that of a
\* recording that failed between storing and staging, and that of a launch
\* that settled for another's owner.
THEOREM MaterialAlwaysOwned == Spec => []MaterialOwned
<1>1. RecInv => MaterialOwned
  BY DEF RecInv
<1> QED
  BY <1>1, Recorded, PTL

\* Only the steps that remove rows, and reservations, change the record.
LEMMA RecordChanges ==
    ASSUME RecInv, [Next]_vars, record' # record
    PROVE  \/ \E t \in Task : \/ Reserve(t) \/ Unreserve(t) \/ Publish(t) \/ Admit(t)
                              \/ GiveUpAdmission(t)
           \/ \E g \in Replica : DeleteRow(g) \/ Fence(g)
<1>1. ASSUME NEW t \in Task, Recording(t) \/ Fail(t)
      PROVE  Reserve(t) \/ Unreserve(t) \/ Publish(t) \/ Admit(t) \/ GiveUpAdmission(t)
  BY <1>1 DEF Recording, Fail, Read, ReadWinner, StoreMaterial, Stage, DropMaterial,
              DiscardMaterial, ForgetCandidate, LaunchedOwner, Refuse, Settle, store
<1>2. ASSUME NEW g \in Replica,
             \/ Removal(g) \/ Fencing(g) \/ Collection(g) \/ Sweep(g) \/ Withdraw(g)
             \/ \E crash \in BOOLEAN : FailPass(g, crash)
      PROVE  DeleteRow(g) \/ Fence(g)
  BY <1>2 DEF Removal, Fencing, Collection, ReadWithdrawn, DeleteMaterial, List,
              ListCandidate, CheckCandidate, CollectMaterial, CollectCandidate, Sweep,
              Withdraw, FailPass, store
<1>3. ~(PlaceUnowned \/ RemoveOwner \/ EndGeneration \/ UNCHANGED vars)
  BY DEF PlaceUnowned, RemoveOwner, EndGeneration, vars, store
<1> QED
  BY <1>1, <1>2, <1>3 DEF Next

\* A published record is removed by nothing but the removal of a withdrawn
\* one, as read: give_up_admission takes back only the admitting record of
\* its own recording and fence_stale_reservations only one it listed as
\* overdue, whoever admitted it meanwhile.
THEOREM PublishedRecordsStay == Spec => PublishedStays
<1> DEFINE Stays == record.phase = "published" /\ record' # record =>
                       \E g \in withdrawn : pass[g].pc = "row" /\ pass[g].row = record
<1>1. ASSUME RecInv, [Next]_vars PROVE [Stays]_vars
  <2> SUFFICES ASSUME record.phase = "published", record' # record
               PROVE  \E g \in withdrawn : pass[g].pc = "row" /\ pass[g].row = record
    OBVIOUS
  <2>1. ASSUME NEW t \in Task, Reserve(t) \/ Unreserve(t) \/ Publish(t) PROVE FALSE
    <3>1. record = NoRow \/ record = [phase |-> "reserved", writer |-> t]
      BY <2>1 DEF Reserve, Unreserve, Publish
    <3> QED
      BY <3>1, NoRowFacts, WrittenRow
  <2>2. ASSUME NEW t \in Task, Admit(t) PROVE FALSE
    BY <2>2 DEF Admit, Admissible
  <2>3. ASSUME NEW t \in Task, GiveUpAdmission(t) PROVE FALSE
    <3>1. task[t].pc = "giveup" /\ task[t].staged /\ record = task[t].row
      BY <2>3 DEF GiveUpAdmission
    <3>2. RecordingOK(t)
      BY <1>1 DEF RecInv
    <3> QED
      BY <3>1, <3>2 DEF RecordingOK
  <2>4. ASSUME NEW g \in Replica, DeleteRow(g) \/ Fence(g)
        PROVE  g \in withdrawn /\ pass[g].pc = "row" /\ pass[g].row = record
    <3>1. pass[g].pc \in {"row", "fence"} /\ pass[g].row = record
      BY <2>4 DEF DeleteRow, Fence
    <3>2. PassOK(g)
      BY <1>1 DEF RecInv
    <3> QED
      BY <3>1, <3>2 DEF PassOK
  <2> QED
    BY <1>1, <2>1, <2>2, <2>3, <2>4, RecordChanges
<1> QED
  BY <1>1, Recorded, PTL DEF Spec, PublishedStays

\* Where a failed write means that it did not apply, collection never takes
\* the material of a record that owners may run: remove_stale_candidates
\* decides on a record read before it deletes, but a recording that lost the
\* route once never gets it again.
THEOREM MaterialKept == MayLoseReply = {} => (Spec => KeptMaterial)
<1> SUFFICES ASSUME MayLoseReply = {} PROVE Spec => KeptMaterial
  OBVIOUS
<1> DEFINE Keeps == /\ Holds(record') /\ ~Holds(record) => record'.writer \in material'
                    /\ \A t \in material \ material' :
                          Holds(record) /\ record.writer = t =>
                             \E g \in withdrawn : pass[g].pc = "material"
<1>1. ASSUME RecInv, [Next]_vars PROVE [Keeps]_vars
  <2>0. record \in Row
    BY <1>1 DEF RecInv, TypeOK
  <2>1. ASSUME Holds(record'), ~Holds(record) PROVE record'.writer \in material'
    <3>1. record' # record
      BY <2>1
    <3>2. ASSUME NEW t \in Task, Reserve(t) \/ Unreserve(t) \/ GiveUpAdmission(t)
          PROVE  FALSE
      <4>1. record' = NoRow \/ record' = [phase |-> "reserved", writer |-> t]
        BY <3>1, <3>2 DEF Reserve, Unreserve, GiveUpAdmission
      <4> QED
        BY <2>1, <4>1, NoRowFacts, WrittenRow DEF Holds
    <3>3. ASSUME NEW t \in Task, Admit(t) PROVE FALSE
      BY <2>1, <3>1, <3>3 DEF Admit, Admissible, Holds
    <3>4. ASSUME NEW g \in Replica, DeleteRow(g) \/ Fence(g) PROVE FALSE
      BY <2>1, <3>1, <3>4, NoRowFacts DEF DeleteRow, Fence
    <3>5. ASSUME NEW t \in Task, Publish(t) PROVE record'.writer \in material'
      <4>1. /\ record = [phase |-> "reserved", writer |-> t] /\ task[t].pc = "publish"
            /\ record'.writer = t /\ material' = material
        BY <3>1, <3>5 DEF Publish
      <4>2. RecordingOK(t)
        BY <1>1 DEF RecInv
      <4> QED
        BY <4>1, <4>2, WrittenRow DEF RecordingOK
    <3> QED
      BY <1>1, <3>1, <3>2, <3>3, <3>4, <3>5, RecordChanges
  <2>2. ASSUME NEW t \in material, t \notin material', Holds(record), record.writer = t
        PROVE  \E g \in withdrawn : pass[g].pc = "material"
    <3>0. t \in Task /\ RecordingOK(t) /\ RowOK(record, task) /\ material' # material
      BY <1>1, <2>2 DEF RecInv, TypeOK
    <3>1. ASSUME NEW u \in Task, Recording(u) \/ Fail(u) PROVE FALSE
      <4>1. u = t /\ task[u].pc \in {"drop", "discard"}
        BY <2>2, <3>0, <3>1 DEF Recording, Fail, Read, Reserve, ReadWinner, StoreMaterial,
            Stage, DropMaterial, Unreserve, Publish, DiscardMaterial, ForgetCandidate,
            Admit, LaunchedOwner, Refuse, GiveUpAdmission, Settle, store
      <4> QED
        BY <2>2, <3>0, <4>1 DEF RecordingOK, RowOK, Early, Fresh, Holds
    <3>2. ASSUME NEW g \in Replica,
                 \/ Removal(g) \/ Fencing(g) \/ Collection(g) \/ Sweep(g) \/ Withdraw(g)
                 \/ \E crash \in BOOLEAN : FailPass(g, crash)
          PROVE  g \in withdrawn /\ pass[g].pc = "material"
      <4>1. \/ pass[g].pc = "material"
            \/ pass[g].pc = "discard" /\ pass[g].of = t
        BY <2>2, <3>0, <3>2 DEF Removal, Fencing, Collection, ReadWithdrawn, DeleteMaterial,
            DeleteRow, List, Fence, ListCandidate, CheckCandidate, CollectMaterial,
            CollectCandidate, Sweep, Withdraw, FailPass, store
      <4>2. PassOK(g)
        BY <1>1 DEF RecInv
      <4> QED
        BY <2>2, <4>1, <4>2 DEF PassOK
    <3>3. ~(PlaceUnowned \/ RemoveOwner \/ EndGeneration \/ UNCHANGED vars)
      BY <3>0 DEF PlaceUnowned, RemoveOwner, EndGeneration, vars, store
    <3> QED
      BY <1>1, <3>1, <3>2, <3>3 DEF Next
  <2> QED
    BY <2>1, <2>2
<1> QED
  BY <1>1, Recorded, PTL DEF Spec, KeptMaterial

=============================================================================
