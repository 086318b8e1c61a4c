------------------------ MODULE SupervisorPoolProofs ------------------------
(***************************************************************************)
(* Proofs about SupervisorPool, for any number of members, replicas,       *)
(* launches, routes and sandboxes.                                         *)
(***************************************************************************)
EXTENDS SupervisorPool, FiniteSetTheorems, TLAPS

-----------------------------------------------------------------------------
(* Type correctness.  A worker that is under way has a route, and a record *)
(* it is about to write names a member.                                    *)

\* An owner record names a member exactly if there is one.
Names(record) == record.phase # "none" <=> record.member \in Member

WorkOK(x) ==
    /\ x \in WorkState
    /\ x.pc \notin {"idle", "done"} => x.route \in Route
    /\ Names(x.before)
    /\ Names(x.after)
    /\ x.pc = "target" => x.after.phase # "none"
    /\ x.pc = "advance" => x.before.phase = "granting"

TypeInv ==
    /\ TypeOK
    /\ \A r \in Route : Names(owner[r])
    /\ \A w \in Worker : WorkOK(work[w])

\* Rows that stand for no row, and an idle worker, have their types.
LEMMA NoRows ==
    /\ NoOwner \in OwnerRow
    /\ NoCapacity \in CapacityRow
    /\ NoMemberRow \in MemberRow
    /\ NoInstance \in InstanceRow
    /\ Published \in InstanceRow
    /\ Names(NoOwner)
    /\ WorkOK(NoWork)
    /\ \A w : WorkOK(Ended(w))
  BY PoolAssumption
     DEF NoOwner, OwnerRow, NoCapacity, CapacityRow, NoMemberRow, MemberRow,
         NoInstance, Published, InstanceRow, NoWork, WorkOK, WorkState, PC,
         Ended, Names

\* The members a listing shows.
LEMMA LiveMembersType ==
    TypeOK => LiveMembers \in [Member -> Nat]
  BY DEF TypeOK, LiveMembers, MemberRow

\* A pass that holds a record of its route.
LEMMA HoldingOK ==
    ASSUME NEW g \in Worker, NEW pc \in PC \ {"target"}, NEW record \in OwnerRow,
           Names(record), pc = "advance" => record.phase = "granting",
           work[g].route \in Route
    PROVE  WorkOK(Holding(g, pc, record))
  BY NoRows DEF Holding, NoWork, WorkOK, WorkState, NoOwner, OwnerRow

\* A step that only changes what one worker remembers.
LEMMA OnlyWork ==
    ASSUME TypeInv, NEW w \in Worker, NEW x, WorkOK(x),
           work' = [work EXCEPT ![w] = x],
           UNCHANGED <<members, owner, capacity, instance, sandboxes,
                       withdrawn, history>>
    PROVE  TypeInv'
  BY DEF TypeInv, TypeOK, WorkOK, members, sandboxes, history

\* The type invariant holds initially.
LEMMA TypeInit == Init => TypeInv
<1> SUFFICES ASSUME Init PROVE TypeInv
  OBVIOUS
<1>1. TypeOK
  <2>1. work \in [Worker -> WorkState]
    BY NoRows DEF Init, WorkOK
  <2>2. identity \in [Sandbox -> Identity]
    BY DEF Init, Identity
  <2>3. \A r \in Route : owner[r].version = 0 <=> owner[r].phase = "none"
    BY DEF Init, NoOwner
  <2> QED
    BY <2>1, <2>2, <2>3, NoRows DEF Init, TypeOK
<1>2. /\ \A r \in Route : Names(owner[r])
      /\ \A w \in Worker : WorkOK(work[w])
  BY NoRows DEF Init
<1> QED
  BY <1>1, <1>2 DEF TypeInv

\* Steps of members and sandboxes keep the types.
LEMMA TypeEnvironment ==
    ASSUME TypeInv, Environment
    PROVE  TypeInv'
<1> USE DEF TypeInv, members, sandboxes, history
<1>1. CASE \E m \in Member : RestartMember(m) \/ ExpireMember(m)
  BY <1>1, NoRows DEF TypeOK, RestartMember, ExpireMember, WorkOK
<1>2. CASE \E m \in Member, leaving \in BOOLEAN :
              \E n \in 1..process[m] : WriteMember(m, n, leaving)
  BY <1>2 DEF TypeOK, WriteMember, MemberRow, WorkOK
<1>3. CASE \E s \in Sandbox : Quiesce(s) \/ RunAgain(s) \/ EndGeneration(s)
                                \/ RotateToken(s)
  <2>1. PICK s \in Sandbox :
           \E x \in Identity : identity' = [identity EXCEPT ![s] = x]
    <3>1. PICK s \in Sandbox :
             Quiesce(s) \/ RunAgain(s) \/ EndGeneration(s) \/ RotateToken(s)
      BY <1>3
    <3>2. identity[s] \in Identity
      BY DEF TypeOK
    <3>3. \/ identity' = [identity EXCEPT ![s] =
                            [identity[s] EXCEPT !.rotated = TRUE]]
          \/ \E p \in {"running", "quiescing", "ended"} :
                identity' = [identity EXCEPT ![s] =
                               [identity[s] EXCEPT !.phase = p]]
      BY <3>1 DEF Quiesce, RunAgain, EndGeneration, RotateToken
    <3> QED
      BY <3>2, <3>3 DEF Identity
  <2>2. identity' \in [Sandbox -> Identity]
    BY <2>1 DEF TypeOK
  <2> QED
    BY <1>3, <2>2 DEF TypeOK, Quiesce, RunAgain, EndGeneration, RotateToken,
                      WorkOK
<1>4. CASE \E s \in Sandbox, r \in Route : StartGeneration(s, r)
  BY <1>4 DEF TypeOK, StartGeneration, Identity, WorkOK
<1>5. CASE \E r \in Route : RecordPublished(r) \/ Fence(r)
  BY <1>5, NoRows DEF TypeOK, RecordPublished, Fence, WorkOK
<1>6. CASE \E g \in Replica, r \in Route :
              Withdraw(g, r) \/ RemoveWithdrawn(g, r) \/ ForgetWithdrawal(g, r)
  BY <1>6, NoRows DEF TypeOK, Withdraw, RemoveWithdrawn, ForgetWithdrawal,
                      WorkOK
<1> QED
  BY <1>1, <1>2, <1>3, <1>4, <1>5, <1>6 DEF Environment

\* The steps of a reconciliation pass.
LEMMA TypeReconcile ==
    ASSUME TypeInv, NEW g \in Replica, Reconcile(g)
    PROVE  TypeInv'
<1> DEFINE me == work[g]
<1>0. /\ g \in Worker
      /\ WorkOK(me)
  BY DEF Worker, TypeInv
<1>1. ASSUME NEW r \in Route, ListMembers(g, r) PROVE TypeInv'
  <2>1. WorkOK([NoWork EXCEPT !.pc = "owner", !.route = r,
                              !.seen = LiveMembers])
    BY NoRows, LiveMembersType
       DEF TypeInv, WorkOK, NoWork, WorkState, PC, NoOwner
  <2> QED
    BY <1>0, <1>1, <2>1, OnlyWork DEF ListMembers
<1>2. CASE ListOwners(g)
  <2>1. WorkOK([me EXCEPT !.pc = "instance", !.before = owner[me.route]])
    BY <1>0, <1>2 DEF ListOwners, TypeInv, TypeOK, WorkOK, WorkState, PC
  <2> QED
    BY <1>0, <1>2, <2>1, OnlyWork DEF ListOwners
<1>3. CASE ListInstances(g)
  <2> DEFINE desired == instance[me.route] = Published
                          /\ me.route \notin withdrawn[g]
             next == Dispatch(desired, me.before, me.seen)
             x == IF next \in {"identity", "confirm"}
                  THEN [me EXCEPT !.pc = next, !.base = me.before.epoch]
                  ELSE Holding(g, next, me.before)
  <2>1. next \in PC \ {"target"}
    BY DEF Dispatch, PC
  <2>2. /\ me.route \in Route
        /\ me.before \in OwnerRow
        /\ Names(me.before)
        /\ next = "advance" => me.before.phase = "granting"
    BY <1>0, <1>3 DEF ListInstances, WorkOK, WorkState, Dispatch
  <2>3. WorkOK([me EXCEPT !.pc = next, !.base = me.before.epoch])
    <3> HIDE DEF next
    <3> QED
      BY <1>0, <2>1, <2>2 DEF WorkOK, WorkState, OwnerRow
  <2>4. WorkOK(Holding(g, next, me.before))
    <3> HIDE DEF next
    <3> QED
      BY <1>0, <2>1, <2>2, HoldingOK
  <2>5. WorkOK(x)
    BY <2>3, <2>4
  <2>6. work' = [work EXCEPT ![g] = x]
    BY <1>3 DEF ListInstances
  <2> HIDE DEF x
  <2> QED
    BY <1>0, <1>3, <2>5, <2>6, OnlyWork DEF ListInstances
<1>4. CASE ConfirmFailure(g)
  <2> DEFINE x == IF OwnerAlive(me.before, LiveMembers)
                  THEN Holding(g, "view", me.before)
                  ELSE [me EXCEPT !.pc = "choose"]
  <2>1. WorkOK(Holding(g, "view", me.before))
    BY <1>0, <1>4, HoldingOK DEF ConfirmFailure, WorkOK, WorkState, PC
  <2>2. WorkOK([me EXCEPT !.pc = "choose"])
    BY <1>0, <1>4 DEF ConfirmFailure, WorkOK, WorkState, PC
  <2>3. WorkOK(x)
    BY <2>1, <2>2
  <2>4. work' = [work EXCEPT ![g] = x]
    BY <1>4 DEF ConfirmFailure
  <2> HIDE DEF x
  <2> QED
    BY <1>0, <1>4, <2>3, <2>4, OnlyWork DEF ConfirmFailure
<1>5. CASE ReadIdentity(g)
  <2> DEFINE id == identity[SandboxOf[me.route]]
             x == IF id.generation = me.route
                  THEN [me EXCEPT !.pc = "choose", !.base = id.epoch]
                  ELSE Holding(g, "view", NoOwner)
  <2>1. me.route \in Route /\ id \in Identity
    BY <1>0, <1>5, PoolAssumption DEF ReadIdentity, WorkOK, TypeInv, TypeOK
  <2>2. WorkOK(Holding(g, "view", NoOwner))
    BY <1>0, <2>1, HoldingOK, NoRows DEF PC
  <2>3. WorkOK([me EXCEPT !.pc = "choose", !.base = id.epoch])
    <3> HIDE DEF id
    <3> QED
      BY <1>0, <2>1 DEF WorkOK, WorkState, PC, Identity
  <2>4. WorkOK(x)
    BY <2>2, <2>3
  <2>5. work' = [work EXCEPT ![g] = x]
    BY <1>5 DEF ReadIdentity
  <2> HIDE DEF x
  <2> QED
    BY <1>0, <1>5, <2>4, <2>5, OnlyWork DEF ReadIdentity
<1>6. CASE RemoveOwner(g)
  <2>1. WorkOK([me EXCEPT !.pc = "source", !.after = NoOwner])
    BY <1>0, <1>6, NoRows DEF RemoveOwner, WorkOK, WorkState, PC, NoOwner
  <2> QED
    BY <1>0, <1>6, <2>1, OnlyWork DEF RemoveOwner
<1>7. CASE CompleteTakeover(g)
  <2> DEFINE s == SandboxOf[me.route]
  <2>1. me.route \in Route /\ s \in Sandbox /\ me.before \in OwnerRow
    BY <1>0, <1>7, PoolAssumption DEF CompleteTakeover, WorkOK, WorkState
  <2>2. CASE /\ work' = [work EXCEPT ![g] = [me EXCEPT !.pc = "source",
                                                       !.after = NoOwner]]
             /\ UNCHANGED identity
    <3>1. WorkOK([me EXCEPT !.pc = "source", !.after = NoOwner])
      BY <1>0, <2>1, NoRows DEF WorkOK, WorkState, PC, NoOwner
    <3> QED
      BY <1>0, <1>7, <2>2, <3>1, OnlyWork
         DEF CompleteTakeover, sandboxes, history
  <2>3. CASE /\ identity' \in {identity,
                               [identity EXCEPT ![s] =
                                  [@ EXCEPT !.epoch = me.before.epoch,
                                            !.lineage = me.before.id,
                                            !.rotated = FALSE]]}
             /\ work' = [work EXCEPT ![g] = [me EXCEPT
                           !.pc = "target",
                           !.after = [me.before EXCEPT !.phase = "granted"]]]
    <3>1. WorkOK([me EXCEPT !.pc = "target",
                            !.after = [me.before EXCEPT !.phase = "granted"]])
      BY <1>0, <1>7, <2>1 DEF CompleteTakeover, WorkOK, WorkState, PC,
                              OwnerRow, Names
    <3>2. identity' \in [Sandbox -> Identity]
      <4> DEFINE id == [identity[s] EXCEPT !.epoch = me.before.epoch,
                                           !.lineage = me.before.id,
                                           !.rotated = FALSE]
      <4>1. id \in Identity
        <5>1. /\ identity[s] \in Identity
              /\ me.before.epoch \in Nat
              /\ me.before.id \in Nat
          BY <2>1 DEF TypeInv, TypeOK, OwnerRow
        <5> HIDE DEF s, me
        <5> QED
          BY <5>1 DEF Identity
      <4>2. identity' \in {identity, [identity EXCEPT ![s] = id]}
        BY <2>3
      <4> HIDE DEF id
      <4> QED
        BY <2>1, <4>1, <4>2 DEF TypeInv, TypeOK
    <3> QED
      BY <1>0, <1>7, <2>3, <3>1, <3>2
         DEF CompleteTakeover, TypeInv, TypeOK, WorkOK, members, history
  <2> QED
    BY ONLY <1>7, <2>2, <2>3 DEF CompleteTakeover
<1>8. CASE View(g)
  <2>1. minted' \subseteq Credential
    <3>1. /\ me.route \in Route
          /\ me.before \in OwnerRow
          /\ identity[SandboxOf[me.route]] \in Identity
      BY <1>0, <1>8, PoolAssumption
         DEF View, WorkOK, WorkState, TypeInv, TypeOK
    <3> QED
      BY <1>8, <3>1 DEF View, TypeInv, TypeOK, Credential, OwnerRow, Identity
  <2> QED
    BY <1>0, <1>8, <2>1, NoRows
       DEF View, TypeInv, TypeOK, WorkOK, members, sandboxes
<1>9. CASE LeaveOwner(g)
  <2>1. WorkOK(Holding(g, "view", me.before))
    BY <1>0, <1>9, HoldingOK DEF LeaveOwner, WorkOK, WorkState, PC
  <2> QED
    BY <1>0, <1>9, <2>1, OnlyWork DEF LeaveOwner
<1> QED
  BY <1>1, <1>2, <1>3, <1>4, <1>5, <1>6, <1>7, <1>8, <1>9 DEF Reconcile

\* The steps of an owner change that only read.
LEMMA TypeReads ==
    ASSUME TypeInv, NEW w \in Worker,
           \/ \E m \in Member : ChooseTarget(w, m)
           \/ NoTarget(w) \/ ReadTarget(w) \/ ReadSource(w)
           \/ WriteConflicts(w) \/ Fail(w)
    PROVE  TypeInv'
<1> DEFINE me == work[w]
<1>0. WorkOK(me)
  BY DEF TypeInv
<1>1. ASSUME NEW m \in Member, ChooseTarget(w, m) PROVE TypeInv'
  <2>1. Offer(w, m) \in OwnerRow /\ Names(Offer(w, m))
    BY <1>0 DEF Offer, OwnerRow, Names, WorkOK, WorkState
  <2>2. Offer(w, m).phase # "none"
    BY DEF Offer
  <2>3. WorkOK([me EXCEPT !.pc = "target", !.after = Offer(w, m)])
    BY <1>0, <1>1, <2>1, <2>2 DEF ChooseTarget, WorkOK, WorkState, PC
  <2> QED
    BY <1>1, <2>3, OnlyWork DEF ChooseTarget
<1>2. CASE NoTarget(w)
  <2> DEFINE x == IF w \in Launch THEN [me EXCEPT !.pc = "giveup"]
                  ELSE Holding(w, "view", me.before)
  <2>1. WorkOK([me EXCEPT !.pc = "giveup"])
    BY <1>0, <1>2 DEF NoTarget, WorkOK, WorkState, PC
  <2>2. WorkOK(Holding(w, "view", me.before))
    BY <1>0, <1>2, HoldingOK DEF NoTarget, WorkOK, WorkState, PC
  <2>3. WorkOK(x)
    BY <2>1, <2>2
  <2>4. work' = [work EXCEPT ![w] = x]
    BY <1>2 DEF NoTarget
  <2> HIDE DEF x
  <2> QED
    BY <1>2, <2>3, <2>4, OnlyWork DEF NoTarget
<1>3. CASE ReadTarget(w)
  <2> DEFINE m == me.after.member
             row == capacity[m]
             x == IF HasRoomFor(row, me.route)
                  THEN [me EXCEPT !.pc = "source", !.target = row]
                  ELSE IF me.before.phase = "granting"
                  THEN Holding(w, "view", me.before)
                  ELSE [me EXCEPT !.pc = "choose", !.tried = me.tried \cup {m}]
  <2>1. me.route \in Route /\ m \in Member /\ row \in CapacityRow
    BY <1>0, <1>3 DEF ReadTarget, WorkOK, Names, TypeInv, TypeOK
  <2>2. WorkOK([me EXCEPT !.pc = "source", !.target = row])
    <3> HIDE DEF row
    <3> QED
      BY <1>0, <2>1 DEF WorkOK, WorkState, PC
  <2>3. WorkOK(Holding(w, "view", me.before))
    BY <1>0, <2>1, HoldingOK DEF WorkOK, WorkState, PC
  <2>4. WorkOK([me EXCEPT !.pc = "choose", !.tried = me.tried \cup {m}])
    <3> HIDE DEF m
    <3> QED
      BY <1>0, <2>1 DEF WorkOK, WorkState, PC
  <2>5. WorkOK(x)
    BY <2>2, <2>3, <2>4
  <2>6. work' = [work EXCEPT ![w] = x]
    BY <1>3 DEF ReadTarget
  <2> HIDE DEF x
  <2> QED
    BY <1>3, <2>5, <2>6, OnlyWork DEF ReadTarget
<1>4. CASE ReadSource(w)
  <2> DEFINE row == IF Leaves(w) THEN capacity[me.before.member]
                    ELSE NoCapacity
  <2>1. row \in CapacityRow
    BY <1>0, NoRows
       DEF Leaves, WorkOK, WorkState, OwnerRow, TypeInv, TypeOK
  <2>2. WorkOK([me EXCEPT !.pc = "write", !.source = row])
    <3> HIDE DEF row
    <3> QED
      BY <1>0, <1>4, <2>1 DEF ReadSource, WorkOK, WorkState, PC
  <2> QED
    BY <1>4, <2>2, OnlyWork DEF ReadSource
<1>5. CASE WriteConflicts(w)
  <2> DEFINE r == me.route
             ownerChanged == owner[r].version # me.before.version
             instanceChanged == Admits(w) /\ instance[r] # me.admitting
             x == IF w \in Launch /\ (ownerChanged \/ instanceChanged)
                  THEN Ended(w)
                  ELSE IF ownerChanged
                  THEN Holding(w, "view", owner[r])
                  ELSE [me EXCEPT !.pc = IF me.after.phase = "none"
                                         THEN "source" ELSE "target"]
  <2>1. r \in Route /\ owner[r] \in OwnerRow /\ Names(owner[r])
    BY <1>0, <1>5 DEF WriteConflicts, WorkOK, TypeInv, TypeOK
  <2>2. WorkOK(Holding(w, "view", owner[r]))
    BY <2>1, HoldingOK DEF PC
  <2>3. WorkOK([me EXCEPT !.pc = IF me.after.phase = "none"
                                 THEN "source" ELSE "target"])
    BY <1>0, <2>1 DEF WorkOK, WorkState, PC
  <2>4. WorkOK(x)
    BY <2>2, <2>3, NoRows
  <2>5. work' = [work EXCEPT ![w] = x]
    BY <1>5 DEF WriteConflicts
  <2> HIDE DEF x
  <2> QED
    BY <1>5, <2>4, <2>5, OnlyWork DEF WriteConflicts
<1>6. CASE Fail(w)
  BY <1>6, NoRows, OnlyWork DEF Fail
<1> QED
  BY <1>1, <1>2, <1>3, <1>4, <1>5, <1>6

\* What an owner change writes.
LEMMA WrittenType ==
    ASSUME TypeInv, NEW w \in Worker, work[w].pc = "write"
    PROVE  /\ WrittenOwner(w) \in OwnerRow
           /\ Names(WrittenOwner(w))
           /\ WrittenOwner(w).version = 0 <=> WrittenOwner(w).phase = "none"
           /\ WrittenOwner(w).phase = work[w].after.phase
           /\ \A m \in Member : WrittenCapacity(w, m) \in CapacityRow
<1> DEFINE me == work[w]
<1>0. /\ me.route \in Route
      /\ me.before \in OwnerRow
      /\ me.after \in OwnerRow
      /\ Names(me.after)
      /\ me.target \in CapacityRow
      /\ me.source \in CapacityRow
      /\ lastId \in Nat
  BY DEF TypeInv, TypeOK, WorkOK, WorkState
<1>1. /\ WrittenOwner(w) \in OwnerRow
      /\ Names(WrittenOwner(w))
      /\ WrittenOwner(w).version = 0 <=> WrittenOwner(w).phase = "none"
      /\ WrittenOwner(w).phase = me.after.phase
  <2>1. CASE me.after.phase = "none"
    BY <2>1, NoRows DEF WrittenOwner, NoOwner
  <2>2. CASE me.after.phase = "granting"
    <3>1. WrittenOwner(w) =
            [me.after EXCEPT !.version = me.before.version + 1,
                             !.id = lastId + 1]
      BY <2>2 DEF WrittenOwner, NextVersion
    <3>2. /\ WrittenOwner(w).phase = "granting"
          /\ WrittenOwner(w).version = me.before.version + 1
          /\ WrittenOwner(w).member = me.after.member
      BY <1>0, <2>2, <3>1 DEF OwnerRow
    <3>3. WrittenOwner(w) \in OwnerRow
      <4>1. me.before.version + 1 \in Nat /\ lastId + 1 \in Nat
        BY <1>0 DEF OwnerRow
      <4> QED
        <5> DEFINE a == me.after
                   v == me.before.version + 1
                   i == lastId + 1
        <5>1. WrittenOwner(w) = [a EXCEPT !.version = v, !.id = i]
          BY <3>1
        <5>2. a \in OwnerRow /\ v \in Nat /\ i \in Nat
          BY <1>0, <4>1
        <5> HIDE DEF a, v, i
        <5> QED
          BY ONLY <5>1, <5>2 DEF OwnerRow
    <3> QED
      BY <1>0, <2>2, <3>2, <3>3 DEF OwnerRow, Names
  <2>3. CASE me.after.phase = "granted"
    <3>1. WrittenOwner(w) =
            [me.after EXCEPT !.version = me.before.version + 1]
      BY <2>3 DEF WrittenOwner, NextVersion
    <3> QED
      BY <1>0, <2>3, <3>1 DEF OwnerRow, Names
  <2> QED
    BY <1>0, <2>1, <2>2, <2>3 DEF OwnerRow
<1>2. ASSUME NEW m \in Member PROVE WrittenCapacity(w, m) \in CapacityRow
  <2>1. capacity[m] \in CapacityRow
    BY DEF TypeInv, TypeOK
  <2> QED
    BY <1>0, <2>1 DEF WrittenCapacity, CapacityRow, NextVersion
<1> QED
  BY <1>1, <1>2

\* A write of an owner record keeps the types.
LEMMA TypeWrite ==
    ASSUME TypeInv, NEW w \in Worker, WriteOwner(w)
    PROVE  TypeInv'
<1> DEFINE me == work[w]
           r == me.route
           written == WrittenOwner(w)
<1>0. /\ r \in Route
      /\ written \in OwnerRow
      /\ Names(written)
      /\ written.version = 0 <=> written.phase = "none"
      /\ written.phase = me.after.phase
  BY WrittenType DEF WriteOwner, TypeInv, WorkOK
<1>1. WorkOK(AfterWrite(w)) /\ WorkOK(Holding(w, "view", me.before))
  <2>1. WorkOK(AfterWrite(w))
    BY <1>0, NoRows, HoldingOK DEF AfterWrite, PC
  <2>2. me.before \in OwnerRow /\ Names(me.before)
    BY DEF TypeInv, WorkOK, WorkState
  <2> QED
    BY <1>0, <2>1, <2>2, HoldingOK DEF PC
<1>2. /\ owner' = [owner EXCEPT ![r] = written]
      /\ capacity' \in [Member -> CapacityRow]
      /\ instance' \in [Route -> InstanceRow]
      /\ removed' \subseteq Route
  BY <1>0, WrittenType, NoRows DEF WriteOwner, TypeInv, TypeOK
<1>3. lastId' \in Nat /\ intents' \subseteq Intent
  BY <1>0 DEF WriteOwner, TypeInv, TypeOK, Intent, OwnerRow
<1>4. \E x : WorkOK(x) /\ work' = [work EXCEPT ![w] = x]
  BY <1>1 DEF WriteOwner
<1> HIDE DEF written
<1> QED
  BY <1>0, <1>2, <1>3, <1>4
     DEF WriteOwner, TypeInv, TypeOK, WorkOK, members, sandboxes

\* The steps of a launch around its owner change.
LEMMA TypePlaceLaunch ==
    ASSUME TypeInv, NEW l \in Launch, PlaceLaunch(l)
    PROVE  TypeInv'
<1> DEFINE me == work[l]
<1>0. l \in Worker /\ WorkOK(me)
  BY DEF Worker, TypeInv
<1>1. ASSUME NEW r \in Route, ListTargets(l, r) PROVE TypeInv'
  <2>1. WorkOK([NoWork EXCEPT !.pc = "record", !.route = r,
                              !.seen = LiveMembers, !.base = launchEpoch[r]])
    BY NoRows, LiveMembersType
       DEF TypeInv, TypeOK, WorkOK, NoWork, WorkState, PC
  <2> QED
    BY <1>0, <1>1, <2>1, OnlyWork DEF ListTargets
<1>2. CASE RecordAdmitting(l)
  <2> DEFINE r == me.route
             new == instance[r] = NoInstance
             mine == [phase |-> "admitting", writer |-> l]
             row == IF new THEN mine ELSE instance[r]
  <2>1. r \in Route /\ mine \in InstanceRow /\ row \in InstanceRow
    BY <1>0, <1>2 DEF RecordAdmitting, WorkOK, TypeInv, TypeOK, InstanceRow
  <2>2. WorkOK([me EXCEPT !.pc = "choose", !.admitting = row,
                          !.created = new])
    <3>1. new \in BOOLEAN
      OBVIOUS
    <3> HIDE DEF row, new
    <3> QED
      BY <1>0, <1>2, <2>1, <3>1 DEF RecordAdmitting, WorkOK, WorkState, PC
  <2>3. /\ work' = [work EXCEPT ![l] = [me EXCEPT !.pc = "choose",
                                                  !.admitting = row,
                                                  !.created = new]]
        /\ instance' = IF new THEN [instance EXCEPT ![r] = mine]
                       ELSE instance
    BY <1>2 DEF RecordAdmitting
  <2>4. instance' \in [Route -> InstanceRow]
    BY <2>1, <2>3 DEF TypeInv, TypeOK
  <2> DEFINE x == [me EXCEPT !.pc = "choose", !.admitting = row,
                             !.created = new]
  <2> HIDE DEF x
  <2> QED
    BY <1>0, <1>2, <2>2, <2>3, <2>4
       DEF RecordAdmitting, TypeInv, TypeOK, WorkOK, members, sandboxes,
           history, x
<1>3. CASE GiveUpAdmission(l)
  <2>1. instance' \in [Route -> InstanceRow]
    BY <1>3, NoRows DEF GiveUpAdmission, TypeInv, TypeOK
  <2> QED
    BY <1>0, <1>3, <2>1, NoRows
       DEF GiveUpAdmission, TypeInv, TypeOK, WorkOK, members, sandboxes,
           history
<1> QED
  BY <1>1, <1>2, <1>3 DEF PlaceLaunch

\* Every step keeps the types.
LEMMA TypeNext == TypeInv /\ [Next]_vars => TypeInv'
<1> SUFFICES ASSUME TypeInv, [Next]_vars PROVE TypeInv'
  OBVIOUS
<1>1. CASE Environment
  BY <1>1, TypeEnvironment
<1>2. ASSUME NEW w \in Worker, Change(w) \/ Fail(w) PROVE TypeInv'
  BY <1>2, TypeReads, TypeWrite DEF Change
<1>3. ASSUME NEW g \in Replica, Reconcile(g) PROVE TypeInv'
  BY <1>3, TypeReconcile
<1>4. ASSUME NEW l \in Launch, PlaceLaunch(l) PROVE TypeInv'
  BY <1>4, TypePlaceLaunch
<1>5. CASE UNCHANGED vars
  BY <1>5 DEF vars, TypeInv, TypeOK, WorkOK
<1> QED
  BY <1>1, <1>2, <1>3, <1>4, <1>5 DEF Next

\* In every reachable state the rows the store holds and what each worker
\* remembers have their types, and an owner record is absent exactly if its
\* version is 0.
THEOREM TypeCorrect == Spec => []TypeOK
<1>1. Spec => []TypeInv
  BY TypeInit, TypeNext, PTL DEF Spec
<1>2. TypeInv => TypeOK
  BY DEF TypeInv
<1> QED
  BY <1>1, <1>2, PTL

-----------------------------------------------------------------------------
(* Fencing: one holder for each term.  Takeover credentials are minted     *)
(* from a record that may be long out of date, after any number of passes  *)
(* have cancelled, re-created and completed other intents.  What keeps two *)
(* holders apart is that a granted takeover record, wherever a copy of it  *)
(* is, was granted when the sandbox row was at its epoch and lineage, and  *)
(* that the sandbox row only leaves that lineage for a later epoch.        *)

\* The intent a takeover record, or a credential, goes back to.
IntentOf(record, r) ==
    [id |-> record.id, route |-> r, epoch |-> record.epoch,
     member |-> record.member, process |-> record.process]

\* A term of route r that the sandbox row x is at, or has moved past.
Fenced(epoch, id, r, x) ==
    \/ x.epoch > epoch
    \/ x.epoch = epoch /\ x.lineage = id /\ x.generation = r

\* A copy of an owner record of route r, given the sandbox rows and the
\* intents recorded so far.
RecordOK(record, r, rows, recorded) ==
    record.id # 0 =>
        /\ IntentOf(record, r) \in recorded
        /\ record.phase = "granted" =>
              Fenced(record.epoch, record.id, r, rows[SandboxOf[r]])

\* What a worker remembers; an intent it read has been given its id.
WorkFenced(x, rows, recorded) ==
    /\ RecordOK(x.before, x.route, rows, recorded)
    /\ RecordOK(x.after, x.route, rows, recorded)
    /\ x.before.phase = "granting" => x.before.id # 0
    /\ x.route \in Route \/ (x.before.id = 0 /\ x.after.id = 0)

\* Intents are told apart by their ids, which were handed out.
IntentsOK(recorded, last) ==
    /\ \A i \in recorded : i.id \in 1..last
    /\ \A i, j \in recorded : i.id = j.id => i = j

\* A lineage in force was started by an intent for that generation and term.
LineageOK(s, x, recorded) ==
    x.lineage # 0 =>
        \E i \in recorded : /\ i.id = x.lineage
                            /\ i.route = x.generation
                            /\ i.epoch = x.epoch
                            /\ SandboxOf[i.route] = s

\* Minted credentials belong to one intent.
CredentialOK(c, rows, recorded) ==
    /\ c.instance = c.lineage
    /\ c.instance # 0
    /\ [id |-> c.instance, route |-> c.route, epoch |-> c.epoch,
        member |-> c.member, process |-> c.process] \in recorded
    /\ Fenced(c.epoch, c.instance, c.route, rows[SandboxOf[c.route]])

FenceInv ==
    /\ IntentsOK(intents, lastId)
    /\ \A r \in Route : /\ RecordOK(owner[r], r, identity, intents)
                        /\ owner[r].phase = "granting" => owner[r].id # 0
    /\ \A w \in Worker : WorkFenced(work[w], identity, intents)
    /\ \A s \in Sandbox : LineageOK(s, identity[s], intents)
    /\ \A c \in minted : CredentialOK(c, identity, intents)
    /\ OneHolderPerTerm

\* A sandbox row keeps its term and lineage or moves to a later epoch.
Follows(x, y) ==
    \/ y.epoch > x.epoch
    \/ /\ y.epoch = x.epoch
       /\ y.lineage = x.lineage
       /\ y.generation = x.generation

RowsFollow(rows, new) == \A s \in Sandbox : Follows(rows[s], new[s])

\* Terms stay fenced while sandbox rows move forward.
LEMMA FencedStable ==
    ASSUME NEW x \in Identity, NEW y \in Identity, Follows(x, y),
           NEW epoch \in Nat, NEW id, NEW r, Fenced(epoch, id, r, x)
    PROVE  Fenced(epoch, id, r, y)
  BY DEF Follows, Fenced, Identity

\* What is known of a record stays true as rows move on and intents are added.
LEMMA RecordStable ==
    ASSUME NEW rows \in [Sandbox -> Identity], NEW new \in [Sandbox -> Identity],
           RowsFollow(rows, new), NEW recorded, NEW more,
           recorded \subseteq more,
           NEW record \in OwnerRow, NEW r \in Route,
           RecordOK(record, r, rows, recorded)
    PROVE  RecordOK(record, r, new, more)
<1>1. SandboxOf[r] \in Sandbox
  BY PoolAssumption
<1>2. record.epoch \in Nat
  BY DEF OwnerRow
<1> QED
  BY <1>1, <1>2, FencedStable DEF RecordOK, RowsFollow

\* A worker's records, whether or not it has a route.
LEMMA WorkStable ==
    ASSUME NEW rows \in [Sandbox -> Identity], NEW new \in [Sandbox -> Identity],
           RowsFollow(rows, new), NEW recorded, NEW more,
           recorded \subseteq more,
           NEW x, WorkOK(x), WorkFenced(x, rows, recorded)
    PROVE  WorkFenced(x, new, more)
<1>1. x.before \in OwnerRow /\ x.after \in OwnerRow
  BY DEF WorkOK, WorkState
<1>2. CASE x.route \in Route
  BY <1>1, <1>2, RecordStable DEF WorkFenced
<1>3. CASE x.before.id = 0 /\ x.after.id = 0
  BY <1>3 DEF WorkFenced, RecordOK
<1> QED
  BY <1>2, <1>3 DEF WorkFenced

\* What a step owes the invariant: sandbox rows move forward, and whatever
\* record, lineage or credential is new is fenced.
LEMMA FenceStep ==
    ASSUME TypeInv, TypeInv', FenceInv,
           RowsFollow(identity, identity'),
           intents \subseteq intents',
           IntentsOK(intents', lastId'),
           \A s \in Sandbox : \/ identity'[s].lineage = identity[s].lineage
                                 /\ Follows(identity'[s], identity[s])
                              \/ LineageOK(s, identity'[s], intents'),
           \A r \in Route :
              \/ owner'[r] = owner[r]
              \/ /\ RecordOK(owner'[r], r, identity', intents')
                 /\ owner'[r].phase = "granting" => owner'[r].id # 0,
           \A w \in Worker :
              work'[w] = work[w] \/ WorkFenced(work'[w], identity', intents'),
           \A c \in minted' : c \in minted
                              \/ CredentialOK(c, identity', intents'),
           OneHolderPerTerm'
    PROVE  FenceInv'
<1>0. /\ identity \in [Sandbox -> Identity]
      /\ identity' \in [Sandbox -> Identity]
      /\ \A w \in Worker : WorkOK(work[w])
      /\ owner \in [Route -> OwnerRow]
      /\ minted \subseteq Credential
  BY DEF TypeInv, TypeOK
<1>1. ASSUME NEW r \in Route
      PROVE  /\ RecordOK(owner'[r], r, identity', intents')
             /\ owner'[r].phase = "granting" => owner'[r].id # 0
  <2>1. /\ RecordOK(owner[r], r, identity, intents)
        /\ owner[r].phase = "granting" => owner[r].id # 0
        /\ owner[r] \in OwnerRow
    BY <1>0 DEF FenceInv
  <2>2. RecordOK(owner[r], r, identity', intents')
    BY <1>0, <2>1, RecordStable
  <2> QED
    BY <2>1, <2>2
<1>2. ASSUME NEW w \in Worker PROVE WorkFenced(work'[w], identity', intents')
  <2>1. WorkFenced(work[w], identity, intents)
    BY DEF FenceInv
  <2>2. WorkFenced(work[w], identity', intents')
    BY <1>0, <2>1, WorkStable
  <2> QED
    BY <2>2
<1>3. ASSUME NEW s \in Sandbox PROVE LineageOK(s, identity'[s], intents')
  <2>1. LineageOK(s, identity[s], intents)
    BY DEF FenceInv
  <2>2. CASE /\ identity'[s].lineage = identity[s].lineage
             /\ Follows(identity'[s], identity[s])
    <3>1. /\ identity'[s].epoch = identity[s].epoch
          /\ identity'[s].generation = identity[s].generation
      BY <1>0, <2>2 DEF Follows, RowsFollow, Identity
    <3> QED
      BY <2>1, <2>2, <3>1 DEF LineageOK
  <2> QED
    BY <2>2
<1>4. ASSUME NEW c \in minted' PROVE CredentialOK(c, identity', intents')
  <2>1. CASE c \in minted
    <3>1. /\ CredentialOK(c, identity, intents)
          /\ c.route \in Route
          /\ c.epoch \in Nat
      BY <1>0, <2>1 DEF FenceInv, Credential
    <3>2. /\ SandboxOf[c.route] \in Sandbox
          /\ Follows(identity[SandboxOf[c.route]],
                     identity'[SandboxOf[c.route]])
      BY <3>1, PoolAssumption DEF RowsFollow
    <3>3. Fenced(c.epoch, c.instance, c.route, identity'[SandboxOf[c.route]])
      BY <1>0, <3>1, <3>2, FencedStable DEF CredentialOK
    <3> QED
      BY <3>1, <3>3 DEF CredentialOK
  <2> QED
    BY <2>1
<1> QED
  BY <1>1, <1>2, <1>3, <1>4 DEF FenceInv

\* Rows that are not written, and steps that mint nothing.
LEMMA FenceUnchanged ==
    ASSUME TypeInv, FenceInv
    PROVE  /\ identity' = identity => RowsFollow(identity, identity')
           /\ \A s \in Sandbox : identity'[s] = identity[s] =>
                 Follows(identity[s], identity'[s])
                 /\ Follows(identity'[s], identity[s])
           /\ UNCHANGED <<intents, lastId>> => IntentsOK(intents', lastId')
           /\ minted' = minted => OneHolderPerTerm'
  BY DEF RowsFollow, Follows, FenceInv, IntentsOK, OneHolderPerTerm

\* The fence holds initially.
LEMMA FenceInit == Init => FenceInv
  BY DEF Init, FenceInv, IntentsOK, RecordOK, NoOwner, WorkFenced, NoWork,
         LineageOK, OneHolderPerTerm

\* Steps of members, sandboxes and instance records.
LEMMA FenceEnvironment ==
    ASSUME TypeInv, TypeInv', FenceInv, Environment
    PROVE  FenceInv'
<1>1. UNCHANGED <<owner, work, lastId, intents, minted>>
  BY DEF Environment, RestartMember, ExpireMember, WriteMember, Quiesce,
         RunAgain, EndGeneration, RotateToken, StartGeneration,
         RecordPublished, Fence, Withdraw, RemoveWithdrawn, ForgetWithdrawal,
         history
<1>2. \A s \in Sandbox :
         /\ Follows(identity[s], identity'[s])
         /\ \/ identity'[s].lineage = identity[s].lineage
               /\ Follows(identity'[s], identity[s])
            \/ LineageOK(s, identity'[s], intents')
  <2> SUFFICES ASSUME NEW s \in Sandbox
               PROVE  /\ Follows(identity[s], identity'[s])
                      /\ \/ identity'[s].lineage = identity[s].lineage
                            /\ Follows(identity'[s], identity[s])
                         \/ LineageOK(s, identity'[s], intents')
    OBVIOUS
  <2>0. /\ identity \in [Sandbox -> Identity]
        /\ identity[s] \in Identity
    BY DEF TypeInv, TypeOK
  <2>1. CASE identity' = identity
    BY <2>1 DEF Follows
  <2>2. ASSUME NEW t \in Sandbox,
               Quiesce(t) \/ RunAgain(t) \/ EndGeneration(t) \/ RotateToken(t)
        PROVE  /\ Follows(identity[s], identity'[s])
               /\ identity'[s].lineage = identity[s].lineage
               /\ Follows(identity'[s], identity[s])
    BY <2>0, <2>2 DEF Quiesce, RunAgain, EndGeneration, RotateToken, Follows,
                      Identity
  <2>3. ASSUME NEW t \in Sandbox, NEW r \in Route, StartGeneration(t, r)
        PROVE  /\ Follows(identity[s], identity'[s])
               /\ \/ identity'[s].lineage = identity[s].lineage
                     /\ Follows(identity'[s], identity[s])
                  \/ LineageOK(s, identity'[s], intents')
    <3>1. CASE t = s
      BY <2>0, <2>3, <3>1 DEF StartGeneration, Follows, LineageOK, Identity
    <3>2. CASE t # s
      BY <2>0, <2>3, <3>2 DEF StartGeneration, Follows
    <3> QED
      BY <3>1, <3>2
  <2> QED
    BY <2>1, <2>2, <2>3
       DEF Environment, RestartMember, ExpireMember, WriteMember,
           RecordPublished, Fence, Withdraw, RemoveWithdrawn,
           ForgetWithdrawal, sandboxes
<1>3. RowsFollow(identity, identity')
  BY <1>2 DEF RowsFollow
<1> QED
  BY <1>1, <1>2, <1>3, FenceStep, FenceUnchanged

\* A worker reads: what it holds afterwards are copies of records that it
\* held before or that the store holds.
LEMMA FenceReading ==
    ASSUME TypeInv, TypeInv', FenceInv, NEW w \in Worker, NEW x,
           work' = [work EXCEPT ![w] = x],
           UNCHANGED <<owner, identity, lastId, intents, minted>>,
           \/ x.before.id = 0 /\ x.before.phase # "granting"
           \/ x.route = work[w].route /\ x.before = work[w].before
           \/ /\ x.route = work[w].route
              /\ x.route \in Route
              /\ x.before = owner[x.route],
           \/ x.after.id = 0
           \/ x.route = work[w].route /\ x.after = work[w].after
    PROVE  FenceInv'
<1>1. WorkFenced(work[w], identity, intents)
  BY DEF FenceInv
<1>2. \A r \in Route : /\ RecordOK(owner[r], r, identity, intents)
                       /\ owner[r].phase = "granting" => owner[r].id # 0
  BY DEF FenceInv
<1>3. WorkFenced(x, identity, intents)
  <2>1. /\ RecordOK(x.before, x.route, identity, intents)
        /\ x.before.phase = "granting" => x.before.id # 0
        /\ x.route \in Route \/ x.before.id = 0
    <3>1. CASE x.before.id = 0 /\ x.before.phase # "granting"
      BY <3>1 DEF RecordOK
    <3>2. CASE x.route = work[w].route /\ x.before = work[w].before
      BY <1>1, <3>2 DEF WorkFenced
    <3>3. CASE x.route \in Route /\ x.before = owner[x.route]
      BY <1>2, <3>3
    <3> QED
      BY <3>1, <3>2, <3>3
  <2>2. /\ RecordOK(x.after, x.route, identity, intents)
        /\ x.route \in Route \/ x.after.id = 0
    <3>1. CASE x.after.id = 0
      BY <3>1 DEF RecordOK
    <3> QED
      BY <1>1, <3>1 DEF WorkFenced
  <2> QED
    BY <2>1, <2>2 DEF WorkFenced
<1>4. \A v \in Worker :
         work'[v] = work[v] \/ WorkFenced(work'[v], identity', intents')
  BY <1>3 DEF TypeInv, TypeOK
<1>5. \A s \in Sandbox : identity'[s].lineage = identity[s].lineage
                            /\ Follows(identity'[s], identity[s])
  BY DEF Follows
<1> QED
  BY <1>4, <1>5, FenceStep, FenceUnchanged

\* A worker that gives up what it read.
LEMMA FenceEnded ==
    /\ \A w : Ended(w).before = NoOwner /\ Ended(w).after = NoOwner
    /\ NoWork.before = NoOwner
    /\ NoWork.after = NoOwner
    /\ NoOwner.id = 0
    /\ NoOwner.phase = "none"
  BY DEF Ended, NoWork, NoOwner

\* What a worker holding a record has in its hands.
LEMMA FenceHolding ==
    ASSUME NEW g, NEW pc, NEW record
    PROVE  /\ Holding(g, pc, record).before = record
           /\ Holding(g, pc, record).after = NoOwner
           /\ Holding(g, pc, record).route = work[g].route
  BY DEF Holding, NoWork

\* A reconciliation pass that reads.
LEMMA FencePassReads ==
    ASSUME TypeInv, TypeInv', FenceInv, NEW g \in Replica,
           \/ \E r \in Route : ListMembers(g, r)
           \/ ListOwners(g) \/ ListInstances(g) \/ ConfirmFailure(g)
           \/ LeaveOwner(g) \/ ReadIdentity(g) \/ RemoveOwner(g)
    PROVE  FenceInv'
<1> DEFINE me == work[g]
<1>0. g \in Worker /\ me \in WorkState
  BY DEF Worker, TypeInv, TypeOK
<1> USE DEF sandboxes, history
<1>1. ASSUME NEW r \in Route, ListMembers(g, r) PROVE FenceInv'
  <2> DEFINE x == [NoWork EXCEPT !.pc = "owner", !.route = r,
                                 !.seen = LiveMembers]
  <2>1. x.before = NoOwner /\ x.after = NoOwner
    BY DEF NoWork
  <2>2. work' = [work EXCEPT ![g] = x]
    BY <1>1 DEF ListMembers
  <2> HIDE DEF x
  <2> QED
    BY <1>0, <1>1, <2>1, <2>2, FenceReading, FenceEnded DEF ListMembers
<1>2. CASE ListOwners(g)
  <2> DEFINE x == [me EXCEPT !.pc = "instance", !.before = owner[me.route]]
  <2>1. /\ x.route = me.route
        /\ x.before = owner[me.route]
        /\ x.after = me.after
    BY <1>0 DEF WorkState
  <2>2. work' = [work EXCEPT ![g] = x] /\ me.route \in Route
    BY <1>0, <1>2 DEF ListOwners, TypeInv, WorkOK
  <2> HIDE DEF x
  <2> QED
    BY <1>0, <1>2, <2>1, <2>2, FenceReading DEF ListOwners
<1>3. CASE ListInstances(g)
  <2> DEFINE desired == instance[me.route] = Published
                          /\ me.route \notin withdrawn[g]
             next == Dispatch(desired, me.before, me.seen)
             x == IF next \in {"identity", "confirm"}
                  THEN [me EXCEPT !.pc = next, !.base = me.before.epoch]
                  ELSE Holding(g, next, me.before)
  <2>1. /\ x.route = me.route
        /\ x.before = me.before
        /\ x.after \in {me.after, NoOwner}
    <3> HIDE DEF next
    <3> QED
      BY <1>0, FenceHolding DEF WorkState
  <2>2. work' = [work EXCEPT ![g] = x]
    BY <1>3 DEF ListInstances
  <2> HIDE DEF x
  <2> QED
    BY <1>0, <1>3, <2>1, <2>2, FenceReading, FenceEnded DEF ListInstances
<1>4. CASE ConfirmFailure(g)
  <2> DEFINE x == IF OwnerAlive(me.before, LiveMembers)
                  THEN Holding(g, "view", me.before)
                  ELSE [me EXCEPT !.pc = "choose"]
  <2>1. /\ x.route = me.route
        /\ x.before = me.before
        /\ x.after \in {me.after, NoOwner}
    BY <1>0, FenceHolding DEF WorkState
  <2>2. work' = [work EXCEPT ![g] = x]
    BY <1>4 DEF ConfirmFailure
  <2> HIDE DEF x
  <2> QED
    BY <1>0, <1>4, <2>1, <2>2, FenceReading, FenceEnded DEF ConfirmFailure
<1>5. CASE ReadIdentity(g)
  <2> DEFINE id == identity[SandboxOf[me.route]]
             x == IF id.generation = me.route
                  THEN [me EXCEPT !.pc = "choose", !.base = id.epoch]
                  ELSE Holding(g, "view", NoOwner)
  <2>1. /\ x.route = me.route
        /\ x.before \in {me.before, NoOwner}
        /\ x.after \in {me.after, NoOwner}
    BY <1>0, FenceHolding DEF WorkState
  <2>2. work' = [work EXCEPT ![g] = x]
    BY <1>5 DEF ReadIdentity
  <2> HIDE DEF x
  <2> QED
    BY <1>0, <1>5, <2>1, <2>2, FenceReading, FenceEnded DEF ReadIdentity
<1>6. CASE RemoveOwner(g)
  <2> DEFINE x == [me EXCEPT !.pc = "source", !.after = NoOwner]
  <2>1. x.route = me.route /\ x.before = me.before /\ x.after = NoOwner
    BY <1>0 DEF WorkState
  <2>2. work' = [work EXCEPT ![g] = x]
    BY <1>6 DEF RemoveOwner
  <2> HIDE DEF x
  <2> QED
    BY <1>0, <1>6, <2>1, <2>2, FenceReading, FenceEnded DEF RemoveOwner
<1>7. CASE LeaveOwner(g)
  <2> DEFINE x == Holding(g, "view", me.before)
  <2>1. x.route = me.route /\ x.before = me.before /\ x.after = NoOwner
    BY FenceHolding
  <2>2. work' = [work EXCEPT ![g] = x]
    BY <1>7 DEF LeaveOwner
  <2> HIDE DEF x
  <2> QED
    BY <1>0, <1>7, <2>1, <2>2, FenceReading, FenceEnded DEF LeaveOwner
<1> QED
  BY <1>1, <1>2, <1>3, <1>4, <1>5, <1>6, <1>7

\* An owner change up to its write, and the steps of a launch.
LEMMA FenceChangeReads ==
    ASSUME TypeInv, TypeInv', FenceInv, NEW w \in Worker,
           \/ \E m \in Member : ChooseTarget(w, m)
           \/ NoTarget(w) \/ ReadTarget(w) \/ ReadSource(w)
           \/ WriteConflicts(w) \/ Fail(w)
    PROVE  FenceInv'
<1> DEFINE me == work[w]
<1>0. me \in WorkState
  BY DEF TypeInv, TypeOK
<1> USE DEF sandboxes, history
<1>1. ASSUME NEW m \in Member, ChooseTarget(w, m) PROVE FenceInv'
  <2> DEFINE x == [me EXCEPT !.pc = "target", !.after = Offer(w, m)]
  <2>1. x.route = me.route /\ x.before = me.before /\ x.after.id = 0
    BY <1>0 DEF WorkState, Offer
  <2>2. work' = [work EXCEPT ![w] = x]
    BY <1>1 DEF ChooseTarget
  <2> HIDE DEF x
  <2> QED
    BY <1>1, <2>1, <2>2, FenceReading DEF ChooseTarget
<1>2. CASE NoTarget(w)
  <2> DEFINE x == IF w \in Launch THEN [me EXCEPT !.pc = "giveup"]
                  ELSE Holding(w, "view", me.before)
  <2>1. /\ x.route = me.route
        /\ x.before = me.before
        /\ x.after \in {me.after, NoOwner}
    BY <1>0, FenceHolding DEF WorkState
  <2>2. work' = [work EXCEPT ![w] = x]
    BY <1>2 DEF NoTarget
  <2> HIDE DEF x
  <2> QED
    BY <1>2, <2>1, <2>2, FenceReading, FenceEnded DEF NoTarget
<1>3. CASE ReadTarget(w)
  <2> DEFINE m == me.after.member
             row == capacity[m]
             x == IF HasRoomFor(row, me.route)
                  THEN [me EXCEPT !.pc = "source", !.target = row]
                  ELSE IF me.before.phase = "granting"
                  THEN Holding(w, "view", me.before)
                  ELSE [me EXCEPT !.pc = "choose", !.tried = me.tried \cup {m}]
  <2>1. /\ x.route = me.route
        /\ x.before = me.before
        /\ x.after \in {me.after, NoOwner}
    BY <1>0, FenceHolding DEF WorkState
  <2>2. work' = [work EXCEPT ![w] = x]
    BY <1>3 DEF ReadTarget
  <2> HIDE DEF x
  <2>3. UNCHANGED <<owner, identity, lastId, intents, minted>>
    BY <1>3 DEF ReadTarget
  <2> QED
    BY <2>1, <2>2, <2>3, FenceReading, FenceEnded
<1>4. CASE ReadSource(w)
  <2> DEFINE row == IF Leaves(w) THEN capacity[me.before.member]
                    ELSE NoCapacity
             x == [me EXCEPT !.pc = "write", !.source = row]
  <2>1. x.route = me.route /\ x.before = me.before /\ x.after = me.after
    BY <1>0 DEF WorkState
  <2>2. work' = [work EXCEPT ![w] = x]
    BY <1>4 DEF ReadSource
  <2> HIDE DEF x
  <2> QED
    BY <1>4, <2>1, <2>2, FenceReading DEF ReadSource
<1>5. CASE WriteConflicts(w)
  <2> DEFINE r == me.route
             ownerChanged == owner[r].version # me.before.version
             instanceChanged == Admits(w) /\ instance[r] # me.admitting
             x == IF w \in Launch /\ (ownerChanged \/ instanceChanged)
                  THEN Ended(w)
                  ELSE IF ownerChanged
                  THEN Holding(w, "view", owner[r])
                  ELSE [me EXCEPT !.pc = IF me.after.phase = "none"
                                         THEN "source" ELSE "target"]
  <2>1. \/ x.before = NoOwner /\ x.after = NoOwner
        \/ /\ x.route = r
           /\ x.before \in {me.before, owner[r]}
           /\ x.after \in {me.after, NoOwner}
    BY <1>0, FenceHolding, FenceEnded DEF WorkState
  <2>2. work' = [work EXCEPT ![w] = x] /\ r \in Route
    BY <1>5 DEF WriteConflicts, TypeInv, WorkOK
  <2> HIDE DEF x
  <2>3. UNCHANGED <<owner, identity, lastId, intents, minted>>
    BY <1>5 DEF WriteConflicts
  <2>4. CASE x.before = NoOwner /\ x.after = NoOwner
    BY <2>2, <2>3, <2>4, FenceReading, FenceEnded
  <2>5. CASE /\ x.route = r
             /\ x.before \in {me.before, owner[r]}
             /\ x.after \in {me.after, NoOwner}
    <3>1. \/ x.after.id = 0
          \/ x.route = me.route /\ x.after = me.after
      BY <2>5, FenceEnded
    <3>2. \/ x.route = me.route /\ x.before = me.before
          \/ /\ x.route = me.route
             /\ x.route \in Route
             /\ x.before = owner[x.route]
      BY <2>2, <2>5
    <3> QED
      BY <2>2, <2>3, <3>1, <3>2, FenceReading
  <2> QED
    BY <2>1, <2>4, <2>5
<1>6. CASE Fail(w)
  BY <1>6, FenceReading, FenceEnded DEF Fail
<1> QED
  BY <1>1, <1>2, <1>3, <1>4, <1>5, <1>6

\* The steps of a launch keep the fence.
LEMMA FencePlaceLaunch ==
    ASSUME TypeInv, TypeInv', FenceInv, NEW l \in Launch, PlaceLaunch(l)
    PROVE  FenceInv'
<1> DEFINE me == work[l]
<1>0. l \in Worker /\ me \in WorkState
  BY DEF Worker, TypeInv, TypeOK
<1> USE DEF sandboxes, history
<1>1. ASSUME NEW r \in Route, ListTargets(l, r) PROVE FenceInv'
  <2> DEFINE x == [NoWork EXCEPT !.pc = "record", !.route = r,
                                 !.seen = LiveMembers, !.base = launchEpoch[r]]
  <2>1. x.before = NoOwner /\ x.after = NoOwner
    BY DEF NoWork
  <2>2. work' = [work EXCEPT ![l] = x]
    BY <1>1 DEF ListTargets
  <2> HIDE DEF x
  <2> QED
    BY <1>0, <1>1, <2>1, <2>2, FenceReading, FenceEnded DEF ListTargets
<1>2. CASE RecordAdmitting(l)
  <2> DEFINE new == instance[me.route] = NoInstance
             row == IF new THEN [phase |-> "admitting", writer |-> l]
                    ELSE instance[me.route]
             x == [me EXCEPT !.pc = "choose", !.admitting = row,
                             !.created = new]
  <2>1. x.route = me.route /\ x.before = me.before /\ x.after = me.after
    <3> HIDE DEF row, new
    <3> QED
      BY <1>0 DEF WorkState
  <2>2. work' = [work EXCEPT ![l] = x]
    BY <1>2 DEF RecordAdmitting
  <2> HIDE DEF x
  <2>3. UNCHANGED <<owner, identity, lastId, intents, minted>>
    BY <1>2 DEF RecordAdmitting
  <2> QED
    BY <1>0, <2>1, <2>2, <2>3, FenceReading
<1>3. CASE GiveUpAdmission(l)
  BY <1>0, <1>3, FenceReading, FenceEnded DEF GiveUpAdmission
<1> QED
  BY <1>1, <1>2, <1>3 DEF PlaceLaunch

\* The step that moves a sandbox's credentials to an intent's term, or
\* cancels the intent.
LEMMA FenceCompleteTakeover ==
    ASSUME TypeInv, TypeInv', FenceInv, NEW g \in Replica, CompleteTakeover(g)
    PROVE  FenceInv'
<1> DEFINE me == work[g]
           r == me.route
           s == SandboxOf[r]
           intent == me.before
           granted == [intent EXCEPT !.phase = "granted"]
<1>0. /\ g \in Worker
      /\ me \in WorkState
      /\ r \in Route
      /\ s \in Sandbox
      /\ intent \in OwnerRow
      /\ intent.phase = "granting"
      /\ identity \in [Sandbox -> Identity]
      /\ identity[s] \in Identity
  BY PoolAssumption
     DEF CompleteTakeover, Worker, TypeInv, TypeOK, WorkOK, WorkState
<1>1. UNCHANGED <<owner, lastId, intents, minted>>
  BY DEF CompleteTakeover, history
<1>2. /\ intent.id # 0
      /\ IntentOf(intent, r) \in intents
      /\ WorkFenced(me, identity, intents)
  BY <1>0 DEF FenceInv, WorkFenced, RecordOK
<1>3. CASE Refused(identity[s], r, intent)
  <2> DEFINE x == [me EXCEPT !.pc = "source", !.after = NoOwner]
  <2>1. x.route = r /\ x.before = intent /\ x.after = NoOwner
    BY <1>0 DEF WorkState
  <2>2. work' = [work EXCEPT ![g] = x] /\ UNCHANGED identity
    BY <1>3 DEF CompleteTakeover
  <2> HIDE DEF x
  <2> QED
    BY <1>0, <1>1, <2>1, <2>2, FenceReading, FenceEnded
<1>4. CASE ~Refused(identity[s], r, intent)
  <2> DEFINE x == [me EXCEPT !.pc = "target", !.after = granted]
             id == [identity[s] EXCEPT !.epoch = intent.epoch,
                                       !.lineage = intent.id,
                                       !.rotated = FALSE]
  <2>1. /\ x.route = r
        /\ x.before = intent
        /\ x.after = granted
        /\ work' = [work EXCEPT ![g] = x]
    BY <1>0, <1>4 DEF CompleteTakeover, WorkState
  <2>2. /\ granted.id = intent.id
        /\ granted.epoch = intent.epoch
        /\ granted.member = intent.member
        /\ granted.process = intent.process
    BY <1>0 DEF OwnerRow
  <2>3. /\ identity[s].generation = r
        /\ identity[s].epoch <= intent.epoch
        /\ identity[s].epoch = intent.epoch => identity[s].lineage = intent.id
    BY <1>0, <1>4 DEF Refused, OwnerRow, Identity
  <2>4. /\ id.epoch = intent.epoch
        /\ id.lineage = intent.id
        /\ id.generation = r
    BY <1>0, <2>3 DEF Identity
  <2>5. identity' = IF identity[s].epoch = intent.epoch THEN identity
                    ELSE [identity EXCEPT ![s] = id]
    BY <1>4 DEF CompleteTakeover
  <2> HIDE DEF x, id
  <2>6. /\ identity'[s].epoch = intent.epoch
        /\ identity'[s].lineage = intent.id
        /\ identity'[s].generation = r
        /\ Follows(identity[s], identity'[s])
        /\ \A t \in Sandbox \ {s} : identity'[t] = identity[t]
    BY <1>0, <2>3, <2>4, <2>5 DEF Follows, Identity, OwnerRow
  <2>7. RowsFollow(identity, identity')
    BY <2>6 DEF RowsFollow, Follows
  <2>8. \A t \in Sandbox : \/ identity'[t].lineage = identity[t].lineage
                              /\ Follows(identity'[t], identity[t])
                           \/ LineageOK(t, identity'[t], intents')
    <3>1. LineageOK(s, identity'[s], intents')
      BY <1>1, <1>2, <2>6 DEF LineageOK, IntentOf
    <3> QED
      BY <2>6, <3>1 DEF Follows
  <2>9. WorkFenced(x, identity', intents')
    <3>1. RecordOK(intent, r, identity', intents')
      BY <1>0, <1>1, <1>2 DEF RecordOK
    <3>2. RecordOK(granted, r, identity', intents')
      <4>1. IntentOf(granted, r) = IntentOf(intent, r)
        BY <2>2 DEF IntentOf
      <4> QED
        BY <1>1, <1>2, <2>2, <2>6, <4>1 DEF RecordOK, Fenced
    <3> QED
      BY <1>0, <1>2, <2>1, <3>1, <3>2 DEF WorkFenced
  <2>10. \A w \in Worker :
            work'[w] = work[w] \/ WorkFenced(work'[w], identity', intents')
    BY <1>0, <2>1, <2>9 DEF TypeInv, TypeOK
  <2> QED
    BY <1>1, <2>7, <2>8, <2>10, FenceStep, FenceUnchanged
<1> QED
  BY <1>3, <1>4

\* The step that mints: the record is granted, so the sandbox row, at the
\* same epoch, has the record's lineage.
LEMMA FenceView ==
    ASSUME TypeInv, TypeInv', FenceInv, NEW g \in Replica, View(g)
    PROVE  FenceInv'
<1> DEFINE me == work[g]
           r == me.route
           s == SandboxOf[r]
           record == me.before
           c == [route |-> r, epoch |-> record.epoch,
                 instance |-> record.id, lineage |-> identity[s].lineage,
                 member |-> record.member, process |-> record.process]
           serves == /\ record.phase = "granted"
                     /\ record.id # 0
                     /\ identity[s].generation = r
                     /\ identity[s].epoch = record.epoch
<1>0. /\ g \in Worker
      /\ me \in WorkState
      /\ r \in Route
      /\ s \in Sandbox
      /\ record \in OwnerRow
      /\ identity[s] \in Identity
      /\ minted \subseteq Credential
  BY PoolAssumption DEF View, Worker, TypeInv, TypeOK, WorkOK, WorkState
<1>1. /\ UNCHANGED <<owner, identity, lastId, intents>>
      /\ work' = [work EXCEPT ![g] = NoWork]
      /\ minted' = IF serves THEN minted \cup {c} ELSE minted
  BY DEF View, sandboxes
<1>2. RecordOK(record, r, identity, intents)
  BY DEF FenceInv, WorkFenced, Worker
<1>3. serves => CredentialOK(c, identity, intents)
  <2> SUFFICES ASSUME serves PROVE CredentialOK(c, identity, intents)
    OBVIOUS
  <2>1. Fenced(record.epoch, record.id, r, identity[s])
    BY <1>2 DEF RecordOK
  <2>2. record.id = identity[s].lineage
    BY <1>0, <2>1 DEF Fenced, Identity, OwnerRow
  <2> QED
    BY <1>2, <2>1, <2>2 DEF CredentialOK, RecordOK, IntentOf
<1>4. ASSUME serves, NEW d \in minted, SandboxOf[d.route] = s,
             d.epoch = record.epoch
      PROVE  c = d
  <2>1. CredentialOK(c, identity, intents) /\ CredentialOK(d, identity, intents)
    BY <1>3, <1>4 DEF FenceInv
  <2>2. d \in Credential
    BY <1>0, <1>4
  <2>3. d.instance = identity[s].lineage /\ d.lineage = d.instance
    BY <1>0, <1>4, <2>1, <2>2
       DEF CredentialOK, Fenced, Credential, Identity
  <2>4. record.id = identity[s].lineage
    BY <1>3, <1>4 DEF CredentialOK
  <2>5. /\ d.route = r
        /\ d.member = record.member
        /\ d.process = record.process
    BY <2>1, <2>3, <2>4 DEF CredentialOK, FenceInv, IntentsOK
  <2> QED
    BY <1>4, <2>2, <2>3, <2>4, <2>5 DEF Credential
<1>5. OneHolderPerTerm'
  <2> SUFFICES ASSUME NEW a \in minted', NEW b \in minted',
                      SandboxOf[a.route] = SandboxOf[b.route],
                      a.epoch = b.epoch
               PROVE  a = b /\ a.instance = a.lineage
    BY DEF OneHolderPerTerm
  <2>1. a.instance = a.lineage
    BY <1>1, <1>3 DEF CredentialOK, FenceInv
  <2>2. a = b
    <3>1. CASE a \in minted /\ b \in minted
      BY <3>1 DEF FenceInv, OneHolderPerTerm
    <3>2. CASE serves /\ a = c /\ b \in minted
      BY <1>4, <3>2
    <3>3. CASE serves /\ b = c /\ a \in minted
      BY <1>4, <3>3
    <3> QED
      BY <1>1, <3>1, <3>2, <3>3
  <2> QED
    BY <2>1, <2>2
<1>6. \A d \in minted' : d \in minted \/ CredentialOK(d, identity', intents')
  BY <1>1, <1>3
<1>7. \A w \in Worker :
         work'[w] = work[w] \/ WorkFenced(work'[w], identity', intents')
  <2>1. WorkFenced(NoWork, identity', intents')
    BY FenceEnded DEF WorkFenced, RecordOK
  <2> QED
    BY <1>0, <1>1, <2>1 DEF TypeInv, TypeOK
<1>8. \A t \in Sandbox : identity'[t].lineage = identity[t].lineage
                            /\ Follows(identity'[t], identity[t])
  BY <1>1 DEF Follows
<1> QED
  BY <1>1, <1>5, <1>6, <1>7, <1>8, FenceStep, FenceUnchanged

\* The step that writes: an intent gets a fresh id, a grant copies one.
LEMMA FenceWriteOwner ==
    ASSUME TypeInv, TypeInv', FenceInv, NEW w \in Worker, WriteOwner(w)
    PROVE  FenceInv'
<1> DEFINE me == work[w]
           r == me.route
           written == WrittenOwner(w)
<1>0. /\ me \in WorkState
      /\ r \in Route
      /\ me.after \in OwnerRow
      /\ lastId \in Nat
      /\ intents \subseteq Intent
  BY DEF WriteOwner, TypeInv, TypeOK, WorkOK, WorkState
<1>1. /\ UNCHANGED <<identity, minted>>
      /\ owner' = [owner EXCEPT ![r] = written]
      /\ work' \in {[work EXCEPT ![w] = AfterWrite(w)],
                    [work EXCEPT ![w] = Holding(w, "view", me.before)]}
  BY DEF WriteOwner, sandboxes
<1>2. /\ written.phase = me.after.phase
      /\ written \in OwnerRow
  BY WrittenType DEF WriteOwner
<1>3. /\ intents \subseteq intents'
      /\ IntentsOK(intents', lastId')
      /\ written.phase = "granting" =>
            written.id # 0 /\ IntentOf(written, r) \in intents'
  <2>1. CASE written.phase = "granting"
    <3>1. written.id = lastId + 1
      <4>1. written = [me.after EXCEPT
                         !.version = NextVersion(me.before.version),
                         !.id = lastId + 1]
        BY <1>2, <2>1 DEF WrittenOwner
      <4> QED
        BY <1>0, <4>1 DEF OwnerRow
    <3>2. /\ lastId' = lastId + 1
          /\ intents' = intents \cup {IntentOf(written, r)}
      BY <2>1 DEF WriteOwner, IntentOf
    <3>3. IntentOf(written, r).id = lastId + 1
      BY <3>1 DEF IntentOf
    <3>4. /\ \A i \in intents : i.id \in 1..lastId
          /\ \A i, j \in intents : i.id = j.id => i = j
      BY DEF FenceInv, IntentsOK
    <3> HIDE DEF written
    <3> QED
      BY <1>0, <3>1, <3>2, <3>3, <3>4 DEF IntentsOK
  <2>2. CASE written.phase # "granting"
    BY <2>2, FenceUnchanged DEF WriteOwner
  <2> QED
    BY <2>1, <2>2
<1>4. RecordOK(written, r, identity, intents')
  <2>1. CASE written.phase = "none"
    BY <1>2, <2>1, FenceEnded DEF RecordOK, WrittenOwner
  <2>2. CASE written.phase = "granting"
    BY <1>3, <2>2 DEF RecordOK
  <2>3. CASE written.phase = "granted"
    <3>1. /\ written.id = me.after.id
          /\ written.epoch = me.after.epoch
          /\ written.member = me.after.member
          /\ written.process = me.after.process
      BY <1>0, <1>2, <2>3 DEF WrittenOwner, OwnerRow
    <3>2. RecordOK(me.after, r, identity, intents)
      BY DEF FenceInv, WorkFenced
    <3> QED
      BY <1>2, <1>3, <2>3, <3>1, <3>2 DEF RecordOK, IntentOf
  <2> QED
    BY <1>2, <2>1, <2>2, <2>3 DEF OwnerRow
<1>5. WorkFenced(AfterWrite(w), identity, intents')
  <2>1. CASE w \in Launch
    BY <2>1, FenceEnded DEF AfterWrite, WorkFenced, RecordOK
  <2>2. CASE w \notin Launch
    <3>1. /\ AfterWrite(w).before = written
          /\ AfterWrite(w).after = NoOwner
          /\ AfterWrite(w).route = r
      BY <2>2, FenceHolding DEF AfterWrite
    <3> HIDE DEF written
    <3> QED
      BY <1>0, <1>3, <1>4, <3>1, FenceEnded DEF WorkFenced, RecordOK
  <2> QED
    BY <2>1, <2>2
<1>9. WorkFenced(Holding(w, "view", me.before), identity, intents')
  <2>1. /\ Holding(w, "view", me.before).before = me.before
        /\ Holding(w, "view", me.before).after = NoOwner
        /\ Holding(w, "view", me.before).route = r
    BY FenceHolding
  <2>2. WorkFenced(me, identity, intents)
    BY DEF FenceInv
  <2> QED
    BY <1>0, <1>3, <2>1, <2>2, FenceEnded DEF WorkFenced, RecordOK
<1> HIDE DEF written
<1>6. \A q \in Route :
         \/ owner'[q] = owner[q]
         \/ /\ RecordOK(owner'[q], q, identity', intents')
            /\ owner'[q].phase = "granting" => owner'[q].id # 0
  BY <1>0, <1>1, <1>3, <1>4 DEF TypeInv, TypeOK
<1>7. \A v \in Worker :
         work'[v] = work[v] \/ WorkFenced(work'[v], identity', intents')
  BY <1>1, <1>5, <1>9 DEF TypeInv, TypeOK
<1>8. \A t \in Sandbox : identity'[t].lineage = identity[t].lineage
                            /\ Follows(identity'[t], identity[t])
  BY <1>1 DEF Follows
<1> QED
  BY <1>1, <1>3, <1>6, <1>7, <1>8, FenceStep, FenceUnchanged

\* Every step keeps the fence.
LEMMA FenceNext == TypeInv /\ TypeInv' /\ FenceInv /\ [Next]_vars => FenceInv'
<1> SUFFICES ASSUME TypeInv, TypeInv', FenceInv, [Next]_vars PROVE FenceInv'
  OBVIOUS
<1>1. CASE Environment
  BY <1>1, FenceEnvironment
<1>2. ASSUME NEW w \in Worker, Change(w) \/ Fail(w) PROVE FenceInv'
  BY <1>2, FenceChangeReads, FenceWriteOwner DEF Change
<1>3. ASSUME NEW g \in Replica, Reconcile(g) PROVE FenceInv'
  BY <1>3, FencePassReads, FenceCompleteTakeover, FenceView DEF Reconcile
<1>4. ASSUME NEW l \in Launch, PlaceLaunch(l) PROVE FenceInv'
  BY <1>4, FencePlaceLaunch
<1>5. CASE UNCHANGED vars
  BY <1>5 DEF vars, FenceInv, OneHolderPerTerm
<1> QED
  BY <1>1, <1>2, <1>3, <1>4, <1>5 DEF Next

\* However passes, cancellations, crashes and re-created owner records
\* interleave, complete_takeover and mint_takeover never give the
\* credentials of one term to two holders.
THEOREM OneHolder == Spec => []OneHolderPerTerm
<1>1. Spec => [](TypeInv /\ FenceInv)
  BY TypeInit, TypeNext, FenceInit, FenceNext, PTL DEF Spec
<1>2. FenceInv => OneHolderPerTerm
  BY DEF FenceInv
<1> QED
  BY <1>1, <1>2, PTL

-----------------------------------------------------------------------------
(* Refinement: the pool implements FencedTerms.  Ownership, capacity and   *)
(* instance records disappear; an intent becomes visible only when the     *)
(* sandbox's credentials move to its term.                                 *)

\* A step that leaves sandbox rows' terms and the credentials alone is a
\* stutter, also if it records an intent: that has a fresh id.
LEMMA RefineStutter ==
    ASSUME TypeInv, FenceInv, FenceInv',
           \A s \in Sandbox : /\ identity'[s].epoch = identity[s].epoch
                              /\ identity'[s].lineage = identity[s].lineage,
           intents \subseteq intents', UNCHANGED minted
    PROVE  UNCHANGED Terms!fencedVars
<1>1. ASSUME NEW s \in Sandbox PROVE TermHolder(s)' = TermHolder(s)
  <2>1. ASSUME NEW j \in intents', j.id = identity[s].lineage
        PROVE  j \in intents
    <3>1. j.id # 0
      BY <2>1 DEF FenceInv, IntentsOK
    <3>2. PICK i \in intents : i.id = identity[s].lineage
      BY <2>1, <3>1 DEF FenceInv, LineageOK
    <3> QED
      BY <2>1, <3>2 DEF FenceInv, IntentsOK
  <2>2. {j \in intents' : j.id = identity'[s].lineage} =
          {j \in intents : j.id = identity[s].lineage}
    BY <2>1
  <2> QED
    BY <2>2 DEF TermHolder
<1>2. [s \in Sandbox |-> TermHolder(s)]' = [s \in Sandbox |-> TermHolder(s)]
  BY <1>1
<1>3. [s \in Sandbox |-> identity[s].epoch]' =
        [s \in Sandbox |-> identity[s].epoch]
  OBVIOUS
<1> QED
  BY <1>2, <1>3 DEF Terms!fencedVars

\* A step that gives one sandbox a later epoch starts a term.
LEMMA RefineAdvance ==
    ASSUME TypeInv, FenceInv, FenceInv', NEW s \in Sandbox,
           identity'[s].epoch > identity[s].epoch,
           \A t \in Sandbox \ {s} : identity'[t] = identity[t],
           UNCHANGED <<intents, minted>>
    PROVE  Terms!Next
<1>1. \A h, k \in TermHolder(s)' : h = k
  BY DEF TermHolder, FenceInv, IntentsOK
<1>2. \A t \in Sandbox \ {s} : TermHolder(t)' = TermHolder(t)
  BY DEF TermHolder
<1>3. Terms!Advance(s)
  BY <1>1, <1>2 DEF Terms!Advance
<1> QED
  BY <1>3 DEF Terms!Next

\* Every step is one of FencedTerms, or stutters.
LEMMA RefineNext ==
    ASSUME TypeInv, FenceInv, FenceInv', [Next]_vars
    PROVE  [Terms!Next]_Terms!fencedVars
<1> DEFINE Quiet == /\ \A s \in Sandbox :
                         /\ identity'[s].epoch = identity[s].epoch
                         /\ identity'[s].lineage = identity[s].lineage
                    /\ intents \subseteq intents'
                    /\ UNCHANGED minted
<1>0. identity \in [Sandbox -> Identity]
  BY DEF TypeInv, TypeOK
<1>1. CASE Quiet
  BY <1>1, RefineStutter
<1>2. ASSUME NEW s \in Sandbox, NEW r \in Route, StartGeneration(s, r)
      PROVE  Terms!Next
  <2>1. /\ identity'[s].epoch = identity[s].epoch + 1
        /\ \A t \in Sandbox \ {s} : identity'[t] = identity[t]
        /\ UNCHANGED <<intents, minted>>
    BY <1>0, <1>2 DEF StartGeneration, history
  <2>2. identity[s].epoch \in Nat
    BY <1>0 DEF Identity
  <2> QED
    BY <2>1, <2>2, RefineAdvance
<1>3. ASSUME NEW g \in Replica, CompleteTakeover(g)
      PROVE  Quiet \/ Terms!Next
  <2> DEFINE me == work[g]
             s == SandboxOf[me.route]
             intent == me.before
  <2>1. /\ s \in Sandbox
        /\ identity[s].epoch \in Nat
        /\ intent.epoch \in Nat
        /\ UNCHANGED <<intents, minted>>
    BY <1>0, <1>3, PoolAssumption
       DEF CompleteTakeover, Worker, TypeInv, TypeOK, WorkOK, WorkState,
           OwnerRow, Identity, history
  <2>2. CASE identity' = identity
    BY <2>1, <2>2
  <2>3. CASE identity' # identity
    <3>1. /\ ~Refused(identity[s], me.route, intent)
          /\ identity[s].epoch # intent.epoch
          /\ identity' = [identity EXCEPT ![s] =
                            [@ EXCEPT !.epoch = intent.epoch,
                                      !.lineage = intent.id,
                                      !.rotated = FALSE]]
      BY <1>3, <2>3 DEF CompleteTakeover
    <3>2. identity[s].epoch < intent.epoch
      BY <2>1, <3>1 DEF Refused
    <3>3. /\ identity'[s].epoch = intent.epoch
          /\ \A t \in Sandbox \ {s} : identity'[t] = identity[t]
      BY <1>0, <2>1, <3>1 DEF Identity
    <3>4. identity'[s].epoch > identity[s].epoch
      BY <2>1, <3>2, <3>3
    <3> HIDE DEF s
    <3> QED
      BY <2>1, <3>3, <3>4, RefineAdvance
  <2> QED
    BY <2>2, <2>3
<1>4. ASSUME NEW g \in Replica, View(g)
      PROVE  Quiet \/ Terms!Next
  <2> DEFINE me == work[g]
             r == me.route
             s == SandboxOf[r]
             record == me.before
             c == [route |-> r, epoch |-> record.epoch,
                   instance |-> record.id, lineage |-> identity[s].lineage,
                   member |-> record.member, process |-> record.process]
             h == [id |-> record.id, route |-> r, member |-> record.member,
                   process |-> record.process]
  <2>1. /\ r \in Route
        /\ s \in Sandbox
        /\ identity[s] \in Identity
        /\ record \in OwnerRow
        /\ UNCHANGED <<identity, intents>>
    BY <1>0, <1>4, PoolAssumption
       DEF View, Worker, TypeInv, TypeOK, WorkOK, WorkState, sandboxes
  <2>2. CASE minted' = minted
    BY <2>1, <2>2
  <2>3. CASE minted' # minted
    <3>1. /\ minted' = minted \cup {c}
          /\ record.phase = "granted"
          /\ record.id # 0
          /\ identity[s].epoch = record.epoch
      BY <1>4, <2>3 DEF View
    <3>2. RecordOK(record, r, identity, intents)
      BY DEF FenceInv, WorkFenced, Worker
    <3>3. record.id = identity[s].lineage
      BY <2>1, <3>1, <3>2 DEF RecordOK, Fenced, Identity, OwnerRow
    <3>4. h \in TermHolder(s)
      BY <3>1, <3>2, <3>3 DEF TermHolder, HolderOf, RecordOK, IntentOf
    <3>5. UNCHANGED <<[t \in Sandbox |-> identity[t].epoch],
                      [t \in Sandbox |-> TermHolder(t)]>>
      BY <2>1 DEF TermHolder
    <3> DEFINE Credentials(all) ==
                 {[sandbox |-> SandboxOf[d.route], epoch |-> d.epoch,
                   holder |-> [id |-> d.instance, route |-> d.route,
                               member |-> d.member, process |-> d.process]] :
                  d \in all}
    <3>6. Credentials(minted') =
            Credentials(minted) \cup
              {[sandbox |-> s, epoch |-> identity[s].epoch, holder |-> h]}
      <4>1. Credentials({c}) =
              {[sandbox |-> s, epoch |-> identity[s].epoch, holder |-> h]}
        BY <3>1
      <4>2. Credentials(minted \cup {c}) =
              Credentials(minted) \cup Credentials({c})
        OBVIOUS
      <4> QED
        BY <3>1, <4>1, <4>2
    <3>7. PICK t \in Sandbox : t = s
      BY <2>1
    <3>8. Terms!Issue(t)
      BY <2>1, <3>4, <3>5, <3>6, <3>7 DEF Terms!Issue
    <3> QED
      BY <3>8 DEF Terms!Next
  <2> QED
    BY <2>2, <2>3
<1>5. ASSUME NEW w \in Worker, Change(w) \/ Fail(w) PROVE Quiet
  <2>1. UNCHANGED <<identity, minted>>
    BY <1>5 DEF Change, ChooseTarget, NoTarget, ReadTarget, ReadSource,
                WriteOwner, WriteConflicts, Fail, sandboxes, history
  <2>2. intents \subseteq intents'
    BY <1>5 DEF Change, ChooseTarget, NoTarget, ReadTarget, ReadSource,
                WriteOwner, WriteConflicts, Fail, history
  <2> QED
    BY <2>1, <2>2
<1>6. ASSUME NEW l \in Launch, PlaceLaunch(l) PROVE Quiet
  BY <1>6 DEF PlaceLaunch, ListTargets, RecordAdmitting, GiveUpAdmission,
              sandboxes, history
<1>7. ASSUME NEW g \in Replica, Reconcile(g) PROVE Quiet \/ Terms!Next
  <2>1. CASE \/ \E r \in Route : ListMembers(g, r)
             \/ ListOwners(g) \/ ListInstances(g) \/ ConfirmFailure(g)
             \/ LeaveOwner(g) \/ ReadIdentity(g) \/ RemoveOwner(g)
    BY <2>1 DEF ListMembers, ListOwners, ListInstances, ConfirmFailure,
                LeaveOwner, ReadIdentity, RemoveOwner, sandboxes, history
  <2> HIDE DEF Quiet
  <2> QED
    BY <1>3, <1>4, <1>7, <2>1 DEF Reconcile
<1>8. ASSUME Environment PROVE Quiet \/ Terms!Next
  <2>1. ASSUME NEW t \in Sandbox,
               Quiesce(t) \/ RunAgain(t) \/ EndGeneration(t) \/ RotateToken(t)
        PROVE  Quiet
    BY <1>0, <2>1 DEF Quiesce, RunAgain, EndGeneration, RotateToken, history,
                      Identity
  <2>2. CASE /\ ~\E s \in Sandbox, r \in Route : StartGeneration(s, r)
             /\ ~\E t \in Sandbox : Quiesce(t) \/ RunAgain(t)
                                       \/ EndGeneration(t) \/ RotateToken(t)
    BY <1>8, <2>2
       DEF Environment, RestartMember, ExpireMember, WriteMember,
           RecordPublished, Fence, Withdraw, RemoveWithdrawn,
           ForgetWithdrawal, sandboxes, history
  <2> HIDE DEF Quiet
  <2> QED
    BY <1>2, <2>1, <2>2
<1>9. CASE UNCHANGED vars
  BY <1>9, <1>1 DEF vars
<1> HIDE DEF Quiet
<1> QED
  BY <1>1, <1>5, <1>6, <1>7, <1>8, <1>9 DEF Next

\* The initial states are those of FencedTerms.
LEMMA RefineInit == Init => Terms!Init
<1> SUFFICES ASSUME Init PROVE Terms!Init
  OBVIOUS
<1>1. \A s \in Sandbox : identity[s].epoch = 0 /\ TermHolder(s) = {}
  BY DEF Init, TermHolder
<1> QED
  BY <1>1 DEF Init, Terms!Init

\* The pool keeps the promise of FencedTerms: every step of members,
\* sandboxes, launches and replicas starts a later term for at most one
\* holder, issues credentials to the holder of the term in force, or leaves
\* terms and credentials alone.
THEOREM PoolImplementsFencedTerms == Spec => ImplementsFencedTerms
<1>1. Spec => [](TypeInv /\ FenceInv)
  BY TypeInit, TypeNext, FenceInit, FenceNext, PTL DEF Spec
<1>2. TypeInv /\ FenceInv /\ FenceInv' /\ [Next]_vars
        => [Terms!Next]_Terms!fencedVars
  BY RefineNext
<1> QED
  BY <1>1, <1>2, RefineInit, PTL DEF Spec, ImplementsFencedTerms, Terms!Spec

-----------------------------------------------------------------------------
(***************************************************************************)
(* Ownership: who is charged for a route, which term is granted, and        *)
(* whether its instance is published.  Each follows from what compare-and-  *)
(* swap guarantees as long as no owner record of the route was removed, and *)
(* with it its versions started over: a copy at the version of the record   *)
(* is the record, so what was read along with it still stands.  removed     *)
(* marks the routes for which that is no longer so.                         *)
(***************************************************************************)

\* A worker under way.
Busy(x) == x.pc \notin {"idle", "done"}

\* The owner record a worker read is the one in force, or an earlier one.
CopyOK(x, row) ==
    /\ x.before.version <= row.version
    /\ x.before.epoch <= row.epoch
    /\ x.before.version = row.version => x.before = row

\* A copy of a capacity row, which is never removed.
CapacityCopy(copy, row) ==
    /\ copy.version <= row.version
    /\ copy.version = row.version => copy = row

\* The target has room; while the owner record is the one read, the route is
\* charged to the target only if that is its member already.
TargetOK(x, row, intact, rows) ==
    x.pc \in {"source", "write"} /\ x.after.phase # "none" =>
        /\ HasRoomFor(x.target, x.route)
        /\ CapacityCopy(x.target, rows[x.after.member])
        /\ intact /\ x.before.version = row.version =>
              (x.route \in x.target.routes <=> x.before.member = x.after.member)

\* While the owner record is the one read, its member is charged.
SourceOK(x, row, intact, rows) ==
    x.pc = "write" /\ x.before.member \notin {NoMember, x.after.member} =>
        /\ CapacityCopy(x.source, rows[x.before.member])
        /\ intact /\ x.before.version = row.version => x.route \in x.source.routes

\* A launch creates the owner record, for the launch term.
LaunchTerm(x, start) ==
    /\ x.before = NoOwner
    /\ x.base = start
    /\ x.after.phase # "granting"
    /\ x.after.phase = "granted" => x.after.epoch = x.base /\ x.after.id = 0

\* A pass grants the intent it read, and offers the term after the one it
\* read or, to a route that never had an owner, after the launch's.
PassTerm(x, row, intact, start) ==
    /\ x.after.phase = "granted" =>
          /\ x.before.phase = "granting"
          /\ x.after.epoch = x.before.epoch /\ x.after.id = x.before.id
          /\ x.after.member = x.before.member
    /\ x.pc \in {"owner", "instance", "identity", "confirm", "advance", "view",
                "remove"} => x.after.phase = "none"
    /\ x.pc = "identity" => x.before.phase = "none"
    /\ x.pc = "confirm" => x.before.phase = "granted"
    /\ x.after.phase = "granting" => x.after.epoch = x.base + 1
    /\ x.after.phase = "granting" \/ x.pc \in {"confirm", "choose"} =>
          /\ x.after.phase # "granted" /\ x.before.phase # "granting"
          /\ x.before.phase = "granted" => x.base = x.before.epoch
          /\ x.before.phase = "none" /\ intact /\ row.version = 0 => x.base = start

\* Where nothing is withdrawn: a pass changes the owner of a published
\* instance, and a launch admits its instance unless that is published.
InstanceOK(w, x, record) ==
    /\ x.created => x.admitting.phase = "admitting"
    /\ MayWithdraw = {} =>
          /\ /\ w \in Replica
             /\ \/ x.pc \in {"identity", "confirm", "choose", "advance"}
                \/ x.after.phase # "none"
             => record = Published
          /\ w \in Launch /\ x.pc \in {"choose", "target", "source", "write"} =>
                x.admitting.phase = "admitting" \/ record = Published

WorkOwns(w, x, rows, caps, gone, start, records) ==
    Busy(x) =>
        LET row == rows[x.route]
            intact == x.route \notin gone
        IN  /\ start[x.route] # 0
            /\ intact => CopyOK(x, row)
            /\ TargetOK(x, row, intact, caps)
            /\ SourceOK(x, row, intact, caps)
            /\ w \in Launch => LaunchTerm(x, start[x.route])
            /\ w \in Replica => PassTerm(x, row, intact, start[x.route])
            /\ InstanceOK(w, x, records[x.route])

\* The sandbox's term and that of the owner record of its generation.
RowOK(r, row, id, intact, start) ==
    /\ row.phase = "none" => row = NoOwner
    /\ start = 0 => row.phase = "none" /\ id.generation # r
    /\ intact /\ id.generation = r =>
          /\ row.phase = "none" => id.epoch = start /\ id.lineage = 0
          /\ row.phase # "none" => id.epoch <= row.epoch
          /\ row.phase = "granted" => id.epoch = row.epoch /\ id.lineage = row.id

\* A record that is not being admitted names no launch.
WriterOK(record) ==
    /\ record.phase = "published" => record = Published
    /\ record.phase = "none" => record = NoInstance

PublishedOK ==
    /\ \A r \in Route : WriterOK(instance[r])
    /\ MayWithdraw = {} => \A g \in Replica : withdrawn[g] = {}
    /\ OwnersPublished

RowsOK ==
    \A r \in Route : RowOK(r, owner[r], identity[SandboxOf[r]], r \notin removed,
                           launchEpoch[r])

RoomOK == \A m \in Member : Cardinality(capacity[m].routes) <= MaxAssigned

WorkersOwn ==
    \A w \in Worker :
        WorkOwns(w, work[w], owner, capacity, removed, launchEpoch, instance)

OwnInv == WorkersOwn /\ RowsOK /\ ChargedExactly /\ RoomOK /\ PublishedOK

\* The charges, grants and publications are right initially.
LEMMA OwnInit == Init => OwnInv
<1> SUFFICES ASSUME Init PROVE OwnInv
  OBVIOUS
<1>1. /\ \A w \in Worker : work[w].pc = "idle"
      /\ \A r \in Route : owner[r] = NoOwner /\ instance[r] = NoInstance
                          /\ launchEpoch[r] = 0
      /\ \A m \in Member : capacity[m].routes = {}
      /\ \A g \in Replica : withdrawn[g] = {}
      /\ \A s \in Sandbox : identity[s].generation = NoRoute
  BY DEF Init, NoWork, NoCapacity
<1>2. NoOwner.phase = "none" /\ NoOwner.member = NoMember /\ NoInstance.phase = "none"
  BY DEF NoOwner, NoInstance
<1>3. WorkersOwn
  BY <1>1 DEF WorkersOwn, WorkOwns, Busy
<1>4. RowsOK
  <2>1. \A r \in Route : SandboxOf[r] \in Sandbox /\ NoRoute # r
    BY PoolAssumption
  <2> QED
    BY <1>1, <1>2, <2>1 DEF RowsOK, RowOK
<1>5. ChargedExactly
  BY <1>1, <1>2, PoolAssumption DEF ChargedExactly
<1>6. RoomOK
  <2>1. Cardinality({}) = 0 /\ MaxAssigned \in Nat
    BY FS_EmptySet, PoolAssumption
  <2>2. \A m \in Member : Cardinality(capacity[m].routes) = Cardinality({})
    BY <1>1, Zenon
  <2>3. \A m \in Member : Cardinality(capacity[m].routes) = 0
    BY <2>1, <2>2
  <2> QED
    BY <2>1, <2>3 DEF RoomOK
<1>7. PublishedOK
  BY <1>1, <1>2 DEF PublishedOK, OwnersPublished, WriterOK
<1> QED
  BY <1>3, <1>4, <1>5, <1>6, <1>7 DEF OwnInv

\* A step that writes no owner record and no capacity row.
LEMMA OwnStep ==
    ASSUME TypeInv, OwnInv,
           UNCHANGED <<owner, capacity, removed>>,
           \A r \in Route : launchEpoch[r] # 0 => launchEpoch'[r] = launchEpoch[r],
           MayWithdraw = {} =>
              \A r \in Route : instance[r] = Published => instance'[r] = Published,
           \A w \in Worker :
              \/ work'[w] = work[w]
              \/ WorkOwns(w, work'[w], owner, capacity, removed, launchEpoch', instance'),
           RowsOK',
           \A r \in Route : WriterOK(instance'[r]),
           MayWithdraw = {} => \A g \in Replica : withdrawn'[g] = {}
    PROVE  OwnInv'
<1>1. WorkersOwn'
  <2> SUFFICES ASSUME NEW w \in Worker, work'[w] = work[w]
               PROVE  WorkOwns(w, work[w], owner, capacity, removed, launchEpoch',
                               instance')
    BY DEF WorkersOwn
  <2>1. Busy(work[w]) => work[w].route \in Route
    BY DEF TypeInv, WorkOK, Busy
  <2>2. WorkOwns(w, work[w], owner, capacity, removed, launchEpoch, instance)
    BY DEF OwnInv, WorkersOwn
  <2> QED
    BY <2>1, <2>2 DEF WorkOwns, InstanceOK
<1>2. ChargedExactly' /\ RoomOK'
  BY DEF OwnInv, ChargedExactly, RoomOK
<1>3. PublishedOK'
  BY DEF OwnInv, PublishedOK, OwnersPublished
<1> QED
  BY <1>1, <1>2, <1>3 DEF OwnInv

\* A step in which a worker reads.
LEMMA OwnReads ==
    ASSUME TypeInv, OwnInv, NEW w \in Worker, NEW x,
           work' = [work EXCEPT ![w] = x],
           UNCHANGED <<owner, capacity, instance, identity, launchEpoch, withdrawn,
                       removed>>,
           WorkOwns(w, x, owner, capacity, removed, launchEpoch, instance)
    PROVE  OwnInv'
<1>1. \A v \in Worker :
        \/ work'[v] = work[v]
        \/ WorkOwns(v, work'[v], owner, capacity, removed, launchEpoch', instance')
  BY DEF TypeInv, TypeOK
<1>2. RowsOK'
  BY DEF OwnInv, RowsOK
<1> QED
  BY <1>1, <1>2, OwnStep DEF OwnInv, PublishedOK

\* A worker that ended owes nothing.
LEMMA EndedOwns ==
    ASSUME NEW w, NEW rows, NEW caps, NEW gone, NEW start, NEW records
    PROVE  /\ WorkOwns(w, Ended(w), rows, caps, gone, start, records)
           /\ WorkOwns(w, NoWork, rows, caps, gone, start, records)
<1>1. Ended(w).pc \in {"idle", "done"} /\ NoWork.pc = "idle"
  BY DEF Ended, NoWork
<1> QED
  BY <1>1 DEF WorkOwns, Busy

\* A pass that is left with a record it may serve.
LEMMA HoldingOwns ==
    ASSUME NEW g \in Replica, NEW pc \in {"view", "remove", "advance"},
           NEW record, NEW rows, NEW caps, NEW gone, NEW start, NEW records,
           start[work[g].route] # 0,
           work[g].route \notin gone =>
              /\ record.version <= rows[work[g].route].version
              /\ record.epoch <= rows[work[g].route].epoch
              /\ record.version = rows[work[g].route].version =>
                    record = rows[work[g].route],
           pc = "advance" /\ MayWithdraw = {} => records[work[g].route] = Published
    PROVE  WorkOwns(g, Holding(g, pc, record), rows, caps, gone, start, records)
<1> DEFINE x == Holding(g, pc, record)
<1>1. /\ x.pc = pc /\ x.route = work[g].route /\ x.before = record
      /\ x.after = NoOwner /\ x.created = FALSE
  BY DEF Holding, NoWork
<1>2. NoOwner.phase = "none" /\ g \notin Launch
  BY PoolAssumption DEF NoOwner
<1> HIDE DEF x
<1>3. TargetOK(x, rows[x.route], x.route \notin gone, caps)
  BY <1>1 DEF TargetOK
<1>4. SourceOK(x, rows[x.route], x.route \notin gone, caps)
  BY <1>1 DEF SourceOK
<1>5. PassTerm(x, rows[x.route], x.route \notin gone, start[x.route])
  BY <1>1, <1>2 DEF PassTerm
<1>6. InstanceOK(g, x, records[x.route])
  BY <1>1, <1>2 DEF InstanceOK
<1>7. x.route \notin gone => CopyOK(x, rows[x.route])
  BY <1>1 DEF CopyOK
<1>8. WorkOwns(g, x, rows, caps, gone, start, records)
  BY <1>1, <1>2, <1>3, <1>4, <1>5, <1>6, <1>7 DEF WorkOwns
<1> QED
  BY <1>8 DEF x

\* What is known of a worker under way and of its route.
LEMMA OwnFacts ==
    ASSUME TypeInv, OwnInv, NEW w \in Worker, Busy(work[w])
    PROVE  /\ work[w] \in WorkState /\ work[w].route \in Route
           /\ work[w].before \in OwnerRow /\ work[w].after \in OwnerRow
           /\ owner[work[w].route] \in OwnerRow
           /\ launchEpoch[work[w].route] # 0
           /\ work[w].route \notin removed => CopyOK(work[w], owner[work[w].route])
           /\ TargetOK(work[w], owner[work[w].route], work[w].route \notin removed,
                       capacity)
           /\ SourceOK(work[w], owner[work[w].route], work[w].route \notin removed,
                       capacity)
           /\ w \in Launch => LaunchTerm(work[w], launchEpoch[work[w].route])
           /\ w \in Replica => PassTerm(work[w], owner[work[w].route],
                                        work[w].route \notin removed,
                                        launchEpoch[work[w].route])
           /\ InstanceOK(w, work[w], instance[work[w].route])
<1>1. /\ work[w] \in WorkState /\ work[w].route \in Route
      /\ owner[work[w].route] \in OwnerRow
  BY DEF TypeInv, TypeOK, WorkOK, Busy
<1>2. work[w].before \in OwnerRow /\ work[w].after \in OwnerRow
  BY <1>1 DEF WorkState
<1>3. WorkOwns(w, work[w], owner, capacity, removed, launchEpoch, instance)
  BY DEF OwnInv, WorkersOwn
<1> QED
  BY <1>1, <1>2, <1>3 DEF WorkOwns

\* No record is the earliest of all.
LEMMA NoOwnerFirst ==
    ASSUME TypeInv, OwnInv, NEW r \in Route
    PROVE  /\ NoOwner.version <= owner[r].version
           /\ NoOwner.epoch <= owner[r].epoch
           /\ NoOwner.version = owner[r].version => NoOwner = owner[r]
           /\ NoOwner.phase = "none"
<1>1. /\ owner[r] \in OwnerRow
      /\ owner[r].version = 0 <=> owner[r].phase = "none"
  BY DEF TypeInv, TypeOK
<1>2. owner[r].phase = "none" => owner[r] = NoOwner
  BY DEF OwnInv, RowsOK, RowOK
<1>3. NoOwner.version = 0 /\ NoOwner.epoch = 0 /\ NoOwner.phase = "none"
  BY DEF NoOwner
<1>4. owner[r].version \in Nat /\ owner[r].epoch \in Nat
  BY <1>1 DEF OwnerRow
<1> QED
  BY <1>1, <1>2, <1>3, <1>4

\* A reconciliation pass that reads.
LEMMA OwnPassReads ==
    ASSUME TypeInv, OwnInv, NEW g \in Replica,
           \/ \E r \in Route : ListMembers(g, r)
           \/ ListOwners(g) \/ ListInstances(g) \/ ConfirmFailure(g)
           \/ LeaveOwner(g) \/ ReadIdentity(g) \/ RemoveOwner(g) \/ View(g)
    PROVE  OwnInv'
<1> DEFINE me == work[g]
           r == me.route
           row == owner[r]
           intact == r \notin removed
           Owns(x) == WorkOwns(g, x, owner, capacity, removed, launchEpoch, instance)
<1>0. g \in Worker /\ g \notin Launch
  BY PoolAssumption DEF Worker
<1>a. UNCHANGED <<owner, capacity, instance, identity, launchEpoch, withdrawn, removed>>
  BY DEF ListMembers, ListOwners, ListInstances, ConfirmFailure, LeaveOwner,
         ReadIdentity, RemoveOwner, View, sandboxes, history
<1>b. Busy(me) =>
        /\ me \in WorkState /\ r \in Route /\ me.before \in OwnerRow
        /\ row \in OwnerRow /\ launchEpoch[r] # 0
        /\ intact => CopyOK(me, row)
        /\ PassTerm(me, row, intact, launchEpoch[r])
        /\ InstanceOK(g, me, instance[r])
  BY <1>0, OwnFacts
<1>c. ASSUME Busy(me), NEW pc \in {"view", "remove", "advance"},
             pc = "advance" /\ MayWithdraw = {} => instance[r] = Published
      PROVE  Owns(Holding(g, pc, me.before))
  BY <1>b, <1>c, HoldingOwns DEF CopyOK
<1>1. ASSUME NEW q \in Route, ListMembers(g, q) PROVE OwnInv'
  <2> DEFINE x == [NoWork EXCEPT !.pc = "owner", !.route = q, !.seen = LiveMembers]
  <2>1. /\ x.pc = "owner" /\ x.route = q /\ x.before = NoOwner /\ x.after = NoOwner
        /\ x.created = FALSE
    BY DEF NoWork
  <2>2. work' = [work EXCEPT ![g] = x] /\ launchEpoch[q] # 0
    BY <1>1 DEF ListMembers
  <2> HIDE DEF x
  <2>3. CopyOK(x, owner[q])
    BY <2>1, NoOwnerFirst DEF CopyOK
  <2>4. PassTerm(x, owner[q], q \notin removed, launchEpoch[q])
    BY <2>1, NoOwnerFirst DEF PassTerm
  <2>5. Owns(x)
    BY <1>0, <2>1, <2>2, <2>3, <2>4, NoOwnerFirst
       DEF WorkOwns, TargetOK, SourceOK, InstanceOK
  <2> QED
    BY <1>0, <1>a, <2>2, <2>5, OwnReads
<1>2. CASE ListOwners(g)
  <2> DEFINE x == [me EXCEPT !.pc = "instance", !.before = row]
  <2>1. Busy(me) /\ me.pc = "owner"
    BY <1>2 DEF ListOwners, Busy
  <2>2. /\ x.pc = "instance" /\ x.route = r /\ x.before = row /\ x.after = me.after
        /\ x.created = me.created /\ x.admitting = me.admitting
    <3>1. me \in WorkState
      BY <1>b, <2>1
    <3> HIDE DEF me, row
    <3> QED
      BY <3>1 DEF WorkState
  <2>3. work' = [work EXCEPT ![g] = x]
    BY <1>2 DEF ListOwners
  <2> HIDE DEF x
  <2>4. CopyOK(x, row)
    <3>1. row.version \in Nat /\ row.epoch \in Nat
      BY <1>b, <2>1 DEF OwnerRow
    <3> QED
      BY <2>2, <3>1 DEF CopyOK
  <2>5. me.after.phase = "none"
    BY <1>b, <2>1 DEF PassTerm
  <2>6. PassTerm(x, row, intact, launchEpoch[r])
    BY <2>2, <2>5 DEF PassTerm
  <2>7. InstanceOK(g, x, instance[r])
    BY <1>0, <1>b, <2>1, <2>2, <2>5 DEF InstanceOK
  <2>8. Owns(x)
    BY <1>0, <1>b, <2>1, <2>2, <2>4, <2>6, <2>7 DEF WorkOwns, TargetOK, SourceOK
  <2> QED
    BY <1>0, <1>a, <2>3, <2>8, OwnReads
<1>3. CASE ListInstances(g)
  <2> DEFINE desired == instance[r] = Published /\ r \notin withdrawn[g]
             next == Dispatch(desired, me.before, me.seen)
             y == [me EXCEPT !.pc = next, !.base = me.before.epoch]
             x == IF next \in {"identity", "confirm"} THEN y
                  ELSE Holding(g, next, me.before)
  <2>1. Busy(me) /\ me.pc = "instance"
    BY <1>3 DEF ListInstances, Busy
  <2>2. /\ next \in {"identity", "confirm", "view", "remove", "advance"}
        /\ next \in {"identity", "confirm", "advance"} => instance[r] = Published
        /\ next = "identity" => me.before.phase = "none"
        /\ next = "confirm" => me.before.phase \notin {"none", "granting"}
    BY DEF Dispatch
  <2>3. work' = [work EXCEPT ![g] = x]
    BY <1>3 DEF ListInstances
  <2> HIDE DEF next
  <2>4. CASE next \in {"identity", "confirm"}
    <3>1. /\ y.pc = next /\ y.route = r /\ y.before = me.before /\ y.after = me.after
          /\ y.base = me.before.epoch
          /\ y.created = me.created /\ y.admitting = me.admitting
      <4>1. me \in WorkState
        BY <1>b, <2>1
      <4> HIDE DEF me
      <4> QED
        BY <4>1 DEF WorkState
    <3>2. me.before.phase \in {"none", "granting", "granted"}
      BY <1>b, <2>1 DEF OwnerRow
    <3> HIDE DEF y
    <3>3. me.after.phase = "none"
      BY <1>b, <2>1 DEF PassTerm
    <3>4. PassTerm(y, row, intact, launchEpoch[r])
      BY <2>2, <2>4, <3>1, <3>2, <3>3 DEF PassTerm
    <3>5. InstanceOK(g, y, instance[r])
      BY <1>0, <1>b, <2>1, <2>2, <2>4, <3>1, <3>3 DEF InstanceOK
    <3>6. intact => CopyOK(y, row)
      BY <1>b, <2>1, <3>1 DEF CopyOK
    <3>7. Owns(y)
      BY <1>0, <1>b, <2>1, <2>4, <3>1, <3>4, <3>5, <3>6
         DEF WorkOwns, TargetOK, SourceOK
    <3> QED
      BY <1>0, <1>a, <2>3, <2>4, <3>7, OwnReads
  <2>5. CASE next \notin {"identity", "confirm"}
    <3>1. Owns(Holding(g, next, me.before))
      BY <1>c, <2>1, <2>2, <2>5
    <3> QED
      BY <1>0, <1>a, <2>3, <2>5, <3>1, OwnReads
  <2> QED
    BY <2>4, <2>5
<1>4. CASE ConfirmFailure(g)
  <2> DEFINE y == [me EXCEPT !.pc = "choose"]
  <2>1. Busy(me) /\ me.pc = "confirm"
    BY <1>4 DEF ConfirmFailure, Busy
  <2>2. \/ work' = [work EXCEPT ![g] = Holding(g, "view", me.before)]
        \/ work' = [work EXCEPT ![g] = y]
    BY <1>4 DEF ConfirmFailure
  <2>3. Owns(Holding(g, "view", me.before))
    BY <1>c, <2>1
  <2>4. /\ y.pc = "choose" /\ y.route = r /\ y.before = me.before /\ y.after = me.after
        /\ y.base = me.base
        /\ y.created = me.created /\ y.admitting = me.admitting
    <3>1. me \in WorkState
      BY <1>b, <2>1
    <3> HIDE DEF me
    <3> QED
      BY <3>1 DEF WorkState
  <2> HIDE DEF y
  <2>5. Owns(y)
    <3>1. PassTerm(y, row, intact, launchEpoch[r])
      BY <1>b, <2>1, <2>4 DEF PassTerm
    <3>2. InstanceOK(g, y, instance[r])
      BY <1>0, <1>b, <2>1, <2>4 DEF InstanceOK
    <3>3. intact => CopyOK(y, row)
      BY <1>b, <2>1, <2>4 DEF CopyOK
    <3> QED
      BY <1>0, <1>b, <2>1, <2>4, <3>1, <3>2, <3>3 DEF WorkOwns, TargetOK, SourceOK
  <2> QED
    BY <1>0, <1>a, <2>2, <2>3, <2>5, OwnReads
<1>5. CASE LeaveOwner(g)
  <2>1. Busy(me) /\ work' = [work EXCEPT ![g] = Holding(g, "view", me.before)]
    BY <1>5 DEF LeaveOwner, Busy
  <2>2. Owns(Holding(g, "view", me.before))
    BY <1>c, <2>1
  <2> QED
    BY <1>0, <1>a, <2>1, <2>2, OwnReads
<1>6. CASE ReadIdentity(g)
  <2> DEFINE id == identity[SandboxOf[r]]
             y == [me EXCEPT !.pc = "choose", !.base = id.epoch]
  <2>1. Busy(me) /\ me.pc = "identity"
    BY <1>6 DEF ReadIdentity, Busy
  <2>2. \/ work' = [work EXCEPT ![g] = Holding(g, "view", NoOwner)]
        \/ id.generation = r /\ work' = [work EXCEPT ![g] = y]
    BY <1>6 DEF ReadIdentity
  <2>3. Owns(Holding(g, "view", NoOwner))
    BY <1>b, <2>1, NoOwnerFirst, HoldingOwns
  <2>4. /\ y.pc = "choose" /\ y.route = r /\ y.before = me.before /\ y.after = me.after
        /\ y.base = id.epoch
        /\ y.created = me.created /\ y.admitting = me.admitting
    <3>1. me \in WorkState
      BY <1>b, <2>1
    <3> HIDE DEF me, id
    <3> QED
      BY <3>1 DEF WorkState
  <2>5. ASSUME id.generation = r PROVE Owns(y)
    <3>1. intact /\ row.version = 0 => id.epoch = launchEpoch[r]
      <4>1. RowOK(r, row, id, intact, launchEpoch[r])
        BY <1>b, <2>1 DEF OwnInv, RowsOK
      <4>2. row.version = 0 => row.phase = "none"
        BY <1>b, <2>1 DEF TypeInv, TypeOK
      <4> QED
        BY <2>5, <4>1, <4>2 DEF RowOK
    <3> HIDE DEF y
    <3>2. PassTerm(y, row, intact, launchEpoch[r])
      BY <1>b, <2>1, <2>4, <3>1 DEF PassTerm
    <3>3. InstanceOK(g, y, instance[r])
      BY <1>0, <1>b, <2>1, <2>4 DEF InstanceOK
    <3>4. intact => CopyOK(y, row)
      BY <1>b, <2>1, <2>4 DEF CopyOK
    <3> QED
      BY <1>0, <1>b, <2>1, <2>4, <3>2, <3>3, <3>4 DEF WorkOwns, TargetOK, SourceOK
  <2> HIDE DEF y
  <2> QED
    BY <1>0, <1>a, <2>2, <2>3, <2>5, OwnReads
<1>7. CASE RemoveOwner(g)
  <2> DEFINE y == [me EXCEPT !.pc = "source", !.after = NoOwner]
  <2>1. /\ Busy(me) /\ me.pc = "remove" /\ work' = [work EXCEPT ![g] = y]
    BY <1>7 DEF RemoveOwner, Busy
  <2>2. /\ y.pc = "source" /\ y.route = r /\ y.before = me.before /\ y.after = NoOwner
        /\ y.created = me.created /\ y.admitting = me.admitting
    <3>1. me \in WorkState
      BY <1>b, <2>1
    <3> HIDE DEF me
    <3> QED
      BY <3>1 DEF WorkState
  <2> HIDE DEF y
  <2>3. NoOwner.phase = "none"
    BY DEF NoOwner
  <2>4. Owns(y)
    <3>1. PassTerm(y, row, intact, launchEpoch[r])
      BY <2>2, <2>3 DEF PassTerm
    <3>2. InstanceOK(g, y, instance[r])
      BY <1>0, <1>b, <2>1, <2>2, <2>3 DEF InstanceOK
    <3>3. intact => CopyOK(y, row)
      BY <1>b, <2>1, <2>2 DEF CopyOK
    <3> QED
      BY <1>0, <1>b, <2>1, <2>2, <2>3, <3>1, <3>2, <3>3
         DEF WorkOwns, TargetOK, SourceOK
  <2> QED
    BY <1>0, <1>a, <2>1, <2>4, OwnReads
<1>8. CASE View(g)
  <2>1. work' = [work EXCEPT ![g] = NoWork]
    BY <1>8 DEF View
  <2> QED
    BY <1>0, <1>a, <2>1, EndedOwns, OwnReads
<1> QED
  BY <1>1, <1>2, <1>3, <1>4, <1>5, <1>6, <1>7, <1>8

\* While the owner record is the one a worker read, the route is charged to
\* the member that record names.
LEMMA ChargedAsRead ==
    ASSUME TypeInv, OwnInv, NEW w \in Worker, Busy(work[w]),
           work[w].route \notin removed,
           work[w].before.version = owner[work[w].route].version,
           NEW m \in Member
    PROVE  work[w].route \in capacity[m].routes <=> work[w].before.member = m
<1>1. work[w].before = owner[work[w].route] /\ work[w].route \in Route
  BY OwnFacts DEF CopyOK
<1> QED
  BY <1>1 DEF OwnInv, ChargedExactly

\* An owner change up to its write.
LEMMA OwnChangeReads ==
    ASSUME TypeInv, OwnInv, NEW w \in Worker,
           \/ \E m \in Member : ChooseTarget(w, m)
           \/ NoTarget(w) \/ ReadTarget(w) \/ ReadSource(w)
           \/ WriteConflicts(w) \/ Fail(w)
    PROVE  OwnInv'
<1> DEFINE me == work[w]
           r == me.route
           row == owner[r]
           intact == r \notin removed
           Owns(x) == WorkOwns(w, x, owner, capacity, removed, launchEpoch, instance)
<1>0. (w \in Launch <=> w \notin Replica) /\ w \in Launch \cup Replica
  BY PoolAssumption DEF Worker
<1>a. UNCHANGED <<owner, capacity, instance, identity, launchEpoch, withdrawn, removed>>
  BY DEF ChooseTarget, NoTarget, ReadTarget, ReadSource, WriteConflicts, Fail,
         sandboxes, history
<1>b. Busy(me)
  BY DEF ChooseTarget, NoTarget, ReadTarget, ReadSource, WriteConflicts, Fail, Busy
<1>c. /\ me \in WorkState /\ r \in Route
      /\ me.before \in OwnerRow /\ me.after \in OwnerRow
      /\ row \in OwnerRow /\ launchEpoch[r] # 0
      /\ intact => CopyOK(me, row)
      /\ TargetOK(me, row, intact, capacity)
      /\ w \in Launch => LaunchTerm(me, launchEpoch[r])
      /\ w \in Replica => PassTerm(me, row, intact, launchEpoch[r])
      /\ InstanceOK(w, me, instance[r])
      /\ WorkOK(me)
  BY <1>b, OwnFacts DEF TypeInv
<1>d. w \in Replica => Owns(Holding(w, "view", me.before))
  BY <1>c, HoldingOwns DEF CopyOK
<1>e. ASSUME NEW x, work' = [work EXCEPT ![w] = x], Owns(x) PROVE OwnInv'
  BY <1>a, <1>e, OwnReads
<1>1. ASSUME NEW m \in Member, ChooseTarget(w, m) PROVE OwnInv'
  <2> DEFINE o == Offer(w, m)
             x == [me EXCEPT !.pc = "target", !.after = o]
  <2>1. /\ o.phase = (IF w \in Launch THEN "granted" ELSE "granting")
        /\ o.epoch = (IF w \in Launch THEN me.base ELSE me.base + 1)
        /\ o.id = 0
    BY DEF Offer
  <2>2. work' = [work EXCEPT ![w] = x] /\ me.pc = "choose"
    BY <1>1 DEF ChooseTarget
  <2>3. /\ x.pc = "target" /\ x.route = r /\ x.before = me.before /\ x.after = o
        /\ x.base = me.base /\ x.created = me.created /\ x.admitting = me.admitting
    <3> HIDE DEF me, o
    <3> QED
      BY <1>c DEF WorkState
  <2> HIDE DEF x, o
  <2>4. w \in Launch => LaunchTerm(x, launchEpoch[r])
    BY <1>c, <2>1, <2>3 DEF LaunchTerm
  <2>5. w \in Replica => PassTerm(x, row, intact, launchEpoch[r])
    BY <1>0, <1>c, <2>1, <2>2, <2>3 DEF PassTerm
  <2>6. InstanceOK(w, x, instance[r])
    BY <1>0, <1>c, <2>2, <2>3 DEF InstanceOK
  <2>7. intact => CopyOK(x, row)
    BY <1>c, <2>3 DEF CopyOK
  <2>8. Owns(x)
    BY <1>c, <2>3, <2>4, <2>5, <2>6, <2>7 DEF WorkOwns, TargetOK, SourceOK
  <2> QED
    BY <1>e, <2>2, <2>8
<1>2. CASE NoTarget(w)
  <2> DEFINE y == [me EXCEPT !.pc = "giveup"]
  <2>1. \/ w \in Launch /\ work' = [work EXCEPT ![w] = y]
        \/ w \notin Launch /\ work' = [work EXCEPT ![w] = Holding(w, "view", me.before)]
    BY <1>2 DEF NoTarget
  <2>2. /\ y.pc = "giveup" /\ y.route = r /\ y.before = me.before /\ y.after = me.after
        /\ y.base = me.base /\ y.created = me.created /\ y.admitting = me.admitting
    <3> HIDE DEF me
    <3> QED
      BY <1>c DEF WorkState
  <2> HIDE DEF y
  <2>3. ASSUME w \in Launch PROVE Owns(y)
    <3>1. LaunchTerm(y, launchEpoch[r])
      BY <1>c, <2>2, <2>3 DEF LaunchTerm
    <3>2. InstanceOK(w, y, instance[r])
      BY <1>0, <1>c, <2>2, <2>3 DEF InstanceOK
    <3>3. intact => CopyOK(y, row)
      BY <1>c, <2>2 DEF CopyOK
    <3> QED
      BY <1>0, <1>c, <2>2, <2>3, <3>1, <3>2, <3>3 DEF WorkOwns, TargetOK, SourceOK
  <2> QED
    BY <1>0, <1>d, <1>e, <2>1, <2>3
<1>3. CASE ReadTarget(w)
  <2> DEFINE m == me.after.member
             cap == capacity[m]
             y == [me EXCEPT !.pc = "source", !.target = cap]
             z == [me EXCEPT !.pc = "choose", !.tried = me.tried \cup {m}]
  <2>1. me.pc = "target" /\ me.after.phase # "none" /\ m \in Member
    BY <1>3, <1>c DEF ReadTarget, WorkOK, Names
  <2>2. \/ HasRoomFor(cap, r) /\ work' = [work EXCEPT ![w] = y]
        \/ /\ me.before.phase = "granting"
           /\ work' = [work EXCEPT ![w] = Holding(w, "view", me.before)]
        \/ me.before.phase # "granting" /\ work' = [work EXCEPT ![w] = z]
    BY <1>3 DEF ReadTarget
  <2>3. /\ y.pc = "source" /\ y.route = r /\ y.before = me.before /\ y.after = me.after
        /\ y.base = me.base /\ y.created = me.created /\ y.admitting = me.admitting
        /\ y.target = cap
    <3> HIDE DEF me, cap
    <3> QED
      BY <1>c DEF WorkState
  <2>4. /\ z.pc = "choose" /\ z.route = r /\ z.before = me.before /\ z.after = me.after
        /\ z.base = me.base /\ z.created = me.created /\ z.admitting = me.admitting
    <3> HIDE DEF me, m
    <3> QED
      BY <1>c DEF WorkState
  <2>5. cap \in CapacityRow
    BY <2>1 DEF TypeInv, TypeOK
  <2> HIDE DEF y, z
  <2>6. ASSUME HasRoomFor(cap, r) PROVE Owns(y)
    <3>1. w \in Launch => LaunchTerm(y, launchEpoch[r])
      BY <1>c, <2>3 DEF LaunchTerm
    <3>2. w \in Replica => PassTerm(y, row, intact, launchEpoch[r])
      BY <1>c, <2>1, <2>3 DEF PassTerm
    <3>3. InstanceOK(w, y, instance[r])
      BY <1>0, <1>c, <2>1, <2>3 DEF InstanceOK
    <3>4. intact => CopyOK(y, row)
      BY <1>c, <2>3 DEF CopyOK
    <3>5. TargetOK(y, row, intact, capacity)
      <4>1. intact /\ me.before.version = row.version =>
              (r \in cap.routes <=> me.before.member = m)
        BY <1>b, <2>1, ChargedAsRead
      <4>2. CapacityCopy(cap, cap)
        BY <2>5 DEF CapacityCopy, CapacityRow
      <4> QED
        BY <2>3, <2>6, <4>1, <4>2 DEF TargetOK
    <3> QED
      BY <1>c, <2>3, <3>1, <3>2, <3>3, <3>4, <3>5 DEF WorkOwns, SourceOK
  <2>7. ASSUME me.before.phase # "granting" PROVE Owns(z)
    <3>1. w \in Launch => LaunchTerm(z, launchEpoch[r])
      BY <1>c, <2>4 DEF LaunchTerm
    <3>2. me.after.phase = "granting" \/ w \in Launch
      <4>1. me.after.phase \in {"none", "granting", "granted"}
        BY <1>c DEF OwnerRow
      <4> QED
        BY <1>0, <1>c, <2>1, <2>7, <4>1 DEF PassTerm
    <3>3. w \in Replica => PassTerm(z, row, intact, launchEpoch[r])
      BY <1>0, <1>c, <2>1, <2>4, <2>7, <3>2 DEF PassTerm
    <3>4. InstanceOK(w, z, instance[r])
      BY <1>0, <1>c, <2>1, <2>4 DEF InstanceOK
    <3>5. intact => CopyOK(z, row)
      BY <1>c, <2>4 DEF CopyOK
    <3> QED
      BY <1>c, <2>4, <3>1, <3>3, <3>4, <3>5 DEF WorkOwns, TargetOK, SourceOK
  <2>8. me.before.phase = "granting" => w \in Replica
    BY <1>0, <1>c DEF LaunchTerm, NoOwner
  <2> QED
    BY <1>d, <1>e, <2>2, <2>6, <2>7, <2>8
<1>4. CASE ReadSource(w)
  <2> DEFINE m == me.before.member
             cap == IF Leaves(w) THEN capacity[m] ELSE NoCapacity
             y == [me EXCEPT !.pc = "write", !.source = cap]
  <2>1. me.pc = "source" /\ work' = [work EXCEPT ![w] = y]
    BY <1>4 DEF ReadSource
  <2>2. /\ y.pc = "write" /\ y.route = r /\ y.before = me.before /\ y.after = me.after
        /\ y.base = me.base /\ y.created = me.created /\ y.admitting = me.admitting
        /\ y.target = me.target /\ y.source = cap
    <3> HIDE DEF me, cap
    <3> QED
      BY <1>c DEF WorkState
  <2> HIDE DEF y
  <2>3. SourceOK(y, row, intact, capacity)
    <3> SUFFICES ASSUME m \notin {NoMember, me.after.member}
                 PROVE  /\ CapacityCopy(cap, capacity[m])
                        /\ intact /\ me.before.version = row.version => r \in cap.routes
      BY <2>2 DEF SourceOK
    <3>1. cap = capacity[m]
      BY DEF Leaves
    <3>2. m \in Member
      BY <1>c DEF OwnerRow
    <3>3. capacity[m] \in CapacityRow
      BY <3>2 DEF TypeInv, TypeOK
    <3>4. CapacityCopy(capacity[m], capacity[m])
      BY <3>3 DEF CapacityCopy, CapacityRow
    <3>5. intact /\ me.before.version = row.version => r \in capacity[m].routes
      BY <1>b, <3>2, ChargedAsRead
    <3> HIDE DEF cap
    <3> QED
      BY <3>1, <3>4, <3>5
  <2>4. TargetOK(y, row, intact, capacity)
    BY <1>c, <2>1, <2>2 DEF TargetOK
  <2>5. w \in Launch => LaunchTerm(y, launchEpoch[r])
    BY <1>c, <2>2 DEF LaunchTerm
  <2>6. w \in Replica => PassTerm(y, row, intact, launchEpoch[r])
    BY <1>c, <2>1, <2>2 DEF PassTerm
  <2>7. InstanceOK(w, y, instance[r])
    BY <1>0, <1>c, <2>1, <2>2 DEF InstanceOK
  <2>8. intact => CopyOK(y, row)
    BY <1>c, <2>2 DEF CopyOK
  <2>9. Owns(y)
    BY <1>c, <2>2, <2>3, <2>4, <2>5, <2>6, <2>7, <2>8 DEF WorkOwns
  <2> QED
    BY <1>e, <2>1, <2>9
<1>5. CASE WriteConflicts(w)
  <2> DEFINE y == [me EXCEPT !.pc = IF me.after.phase = "none" THEN "source" ELSE "target"]
  <2>1. /\ me.pc = "write"
        /\ \/ work' = [work EXCEPT ![w] = Ended(w)]
           \/ w \in Replica /\ work' = [work EXCEPT ![w] = Holding(w, "view", row)]
           \/ work' = [work EXCEPT ![w] = y]
    BY <1>0, <1>5 DEF WriteConflicts
  <2>2. /\ y.pc = (IF me.after.phase = "none" THEN "source" ELSE "target")
        /\ y.route = r /\ y.before = me.before /\ y.after = me.after
        /\ y.base = me.base /\ y.created = me.created /\ y.admitting = me.admitting
        /\ y.target = me.target
    <3> HIDE DEF me
    <3> QED
      BY <1>c DEF WorkState
  <2> HIDE DEF y
  <2>3. w \in Replica => Owns(Holding(w, "view", row))
    <3>1. row.version <= row.version /\ row.epoch <= row.epoch
      BY <1>c DEF OwnerRow
    <3> QED
      BY <1>c, <3>1, HoldingOwns
  <2>4. TargetOK(y, row, intact, capacity) /\ SourceOK(y, row, intact, capacity)
    BY <2>2 DEF TargetOK, SourceOK
  <2>5. w \in Launch => LaunchTerm(y, launchEpoch[r])
    BY <1>c, <2>2 DEF LaunchTerm
  <2>6. w \in Replica => PassTerm(y, row, intact, launchEpoch[r])
    BY <1>c, <2>1, <2>2 DEF PassTerm
  <2>7. InstanceOK(w, y, instance[r])
    BY <1>0, <1>c, <2>1, <2>2 DEF InstanceOK
  <2>8. intact => CopyOK(y, row)
    BY <1>c, <2>2 DEF CopyOK
  <2>9. Owns(y)
    BY <1>c, <2>2, <2>4, <2>5, <2>6, <2>7, <2>8 DEF WorkOwns
  <2> QED
    BY <1>e, <2>1, <2>3, <2>9, EndedOwns
<1>6. CASE Fail(w)
  <2>1. work' = [work EXCEPT ![w] = Ended(w)]
    BY <1>6 DEF Fail
  <2> QED
    BY <1>e, <2>1, EndedOwns
<1> QED
  BY <1>1, <1>2, <1>3, <1>4, <1>5, <1>6

\* A launch records its instance before it is placed, and takes back only a
\* record that was never published.
LEMMA OwnPlaceLaunch ==
    ASSUME TypeInv, OwnInv, NEW l \in Launch, PlaceLaunch(l)
    PROVE  OwnInv'
<1> DEFINE me == work[l]
           r == me.route
           row == owner[r]
           intact == r \notin removed
<1>0. l \in Worker /\ l \notin Replica
  BY PoolAssumption DEF Worker
<1>a. UNCHANGED <<owner, capacity, identity, launchEpoch, withdrawn, removed>>
  BY DEF PlaceLaunch, ListTargets, RecordAdmitting, GiveUpAdmission, sandboxes, history
<1>b. Busy(me) =>
        /\ me \in WorkState /\ r \in Route /\ launchEpoch[r] # 0
        /\ intact => CopyOK(me, row)
        /\ LaunchTerm(me, launchEpoch[r])
        /\ InstanceOK(l, me, instance[r])
  BY <1>0, OwnFacts
<1>c. RowsOK'
  BY <1>a DEF OwnInv, RowsOK
<1>d. /\ NoInstance.phase = "none" /\ Published.phase = "published"
      /\ Published # NoInstance
  BY DEF NoInstance, Published
<1>1. ASSUME NEW q \in Route, ListTargets(l, q) PROVE OwnInv'
  <2> DEFINE x == [NoWork EXCEPT !.pc = "record", !.route = q, !.seen = LiveMembers,
                                 !.base = launchEpoch[q]]
  <2>1. /\ x.pc = "record" /\ x.route = q /\ x.before = NoOwner /\ x.after = NoOwner
        /\ x.created = FALSE /\ x.base = launchEpoch[q]
    BY DEF NoWork
  <2>2. work' = [work EXCEPT ![l] = x] /\ launchEpoch[q] # 0 /\ instance' = instance
    BY <1>1 DEF ListTargets
  <2> HIDE DEF x
  <2>3. CopyOK(x, owner[q])
    BY <2>1, NoOwnerFirst DEF CopyOK
  <2>4. LaunchTerm(x, launchEpoch[q])
    BY <2>1, NoOwnerFirst DEF LaunchTerm
  <2>5. WorkOwns(l, x, owner, capacity, removed, launchEpoch, instance)
    BY <1>0, <2>1, <2>2, <2>3, <2>4, NoOwnerFirst
       DEF WorkOwns, TargetOK, SourceOK, InstanceOK
  <2> QED
    BY <1>0, <1>a, <2>2, <2>5, OwnReads
<1>2. CASE RecordAdmitting(l)
  <2> DEFINE new == instance[r] = NoInstance
             mine == [phase |-> "admitting", writer |-> l]
             rec == IF new THEN mine ELSE instance[r]
             y == [me EXCEPT !.pc = "choose", !.admitting = rec, !.created = new]
  <2>1. Busy(me) /\ me.pc = "record" /\ work' = [work EXCEPT ![l] = y]
    BY <1>2 DEF RecordAdmitting, Busy
  <2>2. instance' = IF new THEN [instance EXCEPT ![r] = mine] ELSE instance
    BY <1>2 DEF RecordAdmitting
  <2>3. instance \in [Route -> InstanceRow] /\ r \in Route
    BY <1>b, <2>1 DEF TypeInv, TypeOK
  <2>4. mine.phase = "admitting"
    OBVIOUS
  <2> HIDE DEF mine
  <2>5. /\ \A q \in Route : instance[q] # NoInstance => instance'[q] = instance[q]
        /\ \A q \in Route : instance'[q] = instance[q] \/ instance'[q].phase = "admitting"
        /\ instance'[r] = rec
    BY <2>2, <2>3, <2>4
  <2>6. /\ y.pc = "choose" /\ y.route = r /\ y.before = me.before /\ y.after = me.after
        /\ y.base = me.base /\ y.created = new /\ y.admitting = rec
    <3>1. me \in WorkState
      BY <1>b, <2>1
    <3> HIDE DEF me, new, rec
    <3> QED
      BY <3>1 DEF WorkState
  <2> HIDE DEF y
  <2>7. WorkOwns(l, y, owner, capacity, removed, launchEpoch, instance')
    <3>1. LaunchTerm(y, launchEpoch[r])
      BY <1>b, <2>1, <2>6 DEF LaunchTerm
    <3>2. rec.phase = "admitting" \/ rec = Published
      <4>1. instance[r].phase \in {"none", "admitting", "published"}
        BY <2>3 DEF InstanceRow
      <4>2. instance[r].phase = "published" => instance[r] = Published
        BY <2>3 DEF OwnInv, PublishedOK, WriterOK
      <4>3. instance[r].phase = "none" => instance[r] = NoInstance
        BY <2>3 DEF OwnInv, PublishedOK, WriterOK
      <4> QED
        BY <2>4, <4>1, <4>2, <4>3
    <3>3. InstanceOK(l, y, instance'[r])
      BY <1>0, <2>4, <2>5, <2>6, <3>2 DEF InstanceOK
    <3>4. intact => CopyOK(y, row)
      BY <1>b, <2>1, <2>6 DEF CopyOK
    <3> QED
      BY <1>0, <1>b, <2>1, <2>6, <3>1, <3>3, <3>4 DEF WorkOwns, TargetOK, SourceOK
  <2>8. \A v \in Worker :
          \/ work'[v] = work[v]
          \/ WorkOwns(v, work'[v], owner, capacity, removed, launchEpoch', instance')
    BY <1>a, <2>1, <2>7 DEF TypeInv, TypeOK
  <2>9. \A q \in Route : WriterOK(instance'[q])
    BY <2>5 DEF OwnInv, PublishedOK, WriterOK
  <2> QED
    BY <1>a, <1>c, <1>d, <2>5, <2>8, <2>9, OwnStep DEF OwnInv, PublishedOK
<1>3. CASE GiveUpAdmission(l)
  <2>1. /\ Busy(me) /\ work' = [work EXCEPT ![l] = Ended(l)]
        /\ instance' = IF me.created /\ instance[r] = me.admitting
                       THEN [instance EXCEPT ![r] = NoInstance] ELSE instance
    BY <1>3 DEF GiveUpAdmission, Busy
  <2>2. instance \in [Route -> InstanceRow] /\ r \in Route
    BY <1>b, <2>1 DEF TypeInv, TypeOK
  <2>3. me.created /\ instance[r] = me.admitting => instance[r].phase = "admitting"
    BY <1>b, <2>1 DEF InstanceOK
  <2>4. /\ \A q \in Route : instance[q] = Published => instance'[q] = Published
        /\ \A q \in Route : instance'[q] = instance[q] \/ instance'[q] = NoInstance
    BY <1>d, <2>1, <2>2, <2>3
  <2>5. \A q \in Route : WriterOK(instance'[q])
    BY <1>d, <2>4 DEF OwnInv, PublishedOK, WriterOK
  <2>6. \A v \in Worker :
          \/ work'[v] = work[v]
          \/ WorkOwns(v, work'[v], owner, capacity, removed, launchEpoch', instance')
    BY <1>a, <2>1, EndedOwns DEF TypeInv, TypeOK
  <2> QED
    BY <1>a, <1>c, <2>4, <2>5, <2>6, OwnStep DEF OwnInv, PublishedOK
<1> QED
  BY <1>1, <1>2, <1>3 DEF PlaceLaunch

\* The sandbox only moves to the term of an intent that is still the owner
\* record, or cancelled: behind it, the record has moved on, and once it is
\* granted the sandbox is at its term already.
LEMMA OwnCompleteTakeover ==
    ASSUME TypeInv, OwnInv, NEW g \in Replica, CompleteTakeover(g)
    PROVE  OwnInv'
<1> DEFINE me == work[g]
           r == me.route
           s == SandboxOf[r]
           row == owner[r]
           id == identity[s]
           intact == r \notin removed
           Owns(x) == WorkOwns(g, x, owner, capacity, removed, launchEpoch, instance)
<1>0. g \in Worker /\ g \notin Launch
  BY PoolAssumption DEF Worker
<1>a. /\ UNCHANGED <<owner, capacity, instance, launchEpoch, withdrawn, removed>>
      /\ Busy(me) /\ me.pc = "advance"
  BY DEF CompleteTakeover, history, Busy
<1>b. /\ me \in WorkState /\ r \in Route /\ me.before \in OwnerRow
      /\ row \in OwnerRow /\ launchEpoch[r] # 0
      /\ intact => CopyOK(me, row)
      /\ PassTerm(me, row, intact, launchEpoch[r])
      /\ InstanceOK(g, me, instance[r])
      /\ s \in Sandbox /\ id \in Identity
      /\ me.before.phase = "granting"
  BY <1>0, <1>a, OwnFacts, PoolAssumption DEF TypeInv, TypeOK, WorkOK
<1>1. CASE /\ identity' = identity
           /\ work' = [work EXCEPT ![g] = [me EXCEPT !.pc = "source", !.after = NoOwner]]
  <2> DEFINE y == [me EXCEPT !.pc = "source", !.after = NoOwner]
  <2>1. /\ y.pc = "source" /\ y.route = r /\ y.before = me.before /\ y.after = NoOwner
        /\ y.created = me.created /\ y.admitting = me.admitting
    <3> HIDE DEF me
    <3> QED
      BY <1>b DEF WorkState
  <2> HIDE DEF y
  <2>2. NoOwner.phase = "none"
    BY DEF NoOwner
  <2>3. Owns(y)
    <3>1. PassTerm(y, row, intact, launchEpoch[r])
      BY <2>1, <2>2 DEF PassTerm
    <3>2. InstanceOK(g, y, instance[r])
      BY <1>0, <1>b, <2>1, <2>2 DEF InstanceOK
    <3>3. intact => CopyOK(y, row)
      BY <1>b, <2>1 DEF CopyOK
    <3> QED
      BY <1>0, <1>b, <2>1, <2>2, <3>1, <3>2, <3>3 DEF WorkOwns, TargetOK, SourceOK
  <2>4. work' = [work EXCEPT ![g] = y]
    BY <1>1 DEF y
  <2> QED
    BY <1>0, <1>1, <1>a, <2>3, <2>4, OwnReads
<1>2. CASE /\ ~Refused(id, r, me.before)
           /\ identity' = IF id.epoch = me.before.epoch THEN identity
                          ELSE [identity EXCEPT ![s] =
                                  [id EXCEPT !.epoch = me.before.epoch,
                                             !.lineage = me.before.id,
                                             !.rotated = FALSE]]
           /\ work' = [work EXCEPT ![g] = [me EXCEPT
                         !.pc = "target",
                         !.after = [me.before EXCEPT !.phase = "granted"]]]
  <2> DEFINE o == [me.before EXCEPT !.phase = "granted"]
             y == [me EXCEPT !.pc = "target", !.after = o]
             n == [id EXCEPT !.epoch = me.before.epoch, !.lineage = me.before.id,
                             !.rotated = FALSE]
  <2>1. /\ o.phase = "granted" /\ o.epoch = me.before.epoch /\ o.id = me.before.id
        /\ o.member = me.before.member
    <3> HIDE DEF me
    <3> QED
      BY <1>b DEF OwnerRow
  <2>2. /\ y.pc = "target" /\ y.route = r /\ y.before = me.before /\ y.after = o
        /\ y.created = me.created /\ y.admitting = me.admitting
    <3> HIDE DEF me, o
    <3> QED
      BY <1>b DEF WorkState
  <2>3. n.epoch = me.before.epoch /\ n.generation = id.generation
    <3> HIDE DEF id, me
    <3> QED
      BY <1>b DEF Identity
  <2>4. /\ id.generation = r /\ ~(id.epoch > me.before.epoch)
        /\ work' = [work EXCEPT ![g] = y]
        /\ identity' = IF id.epoch = me.before.epoch THEN identity
                       ELSE [identity EXCEPT ![s] = n]
    BY <1>2 DEF Refused
  <2> HIDE DEF y, o, n
  <2>5. Owns(y)
    <3>1. PassTerm(y, row, intact, launchEpoch[r])
      BY <1>b, <2>1, <2>2 DEF PassTerm
    <3>2. InstanceOK(g, y, instance[r])
      BY <1>0, <1>a, <1>b, <2>2 DEF InstanceOK
    <3>3. intact => CopyOK(y, row)
      BY <1>b, <2>2 DEF CopyOK
    <3> QED
      BY <1>0, <1>b, <2>1, <2>2, <3>1, <3>2, <3>3 DEF WorkOwns, TargetOK, SourceOK
  <2>6. \A v \in Worker :
          \/ work'[v] = work[v]
          \/ WorkOwns(v, work'[v], owner, capacity, removed, launchEpoch', instance')
    BY <1>a, <2>4, <2>5 DEF TypeInv, TypeOK
  <2>7. RowsOK'
    <3> SUFFICES ASSUME NEW q \in Route
                 PROVE  RowOK(q, owner[q], identity'[SandboxOf[q]], q \notin removed,
                              launchEpoch[q])
      BY <1>a DEF RowsOK
    <3>1. RowOK(q, owner[q], identity[SandboxOf[q]], q \notin removed, launchEpoch[q])
      BY DEF OwnInv, RowsOK
    <3>2. CASE identity'[SandboxOf[q]] = identity[SandboxOf[q]]
      BY <3>1, <3>2
    <3>3. CASE /\ id.epoch # me.before.epoch /\ SandboxOf[q] = s
               /\ identity'[SandboxOf[q]] = n
      <4>1. CASE q # r
        BY <2>3, <2>4, <3>1, <3>3, <4>1 DEF RowOK
      <4>2. CASE q = r
        <5>1. RowOK(r, row, id, intact, launchEpoch[r])
          BY <3>1, <4>2
        <5>2. id.epoch \in Nat /\ me.before.epoch \in Nat /\ row.epoch \in Nat
          BY <1>b DEF OwnerRow, Identity
        <5>3. id.epoch < me.before.epoch
          BY <2>4, <3>3, <5>2
        <5>4. intact => me.before.epoch <= row.epoch
          BY <1>b DEF CopyOK
        <5>5. intact => row.phase # "granted"
          BY <2>4, <5>1, <5>2, <5>3, <5>4 DEF RowOK
        <5>6. intact => row.phase # "none"
          <6>1. row.phase = "none" => row = NoOwner
            BY <5>1 DEF RowOK
          <6>2. NoOwner.epoch = 0
            BY DEF NoOwner
          <6> QED
            BY <5>2, <5>3, <5>4, <6>1, <6>2
        <5> QED
          BY <2>3, <2>4, <3>3, <4>2, <5>1, <5>4, <5>5, <5>6 DEF RowOK
      <4> QED
        BY <4>1, <4>2
    <3> QED
      BY <1>b, <2>4, <3>2, <3>3 DEF TypeInv, TypeOK
  <2> QED
    BY <1>a, <2>6, <2>7, OwnStep DEF OwnInv, PublishedOK
<1> QED
  BY <1>1, <1>2 DEF CompleteTakeover

\* A step of the environment that changes sandbox rows: a generation starts
\* at its launch term with no owner, the others keep generation and term.
LEMMA OwnSandboxes ==
    ASSUME TypeInv, OwnInv, NEW s \in Sandbox,
           UNCHANGED <<owner, capacity, instance, withdrawn, work, removed>>,
           \/ Quiesce(s) \/ RunAgain(s) \/ EndGeneration(s) \/ RotateToken(s)
           \/ \E r \in Route : StartGeneration(s, r)
    PROVE  OwnInv'
<1> DEFINE id == identity[s]
<1>0. id \in Identity /\ identity \in [Sandbox -> Identity]
      /\ launchEpoch \in [Route -> Nat] /\ SandboxOf \in [Route -> Sandbox]
  BY PoolAssumption DEF TypeInv, TypeOK
<1>1. ASSUME launchEpoch' = launchEpoch,
             \A t \in Sandbox : /\ identity'[t].generation = identity[t].generation
                                /\ identity'[t].epoch = identity[t].epoch
                                /\ identity'[t].lineage = identity[t].lineage
      PROVE  OwnInv'
  <2>1. RowsOK'
    BY <1>0, <1>1 DEF OwnInv, RowsOK, RowOK
  <2> QED
    BY <1>1, <2>1, OwnStep DEF OwnInv, PublishedOK
<1>2. CASE Quiesce(s) \/ RunAgain(s) \/ EndGeneration(s) \/ RotateToken(s)
  <2>1. \A t \in Sandbox : /\ identity'[t].generation = identity[t].generation
                           /\ identity'[t].epoch = identity[t].epoch
                           /\ identity'[t].lineage = identity[t].lineage
    BY <1>0, <1>2 DEF Quiesce, RunAgain, EndGeneration, RotateToken, Identity
  <2>2. launchEpoch' = launchEpoch
    BY <1>2 DEF Quiesce, RunAgain, EndGeneration, RotateToken
  <2> QED
    BY <1>1, <2>1, <2>2
<1>3. ASSUME NEW r \in Route, StartGeneration(s, r) PROVE OwnInv'
  <2> DEFINE n == [generation |-> r, epoch |-> id.epoch + 1, lineage |-> 0,
                   rotated |-> FALSE, phase |-> "running"]
  <2>1. /\ identity' = [identity EXCEPT ![s] = n] /\ SandboxOf[r] = s
        /\ launchEpoch[r] = 0
        /\ launchEpoch' = [launchEpoch EXCEPT ![r] = id.epoch + 1]
    BY <1>3 DEF StartGeneration
  <2>2. n.generation = r /\ n.epoch = id.epoch + 1 /\ n.lineage = 0
    OBVIOUS
  <2>3. id.epoch \in Nat
    BY <1>0 DEF Identity
  <2> HIDE DEF n
  <2>4. RowsOK'
    <3> SUFFICES ASSUME NEW q \in Route
                 PROVE  RowOK(q, owner[q], identity'[SandboxOf[q]], q \notin removed,
                              launchEpoch'[q])
      BY DEF RowsOK
    <3>1. RowOK(q, owner[q], identity[SandboxOf[q]], q \notin removed, launchEpoch[q])
      BY DEF OwnInv, RowsOK
    <3>2. CASE q = r
      <4>1. launchEpoch'[q] = id.epoch + 1 /\ identity'[SandboxOf[q]] = n
            /\ launchEpoch[q] = 0
        BY <1>0, <2>1, <3>2
      <4> QED
        BY <2>2, <2>3, <3>1, <4>1 DEF RowOK
    <3>3. CASE q # r
      <4>1. launchEpoch'[q] = launchEpoch[q]
        BY <1>0, <2>1, <3>3
      <4>2. identity'[SandboxOf[q]] = identity[SandboxOf[q]]
            \/ identity'[SandboxOf[q]] = n
        BY <1>0, <2>1, <3>3
      <4> QED
        BY <2>2, <3>1, <3>3, <4>1, <4>2 DEF RowOK
    <3> QED
      BY <3>2, <3>3
  <2>5. \A q \in Route : launchEpoch[q] # 0 => launchEpoch'[q] = launchEpoch[q]
    BY <1>0, <2>1
  <2> QED
    BY <2>4, <2>5, OwnStep DEF OwnInv, PublishedOK
<1> QED
  BY <1>2, <1>3

\* A step of the environment that changes instance records or withdrawals.
LEMMA OwnInstances ==
    ASSUME TypeInv, OwnInv, NEW r \in Route,
           \/ RecordPublished(r) \/ Fence(r)
           \/ \E g \in Replica :
                 Withdraw(g, r) \/ RemoveWithdrawn(g, r) \/ ForgetWithdrawal(g, r)
    PROVE  OwnInv'
<1>a. UNCHANGED <<owner, capacity, identity, launchEpoch, work, removed>>
  BY DEF RecordPublished, Fence, Withdraw, RemoveWithdrawn, ForgetWithdrawal,
         sandboxes, history
<1>b. /\ instance \in [Route -> InstanceRow]
      /\ withdrawn \in [Replica -> SUBSET Route]
  BY DEF TypeInv, TypeOK
<1>c. /\ NoInstance.phase = "none" /\ Published.phase = "published"
      /\ Published # NoInstance
  BY DEF NoInstance, Published
<1>1. RowsOK'
  BY <1>a DEF OwnInv, RowsOK
<1>2. \A q \in Route : instance'[q] \in {instance[q], NoInstance, Published}
  BY <1>b DEF RecordPublished, Fence, Withdraw, RemoveWithdrawn, ForgetWithdrawal
<1>3. \A q \in Route : WriterOK(instance'[q])
  BY <1>2, <1>c DEF OwnInv, PublishedOK, WriterOK
<1>4. ASSUME MayWithdraw = {}
      PROVE  /\ \A g \in Replica : withdrawn'[g] = {}
             /\ \A q \in Route : instance[q] = Published => instance'[q] = Published
  <2>1. \A g \in Replica : withdrawn[g] = {}
    BY <1>4 DEF OwnInv, PublishedOK
  <2>2. RecordPublished(r) \/ Fence(r)
    BY <1>4, <2>1 DEF Withdraw, RemoveWithdrawn, ForgetWithdrawal
  <2>3. withdrawn' = withdrawn
    BY <2>2 DEF RecordPublished, Fence
  <2> QED
    BY <1>b, <1>c, <2>1, <2>2, <2>3 DEF RecordPublished, Fence
<1> QED
  BY <1>a, <1>1, <1>3, <1>4, OwnStep

\* Steps of members and sandboxes leave them right.
LEMMA OwnEnvironment ==
    ASSUME TypeInv, OwnInv, Environment
    PROVE  OwnInv'
<1>1. ASSUME UNCHANGED <<owner, capacity, instance, identity, launchEpoch, withdrawn,
                         work, removed>>
      PROVE  OwnInv'
  BY <1>1 DEF OwnInv, WorkersOwn, RowsOK, ChargedExactly, RoomOK, PublishedOK,
              OwnersPublished
<1>2. CASE \/ \E m \in Member : RestartMember(m) \/ ExpireMember(m)
           \/ \E m \in Member, leaving \in BOOLEAN :
                 \E n \in 1..process[m] : WriteMember(m, n, leaving)
  BY <1>1, <1>2 DEF RestartMember, ExpireMember, WriteMember, sandboxes, history
<1>3. ASSUME NEW s \in Sandbox,
             \/ Quiesce(s) \/ RunAgain(s) \/ EndGeneration(s) \/ RotateToken(s)
             \/ \E r \in Route : StartGeneration(s, r)
      PROVE  OwnInv'
  <2>1. UNCHANGED <<owner, capacity, instance, withdrawn, work, removed>>
    BY <1>3 DEF Quiesce, RunAgain, EndGeneration, RotateToken, StartGeneration, history
  <2> QED
    BY <1>3, <2>1, OwnSandboxes
<1>4. ASSUME NEW r \in Route,
             \/ RecordPublished(r) \/ Fence(r)
             \/ \E g \in Replica :
                   Withdraw(g, r) \/ RemoveWithdrawn(g, r) \/ ForgetWithdrawal(g, r)
      PROVE  OwnInv'
  BY <1>4, OwnInstances
<1> QED
  BY <1>2, <1>3, <1>4 DEF Environment

\* A write that applies changes the record it was based on: while no record
\* of the route was removed, that is the record in force.
LEMMA WriteBase ==
    ASSUME TypeInv, OwnInv, NEW w \in Worker, WriteOwner(w)
    PROVE  /\ owner[work[w].route].version = work[w].before.version
           /\ work[w].route \notin removed => work[w].before = owner[work[w].route]
           /\ owner' = [owner EXCEPT ![work[w].route] = WrittenOwner(w)]
           /\ removed' = IF WrittenOwner(w).phase = "none"
                         THEN removed \cup {work[w].route} ELSE removed
           /\ Busy(work[w])
<1>1. Busy(work[w])
  BY DEF WriteOwner, Busy
<1>2. owner[work[w].route].version = work[w].before.version
  BY DEF WriteOwner, WriteApplies, SameVersion
<1>3. work[w].route \notin removed => work[w].before = owner[work[w].route]
  BY <1>1, <1>2, OwnFacts DEF CopyOK
<1> QED
  BY <1>1, <1>2, <1>3 DEF WriteOwner

\* The record a write leaves.
LEMMA WrittenFields ==
    ASSUME TypeInv, NEW w \in Worker, work[w].pc = "write"
    PROVE  /\ WrittenOwner(w) \in OwnerRow
           /\ WrittenOwner(w).phase = work[w].after.phase
           /\ WrittenOwner(w).phase = "none" => WrittenOwner(w) = NoOwner
           /\ WrittenOwner(w).phase # "none" =>
                 /\ WrittenOwner(w).version = work[w].before.version + 1
                 /\ WrittenOwner(w).epoch = work[w].after.epoch
                 /\ WrittenOwner(w).member = work[w].after.member
                 /\ WrittenOwner(w).member \in Member
           /\ WrittenOwner(w).phase = "granted" =>
                 WrittenOwner(w).id = work[w].after.id
<1> DEFINE a == work[w].after
           v == work[w].before.version + 1
           i == lastId + 1
<1>1. a \in OwnerRow
  BY DEF TypeInv, TypeOK, WorkOK, WorkState
<1>2. /\ WrittenOwner(w) \in OwnerRow /\ WrittenOwner(w).phase = a.phase
      /\ Names(WrittenOwner(w))
  BY WrittenType
<1>3. CASE a.phase = "none"
  BY <1>2, <1>3 DEF WrittenOwner
<1>4. CASE a.phase = "granting"
  <2>1. WrittenOwner(w) = [a EXCEPT !.version = v, !.id = i]
    BY <1>4 DEF WrittenOwner, NextVersion
  <2> HIDE DEF a, v, i
  <2>2. /\ WrittenOwner(w).version = v /\ WrittenOwner(w).epoch = a.epoch
        /\ WrittenOwner(w).member = a.member
    BY ONLY <1>1, <2>1 DEF OwnerRow
  <2> QED
    BY <1>2, <1>4, <2>2 DEF Names, v, a
<1>5. CASE a.phase = "granted"
  <2>1. WrittenOwner(w) = [a EXCEPT !.version = v]
    BY <1>5 DEF WrittenOwner, NextVersion
  <2> HIDE DEF a, v
  <2>2. /\ WrittenOwner(w).version = v /\ WrittenOwner(w).epoch = a.epoch
        /\ WrittenOwner(w).member = a.member /\ WrittenOwner(w).id = a.id
    BY ONLY <1>1, <2>1 DEF OwnerRow
  <2> QED
    BY <1>2, <1>5, <2>2 DEF Names, v, a
<1> QED
  BY <1>1, <1>3, <1>4, <1>5 DEF OwnerRow

\* A charged row was read with a free slot and a released one with the route
\* in it, and the rows that are written are still the rows that were read.
LEMMA WriteCharges ==
    ASSUME TypeInv, OwnInv, NEW w \in Worker, WriteOwner(w), NEW m \in Member
    PROVE  \/ /\ Charges(w) /\ m = work[w].after.member
              /\ capacity'[m].version = capacity[m].version + 1
              /\ capacity'[m].routes = capacity[m].routes \cup {work[w].route}
              /\ HasRoomFor(capacity[m], work[w].route)
           \/ /\ Releases(w) /\ m = work[w].before.member
              /\ m # work[w].after.member
              /\ capacity'[m].version = capacity[m].version + 1
              /\ capacity'[m].routes = capacity[m].routes \ {work[w].route}
           \/ /\ ~(Charges(w) /\ m = work[w].after.member)
              /\ ~(Releases(w) /\ m = work[w].before.member)
              /\ capacity'[m] = capacity[m]
<1> DEFINE me == work[w]
<1>0. /\ me.pc = "write" /\ WriteApplies(w)
      /\ capacity'[m] = WrittenCapacity(w, m)
  BY DEF WriteOwner
<1>1. Busy(me)
  BY <1>0 DEF Busy
<1>2. /\ TargetOK(me, owner[me.route], me.route \notin removed, capacity)
      /\ SourceOK(me, owner[me.route], me.route \notin removed, capacity)
  BY <1>1, OwnFacts
<1>3. CASE Charges(w) /\ m = me.after.member
  <2>0. ~(Releases(w) /\ m = me.before.member)
    BY <1>3 DEF Releases, Leaves
  <2>1. capacity'[m] = [version |-> me.target.version + 1,
                        routes |-> me.target.routes \cup {me.route}]
    BY <1>0, <1>3, <2>0, Zenon DEF WrittenCapacity, NextVersion
  <2>2. capacity[m].version = me.target.version
    BY <1>0, <1>3 DEF WriteApplies, SameVersion
  <2>3. me.target = capacity[m] /\ HasRoomFor(me.target, me.route)
    BY <1>0, <1>2, <1>3, <2>2 DEF TargetOK, CapacityCopy, Charges
  <2> QED
    BY <1>3, <2>1, <2>3
<1>4. CASE ~(Charges(w) /\ m = me.after.member) /\ Releases(w) /\ m = me.before.member
  <2>1. capacity'[m] = [version |-> me.source.version + 1,
                        routes |-> me.source.routes \ {me.route}]
    BY <1>0, <1>4 DEF WrittenCapacity, NextVersion
  <2>2. capacity[m].version = me.source.version
    BY <1>0, <1>4 DEF WriteApplies, SameVersion
  <2>3. m \notin {NoMember, me.after.member}
    BY <1>4 DEF Releases, Leaves
  <2>4. me.source = capacity[m]
    BY <1>0, <1>2, <1>4, <2>2, <2>3 DEF SourceOK, CapacityCopy
  <2> QED
    BY <1>4, <2>1, <2>3, <2>4
<1>5. CASE /\ ~(Charges(w) /\ m = me.after.member)
           /\ ~(Releases(w) /\ m = me.before.member)
  BY <1>0, <1>5 DEF WrittenCapacity
<1> QED
  BY <1>3, <1>4, <1>5

\* The atomic write keeps the charges exact and within the limit.
LEMMA WriteKeepsCharges ==
    ASSUME TypeInv, OwnInv, NEW w \in Worker, WriteOwner(w)
    PROVE  /\ \A m \in Member :
                 /\ capacity'[m].version >= capacity[m].version
                 /\ capacity'[m].version = capacity[m].version =>
                       capacity'[m] = capacity[m]
           /\ ChargedExactly'
           /\ RoomOK'
<1> DEFINE me == work[w]
           r == me.route
           written == WrittenOwner(w)
<1>0. me.pc = "write" /\ Busy(me)
  BY DEF WriteOwner, Busy
<1>1. /\ r \in Route /\ me.before \in OwnerRow /\ me.after \in OwnerRow
      /\ owner \in [Route -> OwnerRow]
      /\ capacity \in [Member -> CapacityRow]
      /\ TargetOK(me, owner[r], r \notin removed, capacity)
      /\ SourceOK(me, owner[r], r \notin removed, capacity)
  BY <1>0, OwnFacts DEF TypeInv, TypeOK
<1>2. \A m \in Member : capacity[m].version \in Nat /\ capacity[m].routes \subseteq Route
  BY <1>1 DEF CapacityRow
<1>3. \A m \in Member : \A q \in Route :
         q # r => (q \in capacity'[m].routes <=> q \in capacity[m].routes)
  BY WriteCharges
<1>4. ChargedExactly'
  <2> SUFFICES ASSUME NEW q \in Route, q \notin removed', NEW m \in Member
               PROVE  q \in capacity'[m].routes <=> owner'[q].member = m
    BY DEF ChargedExactly
  <2>1. q \notin removed
    BY WriteBase
  <2>2. q \in capacity[m].routes <=> owner[q].member = m
    BY <2>1 DEF OwnInv, ChargedExactly
  <2>3. CASE q # r
    <3>1. owner'[q] = owner[q]
      BY <1>1, <2>3, WriteBase
    <3> QED
      BY <1>3, <2>2, <2>3, <3>1
  <2>4. CASE q = r
    <3>1. /\ me.before = owner[r] /\ me.before.version = owner[r].version
          /\ owner'[r] = written /\ written.phase # "none"
      BY <1>1, <2>1, <2>4, WriteBase
    <3>2. me.after.phase # "none" /\ written.member = me.after.member
      BY <1>0, <3>1, WrittenFields
    <3>3. /\ r \in me.target.routes <=> me.before.member = me.after.member
          /\ me.before.member \notin {NoMember, me.after.member} => r \in me.source.routes
      BY <1>0, <1>1, <2>1, <2>4, <3>1, <3>2 DEF TargetOK, SourceOK
    <3>4. /\ Charges(w) <=> me.before.member # me.after.member
          /\ Releases(w) <=> me.before.member \notin {NoMember, me.after.member}
      BY <3>2, <3>3 DEF Charges, Releases, Leaves
    <3>5. m # NoMember
      BY PoolAssumption
    <3> QED
      BY <2>2, <2>4, <3>1, <3>2, <3>4, <3>5, WriteCharges
  <2> QED
    BY <2>3, <2>4
<1>5. RoomOK'
  <2> SUFFICES ASSUME NEW m \in Member
               PROVE  Cardinality(capacity'[m].routes) <= MaxAssigned
    BY DEF RoomOK
  <2> DEFINE old == capacity[m].routes
             new == capacity'[m].routes
  <2>1. Cardinality(old) <= MaxAssigned
    BY DEF OwnInv, RoomOK
  <2>2. IsFiniteSet(old)
    BY <1>2, PoolAssumption, FS_Subset
  <2>3. Cardinality(old) \in Nat /\ MaxAssigned \in Nat
    BY <2>2, FS_CardinalityType, PoolAssumption
  <2>4. \/ new = old \cup {r} /\ (r \in old \/ Cardinality(old) < MaxAssigned)
        \/ new \subseteq old
    BY WriteCharges DEF HasRoomFor
  <2> HIDE DEF old, new
  <2>5. CASE new = old \cup {r} /\ (r \in old \/ Cardinality(old) < MaxAssigned)
    <3>1. Cardinality(old \cup {r}) =
             IF r \in old THEN Cardinality(old) ELSE Cardinality(old) + 1
      BY <2>2, FS_AddElement
    <3>2. Cardinality(new) = Cardinality(old \cup {r})
      BY <2>5
    <3> QED
      BY <2>1, <2>3, <2>5, <3>1, <3>2 DEF new
  <2>6. CASE new \subseteq old
    <3>1. Cardinality(new) <= Cardinality(old) /\ Cardinality(new) \in Nat
      BY <2>2, <2>6, FS_Subset, FS_CardinalityType
    <3> QED
      BY <2>1, <2>3, <3>1 DEF new
  <2> QED
    BY <2>4, <2>5, <2>6
<1>6. \A m \in Member :
         /\ capacity'[m].version >= capacity[m].version
         /\ capacity'[m].version = capacity[m].version => capacity'[m] = capacity[m]
  BY <1>2, WriteCharges
<1> QED
  BY <1>4, <1>5, <1>6

\* The term a write leaves follows the one in force, and is granted only when
\* the sandbox is at it: a takeover is granted with the id of its intent, and
\* the sandbox moved to that intent before and cannot have moved past it.
LEMMA WriteKeepsTerms ==
    ASSUME TypeInv, FenceInv, OwnInv, NEW w \in Worker, WriteOwner(w)
    PROVE  /\ RowsOK'
           /\ work[w].route \notin removed' =>
                 /\ WrittenOwner(w).epoch >= owner[work[w].route].epoch
                 /\ WrittenOwner(w).version = owner[work[w].route].version + 1
<1> DEFINE me == work[w]
           r == me.route
           row == owner[r]
           s == SandboxOf[r]
           id == identity[s]
           written == WrittenOwner(w)
           start == launchEpoch[r]
<1>0. me.pc = "write" /\ Busy(me) /\ (w \in Launch \/ w \in Replica)
  BY DEF WriteOwner, Busy, Worker
<1>1. /\ r \in Route /\ me.before \in OwnerRow /\ me.after \in OwnerRow
      /\ row \in OwnerRow /\ start # 0 /\ start \in Nat /\ id \in Identity
      /\ w \in Launch => LaunchTerm(me, start)
      /\ w \in Replica => PassTerm(me, row, r \notin removed, start)
  BY <1>0, OwnFacts, PoolAssumption DEF TypeInv, TypeOK
<1>2. /\ row.epoch \in Nat /\ row.version \in Nat /\ me.before.epoch \in Nat
      /\ id.epoch \in Nat /\ me.base \in Nat /\ me.after.epoch \in Nat
      /\ me.after.phase \in {"none", "granting", "granted"}
      /\ me.before.phase \in {"none", "granting", "granted"}
  BY <1>1 DEF OwnerRow, Identity, TypeInv, TypeOK, WorkState
<1>3. /\ owner' = [owner EXCEPT ![r] = written]
      /\ removed' = IF written.phase = "none" THEN removed \cup {r} ELSE removed
      /\ r \notin removed => me.before = row
      /\ UNCHANGED <<identity, launchEpoch>>
  BY WriteBase DEF WriteOwner, sandboxes
<1>4. /\ written.phase = me.after.phase
      /\ written.phase = "none" => written = NoOwner
      /\ written.phase # "none" => /\ written.version = me.before.version + 1
                                   /\ written.epoch = me.after.epoch
      /\ written.phase = "granted" => written.id = me.after.id
  BY <1>0, WrittenFields
<1>5. RowOK(r, row, id, r \notin removed, start)
  BY <1>1 DEF OwnInv, RowsOK
<1>6. NoOwner.epoch = 0 /\ NoOwner.phase = "none" /\ NoOwner.version = 0
  BY DEF NoOwner
<1> HIDE DEF written
<1>7. ASSUME r \notin removed'
      PROVE  /\ written.epoch >= row.epoch
             /\ written.version = row.version + 1
             /\ id.generation = r =>
                   /\ id.epoch <= written.epoch
                   /\ written.phase = "granted" =>
                         id.epoch = written.epoch /\ id.lineage = written.id
  <2>1. /\ r \notin removed /\ written.phase # "none" /\ me.before = row
        /\ written.epoch = me.after.epoch
        /\ written.version = row.version + 1
    BY <1>3, <1>4, <1>7
  <2>2. CASE w \in Launch
    <3>1. /\ row = NoOwner /\ written.phase = "granted"
          /\ written.epoch = start /\ written.id = 0
      BY <1>1, <1>2, <1>4, <2>1, <2>2 DEF LaunchTerm
    <3>2. id.generation = r => id.epoch = start /\ id.lineage = 0
      BY <1>5, <1>6, <2>1, <3>1 DEF RowOK
    <3> QED
      BY <1>1, <1>2, <1>6, <2>1, <3>1, <3>2
  <2>3. CASE w \in Replica /\ written.phase = "granted"
    <3>1. /\ row.phase = "granting"
          /\ written.epoch = row.epoch /\ written.id = me.before.id
          /\ me.after.id = me.before.id /\ me.after.epoch = me.before.epoch
      BY <1>1, <1>4, <2>1, <2>3 DEF PassTerm
    <3>2. id.generation = r => id.epoch <= row.epoch
      BY <1>5, <2>1, <3>1 DEF RowOK
    <3>3. me.before.id # 0 /\ RecordOK(me.after, r, identity, intents)
      BY <2>1, <3>1 DEF FenceInv, WorkFenced
    <3>4. Fenced(row.epoch, me.before.id, r, id)
      BY <1>4, <2>1, <2>3, <3>1, <3>3 DEF RecordOK
    <3> QED
      BY <1>2, <2>1, <3>1, <3>2, <3>4 DEF Fenced
  <2>4. CASE w \in Replica /\ written.phase = "granting"
    <3>1. /\ written.epoch = me.base + 1
          /\ row.phase # "granting"
          /\ row.phase = "granted" => me.base = row.epoch
      BY <1>1, <1>4, <2>1, <2>4 DEF PassTerm
    <3>2. row.phase = "none" => row = NoOwner
      BY <1>5 DEF RowOK
    <3>3. row.phase = "none" => me.base = start
      BY <1>1, <1>4, <1>6, <2>1, <2>4, <3>2 DEF PassTerm
    <3>4. id.generation = r => id.epoch <= me.base
      <4>1. CASE row.phase = "none"
        BY <1>2, <1>5, <2>1, <3>3, <4>1 DEF RowOK
      <4>2. CASE row.phase = "granted"
        BY <1>2, <1>5, <2>1, <3>1, <4>2 DEF RowOK
      <4> QED
        BY <1>2, <2>1, <3>1, <4>1, <4>2
    <3>5. written.epoch >= row.epoch
      BY <1>2, <1>6, <2>1, <3>1, <3>2, <3>3
    <3> QED
      BY <1>2, <2>1, <2>4, <3>1, <3>4, <3>5
  <2> QED
    BY <1>0, <1>2, <1>4, <2>1, <2>2, <2>3, <2>4
<1>8. RowsOK'
  <2> SUFFICES ASSUME NEW q \in Route
               PROVE  RowOK(q, owner'[q], identity[SandboxOf[q]], q \notin removed',
                            launchEpoch[q])
    BY <1>3 DEF RowsOK
  <2>1. CASE q # r
    <3>1. owner'[q] = owner[q] /\ (q \notin removed' <=> q \notin removed)
      BY <1>3, <2>1 DEF TypeInv, TypeOK
    <3>2. RowOK(q, owner[q], identity[SandboxOf[q]], q \notin removed, launchEpoch[q])
      BY DEF OwnInv, RowsOK
    <3> QED
      BY <3>1, <3>2 DEF RowOK
  <2>2. CASE q = r
    <3>1. owner'[r] = written
      BY <1>1, <1>3 DEF TypeInv, TypeOK
    <3>2. r \notin removed' => written.phase # "none"
      BY <1>3
    <3> QED
      BY <1>1, <1>4, <1>7, <2>2, <3>1, <3>2 DEF RowOK
  <2> QED
    BY <2>1, <2>2
<1>9. r \notin removed' => /\ written.epoch >= row.epoch
                          /\ written.version = row.version + 1
  BY <1>7
<1> QED
  BY <1>8, <1>9 DEF written

\* A worker that had read the record before a write finds its copy outdated,
\* if it is one of the same route, and its copies of capacity rows outdated
\* or right.
LEMMA OthersOwn ==
    ASSUME NEW v, NEW x, NEW r,
           WorkOwns(v, x, owner, capacity, removed, launchEpoch, instance),
           Busy(x) => /\ x.before.version \in Nat /\ x.before.epoch \in Nat
                      /\ x.after.phase # "none" => x.after.member \in Member
                      /\ x.before.member \in Member \cup {NoMember}
                      /\ x.target.version \in Nat /\ x.source.version \in Nat
                      /\ owner[x.route].version \in Nat /\ owner[x.route].epoch \in Nat
                      /\ owner'[x.route].epoch \in Nat,
           removed \subseteq removed', removed' \subseteq removed \cup {r},
           Busy(x) /\ x.route # r => /\ owner'[x.route] = owner[x.route]
                                     /\ instance'[x.route] = instance[x.route],
           r \notin removed' =>
              /\ owner'[r].version = owner[r].version + 1
              /\ owner'[r].epoch >= owner[r].epoch,
           instance'[r] \in {instance[r], Published},
           \A m \in Member :
              /\ capacity[m].version \in Nat /\ capacity'[m].version \in Nat
              /\ capacity'[m].version >= capacity[m].version
              /\ capacity'[m].version = capacity[m].version => capacity'[m] = capacity[m]
    PROVE  WorkOwns(v, x, owner', capacity', removed', launchEpoch, instance')
<1> SUFFICES ASSUME Busy(x)
             PROVE  WorkOwns(v, x, owner', capacity', removed', launchEpoch, instance')
  BY DEF WorkOwns
<1> DEFINE q == x.route
<1>1. /\ launchEpoch[q] # 0
      /\ q \notin removed => CopyOK(x, owner[q])
      /\ TargetOK(x, owner[q], q \notin removed, capacity)
      /\ SourceOK(x, owner[q], q \notin removed, capacity)
      /\ v \in Launch => LaunchTerm(x, launchEpoch[q])
      /\ v \in Replica => PassTerm(x, owner[q], q \notin removed, launchEpoch[q])
      /\ InstanceOK(v, x, instance[q])
  BY DEF WorkOwns
<1>2. ASSUME NEW copy, copy.version \in Nat, NEW m \in Member, CapacityCopy(copy, capacity[m])
      PROVE  CapacityCopy(copy, capacity'[m])
  BY <1>2 DEF CapacityCopy
<1>3. q \notin removed' =>
        /\ q \notin removed /\ CopyOK(x, owner'[q])
        /\ x.before.version = owner'[q].version =>
              x.before.version = owner[q].version /\ owner'[q] = owner[q]
        /\ owner'[q].version = 0 => owner'[q] = owner[q]
  <2>1. CASE q # r
    BY <1>1, <2>1
  <2>2. CASE q = r
    BY <1>1, <2>2 DEF CopyOK
  <2> QED
    BY <2>1, <2>2
<1>4. TargetOK(x, owner'[q], q \notin removed', capacity')
  BY <1>1, <1>2, <1>3 DEF TargetOK
<1>5. SourceOK(x, owner'[q], q \notin removed', capacity')
  BY <1>1, <1>2, <1>3 DEF SourceOK
<1>6. v \in Replica => PassTerm(x, owner'[q], q \notin removed', launchEpoch[q])
  BY <1>1, <1>3 DEF PassTerm
<1>7. InstanceOK(v, x, instance'[q])
  <2>1. instance'[q] \in {instance[q], Published}
    OBVIOUS
  <2> QED
    BY <1>1, <2>1 DEF InstanceOK
<1> QED
  BY <1>1, <1>3, <1>4, <1>5, <1>6, <1>7 DEF WorkOwns

\* The step that writes owner record, capacity rows and instance at once.
LEMMA OwnWriteOwner ==
    ASSUME TypeInv, TypeInv', FenceInv, OwnInv, NEW w \in Worker, WriteOwner(w)
    PROVE  OwnInv'
<1> DEFINE me == work[w]
           r == me.route
           row == owner[r]
           written == WrittenOwner(w)
<1>0. /\ me.pc = "write" /\ Busy(me) /\ w \in Launch \cup Replica
      /\ (w \in Launch <=> w \notin Replica)
  BY PoolAssumption DEF WriteOwner, Busy, Worker
<1>1. /\ r \in Route /\ me \in WorkState /\ me.before \in OwnerRow /\ row \in OwnerRow
      /\ launchEpoch[r] # 0
      /\ r \notin removed => CopyOK(me, row)
      /\ InstanceOK(w, me, instance[r])
      /\ owner \in [Route -> OwnerRow] /\ instance \in [Route -> InstanceRow]
      /\ work \in [Worker -> WorkState]
  BY <1>0, OwnFacts DEF TypeInv, TypeOK
<1>2. /\ owner' = [owner EXCEPT ![r] = written]
      /\ owner'[r] = written
      /\ removed' = IF written.phase = "none" THEN removed \cup {r} ELSE removed
      /\ instance' = IF Admits(w) THEN [instance EXCEPT ![r] = Published] ELSE instance
      /\ UNCHANGED <<launchEpoch, withdrawn>>
      /\ work' \in {[work EXCEPT ![w] = AfterWrite(w)],
                    [work EXCEPT ![w] = Holding(w, "view", me.before)]}
      /\ w \notin Replica => work' = [work EXCEPT ![w] = AfterWrite(w)]
  BY <1>1, WriteBase DEF WriteOwner, sandboxes
<1>3. /\ written \in OwnerRow /\ written.phase = me.after.phase
  BY <1>0, WrittenFields
<1>4. r \notin removed' =>
        /\ written.epoch >= row.epoch /\ written.version = row.version + 1
  BY WriteKeepsTerms
<1>5. /\ \A q \in Route : instance'[q] \in {instance[q], Published}
      /\ \A q \in Route : q # r => instance'[q] = instance[q] /\ owner'[q] = owner[q]
      /\ MayWithdraw = {} /\ written.phase # "none" => instance'[r] = Published
  <2>1. \A q \in Route : instance'[q] \in {instance[q], Published}
    BY <1>1, <1>2
  <2>2. \A q \in Route : q # r => instance'[q] = instance[q] /\ owner'[q] = owner[q]
    BY <1>1, <1>2
  <2>3. ASSUME MayWithdraw = {}, written.phase # "none" PROVE instance'[r] = Published
    <3>1. Admits(w) \/ instance[r] = Published
      BY <1>0, <1>1, <1>3, <2>3 DEF InstanceOK, Admits
    <3> QED
      BY <1>1, <1>2, <3>1
  <2> QED
    BY <2>1, <2>2, <2>3
<1> HIDE DEF written
<1>6. PublishedOK'
  <2>1. WriterOK(Published)
    BY DEF WriterOK, Published, NoInstance
  <2>2. \A q \in Route : WriterOK(instance'[q])
    BY <1>5, <2>1 DEF OwnInv, PublishedOK
  <2>3. OwnersPublished'
    BY <1>1, <1>2, <1>5 DEF OwnInv, PublishedOK, OwnersPublished
  <2> QED
    BY <1>2, <2>2, <2>3 DEF OwnInv, PublishedOK
<1>7. \A m \in Member :
         /\ capacity[m].version \in Nat /\ capacity'[m].version \in Nat
         /\ capacity'[m].version >= capacity[m].version
         /\ capacity'[m].version = capacity[m].version => capacity'[m] = capacity[m]
  <2>1. \A m \in Member : capacity[m] \in CapacityRow /\ capacity'[m] \in CapacityRow
    BY DEF TypeInv, TypeOK
  <2> QED
    BY <2>1, WriteKeepsCharges DEF CapacityRow
<1>8. ASSUME NEW v \in Worker, work'[v] = work[v]
      PROVE  WorkOwns(v, work[v], owner', capacity', removed', launchEpoch, instance')
  <2> DEFINE x == work[v]
  <2>1. WorkOwns(v, x, owner, capacity, removed, launchEpoch, instance)
    BY DEF OwnInv, WorkersOwn
  <2>2. ASSUME Busy(x)
        PROVE  /\ x.before.version \in Nat /\ x.before.epoch \in Nat
               /\ x.after.phase # "none" => x.after.member \in Member
               /\ x.before.member \in Member \cup {NoMember}
               /\ x.target.version \in Nat /\ x.source.version \in Nat
               /\ owner[x.route].version \in Nat /\ owner[x.route].epoch \in Nat
               /\ owner'[x.route].epoch \in Nat /\ x.route \in Route
    <3>1. /\ x.route \in Route /\ x.before \in OwnerRow /\ x.after \in OwnerRow
          /\ x.target \in CapacityRow /\ x.source \in CapacityRow
          /\ Names(x.after)
          /\ owner[x.route] \in OwnerRow /\ owner'[x.route] \in OwnerRow
      BY <2>2 DEF TypeInv, TypeOK, WorkOK, WorkState, Busy
    <3> QED
      BY <3>1 DEF OwnerRow, CapacityRow, Names
  <2>3. removed \subseteq removed' /\ removed' \subseteq removed \cup {r}
    BY <1>2
  <2>4. Busy(x) /\ x.route # r => /\ owner'[x.route] = owner[x.route]
                                  /\ instance'[x.route] = instance[x.route]
    BY <1>5, <2>2
  <2>5. r \notin removed' => /\ owner'[r].version = owner[r].version + 1
                             /\ owner'[r].epoch >= owner[r].epoch
    BY <1>2, <1>4
  <2>6. instance'[r] \in {instance[r], Published}
    BY <1>1, <1>5
  <2> HIDE DEF x, r
  <2>7. WorkOwns(v, x, owner', capacity', removed', launchEpoch, instance')
    BY <1>7, <2>1, <2>2, <2>3, <2>4, <2>5, <2>6, OthersOwn
  <2> QED
    BY <2>7 DEF x
<1>9. ASSUME w \in Replica, NEW pc \in {"view", "remove", "advance"},
             NEW record \in {written, me.before},
             pc = "advance" => written.phase # "none"
      PROVE  WorkOwns(w, Holding(w, pc, record), owner', capacity', removed',
                      launchEpoch, instance')
  <2>1. /\ written.version \in Nat /\ written.epoch \in Nat /\ row.version \in Nat
        /\ row.epoch \in Nat /\ me.before.version \in Nat /\ me.before.epoch \in Nat
    BY <1>1, <1>3 DEF OwnerRow
  <2>2. r \notin removed' => r \notin removed
    BY <1>2
  <2>3. r \notin removed' =>
           /\ record.version <= owner'[r].version
           /\ record.epoch <= owner'[r].epoch
           /\ record.version = owner'[r].version => record = owner'[r]
    <3>1. CASE record = written
      BY <1>2, <2>1, <3>1
    <3>2. CASE record = me.before
      BY <1>1, <1>2, <1>4, <2>1, <2>2, <3>2 DEF CopyOK
    <3> QED
      BY <3>1, <3>2
  <2>4. pc = "advance" /\ MayWithdraw = {} => instance'[r] = Published
    BY <1>5, <1>9
  <2> QED
    BY <1>1, <1>9, <2>3, <2>4, HoldingOwns
<1>10. WorkOwns(w, work'[w], owner', capacity', removed', launchEpoch, instance')
  <2>1. CASE work'[w] = AfterWrite(w)
    <3>1. CASE w \in Launch
      BY <2>1, <3>1, EndedOwns DEF AfterWrite
    <3>2. CASE w \in Replica
      <4>1. work'[w] = Holding(w, IF me.after.phase = "granting" THEN "advance"
                                  ELSE "view", written)
        BY <1>0, <2>1, <3>2 DEF AfterWrite, written
      <4>2. CASE me.after.phase = "granting"
        BY <1>3, <1>9, <3>2, <4>1, <4>2
      <4>3. CASE me.after.phase # "granting"
        BY <1>9, <3>2, <4>1, <4>3
      <4> QED
        BY <4>2, <4>3
    <3> QED
      BY <1>0, <3>1, <3>2
  <2>2. CASE w \in Replica /\ work'[w] = Holding(w, "view", me.before)
    BY <1>9, <2>2
  <2> QED
    BY <1>1, <1>2, <2>1, <2>2
<1>11. WorkersOwn'
  <2> SUFFICES ASSUME NEW v \in Worker
               PROVE  WorkOwns(v, work'[v], owner', capacity', removed', launchEpoch,
                               instance')
    BY <1>2 DEF WorkersOwn
  <2>1. CASE v = w
    BY <1>10, <2>1
  <2>2. CASE v # w
    <3>1. work'[v] = work[v]
      BY <1>1, <1>2, <2>2
    <3> QED
      BY <1>8, <3>1
  <2> QED
    BY <2>1, <2>2
<1> QED
  BY <1>6, <1>11, WriteKeepsCharges, WriteKeepsTerms DEF OwnInv

\* Every step leaves them right.
LEMMA OwnNext ==
    TypeInv /\ TypeInv' /\ FenceInv /\ OwnInv /\ [Next]_vars => OwnInv'
<1> SUFFICES ASSUME TypeInv, TypeInv', FenceInv, OwnInv, [Next]_vars PROVE OwnInv'
  OBVIOUS
<1>1. CASE Environment
  BY <1>1, OwnEnvironment
<1>2. ASSUME NEW w \in Worker, Change(w) \/ Fail(w) PROVE OwnInv'
  BY <1>2, OwnChangeReads, OwnWriteOwner DEF Change
<1>3. ASSUME NEW g \in Replica, Reconcile(g) PROVE OwnInv'
  BY <1>3, OwnPassReads, OwnCompleteTakeover DEF Reconcile
<1>4. ASSUME NEW l \in Launch, PlaceLaunch(l) PROVE OwnInv'
  BY <1>4, OwnPlaceLaunch
<1>5. CASE UNCHANGED vars
  BY <1>5 DEF vars, OwnInv, WorkersOwn, RowsOK, ChargedExactly, RoomOK, PublishedOK,
              OwnersPublished
<1> QED
  BY <1>1, <1>2, <1>3, <1>4, <1>5 DEF Next

\* The invariants of the pool together.
LEMMA Owning == Spec => [](TypeInv /\ FenceInv /\ OwnInv)
  BY TypeInit, TypeNext, FenceInit, FenceNext, OwnInit, OwnNext, PTL DEF Spec

\* Every sequence of launches, takeovers, moves, conflicts and crashes leaves
\* exactly the member the owner record names charged for the route, until an
\* owner record of it is removed: transition_admitting writes the record and
\* both capacity rows at once, on the versions it read.
THEOREM ChargesExact == Spec => []ChargedExactly
<1>1. OwnInv => ChargedExactly
  BY DEF OwnInv
<1> QED
  BY <1>1, Owning, PTL

\* has_room_for is asked of a row read before the write, by workers that do
\* not know of each other; no member ever owns more than MaxAssigned routes.
THEOREM CapacityNeverExceeded == Spec => []CapacityBounded
<1>1. ASSUME TypeInv, OwnInv PROVE CapacityBounded
  <2> SUFFICES ASSUME NEW m \in Member
               PROVE  Cardinality({r \in Route \ removed : owner[r].member = m})
                         <= MaxAssigned
    BY DEF CapacityBounded
  <2> DEFINE owned == {r \in Route \ removed : owner[r].member = m}
             charged == capacity[m].routes
  <2>1. owned \subseteq charged
    BY <1>1 DEF OwnInv, ChargedExactly
  <2>2. charged \subseteq Route
    BY <1>1 DEF TypeInv, TypeOK, CapacityRow
  <2>3. IsFiniteSet(charged)
    BY <2>2, PoolAssumption, FS_Subset
  <2>4. Cardinality(charged) <= MaxAssigned
    BY <1>1 DEF OwnInv, RoomOK
  <2> HIDE DEF owned, charged
  <2>5. Cardinality(owned) <= Cardinality(charged) /\ IsFiniteSet(owned)
    BY <2>1, <2>3, FS_Subset
  <2>6. Cardinality(owned) \in Nat /\ Cardinality(charged) \in Nat
    BY <2>3, <2>5, FS_CardinalityType
  <2>7. Cardinality(owned) <= MaxAssigned
    BY <2>4, <2>5, <2>6, PoolAssumption
  <2> QED
    BY <2>7 DEF owned
<1> QED
  BY <1>1, Owning, PTL

\* complete_takeover advances the sandbox before it grants, and a grant that
\* lost a race is refused: a granted record of the sandbox's generation is at
\* the term the sandbox's credentials are at.
THEOREM GrantedInForce == Spec => []GrantedTermInForce
<1>1. ASSUME OwnInv PROVE GrantedTermInForce
  BY <1>1 DEF OwnInv, RowsOK, RowOK, GrantedTermInForce
<1> QED
  BY <1>1, Owning, PTL

\* place_launch admits the instance in the write that makes its owner, and a
\* pass takes over published instances only.
THEOREM OwnersArePublished == Spec => []OwnersPublished
<1>1. OwnInv => OwnersPublished
  BY DEF OwnInv, PublishedOK
<1> QED
  BY <1>1, Owning, PTL

\* Whichever of several stale workers writes next, the term of a route never
\* goes back.
THEOREM TermsOnlyAdvance == Spec => TermsAdvance
<1> DEFINE Advance == \A r \in Route : r \notin removed' =>
                         owner'[r].epoch >= owner[r].epoch
<1>1. ASSUME TypeInv, FenceInv, OwnInv, [Next]_vars PROVE [Advance]_vars
  <2>0. owner \in [Route -> OwnerRow] /\ \A r \in Route : owner[r].epoch \in Nat
    BY <1>1 DEF TypeInv, TypeOK, OwnerRow
  <2>1. CASE owner' = owner
    BY <2>0, <2>1
  <2>2. ASSUME NEW w \in Worker, WriteOwner(w) PROVE Advance
    <3>1. owner' = [owner EXCEPT ![work[w].route] = WrittenOwner(w)]
      BY <1>1, <2>2, WriteBase
    <3>2. work[w].route \notin removed' =>
             WrittenOwner(w).epoch >= owner[work[w].route].epoch
      BY <1>1, <2>2, WriteKeepsTerms
    <3> SUFFICES ASSUME NEW r \in Route, r \notin removed'
                 PROVE  owner'[r].epoch >= owner[r].epoch
      OBVIOUS
    <3>3. CASE r = work[w].route
      BY <2>0, <3>1, <3>2, <3>3
    <3>4. CASE r # work[w].route
      BY <2>0, <3>1, <3>4
    <3> QED
      BY <3>3, <3>4
  <2>3. owner' = owner \/ \E w \in Worker : WriteOwner(w)
    <3>1. ASSUME NEW w \in Worker, Change(w) \/ Fail(w)
          PROVE  owner' = owner \/ WriteOwner(w)
      BY <3>1 DEF Change, Fail, ChooseTarget, NoTarget, ReadTarget, ReadSource,
                  WriteConflicts
    <3>2. ASSUME NEW g \in Replica, Reconcile(g) PROVE owner' = owner
      BY <3>2 DEF Reconcile, ListMembers, ListOwners, ListInstances, ConfirmFailure,
                  LeaveOwner, ReadIdentity, RemoveOwner, CompleteTakeover, View
    <3>3. ASSUME NEW l \in Launch, PlaceLaunch(l) PROVE owner' = owner
      BY <3>3 DEF PlaceLaunch, ListTargets, RecordAdmitting, GiveUpAdmission
    <3>4. CASE Environment
      BY <3>4 DEF Environment, RestartMember, ExpireMember, WriteMember, Quiesce,
                  RunAgain, EndGeneration, RotateToken, StartGeneration,
                  RecordPublished, Fence, Withdraw, RemoveWithdrawn, ForgetWithdrawal
    <3>5. CASE UNCHANGED vars
      BY <3>5 DEF vars
    <3> QED
      BY <1>1, <3>1, <3>2, <3>3, <3>4, <3>5 DEF Next
  <2> QED
    BY <2>1, <2>2, <2>3
<1> QED
  BY <1>1, Owning, PTL DEF Spec, TermsAdvance

=============================================================================
