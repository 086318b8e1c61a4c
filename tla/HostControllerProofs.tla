------------------------- MODULE HostControllerProofs -------------------------
(***************************************************************************)
(* The controller's safety properties for any routes, members and bounds,   *)
(* and that it implements ServedView.                                       *)
(***************************************************************************)
EXTENDS HostController, TLAPS

AnyOwner == Owner \cup {NoOwner}
ViewType == [desired : SUBSET Route, owners : [Route -> AnyOwner],
             assignments : SUBSET Route]
PassType == [at : {"idle", "removing", "stamped", "owners", "records",
                   "materials"},
             todo : SUBSET Route, owners : [Route -> AnyOwner],
             desired : SUBSET Route]
LaunchType == [step : {"none", "recorded", "placed", "done", "refused",
                       "dropped"},
               member : Member \cup {NoMember}]

CtrlTypes ==
    /\ record \in [Route -> {"absent", "published", "removed"}]
    /\ owner \in [Route -> AnyOwner]
    /\ term \in [Route -> 0..MaxEpoch]
    /\ launch \in [Route -> LaunchType]
    /\ loaded \in BOOLEAN
    /\ revision \in Nat
    /\ view \in ViewType
    /\ assigned \in [Route -> Nat]
    /\ ownedSince \in [Route -> Nat]
    /\ stopping \in [Route -> Member \cup {NoMember}]
    /\ placed \in [Route -> AnyOwner]
    /\ launched \in SUBSET Route
    /\ withdrawals \in SUBSET Route
    /\ served \in SUBSET Member
    /\ materials \in SUBSET Route
    /\ pass \in PassType
    /\ faults \in 0..MaxFault
    /\ ended \in SUBSET Route

Reading == pass.at \in {"owners", "records", "materials"}
Listed == pass.at \in {"records", "materials"}
LaunchTerm(r) == Term(launch[r].member, 1)

\* Launches know their member, nothing is known of an absent instance, and a
\* term that is still an intent is not a launch term.
LaunchOK(r) ==
    /\ launch[r].step # "none" => launch[r].member \in Member
    /\ record[r] = "published" => term[r] >= 1
    /\ ~owner[r].granted => owner[r] = NoOwner \/ owner[r].epoch >= 2
    /\ record[r] = "absent" =>
          /\ owner[r] = NoOwner /\ launch[r].step = "none"
          /\ pass.owners[r] = NoOwner
          /\ r \notin view.desired \cup pass.desired \cup launched

\* An instance withdrawn here: the withdrawal is pending or the record gone,
\* and nothing brings it back.
EndedOK(r) ==
    /\ r \in withdrawals => r \in ended
    /\ r \in ended =>
          /\ record[r] # "absent"
          /\ launch[r].step \notin {"recorded", "placed"}
          /\ r \in withdrawals \/ record[r] = "removed"
          /\ r \in pass.desired => r \in withdrawals
          /\ r \notin launched
          /\ r \notin view.desired
          /\ assigned[r] = 0

PassOK ==
    /\ ~Listed => pass.desired = {}
    /\ pass.at = "materials" => materials \subseteq pass.desired

\* How a route is dated, as ServedView promises.
DatedOK(r) ==
    /\ assigned[r] # 0 => r \in view.desired
    /\ stopping[r] # NoMember => r \notin view.desired
    /\ assigned[r] <= revision
    /\ ownedSince[r] <= revision
    /\ ownedSince[r] = 0 <=> view.owners[r] = NoOwner
    /\ view.owners[r].granted \/ view.owners[r] = NoOwner
    /\ placed[r].granted \/ placed[r] = NoOwner

\* What the controller knows of a launch that has placed its owner.
OwnerKept(r) ==
    /\ /\ launch[r].step \in {"recorded", "placed", "done"}
       /\ owner[r] = LaunchTerm(r)
       /\ Reading
       => pass.owners[r] \in {LaunchTerm(r), NoOwner}
    /\ launch[r].step \in {"placed", "done"} /\ owner[r] = LaunchTerm(r) =>
          /\ loaded => view.owners[r] = LaunchTerm(r)
          /\ Reading /\ pass.owners[r] = NoOwner =>
                \/ placed[r] = LaunchTerm(r)
                \/ pass.at = "owners" /\ loaded

\* A launch that returned is desired, or will be once the pass ends.
DesiredKept(r) ==
    launch[r].step = "done" /\ record[r] = "published" /\ r \notin ended =>
        /\ loaded => r \in view.desired
        /\ Listed => r \in pass.desired \cup launched

\* What is served or owned and is not desired has ended, or is about to be
\* assigned.
StopsOK(r) ==
    /\ stopping[r] # NoMember => record[r] = "removed" \/ r \in ended
    /\ loaded /\ r \in view.desired /\ Listed =>
          r \in pass.desired \cup launched \/ record[r] = "removed" \/ r \in ended
    /\ Listed /\ pass.owners[r] # NoOwner =>
          r \in pass.desired \cup launched \/ record[r] = "removed" \/ r \in ended
    /\ placed[r] # NoOwner =>
          launch[r].step = "placed" \/ r \in launched \/ r \in ended
    /\ loaded /\ view.owners[r] # NoOwner /\ r \notin view.desired =>
          record[r] = "removed" \/ r \in ended \/ launch[r].step = "placed"

ViewInv ==
    /\ CtrlTypes
    /\ PassOK
    /\ \A r \in Route : LaunchOK(r) /\ EndedOK(r) /\ DatedOK(r)

LaunchInv == \A r \in Route : OwnerKept(r) /\ DesiredKept(r) /\ StopsOK(r)

-------------------------------------------------------------------------------
(* Owner records and the records the state consists of.                     *)

\* What an owner record is made of.
LEMMA OwnerFields ==
    ASSUME NEW o \in AnyOwner
    PROVE  /\ o.member \in Member \cup {NoMember}
           /\ o.epoch \in 0..MaxEpoch
           /\ o.granted \in BOOLEAN
           /\ o = NoOwner <=> o.member = NoMember
           /\ o # NoOwner => o.member \in Member /\ o.epoch \in 1..MaxEpoch
           /\ o = NoOwner => o.epoch = 0 /\ ~o.granted
<1>1. CASE o \in Owner
  <2>1. o.member \in Member /\ o.epoch \in 1..MaxEpoch /\ o.granted \in BOOLEAN
    BY <1>1 DEF Owner
  <2>2. o # NoOwner
    BY <2>1, ControllerAssumption DEF NoOwner
  <2> QED
    BY <2>1, <2>2, ControllerAssumption
<1>2. CASE o = NoOwner
  <2>1. o.member = NoMember /\ o.epoch = 0 /\ o.granted = FALSE
    BY <1>2 DEF NoOwner
  <2>2. o.member \in Member \cup {NoMember} /\ o.epoch \in 0..MaxEpoch
    BY <2>1, ControllerAssumption
  <2>3. o.granted \in BOOLEAN /\ ~o.granted
    BY <2>1, Zenon
  <2> QED
    BY <2>1, <2>2, <2>3, <1>2, Zenon
<1> QED
  BY <1>1, <1>2 DEF AnyOwner

\* A record is given by its fields.
LEMMA OwnerEqual ==
    ASSUME NEW o \in AnyOwner, NEW p \in AnyOwner,
           o.member = p.member, o.epoch = p.epoch, o.granted = p.granted
    PROVE  o = p
  BY ControllerAssumption DEF AnyOwner, Owner, NoOwner

\* The record of a granted term.
LEMMA TermFields ==
    ASSUME NEW m \in Member, NEW e \in 1..MaxEpoch
    PROVE  /\ Term(m, e) \in AnyOwner
           /\ Term(m, e).member = m /\ Term(m, e).epoch = e
           /\ Term(m, e).granted
           /\ Term(m, e) # NoOwner
  BY ControllerAssumption DEF AnyOwner, Owner, NoOwner, Term

\* No owner is an owner record's value.
LEMMA NoOwnerFields ==
    /\ NoOwner \in AnyOwner
    /\ NoOwner.member = NoMember /\ NoOwner.epoch = 0 /\ NoOwner.granted = FALSE
  BY DEF AnyOwner, NoOwner

\* complete_takeover keeps the intent's member and epoch.
LEMMA GrantedFields ==
    ASSUME NEW o \in AnyOwner, o # NoOwner
    PROVE  /\ [o EXCEPT !.granted = TRUE] \in AnyOwner
           /\ [o EXCEPT !.granted = TRUE].member = o.member
           /\ [o EXCEPT !.granted = TRUE].epoch = o.epoch
           /\ [o EXCEPT !.granted = TRUE].granted
           /\ [o EXCEPT !.granted = TRUE] # NoOwner
  BY ControllerAssumption DEF AnyOwner, Owner, NoOwner

\* The intent of a takeover.
LEMMA IntentFields ==
    ASSUME NEW m \in Member, NEW e \in 1..MaxEpoch
    PROVE  LET o == [member |-> m, epoch |-> e, granted |-> FALSE] IN
           /\ o \in AnyOwner
           /\ o.member = m /\ o.epoch = e /\ ~o.granted
           /\ o # NoOwner
  BY ControllerAssumption DEF AnyOwner, Owner, NoOwner

\* The named types are those of the type invariant.
LEMMA TypesCorrect == CtrlTypes => ControllerTypeOK
  BY DEF CtrlTypes, ControllerTypeOK, AnyOwner, ViewType, PassType, LaunchType

\* The fields of the view, the pass and a launch.
LEMMA Fields ==
    ASSUME CtrlTypes
    PROVE  /\ view.desired \in SUBSET Route
           /\ view.owners \in [Route -> AnyOwner]
           /\ view.assignments \in SUBSET Route
           /\ pass.owners \in [Route -> AnyOwner]
           /\ pass.desired \in SUBSET Route
           /\ pass.todo \in SUBSET Route
           /\ \A r \in Route : launch[r].member \in Member \cup {NoMember}
  BY DEF CtrlTypes, ViewType, PassType, LaunchType

\* A launch's step is set.
LEMMA LaunchStepped ==
    ASSUME launch \in [Route -> LaunchType], NEW r \in Route,
           NEW v \in {"none", "recorded", "placed", "done", "refused", "dropped"},
           launch' = [launch EXCEPT ![r].step = v]
    PROVE  /\ launch' \in [Route -> LaunchType]
           /\ launch'[r].step = v /\ launch'[r].member = launch[r].member
           /\ \A s \in Route \ {r} : launch'[s] = launch[s]
<1> DEFINE l == [launch[r] EXCEPT !.step = v]
<1>1. launch[r] \in LaunchType
  OBVIOUS
<1>2. l \in LaunchType /\ l.step = v /\ l.member = launch[r].member
  BY <1>1 DEF LaunchType
<1>3. launch' = [launch EXCEPT ![r] = l]
  OBVIOUS
<1> HIDE DEF l
<1> QED
  BY <1>2, <1>3

\* A route's owner is set in the view.
LEMMA ViewPlaced ==
    ASSUME view \in ViewType, NEW r \in Route, NEW o \in AnyOwner,
           view' = [view EXCEPT !.owners[r] = o]
    PROVE  /\ view' \in ViewType
           /\ view'.desired = view.desired
           /\ view'.owners[r] = o
           /\ \A s \in Route \ {r} : view'.owners[s] = view.owners[s]
  BY DEF ViewType

\* The desired routes of the view change.
LEMMA ViewDesired ==
    ASSUME view \in ViewType, NEW d \in SUBSET Route,
           view' = [view EXCEPT !.desired = d]
    PROVE  /\ view' \in ViewType
           /\ view'.desired = d
           /\ view'.owners = view.owners
  BY DEF ViewType

\* The pass holds what it wrote.
LEMMA PassWritten ==
    ASSUME pass \in PassType, NEW r \in Route, NEW o \in AnyOwner,
           pass' = [pass EXCEPT !.owners[r] = o]
    PROVE  /\ pass' \in PassType
           /\ pass'.at = pass.at /\ pass'.desired = pass.desired
           /\ pass'.owners[r] = o
           /\ \A s \in Route \ {r} : pass'.owners[s] = pass.owners[s]
  BY DEF PassType

\* An idle pass.
LEMMA IdleFields ==
    /\ IdlePass \in PassType
    /\ IdlePass.at = "idle" /\ IdlePass.desired = {}
    /\ \A r \in Route : IdlePass.owners[r] = NoOwner
  BY NoOwnerFields DEF IdlePass, PassType, NoOwners

\* unassign's effect on the view.
LEMMA UnassignView ==
    ASSUME CtrlTypes, NEW r \in Route, Unassign(r)
    PROVE  /\ view' \in ViewType
           /\ view'.desired = view.desired \ {r}
           /\ view'.owners = view.owners
<1>1. view.desired \ {r} \in SUBSET Route
  BY Fields
<1>2. view' = [view EXCEPT !.desired = view.desired \ {r}]
  BY DEF Unassign
<1> QED
  BY <1>1, <1>2, ViewDesired DEF CtrlTypes

\* assign's effect on the view.
LEMMA AssignView ==
    ASSUME CtrlTypes, NEW r \in Route, Assign(r)
    PROVE  /\ view' \in ViewType
           /\ view'.desired = view.desired \cup {r}
           /\ view'.owners = view.owners
<1>1. view.desired \cup {r} \in SUBSET Route
  BY Fields
<1>2. view' = [view EXCEPT !.desired = view.desired \cup {r}]
  BY DEF Assign
<1> QED
  BY <1>1, <1>2, ViewDesired DEF CtrlTypes

\* The pass moves on without having read anything new.
LEMMA PassMoved ==
    ASSUME pass \in PassType,
           NEW a \in {"idle", "removing", "stamped", "owners", "records",
                      "materials"},
           pass' = [pass EXCEPT !.at = a]
    PROVE  /\ pass' \in PassType
           /\ pass'.at = a /\ pass'.todo = pass.todo
           /\ pass'.desired = pass.desired /\ pass'.owners = pass.owners
  BY DEF PassType

-------------------------------------------------------------------------------
(* The steps, one lemma per action.                                         *)

\* Another replica publishes an instance.
LEMMA PublishElsewhereKeeps ==
    ASSUME ViewInv, NEW r \in Route, NEW m \in Member,
           PublishElsewhere(r, m)
    PROVE  ViewInv' /\ (LaunchInv => LaunchInv')
<1> USE ControllerAssumption, Fields, NoOwnerFields
    DEF ViewInv, CtrlTypes, PassOK, LaunchOK, EndedOK, DatedOK, Listed,
           durableVars, desiredVars, keptVars, poolVars
<1>1. Term(m, 1) \in AnyOwner /\ Term(m, 1).granted /\ Term(m, 1) # NoOwner
  BY TermFields
<1>2. ViewInv'
  BY <1>1, TermFields DEF PublishElsewhere
<1>3. ASSUME LaunchInv PROVE LaunchInv'
  BY <1>1, <1>3, TermFields
  DEF PublishElsewhere, LaunchInv, OwnerKept, DesiredKept, StopsOK, Reading, LaunchTerm
<1> QED
  BY <1>2, <1>3

\* Another replica removes a published record.
LEMMA WithdrawElsewhereKeeps ==
    ASSUME ViewInv, NEW r \in Route, WithdrawElsewhere(r)
    PROVE  ViewInv' /\ (LaunchInv => LaunchInv')
<1> USE ControllerAssumption, Fields, NoOwnerFields
    DEF ViewInv, CtrlTypes, PassOK, LaunchOK, EndedOK, DatedOK, Listed,
           durableVars, desiredVars, keptVars, poolVars
<1>1. ViewInv'
  BY OwnerFields DEF WithdrawElsewhere
<1>2. ASSUME LaunchInv PROVE LaunchInv'
  BY <1>2, OwnerFields
  DEF WithdrawElsewhere, LaunchInv, OwnerKept, DesiredKept, StopsOK, Reading, LaunchTerm
<1> QED
  BY <1>1, <1>2

\* A launch's instance is published with its owner.
LEMMA LaunchRecordedKeeps ==
    ASSUME ViewInv, NEW r \in Route, NEW m \in Member,
           LaunchRecorded(r, m)
    PROVE  ViewInv' /\ (LaunchInv => LaunchInv')
<1> USE ControllerAssumption, Fields, NoOwnerFields
    DEF ViewInv, CtrlTypes, PassOK, LaunchOK, EndedOK, DatedOK, Listed,
           durableVars, desiredVars, keptVars, poolVars
<1>1. /\ Term(m, 1) \in AnyOwner /\ Term(m, 1).granted /\ Term(m, 1) # NoOwner
      /\ Term(m, 1).epoch = 1
  BY TermFields
<1>2. /\ launch' \in [Route -> LaunchType]
      /\ launch'[r].step = "recorded" /\ launch'[r].member = m
      /\ \A s \in Route \ {r} : launch'[s] = launch[s]
  BY DEF LaunchRecorded, LaunchType
<1>3. ViewInv'
  BY <1>1, <1>2, TermFields DEF LaunchRecorded
<1>4. ASSUME LaunchInv PROVE LaunchInv'
  BY <1>1, <1>2, <1>4, TermFields
  DEF LaunchRecorded, LaunchInv, OwnerKept, DesiredKept, StopsOK, Reading, LaunchTerm
<1> QED
  BY <1>3, <1>4

\* An instance is withdrawn through this gateway.
LEMMA WithdrawKeeps ==
    ASSUME ViewInv, NEW r \in Route, Withdraw(r)
    PROVE  ViewInv' /\ (LaunchInv => LaunchInv')
<1> USE ControllerAssumption, Fields, NoOwnerFields
    DEF ViewInv, CtrlTypes, PassOK, LaunchOK, EndedOK, DatedOK, Listed,
           durableVars, desiredVars, keptVars, poolVars
<1>1. view' \in ViewType /\ view'.desired = view.desired \ {r}
      /\ view'.owners = view.owners
  BY UnassignView DEF Withdraw
<1>2. ViewInv'
  BY <1>1, OwnerFields DEF Withdraw, Unassign, Assigned
<1>3. ASSUME LaunchInv PROVE LaunchInv'
  BY <1>1, <1>3, OwnerFields
  DEF Withdraw, Unassign, Assigned, LaunchInv, OwnerKept, DesiredKept, StopsOK, Reading, LaunchTerm
<1> QED
  BY <1>2, <1>3

\* A launch for which there is no room is withdrawn again.
LEMMA AssignRefusedKeeps ==
    ASSUME ViewInv, NEW r \in Route, AssignRefused(r)
    PROVE  ViewInv' /\ (LaunchInv => LaunchInv')
<1> USE ControllerAssumption, Fields, NoOwnerFields
    DEF ViewInv, CtrlTypes, PassOK, LaunchOK, EndedOK, DatedOK, Listed,
           durableVars, desiredVars, keptVars, poolVars
<1>1. view' \in ViewType /\ view'.desired = view.desired \ {r}
      /\ view'.owners = view.owners
  BY UnassignView DEF AssignRefused
<1>2. /\ launch' \in [Route -> LaunchType]
      /\ launch'[r].step = "refused" /\ launch'[r].member = launch[r].member
      /\ \A s \in Route \ {r} : launch'[s] = launch[s]
  BY LaunchStepped DEF AssignRefused
<1>3. ViewInv'
  BY <1>1, <1>2, OwnerFields DEF AssignRefused, Unassign, Assigned
<1>4. ASSUME LaunchInv PROVE LaunchInv'
  BY <1>1, <1>2, <1>4, OwnerFields
  DEF AssignRefused, Unassign, Assigned, LaunchInv, OwnerKept, DesiredKept, StopsOK, Reading, LaunchTerm
<1> QED
  BY <1>3, <1>4

\* A launch assigns its instance.
LEMMA AssignKeeps ==
    ASSUME ViewInv, NEW r \in Route, Assign(r)
    PROVE  ViewInv' /\ (LaunchInv => LaunchInv')
<1> USE ControllerAssumption, Fields, NoOwnerFields
    DEF ViewInv, CtrlTypes, PassOK, LaunchOK, EndedOK, DatedOK, Listed,
           durableVars, desiredVars, keptVars, poolVars
<1>1. view' \in ViewType /\ view'.desired = view.desired \cup {r}
      /\ view'.owners = view.owners
  BY AssignView
<1>2. /\ launch' \in [Route -> LaunchType]
      /\ launch'[r].step = "done" /\ launch'[r].member = launch[r].member
      /\ \A s \in Route \ {r} : launch'[s] = launch[s]
  BY LaunchStepped DEF Assign
<1>3. /\ revision' \in Nat /\ revision' >= revision
      /\ assigned' \in [Route -> Nat]
      /\ assigned'[r] # 0 /\ assigned'[r] <= revision'
      /\ \A s \in Route \ {r} : assigned'[s] = assigned[s]
  <2>1. CASE r \in Assigned
    BY <2>1 DEF Assign, Assigned
  <2>2. CASE r \notin Assigned
    <3>1. revision' = revision + 1 /\ assigned' = [assigned EXCEPT ![r] = revision + 1]
      BY <2>2 DEF Assign
    <3> QED
      BY <3>1
  <2> QED
    BY <2>1, <2>2
<1>4. /\ record' = record /\ owner' = owner /\ term' = term
      /\ loaded' = loaded /\ ownedSince' = ownedSince /\ placed' = placed
      /\ served' = served /\ materials' = materials /\ pass' = pass
      /\ faults' = faults /\ ended' = ended
      /\ launched' = launched \cup {r} /\ withdrawals' = withdrawals \ {r}
      /\ stopping' = [stopping EXCEPT ![r] = NoMember]
      /\ launch[r].step = "placed"
  BY DEF Assign
<1>5. CtrlTypes' /\ PassOK'
  BY <1>1, <1>2, <1>3, <1>4, OwnerFields DEF LaunchTerm
<1>6. ASSUME NEW s \in Route PROVE LaunchOK(s)' /\ EndedOK(s)' /\ DatedOK(s)'
  BY <1>1, <1>2, <1>3, <1>4, OwnerFields DEF LaunchTerm
<1>7. ViewInv'
  BY <1>6, <1>5
<1>8. ASSUME LaunchInv PROVE LaunchInv'
  BY <1>1, <1>2, <1>3, <1>4, <1>8, OwnerFields
  DEF LaunchTerm, LaunchInv, OwnerKept, DesiredKept, StopsOK, Reading, LaunchTerm
<1> QED
  BY <1>7, <1>8

\* A launch is dropped before its owner is placed.
LEMMA DropLaunchKeeps ==
    ASSUME ViewInv, NEW r \in Route, DropLaunch(r)
    PROVE  ViewInv' /\ (LaunchInv => LaunchInv')
<1> USE ControllerAssumption, Fields, NoOwnerFields
    DEF ViewInv, CtrlTypes, PassOK, LaunchOK, EndedOK, DatedOK, Listed,
           durableVars, desiredVars, keptVars, poolVars
<1>1. /\ launch' \in [Route -> LaunchType]
      /\ launch'[r].step = "dropped" /\ launch'[r].member = launch[r].member
      /\ \A s \in Route \ {r} : launch'[s] = launch[s]
  BY LaunchStepped DEF DropLaunch
<1>2. ViewInv'
  BY <1>1, OwnerFields DEF DropLaunch, Fault
<1>3. ASSUME LaunchInv PROVE LaunchInv'
  BY <1>1, <1>3, OwnerFields
  DEF DropLaunch, Fault, LaunchInv, OwnerKept, DesiredKept, StopsOK, Reading, LaunchTerm
<1> QED
  BY <1>2, <1>3

\* A stop is forgotten.
LEMMA ForgetStopKeeps ==
    ASSUME ViewInv, NEW r \in Route, ForgetStop(r)
    PROVE  ViewInv' /\ (LaunchInv => LaunchInv')
<1> USE ControllerAssumption, Fields, NoOwnerFields
    DEF ViewInv, CtrlTypes, PassOK, LaunchOK, EndedOK, DatedOK, Listed,
           durableVars, desiredVars, keptVars, poolVars
<1>1. ViewInv'
  BY OwnerFields DEF ForgetStop, Fault
<1>2. ASSUME LaunchInv PROVE LaunchInv'
  BY <1>2, OwnerFields
  DEF ForgetStop, Fault, LaunchInv, OwnerKept, DesiredKept, StopsOK, Reading, LaunchTerm
<1> QED
  BY <1>1, <1>2

\* A launch places its owner.
LEMMA PlaceOwnerKeeps ==
    ASSUME ViewInv, NEW r \in Route, PlaceOwner(r)
    PROVE  ViewInv' /\ (LaunchInv => LaunchInv')
<1> USE ControllerAssumption, Fields, NoOwnerFields
    DEF ViewInv, CtrlTypes, PassOK, LaunchOK, EndedOK, DatedOK, Listed,
           durableVars, desiredVars, keptVars, poolVars
<1> DEFINE o == Term(launch[r].member, 1)
<1>1. /\ launch' \in [Route -> LaunchType]
      /\ launch'[r].step = "placed" /\ launch'[r].member = launch[r].member
      /\ \A s \in Route \ {r} : launch'[s] = launch[s]
  BY LaunchStepped DEF PlaceOwner
<1>2. launch[r].member \in Member /\ launch[r].step = "recorded"
  BY DEF PlaceOwner
<1>3. o \in AnyOwner /\ o.granted /\ o # NoOwner
  BY <1>2, TermFields
<1>4. /\ placed' = [placed EXCEPT ![r] = o]
      /\ loaded' = loaded /\ assigned' = assigned /\ stopping' = stopping
      /\ launched' = launched /\ withdrawals' = withdrawals
      /\ served' = served /\ materials' = materials /\ pass' = pass
      /\ faults' = faults /\ ended' = ended
      /\ record' = record /\ owner' = owner /\ term' = term
  BY DEF PlaceOwner
<1>5. /\ view' \in ViewType /\ view'.desired = view.desired
      /\ loaded => view'.owners[r] = o
      /\ ~loaded => view'.owners[r] = view.owners[r]
      /\ \A s \in Route \ {r} : view'.owners[s] = view.owners[s]
      /\ revision' \in Nat /\ revision' >= revision
      /\ ownedSince' \in [Route -> Nat]
      /\ \A s \in Route \ {r} : ownedSince'[s] = ownedSince[s]
      /\ ownedSince'[r] <= revision'
      /\ ownedSince'[r] = 0 <=> view'.owners[r] = NoOwner
  <2>1. CASE ~loaded \/ view.owners[r] = o
    BY <2>1 DEF PlaceOwner
  <2>2. CASE ~(~loaded \/ view.owners[r] = o)
    <3> HIDE DEF o
    <3>1. /\ view' = [view EXCEPT !.owners[r] = o]
          /\ revision' = revision + 1
          /\ ownedSince' = [ownedSince EXCEPT ![r] = revision + 1]
      BY <2>2 DEF PlaceOwner, o
    <3>2. /\ view' \in ViewType /\ view'.desired = view.desired
          /\ view'.owners[r] = o
          /\ \A s \in Route \ {r} : view'.owners[s] = view.owners[s]
      <4>1. /\ view \in ViewType /\ r \in Route /\ o \in AnyOwner
            /\ view' = [view EXCEPT !.owners[r] = o]
        BY <3>1, <1>3
      <4> QED
        BY ONLY <4>1, ViewPlaced, Zenon
    <3> QED
      BY <3>1, <3>2, <2>2, <1>3
  <2> QED
    BY <2>1, <2>2
<1>6. LaunchTerm(r)' = o /\ \A s \in Route \ {r} : LaunchTerm(s)' = LaunchTerm(s)
  BY <1>1 DEF LaunchTerm
<1>7. LaunchTerm(r) = o
  BY DEF LaunchTerm
<1> HIDE DEF o
<1>a. CtrlTypes' /\ PassOK'
  BY <1>1, <1>3, <1>4, <1>5
<1>b. ASSUME NEW s \in Route PROVE LaunchOK(s)' /\ EndedOK(s)' /\ DatedOK(s)'
  BY <1>1, <1>2, <1>3, <1>4, <1>5
<1>8. ViewInv'
  BY <1>a, <1>b
<1>9. ASSUME LaunchInv PROVE LaunchInv'
  BY <1>1, <1>2, <1>3, <1>4, <1>5, <1>6, <1>7, <1>9
  DEF LaunchInv, OwnerKept, DesiredKept, StopsOK, Reading
<1> QED
  BY <1>8, <1>9

\* A member's stream is served.
LEMMA AttachKeeps ==
    ASSUME ViewInv, NEW m \in Member, Attach(m)
    PROVE  ViewInv' /\ (LaunchInv => LaunchInv')
<1> USE ControllerAssumption, Fields, NoOwnerFields
    DEF ViewInv, CtrlTypes, PassOK, LaunchOK, EndedOK, DatedOK, Listed,
           durableVars, desiredVars, keptVars, poolVars
<1>1. ViewInv'
  BY OwnerFields DEF Attach
<1>2. ASSUME LaunchInv PROVE LaunchInv'
  BY <1>2, OwnerFields
  DEF Attach, LaunchInv, OwnerKept, DesiredKept, StopsOK, Reading, LaunchTerm
<1> QED
  BY <1>1, <1>2

\* A member's stream is lost.
LEMMA DetachKeeps ==
    ASSUME ViewInv, NEW m \in Member, Detach(m)
    PROVE  ViewInv' /\ (LaunchInv => LaunchInv')
<1> USE ControllerAssumption, Fields, NoOwnerFields
    DEF ViewInv, CtrlTypes, PassOK, LaunchOK, EndedOK, DatedOK, Listed,
           durableVars, desiredVars, keptVars, poolVars
<1>1. ViewInv'
  BY OwnerFields DEF Detach, Fault
<1>2. ASSUME LaunchInv PROVE LaunchInv'
  BY <1>2, OwnerFields
  DEF Detach, Fault, LaunchInv, OwnerKept, DesiredKept, StopsOK, Reading, LaunchTerm
<1> QED
  BY <1>1, <1>2

\* A pass ends with a failed read.
LEMMA AbandonPassKeeps ==
    ASSUME ViewInv, AbandonPass
    PROVE  ViewInv' /\ (LaunchInv => LaunchInv')
<1> USE ControllerAssumption, Fields, NoOwnerFields
    DEF ViewInv, CtrlTypes, PassOK, LaunchOK, EndedOK, DatedOK, Listed,
           durableVars, desiredVars, keptVars, poolVars
<1>1. ViewInv'
  BY IdleFields DEF AbandonPass, Fault
<1>2. ASSUME LaunchInv PROVE LaunchInv'
  BY <1>2, IdleFields
  DEF AbandonPass, Fault, LaunchInv, OwnerKept, DesiredKept, StopsOK, Reading, LaunchTerm
<1> QED
  BY <1>1, <1>2

\* A pass begins with the withdrawals to be carried out.
LEMMA BeginPassKeeps ==
    ASSUME ViewInv, BeginPass
    PROVE  ViewInv' /\ (LaunchInv => LaunchInv')
<1> USE ControllerAssumption, Fields, NoOwnerFields
    DEF ViewInv, CtrlTypes, PassOK, LaunchOK, EndedOK, DatedOK, Listed,
           durableVars, desiredVars, keptVars, poolVars
<1>1. /\ pass' \in PassType /\ pass'.at = "removing"
      /\ pass'.desired = {} /\ \A s \in Route : pass'.owners[s] = NoOwner
  BY DEF BeginPass, IdlePass, PassType, NoOwners
<1>2. ViewInv'
  BY <1>1, OwnerFields DEF BeginPass
<1>3. ASSUME LaunchInv PROVE LaunchInv'
  BY <1>1, <1>3, OwnerFields
  DEF BeginPass, LaunchInv, OwnerKept, DesiredKept, StopsOK, Reading, LaunchTerm
<1> QED
  BY <1>2, <1>3

\* A withdrawn record is deleted.
LEMMA RemoveWithdrawnKeeps ==
    ASSUME ViewInv, NEW r \in Route, RemoveWithdrawn(r)
    PROVE  ViewInv' /\ (LaunchInv => LaunchInv')
<1> USE ControllerAssumption, Fields, NoOwnerFields
    DEF ViewInv, CtrlTypes, PassOK, LaunchOK, EndedOK, DatedOK, Listed,
           durableVars, desiredVars, keptVars, poolVars
<1>1. /\ pass' \in PassType /\ pass'.at = "removing" /\ pass.at = "removing"
      /\ pass'.desired = pass.desired /\ pass'.owners = pass.owners
  BY DEF RemoveWithdrawn, PassType
<1>2. /\ \/ /\ record' = [record EXCEPT ![r] = "removed"]
            /\ withdrawals' = withdrawals \ {r}
            /\ faults' = faults
         \/ record' = record /\ withdrawals' = withdrawals /\ faults' \in 0..MaxFault
      /\ UNCHANGED <<owner, term, launch, loaded, desiredVars, stopping, placed,
                     launched, served, materials, ended>>
  BY DEF RemoveWithdrawn, Fault
<1>3. ViewInv'
  BY <1>1, <1>2, OwnerFields DEF LaunchTerm
<1>4. ASSUME LaunchInv PROVE LaunchInv'
  BY <1>1, <1>2, <1>4, OwnerFields
  DEF LaunchTerm, LaunchInv, OwnerKept, DesiredKept, StopsOK, Reading, LaunchTerm
<1> QED
  BY <1>3, <1>4

\* The pass takes the time its listings are compared with.
LEMMA StampKeeps ==
    ASSUME ViewInv, Stamp
    PROVE  ViewInv' /\ (LaunchInv => LaunchInv')
<1> USE ControllerAssumption, Fields, NoOwnerFields
    DEF ViewInv, CtrlTypes, PassOK, LaunchOK, EndedOK, DatedOK, Listed,
           durableVars, desiredVars, keptVars, poolVars
<1>1. /\ pass' \in PassType /\ pass'.at = "stamped" /\ pass.at = "removing"
      /\ pass'.desired = pass.desired /\ pass'.owners = pass.owners
  BY PassMoved DEF Stamp
<1>2. ViewInv'
  BY <1>1, OwnerFields DEF Stamp, NoOwners
<1>3. ASSUME LaunchInv PROVE LaunchInv'
  BY <1>1, <1>3, OwnerFields
  DEF Stamp, NoOwners, LaunchInv, OwnerKept, DesiredKept, StopsOK, Reading, LaunchTerm
<1> QED
  BY <1>2, <1>3

\* The pass loads launch materials.
LEMMA LoadMaterialsKeeps ==
    ASSUME ViewInv, NEW failed, LoadMaterials(failed)
    PROVE  ViewInv' /\ (LaunchInv => LaunchInv')
<1> USE ControllerAssumption, Fields, NoOwnerFields
    DEF ViewInv, CtrlTypes, PassOK, LaunchOK, EndedOK, DatedOK, Listed,
           durableVars, desiredVars, keptVars, poolVars
<1>1. /\ pass' \in PassType /\ pass'.at = "materials" /\ pass.at = "records"
      /\ pass'.desired = pass.desired /\ pass'.owners = pass.owners
  BY PassMoved DEF LoadMaterials
<1>2. materials' \subseteq pass.desired /\ faults' \in 0..MaxFault
  BY DEF LoadMaterials, Fault
<1>3. ViewInv'
  BY <1>1, <1>2, OwnerFields DEF LoadMaterials
<1>4. ASSUME LaunchInv PROVE LaunchInv'
  BY <1>1, <1>2, <1>4, OwnerFields
  DEF LoadMaterials, LaunchInv, OwnerKept, DesiredKept, StopsOK, Reading, LaunchTerm
<1> QED
  BY <1>3, <1>4

\* A launch term is its first.
LEMMA LaunchTermFirst ==
    ASSUME NEW r \in Route
    PROVE  /\ LaunchTerm(r).epoch = 1 /\ LaunchTerm(r).granted = TRUE
           /\ LaunchTerm(r) # NoOwner
  BY DEF LaunchTerm, Term, NoOwner

\* A record written by a takeover or a removal is of no launch term.
LEMMA OwnerWrittenKeeps ==
    ASSUME ViewInv, NEW r \in Route, NEW o \in AnyOwner, NEW here \in BOOLEAN,
           OwnerWritten(r, o, here),
           record[r] # "absent",
           o = NoOwner \/ o.epoch >= 2,
           here /\ o # NoOwner => r \in pass.desired,
           term' \in [Route -> 0..MaxEpoch],
           term'[r] >= 1 \/ term'[r] = term[r],
           \A s \in Route \ {r} : term'[s] = term[s]
    PROVE  ViewInv' /\ (LaunchInv => LaunchInv')
<1> USE ControllerAssumption, Fields, NoOwnerFields
    DEF ViewInv, CtrlTypes, PassOK, LaunchOK, EndedOK, DatedOK, Listed,
           durableVars, desiredVars, keptVars, poolVars
<1>1. /\ pass' \in PassType
      /\ pass'.at = pass.at /\ pass'.desired = pass.desired
      /\ pass'.owners[r] \in {o, pass.owners[r]}
      /\ here \/ pass'.owners[r] = pass.owners[r]
      /\ \A s \in Route \ {r} : pass'.owners[s] = pass.owners[s]
  <2>1. CASE here
    <3>1. pass' = [pass EXCEPT !.owners[r] = o]
      BY <2>1 DEF OwnerWritten
    <3>2. pass \in PassType /\ r \in Route /\ o \in AnyOwner
      OBVIOUS
    <3>3. /\ pass' \in PassType
          /\ pass'.at = pass.at /\ pass'.desired = pass.desired
          /\ pass'.owners[r] = o
          /\ \A s \in Route \ {r} : pass'.owners[s] = pass.owners[s]
      BY ONLY <3>1, <3>2, PassWritten, Zenon
    <3> QED
      BY <3>3, <2>1
  <2>2. CASE ~here
    BY <2>2 DEF OwnerWritten
  <2> QED
    BY <2>1, <2>2
<1>2. /\ owner' = [owner EXCEPT ![r] = o]
      /\ UNCHANGED <<record, launch, loaded, desiredVars, stopping, keptVars,
                     served, materials, faults, ended>>
  BY DEF OwnerWritten
<1>3. ViewInv'
  BY <1>1, <1>2
<1>b. ASSUME NEW s \in Route PROVE o # LaunchTerm(s)
  <2>1. LaunchTerm(s) # NoOwner /\ LaunchTerm(s).epoch = 1
    BY LaunchTermFirst
  <2>2. o = NoOwner \/ o.epoch # 1
    OBVIOUS
  <2> QED
    BY <2>1, <2>2, Zenon
<1>a. \A s \in Route : LaunchTerm(s)' = LaunchTerm(s) /\ o # LaunchTerm(s)
  BY <1>2, <1>b DEF LaunchTerm
<1>4. ASSUME LaunchInv PROVE LaunchInv'
  BY <1>1, <1>2, <1>4, <1>a
  DEF LaunchInv, OwnerKept, DesiredKept, StopsOK, Reading
<1> QED
  BY <1>3, <1>4

\* An intent is of a term after the sandbox's current one.
LEMMA IntendKeeps ==
    ASSUME ViewInv, NEW r \in Route, NEW m \in Member, NEW here \in BOOLEAN,
           Intend(r, m, here)
    PROVE  ViewInv' /\ (LaunchInv => LaunchInv')
<1> DEFINE o == [member |-> m, epoch |-> term[r] + 1, granted |-> FALSE]
<1>1. term \in [Route -> 0..MaxEpoch] /\ term[r] >= 1 /\ term[r] < MaxEpoch
  BY DEF ViewInv, CtrlTypes, LaunchOK, Intend
<1>2. term[r] + 1 \in 1..MaxEpoch
  BY <1>1, ControllerAssumption
<1>3. o \in AnyOwner /\ o.epoch = term[r] + 1
  BY <1>2, IntentFields
<1>4. OwnerWritten(r, o, here) /\ term' = term /\ record[r] = "published"
  BY DEF Intend
<1>5. here => r \in pass.desired
  BY DEF Intend
<1> HIDE DEF o
<1>6. o.epoch >= 2
  BY <1>1, <1>3
<1> QED
  BY <1>1, <1>3, <1>4, <1>5, <1>6, OwnerWrittenKeeps

\* The grant of an intent starts the term it reserved.
LEMMA GrantKeeps ==
    ASSUME ViewInv, NEW r \in Route, NEW here \in BOOLEAN, Grant(r, here)
    PROVE  ViewInv' /\ (LaunchInv => LaunchInv')
<1> DEFINE o == [owner[r] EXCEPT !.granted = TRUE]
<1>1. /\ owner[r] \in AnyOwner /\ owner[r] # NoOwner /\ ~owner[r].granted
      /\ owner[r].epoch >= 2 /\ term \in [Route -> 0..MaxEpoch]
  BY DEF ViewInv, CtrlTypes, LaunchOK, Grant
<1>2. o \in AnyOwner /\ o.epoch = owner[r].epoch
  BY <1>1, GrantedFields, Zenon
<1>3. OwnerWritten(r, o, here) /\ record[r] = "published"
  BY DEF Grant
<1>4. here => r \in pass.desired
  BY DEF Grant
<1>5. term' = [term EXCEPT ![r] = owner[r].epoch] /\ owner[r].epoch \in 0..MaxEpoch
  BY <1>1, OwnerFields DEF Grant
<1> HIDE DEF o
<1>6. o.epoch >= 2
  BY <1>1, <1>2
<1>7. /\ term' \in [Route -> 0..MaxEpoch] /\ term'[r] >= 1
      /\ \A s \in Route \ {r} : term'[s] = term[s]
  BY <1>1, <1>5
<1> QED
  BY <1>2, <1>3, <1>4, <1>6, <1>7, OwnerWrittenKeeps

\* An owner record is removed.
LEMMA RemoveOwnerKeeps ==
    ASSUME ViewInv, NEW r \in Route, NEW here \in BOOLEAN, RemoveOwner(r, here)
    PROVE  ViewInv' /\ (LaunchInv => LaunchInv')
<1>1. OwnerWritten(r, NoOwner, here) /\ term' = term /\ record[r] # "absent"
  BY DEF ViewInv, LaunchOK, RemoveOwner
<1>2. term \in [Route -> 0..MaxEpoch]
  BY DEF ViewInv, CtrlTypes
<1> QED
  BY <1>1, <1>2, NoOwnerFields, OwnerWrittenKeeps

\* The pass lists the owner records.  Once the view is loaded the listing may
\* miss rows, and the first may not.
LEMMA ListOwnersKeeps ==
    ASSUME ViewInv, NEW missed, ListOwners(missed)
    PROVE  ViewInv' /\ (FirstMayMiss = FALSE /\ LaunchInv => LaunchInv')
<1> USE ControllerAssumption, Fields, NoOwnerFields
    DEF ViewInv, CtrlTypes, PassOK, LaunchOK, EndedOK, DatedOK, Listed,
           durableVars, desiredVars, keptVars, poolVars
<1>1. pass.at = "stamped" /\ faults' \in 0..MaxFault
  BY DEF ListOwners, ListingMisses, Fault
<1>2. /\ pass' \in PassType /\ pass'.at = "owners"
      /\ pass'.desired = pass.desired
      /\ \A s \in Route : \/ s \notin missed /\ pass'.owners[s] = owner[s]
                          \/ s \in missed /\ pass'.owners[s] = NoOwner
  BY DEF ListOwners, PassType
<1>3. UNCHANGED <<durableVars, launch, loaded, desiredVars, stopping,
                  keptVars, served, materials, ended>>
  BY DEF ListOwners
<1>4. FirstMayMiss = FALSE => missed = {} \/ loaded
  BY DEF ListOwners, ListingMisses
<1>5. ViewInv'
  BY <1>1, <1>2, <1>3
<1>a. \A s \in Route : LaunchTerm(s)' = LaunchTerm(s) /\ LaunchTerm(s) # NoOwner
  BY <1>3, LaunchTermFirst DEF LaunchTerm
<1>6. ASSUME LaunchInv, FirstMayMiss = FALSE PROVE LaunchInv'
  BY <1>1, <1>2, <1>3, <1>4, <1>6, <1>a
  DEF LaunchInv, OwnerKept, DesiredKept, StopsOK, Reading
<1> QED
  BY <1>5, <1>6

\* The pass lists the instances.  Rows that the listings lack and the view or
\* an owner names are read again, so that none is lost.
LEMMA ListRecordsKeeps ==
    ASSUME ViewInv, NEW missed, ListRecords(missed)
    PROVE  ViewInv' /\ (FirstMayMiss = FALSE /\ LaunchInv => LaunchInv')
<1> USE ControllerAssumption, Fields, NoOwnerFields
    DEF ViewInv, CtrlTypes, PassOK, LaunchOK, EndedOK, DatedOK, Listed,
           durableVars, desiredVars, keptVars, poolVars
<1>1. pass.at = "owners" /\ faults' \in 0..MaxFault
  BY DEF ListRecords, ListingMisses, Fault
<1> DEFINE listed == Published \ (missed \cup withdrawals)
           desired == ConfirmedDesired(listed, ConfirmedOwners)
<1>2. ConfirmedOwners \in [Route -> AnyOwner]
  BY DEF ConfirmedOwners
<1>3. desired \subseteq Published \ withdrawals /\ desired \in SUBSET Route
  BY DEF ConfirmedDesired, Published
<1>4. /\ pass' \in PassType /\ pass'.at = "records"
      /\ pass'.desired = desired /\ pass'.owners = ConfirmedOwners
  <2> HIDE DEF desired
  <2>1. pass' = [pass EXCEPT !.at = "records", !.owners = ConfirmedOwners,
                             !.desired = desired]
    BY DEF ListRecords, desired
  <2> QED
    BY <2>1, <1>2, <1>3 DEF PassType
<1>5. UNCHANGED <<durableVars, launch, loaded, desiredVars, stopping,
                  keptVars, served, materials, ended>>
  BY DEF ListRecords
<1>6. \A s \in Route :
        \/ pass'.owners[s] = pass.owners[s]
        \/ pass.owners[s] = NoOwner /\ pass'.owners[s] = owner[s]
  BY <1>4 DEF ConfirmedOwners
<1>7. \A s \in Route : loaded /\ view.owners[s] # NoOwner /\ pass.owners[s] = NoOwner
                         => pass'.owners[s] = owner[s]
  BY <1>4 DEF ConfirmedOwners
<1>8. FirstMayMiss = FALSE => missed = {} \/ loaded
  BY DEF ListRecords, ListingMisses
<1>9. \A s \in Published \ withdrawals :
        \/ s \in pass'.desired
        \/ s \in missed /\ ~loaded
        \/ s \in missed /\ s \notin view.desired /\ pass'.owners[s] = NoOwner
  BY <1>4 DEF ConfirmedDesired, Published
<1>10. /\ pass'.desired \subseteq Published \ withdrawals
       /\ pass'.desired \in SUBSET Route
  BY <1>3, <1>4
<1> HIDE DEF desired
<1>11. ViewInv'
  BY <1>1, <1>4, <1>5, <1>6, <1>10 DEF Published
<1>12. ASSUME LaunchInv, FirstMayMiss = FALSE PROVE LaunchInv'
  <2> SUFFICES ASSUME NEW s \in Route
               PROVE  OwnerKept(s)' /\ DesiredKept(s)' /\ StopsOK(s)'
    BY DEF LaunchInv
  <2>1. OwnerKept(s)'
    <3>1. LaunchTerm(s)' = LaunchTerm(s) /\ LaunchTerm(s) # NoOwner
      BY <1>5, LaunchTermFirst DEF LaunchTerm
    <3> QED
      BY <1>1, <1>4, <1>5, <1>6, <1>7, <1>12, <3>1
      DEF LaunchInv, OwnerKept, Reading
  <2>2. DesiredKept(s)'
    BY <1>1, <1>4, <1>5, <1>8, <1>9, <1>12
    DEF LaunchInv, DesiredKept, Published
  <2>3. StopsOK(s)'
    BY <1>1, <1>4, <1>5, <1>6, <1>8, <1>9, <1>12
    DEF LaunchInv, StopsOK, Published
  <2> QED
    BY <2>1, <2>2, <2>3
<1> QED
  BY <1>11, <1>12

\* The pass publishes its view, merged with what happened meanwhile.
LEMMA PublishKeeps ==
    ASSUME ViewInv, NEW passed, NEW changed \in BOOLEAN, Publish(passed, changed)
    PROVE  ViewInv' /\ (LaunchInv => LaunchInv')
<1> USE ControllerAssumption, Fields, NoOwnerFields
    DEF ViewInv, CtrlTypes, PassOK, LaunchOK, EndedOK, DatedOK, Listed,
           durableVars, desiredVars, keptVars, poolVars
<1> DEFINE owners == MergedOwners(passed)
           desired == MergedDesired
           new == [desired |-> desired, owners |-> owners,
                   assignments |-> MergedAssignments]
<1>1. pass.at = "materials" /\ passed \subseteq PassedTerms /\ UpdatePool(passed, changed)
  BY DEF Publish
<1>2. /\ pass' = IdlePass /\ faults' \in 0..MaxFault
      /\ UNCHANGED <<durableVars, launch, keptVars, served, materials, ended>>
  BY DEF Publish, Fault
<1>3. /\ owners \in [Route -> AnyOwner]
      /\ \A s \in Route :
           \/ owners[s] = placed[s]
           \/ owners[s] = pass.owners[s] /\ owners[s].granted
      /\ \A s \in Route : pass.owners[s] = NoOwner => owners[s] = placed[s]
      /\ \A s \in Route : pass.owners[s].granted /\ pass.owners[s].epoch = 1
                            => owners[s] = pass.owners[s]
  BY <1>1, OwnerFields DEF MergedOwners, PassedTerms
<1>4. /\ desired \in SUBSET Route
      /\ \A s \in Route : s \in desired <=>
           (s \in pass.desired \/ s \in launched) /\ s \notin withdrawals
  BY DEF MergedDesired
<1>5. /\ MergedAssignments \subseteq desired
      /\ MergedAssignments \in SUBSET Route
  BY <1>1 DEF MergedAssignments, MergedDesired
<1>6. /\ new \in ViewType /\ new.desired = desired /\ new.owners = owners
      /\ new.assignments = MergedAssignments
  BY <1>3, <1>4, <1>5 DEF ViewType
<1>7. stopping' = [s \in Route |->
                     IF s \in desired THEN NoMember
                     ELSE IF stopping[s] = NoMember /\ loaded /\ s \in view.desired
                          THEN view.owners[s].member ELSE stopping[s]]
  BY <1>1 DEF UpdatePool
<1>8. /\ stopping' \in [Route -> Member \cup {NoMember}]
      /\ \A s \in Route : stopping'[s] # NoMember =>
           /\ s \notin desired
           /\ stopping[s] # NoMember \/ (loaded /\ s \in view.desired)
  <2> HIDE DEF desired
  <2>1. \A s \in Route : view.owners[s].member \in Member \cup {NoMember}
    BY OwnerFields
  <2>2. \A s \in Route : stopping[s] \in Member \cup {NoMember}
    OBVIOUS
  <2>3. \A s \in Route : stopping'[s] \in Member \cup {NoMember}
    BY <1>7, <2>1, <2>2
  <2>4. stopping' \in [Route -> Member \cup {NoMember}]
    BY <1>7, <2>1, <2>2
  <2>5. \A s \in Route : stopping'[s] # NoMember =>
           /\ s \notin desired
           /\ stopping[s] # NoMember \/ (loaded /\ s \in view.desired)
    BY <1>7
  <2> QED
    BY <2>4, <2>5
<1>9. \/ /\ loaded /\ new = view
         /\ UNCHANGED <<loaded, desiredVars>>
      \/ /\ loaded' = TRUE
         /\ revision' = revision + 1
         /\ view' = new
         /\ ownedSince' = [s \in Route |->
              IF owners[s] = NoOwner THEN 0
              ELSE IF owners[s] = view.owners[s] /\ ownedSince[s] # 0
                   THEN ownedSince[s] ELSE revision + 1]
         /\ assigned' = [s \in Route |->
              IF s \notin new.assignments THEN 0
              ELSE IF s \in Assigned THEN assigned[s] ELSE revision + 1]
  BY <1>1 DEF UpdatePool
<1> HIDE DEF owners, desired, new
<1>10. /\ loaded' = TRUE /\ view' = new
       /\ revision' \in Nat /\ revision' >= revision
       /\ ownedSince' \in [Route -> Nat] /\ assigned' \in [Route -> Nat]
       /\ \A s \in Route : /\ assigned'[s] <= revision' /\ ownedSince'[s] <= revision'
                           /\ assigned'[s] # 0 => s \in desired
                           /\ ownedSince'[s] = 0 <=> owners[s] = NoOwner
  <2>1. CASE loaded /\ new = view /\ UNCHANGED <<loaded, desiredVars>>
    BY <2>1, <1>6
  <2>2. CASE ~(loaded /\ new = view /\ UNCHANGED <<loaded, desiredVars>>)
    <3>1. /\ loaded' = TRUE
          /\ revision' = revision + 1
          /\ view' = new
          /\ ownedSince' = [s \in Route |->
               IF owners[s] = NoOwner THEN 0
               ELSE IF owners[s] = view.owners[s] /\ ownedSince[s] # 0
                    THEN ownedSince[s] ELSE revision + 1]
          /\ assigned' = [s \in Route |->
               IF s \notin MergedAssignments THEN 0
               ELSE IF s \in Assigned THEN assigned[s] ELSE revision + 1]
      BY <2>2, <1>9, <1>6
    <3> QED
      BY <3>1, <1>5
  <2> QED
    BY <2>1, <2>2
<1>11. view' \in ViewType /\ view'.desired = desired /\ view'.owners = owners
  BY <1>6, <1>10
<1>12. /\ pass' \in PassType /\ pass'.at = "idle" /\ pass'.desired = {}
       /\ \A s \in Route : pass'.owners[s] = NoOwner
  BY <1>2, IdleFields
<1>13. CtrlTypes' /\ PassOK'
  BY <1>2, <1>8, <1>10, <1>11, <1>12
<1>14. ASSUME NEW s \in Route PROVE LaunchOK(s)' /\ EndedOK(s)' /\ DatedOK(s)'
  <2>1. LaunchOK(s)'
    BY <1>2, <1>4, <1>11, <1>12
  <2>2. EndedOK(s)'
    BY <1>2, <1>4, <1>10, <1>11, <1>12
  <2>3. DatedOK(s)'
    BY <1>2, <1>3, <1>8, <1>10, <1>11
  <2> QED
    BY <2>1, <2>2, <2>3
<1>15. ASSUME LaunchInv PROVE LaunchInv'
  <2> SUFFICES ASSUME NEW s \in Route
               PROVE  OwnerKept(s)' /\ DesiredKept(s)' /\ StopsOK(s)'
    BY DEF LaunchInv
  <2>1. OwnerKept(s)'
    <3>1. /\ LaunchTerm(s)' = LaunchTerm(s) /\ LaunchTerm(s) # NoOwner
          /\ LaunchTerm(s).granted /\ LaunchTerm(s).epoch = 1
      BY <1>2, LaunchTermFirst DEF LaunchTerm
    <3> QED
      BY <1>1, <1>2, <1>3, <1>11, <1>12, <1>15, <3>1
      DEF LaunchInv, OwnerKept, Reading
  <2>2. DesiredKept(s)'
    BY <1>1, <1>2, <1>4, <1>11, <1>12, <1>15 DEF LaunchInv, DesiredKept
  <2>3. StopsOK(s)'
    BY <1>1, <1>2, <1>3, <1>4, <1>8, <1>11, <1>12, <1>15
    DEF LaunchInv, StopsOK
  <2> QED
    BY <2>1, <2>2, <2>3
<1> QED
  BY <1>13, <1>14, <1>15

\* The gateway restarts with an empty view.
LEMMA RestartKeeps ==
    ASSUME ViewInv, Restart
    PROVE  ViewInv' /\ (LaunchInv => LaunchInv')
<1> USE ControllerAssumption, Fields, NoOwnerFields
    DEF ViewInv, CtrlTypes, PassOK, LaunchOK, EndedOK, DatedOK, Listed,
           durableVars, desiredVars, keptVars, poolVars
<1>1. /\ view' \in ViewType /\ view'.desired = {}
      /\ \A s \in Route : view'.owners[s] = NoOwner
  BY DEF Restart, EmptyView, ViewType, NoOwners
<1>2. /\ launch' \in [Route -> LaunchType]
      /\ \A s \in Route :
           /\ launch'[s].member = launch[s].member
           /\ launch'[s].step \notin {"recorded", "placed"}
           /\ launch'[s].step \in {launch[s].step, "dropped"}
           /\ launch[s].step = "none" => launch'[s].step = "none"
           /\ launch'[s].step = "none" => launch[s].step = "none"
           /\ launch'[s].step = "done" => launch[s].step = "done"
  <2> DEFINE l(s) == [launch[s] EXCEPT !.step = "dropped"]
  <2>1. \A s \in Route : /\ l(s) \in LaunchType /\ l(s).step = "dropped"
                         /\ l(s).member = launch[s].member
    BY DEF LaunchType
  <2>2. launch' = [s \in Route |-> IF launch[s].step \in {"recorded", "placed"}
                                   THEN l(s) ELSE launch[s]]
    BY DEF Restart
  <2> HIDE DEF l
  <2> QED
    BY <2>1, <2>2
<1>3. /\ pass' \in PassType /\ pass'.at = "idle" /\ pass'.desired = {}
      /\ \A s \in Route : pass'.owners[s] = NoOwner
  BY IdleFields DEF Restart
<1>4. /\ loaded' = FALSE /\ revision' = 0 /\ faults' \in 0..MaxFault
      /\ assigned' = [s \in Route |-> 0] /\ ownedSince' = [s \in Route |-> 0]
      /\ stopping' = [s \in Route |-> NoMember]
      /\ placed' = [s \in Route |-> NoOwner]
      /\ launched' = {} /\ withdrawals' = {} /\ materials' = {} /\ served' = {}
      /\ ended' = ended \ withdrawals
      /\ UNCHANGED durableVars
  BY DEF Restart, Fault, NoOwners
<1>a. CtrlTypes' /\ PassOK'
  BY <1>1, <1>2, <1>3, <1>4
<1>b. ASSUME NEW s \in Route PROVE LaunchOK(s)' /\ EndedOK(s)' /\ DatedOK(s)'
  BY <1>1, <1>2, <1>3, <1>4
<1>5. ViewInv'
  BY <1>a, <1>b
<1>6. ASSUME LaunchInv PROVE LaunchInv'
  BY <1>1, <1>2, <1>3, <1>4, <1>6
  DEF LaunchInv, OwnerKept, DesiredKept, StopsOK, Reading
<1> QED
  BY <1>5, <1>6

-------------------------------------------------------------------------------
(* The invariants.                                                          *)

\* The controller starts with nothing loaded.
LEMMA ControllerStarts == ControllerInit => ViewInv /\ LaunchInv
<1> SUFFICES ASSUME ControllerInit PROVE ViewInv /\ LaunchInv
  OBVIOUS
<1> USE ControllerAssumption, NoOwnerFields
<1>1. /\ view \in ViewType /\ view.desired = {}
      /\ \A s \in Route : view.owners[s] = NoOwner
  BY DEF ControllerInit, EmptyView, ViewType, NoOwners
<1>2. /\ launch \in [Route -> LaunchType]
      /\ \A s \in Route : launch[s].step = "none"
  BY DEF ControllerInit, LaunchType
<1>3. /\ pass \in PassType /\ pass.at = "idle" /\ pass.desired = {}
      /\ \A s \in Route : pass.owners[s] = NoOwner
  BY IdleFields DEF ControllerInit
<1>4. ViewInv
  <2>a. 0 \in 0..MaxEpoch /\ 0 \in 0..MaxFault
    OBVIOUS
  <2>b. /\ record \in [Route -> {"absent", "published", "removed"}]
        /\ owner \in [Route -> AnyOwner]
        /\ term \in [Route -> 0..MaxEpoch]
        /\ loaded \in BOOLEAN /\ revision \in Nat
        /\ assigned \in [Route -> Nat] /\ ownedSince \in [Route -> Nat]
    BY <2>a DEF ControllerInit, NoOwners
  <2>c. /\ stopping \in [Route -> Member \cup {NoMember}]
        /\ placed \in [Route -> AnyOwner]
        /\ launched \in SUBSET Route /\ withdrawals \in SUBSET Route
        /\ served \in SUBSET Member /\ materials \in SUBSET Route
        /\ faults \in 0..MaxFault /\ ended \in SUBSET Route
    BY <2>a DEF ControllerInit, NoOwners
  <2>1. CtrlTypes /\ PassOK
    BY <1>1, <1>2, <1>3, <2>b, <2>c DEF CtrlTypes, PassOK, Listed
  <2>2. ASSUME NEW s \in Route PROVE LaunchOK(s) /\ EndedOK(s) /\ DatedOK(s)
    BY <1>1, <1>2, <1>3
    DEF ControllerInit, NoOwners, LaunchOK, EndedOK, DatedOK
  <2> QED
    BY <2>1, <2>2 DEF ViewInv
<1>5. LaunchInv
  BY <1>1, <1>2, <1>3
  DEF ControllerInit, NoOwners, LaunchInv, OwnerKept, DesiredKept, StopsOK,
      Listed, Reading
<1> QED
  BY <1>4, <1>5

\* Nothing changes.
LEMMA ControllerStutters ==
    ASSUME ViewInv, UNCHANGED controllerVars
    PROVE  ViewInv' /\ (LaunchInv => LaunchInv')
<1>1. ViewInv'
  BY DEF controllerVars, ViewInv, CtrlTypes, PassOK, LaunchOK, EndedOK, DatedOK,
         Listed
<1>2. LaunchInv => LaunchInv'
  BY DEF controllerVars, LaunchInv, OwnerKept, DesiredKept, StopsOK, Listed,
         Reading, LaunchTerm
<1> QED
  BY <1>1, <1>2

\* Every step keeps the invariants; the second one if the first listings of a
\* gateway miss no rows.
LEMMA ControllerKeeps ==
    ASSUME ViewInv, [ControllerNext]_controllerVars
    PROVE  ViewInv' /\ (FirstMayMiss = FALSE /\ LaunchInv => LaunchInv')
<1>1. CASE RecordStep
  <2> PICK r \in Route :
        \/ \E m \in Member : PublishElsewhere(r, m) \/ LaunchRecorded(r, m)
        \/ WithdrawElsewhere(r)
        \/ \E here \in BOOLEAN :
              \/ \E m \in Member : Intend(r, m, here)
              \/ Grant(r, here)
              \/ RemoveOwner(r, here)
    BY <1>1 DEF RecordStep
  <2>1. ASSUME NEW m \in Member, PublishElsewhere(r, m)
        PROVE  ViewInv' /\ (LaunchInv => LaunchInv')
    BY <2>1, PublishElsewhereKeeps
  <2>2. ASSUME NEW m \in Member, LaunchRecorded(r, m)
        PROVE  ViewInv' /\ (LaunchInv => LaunchInv')
    BY <2>2, LaunchRecordedKeeps
  <2>3. CASE WithdrawElsewhere(r)
    BY <2>3, WithdrawElsewhereKeeps
  <2>4. ASSUME NEW here \in BOOLEAN, NEW m \in Member, Intend(r, m, here)
        PROVE  ViewInv' /\ (LaunchInv => LaunchInv')
    BY <2>4, IntendKeeps
  <2>5. ASSUME NEW here \in BOOLEAN, Grant(r, here)
        PROVE  ViewInv' /\ (LaunchInv => LaunchInv')
    BY <2>5, GrantKeeps
  <2>6. ASSUME NEW here \in BOOLEAN, RemoveOwner(r, here)
        PROVE  ViewInv' /\ (LaunchInv => LaunchInv')
    BY <2>6, RemoveOwnerKeeps
  <2> QED
    BY <2>1, <2>2, <2>3, <2>4, <2>5, <2>6
<1>2. CASE LaunchStep
  BY <1>2, PlaceOwnerKeeps, AssignKeeps, AssignRefusedKeeps DEF LaunchStep
<1>3. CASE PassStep
  <2>1. CASE BeginPass \/ Stamp
    BY <2>1, BeginPassKeeps, StampKeeps
  <2>2. ASSUME NEW r \in Route, RemoveWithdrawn(r)
        PROVE  ViewInv' /\ (LaunchInv => LaunchInv')
    BY <2>2, RemoveWithdrawnKeeps
  <2>3. ASSUME NEW missed \in SUBSET Route, ListOwners(missed)
        PROVE  ViewInv' /\ (FirstMayMiss = FALSE /\ LaunchInv => LaunchInv')
    BY <2>3, ListOwnersKeeps
  <2>4. ASSUME NEW missed \in SUBSET Route, ListRecords(missed)
        PROVE  ViewInv' /\ (FirstMayMiss = FALSE /\ LaunchInv => LaunchInv')
    BY <2>4, ListRecordsKeeps
  <2>5. ASSUME NEW missed \in SUBSET Route, LoadMaterials(missed)
        PROVE  ViewInv' /\ (LaunchInv => LaunchInv')
    BY <2>5, LoadMaterialsKeeps
  <2>6. ASSUME NEW passed \in SUBSET Route, NEW changed \in BOOLEAN,
               Publish(passed, changed)
        PROVE  ViewInv' /\ (LaunchInv => LaunchInv')
    BY <2>6, PublishKeeps
  <2> QED
    BY <1>3, <2>1, <2>2, <2>3, <2>4, <2>5, <2>6 DEF PassStep
<1>4. CASE ControllerFault
  BY <1>4, AbandonPassKeeps, DropLaunchKeeps, ForgetStopKeeps DEF ControllerFault
<1>5. CASE Restart
  BY <1>5, RestartKeeps
<1>6. CASE \E r \in Route : Withdraw(r)
  BY <1>6, WithdrawKeeps
<1>7. CASE \E m \in Member : Attach(m) \/ Detach(m)
  BY <1>7, AttachKeeps, DetachKeeps
<1>8. CASE UNCHANGED controllerVars
  BY <1>8, ControllerStutters
<1> QED
  BY <1>1, <1>2, <1>3, <1>4, <1>5, <1>6, <1>7, <1>8 DEF ControllerNext

\* The invariant about what the controller serves, for every bound.
LEMMA ViewInvariant == ControllerSpec => []ViewInv
  BY ControllerStarts, ControllerKeeps, PTL DEF ControllerSpec

\* Every reachable state of the records, the pass and the controller's view is
\* well typed.
THEOREM ControllerTypeCorrect == ControllerSpec => []ControllerTypeOK
<1>1. ViewInv => ControllerTypeOK
  BY TypesCorrect DEF ViewInv
<1> QED
  BY <1>1, ViewInvariant, PTL

\* update_pool: an instance withdrawn through this gateway is never served
\* again, whatever a pass read before the withdrawal.
THEOREM WithdrawnNeverServed == ControllerSpec => []WithdrawnStays
<1>1. ViewInv => WithdrawnStays
  BY Fields DEF ViewInv, EndedOK, WithdrawnStays, Assigned, CtrlTypes
<1> QED
  BY <1>1, ViewInvariant, PTL

\* The invariant about launches and stops, for gateways whose first listings
\* miss no rows.
LEMMA LaunchInvariant ==
    FirstMayMiss = FALSE => (ControllerSpec => [](ViewInv /\ LaunchInv))
<1> SUFFICES ASSUME FirstMayMiss = FALSE
             PROVE  ControllerSpec => [](ViewInv /\ LaunchInv)
  OBVIOUS
<1>1. ViewInv /\ LaunchInv /\ [ControllerNext]_controllerVars
        => ViewInv' /\ LaunchInv'
  BY ControllerKeeps
<1> QED
  BY <1>1, ControllerStarts, PTL DEF ControllerSpec

\* update_pool: once a launch through this gateway returned, its instance
\* stays desired here until it is withdrawn, and its owner known while the
\* launch term lasts, although passes that read the records earlier publish
\* their view later.  The first listings of a gateway must miss no rows: they
\* are confirmed against nothing.
THEOREM LaunchesAlwaysKept ==
    FirstMayMiss = FALSE => (ControllerSpec => []LaunchesKept)
<1>1. ViewInv /\ LaunchInv => LaunchesKept
  BY DEF LaunchInv, OwnerKept, DesiredKept, LaunchTerm, LaunchesKept
<1> QED
  BY <1>1, LaunchInvariant, PTL

\* snapshot: a member is told to stop an instance only once it ended or while
\* its launch is about to assign it, never for a row that a listing missed,
\* with the same hypothesis.
THEOREM OnlyEndedAreStopped ==
    FirstMayMiss = FALSE => (ControllerSpec => []OnlyEndedStopped)
<1>1. ASSUME ViewInv, LaunchInv PROVE OnlyEndedStopped
  <2> SUFFICES ASSUME loaded, NEW r \in Route, NEW m \in Member,
                      r \in StopRoutes(m)
               PROVE  \/ record[r] = "removed"
                      \/ r \in ended
                      \/ launch[r].step = "placed"
    BY DEF OnlyEndedStopped
  <2>1. CtrlTypes /\ StopsOK(r)
    BY <1>1 DEF ViewInv, LaunchInv
  <2>2. view.owners[r] \in AnyOwner /\ (view.owners[r] = NoOwner =>
                                          view.owners[r].member = NoMember)
    BY <2>1, Fields, NoOwnerFields
  <2>3. m # NoMember
    BY ControllerAssumption
  <2> QED
    BY <2>1, <2>2, <2>3 DEF StopRoutes, StopsOK
<1> QED
  BY <1>1, LaunchInvariant, PTL

-------------------------------------------------------------------------------
(* Refinement: the controller implements ServedView.  What a step does to   *)
(* the projected view is one of four things.                                *)

Project(o) == [member |-> o.member, epoch |-> o.epoch]

\* An owner a view shows is known by its member and epoch.
LEMMA ProjectFields ==
    ASSUME NEW o \in AnyOwner
    PROVE  /\ Project(o) \in Served!Owner \cup {Served!NoOwner}
           /\ Project(o).member = o.member /\ Project(o).epoch = o.epoch
           /\ Project(o) = Served!NoOwner <=> o = NoOwner
<1>1. Project(o).member = o.member /\ Project(o).epoch = o.epoch
  BY DEF Project
<1>2. CASE o = NoOwner
  BY <1>2, NoOwnerFields DEF Project, Served!NoOwner
<1>3. CASE o # NoOwner
  <2>1. o.member \in Member /\ o.epoch \in 1..MaxEpoch
    BY <1>3, OwnerFields
  <2>2. Project(o) \in Served!Owner
    BY <2>1 DEF Project, Served!Owner
  <2>3. Project(o) # Served!NoOwner
    <3>1. Served!NoOwner.member = NoMember
      BY DEF Served!NoOwner
    <3> QED
      BY <1>1, <2>1, <3>1, ControllerAssumption
  <2> QED
    BY <1>1, <1>3, <2>2, <2>3
<1> QED
  BY <1>2, <1>3, <1>1

\* Views show granted terms only, so that equal projections are equal owners.
LEMMA ProjectEqual ==
    ASSUME NEW o \in AnyOwner, NEW p \in AnyOwner,
           o.granted \/ o = NoOwner, p.granted \/ p = NoOwner
    PROVE  Project(o) = Project(p) <=> o = p
<1>1. ASSUME Project(o) = Project(p) PROVE o = p
  <2>1. o.member = p.member /\ o.epoch = p.epoch
    BY <1>1 DEF Project
  <2>2. CASE o = NoOwner \/ p = NoOwner
    BY <2>1, <2>2, OwnerFields
  <2>3. CASE o # NoOwner /\ p # NoOwner
    <3>1. o.granted = p.granted
      BY <2>3, OwnerFields
    <3> QED
      BY <2>1, <3>1, OwnerEqual
  <2> QED
    BY <2>2, <2>3
<1> QED
  BY <1>1

\* A change of the view at the next revision is a Serve step.
LEMMA ServeStep ==
    ASSUME ViewInv, ViewInv',
           revision' = revision + 1,
           loaded' \in {loaded, TRUE},
           \A s \in Route :
               /\ ownedSince'[s] =
                    IF view'.owners[s] = NoOwner THEN 0
                    ELSE IF view'.owners[s] = view.owners[s] THEN ownedSince[s]
                    ELSE revision'
               /\ assigned'[s] \in {0, IF assigned[s] # 0 THEN assigned[s]
                                       ELSE revision'}
    PROVE  Served!Serve
<1>1. /\ CtrlTypes /\ view.owners \in [Route -> AnyOwner]
      /\ CtrlTypes' /\ view'.owners \in [Route -> AnyOwner]
      /\ view'.desired \in SUBSET Route
      /\ \A s \in Route : DatedOK(s) /\ DatedOK(s)'
  BY Fields DEF ViewInv, CtrlTypes, ViewType
<1> DEFINE p == [s \in Route |-> [member |-> view.owners[s].member,
                                  epoch |-> view.owners[s].epoch]]
<1>2. p' \in [Route -> Served!Owner \cup {Served!NoOwner}]
  <2>1. p' = [s \in Route |-> Project(view'.owners[s])]
    BY DEF Project
  <2> QED
    BY <2>1, <1>1, ProjectFields
<1>3. \A s \in Route : p[s] = Project(view.owners[s]) /\ p'[s] = Project(view'.owners[s])
  BY DEF Project
<1> HIDE DEF p
<1>4. \A s \in Route : /\ p'[s] = Served!NoOwner <=> view'.owners[s] = NoOwner
                       /\ p'[s] = p[s] <=> view'.owners[s] = view.owners[s]
  <2> SUFFICES ASSUME NEW s \in Route
               PROVE  /\ p'[s] = Served!NoOwner <=> view'.owners[s] = NoOwner
                      /\ p'[s] = p[s] <=> view'.owners[s] = view.owners[s]
    OBVIOUS
  <2>1. /\ view.owners[s] \in AnyOwner /\ view'.owners[s] \in AnyOwner
        /\ view.owners[s].granted \/ view.owners[s] = NoOwner
        /\ view'.owners[s].granted \/ view'.owners[s] = NoOwner
    BY <1>1 DEF DatedOK
  <2> QED
    BY <2>1, <1>3, ProjectFields, ProjectEqual
<1>5. ownedSince' = [s \in Route |->
                       IF p'[s] = Served!NoOwner THEN 0
                       ELSE IF p'[s] = p[s] THEN ownedSince[s]
                       ELSE revision']
  BY <1>1, <1>4 DEF CtrlTypes
<1>6. /\ assigned' \in [Route -> 0..revision']
      /\ \A s \in Route : /\ assigned'[s] # 0 => s \in view'.desired
                          /\ stopping'[s] # NoMember => s \notin view'.desired
      /\ stopping' \in [Route -> Member \cup {NoMember}]
  BY <1>1 DEF CtrlTypes, DatedOK
<1> QED
  BY <1>1, <1>2, <1>5, <1>6 DEF Served!Serve, p

\* A step that leaves the view alone is a stutter of ServedView.
LEMMA ServedStutter ==
    ASSUME UNCHANGED <<loaded, revision, assigned, ownedSince, stopping>>,
           view'.desired = view.desired, view'.owners = view.owners
    PROVE  UNCHANGED Served!viewVars
  BY DEF Served!viewVars

\* The changes of a launch, a withdrawal and a pass are promised.
LEMMA PlaceOwnerServes ==
    ASSUME ViewInv, ViewInv', NEW r \in Route, PlaceOwner(r)
    PROVE  [Served!ViewNext]_(Served!viewVars)
<1> DEFINE o == Term(launch[r].member, 1)
<1>1. CASE ~loaded \/ view.owners[r] = o
  BY <1>1, ServedStutter DEF PlaceOwner
<1>2. CASE ~(~loaded \/ view.owners[r] = o)
  <2>1. /\ view' = [view EXCEPT !.owners[r] = o]
        /\ revision' = revision + 1
        /\ ownedSince' = [ownedSince EXCEPT ![r] = revision + 1]
        /\ assigned' = assigned /\ loaded' = loaded
        /\ launch[r].step = "recorded"
    BY <1>2 DEF PlaceOwner
  <2>2. o \in AnyOwner /\ o # NoOwner
    BY <2>1, TermFields, ControllerAssumption DEF ViewInv, LaunchOK
  <2>3. o # view.owners[r]
    BY <1>2
  <2> HIDE DEF o
  <2>4. view \in ViewType /\ r \in Route
    BY DEF ViewInv, CtrlTypes
  <2>5. view' = [view EXCEPT !.owners[r] = o]
    BY <2>1
  <2>6. /\ view'.owners[r] = o
        /\ \A s \in Route \ {r} : view'.owners[s] = view.owners[s]
    BY ONLY <2>2, <2>4, <2>5, ViewPlaced, Zenon
  <2>7. Served!Serve
    <3>1. /\ ownedSince \in [Route -> Nat] /\ assigned \in [Route -> Nat]
          /\ loaded' \in {loaded, TRUE}
          /\ \A s \in Route : ownedSince[s] = 0 <=> view.owners[s] = NoOwner
      BY <2>1 DEF ViewInv, CtrlTypes, DatedOK
    <3>2. ASSUME NEW s \in Route
          PROVE  /\ ownedSince'[s] =
                      IF view'.owners[s] = NoOwner THEN 0
                      ELSE IF view'.owners[s] = view.owners[s] THEN ownedSince[s]
                      ELSE revision'
                 /\ assigned'[s] \in {0, IF assigned[s] # 0 THEN assigned[s]
                                         ELSE revision'}
      BY <2>1, <2>2, <2>3, <2>6, <3>1
    <3> QED
      BY <2>1, <3>1, <3>2, ServeStep
  <2> QED
    BY <2>7 DEF Served!ViewNext
<1> QED
  BY <1>1, <1>2

\* An assignment, at a new revision where a snapshot shows it.
LEMMA AssignServes ==
    ASSUME ViewInv, ViewInv', NEW r \in Route, Assign(r)
    PROVE  [Served!ViewNext]_(Served!viewVars)
<1>1. /\ CtrlTypes /\ \A s \in Route : DatedOK(s)
      /\ view'.desired = view.desired \cup {r} /\ view'.owners = view.owners
      /\ ownedSince' = ownedSince /\ loaded' = loaded
      /\ stopping' = [stopping EXCEPT ![r] = NoMember]
  BY AssignView DEF ViewInv, Assign
<1>2. CASE r \in Assigned
  <2>1. UNCHANGED <<revision, assigned>> /\ r \in view.desired /\ stopping[r] = NoMember
    BY <1>1, <1>2 DEF Assign, Assigned, DatedOK
  <2>2. stopping' = stopping /\ view'.desired = view.desired
    BY <1>1, <2>1 DEF CtrlTypes
  <2> QED
    BY <1>1, <2>1, <2>2, ServedStutter
<1>3. CASE r \notin Assigned
  <2>1. revision' = revision + 1 /\ assigned' = [assigned EXCEPT ![r] = revision + 1]
    BY <1>3 DEF Assign
  <2>2. assigned[r] = 0
    BY <1>3 DEF Assigned
  <2>3. ASSUME NEW s \in Route
        PROVE  /\ ownedSince'[s] =
                    IF view'.owners[s] = NoOwner THEN 0
                    ELSE IF view'.owners[s] = view.owners[s] THEN ownedSince[s]
                    ELSE revision'
               /\ assigned'[s] \in {0, IF assigned[s] # 0 THEN assigned[s]
                                       ELSE revision'}
    BY <1>1, <2>1, <2>2 DEF CtrlTypes, DatedOK
  <2>4. Served!Serve
    BY <1>1, <2>1, <2>3, ServeStep
  <2> QED
    BY <2>4 DEF Served!ViewNext
<1> QED
  BY <1>2, <1>3

\* Without an owner nothing a snapshot shows changes; with one, or with an
\* assignment, the revision moves on.
LEMMA UnassignServes ==
    ASSUME ViewInv, ViewInv', NEW r \in Route, Unassign(r),
           loaded' = loaded, ownedSince' = ownedSince
    PROVE  [Served!ViewNext]_(Served!viewVars)
<1>1. /\ CtrlTypes /\ \A s \in Route : DatedOK(s)
      /\ view'.desired = view.desired \ {r} /\ view'.owners = view.owners
      /\ assigned' = [assigned EXCEPT ![r] = 0]
  BY UnassignView DEF ViewInv, Unassign
<1>2. CASE r \in Assigned \/ view.owners[r] # NoOwner
  <2>1. revision' = revision + 1
    BY <1>2 DEF Unassign
  <2>2. ASSUME NEW s \in Route
        PROVE  /\ ownedSince'[s] =
                    IF view'.owners[s] = NoOwner THEN 0
                    ELSE IF view'.owners[s] = view.owners[s] THEN ownedSince[s]
                    ELSE revision'
               /\ assigned'[s] \in {0, IF assigned[s] # 0 THEN assigned[s]
                                       ELSE revision'}
    BY <1>1, <2>1 DEF CtrlTypes, DatedOK
  <2>3. Served!Serve
    BY <1>1, <2>1, <2>2, ServeStep
  <2> QED
    BY <2>3 DEF Served!ViewNext
<1>3. CASE ~(r \in Assigned \/ view.owners[r] # NoOwner)
  <2>1. /\ revision' = revision /\ stopping' = stopping
        /\ assigned[r] = 0 /\ view.owners[r] = NoOwner
    BY <1>3 DEF Unassign, Assigned
  <2>2. assigned' = assigned
    BY <1>1, <2>1 DEF CtrlTypes
  <2>3. /\ view'.desired \in SUBSET Route
        /\ \A s \in Route \ {r} : s \in view'.desired <=> s \in view.desired
        /\ view.owners[r].member = NoMember
    BY <1>1, <2>1, Fields, NoOwnerFields
  <2>4. ASSUME NEW m \in Member PROVE Served!Snapshot(m)' = Served!Snapshot(m)
    <3>1. m # NoMember
      BY ControllerAssumption
    <3> QED
      BY <1>1, <2>1, <2>2, <2>3, <3>1 DEF Served!Snapshot, Served!OwnedAssigned
  <2>5. Served!Unseen
    BY <1>1, <2>1, <2>2, <2>3, <2>4 DEF Served!Unseen
  <2> QED
    BY <2>5 DEF Served!ViewNext
<1> QED
  BY <1>2, <1>3

\* A pass that publishes what is served already changes nothing, not even the
\* stops; any other is dated by the next revision.
LEMMA PublishServes ==
    ASSUME ViewInv, ViewInv', NEW passed, NEW changed \in BOOLEAN,
           Publish(passed, changed)
    PROVE  [Served!ViewNext]_(Served!viewVars)
<1> DEFINE owners == MergedOwners(passed)
           desired == MergedDesired
           new == [desired |-> desired, owners |-> owners,
                   assignments |-> MergedAssignments]
<1>1. /\ CtrlTypes /\ \A s \in Route : DatedOK(s)
      /\ UpdatePool(passed, changed)
  BY DEF Publish, ViewInv
<1>2. stopping' = [s \in Route |->
                     IF s \in desired THEN NoMember
                     ELSE IF stopping[s] = NoMember /\ loaded /\ s \in view.desired
                          THEN view.owners[s].member ELSE stopping[s]]
  BY <1>1 DEF UpdatePool
<1>3. \/ /\ loaded /\ new = view
         /\ UNCHANGED <<loaded, desiredVars>>
      \/ /\ loaded' = TRUE
         /\ revision' = revision + 1
         /\ view' = new
         /\ ownedSince' = [s \in Route |->
              IF owners[s] = NoOwner THEN 0
              ELSE IF owners[s] = view.owners[s] /\ ownedSince[s] # 0
                   THEN ownedSince[s] ELSE revision + 1]
         /\ assigned' = [s \in Route |->
              IF s \notin new.assignments THEN 0
              ELSE IF s \in Assigned THEN assigned[s] ELSE revision + 1]
  BY <1>1 DEF UpdatePool
<1>4. new.desired = desired /\ new.owners = owners
  OBVIOUS
<1> HIDE DEF owners, desired, new
<1>5. CASE loaded /\ new = view /\ UNCHANGED <<loaded, desiredVars>>
  <2>1. desired = view.desired
    BY <1>4, <1>5
  <2>2. stopping' = stopping
    BY <1>1, <1>2, <2>1 DEF CtrlTypes, DatedOK
  <2> QED
    BY <1>5, <2>2, ServedStutter DEF desiredVars
<1>6. CASE ~(loaded /\ new = view /\ UNCHANGED <<loaded, desiredVars>>)
  <2>1. /\ loaded' = TRUE
        /\ revision' = revision + 1
        /\ view'.owners = owners
        /\ ownedSince' = [s \in Route |->
              IF owners[s] = NoOwner THEN 0
              ELSE IF owners[s] = view.owners[s] /\ ownedSince[s] # 0
                   THEN ownedSince[s] ELSE revision + 1]
        /\ \A s \in Route : assigned'[s] =
              IF s \notin new.assignments THEN 0
              ELSE IF s \in Assigned THEN assigned[s] ELSE revision + 1
    BY <1>3, <1>4, <1>6
  <2>2. ASSUME NEW s \in Route
        PROVE  /\ ownedSince'[s] =
                    IF view'.owners[s] = NoOwner THEN 0
                    ELSE IF view'.owners[s] = view.owners[s] THEN ownedSince[s]
                    ELSE revision'
               /\ assigned'[s] \in {0, IF assigned[s] # 0 THEN assigned[s]
                                       ELSE revision'}
    BY <1>1, <2>1 DEF CtrlTypes, DatedOK, Assigned
  <2>3. Served!Serve
    BY <2>1, <2>2, ServeStep
  <2> QED
    BY <2>3 DEF Served!ViewNext
<1> QED
  BY <1>5, <1>6

\* Every step of the controller is one its streams may see, or none.
LEMMA ControllerServes ==
    ASSUME ViewInv, ViewInv', [ControllerNext]_controllerVars
    PROVE  [Served!ViewNext]_(Served!viewVars)
<1> DEFINE Silent == UNCHANGED <<loaded, revision, view, assigned, ownedSince, stopping>>
<1>1. Silent => [Served!ViewNext]_(Served!viewVars)
  BY ServedStutter
<1>2. CASE RecordStep
  BY <1>1, <1>2
  DEF RecordStep, PublishElsewhere, LaunchRecorded, WithdrawElsewhere, Intend,
      Grant, RemoveOwner, OwnerWritten, desiredVars
<1>3. CASE LaunchStep
  <2>1. ASSUME NEW r \in Route, AssignRefused(r)
        PROVE  [Served!ViewNext]_(Served!viewVars)
    BY <2>1, UnassignServes DEF AssignRefused
  <2> QED
    BY <1>3, <2>1, PlaceOwnerServes, AssignServes DEF LaunchStep
<1>4. CASE PassStep
  <2>1. ASSUME NEW passed \in SUBSET Route, NEW changed \in BOOLEAN,
               Publish(passed, changed)
        PROVE  [Served!ViewNext]_(Served!viewVars)
    BY <2>1, PublishServes
  <2>2. CASE \/ BeginPass \/ Stamp
             \/ \E r \in Route : RemoveWithdrawn(r)
             \/ \E missed \in SUBSET Route :
                  ListOwners(missed) \/ ListRecords(missed) \/ LoadMaterials(missed)
    <3>1. Silent
      BY <2>2 DEF BeginPass, Stamp, RemoveWithdrawn, ListOwners, ListRecords,
                  LoadMaterials, desiredVars
    <3> QED
      BY <1>1, <3>1
  <2> QED
    BY <1>4, <2>1, <2>2 DEF PassStep
<1>5. CASE ControllerFault
  <2>1. ASSUME NEW r \in Route, ForgetStop(r)
        PROVE  [Served!ViewNext]_(Served!viewVars)
    <3>1. /\ stopping \in [Route -> Member \cup {NoMember}]
          /\ stopping' = [stopping EXCEPT ![r] = NoMember]
          /\ UNCHANGED <<loaded, revision, view, assigned, ownedSince>>
      BY <2>1 DEF ForgetStop, desiredVars, ViewInv, CtrlTypes
    <3>2. Served!StopsExpire
      BY <3>1 DEF Served!StopsExpire
    <3> QED
      BY <3>2 DEF Served!ViewNext
  <2>2. CASE AbandonPass \/ \E r \in Route : DropLaunch(r)
    BY <1>1, <2>2 DEF AbandonPass, DropLaunch, desiredVars
  <2> QED
    BY <1>5, <2>1, <2>2 DEF ControllerFault
<1>6. CASE Restart
  <2>1. /\ loaded' = FALSE /\ revision' = 0 /\ view'.desired = {}
        /\ view'.owners = [s \in Route |-> NoOwner]
        /\ assigned' = [s \in Route |-> 0] /\ ownedSince' = [s \in Route |-> 0]
        /\ stopping' = [s \in Route |-> NoMember]
    BY <1>6 DEF Restart, EmptyView, NoOwners
  <2>2. \A s \in Route : [member |-> view'.owners[s].member,
                          epoch |-> view'.owners[s].epoch] = Served!NoOwner
    BY <2>1, NoOwnerFields DEF Served!NoOwner
  <2>3. Served!ViewRestart
    BY <2>1, <2>2 DEF Served!ViewRestart
  <2> QED
    BY <2>3 DEF Served!ViewNext
<1>7. CASE \E r \in Route : Withdraw(r)
  BY <1>7, UnassignServes DEF Withdraw
<1>8. CASE \/ \E m \in Member : Attach(m) \/ Detach(m)
           \/ UNCHANGED controllerVars
  BY <1>1, <1>8 DEF Attach, Detach, desiredVars, controllerVars
<1> QED
  BY <1>2, <1>3, <1>4, <1>5, <1>6, <1>7, <1>8 DEF ControllerNext

\* SupervisorHostController implements ServedView: nothing a member's snapshot
\* shows changes without a new revision, and every term and assignment is
\* dated by the revision that introduced it, whatever the pass, launches,
\* withdrawals and takeovers do in whatever order.
THEOREM ControllerImplementsServedView == ControllerSpec => ImplementsServedView
<1>1. ControllerInit => Served!ViewInit
  <2> SUFFICES ASSUME ControllerInit PROVE Served!ViewInit
    OBVIOUS
  <2>1. view.desired = {} /\ view.owners = [s \in Route |-> NoOwner]
    BY DEF ControllerInit, EmptyView, NoOwners
  <2>2. \A s \in Route : [member |-> view.owners[s].member,
                          epoch |-> view.owners[s].epoch] = Served!NoOwner
    BY <2>1, NoOwnerFields DEF Served!NoOwner
  <2> QED
    BY <2>1, <2>2 DEF ControllerInit, Served!ViewInit
<1>2. ViewInv /\ ViewInv' /\ [ControllerNext]_controllerVars
        => [Served!ViewNext]_(Served!viewVars)
  BY ControllerServes
<1> QED
  BY <1>1, <1>2, ViewInvariant, PTL
  DEF ControllerSpec, ImplementsServedView, Served!ViewSpec
=============================================================================
