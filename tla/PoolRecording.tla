--------------------------- MODULE PoolRecording ---------------------------
(***************************************************************************)
(* Recording an instance in the supervisor pool, with its launch material. *)
(*                                                                         *)
(* The record of one route lives in the object store and the material in   *)
(* the credential store, so no write covers both.  A recording reserves    *)
(* the route, stores the material, has a candidate row own it, and         *)
(* publishes by advancing its own reservation; a launch publishes in two   *)
(* moves, the second (its admission) together with the owner record.       *)
(* Reconciliation passes meanwhile remove withdrawn instances, fence       *)
(* records that are overdue and collect material whose recording can no    *)
(* longer publish.                                                         *)
(*                                                                         *)
(* Routes do not interact here: the model has one.  A row is identified by *)
(* its writer and, of one writer, each version is a phase, so a condition  *)
(* on id and version is a condition on the row.  Grace periods may have    *)
(* passed at any moment.  Ownership is reduced to whether the route has an *)
(* owner record (SupervisorPool has the rest).                             *)
(***************************************************************************)
EXTENDS Naturals

CONSTANTS
    Launch,       \* launches of the instance: recordings awaiting admission
    Recovery,     \* recordings of a recovered instance, published at once
    Replica,      \* gateway replicas, one reconciliation pass each
    NoTask,       \* no recording
    MayFail,      \* bound: tasks and replicas that meet errors or crash
    MayLoseReply, \* bound: tasks told that a write failed which applied
    MayWithdraw,  \* bound: replicas on which the instance is withdrawn
    MayEnd        \* bound: whether the generation may end

ASSUME RecordingAssumption ==
    /\ Launch \cap Recovery = {}
    /\ (Launch \cup Recovery) \cap Replica = {}
    /\ NoTask \notin Launch \cup Recovery
    /\ MayEnd \in BOOLEAN

Task == Launch \cup Recovery

VARIABLES
    record,     \* the route's row: its phase and the recording that wrote it
    material,   \* recordings whose material the credential store keeps
    candidate,  \* recordings whose material a candidate row owns
    owner,      \* the route has an owner record
    ended,      \* the sandbox's generation ended
    task,       \* each recording: where it is, the record it goes by
    pass,       \* each pass: where it is, the row and candidate it read
    withdrawn,  \* replicas that know the instance as withdrawn (in memory)
    unstaged,   \* history: material that never got a candidate row
    superseded  \* history: recordings that settled for another's owner

vars == <<record, material, candidate, owner, ended, task, pass, withdrawn,
          unstaged, superseded>>

-----------------------------------------------------------------------------
NoRow == [phase |-> "none", writer |-> NoTask]

Row == {NoRow} \cup
       [phase : {"reserved", "admitting", "published"}, writer : Task]

Holds(row) == row.phase \in {"admitting", "published"}

TaskState == [pc : {"idle", "reserve", "lost", "store", "unreserve", "stage",
                    "drop", "publish", "admit", "changed", "giveup",
                    "settle", "discard", "forget", "done"},
              row : Row,            \* recording.record
              staged : BOOLEAN]     \* recording.candidate is Some

PassState == [pc : {"idle", "material", "row", "fence", "check", "discard",
                    "forget"},
              row : Row,                   \* the record as listed or read
              of : Task \cup {NoTask}]     \* the candidate being settled

Idle == [pc |-> "idle", row |-> NoRow, staged |-> FALSE]

IdlePass == [pc |-> "idle", row |-> NoRow, of |-> NoTask]

TypeOK ==
    /\ record \in Row
    /\ material \subseteq Task
    /\ candidate \subseteq Task
    /\ owner \in BOOLEAN
    /\ ended \in BOOLEAN
    /\ task \in [Task -> TaskState]
    /\ pass \in [Replica -> PassState]
    /\ withdrawn \subseteq Replica
    /\ unstaged \subseteq Task
    /\ superseded \subseteq Task

Init ==
    /\ record = NoRow
    /\ material = {}
    /\ candidate = {}
    /\ owner = FALSE
    /\ ended = FALSE
    /\ task = [t \in Task |-> Idle]
    /\ pass = [g \in Replica |-> IdlePass]
    /\ withdrawn = {}
    /\ unstaged = {}
    /\ superseded = {}

store == <<record, material, candidate, owner>>
replicas == <<pass, withdrawn>>
history == <<unstaged, superseded>>

\* A recording that is done keeps nothing.
Go(t, pc) ==
    task' = [task EXCEPT ![t] =
        [(IF pc = "done" THEN Idle ELSE @) EXCEPT !.pc = pc]]

-----------------------------------------------------------------------------
(* A recording: record_assignment_as.                                      *)

\* A record that exists is kept: a launch goes on to admit it, or to record
\* its owner, without a candidate of its own; a reservation is an error.
Keep(t, pc) ==
    task' = [task EXCEPT ![t] =
        IF Holds(record) /\ t \in Launch
        THEN [pc |-> "admit", row |-> record, staged |-> FALSE]
        ELSE [Idle EXCEPT !.pc = IF Holds(record) THEN "done" ELSE pc]]

Read(t) ==
    /\ task[t].pc = "idle"
    /\ Keep(t, IF record = NoRow THEN "reserve" ELSE "done")
    /\ UNCHANGED <<store, ended, replicas, history>>

Reserve(t) ==
    /\ task[t].pc = "reserve"
    /\ \/ /\ record = NoRow
          /\ record' = [phase |-> "reserved", writer |-> t]
          /\ Go(t, "store")
       \/ /\ record # NoRow
          /\ Go(t, "lost")
          /\ UNCHANGED record
    /\ UNCHANGED <<material, candidate, owner, ended, replicas, history>>

\* Another recording has the route: its record is read, and may be gone.
ReadWinner(t) ==
    /\ task[t].pc = "lost"
    /\ Keep(t, "done")
    /\ UNCHANGED <<store, ended, replicas, history>>

StoreMaterial(t) ==
    /\ task[t].pc = "store"
    /\ \/ /\ material' = material \cup {t}
          /\ Go(t, "stage")
       \/ /\ t \in MayFail
          /\ Go(t, "unreserve")
          /\ UNCHANGED material
    /\ UNCHANGED <<record, candidate, owner, ended, replicas, history>>

\* The candidate row is written; if not, the material is dropped again.
Stage(t) ==
    /\ task[t].pc = "stage"
    /\ \/ /\ candidate' = candidate \cup {t}
          /\ \/ Go(t, "publish")
             \/ t \in MayLoseReply /\ Go(t, "drop")
       \/ /\ t \in MayFail
          /\ Go(t, "drop")
          /\ UNCHANGED candidate
    /\ UNCHANGED <<record, material, owner, ended, replicas, history>>

DropMaterial(t) ==
    /\ task[t].pc = "drop"
    /\ \/ /\ material' = material \ {t}
          /\ UNCHANGED unstaged
       \/ /\ t \in MayFail
          /\ unstaged' = IF t \in candidate THEN unstaged
                         ELSE unstaged \cup {t}
          /\ UNCHANGED material
    /\ Go(t, "unreserve")
    /\ UNCHANGED <<record, candidate, owner, ended, replicas, superseded>>

\* Mutant: the row's writer stays behind.
UnreserveKeepsWriter(t) ==
    /\ task[t].pc = "unreserve"
    /\ record' = IF record = [phase |-> "reserved", writer |-> t]
                 THEN [record EXCEPT !.phase = "none"] ELSE record
    /\ Go(t, "done")
    /\ UNCHANGED <<material, candidate, owner, ended, replicas, history>>

Unreserve(t) ==
    /\ task[t].pc = "unreserve"
    /\ record' = IF record = [phase |-> "reserved", writer |-> t] THEN NoRow
                 ELSE record
    /\ Go(t, "done")
    /\ UNCHANGED <<material, candidate, owner, ended, replicas, history>>

\* Publication advances the recording's own reservation.  Any failure, also
\* one that is not a conflict, is taken to mean that it never will.
Publish(t) ==
    /\ task[t].pc = "publish"
    /\ LET row == [phase |-> IF t \in Launch THEN "admitting" ELSE "published",
                   writer |-> t]
       IN  \/ /\ record = [phase |-> "reserved", writer |-> t]
              /\ record' = row
              /\ \/ task' = [task EXCEPT ![t] =
                       [pc |-> IF t \in Launch THEN "admit" ELSE "settle",
                        row |-> row, staged |-> TRUE]]
                 \/ t \in MayLoseReply /\ Go(t, "discard")
           \/ /\ \/ record # [phase |-> "reserved", writer |-> t]
                 \/ t \in MayFail
              /\ Go(t, "discard")
              /\ UNCHANGED record
    /\ UNCHANGED <<material, candidate, owner, ended, replicas, history>>

\* Mutant: the candidate goes although its material could not be deleted.
DiscardAnyway(t) ==
    /\ task[t].pc = "discard"
    /\ material' = material \ {t} \/ (t \in MayFail /\ UNCHANGED material)
    /\ Go(t, "forget")
    /\ UNCHANGED <<record, candidate, owner, ended, replicas, history>>

\* discard_candidate: the material goes first; a failure keeps the candidate.
DiscardMaterial(t) ==
    /\ task[t].pc = "discard"
    /\ \/ material' = material \ {t} /\ Go(t, "forget")
       \/ t \in MayFail /\ Go(t, "done") /\ UNCHANGED material
    /\ UNCHANGED <<record, candidate, owner, ended, replicas, history>>

ForgetCandidate(t) ==
    /\ task[t].pc = "forget"
    /\ candidate' = candidate \ {t}
    /\ Go(t, "done")
    /\ UNCHANGED <<record, material, owner, ended, replicas, history>>

-----------------------------------------------------------------------------
(* The end of a launch: place_launch from its owner change on.             *)

Admissible(t) ==
    ~owner /\ (task[t].row.phase = "admitting" => record = task[t].row)

\* The owner record and the publication are one write.
Admit(t) ==
    /\ task[t].pc = "admit"
    /\ \/ /\ Admissible(t)
          /\ owner' = TRUE
          /\ record' = IF task[t].row.phase = "admitting"
                       THEN [record EXCEPT !.phase = "published"]
                       ELSE record
          /\ Go(t, "settle") \/ (t \in MayLoseReply /\ Go(t, "done"))
       \/ /\ ~Admissible(t)
          /\ Go(t, "changed")
          /\ UNCHANGED <<record, owner>>
    /\ UNCHANGED <<material, candidate, ended, replicas, history>>

\* launched_owner: a launch that came second settles for the owner that is
\* there.
LaunchedOwner(t) ==
    /\ task[t].pc = "changed"
    /\ Go(t, IF owner THEN "settle" ELSE "done")
    /\ UNCHANGED <<store, ended, replicas, history>>

\* No member had room.
Refuse(t) ==
    /\ task[t].pc = "admit"
    /\ Go(t, "giveup")
    /\ UNCHANGED <<store, ended, replicas, history>>

\* Mutant: the record is removed whatever became of it meanwhile.
GiveUpAnyRecord(t) ==
    /\ task[t].pc = "giveup"
    /\ record' = IF task[t].staged THEN NoRow ELSE record
    /\ Go(t, IF task[t].staged THEN "discard" ELSE "done")
    /\ UNCHANGED <<material, candidate, owner, ended, replicas, history>>

\* give_up_admission removes the record only if this launch created it and
\* nobody admitted it.
GiveUpAdmission(t) ==
    /\ task[t].pc = "giveup"
    /\ \/ /\ task[t].staged
          /\ record = task[t].row
          /\ record' = NoRow
          /\ Go(t, "discard")
       \/ /\ ~task[t].staged \/ record # task[t].row
          /\ Go(t, "done")
          /\ UNCHANGED record
    /\ UNCHANGED <<material, candidate, owner, ended, replicas, history>>

\* release_candidate, for a recording that created one: whoever's record the
\* owner goes with.
Settle(t) ==
    /\ task[t].pc = "settle"
    /\ candidate' = IF task[t].staged THEN candidate \ {t} ELSE candidate
    /\ superseded' = IF task[t].staged
                        /\ record # [phase |-> "published", writer |-> t]
                     THEN superseded \cup {t} ELSE superseded
    /\ Go(t, "done")
    /\ UNCHANGED <<record, material, owner, ended, replicas, unstaged>>

\* An error ends the recording, or the replica it runs on crashes.
Fail(t) ==
    /\ t \in MayFail
    /\ task[t].pc \notin {"idle", "done"}
    /\ unstaged' = IF t \in material \ candidate /\ task[t].pc \in {"stage", "drop"}
                   THEN unstaged \cup {t} ELSE unstaged
    /\ Go(t, "done")
    /\ UNCHANGED <<store, ended, replicas, superseded>>

-----------------------------------------------------------------------------
(* A reconciliation pass.                                                  *)

Step(g, state) == pass' = [pass EXCEPT ![g] = state]

\* remove_withdrawn and delete_assignment: the record is read, a published
\* one loses its material first, and then the row goes, if it still is as
\* read.  The withdrawal is forgotten in any case.
ReadWithdrawn(g) ==
    /\ pass[g].pc = "idle"
    /\ g \in withdrawn
    /\ \/ /\ record # NoRow
          /\ Step(g, [pc |-> IF record.phase = "published" THEN "material"
                             ELSE "row", row |-> record, of |-> NoTask])
          /\ UNCHANGED withdrawn
       \/ /\ record = NoRow
          /\ withdrawn' = withdrawn \ {g}
          /\ UNCHANGED pass
    /\ UNCHANGED <<store, ended, task, history>>

DeleteMaterial(g) ==
    /\ pass[g].pc = "material"
    /\ material' = material \ {pass[g].row.writer}
    /\ Step(g, [pass[g] EXCEPT !.pc = "row"])
    /\ UNCHANGED <<record, candidate, owner, ended, task, withdrawn, history>>

DeleteRow(g) ==
    /\ pass[g].pc = "row"
    /\ record' = IF record = pass[g].row THEN NoRow ELSE record
    /\ withdrawn' = withdrawn \ {g}
    /\ Step(g, IdlePass)
    /\ UNCHANGED <<material, candidate, owner, ended, task, history>>

\* Mutant: admitting records are never overdue.
ListReserved(g) ==
    /\ pass[g].pc = "idle"
    /\ record.phase = "reserved"
    /\ Step(g, [pc |-> "fence", row |-> record, of |-> NoTask])
    /\ UNCHANGED <<store, ended, task, withdrawn, history>>

\* fence_stale_reservations, from a listing.
List(g) ==
    /\ pass[g].pc = "idle"
    /\ record.phase \in {"reserved", "admitting"}
    /\ Step(g, [pc |-> "fence", row |-> record, of |-> NoTask])
    /\ UNCHANGED <<store, ended, task, withdrawn, history>>

Fence(g) ==
    /\ pass[g].pc = "fence"
    /\ record' = IF record = pass[g].row THEN NoRow ELSE record
    /\ Step(g, IdlePass)
    /\ UNCHANGED <<material, candidate, owner, ended, task, withdrawn, history>>

\* remove_stale_candidates: a candidate is listed, and the record read.
ListCandidate(g, t) ==
    /\ pass[g].pc = "idle"
    /\ t \in candidate
    /\ Step(g, [pc |-> "check", row |-> NoRow, of |-> t])
    /\ UNCHANGED <<store, ended, task, withdrawn, history>>

\* Mutant: an admitting record does not hold on to its candidate.
CheckIgnoresAdmitting(g) ==
    /\ pass[g].pc = "check"
    /\ LET t == pass[g].of
           mine == record.writer = t
       IN  Step(g, [pass[g] EXCEPT !.pc =
               CASE mine /\ record.phase = "reserved" -> "idle"
                 [] mine /\ record.phase = "published" -> "forget"
                 [] OTHER -> "discard"])
    /\ UNCHANGED <<store, ended, task, withdrawn, history>>

\* Mutant: the candidate of a published record is left alone.
CheckKeepsPublished(g) ==
    /\ pass[g].pc = "check"
    /\ Step(g, [pass[g] EXCEPT !.pc =
           IF record.writer = pass[g].of THEN "idle" ELSE "discard"])
    /\ UNCHANGED <<store, ended, task, withdrawn, history>>

CheckCandidate(g) ==
    /\ pass[g].pc = "check"
    /\ LET t == pass[g].of
           mine == record.writer = t
       IN  Step(g, [pass[g] EXCEPT !.pc =
               CASE mine /\ record.phase \in {"reserved", "admitting"} -> "idle"
                 [] mine /\ record.phase = "published" -> "forget"
                 [] OTHER -> "discard"])
    /\ UNCHANGED <<store, ended, task, withdrawn, history>>

CollectMaterial(g) ==
    /\ pass[g].pc = "discard"
    /\ material' = material \ {pass[g].of}
    /\ Step(g, [pass[g] EXCEPT !.pc = "forget"])
    /\ UNCHANGED <<record, candidate, owner, ended, task, withdrawn, history>>

CollectCandidate(g) ==
    /\ pass[g].pc = "forget"
    /\ candidate' = candidate \ {pass[g].of}
    /\ Step(g, IdlePass)
    /\ UNCHANGED <<record, material, owner, ended, task, withdrawn, history>>

\* sweep_ended_instances
Sweep(g) ==
    /\ pass[g].pc = "idle"
    /\ record.phase = "published"
    /\ ended
    /\ withdrawn' = withdrawn \cup {g}
    /\ UNCHANGED <<store, ended, task, pass, history>>

\* A store error, or the crash of the replica, which also loses its
\* withdrawals.
FailPass(g, crash) ==
    /\ g \in MayFail
    /\ pass[g].pc # "idle" \/ (crash /\ g \in withdrawn)
    /\ Step(g, IdlePass)
    /\ withdrawn' = IF crash THEN withdrawn \ {g} ELSE withdrawn
    /\ UNCHANGED <<store, ended, task, history>>

-----------------------------------------------------------------------------
(* What the rest of the pool does to the route.                            *)

\* place_unowned and the removal of an owner record.
PlaceUnowned ==
    /\ ~owner /\ record.phase = "published"
    /\ owner' = TRUE
    /\ UNCHANGED <<record, material, candidate, ended, task, replicas, history>>

RemoveOwner ==
    /\ owner
    /\ owner' = FALSE
    /\ UNCHANGED <<record, material, candidate, ended, task, replicas, history>>

\* unassign
Withdraw(g) ==
    /\ g \in MayWithdraw \ withdrawn
    /\ withdrawn' = withdrawn \cup {g}
    /\ UNCHANGED <<store, ended, task, pass, history>>

EndGeneration ==
    /\ MayEnd /\ ~ended
    /\ ended' = TRUE
    /\ UNCHANGED <<store, task, replicas, history>>

-----------------------------------------------------------------------------
Recording(t) ==
    \/ Read(t) \/ Reserve(t) \/ ReadWinner(t) \/ StoreMaterial(t) \/ Stage(t)
    \/ DropMaterial(t) \/ Unreserve(t) \/ Publish(t) \/ DiscardMaterial(t)
    \/ ForgetCandidate(t) \/ Admit(t) \/ LaunchedOwner(t) \/ Refuse(t)
    \/ GiveUpAdmission(t) \/ Settle(t)

Removal(g) == ReadWithdrawn(g) \/ DeleteMaterial(g) \/ DeleteRow(g)

Fencing(g) == List(g) \/ Fence(g)

Collection(g) ==
    \/ \E t \in Task : ListCandidate(g, t)
    \/ CheckCandidate(g) \/ CollectMaterial(g) \/ CollectCandidate(g)

Next ==
    \/ \E t \in Task : Recording(t) \/ Fail(t)
    \/ \E g \in Replica : \/ Removal(g) \/ Fencing(g) \/ Collection(g)
                          \/ Sweep(g) \/ Withdraw(g)
                          \/ \E crash \in BOOLEAN : FailPass(g, crash)
    \/ PlaceUnowned \/ RemoveOwner \/ EndGeneration

Spec == Init /\ [][Next]_vars

\* A replica that neither fails nor crashes repeats its pass, and a pass runs
\* every phase: whatever a phase would find at infinitely many passes it
\* eventually takes up.  Recordings, withdrawals and placements owe nothing.
Fairness ==
    \A g \in Replica \ MayFail :
        /\ WF_vars(DeleteMaterial(g) \/ DeleteRow(g))
        /\ WF_vars(Fence(g))
        /\ WF_vars(CheckCandidate(g) \/ CollectMaterial(g) \/ CollectCandidate(g))
        /\ SF_vars(ReadWithdrawn(g))
        /\ SF_vars(List(g))
        /\ SF_vars(Sweep(g))
        /\ \A t \in Task : SF_vars(ListCandidate(g, t))

FairSpec == Spec /\ Fairness

-----------------------------------------------------------------------------
(* Properties.                                                             *)

\* Collection never takes the material of a record that owners may run: a
\* record comes to hold a recording's material only while the credential
\* store has it (the publication of record_assignment_as), and loses it only
\* to the removal of a withdrawn record (delete_assignment), whatever
\* remove_stale_candidates, the fences and other recordings do meanwhile.
KeptMaterial ==
    [][/\ Holds(record') /\ ~Holds(record) => record'.writer \in material'
       /\ \A t \in material \ material' :
              Holds(record) /\ record.writer = t =>
                  \E g \in withdrawn : pass[g].pc = "material"]_vars

\* A published instance goes only by a withdrawal, and only as the removal
\* read it: neither a launch that gives up the record it created and another
\* launch of the generation admitted meanwhile (give_up_admission), nor a
\* fence that listed it while it was admitting (fence_stale_reservations),
\* takes it away.
PublishedStays ==
    [][record.phase = "published" /\ record' # record =>
           \E g \in withdrawn : pass[g].pc = "row" /\ pass[g].row = record]_vars

Owned(t) ==
    \/ t \in candidate
    \/ Holds(record) /\ record.writer = t
    \/ task[t].pc \in {"stage", "drop"}

\* Stored material always has somebody who will delete it: its candidate
\* row, the record that holds it, or the recording about to stage or drop
\* it; so it survives no failure of record_assignment_as, place_launch,
\* discard_candidate or delete_assignment unseen.  Excepted are material
\* whose recording failed between storing and staging it, and that of a
\* launch that settled for another recording's owner (MaterialCollected).
MaterialOwned ==
    \A t \in material : Owned(t) \/ t \in unstaged \cup superseded

\* As the comment of place_launch has it, a launch that stalls leaves a
\* record that is fenced, and "its material is collected with its
\* candidate": also the material of a launch that settled for another's
\* record is owned until it is deleted.
MaterialCollected ==
    \A t \in material : Owned(t) \/ t \in unstaged

\* The records of an ended generation go away for good, also when the
\* withdrawal was lost with a replica or raced an admission, and whatever
\* recordings are abandoned meanwhile: fence_stale_reservations and
\* sweep_ended_instances of any replica that keeps running see to it.
EndedInstancesRemoved == ended ~> [](record = NoRow)

\* Every candidate row is eventually released or collected, so the listing
\* that remove_stale_candidates bounds per pass never clogs.
CandidatesSettled == \A t \in Task : t \in candidate ~> t \notin candidate

=============================================================================
