---------------------------- MODULE RuntimeRouting ----------------------------
(***************************************************************************)
(* Which runtime a task revision is bound to: production gate snapshots,   *)
(* the rollout mode they and the approvals of administrators move, and the *)
(* assignments of revisions, previewed by a request long before the        *)
(* transaction that creates the revision.                                  *)
(*                                                                         *)
(* Gate recording, mode changes and revision requests interleave between   *)
(* any two of their readings; one action is one reading or transaction.    *)
(***************************************************************************)
EXTENDS Naturals, Sequences

CONSTANTS
    GateId,        \* named production gates
    Snapshot,      \* gate snapshots, identified by their content
    ChecksOf,      \* the gates each snapshot checks
    PassedOf,      \* and those of them that passed
    Approval,      \* approval identities
    Admin,         \* change_mode calls in progress
    Request,       \* requests that create a task or a revision
    Task,          \* tasks
    Genesis,       \* the active snapshot id the migration writes
    MaxRevision    \* bound: revisions of a task

None == "none"

ASSUME SnapshotAssumption ==
    /\ ChecksOf \in [Snapshot -> SUBSET GateId]
    /\ PassedOf \in [Snapshot -> SUBSET GateId]
    /\ \A s \in Snapshot : PassedOf[s] \subseteq ChecksOf[s]
    /\ Genesis \notin Snapshot
ASSUME MaxRevisionAssumption == MaxRevision \in Nat

Mode == {"admin_gray", "explicit_opt_in", "vnext_default", "legacy_rollback"}
Target == {"admin_gray", "vnext_default"}
Active == Snapshot \union {Genesis}
Runtime == {"pi", "legacy"}
Assignment == [runtime : Runtime, mode : Mode, snapshot : Active]
Change == [pc : {"idle", "reading", "qualified"}, approval : Approval \union {None},
           mode : Mode, snapshot : Active]
Plan == [pc : {"idle", "reading", "previewed"}, task : Task \union {None}, revision : Nat,
         requested : Runtime \union {None}, runtime : Runtime, mode : Mode, snapshot : Active]

VARIABLES
    rollout,      \* runtime_rollout_state: mode, P0 switch, active snapshot
    recorded,     \* runtime_gate_snapshots
    approvals,    \* runtime_rollout_approvals: target and snapshot of a recorded one
    openings,     \* how often an approval moved the mode (history)
    changes,      \* mode changes in progress
    plans,        \* routing plans of requests in progress
    assignments   \* runtime_assignments of every task, by revision

vars == <<rollout, recorded, approvals, openings, changes, plans, assignments>>

NoChange == [pc |-> "idle", approval |-> None, mode |-> "admin_gray", snapshot |-> Genesis]
NoPlan == [pc |-> "idle", task |-> None, revision |-> 0, requested |-> None,
           runtime |-> "legacy", mode |-> "admin_gray", snapshot |-> Genesis]
Unrecorded == [target |-> None, snapshot |-> Genesis]

TypeOK ==
    /\ rollout \in [mode : Mode, p0 : BOOLEAN, active : Active]
    /\ recorded \subseteq Snapshot
    /\ approvals \in [Approval -> [target : Target, snapshot : Snapshot] \union {Unrecorded}]
    /\ openings \in [Approval -> 0 .. 2]
    /\ changes \in [Admin -> Change]
    /\ plans \in [Request -> Plan]
    /\ assignments \in [Task -> Seq(Assignment)]

\* A migrated database, of this version or of the one with explicit opt-in.
Init ==
    /\ \E mode \in {"admin_gray", "explicit_opt_in"} :
        rollout = [mode |-> mode, p0 |-> FALSE, active |-> Genesis]
    /\ recorded = {}
    /\ approvals = [a \in Approval |-> Unrecorded]
    /\ openings = [a \in Approval |-> 0]
    /\ changes = [c \in Admin |-> NoChange]
    /\ plans = [r \in Request |-> NoPlan]
    /\ assignments = [t \in Task |-> <<>>]
-------------------------------------------------------------------------------
(* Gate snapshots *)

\* A snapshot is effectively qualified against a set of recorded ones: all its
\* checks passed, and so did every gate any of them ever had.
Qualified(s, all) ==
    /\ s \in Snapshot
    /\ ChecksOf[s] \subseteq PassedOf[s]
    /\ \A prior \in all : ChecksOf[prior] \subseteq PassedOf[s]

\* Defective: only the active snapshot is refused, an older one comes back.
DefectActivatable(s) == s # rollout.active
Activatable(s) == s \notin recorded

\* apply_gate: record, activate, and roll back in the same transaction unless
\* the snapshot is effectively qualified.  A qualified one keeps the mode.
RecordGate(s) ==
    LET mode == IF Qualified(s, recorded) THEN rollout.mode ELSE "legacy_rollback" IN
    /\ Activatable(s)
    /\ recorded' = recorded \union {s}
    /\ rollout' = [mode |-> mode, p0 |-> (mode = "legacy_rollback"), active |-> s]
    /\ UNCHANGED <<approvals, openings, changes, plans, assignments>>
-------------------------------------------------------------------------------
(* Mode changes *)

\* record_approval: the confirmer records it, once and for ever.
RecordApproval(a) ==
    /\ approvals[a] = Unrecorded
    /\ \E target \in Target, s \in Snapshot :
        approvals' = [approvals EXCEPT ![a] = [target |-> target, snapshot |-> s]]
    /\ UNCHANGED <<rollout, recorded, openings, changes, plans, assignments>>

Allowed(mode) ==
    CASE mode = "admin_gray" -> {"vnext_default"}
      [] mode \in {"explicit_opt_in", "legacy_rollback"} -> {"admin_gray"}
      [] OTHER -> {}

\* change_mode reads the rollout and the approval ...
ReadRollout(c, a) ==
    /\ changes[c].pc = "idle"
    /\ approvals[a] # Unrecorded
    /\ approvals[a].target \in Allowed(rollout.mode)
    /\ approvals[a].snapshot = rollout.active
    /\ changes' = [changes EXCEPT ![c] = [pc |-> "reading", approval |-> a,
                       mode |-> rollout.mode, snapshot |-> rollout.active]]
    /\ UNCHANGED <<rollout, recorded, approvals, openings, plans, assignments>>

\* ... then all recorded snapshots ...
ReadGates(c) ==
    /\ changes[c].pc = "reading"
    /\ changes' = [changes EXCEPT ![c] =
                       IF Qualified(changes[c].snapshot, recorded)
                       THEN [changes[c] EXCEPT !.pc = "qualified"] ELSE NoChange]
    /\ UNCHANGED <<rollout, recorded, approvals, openings, plans, assignments>>

\* Defective: the mode is compared, the snapshot is not.
DefectStillRead(call) == call.mode = rollout.mode
StillRead(call) == call.mode = rollout.mode /\ call.snapshot = rollout.active

\* ... and change_rollout compares both in the transaction that moves the mode.
ChangeRollout(c) ==
    LET call == changes[c] IN
    /\ call.pc = "qualified"
    /\ IF StillRead(call)
       THEN /\ rollout' = [rollout EXCEPT !.mode = approvals[call.approval].target,
                                          !.p0 = FALSE]
            /\ openings' = [openings EXCEPT ![call.approval] = IF @ < 2 THEN @ + 1 ELSE @]
       ELSE UNCHANGED <<rollout, openings>>
    /\ changes' = [changes EXCEPT ![c] = NoChange]
    /\ UNCHANGED <<recorded, approvals, plans, assignments>>
-------------------------------------------------------------------------------
(* Revisions *)

HasLegacy(t) == \E i \in 1 .. Len(assignments[t]) : assignments[t][i].runtime = "legacy"
RuntimeOf(t) == assignments[t][Len(assignments[t])].runtime

\* preview of revision 1 with the runtime the user asked for, or of the next
\* revision with the runtime of the last: the rollout is read first.
Preview(r, t) ==
    /\ plans[r].pc = "idle" /\ Len(assignments[t]) < MaxRevision
    /\ \E requested \in IF assignments[t] = <<>> THEN Runtime \union {None} ELSE {RuntimeOf(t)} :
        plans' = [plans EXCEPT ![r] = [NoPlan EXCEPT !.pc = "reading", !.task = t,
                     !.revision = Len(assignments[t]) + 1, !.requested = requested,
                     !.mode = rollout.mode, !.snapshot = rollout.active]]
    /\ UNCHANGED <<rollout, recorded, approvals, openings, changes, assignments>>

\* _select_runtime, for an administrator or not; under vnext_default it reads
\* the assignments of the task.
Selected(p, administrator) ==
    CASE p.mode = "admin_gray" ->
            IF p.requested = "pi" /\ administrator THEN "pi" ELSE "legacy"
      [] p.mode = "vnext_default" ->
            IF p.requested = "legacy" \/ HasLegacy(p.task) THEN "legacy" ELSE "pi"
      [] OTHER -> "legacy"

\* A request for pi that is not granted is refused; so is, where the owner
\* confirmed a proposal, a runtime unlike the previous one.  A direct revision
\* request goes on with the runtime that was selected.
Select(r) ==
    LET p == plans[r] IN
    /\ p.pc = "reading"
    /\ \E administrator, confirmed \in BOOLEAN :
        LET chosen == Selected(p, administrator)
            refused == p.requested = "pi" /\ chosen # "pi" /\ (p.revision = 1 \/ confirmed) IN
        plans' = [plans EXCEPT ![r] = IF refused THEN NoPlan
                                      ELSE [p EXCEPT !.pc = "previewed", !.runtime = chosen]]
    /\ UNCHANGED <<rollout, recorded, approvals, openings, changes, assignments>>

\* Defective: a plan made under another rollout is still good.
DefectSameRollout(p) == p.snapshot \in Active
SameRollout(p) == p.mode = rollout.mode /\ p.snapshot = rollout.active

\* Defective: whichever revision is next takes the plan.
DefectSameRevision(p) == p.revision <= Len(assignments[p.task]) + 1
SameRevision(p) == p.revision = Len(assignments[p.task]) + 1

\* The transaction of the new revision with create_assignment_in_transaction:
\* the expected revision and the rollout of the plan, or nothing.
Assign(r) ==
    LET p == plans[r] IN
    /\ p.pc = "previewed"
    /\ IF SameRevision(p) /\ SameRollout(p)
       THEN assignments' = [assignments EXCEPT ![p.task] = Append(@,
                [runtime |-> p.runtime, mode |-> p.mode, snapshot |-> p.snapshot])]
       ELSE UNCHANGED assignments
    /\ plans' = [plans EXCEPT ![r] = NoPlan]
    /\ UNCHANGED <<rollout, recorded, approvals, openings, changes>>
-------------------------------------------------------------------------------
Next ==
    \/ \E s \in Snapshot : RecordGate(s)
    \/ \E a \in Approval : RecordApproval(a)
    \/ \E c \in Admin : ReadGates(c) \/ ChangeRollout(c) \/ \E a \in Approval : ReadRollout(c, a)
    \/ \E r \in Request : Select(r) \/ Assign(r) \/ \E t \in Task : Preview(r, t)

Spec == Init /\ [][Next]_vars
-------------------------------------------------------------------------------
(* Properties *)

Open == rollout.mode \in Target

\* Whatever gates were recorded while an administrator was deciding: a mode that
\* lets tasks onto the new runtime stands on a snapshot that passes every gate
\* ever recorded (or on none, before the first), and P0 is on exactly in a
\* rollback.
OpenIsQualified ==
    /\ Open => \/ Qualified(rollout.active, recorded)
               \/ rollout.active = Genesis /\ recorded = {}
    /\ rollout.p0 <=> rollout.mode = "legacy_rollback"

\* An approval that moved the mode is spent for its snapshot: the mode stays at
\* or beyond its target until another snapshot is active, and no snapshot is
\* ever active twice.
Rank(mode) == CASE mode = "vnext_default" -> 2 [] mode = "admin_gray" -> 1 [] OTHER -> 0
ApprovalsAreSpent ==
    \A a \in Approval :
        /\ openings[a] <= 1
        /\ openings[a] = 1 =>
            /\ approvals[a] # Unrecorded /\ approvals[a].snapshot \in recorded
            /\ approvals[a].snapshot = rollout.active =>
                   Rank(rollout.mode) >= Rank(approvals[a].target)

\* What a mode change in progress has read: a snapshot that is qualified, as
\* long as it is the active one, and an approval of it.
ReadsAreSound ==
    /\ rollout.active \in recorded \union {Genesis}
    /\ \A c \in Admin : changes[c].pc # "idle" =>
        /\ changes[c].approval \in Approval
        /\ approvals[changes[c].approval] # Unrecorded
        /\ approvals[changes[c].approval].snapshot = changes[c].snapshot
        /\ approvals[changes[c].approval].target \in Allowed(changes[c].mode)
        /\ changes[c].snapshot \in recorded \union {Genesis}
        /\ (changes[c].pc = "qualified" /\ changes[c].snapshot = rollout.active)
               => Qualified(rollout.active, recorded)

\* The inductive invariant of the proofs.
RoutingInvariant == TypeOK /\ OpenIsQualified /\ ApprovalsAreSpent /\ ReadsAreSound

\* A revision is bound to the new runtime only while the rollout is open, on the
\* snapshot of this very moment, however old the preview of the request is.
PiOnlyWhileOpen ==
    [][\A t \in Task : (assignments'[t] # assignments[t] /\ RuntimeOf(t)' = "pi")
            => /\ Open /\ ~rollout.p0
               /\ \/ Qualified(rollout.active, recorded)
                  \/ rollout.active = Genesis /\ recorded = {}]_vars

\* A task that once ran a legacy revision stays on the legacy runtime, also when
\* the mode opens, the role of its owner changes or two requests revise it.
LegacyStays ==
    \A t \in Task : \A i, j \in 1 .. Len(assignments[t]) :
        i < j /\ assignments[t][i].runtime = "legacy" => assignments[t][j].runtime = "legacy"

\* Readings may be old, effects never are: every mode change and every new
\* revision has the effect it would have if it read and wrote in one step.
\* Code: change_mode, preview, create_assignment_in_transaction, apply_gate.
Moved == {a \in Approval : openings[a] # 0}
Rollout == INSTANCE RolloutPromise
           WITH mode <- rollout.mode, active <- rollout.active, spent <- Moved,
                bound <- assignments
KeepsRollout == Rollout!Spec
===============================================================================
