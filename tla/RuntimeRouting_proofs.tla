------------------------- MODULE RuntimeRouting_proofs -------------------------
(***************************************************************************)
(* Theorems about RuntimeRouting, for every set of gates, snapshots,       *)
(* approvals, administrators, requests and tasks.                          *)
(***************************************************************************)
EXTENDS RuntimeRouting, TLAPS

LEMMA InitInvariant == Init => RoutingInvariant
BY DEF Init, RoutingInvariant, TypeOK, OpenIsQualified, ApprovalsAreSpent, ReadsAreSound, Mode,
   Active, NoChange, NoPlan, Change, Plan, Runtime, Unrecorded, None, Open, Target, Assignment

-------------------------------------------------------------------------------
(* Types *)

LEMMA GatesKeepTypes ==
    ASSUME TypeOK, NEW s \in Snapshot, RecordGate(s)
    PROVE  TypeOK'
BY DEF TypeOK, RecordGate, Mode, Active

LEMMA ApprovalsKeepTypes ==
    ASSUME TypeOK, NEW a \in Approval, RecordApproval(a)
    PROVE  TypeOK'
<1>1. PICK target \in Target, s \in Snapshot :
        approvals' = [approvals EXCEPT ![a] = [target |-> target, snapshot |-> s]]
  BY DEF RecordApproval
<1> QED
  BY <1>1 DEF TypeOK, RecordApproval

LEMMA ReadingKeepsTypes ==
    ASSUME TypeOK, NEW c \in Admin, ReadGates(c) \/ \E a \in Approval : ReadRollout(c, a)
    PROVE  TypeOK'
<1>1. CASE ReadGates(c)
  <2>1. NoChange \in Change /\ [changes[c] EXCEPT !.pc = "qualified"] \in Change
    BY DEF TypeOK, Change, NoChange, Mode, Active, None
  <2> QED
    BY <1>1, <2>1 DEF TypeOK, ReadGates
<1>2. ASSUME NEW a \in Approval, ReadRollout(c, a) PROVE TypeOK'
  <2>1. [pc |-> "reading", approval |-> a, mode |-> rollout.mode, snapshot |-> rollout.active]
          \in Change
    BY DEF TypeOK, Change
  <2> QED
    BY <1>2, <2>1 DEF TypeOK, ReadRollout
<1> QED
  BY <1>1, <1>2

LEMMA ChangesKeepTypes ==
    ASSUME TypeOK, ReadsAreSound, NEW c \in Admin, ChangeRollout(c)
    PROVE  TypeOK'
<1> DEFINE a == changes[c].approval
<1>1. /\ changes[c].pc = "qualified" /\ a \in Approval /\ approvals[a] # Unrecorded
  BY DEF ChangeRollout, ReadsAreSound
<1>2. approvals[a].target \in Mode
  BY <1>1 DEF TypeOK, Target, Mode
<1>3. rollout' \in [mode : Mode, p0 : BOOLEAN, active : Active]
  BY <1>2 DEF TypeOK, ChangeRollout
<1>4. openings' \in [Approval -> 0 .. 2]
  <2>1. openings[a] \in 0 .. 2
    BY <1>1 DEF TypeOK
  <2>2. (IF openings[a] < 2 THEN openings[a] + 1 ELSE openings[a]) \in 0 .. 2
    BY <2>1
  <2>3. \/ openings' = [openings EXCEPT ![a] = IF openings[a] < 2 THEN openings[a] + 1
                                               ELSE openings[a]]
        \/ openings' = openings
    BY DEF ChangeRollout
  <2> HIDE DEF a
  <2> QED
    BY <2>2, <2>3 DEF TypeOK
<1>5. changes' \in [Admin -> Change]
  <2>1. NoChange \in Change
    BY DEF NoChange, Change, Mode, Active, None
  <2> QED
    BY <2>1 DEF TypeOK, ChangeRollout
<1> QED
  BY <1>3, <1>4, <1>5 DEF TypeOK, ChangeRollout

\* The runtime that is selected is a runtime.
LEMMA SelectedIsRuntime ==
    ASSUME NEW p \in Plan, NEW administrator \in BOOLEAN
    PROVE  Selected(p, administrator) \in Runtime
BY DEF Selected, Runtime

LEMMA PlansKeepTypes ==
    ASSUME TypeOK, NEW r \in Request, Select(r) \/ \E t \in Task : Preview(r, t)
    PROVE  TypeOK'
<1>1. NoPlan \in Plan
  BY DEF NoPlan, Plan, Runtime, Mode, Active, None
<1>2. CASE Select(r)
  <2>1. \E new \in Plan : plans' = [plans EXCEPT ![r] = new]
    <3>1. plans[r] \in Plan
      BY DEF TypeOK
    <3>2. PICK administrator \in BOOLEAN :
            \/ plans' = [plans EXCEPT ![r] = NoPlan]
            \/ plans' = [plans EXCEPT ![r] = [plans[r] EXCEPT !.pc = "previewed",
                                       !.runtime = Selected(plans[r], administrator)]]
      BY <1>2 DEF Select
    <3>3. [plans[r] EXCEPT !.pc = "previewed", !.runtime = Selected(plans[r], administrator)]
            \in Plan
      BY <3>1, SelectedIsRuntime DEF Plan
    <3> QED
      BY <1>1, <3>2, <3>3
  <2> QED
    BY <1>2, <2>1 DEF TypeOK, Select
<1>3. ASSUME NEW t \in Task, Preview(r, t) PROVE TypeOK'
  <2>1. PICK requested \in IF assignments[t] = <<>> THEN Runtime \union {None} ELSE {RuntimeOf(t)} :
          plans' = [plans EXCEPT ![r] = [NoPlan EXCEPT !.pc = "reading", !.task = t,
                     !.revision = Len(assignments[t]) + 1, !.requested = requested,
                     !.mode = rollout.mode, !.snapshot = rollout.active]]
    BY <1>3 DEF Preview
  <2>2. requested \in Runtime \union {None}
    <3>1. CASE assignments[t] = <<>>
      BY <2>1, <3>1
    <3>2. CASE assignments[t] # <<>>
      <4>1. assignments[t] \in Seq(Assignment) /\ Len(assignments[t]) \in 1 .. Len(assignments[t])
        BY <3>2 DEF TypeOK
      <4>2. assignments[t][Len(assignments[t])] \in Assignment
        BY <4>1
      <4> QED
        BY <2>1, <3>2, <4>2 DEF RuntimeOf, Assignment
    <3> QED
      BY <3>1, <3>2
  <2>3. Len(assignments[t]) + 1 \in Nat
    BY DEF TypeOK
  <2>4. [NoPlan EXCEPT !.pc = "reading", !.task = t,
                     !.revision = Len(assignments[t]) + 1, !.requested = requested,
                     !.mode = rollout.mode, !.snapshot = rollout.active] \in Plan
    BY <1>1, <2>2, <2>3 DEF TypeOK, Plan
  <2> QED
    BY <1>3, <2>1, <2>4 DEF TypeOK, Preview
<1> QED
  BY <1>2, <1>3

\* A request that assigns appends what it selected.
LEMMA AssigningAppends ==
    ASSUME TypeOK, NEW r \in Request, Assign(r)
    PROVE  /\ plans' \in [Request -> Plan] /\ assignments' \in [Task -> Seq(Assignment)]
           /\ UNCHANGED <<rollout, recorded, approvals, openings, changes>>
<1>1. NoPlan \in Plan /\ plans[r] \in Plan
  BY DEF NoPlan, Plan, Runtime, Mode, Active, None, TypeOK
<1>2. plans' \in [Request -> Plan]
  BY <1>1 DEF TypeOK, Assign
<1>3. [runtime |-> plans[r].runtime, mode |-> plans[r].mode, snapshot |-> plans[r].snapshot]
        \in Assignment
  BY <1>1 DEF Plan, Assignment
<1> DEFINE task == plans[r].task
           new == [runtime |-> plans[r].runtime, mode |-> plans[r].mode,
                   snapshot |-> plans[r].snapshot]
<1>4. assignments' \in [Task -> Seq(Assignment)]
  <2>1. \/ assignments' = [assignments EXCEPT ![task] = Append(assignments[task], new)]
        \/ assignments' = assignments
    BY DEF Assign
  <2>2. new \in Assignment
    BY <1>3
  <2> HIDE DEF task, new
  <2>3. task \in Task => Append(assignments[task], new) \in Seq(Assignment)
    BY <2>2 DEF TypeOK
  <2> QED
    BY <2>1, <2>3 DEF TypeOK
<1> QED
  BY <1>2, <1>4 DEF Assign

LEMMA TypesKeep ==
    ASSUME TypeOK, ReadsAreSound, [Next]_vars
    PROVE  TypeOK'
<1>1. ASSUME NEW s \in Snapshot, RecordGate(s) PROVE TypeOK'
  BY <1>1, GatesKeepTypes
<1>2. ASSUME NEW a \in Approval, RecordApproval(a) PROVE TypeOK'
  BY <1>2, ApprovalsKeepTypes
<1>3. ASSUME NEW c \in Admin, ReadGates(c) \/ \E a \in Approval : ReadRollout(c, a)
      PROVE  TypeOK'
  BY <1>3, ReadingKeepsTypes
<1>4. ASSUME NEW c \in Admin, ChangeRollout(c) PROVE TypeOK'
  BY <1>4, ChangesKeepTypes
<1>5. ASSUME NEW r \in Request, Select(r) \/ \E t \in Task : Preview(r, t) PROVE TypeOK'
  BY <1>5, PlansKeepTypes
<1>6. ASSUME NEW r \in Request, Assign(r) PROVE TypeOK'
  BY <1>6, AssigningAppends DEF TypeOK
<1>7. CASE UNCHANGED vars
  BY <1>7 DEF TypeOK, vars
<1> QED
  BY <1>1, <1>2, <1>3, <1>4, <1>5, <1>6, <1>7 DEF Next
-------------------------------------------------------------------------------
(* The rollout *)

\* The steps that leave the rollout, the gates, the approvals and the calls alone.
LEMMA RequestsKeep ==
    ASSUME OpenIsQualified, ApprovalsAreSpent, ReadsAreSound,
           UNCHANGED <<rollout, recorded, approvals, openings, changes>>
    PROVE  OpenIsQualified' /\ ApprovalsAreSpent' /\ ReadsAreSound'
BY DEF OpenIsQualified, ApprovalsAreSpent, ReadsAreSound, Open

\* A snapshot activated is new, and either qualified against every gate before it
\* or the rollout is rolled back.
LEMMA GatesKeep ==
    ASSUME RoutingInvariant, NEW s \in Snapshot, RecordGate(s)
    PROVE  OpenIsQualified' /\ ApprovalsAreSpent' /\ ReadsAreSound'
<1>1. /\ s \notin recorded /\ s # Genesis /\ rollout'.active = s
      /\ recorded' = recorded \union {s} /\ UNCHANGED <<approvals, openings, changes>>
      /\ rollout'.p0 <=> rollout'.mode = "legacy_rollback"
  BY SnapshotAssumption DEF RecordGate, Activatable
<1>2. OpenIsQualified'
  <2>1. CASE Qualified(s, recorded)
    <3>1. Qualified(s, recorded')
      BY <1>1, <2>1 DEF Qualified
    <3> QED
      BY <1>1, <3>1 DEF OpenIsQualified
  <2>2. CASE ~Qualified(s, recorded)
    BY <1>1, <2>2 DEF RecordGate, OpenIsQualified, Open, Target
  <2> QED
    BY <2>1, <2>2
<1>3. ApprovalsAreSpent'
  BY <1>1 DEF RoutingInvariant, ApprovalsAreSpent
<1>4. ReadsAreSound'
  BY <1>1 DEF RoutingInvariant, ReadsAreSound
<1> QED
  BY <1>2, <1>3, <1>4

LEMMA ApprovalsKeep ==
    ASSUME RoutingInvariant, NEW a \in Approval, RecordApproval(a)
    PROVE  OpenIsQualified' /\ ApprovalsAreSpent' /\ ReadsAreSound'
<1>1. /\ approvals[a] = Unrecorded /\ \A b \in Approval \ {a} : approvals'[b] = approvals[b]
      /\ UNCHANGED <<rollout, recorded, openings, changes>>
  BY DEF RecordApproval, RoutingInvariant, TypeOK
<1>2. \A b \in Approval : openings[b] = 1 => b # a
  BY <1>1 DEF RoutingInvariant, ApprovalsAreSpent
<1>3. \A c \in Admin : changes[c].pc # "idle" => changes[c].approval \in Approval \ {a}
  BY <1>1 DEF RoutingInvariant, ReadsAreSound
<1>4. OpenIsQualified'
  BY <1>1 DEF RoutingInvariant, OpenIsQualified, Open
<1>5. ApprovalsAreSpent'
  BY <1>1, <1>2 DEF RoutingInvariant, ApprovalsAreSpent
<1>6. ReadsAreSound'
  BY <1>1, <1>3 DEF RoutingInvariant, ReadsAreSound
<1> QED
  BY <1>4, <1>5, <1>6

LEMMA ReadingKeeps ==
    ASSUME RoutingInvariant, NEW c \in Admin,
           ReadGates(c) \/ \E a \in Approval : ReadRollout(c, a)
    PROVE  OpenIsQualified' /\ ApprovalsAreSpent' /\ ReadsAreSound'
<1>1. /\ UNCHANGED <<rollout, recorded, approvals, openings>>
      /\ \A d \in Admin \ {c} : changes'[d] = changes[d]
  BY DEF ReadGates, ReadRollout, RoutingInvariant, TypeOK
<1>2. OpenIsQualified' /\ ApprovalsAreSpent'
  BY <1>1 DEF RoutingInvariant, OpenIsQualified, ApprovalsAreSpent, Open
<1>3. CASE ReadGates(c)
  <2>1. changes[c] \in Change /\ changes[c].pc = "reading"
    BY <1>3 DEF ReadGates, RoutingInvariant, TypeOK
  <2>2. CASE Qualified(changes[c].snapshot, recorded)
    <3>1. changes'[c] = [changes[c] EXCEPT !.pc = "qualified"]
      BY <1>3, <2>2 DEF ReadGates, RoutingInvariant, TypeOK
    <3>2. /\ changes'[c].approval = changes[c].approval /\ changes'[c].mode = changes[c].mode
          /\ changes'[c].snapshot = changes[c].snapshot
      BY <2>1, <3>1 DEF Change
    <3> QED
      BY <1>1, <1>2, <2>1, <2>2, <3>2 DEF RoutingInvariant, ReadsAreSound
  <2>3. CASE ~Qualified(changes[c].snapshot, recorded)
    <3>1. changes'[c].pc = "idle"
      BY <1>3, <2>3 DEF ReadGates, RoutingInvariant, TypeOK, NoChange
    <3> QED
      BY <1>1, <1>2, <3>1 DEF RoutingInvariant, ReadsAreSound
  <2> QED
    BY <2>2, <2>3
<1>4. ASSUME NEW a \in Approval, ReadRollout(c, a) PROVE ReadsAreSound'
  <2>1. changes'[c] = [pc |-> "reading", approval |-> a, mode |-> rollout.mode,
                       snapshot |-> rollout.active]
    BY <1>4 DEF ReadRollout, RoutingInvariant, TypeOK
  <2> QED
    BY <1>1, <1>4, <2>1 DEF ReadRollout, RoutingInvariant, ReadsAreSound
<1> QED
  BY <1>2, <1>3, <1>4

LEMMA ModeIsRanked ==
    ASSUME NEW mode, NEW target \in Allowed(mode)
    PROVE  Rank(target) > Rank(mode) /\ target \in Target /\ Rank(target) \in Nat
BY DEF Allowed, Rank, Target

\* The mode moves on the snapshot that was read and qualified, and up: so an
\* approval that has moved it once cannot move it again.
LEMMA ChangesKeep ==
    ASSUME RoutingInvariant, NEW c \in Admin, ChangeRollout(c)
    PROVE  OpenIsQualified' /\ ApprovalsAreSpent' /\ ReadsAreSound'
<1> DEFINE a == changes[c].approval
<1>1. /\ UNCHANGED <<recorded, approvals>>
      /\ changes'[c].pc = "idle" /\ \A d \in Admin \ {c} : changes'[d] = changes[d]
  BY DEF ChangeRollout, RoutingInvariant, TypeOK, NoChange
<1>2. CASE UNCHANGED <<rollout, openings>>
  BY <1>1, <1>2 DEF RoutingInvariant, OpenIsQualified, ApprovalsAreSpent, ReadsAreSound, Open
<1>3. CASE StillRead(changes[c])
  <2>1. /\ a \in Approval /\ approvals[a] # Unrecorded
        /\ approvals[a].snapshot = rollout.active
        /\ approvals[a].target \in Allowed(rollout.mode)
        /\ Qualified(rollout.active, recorded)
        /\ rollout.active \in recorded \union {Genesis}
    BY <1>3 DEF ChangeRollout, StillRead, RoutingInvariant, ReadsAreSound
  <2>2. /\ rollout'.mode = approvals[a].target /\ rollout'.p0 = FALSE
        /\ rollout'.active = rollout.active
        /\ openings' = [openings EXCEPT ![a] = IF @ < 2 THEN @ + 1 ELSE @]
    BY <1>3 DEF ChangeRollout, RoutingInvariant, TypeOK
  <2> HIDE DEF a
  <2>3. approvals[a].target \in Target /\ Rank(rollout'.mode) > Rank(rollout.mode)
    BY <2>1, <2>2, ModeIsRanked
  <2>4. openings[a] = 0
    <3>1. openings[a] # 1
      BY <2>1, <2>2, <2>3 DEF RoutingInvariant, ApprovalsAreSpent, Rank
    <3> QED
      BY <2>1, <3>1 DEF RoutingInvariant, TypeOK, ApprovalsAreSpent
  <2>5. openings'[a] = 1 /\ \A b \in Approval \ {a} : openings'[b] = openings[b]
    BY <2>1, <2>2, <2>4 DEF RoutingInvariant, TypeOK
  <2>6. OpenIsQualified'
    BY <1>1, <2>1, <2>2, <2>3 DEF OpenIsQualified, Target
  <2>7. rollout.active \in recorded
    BY <2>1, SnapshotAssumption DEF Qualified
  <2>8. ApprovalsAreSpent'
    <3>1. SUFFICES ASSUME NEW b \in Approval
                   PROVE  /\ openings'[b] <= 1
                          /\ openings'[b] = 1 =>
                               /\ approvals[b] # Unrecorded /\ approvals[b].snapshot \in recorded
                               /\ approvals[b].snapshot = rollout.active =>
                                      Rank(rollout'.mode) >= Rank(approvals[b].target)
      BY <1>1, <2>2 DEF ApprovalsAreSpent
    <3>2. CASE b = a
      BY <2>1, <2>2, <2>5, <2>7, <3>2 DEF Rank
    <3>3. CASE b # a
      <4>1. openings'[b] = openings[b]
        BY <2>5, <3>3
      <4> QED
        BY <2>3, <4>1 DEF RoutingInvariant, ApprovalsAreSpent, Rank
    <3> QED
      BY <3>2, <3>3
  <2>9. ReadsAreSound'
    BY <1>1, <2>2 DEF RoutingInvariant, ReadsAreSound
  <2> QED
    BY <2>6, <2>8, <2>9
<1> QED
  BY <1>2, <1>3 DEF ChangeRollout

LEMMA NextKeeps ==
    ASSUME RoutingInvariant, [Next]_vars
    PROVE  RoutingInvariant'
<1>1. TypeOK'
  BY TypesKeep DEF RoutingInvariant
<1>2. ASSUME NEW s \in Snapshot, RecordGate(s)
      PROVE  OpenIsQualified' /\ ApprovalsAreSpent' /\ ReadsAreSound'
  BY <1>2, GatesKeep
<1>3. ASSUME NEW a \in Approval, RecordApproval(a)
      PROVE  OpenIsQualified' /\ ApprovalsAreSpent' /\ ReadsAreSound'
  BY <1>3, ApprovalsKeep
<1>4. ASSUME NEW c \in Admin, ReadGates(c) \/ \E a \in Approval : ReadRollout(c, a)
      PROVE  OpenIsQualified' /\ ApprovalsAreSpent' /\ ReadsAreSound'
  BY <1>4, ReadingKeeps
<1>5. ASSUME NEW c \in Admin, ChangeRollout(c)
      PROVE  OpenIsQualified' /\ ApprovalsAreSpent' /\ ReadsAreSound'
  BY <1>5, ChangesKeep
<1>6. ASSUME NEW r \in Request, Select(r) \/ Assign(r) \/ \E t \in Task : Preview(r, t)
      PROVE  OpenIsQualified' /\ ApprovalsAreSpent' /\ ReadsAreSound'
  <2>1. UNCHANGED <<rollout, recorded, approvals, openings, changes>>
    BY <1>6 DEF Select, Assign, Preview
  <2> QED
    BY <2>1, RequestsKeep DEF RoutingInvariant
<1>7. ASSUME UNCHANGED vars
      PROVE  OpenIsQualified' /\ ApprovalsAreSpent' /\ ReadsAreSound'
  <2>1. UNCHANGED <<rollout, recorded, approvals, openings, changes>>
    BY <1>7 DEF vars
  <2> QED
    BY <2>1, RequestsKeep DEF RoutingInvariant
<1>8. OpenIsQualified' /\ ApprovalsAreSpent' /\ ReadsAreSound'
  BY <1>2, <1>3, <1>4, <1>5, <1>6, <1>7 DEF Next
<1> QED
  BY <1>1, <1>8 DEF RoutingInvariant

\* Whatever is recorded while an administrator decides, an open mode stands on a
\* qualified snapshot, and no approval moves the mode twice.
\* Code: apply_gate, change_mode, change_rollout.
THEOREM RolloutIsSafe == Spec => []RoutingInvariant
<1>1. RoutingInvariant /\ [Next]_vars => RoutingInvariant'
  BY NextKeeps
<1> QED
  BY <1>1, InitInvariant, PTL DEF Spec

-------------------------------------------------------------------------------
(* Revisions *)

\* What a plan knows of its task: it is for the next revision or for one that has
\* been taken, and for the next it asks for the runtime of the last.
PlansFollow ==
    \A r \in Request : plans[r].pc # "idle" =>
        /\ plans[r].task \in Task
        /\ plans[r].revision <= Len(assignments[plans[r].task]) + 1
        /\ (SameRevision(plans[r]) /\ assignments[plans[r].task] # <<>>)
              => plans[r].requested = RuntimeOf(plans[r].task)
        /\ (plans[r].pc = "previewed" /\ plans[r].runtime = "pi")
              => plans[r].mode \in Target /\ plans[r].requested # "legacy"

LEMMA SelectionIsOpen ==
    ASSUME NEW p, NEW administrator \in BOOLEAN, Selected(p, administrator) = "pi"
    PROVE  p.mode \in Target /\ p.requested # "legacy"
BY DEF Selected, Target

LEMMA PlansFollowKeeps ==
    ASSUME TypeOK, PlansFollow, [Next]_vars
    PROVE  PlansFollow'
<1>1. CASE UNCHANGED <<plans, assignments>>
  BY <1>1 DEF PlansFollow, SameRevision, RuntimeOf
<1>2. ASSUME NEW r \in Request, NEW t \in Task, Preview(r, t) PROVE PlansFollow'
  <2>1. PICK requested \in IF assignments[t] = <<>> THEN Runtime \union {None} ELSE {RuntimeOf(t)} :
          plans' = [plans EXCEPT ![r] = [NoPlan EXCEPT !.pc = "reading", !.task = t,
                     !.revision = Len(assignments[t]) + 1, !.requested = requested,
                     !.mode = rollout.mode, !.snapshot = rollout.active]]
    BY <1>2 DEF Preview
  <2>2. /\ plans'[r].pc = "reading" /\ plans'[r].task = t
        /\ plans'[r].revision = Len(assignments[t]) + 1 /\ plans'[r].requested = requested
        /\ \A q \in Request \ {r} : plans'[q] = plans[q]
    BY <2>1 DEF TypeOK, NoPlan
  <2>3. assignments' = assignments /\ Len(assignments[t]) \in Nat
    BY <1>2 DEF Preview, TypeOK
  <2> QED
    BY <2>1, <2>2, <2>3 DEF PlansFollow, SameRevision, RuntimeOf
<1>3. ASSUME NEW r \in Request, Select(r) PROVE PlansFollow'
  <2>1. plans[r] \in Plan /\ plans[r].pc = "reading" /\ assignments' = assignments
    BY <1>3 DEF TypeOK, Select
  <2>2. PICK administrator \in BOOLEAN :
          \/ plans' = [plans EXCEPT ![r] = NoPlan]
          \/ plans' = [plans EXCEPT ![r] = [plans[r] EXCEPT !.pc = "previewed",
                                     !.runtime = Selected(plans[r], administrator)]]
    BY <1>3 DEF Select
  <2>3. \A q \in Request \ {r} : plans'[q] = plans[q]
    BY <2>2 DEF TypeOK
  <2>4. CASE plans' = [plans EXCEPT ![r] = NoPlan]
    <3>1. plans'[r].pc = "idle"
      BY <2>4 DEF TypeOK, NoPlan
    <3> QED
      BY <2>1, <2>3, <3>1 DEF PlansFollow, SameRevision, RuntimeOf
  <2>5. CASE plans' = [plans EXCEPT ![r] = [plans[r] EXCEPT !.pc = "previewed",
                                     !.runtime = Selected(plans[r], administrator)]]
    <3>1. /\ plans'[r].task = plans[r].task /\ plans'[r].revision = plans[r].revision
          /\ plans'[r].requested = plans[r].requested /\ plans'[r].mode = plans[r].mode
          /\ plans'[r].runtime = Selected(plans[r], administrator)
      BY <2>1, <2>5 DEF TypeOK, Plan
    <3>2. plans'[r].runtime = "pi" => plans'[r].mode \in Target /\ plans'[r].requested # "legacy"
      BY <3>1, SelectionIsOpen
    <3>3. plans[r].pc # "idle"
      BY <2>1
    <3> QED
      BY <2>1, <2>3, <3>1, <3>2, <3>3 DEF PlansFollow, SameRevision, RuntimeOf
  <2> QED
    BY <2>2, <2>4, <2>5
<1>4. ASSUME NEW r \in Request, Assign(r) PROVE PlansFollow'
  <2>1. /\ plans'[r].pc = "idle" /\ \A q \in Request \ {r} : plans'[q] = plans[q]
        /\ plans[r].task \in Task
    BY <1>4 DEF TypeOK, Assign, NoPlan, PlansFollow
  <2>2. CASE assignments' = assignments
    BY <2>1, <2>2 DEF PlansFollow, SameRevision, RuntimeOf
  <2>3. CASE assignments' # assignments
    <3> DEFINE task == plans[r].task
               new == [runtime |-> plans[r].runtime, mode |-> plans[r].mode,
                       snapshot |-> plans[r].snapshot]
    <3>1. assignments' = [assignments EXCEPT ![task] = Append(assignments[task], new)]
      BY <1>4, <2>3 DEF Assign
    <3> HIDE DEF new
    <3>2. /\ assignments[task] \in Seq(Assignment)
          /\ assignments'[task] = Append(assignments[task], new)
          /\ \A t \in Task \ {task} : assignments'[t] = assignments[t]
      BY <2>1, <3>1 DEF TypeOK
    <3>3. Len(assignments'[task]) = Len(assignments[task]) + 1 /\ Len(assignments[task]) \in Nat
      <4>1. new \in Assignment
        BY DEF new, TypeOK, Plan, Assignment
      <4> QED
        BY <3>2, <4>1
    <3>4. ASSUME NEW q \in Request \ {r}, plans[q].pc # "idle"
          PROVE  /\ plans[q].task \in Task
                 /\ plans[q].revision <= Len(assignments'[plans[q].task]) + 1
                 /\ (plans[q].revision = Len(assignments'[plans[q].task]) + 1
                       => plans[q].task # task)
      <4>1. /\ plans[q].task \in Task /\ plans[q].revision \in Nat
            /\ plans[q].revision <= Len(assignments[plans[q].task]) + 1
        BY <3>4 DEF PlansFollow, TypeOK, Plan
      <4>2. CASE plans[q].task = task
        BY <3>3, <4>1, <4>2
      <4>3. CASE plans[q].task # task
        BY <3>2, <4>1, <4>3
      <4> QED
        BY <4>2, <4>3
    <3>5. ASSUME NEW q \in Request \ {r}, plans[q].pc # "idle"
          PROVE  /\ (SameRevision(plans[q]))' /\ assignments'[plans[q].task] # <<>>
                        => plans[q].requested = RuntimeOf(plans[q].task)'
                 /\ (plans[q].pc = "previewed" /\ plans[q].runtime = "pi")
                        => plans[q].mode \in Target /\ plans[q].requested # "legacy"
      <4>1. ASSUME (SameRevision(plans[q]))', assignments'[plans[q].task] # <<>>
            PROVE  plans[q].requested = RuntimeOf(plans[q].task)'
        <5>1. plans'[q] = plans[q]
          BY <2>1
        <5>2. plans[q].task # task /\ plans[q].task \in Task
          BY <3>4, <3>5, <4>1, <5>1 DEF SameRevision
        <5>3. assignments'[plans[q].task] = assignments[plans[q].task]
          BY <3>2, <5>2
        <5> QED
          BY <3>5, <4>1, <5>1, <5>3 DEF PlansFollow, SameRevision, RuntimeOf
      <4> QED
        BY <3>5, <4>1 DEF PlansFollow
    <3> QED
      BY <2>1, <3>4, <3>5 DEF PlansFollow, SameRevision, RuntimeOf
  <2> QED
    BY <2>2, <2>3
<1>5. CASE Next
  <2>1. \/ UNCHANGED <<plans, assignments>>
        \/ \E r \in Request : Select(r) \/ Assign(r) \/ \E t \in Task : Preview(r, t)
    BY <1>5 DEF Next, RecordGate, RecordApproval, ReadGates, ChangeRollout, ReadRollout
  <2> QED
    BY <1>1, <1>2, <1>3, <1>4, <2>1
<1> QED
  BY <1>1, <1>5 DEF vars

LEMMA PlansAlwaysFollow == Spec => []PlansFollow
<1>1. Init => PlansFollow
  BY DEF Init, PlansFollow, NoPlan
<1>2. RoutingInvariant /\ PlansFollow /\ [Next]_vars => PlansFollow'
  BY PlansFollowKeeps DEF RoutingInvariant
<1> QED
  BY <1>1, <1>2, RolloutIsSafe, PTL DEF Spec

\* A revision is bound to the new runtime only while the rollout of that moment
\* lets it.
\* Code: preview, create_assignment_in_transaction.
THEOREM PiNeedsAnOpenRollout == Spec => PiOnlyWhileOpen
<1>1. ASSUME RoutingInvariant, PlansFollow, Next, NEW t \in Task,
             assignments'[t] # assignments[t], RuntimeOf(t)' = "pi"
      PROVE  /\ Open /\ ~rollout.p0
             /\ \/ Qualified(rollout.active, recorded)
                \/ rollout.active = Genesis /\ recorded = {}
  <2>1. PICK r \in Request : Assign(r)
    BY <1>1 DEF Next, RecordGate, RecordApproval, ReadGates, ChangeRollout, ReadRollout,
                Select, Preview
  <2> DEFINE task == plans[r].task
             new == [runtime |-> plans[r].runtime, mode |-> plans[r].mode,
                     snapshot |-> plans[r].snapshot]
  <2>2. /\ SameRollout(plans[r]) /\ plans[r].pc = "previewed"
        /\ assignments' = [assignments EXCEPT ![task] = Append(assignments[task], new)]
    BY <1>1, <2>1 DEF Assign
  <2>3. new.runtime = plans[r].runtime /\ new \in Assignment
    BY <1>1 DEF RoutingInvariant, TypeOK, Plan, Assignment
  <2> HIDE DEF new
  <2>4. t = task /\ assignments'[t] = Append(assignments[t], new)
        /\ assignments[t] \in Seq(Assignment)
    BY <1>1, <2>2 DEF RoutingInvariant, TypeOK
  <2>5. RuntimeOf(t)' = plans[r].runtime
    BY <2>3, <2>4 DEF RuntimeOf
  <2>6. plans[r].mode \in Target
    BY <1>1, <2>2, <2>5 DEF PlansFollow
  <2>7. Open
    BY <2>2, <2>6 DEF SameRollout, Open
  <2> QED
    BY <1>1, <2>7 DEF RoutingInvariant, OpenIsQualified, Open, Target
<1>2. RoutingInvariant /\ PlansFollow /\ [Next]_vars =>
        [\A t \in Task : (assignments'[t] # assignments[t] /\ RuntimeOf(t)' = "pi")
            => /\ Open /\ ~rollout.p0
               /\ \/ Qualified(rollout.active, recorded)
                  \/ rollout.active = Genesis /\ recorded = {}]_vars
  BY <1>1
<1> QED
  BY <1>2, RolloutIsSafe, PlansAlwaysFollow, PTL DEF Spec, PiOnlyWhileOpen

\* A task that once ran a legacy revision stays on the legacy runtime.
\* Code: _select_runtime, create_assignment_in_transaction.
THEOREM LegacyTasksStay == Spec => []LegacyStays
<1>1. Init => LegacyStays
  BY DEF Init, LegacyStays
<1>2. ASSUME RoutingInvariant, PlansFollow, LegacyStays, [Next]_vars
      PROVE  LegacyStays'
  <2>1. CASE assignments' = assignments
    BY <1>2, <2>1 DEF LegacyStays
  <2>2. CASE assignments' # assignments
    <3>1. PICK r \in Request : Assign(r)
      BY <1>2, <2>2 DEF Next, vars, RecordGate, RecordApproval, ReadGates, ChangeRollout,
                        ReadRollout, Select, Preview
    <3> DEFINE task == plans[r].task
               new == [runtime |-> plans[r].runtime, mode |-> plans[r].mode,
                       snapshot |-> plans[r].snapshot]
               last == Len(assignments[task])
    <3>2. /\ SameRevision(plans[r]) /\ plans[r].pc = "previewed" /\ task \in Task
          /\ assignments' = [assignments EXCEPT ![task] = Append(assignments[task], new)]
      BY <1>2, <2>2, <3>1 DEF Assign, PlansFollow
    <3>3. /\ new.runtime = plans[r].runtime /\ new \in Assignment /\ plans[r].runtime \in Runtime
      BY <1>2 DEF RoutingInvariant, TypeOK, Plan, Assignment
    <3> HIDE DEF new
    <3>4. /\ assignments[task] \in Seq(Assignment) /\ last \in Nat
          /\ assignments'[task] = Append(assignments[task], new)
          /\ \A t \in Task \ {task} : assignments'[t] = assignments[t]
      BY <1>2, <3>2 DEF RoutingInvariant, TypeOK
    <3>5. /\ Len(assignments'[task]) = last + 1
          /\ assignments'[task][last + 1] = new
          /\ \A i \in 1 .. last : assignments'[task][i] = assignments[task][i]
      BY <3>3, <3>4
    <3>6. ASSUME NEW i \in 1 .. last, assignments[task][i].runtime = "legacy"
          PROVE  plans[r].runtime = "legacy"
      <4>1. assignments[task][last].runtime = "legacy"
        BY <1>2, <3>2, <3>4, <3>6 DEF LegacyStays
      <4>2. assignments[task] # <<>>
        BY <3>4, <3>6
      <4>3. plans[r].requested = "legacy"
        BY <1>2, <3>2, <4>1, <4>2 DEF PlansFollow, RuntimeOf
      <4> QED
        BY <1>2, <3>2, <3>3, <4>3 DEF PlansFollow, Runtime
    <3>7. ASSUME NEW i \in 1 .. last + 1, NEW j \in 1 .. last + 1, i < j,
                 assignments'[task][i].runtime = "legacy"
          PROVE  assignments'[task][j].runtime = "legacy"
      <4>1. i \in 1 .. last /\ assignments[task][i].runtime = "legacy"
        BY <3>4, <3>5, <3>7
      <4>2. CASE j = last + 1
        BY <3>3, <3>5, <3>6, <4>1, <4>2
      <4>3. CASE j \in 1 .. last
        BY <1>2, <3>2, <3>5, <3>7, <4>1, <4>3 DEF LegacyStays
      <4> QED
        BY <3>4, <4>2, <4>3
    <3>8. SUFFICES ASSUME NEW t \in Task, NEW i \in 1 .. Len(assignments'[t]),
                          NEW j \in 1 .. Len(assignments'[t]),
                          i < j, assignments'[t][i].runtime = "legacy"
                   PROVE  assignments'[t][j].runtime = "legacy"
      BY DEF LegacyStays
    <3>9. CASE t = task
      BY <3>5, <3>7, <3>8, <3>9
    <3>10. CASE t # task
      <4>1. assignments'[t] = assignments[t]
        BY <3>4, <3>10
      <4> QED
        BY <1>2, <3>8, <4>1 DEF LegacyStays
    <3> QED
      BY <3>9, <3>10
  <2> QED
    BY <2>1, <2>2
<1> QED
  BY <1>1, <1>2, RolloutIsSafe, PlansAlwaysFollow, PTL DEF Spec

-------------------------------------------------------------------------------
(* The promise of the rollout *)

\* A plan for the next revision that chose the old runtime may do so: the task is
\* new or has been on it, or the new one is not the default.
PlansFit ==
    \A r \in Request :
        (plans[r].pc = "previewed" /\ plans[r].runtime = "legacy" /\ SameRevision(plans[r]))
            => \/ assignments[plans[r].task] = <<>> \/ HasLegacy(plans[r].task)
               \/ plans[r].mode # "vnext_default"

\* A task whose last revision is a legacy one has a legacy revision.
LEMMA LastIsOne ==
    ASSUME TypeOK, NEW t \in Task, assignments[t] # <<>>
    PROVE  /\ Len(assignments[t]) \in 1 .. Len(assignments[t])
           /\ RuntimeOf(t) \in Runtime
           /\ RuntimeOf(t) = "legacy" => HasLegacy(t)
<1>1. assignments[t] \in Seq(Assignment) /\ Len(assignments[t]) \in 1 .. Len(assignments[t])
  BY DEF TypeOK
<1>2. assignments[t][Len(assignments[t])] \in Assignment
  BY <1>1
<1> QED
  BY <1>1, <1>2 DEF RuntimeOf, HasLegacy, Assignment

LEMMA PlansFitKeeps ==
    ASSUME TypeOK, PlansFollow, PlansFit, [Next]_vars
    PROVE  PlansFit'
<1>1. CASE UNCHANGED <<plans, assignments>>
  BY <1>1 DEF PlansFit, SameRevision, HasLegacy
<1>2. ASSUME NEW r \in Request, NEW t \in Task, Preview(r, t) PROVE PlansFit'
  <2>1. /\ plans'[r].pc = "reading" /\ assignments' = assignments
        /\ \A q \in Request \ {r} : plans'[q] = plans[q]
    BY <1>2 DEF Preview, TypeOK, NoPlan
  <2> QED
    BY <2>1 DEF PlansFit, SameRevision, HasLegacy
<1>3. ASSUME NEW r \in Request, Select(r) PROVE PlansFit'
  <2>1. plans[r] \in Plan /\ plans[r].pc = "reading" /\ assignments' = assignments
    BY <1>3 DEF TypeOK, Select
  <2>2. PICK administrator \in BOOLEAN :
          \/ plans' = [plans EXCEPT ![r] = NoPlan]
          \/ plans' = [plans EXCEPT ![r] = [plans[r] EXCEPT !.pc = "previewed",
                                     !.runtime = Selected(plans[r], administrator)]]
    BY <1>3 DEF Select
  <2>3. \A q \in Request \ {r} : plans'[q] = plans[q]
    BY <2>2 DEF TypeOK
  <2>4. SUFFICES ASSUME plans'[r].pc = "previewed", plans'[r].runtime = "legacy",
                        (SameRevision(plans[r]))'
                 PROVE  \/ assignments[plans'[r].task] = <<>>
                        \/ HasLegacy(plans'[r].task) \/ plans'[r].mode # "vnext_default"
    BY <2>1, <2>3 DEF PlansFit, SameRevision, HasLegacy
  <2>5. /\ plans'[r].task = plans[r].task /\ plans'[r].mode = plans[r].mode
        /\ plans'[r].revision = plans[r].revision
        /\ plans'[r].runtime = Selected(plans[r], administrator)
    <3>1. plans'[r] # NoPlan
      BY <2>4 DEF NoPlan
    <3>2. plans'[r] = [plans[r] EXCEPT !.pc = "previewed",
                                     !.runtime = Selected(plans[r], administrator)]
      BY <2>2, <3>1 DEF TypeOK
    <3> QED
      BY <2>1, <3>2 DEF Plan
  <2>6. /\ plans[r].task \in Task /\ SameRevision(plans[r])
        /\ assignments[plans[r].task] # <<>> => plans[r].requested = RuntimeOf(plans[r].task)
    BY <2>1, <2>4, <2>5 DEF PlansFollow, SameRevision
  <2>7. ASSUME plans[r].mode = "vnext_default", assignments[plans[r].task] # <<>>
        PROVE  HasLegacy(plans[r].task)
    <3>1. plans[r].requested = "legacy" \/ HasLegacy(plans[r].task)
      BY <2>4, <2>5, <2>7 DEF Selected
    <3> QED
      BY <2>6, <2>7, <3>1, LastIsOne
  <2> QED
    BY <2>5, <2>7
<1>4. ASSUME NEW r \in Request, Assign(r) PROVE PlansFit'
  <2>1. /\ plans'[r].pc = "idle" /\ \A q \in Request \ {r} : plans'[q] = plans[q]
        /\ plans[r].task \in Task
    BY <1>4 DEF TypeOK, Assign, NoPlan, PlansFollow
  <2>2. CASE assignments' = assignments
    BY <2>1, <2>2 DEF PlansFit, SameRevision, HasLegacy
  <2>3. CASE assignments' # assignments
    <3> DEFINE task == plans[r].task
    <3>1. /\ Len(assignments[task]) \in Nat /\ Len(assignments'[task]) = Len(assignments[task]) + 1
          /\ \A t \in Task \ {task} : assignments'[t] = assignments[t]
      <4> DEFINE new == [runtime |-> plans[r].runtime, mode |-> plans[r].mode,
                         snapshot |-> plans[r].snapshot]
      <4>1. assignments' = [assignments EXCEPT ![task] = Append(assignments[task], new)]
        BY <1>4, <2>3 DEF Assign
      <4>2. new \in Assignment
        BY DEF TypeOK, Plan, Assignment
      <4> HIDE DEF new
      <4> QED
        BY <2>1, <4>1, <4>2 DEF TypeOK
    <3>2. ASSUME NEW q \in Request \ {r}, plans[q].pc # "idle", (SameRevision(plans[q]))'
          PROVE  plans[q].task \in Task \ {task} /\ SameRevision(plans[q])
      <4>1. /\ plans[q].task \in Task /\ plans[q].revision \in Nat
            /\ plans[q].revision <= Len(assignments[plans[q].task]) + 1
            /\ plans'[q] = plans[q]
        BY <2>1, <3>2 DEF PlansFollow, TypeOK, Plan
      <4>2. plans[q].revision = Len(assignments'[plans[q].task]) + 1
        BY <3>2, <4>1 DEF SameRevision
      <4>3. plans[q].task # task
        BY <3>1, <4>1, <4>2
      <4> QED
        BY <3>1, <4>1, <4>2, <4>3 DEF SameRevision
    <3> QED
      BY <2>1, <3>1, <3>2 DEF PlansFit, SameRevision, HasLegacy
  <2> QED
    BY <2>2, <2>3
<1>5. CASE Next
  <2>1. \/ UNCHANGED <<plans, assignments>>
        \/ \E r \in Request : Select(r) \/ Assign(r) \/ \E t \in Task : Preview(r, t)
    BY <1>5 DEF Next, RecordGate, RecordApproval, ReadGates, ChangeRollout, ReadRollout
  <2> QED
    BY <1>1, <1>2, <1>3, <1>4, <2>1
<1> QED
  BY <1>1, <1>5 DEF vars

LEMMA PlansAlwaysFit == Spec => []PlansFit
<1>1. Init => PlansFit
  BY DEF Init, PlansFit, NoPlan
<1>2. RoutingInvariant /\ PlansFollow /\ PlansFit /\ [Next]_vars => PlansFit'
  BY PlansFitKeeps DEF RoutingInvariant
<1> QED
  BY <1>1, <1>2, RolloutIsSafe, PlansAlwaysFollow, PTL DEF Spec

\* The promise knows a qualified snapshot by the same condition.
LEMMA CleanIsQualified ==
    ASSUME NEW s
    PROVE  Rollout!Clean(s) <=> Qualified(s, recorded)
BY DEF Rollout!Clean, Qualified
\* A step that moves nothing the promise speaks of.
LEMMA RolloutRests ==
    ASSUME UNCHANGED <<rollout, recorded, approvals, openings, assignments>>
    PROVE  UNCHANGED Rollout!vars
BY DEF Rollout!vars, Moved

LEMMA GatesAreRecorded ==
    ASSUME RoutingInvariant, NEW s \in Snapshot, RecordGate(s)
    PROVE  Rollout!Record(s)
<1>1. Moved' = Moved
  BY DEF RecordGate, Moved
<1> QED
  BY <1>1, CleanIsQualified DEF RecordGate, Activatable, Rollout!Record

LEMMA ApprovalsAreGiven ==
    ASSUME RoutingInvariant, NEW a \in Approval, RecordApproval(a)
    PROVE  \E s \in Snapshot, target \in DOMAIN Rollout!Follows : Rollout!Approve(a, target, s)
<1>1. DOMAIN Rollout!Follows = Target /\ Rollout!Unapproved = Unrecorded
  BY DEF Rollout!Follows, Target, Rollout!Unapproved, Unrecorded, None
<1>2. Moved' = Moved
  BY DEF RecordApproval, Moved
<1>3. PICK target \in Target, s \in Snapshot :
        approvals' = [approvals EXCEPT ![a] = [target |-> target, snapshot |-> s]]
  BY DEF RecordApproval
<1>4. Rollout!Approve(a, target, s)
  BY <1>1, <1>2, <1>3 DEF RecordApproval, Rollout!Approve
<1> QED
  BY <1>1, <1>4

\* A mode change that finds what it has read still there spends its approval now.
LEMMA ChangesAreMoves ==
    ASSUME RoutingInvariant, NEW c \in Admin, ChangeRollout(c)
    PROVE  UNCHANGED Rollout!vars \/ \E a \in Approval : Rollout!Move(a)
<1> DEFINE a == changes[c].approval
<1>1. UNCHANGED <<recorded, approvals, assignments>>
  BY DEF ChangeRollout
<1>2. CASE UNCHANGED <<rollout, openings>>
  BY <1>1, <1>2, RolloutRests
<1>3. CASE StillRead(changes[c])
  <2>1. /\ a \in Approval /\ approvals[a] # Unrecorded
        /\ approvals[a].snapshot = rollout.active
        /\ approvals[a].target \in Allowed(rollout.mode)
        /\ Qualified(rollout.active, recorded)
    BY <1>3 DEF ChangeRollout, StillRead, RoutingInvariant, ReadsAreSound
  <2>2. /\ rollout'.mode = approvals[a].target /\ rollout'.active = rollout.active
        /\ openings' = [openings EXCEPT ![a] = IF @ < 2 THEN @ + 1 ELSE @]
    BY <1>3 DEF ChangeRollout, RoutingInvariant, TypeOK
  <2> HIDE DEF a
  <2>3. approvals[a].target \in Target /\ Rank(approvals[a].target) > Rank(rollout.mode)
    BY <2>1, ModeIsRanked
  <2>4. openings[a] = 0
    <3>1. openings[a] # 1
      BY <2>1, <2>3 DEF RoutingInvariant, ApprovalsAreSpent, Rank
    <3> QED
      BY <2>1, <3>1 DEF RoutingInvariant, TypeOK, ApprovalsAreSpent
  <2>5. openings'[a] = 1 /\ \A b \in Approval \ {a} : openings'[b] = openings[b]
    BY <2>1, <2>2, <2>4 DEF RoutingInvariant, TypeOK
  <2>6. a \notin Moved /\ Moved' = Moved \union {a}
    BY <2>1, <2>4, <2>5 DEF Moved
  <2>7. rollout.mode \in Rollout!Follows[approvals[a].target]
    BY <2>1, <2>3 DEF Rollout!Follows, Allowed, Target
  <2>8. approvals[a] # Rollout!Unapproved
    BY <2>1 DEF Rollout!Unapproved, Unrecorded, None
  <2>9. Rollout!Move(a)
    BY <1>1, <2>1, <2>2, <2>6, <2>7, <2>8, CleanIsQualified DEF Rollout!Move
  <2> QED
    BY <2>1, <2>9
<1> QED
  BY <1>2, <1>3 DEF ChangeRollout

\* A revision gets a runtime that is allowed at the moment it is created.
LEMMA AssignmentsAreBound ==
    ASSUME RoutingInvariant, PlansFollow, PlansFit, LegacyStays, NEW r \in Request, Assign(r)
    PROVE  \/ UNCHANGED Rollout!vars
           \/ \E t \in Task, runtime \in {"pi", "legacy"} : Rollout!BindRevision(t, runtime)
<1> DEFINE t == plans[r].task
           new == [runtime |-> plans[r].runtime, mode |-> plans[r].mode,
                   snapshot |-> plans[r].snapshot]
<1>1. UNCHANGED <<rollout, recorded, approvals, openings>>
  BY DEF Assign
<1>2. CASE UNCHANGED assignments
  BY <1>1, <1>2, RolloutRests
<1>3. CASE SameRevision(plans[r]) /\ SameRollout(plans[r])
  <2>1. /\ plans[r].pc = "previewed" /\ t \in Task /\ plans[r].runtime \in Runtime
        /\ assignments' = [assignments EXCEPT ![t] = Append(assignments[t], new)]
        /\ assignments[t] # <<>> => plans[r].requested = RuntimeOf(t)
    BY <1>3 DEF Assign, PlansFollow, RoutingInvariant, TypeOK, Plan
  <2>2. plans[r].mode = rollout.mode /\ plans[r].snapshot = rollout.active
    BY <1>3 DEF SameRollout
  <2>3. ASSUME plans[r].runtime = "pi" PROVE Rollout!MayRun(t, "pi")
    <3>1. rollout.mode \in Target /\ plans[r].requested # "legacy"
      BY <2>1, <2>2, <2>3 DEF PlansFollow
    <3>2. ASSUME HasLegacy(t) PROVE FALSE
      <4>1. PICK i \in 1 .. Len(assignments[t]) : assignments[t][i].runtime = "legacy"
        BY <3>2 DEF HasLegacy
      <4>2. assignments[t] \in Seq(Assignment)
        BY <2>1 DEF RoutingInvariant, TypeOK
      <4>3. assignments[t] # <<>> /\ Len(assignments[t]) \in 1 .. Len(assignments[t])
        BY <4>1, <4>2
      <4>4. assignments[t][Len(assignments[t])].runtime = "legacy"
        BY <2>1, <4>1, <4>2, <4>3 DEF LegacyStays
      <4> QED
        BY <2>1, <3>1, <4>3, <4>4 DEF RuntimeOf
    <3> QED
      BY <3>1, <3>2 DEF Rollout!MayRun, Rollout!Left, HasLegacy, Target
  <2>4. ASSUME plans[r].runtime = "legacy" PROVE Rollout!MayRun(t, "legacy")
    <3>1. assignments[t] = <<>> \/ HasLegacy(t) \/ rollout.mode # "vnext_default"
      BY <1>3, <2>1, <2>2, <2>4 DEF PlansFit
    <3> QED
      BY <3>1 DEF Rollout!MayRun, Rollout!Left, HasLegacy
  <2>5. Rollout!MayRun(t, plans[r].runtime)
    BY <2>1, <2>3, <2>4 DEF Runtime
  <2>6. Moved' = Moved
    BY <1>1 DEF Moved
  <2>7. Rollout!BindRevision(t, plans[r].runtime)
    BY <1>1, <2>1, <2>2, <2>5, <2>6 DEF Rollout!BindRevision
  <2> QED
    BY <2>1, <2>7 DEF Runtime
<1> QED
  BY <1>2, <1>3 DEF Assign

LEMMA RolloutStep ==
    ASSUME RoutingInvariant, PlansFollow, PlansFit, LegacyStays, [Next]_vars
    PROVE  [Rollout!Next]_(Rollout!vars)
<1>1. ASSUME NEW s \in Snapshot, RecordGate(s) PROVE Rollout!Next
  BY <1>1, GatesAreRecorded DEF Rollout!Next
<1>2. ASSUME NEW a \in Approval, RecordApproval(a) PROVE Rollout!Next
  BY <1>2, ApprovalsAreGiven DEF Rollout!Next
<1>3. ASSUME NEW c \in Admin, ReadGates(c) \/ \E a \in Approval : ReadRollout(c, a)
      PROVE  UNCHANGED Rollout!vars
  BY <1>3, RolloutRests DEF ReadGates, ReadRollout
<1>4. ASSUME NEW c \in Admin, ChangeRollout(c) PROVE [Rollout!Next]_(Rollout!vars)
  BY <1>4, ChangesAreMoves DEF Rollout!Next
<1>5. ASSUME NEW r \in Request, Select(r) \/ \E t \in Task : Preview(r, t)
      PROVE  UNCHANGED Rollout!vars
  BY <1>5, RolloutRests DEF Select, Preview
<1>6. ASSUME NEW r \in Request, Assign(r) PROVE [Rollout!Next]_(Rollout!vars)
  BY <1>6, AssignmentsAreBound DEF Rollout!Next
<1>7. CASE UNCHANGED vars
  BY <1>7, RolloutRests DEF vars
<1> QED
  BY <1>1, <1>2, <1>3, <1>4, <1>5, <1>6, <1>7 DEF Next

\* Routing implements RolloutPromise for any gates, snapshots, approvals, calls,
\* requests and tasks: a mode change or a new revision that rests on readings of
\* any age has the effect of one that reads and writes at once, or none.
\* Code: apply_gate, change_mode, change_rollout, preview,
\* create_assignment_in_transaction.
THEOREM RolloutIsKept == Spec => KeepsRollout
<1>1. Init => Rollout!Init
  BY DEF Init, Rollout!Init, Moved, Unrecorded, Rollout!Unapproved, None
<1>2. RoutingInvariant /\ PlansFollow /\ PlansFit /\ LegacyStays /\ [Next]_vars
        => [Rollout!Next]_(Rollout!vars)
  BY RolloutStep
<1> QED
  BY <1>1, <1>2, RolloutIsSafe, PlansAlwaysFollow, PlansAlwaysFit, LegacyTasksStay, PTL
     DEF Spec, KeepsRollout, Rollout!Spec
===============================================================================
