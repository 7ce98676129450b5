---------------------------- MODULE Scheduler_proofs ----------------------------
(***************************************************************************)
(* Theorems about Scheduler, for every set of plans, any number of slots   *)
(* and every bound.                                                        *)
(***************************************************************************)
EXTENDS Scheduler, TLAPS

LEMMA InitInvariant == Init => SchedulerInvariant
BY SchedulerAssumption
   DEF Init, SchedulerInvariant, TypeOK, RunOwnsBinding, WorkIsAccounted, ReportedIsPaused, NoPlan, NoBinding, NoRun, NoTick, PlanRow, BindingRow, Run, RunPc, Generation, Time, None,
   PlanStatus, DueRow

\* Steps that touch neither bindings nor runs keep what is said of them.
LEMMA OutsideRuns ==
    ASSUME SchedulerInvariant, TypeOK', UNCHANGED <<account, binding, run, work, report>>
    PROVE  SchedulerInvariant'
BY DEF SchedulerInvariant, RunOwnsBinding, WorkIsAccounted, ReportedIsPaused

LEMMA PollingKeeps ==
    ASSUME SchedulerInvariant, TimePasses \/ BeginTick \/ EndTick
    PROVE  SchedulerInvariant'
<1>1. ASSUME TimePasses PROVE TypeOK'
  BY <1>1, SchedulerAssumption DEF SchedulerInvariant, TypeOK, TimePasses, Time
<1>2. ASSUME BeginTick PROVE TypeOK'
  <2>1. DueRows \subseteq DueRow
    BY DEF DueRows, DueRow, SchedulerInvariant, TypeOK, BindingRow
  <2> QED
    BY <1>2, <2>1 DEF SchedulerInvariant, TypeOK, BeginTick
<1>3. ASSUME EndTick PROVE TypeOK'
  BY <1>3, SchedulerAssumption DEF SchedulerInvariant, TypeOK, EndTick, NoTick, Time
<1> QED
  BY <1>1, <1>2, <1>3, OutsideRuns DEF TimePasses, BeginTick, EndTick

LEMMA ControlsKeep ==
    ASSUME SchedulerInvariant, NEW p \in Plan, Pause(p) \/ Edit(p) \/ Cancel(p)
    PROVE  SchedulerInvariant'
<1>1. plan' \in [Plan -> PlanRow]
  BY DEF SchedulerInvariant, TypeOK, Pause, Edit, Cancel, PlanRow, PlanStatus, Time
<1>2. \A q \in Plan : plan'[q].status = None => plan[q].status = None
  BY DEF SchedulerInvariant, TypeOK, Pause, Edit, Cancel, PlanRow, PlanStatus, None
<1>3. TypeOK'
  BY <1>1, <1>2 DEF SchedulerInvariant, TypeOK, Pause, Edit, Cancel
<1> QED
  BY <1>3, OutsideRuns DEF Pause, Edit, Cancel

\* What the invariant says of one plan.
AtPlan(p) ==
    /\ run[p].pc # None => binding[p].gen = run[p].gen /\ binding[p].state = "active"
    /\ work[p] \in {0, 1}
    /\ run[p].pc = "working" => work[p] = 1
    /\ run[p].pc \in {"claimed", "begun"} \/ run[p].returned => work[p] = 0
    /\ run[p].pc \in {"claimed", "begun", "working"} => ~run[p].returned
    /\ run[p].pc \in {"returned", "marked"} => run[p].returned
    /\ run[p].pc = None /\ work[p] = 1 => binding[p].state = "cleanup_failed"
    /\ binding[p].gen < report => binding[p].state \in {None, "paused"}

LEMMA PlanFacts ==
    ASSUME SchedulerInvariant, NEW p \in Plan
    PROVE  /\ AtPlan(p)
           /\ run[p] \in Run /\ binding[p] \in BindingRow /\ plan[p] \in PlanRow
           /\ account.gen \in Generation /\ report \in Generation /\ report <= account.gen
           /\ clock \in Time
           /\ plan[p].status = None => binding[p].state = None
<1>1. run[p].pc # None => binding[p] = [gen |-> run[p].gen, state |-> "active"]
  BY DEF SchedulerInvariant, RunOwnsBinding
<1>2. run[p].pc # None => binding[p].gen = run[p].gen /\ binding[p].state = "active"
  BY <1>1
<1>3. AtPlan(p)
  BY <1>2 DEF SchedulerInvariant, WorkIsAccounted, ReportedIsPaused, AtPlan
<1> QED
  BY <1>3 DEF SchedulerInvariant, TypeOK, ReportedIsPaused

\* And back: a step that keeps every plan's part keeps the invariant.
LEMMA PlansKeep ==
    ASSUME TypeOK', (report <= account.gen)', \A p \in Plan : AtPlan(p)'
    PROVE  SchedulerInvariant'
<1>1. RunOwnsBinding'
  <2>1. SUFFICES ASSUME NEW p \in Plan, run'[p].pc # None
                 PROVE  binding'[p] = [gen |-> run'[p].gen, state |-> "active"]
    BY DEF RunOwnsBinding
  <2>2. binding'[p].gen = run'[p].gen /\ binding'[p].state = "active"
    BY <2>1 DEF AtPlan
  <2>3. binding'[p] \in BindingRow
    BY DEF TypeOK
  <2> QED
    BY <2>2, <2>3 DEF BindingRow
<1>2. WorkIsAccounted'
  BY DEF WorkIsAccounted, AtPlan
<1>3. ReportedIsPaused'
  BY DEF ReportedIsPaused, AtPlan
<1> QED
  BY <1>1, <1>2, <1>3 DEF SchedulerInvariant

\* A step of one plan leaves the others' parts alone.
LEMMA OnePlanKeeps ==
    ASSUME SchedulerInvariant, NEW p \in Plan, TypeOK', AtPlan(p)', UNCHANGED <<account, report>>,
           \A q \in Plan \ {p} :
               run'[q] = run[q] /\ binding'[q] = binding[q] /\ work'[q] = work[q]
    PROVE  SchedulerInvariant'
<1>1. ASSUME NEW q \in Plan \ {p} PROVE AtPlan(q)'
  <2>1. AtPlan(q)
    BY PlanFacts
  <2> QED
    BY <2>1 DEF AtPlan
<1>2. \A q \in Plan : AtPlan(q)'
  BY <1>1
<1>3. (report <= account.gen)'
  BY DEF SchedulerInvariant, ReportedIsPaused
<1> QED
  BY <1>2, <1>3, PlansKeep

\* A claim takes an idle binding of the account's generation, so no run owned it
\* and no worker is left.
LEMMA ClaimKeeps ==
    ASSUME SchedulerInvariant, NEW p \in Plan, NEW gen \in Generation, NEW manual \in BOOLEAN,
           NEW now \in Time, NEW row, NEW statuses,
           Claimable(p, row, gen, statuses), Claim(p, gen, manual, now),
           tick' \in [on : BOOLEAN, now : Time, due : SUBSET DueRow],
           UNCHANGED <<account, plan, clock, work, report, spent>>
    PROVE  SchedulerInvariant'
<1> DEFINE claimed == [pc |-> "claimed", gen |-> gen, manual |-> manual, now |-> now,
                       returned |-> FALSE]
           bound == [binding[p] EXCEPT !.state = "active"]
<1>1. run' = [run EXCEPT ![p] = claimed] /\ binding' = [binding EXCEPT ![p] = bound]
  BY DEF Claim, SetState
<1>2. claimed \in Run
  BY DEF Run, RunPc
<1>3. binding[p].gen = gen /\ binding[p].state = "idle" /\ gen = account.gen
  BY DEF Claimable, Allowed, Authorized
<1>4. /\ bound \in BindingRow /\ bound.gen = gen /\ bound.state = "active"
  BY <1>3, PlanFacts DEF BindingRow
<1>5. AtPlan(p) /\ report \in Generation /\ account.gen \in Generation /\ report <= account.gen
      /\ plan[p].status # None
  BY <1>3, PlanFacts DEF None
<1>6. work[p] = 0
  BY <1>3, <1>5 DEF AtPlan
<1>7. /\ run'[p] = claimed /\ binding'[p] = bound
      /\ \A q \in Plan \ {p} : run'[q] = run[q] /\ binding'[q] = binding[q] /\ work'[q] = work[q]
      /\ run' \in [Plan -> Run] /\ binding' \in [Plan -> BindingRow]
  <2> HIDE DEF claimed, bound
  <2> QED
    BY <1>1, <1>2, <1>4 DEF SchedulerInvariant, TypeOK
<1>8. TypeOK'
  <2> HIDE DEF claimed, bound
  <2> QED
    BY <1>5, <1>7 DEF SchedulerInvariant, TypeOK
<1>9. AtPlan(p)'
  BY <1>3, <1>4, <1>5, <1>6, <1>7 DEF AtPlan, None, Generation
<1> QED
  BY <1>7, <1>8, <1>9, OnePlanKeeps

LEMMA ClaimsKeep ==
    ASSUME SchedulerInvariant, NEW p \in Plan, Take(p) \/ RunNow(p)
    PROVE  SchedulerInvariant'
<1>1. CASE Take(p)
  <2>1. PICK d \in tick.due :
          /\ tick' = [tick EXCEPT !.due = @ \ {d}]
          /\ \/ Claimable(p, d.row, d.gen, {"active"}) /\ Claim(p, d.gen, FALSE, tick.now)
             \/ UNCHANGED <<binding, run>>
    BY <1>1 DEF Take
  <2>2. /\ tick' \in [on : BOOLEAN, now : Time, due : SUBSET DueRow]
        /\ d.gen \in Generation /\ tick.now \in Time
    BY <2>1 DEF SchedulerInvariant, TypeOK, DueRow
  <2>3. CASE Claimable(p, d.row, d.gen, {"active"}) /\ Claim(p, d.gen, FALSE, tick.now)
    BY <1>1, <2>2, <2>3, ClaimKeeps DEF Take
  <2>4. CASE UNCHANGED <<binding, run>>
    <3>1. TypeOK'
      BY <1>1, <2>2, <2>4 DEF Take, SchedulerInvariant, TypeOK
    <3> QED
      BY <1>1, <2>4, <3>1, OutsideRuns DEF Take
  <2> QED
    BY <2>1, <2>3, <2>4
<1>2. CASE RunNow(p)
  <2>1. account.gen \in Generation /\ clock \in Time
    BY DEF SchedulerInvariant, TypeOK
  <2>2. tick' \in [on : BOOLEAN, now : Time, due : SUBSET DueRow]
    BY <1>2 DEF RunNow, SchedulerInvariant, TypeOK
  <2> QED
    BY <1>2, <2>1, <2>2, ClaimKeeps DEF RunNow
<1> QED
  BY <1>1, <1>2

\* A run that goes on leaves its binding as it is, and the plan a plan.
LEMMA RunGoesOn ==
    ASSUME SchedulerInvariant, NEW p \in Plan, NEW pc \in RunPc \ {None}, NEW returned \in BOOLEAN,
           run[p].pc # None,
           run' = [run EXCEPT ![p] = [run[p] EXCEPT !.pc = pc, !.returned = returned]],
           work' \in [Plan -> Nat], work'[p] \in {0, 1}, \A q \in Plan \ {p} : work'[q] = work[q],
           plan' \in [Plan -> PlanRow],
           \A q \in Plan : plan'[q].status = None => plan[q].status = None,
           spent' \in 0 .. MaxFailures,
           pc = "working" => work'[p] = 1,
           pc \in {"claimed", "begun"} \/ returned => work'[p] = 0,
           pc \in {"claimed", "begun", "working"} => ~returned,
           pc \in {"returned", "marked"} => returned,
           UNCHANGED <<account, binding, clock, tick, report>>
    PROVE  SchedulerInvariant'
<1> DEFINE new == [run[p] EXCEPT !.pc = pc, !.returned = returned]
<1>1. AtPlan(p) /\ run[p] \in Run
  BY PlanFacts
<1>2. new \in Run /\ new.pc = pc /\ new.returned = returned /\ new.gen = run[p].gen
  BY <1>1 DEF Run
<1>3. /\ run' \in [Plan -> Run] /\ run'[p] = new
      /\ \A q \in Plan \ {p} : run'[q] = run[q]
  <2>1. run' = [run EXCEPT ![p] = new]
    OBVIOUS
  <2> HIDE DEF new
  <2> QED
    BY <1>2, <2>1 DEF SchedulerInvariant, TypeOK
<1>4. TypeOK'
  BY <1>3 DEF SchedulerInvariant, TypeOK
<1>5. AtPlan(p)'
  <2> HIDE DEF new
  <2> QED
    BY <1>1, <1>2, <1>3 DEF AtPlan
<1> QED
  BY <1>3, <1>4, <1>5, OnePlanKeeps

LEMMA RunToKeeps ==
    ASSUME SchedulerInvariant, NEW p \in Plan, NEW pc \in RunPc \ {None, "claimed", "working"},
           run[p].pc # None, RunTo(p, pc),
           pc = "begun" => run[p].pc = "claimed",
           pc \in {"returned", "marked"} => run[p].returned,
           plan' \in [Plan -> PlanRow],
           \A q \in Plan : plan'[q].status = None => plan[q].status = None,
           spent' \in 0 .. MaxFailures,
           UNCHANGED <<account, binding, clock, tick, report, work>>
    PROVE  SchedulerInvariant'
<1>1. AtPlan(p) /\ run[p] \in Run /\ work \in [Plan -> Nat]
  BY PlanFacts DEF SchedulerInvariant, TypeOK
<1>2. [run[p] EXCEPT !.pc = pc] = [run[p] EXCEPT !.pc = pc, !.returned = run[p].returned]
  BY <1>1 DEF Run
<1>3. run' = [run EXCEPT ![p] = [run[p] EXCEPT !.pc = pc]]
  BY DEF RunTo
<1>4. run[p].returned \in BOOLEAN /\ (run[p].returned => work[p] = 0) /\ work[p] \in {0, 1}
  BY <1>1 DEF Run, AtPlan
<1>5. pc \in {"claimed", "begun", "working"} => ~run[p].returned /\ work[p] = 0
  BY <1>1 DEF AtPlan
<1>6. pc # "working" /\ pc # "claimed" /\ pc \in RunPc \ {None}
  OBVIOUS
<1> QED
  BY <1>1, <1>2, <1>3, <1>4, <1>5, <1>6, RunGoesOn

\* What a fault leaves of the bound on faults.
LEMMA FaultIsBounded ==
    ASSUME SchedulerInvariant, Fault \/ UNCHANGED spent
    PROVE  spent' \in 0 .. MaxFailures
BY SchedulerAssumption DEF SchedulerInvariant, TypeOK, Fault

LEMMA StartWorkKeeps ==
    ASSUME SchedulerInvariant, NEW p \in Plan, StartWork(p)
    PROVE  SchedulerInvariant'
<1>1. /\ AtPlan(p) /\ run[p] \in Run /\ work \in [Plan -> Nat] /\ plan \in [Plan -> PlanRow]
      /\ spent \in 0 .. MaxFailures
  BY PlanFacts DEF SchedulerInvariant, TypeOK
<1>2. run[p].pc = "begun" /\ run[p].pc # None /\ work[p] = 0
  BY <1>1 DEF StartWork, RunAt, AtPlan, None
<1>3. CASE RunTo(p, "unknown") /\ UNCHANGED work
  <2>1. "unknown" \in RunPc \ {None, "claimed", "working"}
    BY DEF RunPc, None
  <2> QED
    BY <1>1, <1>2, <1>3, <2>1, RunToKeeps DEF StartWork
<1>4. CASE work' = [work EXCEPT ![p] = @ + 1] /\ RunTo(p, "working")
  <2>1. run[p].returned = FALSE
    BY <1>1, <1>2 DEF Run, AtPlan
  <2>2. [run[p] EXCEPT !.pc = "working"] = [run[p] EXCEPT !.pc = "working", !.returned = FALSE]
    BY <1>1, <2>1 DEF Run
  <2>3. run' = [run EXCEPT ![p] = [run[p] EXCEPT !.pc = "working", !.returned = FALSE]]
    BY <1>4, <2>2 DEF RunTo
  <2>4. /\ work' \in [Plan -> Nat] /\ work'[p] = 1
        /\ \A q \in Plan \ {p} : work'[q] = work[q]
    BY <1>1, <1>2, <1>4
  <2>5. "working" \in RunPc \ {None}
    BY DEF RunPc, None
  <2> QED
    BY <1>1, <1>2, <2>3, <2>4, <2>5, RunGoesOn DEF StartWork
<1> QED
  BY <1>3, <1>4 DEF StartWork

\* The counter of a plan and, when its last run ended, its schedule: the row
\* stays a row.
LEMMA AdvancedIsRow ==
    ASSUME SchedulerInvariant, NEW p \in Plan, plan[p].status # None
    PROVE  Advanced(p) \in PlanRow /\ Advanced(p).status # None
<1>1. plan[p] \in PlanRow /\ run[p] \in Run
  BY PlanFacts
<1>2. run[p].now + 1 \in 0 .. LastDay + 1
  BY <1>1, SchedulerAssumption DEF Run, Time
<1>3. /\ plan[p].version \in 0 .. 1 /\ 1 - plan[p].version \in 0 .. 1
      /\ plan[p].due \in 0 .. LastDay + 1 /\ plan[p].status \in PlanStatus
  BY <1>1 DEF PlanRow
<1>4. "done" \in PlanStatus /\ None \notin PlanStatus
  BY DEF PlanStatus, None
<1>5. \/ Advanced(p) = [plan[p] EXCEPT !.version = 1 - @]
      \/ Advanced(p) = [plan[p] EXCEPT !.version = 1 - @, !.due = run[p].now + 1]
      \/ Advanced(p) = [plan[p] EXCEPT !.version = 1 - @, !.status = "done"]
  BY DEF Advanced
<1> QED
  BY <1>1, <1>2, <1>3, <1>4, <1>5 DEF PlanRow

\* A run is of a plan that exists.
LEMMA RunHasPlan ==
    ASSUME SchedulerInvariant, NEW p \in Plan, run[p].pc # None
    PROVE  plan[p].status # None
BY PlanFacts DEF AtPlan, None

LEMMA MarkKeeps ==
    ASSUME SchedulerInvariant, NEW p \in Plan, Mark(p)
    PROVE  SchedulerInvariant'
<1>1. /\ AtPlan(p) /\ run[p].pc = "returned" /\ run[p].pc # None
      /\ run[p].returned /\ plan \in [Plan -> PlanRow]
  BY PlanFacts DEF Mark, RunAt, AtPlan, None, SchedulerInvariant, TypeOK
<1>2. spent' \in 0 .. MaxFailures
  BY FaultIsBounded DEF Mark
<1>3. /\ plan' \in [Plan -> PlanRow]
      /\ \A q \in Plan : plan'[q].status = None => plan[q].status = None
  BY <1>1, AdvancedIsRow, RunHasPlan DEF Mark
<1>4. /\ "marked" \in RunPc \ {None, "claimed", "working"}
      /\ "denied" \in RunPc \ {None, "claimed", "working"}
      /\ "unknown" \in RunPc \ {None, "claimed", "working"}
  BY DEF RunPc, None
<1>5. /\ RunTo(p, "marked") \/ RunTo(p, "denied") \/ RunTo(p, "unknown")
      /\ UNCHANGED <<account, binding, clock, tick, report, work>>
  BY DEF Mark
<1> QED
  BY <1>1, <1>2, <1>3, <1>4, <1>5, RunToKeeps

LEMMA ClosingKeeps ==
    ASSUME SchedulerInvariant, NEW p \in Plan, FinishRun(p) \/ RecordUnknown(p) \/ CloseStopped(p)
    PROVE  SchedulerInvariant'
<1>1. run[p].pc # None /\ plan \in [Plan -> PlanRow]
  BY DEF FinishRun, RecordUnknown, CloseStopped, RunAt, None, SchedulerInvariant, TypeOK
<1>2. spent' \in 0 .. MaxFailures
  BY FaultIsBounded DEF FinishRun, RecordUnknown, CloseStopped
<1>3. /\ plan' \in [Plan -> PlanRow]
      /\ \A q \in Plan : plan'[q].status = None => plan[q].status = None
  BY <1>1 DEF FinishRun, RecordUnknown, CloseStopped, PlanRow
<1>4. /\ "release" \in RunPc \ {None, "claimed", "working"}
      /\ "denied" \in RunPc \ {None, "claimed", "working"}
      /\ "unknown" \in RunPc \ {None, "claimed", "working"}
  BY DEF RunPc, None
<1>5. /\ RunTo(p, "release") \/ RunTo(p, "denied") \/ RunTo(p, "unknown")
      /\ UNCHANGED <<account, binding, clock, tick, report, work>>
  BY DEF FinishRun, RecordUnknown, CloseStopped
<1> QED
  BY <1>1, <1>2, <1>3, <1>4, <1>5, RunToKeeps

LEMMA EndWorkKeeps ==
    ASSUME SchedulerInvariant, NEW p \in Plan, EndWork(p)
    PROVE  SchedulerInvariant'
<1>1. /\ AtPlan(p) /\ run[p].pc = "working" /\ run[p].pc # None /\ run[p] \in Run
      /\ work[p] = 1 /\ work \in [Plan -> Nat] /\ plan \in [Plan -> PlanRow]
      /\ spent \in 0 .. MaxFailures /\ run[p].returned = FALSE
  BY PlanFacts DEF EndWork, RunAt, AtPlan, None, SchedulerInvariant, TypeOK, Run
<1>2. /\ work' \in [Plan -> Nat] /\ work'[p] \in {0, 1}
      /\ \A q \in Plan \ {p} : work'[q] = work[q]
  BY <1>1 DEF EndWork
<1>3. CASE /\ run' = [run EXCEPT ![p].pc = "returned", ![p].returned = TRUE]
           /\ work' = [work EXCEPT ![p] = @ - 1]
  <2>1. run' = [run EXCEPT ![p] = [run[p] EXCEPT !.pc = "returned", !.returned = TRUE]]
    BY <1>1, <1>3 DEF Run, SchedulerInvariant, TypeOK
  <2>2. work'[p] = 0 /\ "returned" \in RunPc \ {None}
    BY <1>1, <1>3 DEF RunPc, None
  <2> QED
    BY <1>1, <1>2, <2>1, <2>2, RunGoesOn DEF EndWork
<1>4. ASSUME NEW pc \in {"unknown", "denied"}, RunTo(p, pc)
      PROVE  SchedulerInvariant'
  <2>1. [run[p] EXCEPT !.pc = pc] = [run[p] EXCEPT !.pc = pc, !.returned = FALSE]
    BY <1>1 DEF Run
  <2>2. run' = [run EXCEPT ![p] = [run[p] EXCEPT !.pc = pc, !.returned = FALSE]]
    BY <1>4, <2>1 DEF RunTo
  <2>3. pc \in RunPc \ {None}
    BY <1>4 DEF RunPc, None
  <2> QED
    BY <1>1, <1>2, <1>4, <2>2, <2>3, RunGoesOn DEF EndWork
<1> QED
  BY <1>3, <1>4 DEF EndWork

\* A binding whose state is set, and nothing else of any binding.
LEMMA StateIsSet ==
    ASSUME SchedulerInvariant, NEW p \in Plan,
           NEW state \in {None, "idle", "active", "paused", "cleanup_failed"}, SetState(p, state)
    PROVE  /\ binding' \in [Plan -> BindingRow]
           /\ binding'[p].gen = binding[p].gen /\ binding'[p].state = state
           /\ \A q \in Plan \ {p} : binding'[q] = binding[q]
BY DEF SetState, SchedulerInvariant, TypeOK, BindingRow

LEMMA StopIsConfirmed ==
    ASSUME SchedulerInvariant, NEW p \in Plan, NEW failed \in BOOLEAN,
           run[p].pc # None, ConfirmStopped(p, run[p].gen, failed)
    PROVE  /\ binding' \in [Plan -> BindingRow] /\ binding'[p].gen = binding[p].gen
           /\ binding'[p].state = (IF failed THEN "cleanup_failed" ELSE "paused")
           /\ \A q \in Plan \ {p} : binding'[q] = binding[q]
<1>1. binding[p].gen = run[p].gen /\ binding[p].state # "paused"
  BY PlanFacts DEF AtPlan
<1>2. SetState(p, IF failed THEN "cleanup_failed" ELSE "paused")
  BY <1>1 DEF ConfirmStopped
<1>3. (IF failed THEN "cleanup_failed" ELSE "paused")
        \in {None, "idle", "active", "paused", "cleanup_failed"}
  OBVIOUS
<1> QED
  BY <1>2, <1>3, StateIsSet

\* The release of a binding: paused, or idle under the account's generation,
\* which no report has passed.
LEMMA IdleIsCurrent ==
    ASSUME SchedulerInvariant, NEW p \in Plan, run[p].pc # None, ReleaseIdle(p)
    PROVE  /\ binding' \in [Plan -> BindingRow] /\ binding'[p].gen = binding[p].gen
           /\ binding'[p].state \in {"idle", "paused"}
           /\ binding[p].gen < report => binding'[p].state = "paused"
           /\ \A q \in Plan \ {p} : binding'[q] = binding[q]
<1>1. CASE Allowed(p, run[p].gen)
  <2>1. SetState(p, "idle")
    BY <1>1 DEF ReleaseIdle
  <2>2. ~(binding[p].gen < report)
    BY <1>1, PlanFacts DEF Allowed, Authorized, Generation
  <2> QED
    BY <2>1, <2>2, StateIsSet
<1>2. CASE ~Allowed(p, run[p].gen)
  BY <1>2, StopIsConfirmed DEF ReleaseIdle
<1> QED
  BY <1>1, <1>2

\* A run that ends leaves its plan without one.
LEMMA RunEnds ==
    ASSUME SchedulerInvariant, NEW p \in Plan, run[p].pc # None,
           run' = [run EXCEPT ![p] = NoRun],
           binding' \in [Plan -> BindingRow], binding'[p].gen = binding[p].gen,
           binding'[p].state # None,
           binding[p].gen < report => binding'[p].state = "paused",
           work[p] = 1 => binding'[p].state = "cleanup_failed",
           \A q \in Plan \ {p} : binding'[q] = binding[q],
           spent' \in 0 .. MaxFailures,
           UNCHANGED <<account, plan, clock, tick, work, report>>
    PROVE  SchedulerInvariant'
<1>1. AtPlan(p) /\ plan[p].status # None
  BY PlanFacts, RunHasPlan
<1>2. NoRun \in Run /\ NoRun.pc = None /\ NoRun.returned = FALSE
  BY SchedulerAssumption DEF NoRun, Run, RunPc, Generation, Time, None
<1>3. /\ run' \in [Plan -> Run] /\ run'[p] = NoRun
      /\ \A q \in Plan \ {p} : run'[q] = run[q]
  BY <1>2 DEF SchedulerInvariant, TypeOK
<1>4. TypeOK'
  BY <1>1, <1>3 DEF SchedulerInvariant, TypeOK
<1>5. AtPlan(p)'
  BY <1>1, <1>2, <1>3 DEF AtPlan, None
<1> QED
  BY <1>3, <1>4, <1>5, OnePlanKeeps

LEMMA ReleaseKeeps ==
    ASSUME SchedulerInvariant, NEW p \in Plan, Release(p)
    PROVE  SchedulerInvariant'
<1>1. AtPlan(p) /\ run[p].pc # None /\ run[p].returned \in BOOLEAN /\ spent \in 0 .. MaxFailures
  BY PlanFacts DEF Release, RunAt, None, Run, SchedulerInvariant, TypeOK
<1>2. run' = [run EXCEPT ![p] = NoRun] /\ UNCHANGED <<account, plan, clock, tick, work, report>>
  BY DEF Release
<1>3. CASE run[p].returned
  <2>1. ReleaseIdle(p) /\ work[p] = 0
    BY <1>1, <1>3 DEF Release, Released, AtPlan
  <2>2. /\ binding' \in [Plan -> BindingRow] /\ binding'[p].gen = binding[p].gen
        /\ binding'[p].state # None
        /\ binding[p].gen < report => binding'[p].state = "paused"
        /\ \A q \in Plan \ {p} : binding'[q] = binding[q]
    BY <1>1, <2>1, IdleIsCurrent DEF None
  <2>3. /\ spent' \in 0 .. MaxFailures
        /\ work[p] = 1 => binding'[p].state = "cleanup_failed"
    BY <1>1, <2>1 DEF Release
  <2> QED
    BY <1>1, <1>2, <2>1, <2>2, <2>3, RunEnds
<1>4. CASE ~run[p].returned
  <2>1. ConfirmStopped(p, run[p].gen, TRUE)
    BY <1>4 DEF Release, Released
  <2>2. ~(binding[p].gen < report)
    BY <1>1 DEF AtPlan, None
  <2> QED
    BY <1>1, <1>2, <2>1, <2>2, StopIsConfirmed, RunEnds DEF Release, None
<1> QED
  BY <1>3, <1>4

LEMMA BeginKeeps ==
    ASSUME SchedulerInvariant, NEW p \in Plan, Begin(p)
    PROVE  SchedulerInvariant'
<1>1. /\ AtPlan(p) /\ run[p].pc = "claimed" /\ run[p].pc # None /\ work[p] = 0
      /\ plan \in [Plan -> PlanRow] /\ spent' \in 0 .. MaxFailures
  BY PlanFacts, FaultIsBounded DEF Begin, RunAt, AtPlan, None, SchedulerInvariant, TypeOK
<1>2. CASE RunTo(p, "begun") /\ UNCHANGED <<binding, spent>>
  <2>1. "begun" \in RunPc \ {None, "claimed", "working"}
    BY DEF RunPc, None
  <2>2. UNCHANGED <<account, binding, clock, tick, report, work, plan>>
    BY <1>2 DEF Begin
  <2> QED
    BY <1>1, <1>2, <2>1, <2>2, RunToKeeps
<1>3. CASE ReleaseIdle(p) /\ run' = [run EXCEPT ![p] = NoRun]
  <2>1. /\ binding' \in [Plan -> BindingRow] /\ binding'[p].gen = binding[p].gen
        /\ binding'[p].state # None
        /\ binding[p].gen < report => binding'[p].state = "paused"
        /\ \A q \in Plan \ {p} : binding'[q] = binding[q]
    BY <1>1, <1>3, IdleIsCurrent DEF None
  <2>2. /\ UNCHANGED <<account, plan, clock, tick, work, report>>
        /\ work[p] = 1 => binding'[p].state = "cleanup_failed"
    BY <1>1 DEF Begin
  <2> QED
    BY <1>1, <1>3, <2>1, <2>2, RunEnds
<1> QED
  BY <1>2, <1>3 DEF Begin

LEMMA OrphanKeeps ==
    ASSUME SchedulerInvariant, NEW p \in Plan, OrphanEnds(p)
    PROVE  SchedulerInvariant'
<1>1. AtPlan(p) /\ work \in [Plan -> Nat]
  BY PlanFacts DEF SchedulerInvariant, TypeOK
<1>2. work[p] > Waited(p) /\ Waited(p) \in {0, 1}
  BY DEF OrphanEnds, Waited
<1>2a. work[p] = 1 /\ run[p].pc # "working"
  BY <1>1, <1>2 DEF Waited, AtPlan
<1>3. work' \in [Plan -> Nat] /\ work'[p] = 0 /\ \A q \in Plan \ {p} : work'[q] = work[q]
  BY <1>1, <1>2a DEF OrphanEnds
<1>4. TypeOK'
  BY <1>3 DEF OrphanEnds, SchedulerInvariant, TypeOK
<1>5. AtPlan(p)'
  <2>1. UNCHANGED <<binding, run, report>>
    BY DEF OrphanEnds
  <2> QED
    BY <1>1, <1>2a, <1>3, <2>1 DEF AtPlan
<1> QED
  BY <1>3, <1>4, <1>5, OnePlanKeeps DEF OrphanEnds

\* A crash ends every run and every worker of the process.
LEMMA CrashedKeeps ==
    ASSUME SchedulerInvariant, Crashed, UNCHANGED <<account, binding, clock, report>>,
           plan' \in [Plan -> PlanRow],
           \A q \in Plan : plan'[q].status = None => binding[q].state = None
    PROVE  SchedulerInvariant'
<1>1. NoRun \in Run /\ NoRun.pc = None /\ NoRun.returned = FALSE
  BY SchedulerAssumption DEF NoRun, Run, RunPc, Generation, Time, None
<1>2. NoTick \in [on : BOOLEAN, now : Time, due : SUBSET DueRow] /\ spent' \in 0 .. MaxFailures
  BY SchedulerAssumption, FaultIsBounded DEF NoTick, Time, Crashed
<1>3. TypeOK'
  BY <1>1, <1>2 DEF Crashed, SchedulerInvariant, TypeOK
<1>4. ASSUME NEW q \in Plan PROVE AtPlan(q)'
  <2>1. AtPlan(q) /\ run'[q] = NoRun /\ work'[q] = 0
    BY PlanFacts DEF Crashed
  <2> QED
    BY <1>1, <2>1 DEF AtPlan, None
<1>5. (report <= account.gen)'
  BY DEF SchedulerInvariant, ReportedIsPaused
<1> QED
  BY <1>3, <1>4, <1>5, PlansKeep

\* A plan without a run or a worker is bound to the account's generation.
LEMMA BindingKeeps ==
    ASSUME SchedulerInvariant, NEW p \in Plan, binding[p].state \in {None, "paused"},
           plan' \in [Plan -> PlanRow], plan'[p].status # None,
           \A q \in Plan : plan'[q].status = None => plan[q].status = None,
           CommitsBinding(p, [gen |-> account.gen, state |-> "idle"]),
           UNCHANGED <<account, clock, report>>
    PROVE  SchedulerInvariant'
<1>1. AtPlan(p) /\ account.gen \in Generation /\ report \in Generation /\ report <= account.gen
  BY PlanFacts
<1>2. run[p].pc = None /\ work[p] = 0
  BY <1>1 DEF AtPlan, None
<1>3. CASE Crashed /\ UNCHANGED binding
  <2>1. \A q \in Plan : plan'[q].status = None => binding[q].state = None
    BY PlanFacts
  <2> QED
    BY <1>3, <2>1, CrashedKeeps
<1>4. CASE /\ binding' = [binding EXCEPT ![p] = [gen |-> account.gen, state |-> "idle"]]
           /\ UNCHANGED <<tick, run, work, spent>>
  <2>1. /\ binding' \in [Plan -> BindingRow]
        /\ binding'[p] = [gen |-> account.gen, state |-> "idle"]
        /\ \A q \in Plan \ {p} : binding'[q] = binding[q]
    BY <1>1, <1>4 DEF SchedulerInvariant, TypeOK, BindingRow
  <2>2. TypeOK'
    BY <1>4, <2>1 DEF SchedulerInvariant, TypeOK
  <2>3. AtPlan(p)'
    BY <1>1, <1>2, <1>4, <2>1 DEF AtPlan, None, Generation
  <2> QED
    BY <1>4, <2>1, <2>2, <2>3, OnePlanKeeps
<1> QED
  BY <1>3, <1>4 DEF CommitsBinding

LEMMA AddKeeps ==
    ASSUME SchedulerInvariant, NEW p \in Plan, Add(p)
    PROVE  SchedulerInvariant'
<1>1. /\ plan \in [Plan -> PlanRow] /\ clock + 1 \in 0 .. LastDay + 1
      /\ binding[p].state \in {None, "paused"}
  BY PlanFacts, SchedulerAssumption DEF Add, SchedulerInvariant, TypeOK, Time
<1> DEFINE added == [NoPlan EXCEPT !.status = "active", !.due = clock + 1]
<1>2. plan' = [plan EXCEPT ![p] = added] /\ added \in PlanRow /\ added.status # None
  <2>1. NoPlan \in PlanRow
    BY SchedulerAssumption DEF NoPlan, PlanRow
  <2>2. added \in PlanRow /\ added.status # None
    BY <1>1, <2>1 DEF PlanRow, PlanStatus, None
  <2>3. plan' = [plan EXCEPT ![p] = added]
    BY DEF Add
  <2> QED
    BY <2>2, <2>3
<1>3. /\ plan' \in [Plan -> PlanRow] /\ plan'[p].status # None
      /\ \A q \in Plan : plan'[q].status = None => plan[q].status = None
  <2> HIDE DEF added
  <2> QED
    BY <1>1, <1>2
<1>4. /\ CommitsBinding(p, [gen |-> account.gen, state |-> "idle"])
      /\ UNCHANGED <<account, clock, report>>
  BY DEF Add
<1> QED
  BY <1>1, <1>3, <1>4, BindingKeeps

LEMMA ResumeKeeps ==
    ASSUME SchedulerInvariant, NEW p \in Plan, Resume(p)
    PROVE  SchedulerInvariant'
<1> DEFINE resumed == [plan[p] EXCEPT !.status = "active",
                                      !.due = IF p \in Once THEN @ ELSE clock + 1]
<1>1. /\ plan \in [Plan -> PlanRow] /\ plan[p] \in PlanRow /\ clock + 1 \in 0 .. LastDay + 1
      /\ plan[p].due \in 0 .. LastDay + 1
  BY PlanFacts, SchedulerAssumption DEF SchedulerInvariant, TypeOK, Time, PlanRow
<1>2. plan' = [plan EXCEPT ![p] = resumed]
  BY <1>1 DEF Resume
<1>3. resumed \in PlanRow /\ resumed.status # None
  BY <1>1 DEF PlanRow, PlanStatus, None
<1>4. /\ plan' \in [Plan -> PlanRow] /\ plan'[p].status # None
      /\ \A q \in Plan : plan'[q].status = None => plan[q].status = None
  <2> HIDE DEF resumed
  <2> QED
    BY <1>1, <1>2, <1>3
<1>5. CASE UNCHANGED <<binding, tick, run, work, spent>>
  <2>1. TypeOK'
    BY <1>4, <1>5 DEF Resume, SchedulerInvariant, TypeOK
  <2> QED
    BY <1>5, <2>1, OutsideRuns DEF Resume
<1>6. CASE /\ binding[p].state = "paused"
           /\ CommitsBinding(p, [gen |-> account.gen, state |-> "idle"])
  BY <1>4, <1>6, BindingKeeps DEF Resume
<1> QED
  BY <1>5, <1>6 DEF Resume

\* Pausing idle bindings, all or some: no run owns one of them.
LEMMA PausingKeeps ==
    ASSUME SchedulerInvariant, NEW S \in SUBSET Plan,
           binding' = [p \in Plan |-> IF p \in S /\ binding[p].state = "idle"
                                      THEN [binding[p] EXCEPT !.state = "paused"] ELSE binding[p]],
           account' \in [gen : Generation, enabled : BOOLEAN],
           report' \in Generation, report' <= account'.gen,
           \A p \in Plan : binding[p].gen < report' => binding'[p].state \in {None, "paused"},
           plan' \in [Plan -> PlanRow],
           \A p \in Plan : plan'[p].status = None => plan[p].status = None,
           UNCHANGED <<clock, tick, run, work, spent>>
    PROVE  SchedulerInvariant'
<1>1. ASSUME NEW p \in Plan
      PROVE  /\ binding'[p] \in BindingRow /\ binding'[p].gen = binding[p].gen
             /\ \/ binding'[p].state = binding[p].state
                \/ binding[p].state = "idle" /\ binding'[p].state = "paused"
  <2>1. binding[p] \in BindingRow
    BY PlanFacts
  <2>2. CASE p \in S /\ binding[p].state = "idle"
    <3>1. binding'[p] = [binding[p] EXCEPT !.state = "paused"]
      BY <2>2
    <3> QED
      BY <2>1, <2>2, <3>1 DEF BindingRow
  <2>3. CASE ~(p \in S /\ binding[p].state = "idle")
    BY <2>1, <2>3
  <2> QED
    BY <2>2, <2>3
<1>2. \A p \in Plan : plan'[p].status = None => binding'[p].state = None
  BY <1>1, PlanFacts DEF None
<1>3. binding' \in [Plan -> BindingRow]
  BY <1>1
<1>4. TypeOK'
  BY <1>2, <1>3 DEF SchedulerInvariant, TypeOK
<1>5. ASSUME NEW p \in Plan PROVE AtPlan(p)'
  <2>1. AtPlan(p)
    BY PlanFacts
  <2> QED
    BY <1>1, <2>1 DEF AtPlan, None
<1> QED
  BY <1>4, <1>5, PlansKeep

LEMMA AccountKeeps ==
    ASSUME SchedulerInvariant, Hold \/ Enable
    PROVE  SchedulerInvariant'
<1>1. /\ account \in [gen : Generation, enabled : BOOLEAN] /\ plan \in [Plan -> PlanRow]
      /\ report \in Generation /\ report <= account.gen
  BY DEF SchedulerInvariant, TypeOK, ReportedIsPaused
<1>2. CASE Hold
  <2>1. account' \in [gen : Generation, enabled : BOOLEAN] /\ account'.gen = account.gen + 1
    BY <1>1, <1>2, SchedulerAssumption DEF Hold, Generation
  <2>2. report' \in Generation /\ report' <= account'.gen
    BY <1>1, <1>2, <2>1 DEF Hold, Generation
  <2>3. binding' = [p \in Plan |-> IF p \in Plan /\ binding[p].state = "idle"
                                   THEN [binding[p] EXCEPT !.state = "paused"] ELSE binding[p]]
    BY <1>2 DEF Hold
  <2>4. ASSUME NEW p \in Plan, binding[p].gen < report'
        PROVE  binding'[p].state \in {None, "paused"}
    <3>1. binding[p].state \in {None, "paused"}
      BY <1>2, <2>4, PlanFacts DEF Hold, AtPlan
    <3> QED
      BY <2>3, <3>1 DEF None
  <2> QED
    BY <1>1, <1>2, <2>1, <2>2, <2>3, <2>4, PausingKeeps DEF Hold
<1>3. CASE Enable
  <2>1. account' \in [gen : Generation, enabled : BOOLEAN] /\ account'.gen = account.gen
    BY <1>1, <1>3 DEF Enable
  <2>2. TypeOK'
    BY <1>3, <2>1 DEF Enable, SchedulerInvariant, TypeOK
  <2>3. ASSUME NEW p \in Plan PROVE AtPlan(p)'
    <3>1. AtPlan(p)
      BY PlanFacts
    <3> QED
      BY <1>3, <3>1 DEF AtPlan, Enable
  <2>4. (report <= account.gen)'
    BY <1>1, <1>3, <2>1 DEF Enable
  <2> QED
    BY <2>2, <2>3, <2>4, PlansKeep
<1> QED
  BY <1>2, <1>3

LEMMA ReconcileKeeps ==
    ASSUME SchedulerInvariant, Reconcile
    PROVE  SchedulerInvariant'
<1>1. /\ account \in [gen : Generation, enabled : BOOLEAN] /\ plan \in [Plan -> PlanRow]
      /\ account.gen \in Generation /\ report \in Generation /\ report <= account.gen
  BY DEF SchedulerInvariant, TypeOK, ReportedIsPaused
<1>2. Older(account.gen) \in SUBSET Plan
  BY DEF Older
<1>3. binding' = [p \in Plan |-> IF p \in Older(account.gen) /\ binding[p].state = "idle"
                                 THEN [binding[p] EXCEPT !.state = "paused"] ELSE binding[p]]
  BY DEF Reconcile
<1>4. report' \in Generation /\ report' <= account'.gen /\ account' = account
  BY <1>1 DEF Reconcile, Generation
<1>5. ASSUME NEW p \in Plan, binding[p].gen < report'
      PROVE  binding'[p].state \in {None, "paused"}
  <2>1. binding[p].state \in {None, "paused"} => binding'[p].state \in {None, "paused"}
    BY <1>3 DEF None
  <2>2. CASE report' = report
    BY <1>5, <2>1, <2>2, PlanFacts DEF AtPlan
  <2>3. CASE Complete(account.gen) /\ report' = account.gen /\ binding[p].state # None
    <3>1. p \in Older(account.gen)
      BY <1>5, <2>3 DEF Older
    <3>2. binding[p].state \in {"idle", "paused"}
      BY <2>3, <3>1 DEF Complete
    <3>3. binding[p] \in BindingRow
      BY PlanFacts
    <3> QED
      BY <1>3, <2>1, <3>1, <3>2, <3>3 DEF BindingRow
  <2> QED
    BY <2>1, <2>2, <2>3 DEF Reconcile
<1>6. /\ plan' \in [Plan -> PlanRow]
      /\ \A p \in Plan : plan'[p].status = None => plan[p].status = None
  BY <1>1 DEF Reconcile, PlanRow, PlanStatus, None
<1>7. UNCHANGED <<clock, tick, run, work, spent>>
  BY DEF Reconcile
<1> QED
  BY <1>1, <1>2, <1>3, <1>4, <1>5, <1>6, <1>7, PausingKeeps

LEMMA NextKeeps ==
    ASSUME SchedulerInvariant, [Next]_vars
    PROVE  SchedulerInvariant'
<1>1. CASE TimePasses \/ BeginTick \/ EndTick
  BY <1>1, PollingKeeps
<1>2. ASSUME NEW p \in Plan, Take(p) \/ RunNow(p)
      PROVE  SchedulerInvariant'
  BY <1>2, ClaimsKeep
<1>3. ASSUME NEW p \in Plan, RunStep(p)
      PROVE  SchedulerInvariant'
  BY <1>3, BeginKeeps, StartWorkKeeps, EndWorkKeeps, MarkKeeps, ClosingKeeps, ReleaseKeeps
     DEF RunStep
<1>4. ASSUME NEW p \in Plan, OrphanEnds(p) \/ Add(p) \/ Resume(p)
      PROVE  SchedulerInvariant'
  BY <1>4, OrphanKeeps, AddKeeps, ResumeKeeps
<1>5. ASSUME NEW p \in Plan, Pause(p) \/ Edit(p) \/ Cancel(p)
      PROVE  SchedulerInvariant'
  BY <1>5, ControlsKeep
<1>6. CASE Hold \/ Enable \/ Reconcile
  BY <1>6, AccountKeeps, ReconcileKeeps
<1>7. CASE Crash
  <2>1. /\ plan' \in [Plan -> PlanRow]
        /\ \A q \in Plan : plan'[q].status = None => binding[q].state = None
    BY <1>7 DEF Crash, SchedulerInvariant, TypeOK
  <2> QED
    BY <1>7, <2>1, CrashedKeeps DEF Crash
<1>8. CASE UNCHANGED vars
  <2>1. TypeOK'
    BY <1>8 DEF vars, SchedulerInvariant, TypeOK
  <2> QED
    BY <1>8, <2>1, OutsideRuns DEF vars
<1> QED
  BY <1>1, <1>2, <1>3, <1>4, <1>5, <1>6, <1>7, <1>8, SchedulerAssumption DEF Next

\* The inductive invariant: a run owns its binding, a lost worker leaves a failed
\* cleanup, a reported hold left nothing behind.
\* Code: claim_execution, _run_one_body, reconcile_account_execution.
THEOREM SchedulerIsSafe == Spec => []SchedulerInvariant
<1>1. Init => SchedulerInvariant
  BY InitInvariant
<1>2. SchedulerInvariant /\ [Next]_vars => SchedulerInvariant'
  BY NextKeeps
<1> QED
  BY <1>1, <1>2, PTL DEF Spec

\* Workers of two runs never work on one plan.
\* Code: claim_execution, the finally of _run_one_body.
THEOREM NeverTwoExecutions == Spec => []OneExecution
<1>1. SchedulerInvariant => OneExecution
  BY DEF SchedulerInvariant, WorkIsAccounted, OneExecution
<1> QED
  BY <1>1, SchedulerIsSafe, PTL

\* A hold that was reported reconciled left no run and no worker of an older
\* plan.
\* Code: reconcile_account_execution, confirm_execution_stopped.
THEOREM ReportsAreTrue == Spec => []StopReportIsTrue
<1>1. SchedulerInvariant => StopReportIsTrue
  <2>1. SUFFICES ASSUME SchedulerInvariant, NEW p \in Plan, binding[p].gen < report
                 PROVE  work[p] = 0 /\ run[p].pc = None
    BY DEF StopReportIsTrue
  <2>2. AtPlan(p)
    BY <2>1, PlanFacts
  <2> QED
    <3>1. run[p].pc = None /\ work[p] \in {0, 1} /\ work[p] # 1
      BY <2>1, <2>2 DEF AtPlan, None
    <3> QED
      BY <3>1
<1> QED
  BY <1>1, SchedulerIsSafe, PTL

\* A run and the polling leave the schedule of a plan that is not active alone.
\* Code: mark_run.
THEOREM LateRunsKeepControl == Spec => LateRunKeepsControl
<1>1. ASSUME SchedulerInvariant, NEW p \in Plan, RunStep(p) \/ Take(p), NEW q \in Plan,
             plan[q].status # "active"
      PROVE  plan'[q].status = plan[q].status /\ plan'[q].due = plan[q].due
  <2>1. plan \in [Plan -> PlanRow] /\ plan[p] \in PlanRow /\ plan[q] \in PlanRow
    BY <1>1 DEF SchedulerInvariant, TypeOK
  <2>2. CASE plan' = plan
    BY <2>2
  <2>3. CASE plan' = [plan EXCEPT ![p] = Advanced(p)]
    <3>1. q = p => Advanced(p) = [plan[p] EXCEPT !.version = 1 - @]
      BY <1>1 DEF Advanced
    <3> QED
      BY <2>1, <2>3, <3>1 DEF PlanRow
  <2>4. CASE plan' = [plan EXCEPT ![p].version = 1 - @]
    BY <2>1, <2>4 DEF PlanRow
  <2> QED
    BY <1>1, <2>2, <2>3, <2>4
       DEF RunStep, Take, Begin, StartWork, EndWork, Mark, FinishRun, RecordUnknown,
           CloseStopped, Release
<1>2. SchedulerInvariant =>
        [(\E p \in Plan : RunStep(p) \/ Take(p)) =>
           \A p \in Plan : plan[p].status # "active" =>
               plan'[p].status = plan[p].status /\ plan'[p].due = plan[p].due]_vars
  BY <1>1
<1> QED
  BY <1>2, SchedulerIsSafe, PTL DEF LateRunKeepsControl

-------------------------------------------------------------------------------
(* The promise of the scheduler *)

\* What a round has read was due then, so it is due now.
TickIsDue == \A d \in tick.due : d.row.due <= tick.now /\ tick.now <= clock

LEMMA TickStaysDue ==
    ASSUME TypeOK, TickIsDue, [Next]_vars
    PROVE  TickIsDue'
<1>1. CASE BeginTick
  BY <1>1 DEF BeginTick, TickIsDue, DueRows, TypeOK, Time, PlanRow
<1>2. CASE TimePasses
  <2>1. clock' = clock + 1 /\ tick' = tick /\ clock \in Nat
    BY <1>2, SchedulerAssumption DEF TimePasses, TypeOK, Time
  <2>2. ASSUME NEW now \in Time, now <= clock PROVE now <= clock + 1
    BY <2>1, <2>2, SchedulerAssumption DEF Time
  <2>3. tick.now \in Time
    BY DEF TypeOK
  <2> QED
    BY <2>1, <2>2, <2>3 DEF TickIsDue
<1>3. ASSUME NEW p \in Plan, Take(p) PROVE TickIsDue'
  <2>1. \E d \in tick.due : tick' = [tick EXCEPT !.due = @ \ {d}]
    BY <1>3 DEF Take
  <2>2. tick'.due \subseteq tick.due /\ tick'.on = tick.on /\ tick'.now = tick.now
    BY <2>1 DEF TypeOK
  <2> QED
    BY <1>3, <2>2 DEF TickIsDue, Take
<1>4. CASE tick' = tick /\ clock' = clock
  BY <1>4 DEF TickIsDue
<1>5. CASE tick' = NoTick
  BY <1>5 DEF TickIsDue, NoTick
<1>6. ASSUME Next
      PROVE  \/ BeginTick \/ TimePasses \/ \E p \in Plan : Take(p)
             \/ (tick' = tick /\ clock' = clock) \/ tick' = NoTick
  BY <1>6 DEF Next, EndTick, RunNow, RunStep, Begin, StartWork, EndWork, Mark, FinishRun,
              RecordUnknown, CloseStopped, Release, OrphanEnds, Add, Pause, Resume, Edit, Cancel,
              Hold, Enable, Reconcile, Crash, CommitsBinding, Crashed
<1> QED
  BY <1>1, <1>2, <1>3, <1>4, <1>5, <1>6 DEF vars

LEMMA TicksAreDue == Spec => []TickIsDue
<1>1. Init => TickIsDue
  BY DEF Init, TickIsDue, NoTick
<1>2. SchedulerInvariant /\ TickIsDue /\ [Next]_vars => TickIsDue'
  BY TickStaysDue DEF SchedulerInvariant
<1> QED
  BY <1>1, <1>2, SchedulerIsSafe, PTL DEF Spec

\* The cells of the promise, one plan at a time.
LEMMA CellsOfPlans ==
    /\ Jobs' = [p \in Plan |-> JobOf(p)'] /\ Schedules' = [p \in Plan |-> ScheduleOf(p)']
    /\ Bounds' = [p \in Plan |-> binding'[p].gen]
BY DEF Jobs, Schedules, Bounds

LEMMA CellsRest ==
    ASSUME UNCHANGED <<account, clock, work, report>>,
           \A p \in Plan : /\ JobOf(p)' = JobOf(p) /\ ScheduleOf(p)' = ScheduleOf(p)
                           /\ binding'[p].gen = binding[p].gen
    PROVE  UNCHANGED Cells!vars
BY CellsOfPlans DEF Cells!vars, Jobs, Schedules, Bounds

LEMMA OneJob ==
    ASSUME NEW p \in Plan, \A q \in Plan \ {p} : JobOf(q)' = JobOf(q)
    PROVE  Jobs' = [Jobs EXCEPT ![p] = JobOf(p)']
BY CellsOfPlans DEF Jobs

LEMMA OnePlanMoves ==
    ASSUME NEW p \in Plan, binding'[p].gen = binding[p].gen,
           \A q \in Plan \ {p} : binding'[q] = binding[q] /\ run'[q] = run[q]
    PROVE  Jobs' = [Jobs EXCEPT ![p] = JobOf(p)'] /\ Bounds' = Bounds
<1>1. \A q \in Plan \ {p} : JobOf(q)' = JobOf(q)
  BY DEF JobOf
<1>2. Bounds' = Bounds
  BY CellsOfPlans DEF Bounds
<1> QED
  BY <1>1, <1>2, OneJob

LEMMA SameSchedules ==
    ASSUME plan' = plan
    PROVE  Schedules' = Schedules
BY CellsOfPlans DEF Schedules, ScheduleOf

LEMMA JobValues ==
    ASSUME NEW p \in Plan
    PROVE  /\ Jobs[p] = JobOf(p) /\ Bounds[p] = binding[p].gen
           /\ Schedules[p].status = plan[p].status /\ Schedules[p].due = plan[p].due
           /\ binding[p].state = "idle" <=> JobOf(p) = "free"
           /\ binding[p].state = "paused" <=> JobOf(p) = "stopped"
           /\ binding[p].state = None <=> JobOf(p) = "none"
           /\ binding[p].state = "cleanup_failed" => JobOf(p) = "lost"
           /\ (binding[p].state = "active" /\ run[p].pc = None) => JobOf(p) = "lost"
<1>1. /\ binding[p].state = "idle" => JobOf(p) = "free"
      /\ binding[p].state = "paused" => JobOf(p) = "stopped"
      /\ binding[p].state = None => JobOf(p) = "none"
      /\ binding[p].state = "cleanup_failed" => JobOf(p) = "lost"
  BY DEF JobOf, None
<1>2. (binding[p].state = "active" /\ run[p].pc = None) => JobOf(p) = "lost"
  BY DEF JobOf, None
<1>3. (binding[p].state \notin {"idle", "paused", None}) => JobOf(p) \notin {"free", "stopped", "none"}
  BY DEF JobOf, None
<1> QED
  BY <1>1, <1>2, <1>3 DEF Jobs, Bounds, Schedules, ScheduleOf, None

\* A run in progress shows as one, under the authority of its plan.
LEMMA RunsAreShown ==
    ASSUME SchedulerInvariant, NEW p \in Plan, run[p].pc # None
    PROVE  /\ Jobs[p] = (IF run[p].manual THEN "manual" ELSE "polled") /\ Cells!Runs(p)
           /\ Allowed(p, run[p].gen) <=> Cells!Authorized(p)
           /\ binding[p].state = "active" /\ binding[p].gen = run[p].gen
<1>1. binding[p].state = "active" /\ binding[p].gen = run[p].gen /\ run[p] \in Run
  BY PlanFacts DEF AtPlan
<1>2. Jobs[p] = (IF run[p].manual THEN "manual" ELSE "polled")
  BY <1>1 DEF Jobs, JobOf, None
<1> QED
  BY <1>1, <1>2 DEF Cells!Runs, Cells!Authorized, Allowed, Authorized, Bounds


\* A claim finds a free cell: polling for a plan that is due now, by its owner for
\* one that may run.
LEMMA ClaimsAreClaims ==
    ASSUME SchedulerInvariant, NEW p \in Plan, NEW gen, NEW manual \in BOOLEAN, NEW now,
           NEW row, NEW statuses, Claimable(p, row, gen, statuses), Claim(p, gen, manual, now),
           \/ manual /\ statuses \subseteq {"active", "paused"}
           \/ ~manual /\ statuses \subseteq {"active"} /\ plan[p].due <= clock,
           UNCHANGED <<account, plan, clock, work, report>>
    PROVE  \E kind \in {"polled", "manual"} : Cells!Claim(p, kind)
<1> DEFINE kind == IF manual THEN "manual" ELSE "polled"
<1>1. binding[p].state = "idle" /\ account.enabled /\ binding[p].gen = account.gen
      /\ plan[p].status \in statuses
  BY DEF Claimable, Allowed, Authorized
<1>2. /\ binding'[p].state = "active" /\ binding'[p].gen = binding[p].gen
      /\ run'[p].pc = "claimed" /\ run'[p].manual = manual
      /\ \A q \in Plan \ {p} : binding'[q] = binding[q] /\ run'[q] = run[q]
  BY PlanFacts DEF Claim, SetState, SchedulerInvariant, TypeOK, BindingRow
<1>3. JobOf(p)' = kind
  <2>1. run'[p].pc # None /\ binding'[p].state = "active" /\ run'[p].manual = manual
    BY <1>2 DEF None
  <2> QED
    BY <2>1 DEF JobOf, None
<1>4. Jobs' = [Jobs EXCEPT ![p] = kind] /\ Bounds' = Bounds
  <2> HIDE DEF kind
  <2>1. Jobs' = [Jobs EXCEPT ![p] = JobOf(p)'] /\ Bounds' = Bounds
    BY <1>2, OnePlanMoves
  <2> QED
    BY <1>3, <2>1
<1>5. Jobs[p] = "free"
  BY <1>1, JobValues
<1>6. Schedules' = Schedules
  BY SameSchedules
<1>7. Cells!Authorized(p)
  BY <1>1 DEF Cells!Authorized, Bounds
<1>8. Schedules[p].status = plan[p].status /\ Schedules[p].due = plan[p].due
  BY DEF Schedules, ScheduleOf
<1>9. Cells!Claim(p, kind)
  BY <1>1, <1>4, <1>5, <1>6, <1>7, <1>8 DEF Cells!Claim
<1> QED
  BY <1>9

LEMMA TakesAreClaims ==
    ASSUME SchedulerInvariant, TickIsDue, NEW p \in Plan, Take(p)
    PROVE  UNCHANGED Cells!vars \/ \E kind \in {"polled", "manual"} : Cells!Claim(p, kind)
<1>1. UNCHANGED <<account, plan, clock, work, report>>
  BY DEF Take
<1>2. PICK d \in tick.due :
        \/ /\ Claimable(p, d.row, d.gen, {"active"}) /\ Claim(p, d.gen, FALSE, tick.now)
        \/ UNCHANGED <<binding, run>>
  BY DEF Take
<1>3. CASE UNCHANGED <<binding, run>>
  BY <1>1, <1>3, CellsRest DEF JobOf, ScheduleOf
<1>4. CASE Claimable(p, d.row, d.gen, {"active"}) /\ Claim(p, d.gen, FALSE, tick.now)
  <2>1. plan[p] = d.row /\ d.row.due <= clock
    <3>1. d.row.due <= tick.now /\ tick.now <= clock
      BY DEF TickIsDue
    <3>2. tick.now \in Nat /\ clock \in Nat /\ plan[p] = d.row /\ plan[p].due \in Nat
      BY <1>4, PlanFacts, SchedulerAssumption
         DEF Claimable, SchedulerInvariant, TypeOK, Time, PlanRow
    <3> QED
      BY <3>1, <3>2
  <2> QED
    BY <1>1, <1>4, <2>1, ClaimsAreClaims
<1> QED
  BY <1>2, <1>3, <1>4


\* Runs of the owner's.
LEMMA RunsNowAreClaims ==
    ASSUME SchedulerInvariant, NEW p \in Plan, RunNow(p)
    PROVE  \E kind \in {"polled", "manual"} : Cells!Claim(p, kind)
BY ClaimsAreClaims DEF RunNow

\* Steps of a run that only move it on leave every cell's job alone ...
LEMMA MovesKeepJobs ==
    ASSUME SchedulerInvariant, NEW p \in Plan, run[p].pc # None,
           NEW pc \in RunPc \ {None}, NEW returned \in BOOLEAN,
           run' = [run EXCEPT ![p] = [run[p] EXCEPT !.pc = pc, !.returned = returned]],
           UNCHANGED binding
    PROVE  Jobs' = Jobs /\ Bounds' = Bounds
<1>1. /\ run'[p].pc # None /\ run'[p].manual = run[p].manual
      /\ \A q \in Plan \ {p} : run'[q] = run[q]
  BY PlanFacts DEF SchedulerInvariant, TypeOK, Run
<1>2. JobOf(p)' = JobOf(p)
  BY <1>1 DEF JobOf
<1>3. \A q \in Plan \ {p} : JobOf(q)' = JobOf(q)
  BY <1>1 DEF JobOf
<1>4. \A q \in Plan : JobOf(q)' = JobOf(q)
  BY <1>2, <1>3
<1> QED
  BY <1>4, CellsOfPlans DEF Jobs, Bounds

LEMMA RunToKeepsJobs ==
    ASSUME SchedulerInvariant, NEW p \in Plan, run[p].pc # None,
           NEW pc \in RunPc \ {None}, RunTo(p, pc), UNCHANGED binding
    PROVE  Jobs' = Jobs /\ Bounds' = Bounds
<1>1. run[p] \in Run /\ run[p].returned \in BOOLEAN
  BY PlanFacts DEF Run
<1>2. [run[p] EXCEPT !.pc = pc] = [run[p] EXCEPT !.pc = pc, !.returned = run[p].returned]
  BY <1>1 DEF Run
<1>3. run' = [run EXCEPT ![p] = [run[p] EXCEPT !.pc = pc, !.returned = run[p].returned]]
  BY <1>2 DEF RunTo
<1> QED
  BY <1>1, <1>3, MovesKeepJobs

\* ... and may leave the rest alone too.
LEMMA MovesRest ==
    ASSUME SchedulerInvariant, NEW p \in Plan, run[p].pc # None,
           NEW pc \in RunPc \ {None}, RunTo(p, pc), Schedules' = Schedules,
           UNCHANGED <<account, binding, clock, work, report>>
    PROVE  UNCHANGED Cells!vars
BY RunToKeepsJobs DEF Cells!vars

\* A run that ends gives the cell free, or stops it, when its work has ended; it
\* loses it otherwise.
LEMMA EndsAreEnds ==
    ASSUME SchedulerInvariant, NEW p \in Plan, run[p].pc # None,
           \/ ReleaseIdle(p) /\ work[p] = 0
           \/ ConfirmStopped(p, run[p].gen, TRUE),
           run' = [run EXCEPT ![p] = NoRun], UNCHANGED <<account, plan, clock, work, report>>
    PROVE  Cells!End(p)
<1>1. Cells!Runs(p) /\ (Allowed(p, run[p].gen) <=> Cells!Authorized(p))
  BY RunsAreShown
<1>2. \A q \in Plan \ {p} : run'[q] = run[q]
  BY DEF SchedulerInvariant, TypeOK
<1>3. ASSUME NEW state \in {"idle", "paused", "cleanup_failed"},
             binding'[p].state = state, binding'[p].gen = binding[p].gen,
             \A q \in Plan \ {p} : binding'[q] = binding[q]
      PROVE  /\ Jobs' = [Jobs EXCEPT ![p] = CASE state = "idle" -> "free"
                                              [] state = "paused" -> "stopped"
                                              [] OTHER -> "lost"]
             /\ Bounds' = Bounds
  <2>1. Jobs' = [Jobs EXCEPT ![p] = JobOf(p)'] /\ Bounds' = Bounds
    BY <1>2, <1>3, OnePlanMoves
  <2>2. JobOf(p)' = CASE state = "idle" -> "free" [] state = "paused" -> "stopped"
                      [] OTHER -> "lost"
    BY <1>3 DEF JobOf, None
  <2> QED
    BY <2>1, <2>2
<1>4. Schedules' = Schedules
  BY SameSchedules
<1>5. CASE ReleaseIdle(p) /\ work[p] = 0
  <2>1. CASE Allowed(p, run[p].gen)
    <3>1. /\ binding'[p].state = "idle" /\ binding'[p].gen = binding[p].gen
          /\ \A q \in Plan \ {p} : binding'[q] = binding[q]
      BY <1>5, <2>1, StateIsSet DEF ReleaseIdle
    <3> QED
      BY <1>1, <1>3, <1>4, <1>5, <2>1, <3>1 DEF Cells!End
  <2>2. CASE ~Allowed(p, run[p].gen)
    <3>1. /\ binding'[p].state = "paused" /\ binding'[p].gen = binding[p].gen
          /\ \A q \in Plan \ {p} : binding'[q] = binding[q]
      BY <1>5, <2>2, StopIsConfirmed DEF ReleaseIdle
    <3> QED
      BY <1>1, <1>3, <1>4, <1>5, <2>2, <3>1 DEF Cells!End
  <2> QED
    BY <2>1, <2>2
<1>6. CASE ConfirmStopped(p, run[p].gen, TRUE)
  <2>1. /\ binding'[p].state = "cleanup_failed" /\ binding'[p].gen = binding[p].gen
        /\ \A q \in Plan \ {p} : binding'[q] = binding[q]
    BY <1>6, StopIsConfirmed
  <2> QED
    BY <1>1, <1>3, <1>4, <2>1 DEF Cells!End
<1> QED
  BY <1>5, <1>6


LEMMA BeginsAreSteps ==
    ASSUME SchedulerInvariant, NEW p \in Plan, Begin(p)
    PROVE  UNCHANGED Cells!vars \/ Cells!End(p)
<1>1. run[p].pc # None /\ work[p] = 0 /\ "begun" \in RunPc \ {None}
  BY PlanFacts DEF Begin, RunAt, AtPlan, None, RunPc
<1>2. UNCHANGED <<account, plan, clock, work, report>>
  BY DEF Begin
<1>3. CASE RunTo(p, "begun") /\ UNCHANGED <<binding, spent>>
  BY <1>1, <1>2, <1>3, MovesRest, SameSchedules
<1>4. CASE ReleaseIdle(p) /\ run' = [run EXCEPT ![p] = NoRun]
  BY <1>1, <1>2, <1>4, EndsAreEnds
<1> QED
  BY <1>3, <1>4 DEF Begin

\* A worker starts under the authority of that moment, where none works.
LEMMA StartsAreStarts ==
    ASSUME SchedulerInvariant, NEW p \in Plan, StartWork(p)
    PROVE  UNCHANGED Cells!vars \/ Cells!WorkBegins(p)
<1>1. /\ run[p].pc # None /\ work[p] = 0 /\ work \in [Plan -> Nat]
      /\ "working" \in RunPc \ {None} /\ "unknown" \in RunPc \ {None}
  BY PlanFacts DEF StartWork, RunAt, AtPlan, None, RunPc, SchedulerInvariant, TypeOK
<1>2. UNCHANGED <<account, plan, binding, clock, report>>
  BY DEF StartWork
<1>3. CASE RunTo(p, "unknown") /\ UNCHANGED work
  BY <1>1, <1>2, <1>3, MovesRest, SameSchedules
<1>4. CASE /\ Allowed(p, run[p].gen) /\ RunTo(p, "working")
           /\ work' = [work EXCEPT ![p] = @ + 1]
  <2>1. Cells!Runs(p) /\ Cells!Authorized(p)
    BY <1>1, <1>4, RunsAreShown
  <2>2. Jobs' = Jobs /\ Bounds' = Bounds /\ Schedules' = Schedules
    BY <1>1, <1>2, <1>4, RunToKeepsJobs, SameSchedules
  <2>3. work' = [work EXCEPT ![p] = 1]
    BY <1>1, <1>4
  <2> QED
    BY <1>1, <1>2, <2>1, <2>2, <2>3 DEF Cells!WorkBegins
<1> QED
  BY <1>3, <1>4 DEF StartWork

LEMMA WorkEndsOnce ==
    ASSUME SchedulerInvariant, NEW p \in Plan, work[p] = 1,
           work' = [work EXCEPT ![p] = @ - 1],
           Jobs' = Jobs, Bounds' = Bounds, Schedules' = Schedules,
           UNCHANGED <<account, clock, report>>
    PROVE  Cells!WorkEnds(p)
<1>1. work' = [work EXCEPT ![p] = 0]
  OBVIOUS
<1> QED
  BY <1>1 DEF Cells!WorkEnds

LEMMA EndsOfWork ==
    ASSUME SchedulerInvariant, NEW p \in Plan, EndWork(p)
    PROVE  UNCHANGED Cells!vars \/ Cells!WorkEnds(p)
<1>1. /\ run[p].pc # None /\ work[p] = 1 /\ run[p] \in Run /\ run[p].returned \in BOOLEAN
      /\ "returned" \in RunPc \ {None} /\ "unknown" \in RunPc \ {None}
      /\ "denied" \in RunPc \ {None}
  BY PlanFacts DEF EndWork, RunAt, AtPlan, None, RunPc, Run
<1>2. UNCHANGED <<account, plan, binding, clock, report>> /\ Schedules' = Schedules
  BY SameSchedules DEF EndWork
<1>3. Jobs' = Jobs /\ Bounds' = Bounds
  <2>1. CASE run' = [run EXCEPT ![p].pc = "returned", ![p].returned = TRUE]
    <3>1. run' = [run EXCEPT ![p] = [run[p] EXCEPT !.pc = "returned", !.returned = TRUE]]
      BY <1>1, <2>1 DEF Run, SchedulerInvariant, TypeOK
    <3> QED
      BY <1>1, <1>2, <3>1, MovesKeepJobs
  <2>2. CASE RunTo(p, "unknown") \/ RunTo(p, "denied")
    BY <1>1, <1>2, <2>2, RunToKeepsJobs
  <2> QED
    BY <2>1, <2>2 DEF EndWork
<1>4. work' = work \/ work' = [work EXCEPT ![p] = @ - 1]
  BY DEF EndWork
<1>5. CASE work' = work
  BY <1>2, <1>3, <1>5 DEF Cells!vars
<1>6. CASE work' = [work EXCEPT ![p] = @ - 1]
  BY <1>1, <1>2, <1>3, <1>6, WorkEndsOnce
<1> QED
  BY <1>4, <1>5, <1>6

LEMMA OrphansEndWork ==
    ASSUME SchedulerInvariant, NEW p \in Plan, OrphanEnds(p)
    PROVE  Cells!WorkEnds(p)
<1>1. work[p] = 1
  <2>1. work[p] \in {0, 1} /\ work[p] > Waited(p) /\ Waited(p) \in {0, 1}
    BY PlanFacts DEF OrphanEnds, AtPlan, Waited
  <2> QED
    BY <2>1
<1>2. UNCHANGED <<account, plan, binding, clock, run, report>>
  BY DEF OrphanEnds
<1>3. Jobs' = Jobs /\ Bounds' = Bounds /\ Schedules' = Schedules
  BY <1>2 DEF Jobs, JobOf, Bounds, Schedules, ScheduleOf
<1> QED
  BY <1>1, <1>2, <1>3, WorkEndsOnce DEF OrphanEnds

\* The schedule of one plan.
LEMMA OneSchedule ==
    ASSUME NEW p \in Plan, plan \in [Plan -> PlanRow], plan' \in [Plan -> PlanRow],
           \A q \in Plan \ {p} : plan'[q] = plan[q]
    PROVE  /\ Cells!Reschedules(p)
           /\ Schedules'[p] = [status |-> plan'[p].status, due |-> plan'[p].due]
           /\ (plan'[p].status = plan[p].status /\ plan'[p].due = plan[p].due)
                 => Schedules' = Schedules
<1>1. \A q \in Plan \ {p} : ScheduleOf(q)' = ScheduleOf(q)
  BY DEF ScheduleOf
<1>2. Schedules'[p] = [status |-> plan'[p].status, due |-> plan'[p].due]
  BY CellsOfPlans DEF ScheduleOf
<1>3. Schedules' = [Schedules EXCEPT ![p] = Schedules'[p]]
  BY <1>1, CellsOfPlans DEF Schedules
<1>4. ASSUME plan'[p].status = plan[p].status, plan'[p].due = plan[p].due
      PROVE  Schedules' = Schedules
  BY <1>1, <1>4, CellsOfPlans DEF Schedules, ScheduleOf
<1> QED
  BY <1>2, <1>3, <1>4 DEF Cells!Reschedules

\* The end of a run moves the schedule of a plan that is still active, if polling
\* ran it.
LEMMA MarksAdvance ==
    ASSUME SchedulerInvariant, NEW p \in Plan, Mark(p)
    PROVE  UNCHANGED Cells!vars \/ Cells!Advance(p)
<1>1. /\ run[p].pc # None /\ work[p] = 0 /\ plan \in [Plan -> PlanRow] /\ plan[p] \in PlanRow
      /\ "marked" \in RunPc \ {None} /\ "unknown" \in RunPc \ {None}
      /\ "denied" \in RunPc \ {None}
  BY PlanFacts DEF Mark, RunAt, AtPlan, None, RunPc, SchedulerInvariant, TypeOK
<1>2. UNCHANGED <<account, binding, clock, work, report>>
  BY DEF Mark
<1>3. CASE plan' = plan /\ (RunTo(p, "denied") \/ RunTo(p, "unknown"))
  BY <1>1, <1>2, <1>3, MovesRest, SameSchedules
<1>4. CASE /\ Allowed(p, run[p].gen) /\ RunTo(p, "marked")
           /\ plan' = [plan EXCEPT ![p] = Advanced(p)]
  <2>1. /\ plan' \in [Plan -> PlanRow] /\ plan'[p] = Advanced(p)
        /\ \A q \in Plan \ {p} : plan'[q] = plan[q]
    BY <1>1, <1>4, AdvancedIsRow, RunHasPlan
  <2>2. Jobs' = Jobs /\ Bounds' = Bounds
    BY <1>1, <1>2, <1>4, RunToKeepsJobs
  <2>3. CASE run[p].manual \/ plan[p].status # "active"
    <3>1. plan'[p].status = plan[p].status /\ plan'[p].due = plan[p].due
      BY <1>1, <2>1, <2>3 DEF Advanced, PlanRow
    <3>2. Schedules' = Schedules
      BY <1>1, <2>1, <3>1, OneSchedule
    <3> QED
      BY <1>2, <2>2, <3>2 DEF Cells!vars
  <2>4. CASE ~run[p].manual /\ plan[p].status = "active"
    <3>1. Jobs[p] = "polled" /\ Cells!Authorized(p)
      BY <1>1, <1>4, <2>4, RunsAreShown
    <3>2. \/ plan'[p].status = "active"
          \/ plan'[p].status = "done" /\ plan'[p].due = plan[p].due
      BY <1>1, <2>1, <2>4 DEF Advanced, PlanRow
    <3>3. /\ Cells!Reschedules(p)
          /\ Schedules'[p] = [status |-> plan'[p].status, due |-> plan'[p].due]
      BY <1>1, <2>1, OneSchedule
    <3>4. Schedules[p] = [status |-> "active", due |-> plan[p].due]
      BY <2>4 DEF Schedules, ScheduleOf
    <3>5. \/ Schedules'[p].status = "active"
          \/ Schedules'[p] = [Schedules[p] EXCEPT !.status = "done"]
      BY <3>2, <3>3, <3>4
    <3> QED
      BY <1>1, <1>2, <2>2, <3>1, <3>3, <3>4, <3>5 DEF Cells!Advance
  <2> QED
    BY <2>3, <2>4
<1> QED
  BY <1>3, <1>4 DEF Mark

LEMMA ClosingRests ==
    ASSUME SchedulerInvariant, NEW p \in Plan, FinishRun(p) \/ RecordUnknown(p) \/ CloseStopped(p)
    PROVE  UNCHANGED Cells!vars
<1>1. /\ run[p].pc # None /\ plan \in [Plan -> PlanRow] /\ plan[p] \in PlanRow
      /\ "release" \in RunPc \ {None} /\ "unknown" \in RunPc \ {None}
      /\ "denied" \in RunPc \ {None}
  BY PlanFacts DEF FinishRun, RecordUnknown, CloseStopped, RunAt, None, RunPc,
                   SchedulerInvariant, TypeOK
<1>2. /\ RunTo(p, "release") \/ RunTo(p, "denied") \/ RunTo(p, "unknown")
      /\ UNCHANGED <<account, binding, clock, report, work>>
  BY DEF FinishRun, RecordUnknown, CloseStopped
<1>3. plan' = plan \/ plan' = [plan EXCEPT ![p].version = 1 - @]
  BY DEF FinishRun, RecordUnknown, CloseStopped
<1>4. Schedules' = Schedules
  <2>1. \A q \in Plan : plan'[q].status = plan[q].status /\ plan'[q].due = plan[q].due
    BY <1>1, <1>3 DEF PlanRow
  <2> QED
    BY <2>1, CellsOfPlans DEF Schedules, ScheduleOf
<1> QED
  BY <1>1, <1>2, <1>4, MovesRest

LEMMA ReleasesEnd ==
    ASSUME SchedulerInvariant, NEW p \in Plan, Release(p)
    PROVE  Cells!End(p)
<1>1. run[p].pc # None /\ (run[p].returned => work[p] = 0)
  BY PlanFacts DEF Release, RunAt, None, AtPlan
<1>2. /\ \/ ReleaseIdle(p) /\ work[p] = 0
         \/ ConfirmStopped(p, run[p].gen, TRUE)
      /\ run' = [run EXCEPT ![p] = NoRun] /\ UNCHANGED <<account, plan, clock, work, report>>
  BY <1>1 DEF Release, Released
<1> QED
  BY <1>1, <1>2, EndsAreEnds

\* A crash loses what runs, whatever it interrupts.
LEMMA CrashesKill ==
    ASSUME SchedulerInvariant, Crashed, UNCHANGED binding
    PROVE  Cells!Dies
<1>1. \A p \in Plan : run'[p].pc = None
  BY DEF Crashed, NoRun
<1>2. ASSUME NEW p \in Plan
      PROVE  JobOf(p)' = IF Cells!Runs(p) THEN "lost" ELSE Jobs[p]
  <2>1. CASE run[p].pc # None
    <3>1. Cells!Runs(p) /\ binding[p].state = "active"
      BY <2>1, RunsAreShown
    <3> QED
      BY <1>1, <3>1 DEF JobOf, None
  <2>2. CASE run[p].pc = None
    <3>1. JobOf(p)' = JobOf(p)
      BY <1>1, <2>2 DEF JobOf
    <3>2. JobOf(p) \notin {"polled", "manual"}
      BY <2>2 DEF JobOf, None
    <3>3. Jobs[p] = JobOf(p)
      BY DEF Jobs
    <3> QED
      BY <3>1, <3>2, <3>3 DEF Cells!Runs
  <2> QED
    BY <2>1, <2>2
<1>3. Jobs' = [p \in Plan |-> IF Cells!Runs(p) THEN "lost" ELSE Jobs[p]]
  BY <1>2, CellsOfPlans
<1>4. work' = [p \in Plan |-> 0] /\ Bounds' = Bounds
  BY CellsOfPlans DEF Crashed, Bounds
<1> QED
  BY <1>3, <1>4 DEF Cells!Dies

\* An owner's write that leaves the binding alone ...
LEMMA WritesControl ==
    ASSUME SchedulerInvariant, SchedulerInvariant', NEW p \in Plan,
           \A q \in Plan \ {p} : plan'[q] = plan[q],
           plan'[p].status \in {"active", "paused", "cancelled"} \union {plan[p].status},
           plan'[p].due = plan[p].due \/ plan'[p].due > clock,
           UNCHANGED <<account, binding, clock, run, work, report>>
    PROVE  Cells!Control(p)
<1>1. /\ Cells!Reschedules(p)
      /\ Schedules'[p] = [status |-> plan'[p].status, due |-> plan'[p].due]
  BY OneSchedule DEF SchedulerInvariant, TypeOK
<1>2. Schedules[p] = [status |-> plan[p].status, due |-> plan[p].due]
  BY DEF Schedules, ScheduleOf
<1>3. Jobs' = Jobs /\ Bounds' = Bounds
  BY CellsOfPlans DEF Jobs, JobOf, Bounds
<1> QED
  BY <1>1, <1>2, <1>3 DEF Cells!Control

\* ... and one that binds a plan to the account of now, unless it dies in between.
LEMMA BindingsControl ==
    ASSUME SchedulerInvariant, SchedulerInvariant', NEW p \in Plan,
           account.enabled, binding[p].state \in {None, "paused"},
           CommitsBinding(p, [gen |-> account.gen, state |-> "idle"]),
           \A q \in Plan \ {p} : plan'[q] = plan[q],
           plan'[p].status = "active",
           plan'[p].due = plan[p].due \/ plan'[p].due > clock,
           UNCHANGED <<account, clock, report>>
    PROVE  Cells!Control(p)
<1>1. /\ Cells!Reschedules(p)
      /\ Schedules'[p] = [status |-> plan'[p].status, due |-> plan'[p].due]
  BY OneSchedule DEF SchedulerInvariant, TypeOK
<1>2. Schedules[p] = [status |-> plan[p].status, due |-> plan[p].due]
  BY DEF Schedules, ScheduleOf
<1>3. CASE /\ binding' = [binding EXCEPT ![p] = [gen |-> account.gen, state |-> "idle"]]
           /\ UNCHANGED <<tick, run, work, spent>>
  <2>1. /\ binding'[p] = [gen |-> account.gen, state |-> "idle"]
        /\ \A q \in Plan \ {p} : binding'[q] = binding[q]
    BY <1>3 DEF SchedulerInvariant, TypeOK
  <2>2. \A q \in Plan \ {p} : JobOf(q)' = JobOf(q)
    BY <1>3, <2>1 DEF JobOf
  <2>3. JobOf(p)' = "free"
    <3>1. binding'[p].state = "idle"
      BY <2>1
    <3> QED
      BY <3>1 DEF JobOf, None
  <2>4. Jobs' = [Jobs EXCEPT ![p] = "free"]
    BY <2>2, <2>3, OneJob
  <2>5. Bounds' = [Bounds EXCEPT ![p] = account.gen]
    <3>1. binding'[p].gen = account.gen /\ \A q \in Plan \ {p} : binding'[q].gen = binding[q].gen
      BY <2>1
    <3> QED
      BY <3>1, CellsOfPlans DEF Bounds
  <2>6. Jobs[p] \in {"none", "stopped"}
    BY JobValues
  <2> QED
    BY <1>1, <1>2, <1>3, <2>4, <2>5, <2>6 DEF Cells!Control
<1>4. CASE Crashed /\ UNCHANGED binding
  BY <1>1, <1>2, <1>4, CrashesKill DEF Cells!Control
<1> QED
  BY <1>3, <1>4 DEF CommitsBinding

LEMMA OwnersControl ==
    ASSUME SchedulerInvariant, SchedulerInvariant', NEW p \in Plan,
           Add(p) \/ Pause(p) \/ Resume(p) \/ Edit(p) \/ Cancel(p)
    PROVE  Cells!Control(p)
<1>1. plan \in [Plan -> PlanRow] /\ plan[p] \in PlanRow /\ clock + 1 > clock
  BY SchedulerAssumption DEF SchedulerInvariant, TypeOK, Time
<1>2. CASE Add(p)
  <2>1. plan'[p].status = "active" /\ plan'[p].due > clock
    BY <1>1, <1>2 DEF Add, NoPlan
  <2>2. \A q \in Plan \ {p} : plan'[q] = plan[q]
    BY <1>1, <1>2 DEF Add
  <2>3. binding[p].state = None /\ account.enabled
    BY <1>2, PlanFacts DEF Add
  <2> QED
    BY <1>2, <2>1, <2>2, <2>3, BindingsControl DEF Add
<1>3. CASE Resume(p)
  <2>1. /\ plan'[p].status = "active"
        /\ plan'[p].due = plan[p].due \/ plan'[p].due > clock
        /\ \A q \in Plan \ {p} : plan'[q] = plan[q]
    BY <1>1, <1>3 DEF Resume, PlanRow
  <2>2. UNCHANGED <<account, clock, report>>
    BY <1>3 DEF Resume
  <2>3. CASE UNCHANGED <<binding, tick, run, work, spent>>
    BY <2>1, <2>2, <2>3, WritesControl
  <2>4. CASE /\ account.enabled /\ binding[p].state = "paused"
             /\ CommitsBinding(p, [gen |-> account.gen, state |-> "idle"])
    BY <2>1, <2>2, <2>4, BindingsControl
  <2> QED
    BY <1>3, <2>3, <2>4 DEF Resume
<1>4. CASE Pause(p) \/ Edit(p) \/ Cancel(p)
  <2>1. /\ plan'[p].status \in {"active", "paused", "cancelled"} \union {plan[p].status}
        /\ plan'[p].due = plan[p].due \/ plan'[p].due > clock
        /\ \A q \in Plan \ {p} : plan'[q] = plan[q]
    BY <1>1, <1>4 DEF Pause, Edit, Cancel, PlanRow
  <2>2. UNCHANGED <<account, binding, clock, run, work, report>>
    BY <1>4 DEF Pause, Edit, Cancel
  <2> QED
    BY <2>1, <2>2, WritesControl
<1> QED
  BY <1>2, <1>3, <1>4
-------------------------------------------------------------------------------
\* The account holds every cell, or gives the authority back.
LEMMA HoldsHold ==
    ASSUME SchedulerInvariant, Hold
    PROVE  Cells!Hold
<1>1. ASSUME NEW p \in Plan
      PROVE  /\ JobOf(p)' = IF Jobs[p] = "free" THEN "stopped" ELSE Jobs[p]
             /\ binding'[p].gen = binding[p].gen
  <2>1. Jobs[p] = JobOf(p) /\ (binding[p].state = "idle" <=> JobOf(p) = "free")
    BY JobValues
  <2>2. binding[p] \in BindingRow /\ run' = run
    BY PlanFacts DEF Hold
  <2>3. CASE binding[p].state = "idle"
    BY <2>1, <2>2, <2>3 DEF Hold, JobOf, BindingRow, None
  <2>4. CASE binding[p].state # "idle"
    BY <2>1, <2>2, <2>4 DEF Hold, JobOf
  <2> QED
    BY <2>3, <2>4
<1>2. /\ Jobs' = [p \in Plan |-> IF Jobs[p] = "free" THEN "stopped" ELSE Jobs[p]]
      /\ Bounds' = Bounds
  BY <1>1, CellsOfPlans DEF Bounds
<1>3. Schedules' = Schedules
  BY SameSchedules DEF Hold
<1> QED
  BY <1>2, <1>3 DEF Hold, Cells!Hold

\* A reconciliation stops the older cells, and reports only what the cells show.
LEMMA ReconcilesReconcile ==
    ASSUME SchedulerInvariant, Reconcile
    PROVE  Cells!Reconcile
<1>1. \A p \in Plan : p \in Older(account.gen) <=> Cells!Older(p)
  BY JobValues DEF Older, Cells!Older, Jobs, Bounds
<1>2. ASSUME NEW p \in Plan
      PROVE  /\ JobOf(p)' = IF Cells!Older(p) /\ Jobs[p] = "free" THEN "stopped" ELSE Jobs[p]
             /\ binding'[p].gen = binding[p].gen
             /\ ScheduleOf(p)' = IF Cells!Older(p) /\ Schedules[p].status = "active"
                                 THEN [Schedules[p] EXCEPT !.status = "paused"] ELSE Schedules[p]
  <2>1. /\ Jobs[p] = JobOf(p) /\ (binding[p].state = "idle" <=> JobOf(p) = "free")
        /\ Schedules[p] = [status |-> plan[p].status, due |-> plan[p].due]
    BY JobValues DEF Schedules, ScheduleOf
  <2>2. binding[p] \in BindingRow /\ plan[p] \in PlanRow /\ run' = run
    BY PlanFacts DEF Reconcile
  <2>3. JobOf(p)' = IF Cells!Older(p) /\ Jobs[p] = "free" THEN "stopped" ELSE Jobs[p]
    <3>1. CASE Cells!Older(p) /\ binding[p].state = "idle"
      BY <1>1, <2>1, <2>2, <3>1 DEF Reconcile, JobOf, BindingRow, None
    <3>2. CASE ~(Cells!Older(p) /\ binding[p].state = "idle")
      BY <1>1, <2>1, <2>2, <3>2 DEF Reconcile, JobOf
    <3> QED
      BY <3>1, <3>2
  <2>4. binding'[p].gen = binding[p].gen
    BY <2>2 DEF Reconcile, BindingRow
  <2>5. ScheduleOf(p)' = IF Cells!Older(p) /\ Schedules[p].status = "active"
                         THEN [Schedules[p] EXCEPT !.status = "paused"] ELSE Schedules[p]
    <3>1. CASE Cells!Older(p) /\ plan[p].status = "active"
      BY <1>1, <2>1, <2>2, <3>1 DEF Reconcile, ScheduleOf, PlanRow
    <3>2. CASE ~(Cells!Older(p) /\ plan[p].status = "active")
      BY <1>1, <2>1, <2>2, <3>2 DEF Reconcile, ScheduleOf
    <3> QED
      BY <2>1, <3>1, <3>2
  <2> QED
    BY <2>3, <2>4, <2>5
<1>3. /\ Jobs' = [p \in Plan |-> IF Cells!Older(p) /\ Jobs[p] = "free" THEN "stopped" ELSE Jobs[p]]
      /\ Schedules' = [p \in Plan |-> IF Cells!Older(p) /\ Schedules[p].status = "active"
                                      THEN [Schedules[p] EXCEPT !.status = "paused"]
                                      ELSE Schedules[p]]
      /\ Bounds' = Bounds
  BY <1>2, CellsOfPlans DEF Bounds
<1>4. ASSUME Complete(account.gen), NEW p \in Plan
      PROVE  /\ Schedules[p].status \in {"active", "paused"} => Jobs[p] # "none"
             /\ Cells!Older(p) => Jobs'[p] = "stopped" /\ work[p] = 0
  <2>1. Schedules[p].status \in {"active", "paused"} => Jobs[p] # "none"
    BY <1>4, JobValues DEF Complete
  <2>2. ASSUME Cells!Older(p)
        PROVE  Jobs'[p] = "stopped" /\ work[p] = 0
    <3>1. binding[p].state \in {"idle", "paused"}
      BY <1>1, <1>4, <2>2 DEF Complete
    <3>2. run[p].pc = None /\ work[p] = 0
      BY <3>1, PlanFacts DEF AtPlan
    <3>3. Jobs[p] \in {"free", "stopped"}
      BY <3>1, JobValues
    <3> QED
      BY <1>3, <2>2, <3>2, <3>3
  <2> QED
    BY <2>1, <2>2
<1>5. \/ report' = report
      \/ /\ report' = account.gen
         /\ \A p \in Plan :
              /\ Schedules[p].status \in {"active", "paused"} => Jobs[p] # "none"
              /\ Cells!Older(p) => Jobs'[p] = "stopped" /\ work[p] = 0
  BY <1>4 DEF Reconcile
<1> QED
  BY <1>3, <1>5 DEF Reconcile, Cells!Reconcile

LEMMA CellsStep ==
    ASSUME SchedulerInvariant, TickIsDue, [Next]_vars
    PROVE  [Cells!Next]_(Cells!vars)
<1>0. SchedulerInvariant'
  BY NextKeeps
<1>1. CASE TimePasses
  <2>1. Jobs' = Jobs /\ Bounds' = Bounds /\ Schedules' = Schedules
    BY <1>1 DEF TimePasses, Jobs, JobOf, Bounds, Schedules, ScheduleOf
  <2> QED
    BY <1>1, <2>1 DEF TimePasses, Cells!Next
<1>2. CASE BeginTick \/ EndTick \/ UNCHANGED vars
  <2>1. UNCHANGED <<account, plan, binding, clock, run, work, report>>
    BY <1>2 DEF BeginTick, EndTick, vars
  <2> QED
    BY <2>1, CellsRest DEF JobOf, ScheduleOf
<1>3. ASSUME NEW p \in Plan, Take(p) \/ RunNow(p)
      PROVE  [Cells!Next]_(Cells!vars)
  BY <1>3, TakesAreClaims, RunsNowAreClaims DEF Cells!Next
<1>4. ASSUME NEW p \in Plan, RunStep(p) \/ OrphanEnds(p)
      PROVE  [Cells!Next]_(Cells!vars)
  <2>1. UNCHANGED Cells!vars \/ Cells!WorkBegins(p) \/ Cells!WorkEnds(p) \/ Cells!Advance(p)
        \/ Cells!End(p)
    BY <1>4, BeginsAreSteps, StartsAreStarts, EndsOfWork, OrphansEndWork, MarksAdvance,
       ClosingRests, ReleasesEnd DEF RunStep
  <2> QED
    BY <2>1 DEF Cells!Next
<1>5. ASSUME NEW p \in Plan, Add(p) \/ Pause(p) \/ Resume(p) \/ Edit(p) \/ Cancel(p)
      PROVE  [Cells!Next]_(Cells!vars)
  BY <1>0, <1>5, OwnersControl DEF Cells!Next
<1>6. CASE Hold
  BY <1>6, HoldsHold DEF Cells!Next
<1>7. CASE Enable
  <2>1. Jobs' = Jobs /\ Bounds' = Bounds /\ Schedules' = Schedules
    BY <1>7 DEF Enable, Jobs, JobOf, Bounds, Schedules, ScheduleOf
  <2> QED
    BY <1>7, <2>1 DEF Enable, Cells!Enable, Cells!Next
<1>8. CASE Reconcile
  BY <1>8, ReconcilesReconcile DEF Cells!Next
<1>9. CASE Crash
  <2>1. Cells!Dies
    BY <1>9, CrashesKill DEF Crash
  <2>2. Schedules' = Schedules /\ UNCHANGED <<account, clock, report>>
    BY <1>9, SameSchedules DEF Crash
  <2> QED
    BY <2>1, <2>2 DEF Cells!Next
<1> QED
  BY <1>1, <1>2, <1>3, <1>4, <1>5, <1>6, <1>7, <1>8, <1>9, SchedulerAssumption DEF Next

\* The whole scheduler keeps its promise: with two databases, a list of due plans
\* read earlier, workers nobody waits for and crashes between two commits, every
\* step has the effect of at most one step on the cells.
\* Code: claim_execution, tick, _run_one_body, mark_run,
\* reconcile_account_execution.
THEOREM ScheduleIsKept == Spec => KeepsSchedule
<1>1. Init => Cells!Init
  BY DEF Init, Cells!Init, Jobs, JobOf, Bounds, Schedules, ScheduleOf, NoPlan, NoBinding, NoRun,
         None
<1>2. SchedulerInvariant /\ TickIsDue /\ [Next]_vars => [Cells!Next]_(Cells!vars)
  BY CellsStep
<1> QED
  BY <1>1, <1>2, SchedulerIsSafe, TicksAreDue, PTL DEF Spec, KeepsSchedule, Cells!Spec

===============================================================================
