-------------------------------- MODULE Scheduler --------------------------------
(***************************************************************************)
(* The scheduled plans of one account: the polling service that claims due *)
(* plans and runs them, the manual run, the owner's controls, the account  *)
(* hold that reconciles them and the crash.  Plans live in scheduler.db    *)
(* and their execution bindings in webui.db: an operation that writes both *)
(* commits the plan first.                                                 *)
(*                                                                         *)
(* An action is one transaction, or what runs up to the next one.  The      *)
(* owner's requests and the account's administration run in threads, so    *)
(* they come between any two of them; the service's own loop interleaves   *)
(* less than the model lets it, except where reconciliation needs it.      *)
(***************************************************************************)
EXTENDS Naturals, FiniteSets

CONSTANTS
    Plan,           \* scheduled plans
    Once,           \* those without a further run, by kind or end date; the others repeat
    Controlled,     \* bound: plans their owner pauses, edits, cancels or runs now
    Slots,          \* runs the polling keeps going at a time; two in the code
    LastDay,        \* bound: the clock stops
    MaxGeneration,  \* bound: account holds
    MaxFailures     \* bound: crashes of the process and failed writes to scheduler.db

ASSUME SchedulerAssumption ==
    /\ IsFiniteSet(Plan) /\ Once \subseteq Plan /\ Controlled \subseteq Plan
    /\ Slots \in Nat \ {0} /\ LastDay \in Nat /\ MaxGeneration \in Nat
    /\ MaxFailures \in Nat

VARIABLES
    account,  \* users: execution generation, not disabled
    plan,     \* scheduled_tasks
    binding,  \* account_execution_bindings of kind schedule
    clock,    \* wall time
    tick,     \* the polling round in progress and the due plans it has read
    run,      \* the run of a plan in this process, _running_ids
    work,     \* workers alive for a plan, those nobody waits for included
    report,   \* latest generation whose hold was reported reconciled
    spent     \* failures so far

vars == <<account, plan, binding, clock, tick, run, work, report, spent>>
-------------------------------------------------------------------------------
None == "none"
Time == 0 .. LastDay
Generation == 0 .. MaxGeneration
PlanStatus == {"active", "paused", "done", "cancelled"}
\* The rest of a plan, its prompt, model and count of runs, is a version by its
\* parity: what matters is whether it changed.
NoPlan == [status |-> None, due |-> 0, version |-> 0]
NoBinding == [gen |-> 0, state |-> None]
NoRun == [pc |-> None, gen |-> 0, manual |-> FALSE, now |-> 0, returned |-> FALSE]
NoTick == [on |-> FALSE, now |-> 0, due |-> {}]

PlanRow == [status : PlanStatus \union {None}, due : 0 .. LastDay + 1, version : 0 .. 1]
RunPc == {None, "claimed", "begun", "working", "returned", "marked", "unknown", "denied", "release"}
DueRow == [plan : Plan, row : PlanRow, gen : Generation]
BindingRow == [gen : Generation, state : {None, "idle", "active", "paused", "cleanup_failed"}]
Run == [pc : RunPc, gen : Generation, manual : BOOLEAN, now : Time, returned : BOOLEAN]

\* Values of every variable; a binding exists only with its plan.
TypeOK ==
    /\ account \in [gen : Generation, enabled : BOOLEAN]
    /\ plan \in [Plan -> PlanRow]
    /\ binding \in [Plan -> BindingRow]
    /\ clock \in Time
    /\ tick \in [on : BOOLEAN, now : Time, due : SUBSET DueRow]
    /\ run \in [Plan -> Run]
    /\ work \in [Plan -> Nat]
    /\ report \in Generation
    /\ spent \in 0 .. MaxFailures
    /\ \A p \in Plan : plan[p].status = None => binding[p].state = None

Init ==
    /\ account = [gen |-> 0, enabled |-> TRUE]
    /\ plan = [p \in Plan |-> NoPlan]
    /\ binding = [p \in Plan |-> NoBinding]
    /\ clock = 0
    /\ tick = NoTick
    /\ run = [p \in Plan |-> NoRun]
    /\ work = [p \in Plan |-> 0]
    /\ report = 0
    /\ spent = 0
-------------------------------------------------------------------------------
(* Authorisation and the clock *)

Authorized(gen) == account.enabled /\ account.gen = gen
Allowed(p, gen) ==
    /\ Authorized(gen)
    /\ binding[p].gen = gen /\ binding[p].state \in {"active", "idle"}

SetState(p, state) == binding' = [binding EXCEPT ![p].state = state]

\* A run that is over without authorisation proves, or disproves, its stop to the
\* binding it was claimed under.
ConfirmStopped(p, gen, failed) ==
    IF binding[p].gen # gen \/ binding[p].state = "paused" THEN UNCHANGED binding
    ELSE SetState(p, IF failed THEN "cleanup_failed" ELSE "paused")

\* After its claim, and after its runner returned, a run does its transactions
\* without giving the event loop back.
AtTransaction(p) == run[p].pc \notin {None, "begun", "working"}
LoopFree == \A p \in Plan : ~AtTransaction(p)
Fault == spent < MaxFailures /\ spent' = spent + 1

TimePasses ==
    /\ clock < LastDay
    /\ clock' = clock + 1
    /\ UNCHANGED <<account, plan, binding, tick, run, work, report, spent>>
-------------------------------------------------------------------------------
(* Polling and claiming *)

\* A round reads the due plans with the generation they are bound to.  (One that
\* finds none changes nothing.)
DefectDueRows == {[plan |-> p, row |-> plan[p], gen |-> binding[p].gen] : p \in
               {q \in Plan : plan[q].status = "active" /\ plan[q].due < clock
                             /\ binding[q].state # None}}  \* past its time, not at it
DueRows == {[plan |-> p, row |-> plan[p], gen |-> binding[p].gen] : p \in
               {q \in Plan : plan[q].status = "active" /\ plan[q].due <= clock
                             /\ binding[q].state # None}}
BeginTick ==
    /\ ~tick.on
    /\ DueRows # {}
    /\ tick' = [on |-> TRUE, now |-> clock, due |-> DueRows]
    /\ UNCHANGED <<account, plan, binding, clock, run, work, report, spent>>

Polled(p) == run[p].pc # None /\ ~run[p].manual
EndTick ==
    /\ tick.on /\ tick.due = {}
    /\ \A p \in Plan : ~Polled(p)
    /\ tick' = NoTick
    /\ UNCHANGED <<account, plan, binding, clock, run, work, report, spent>>

\* The claim: only an idle binding of the generation that was read, only the
\* plan as it was read.  An active binding may belong to a run lost in a crash.
Claimable(p, row, gen, statuses) ==
    /\ Allowed(p, gen) /\ binding[p].state = "idle"
    /\ plan[p] = row /\ plan[p].status \in statuses
Claim(p, gen, manual, now) ==
    /\ SetState(p, "active")
    /\ run' = [run EXCEPT ![p] = [pc |-> "claimed", gen |-> gen, manual |-> manual,
                                  now |-> now, returned |-> FALSE]]

\* A consumer with a slot takes a due plan; one that is running, was changed
\* since it was read or is not authorised is left for another round.
Take(p) ==
    /\ Cardinality({q \in Plan : Polled(q)}) < Slots
    /\ \E d \in tick.due :
        /\ d.plan = p
        /\ tick' = [tick EXCEPT !.due = @ \ {d}]
        /\ \/ /\ run[p].pc = None /\ Claimable(p, d.row, d.gen, {"active"})
              /\ Claim(p, d.gen, FALSE, tick.now)
           \/ /\ run[p].pc # None \/ ~Claimable(p, d.row, d.gen, {"active"})
              /\ UNCHANGED <<binding, run>>
    /\ UNCHANGED <<account, plan, clock, work, report, spent>>

\* The owner runs a plan now; its schedule stays as it is.
RunNow(p) ==
    /\ run[p].pc = None
    /\ Claimable(p, plan[p], account.gen, {"active", "paused"})
    /\ Claim(p, account.gen, TRUE, clock)
    /\ UNCHANGED <<account, plan, clock, tick, work, report, spent>>
-------------------------------------------------------------------------------
(* A run *)

RunAt(p, pc) == run[p].pc = pc
RunTo(p, pc) == run' = [run EXCEPT ![p].pc = pc]
ReleaseIdle(p) ==
    IF Allowed(p, run[p].gen) THEN SetState(p, "idle") ELSE ConfirmStopped(p, run[p].gen, FALSE)

\* The run gets its row in the history; without one the claim is given back.
Begin(p) ==
    /\ RunAt(p, "claimed")
    /\ \/ /\ Allowed(p, run[p].gen)
          /\ RunTo(p, "begun")
          /\ UNCHANGED <<binding, spent>>
       \/ /\ IF Allowed(p, run[p].gen) THEN Fault ELSE UNCHANGED spent
          /\ ReleaseIdle(p)
          /\ run' = [run EXCEPT ![p] = NoRun]
    /\ UNCHANGED <<account, plan, clock, tick, work, report>>

\* The runner starts its workers while the binding still allows it.
StartWork(p) ==
    /\ RunAt(p, "begun")
    /\ \/ /\ Allowed(p, run[p].gen)
          /\ work' = [work EXCEPT ![p] = @ + 1]
          /\ RunTo(p, "working")
       \/ /\ ~Allowed(p, run[p].gen)
          /\ RunTo(p, "unknown") /\ UNCHANGED work
    /\ UNCHANGED <<account, plan, binding, clock, tick, report, spent>>

\* The runner returns, its work done; or it raises, is told that it is not
\* authorised, or exceeds its time, and nobody knows whether its work goes on.
EndWork(p) ==
    /\ RunAt(p, "working")
    /\ \/ /\ run' = [run EXCEPT ![p].pc = "returned", ![p].returned = TRUE]
          /\ work' = [work EXCEPT ![p] = @ - 1]
       \/ /\ \/ RunTo(p, "unknown")
             \/ RunTo(p, "denied") /\ ~Allowed(p, run[p].gen)
          /\ work' \in {work, [work EXCEPT ![p] = @ - 1]}
    /\ UNCHANGED <<account, plan, binding, clock, tick, report, spent>>

\* Work nobody waits for comes to its end.
Waited(p) == IF run[p].pc = "working" THEN 1 ELSE 0
OrphanEnds(p) ==
    /\ work[p] > Waited(p)
    /\ work' = [work EXCEPT ![p] = @ - 1]
    /\ UNCHANGED <<account, plan, binding, clock, tick, run, report, spent>>

\* The plan goes on to its next time, unless it was paused, cancelled or ended
\* meanwhile; a manual run only counts.
DefectAdvanced(p) ==  \* a late run puts the plan back to its schedule
    IF p \notin Once
    THEN [plan[p] EXCEPT !.version = 1 - @, !.due = run[p].now + 1, !.status = "active"]
    ELSE [plan[p] EXCEPT !.version = 1 - @, !.status = "done"]
Advanced(p) ==
    IF run[p].manual \/ plan[p].status # "active" THEN [plan[p] EXCEPT !.version = 1 - @]
    ELSE IF p \notin Once
         THEN [plan[p] EXCEPT !.version = 1 - @, !.due = run[p].now + 1]
         ELSE [plan[p] EXCEPT !.version = 1 - @, !.status = "done"]
Mark(p) ==
    /\ RunAt(p, "returned")
    /\ \/ /\ Allowed(p, run[p].gen)
          /\ plan' = [plan EXCEPT ![p] = Advanced(p)]
          /\ RunTo(p, "marked")
          /\ UNCHANGED spent
       \/ ~Allowed(p, run[p].gen) /\ RunTo(p, "denied") /\ UNCHANGED <<plan, spent>>
       \/ Fault /\ RunTo(p, "unknown") /\ UNCHANGED plan
    /\ UNCHANGED <<account, binding, clock, tick, work, report>>

FinishRun(p) ==
    /\ RunAt(p, "marked")
    /\ \/ /\ Allowed(p, run[p].gen)
          /\ RunTo(p, "release")
          /\ UNCHANGED spent
       \/ ~Allowed(p, run[p].gen) /\ RunTo(p, "denied") /\ UNCHANGED spent
       \/ Fault /\ RunTo(p, "unknown")
    /\ UNCHANGED <<account, plan, binding, clock, tick, work, report>>

\* A run whose stop is not known says so while it is authorised, and leaves the
\* schedule alone.
RecordUnknown(p) ==
    /\ RunAt(p, "unknown")
    /\ plan' = IF Allowed(p, run[p].gen) THEN [plan EXCEPT ![p].version = 1 - @] ELSE plan
    /\ RunTo(p, "release")
    /\ UNCHANGED <<account, binding, clock, tick, work, report, spent>>

\* A run that lost its authorisation drops its result.
CloseStopped(p) ==
    /\ RunAt(p, "denied")
    /\ RunTo(p, "release")
    /\ UNCHANGED <<account, plan, binding, clock, tick, work, report, spent>>

\* Last, the binding: idle or proved stopped when the runner has returned, a
\* failed cleanup otherwise.
DefectReleased(p) == ReleaseIdle(p)  \* a wait that ended proves the work ended
Released(p) == IF run[p].returned THEN ReleaseIdle(p) ELSE ConfirmStopped(p, run[p].gen, TRUE)
Release(p) ==
    /\ RunAt(p, "release")
    /\ Released(p)
    /\ run' = [run EXCEPT ![p] = NoRun]
    /\ UNCHANGED <<account, plan, clock, tick, work, report, spent>>

RunStep(p) ==
    \/ Begin(p) \/ StartWork(p) \/ EndWork(p) \/ Mark(p) \/ FinishRun(p)
    \/ RecordUnknown(p) \/ CloseStopped(p) \/ Release(p)
-------------------------------------------------------------------------------
(* The owner's controls, in threads *)

\* A write under authorisation; the plan is committed before the binding, and a
\* crash may come between the two.
Crashed ==
    /\ Fault
    /\ tick' = NoTick
    /\ run' = [p \in Plan |-> NoRun]
    /\ work' = [p \in Plan |-> 0]
CommitsBinding(p, new) ==
    \/ binding' = [binding EXCEPT ![p] = new] /\ UNCHANGED <<tick, run, work, spent>>
    \/ Crashed /\ UNCHANGED binding

Add(p) ==
    /\ account.enabled /\ plan[p].status = None
    /\ plan' = [plan EXCEPT ![p] = [NoPlan EXCEPT !.status = "active", !.due = clock + 1]]
    /\ CommitsBinding(p, [gen |-> account.gen, state |-> "idle"])
    /\ UNCHANGED <<account, clock, report>>

Pause(p) ==
    /\ Allowed(p, account.gen)
    /\ plan' = [plan EXCEPT ![p].status = "paused"]
    /\ UNCHANGED <<account, binding, clock, tick, run, work, report, spent>>

\* A resumed plan gets a time in the future, a binding proved stopped the
\* account's generation.
Future(p) == p \in Once => plan[p].due > clock
Resume(p) ==
    /\ plan[p].status # None /\ Future(p)
    /\ plan' = [plan EXCEPT ![p].status = "active",
                            ![p].due = IF p \in Once THEN @ ELSE clock + 1]
    /\ \/ Allowed(p, account.gen) /\ UNCHANGED <<binding, tick, run, work, spent>>
       \/ /\ account.enabled /\ binding[p].state = "paused"
          /\ CommitsBinding(p, [gen |-> account.gen, state |-> "idle"])
    /\ UNCHANGED <<account, clock, report>>

\* A plan is edited only while nothing runs it; its status stays.
Edit(p) ==
    /\ Allowed(p, account.gen) /\ binding[p].state = "idle"
    /\ plan' = [plan EXCEPT ![p].version = 1 - @, ![p].due = clock + 1]
    /\ UNCHANGED <<account, binding, clock, tick, run, work, report, spent>>

Cancel(p) ==
    /\ plan[p].status \in PlanStatus \ {"cancelled"}
    /\ plan' = [plan EXCEPT ![p].status = "cancelled"]
    /\ UNCHANGED <<account, binding, clock, tick, run, work, report, spent>>
-------------------------------------------------------------------------------
(* The account and the process *)

\* A hold starts a generation and pauses the idle bindings.
Hold ==
    /\ account.enabled /\ account.gen < MaxGeneration
    /\ account' = [gen |-> account.gen + 1, enabled |-> FALSE]
    /\ binding' = [p \in Plan |-> IF binding[p].state = "idle"
                                  THEN [binding[p] EXCEPT !.state = "paused"] ELSE binding[p]]
    /\ UNCHANGED <<plan, clock, tick, run, work, report, spent>>
Enable ==
    /\ ~account.enabled
    /\ account' = [account EXCEPT !.enabled = TRUE]
    /\ UNCHANGED <<plan, binding, clock, tick, run, work, report, spent>>

\* Reconciliation of a hold pauses the older plans; it is complete when every
\* plan that may run has a binding and every older binding is proved stopped.
Older(gen) == {p \in Plan : binding[p].state # None /\ binding[p].gen < gen}
DefectComplete(gen) ==  \* an empty registry stands for a proof
    \A p \in Older(gen) : run[p].pc = None
Complete(gen) ==
    /\ \A p \in Plan : plan[p].status \in {"active", "paused"} => binding[p].state # None
    /\ \A p \in Older(gen) : binding[p].state \in {"idle", "paused"}
Reconcile ==
    /\ LoopFree /\ account.gen > 0
    /\ plan' = [p \in Plan |-> IF p \in Older(account.gen) /\ plan[p].status = "active"
                               THEN [plan[p] EXCEPT !.status = "paused"] ELSE plan[p]]
    /\ binding' = [p \in Plan |-> IF p \in Older(account.gen) /\ binding[p].state = "idle"
                                  THEN [binding[p] EXCEPT !.state = "paused"] ELSE binding[p]]
    /\ report' = IF Complete(account.gen) THEN account.gen ELSE report
    /\ UNCHANGED <<account, clock, tick, run, work, spent>>

Crash == Crashed /\ UNCHANGED <<account, plan, binding, clock, report>>

Next ==
    \/ TimePasses \/ BeginTick \/ EndTick
    \/ \E p \in Plan :
        Take(p) \/ RunStep(p) \/ OrphanEnds(p) \/ Add(p)
    \/ \E p \in Controlled :
        RunNow(p) \/ Pause(p) \/ Resume(p) \/ Edit(p) \/ Cancel(p)
    \/ Hold \/ Enable \/ Reconcile \/ Crash

Spec == Init /\ [][Next]_vars

\* The polling comes back, a consumer takes what is due while it has a slot, a run
\* goes on and its runner returns or exceeds its time.
FairSpec ==
    /\ Spec
    /\ WF_vars(BeginTick) /\ WF_vars(EndTick)
    /\ \A p \in Plan : WF_vars(Take(p)) /\ WF_vars(RunStep(p))
-------------------------------------------------------------------------------
(* Properties *)

\* Inductive invariant of the proofs.  A run in progress owns the active binding
\* it was claimed under; a worker nobody waits for leaves a failed cleanup
\* behind; an older binding after a reported reconciliation is proved stopped.
RunOwnsBinding ==
    \A p \in Plan : run[p].pc # None => binding[p] = [gen |-> run[p].gen, state |-> "active"]
WorkIsAccounted ==
    \A p \in Plan :
        /\ work[p] \in {0, 1}
        /\ run[p].pc = "working" => work[p] = 1
        /\ run[p].pc \in {"claimed", "begun"} \/ run[p].returned => work[p] = 0
        /\ run[p].pc \in {"claimed", "begun", "working"} => ~run[p].returned
        /\ run[p].pc \in {"returned", "marked"} => run[p].returned
        /\ run[p].pc = None /\ work[p] = 1 => binding[p].state = "cleanup_failed"
ReportedIsPaused ==
    /\ report <= account.gen
    /\ \A p \in Plan : binding[p].gen < report => binding[p].state \in {None, "paused"}
SchedulerInvariant == TypeOK /\ RunOwnsBinding /\ WorkIsAccounted /\ ReportedIsPaused

\* Workers of two runs never work on one plan: not when a run that exceeded its
\* time goes on in a thread, nor when polling and a manual run meet.
\* Code: claim_execution, the finally of _run_one_body.
OneExecution == \A p \in Plan : work[p] <= 1

\* A hold reported as reconciled is true: a plan still bound to a generation
\* before it has no worker, and no run that could start one.
\* Code: reconcile_account_execution, confirm_execution_stopped.
StopReportIsTrue ==
    \A p \in Plan : binding[p].gen < report => work[p] = 0 /\ run[p].pc = None

\* Neither a run nor the polling changes the schedule of a plan that was paused,
\* cancelled or done, however late the run ends.
\* Code: mark_run.
LateRunKeepsControl ==
    [][(\E p \in Plan : RunStep(p) \/ Take(p)) =>
          \A p \in Plan : plan[p].status # "active" =>
              plan'[p].status = plan[p].status /\ plan'[p].due = plan[p].due]_vars

\* A plan that is due and may run is run, or stops being due, whatever the other
\* plans, the owner and the account do.
\* Code: tick, due_tasks, claim_execution.
Due(p) ==
    /\ plan[p].status = "active" /\ plan[p].due <= clock
    /\ binding[p].state = "idle" /\ Authorized(binding[p].gen)
DueIsRun == \A p \in Plan : Due(p) ~> ~Due(p)

\* Two databases, a list of due plans and runs nobody waits for: yet every step
\* has the effect of one on a single cell per plan.  A binding that is active
\* without a run in this process belongs to a run whose end nobody saw.
\* Code: claim_execution, tick, _run_one_body, mark_run,
\* reconcile_account_execution.
JobOf(p) ==
    CASE binding[p].state = "idle" -> "free"
      [] binding[p].state = "paused" -> "stopped"
      [] binding[p].state = None -> "none"
      [] run[p].pc # None /\ binding[p].state = "active" ->
            IF run[p].manual THEN "manual" ELSE "polled"
      [] OTHER -> "lost"
ScheduleOf(p) == [status |-> plan[p].status, due |-> plan[p].due]
Jobs == [p \in Plan |-> JobOf(p)]
Schedules == [p \in Plan |-> ScheduleOf(p)]
Bounds == [p \in Plan |-> binding[p].gen]
Cells == INSTANCE SchedulePromise
         WITH schedule <- Schedules, job <- Jobs, bound <- Bounds, reported <- report
KeepsSchedule == Cells!Spec
===============================================================================
