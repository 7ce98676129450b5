-------------------------- MODULE AccountHolds_proofs --------------------------
(***************************************************************************)
(* ExecutionInvariant is inductive.  The proof classifies what one step    *)
(* may do to a binding and to an executor (StepEffects), once per action,  *)
(* and derives every part of the invariant from that classification.       *)
(***************************************************************************)
EXTENDS AccountExecution_proofs

Moved(r) == bindings'[r] # bindings[r]

\* The ways a step changes the binding of r.
Created(r) ==
    /\ bindings[r].state = "absent"
    /\ bindings'[r].generation = account.generation
    /\ bindings'[r].state \in {"active", "idle"}
Used(r) ==
    /\ BindingUsable(r, bindings[r].generation)
    /\ bindings'[r].generation = bindings[r].generation
    /\ bindings'[r].state \in {"active", "idle"}
    /\ r \in Locked /\ bindings'[r].state # "active" => ~Busy(r)'
Stopped(r) ==
    /\ bindings[r].state \notin {"absent", "paused"}
    /\ bindings'[r].generation = bindings[r].generation
    /\ bindings'[r].state \in {"paused", "cleanup_failed"}
    /\ r \in Locked => ~Busy(r)'
Resumed(r) ==
    /\ ~Held /\ bindings[r].state = "paused" /\ ~Busy(r)
    /\ r \in Workspace => r \in pausedTasks
    /\ bindings'[r] = [generation |-> account.generation, state |-> "idle"]
    /\ r \notin pausedTasks'

BindingStep ==
    \A r \in Resource : Moved(r) => Created(r) \/ Used(r) \/ Stopped(r) \/ Resumed(r)

\* The ways a step changes an executor.
Admitted(w) ==
    /\ workers'[w].pc = "ready"
    /\ workers'[w].resource \in Resource
    /\ workers'[w].resource \in Workspace => bindings[workers'[w].resource].state # "absent"
Locks(w) ==
    /\ LockFree(workers[w].resource)
    /\ workers[w].pc = "ready" /\ workers'[w] = [workers[w] EXCEPT !.pc = "entered"]
Starts(w) ==
    LET r == workers[w].resource IN
    /\ r \in Resource
    /\ workers[w].pc = "entered" /\ workers'[w] = [workers[w] EXCEPT !.pc = "running"]
    /\ BindingUsable(r, workers[w].generation)
    /\ r \in Locked => bindings'[r].state = "active"

WorkerStep ==
    \/ UNCHANGED workers
    \/ \E w \in Worker :
          /\ \A v \in Worker \ {w} : workers'[v] = workers[v]
          /\ workers'[w].pc = "out" \/ Admitted(w) \/ Locks(w) \/ Starts(w)

\* Nobody turns back the account, and nothing leaves the quarantine.
AccountStep ==
    /\ account'.generation >= account.generation
    /\ quarantined \subseteq quarantined'
    /\ account'.generation # account.generation =>
          \A r \in Resource \ quarantined' : bindings'[r].state # "idle"

\* A task becomes paused only with its stop proof.
PausedStep ==
    \A r \in pausedTasks' \ pausedTasks : bindings'[r].state = "paused" /\ ~Busy(r)'

StepEffects == AccountStep /\ BindingStep /\ WorkerStep /\ PausedStep
-------------------------------------------------------------------------------
\* Facts about the invariant used throughout.
LEMMA RunningFacts ==
    ASSUME TypeOK, Exclusion, Owned, NEW w \in Worker, workers[w].pc = "running"
    PROVE  /\ workers[w].resource \in Resource
           /\ workers[w].resource \in Locked => bindings[workers[w].resource].state = "active"
           /\ \A v \in Worker \ {w} : ~RunsOn(v, workers[w].resource)
BY DEF Exclusion, Owned, RunsOn

\* When a runner gives up, nobody runs on its resource any more.
LEMMA LeavingIsQuiet ==
    ASSUME TypeOK, Exclusion, Owned, NEW w \in Worker,
           workers[w].pc \in {"entered", "running"}, NEW r, r = workers[w].resource,
           Stays(w)
    PROVE  WorkerStep /\ ~Busy(r)'
<1>1. /\ workers'[w].pc = "out"
      /\ \A v \in Worker \ {w} : workers'[v] = workers[v]
  BY DEF Stays, NotRunning, TypeOK
<1>2. \A v \in Worker \ {w} : ~RunsOn(v, workers[w].resource)
  BY DEF Exclusion, RunsOn
<1> QED
  BY <1>1, <1>2 DEF WorkerStep, Busy, RunsOn

LEMMA FreeIsQuiet == ASSUME NEW r, LockFree(r) PROVE ~Busy(r)
BY DEF LockFree, Busy, RunsOn

\* Steps that leave one of the three parts alone.
LEMMA UnchangedParts ==
    ASSUME TypeOK
    PROVE  /\ UNCHANGED workers => WorkerStep
           /\ UNCHANGED bindings => BindingStep
           /\ UNCHANGED <<account, quarantined>> => AccountStep
           /\ \A w \in Worker : Stays(w) => WorkerStep
           /\ pausedTasks' \subseteq pausedTasks => PausedStep
BY DEF TypeOK, WorkerStep, BindingStep, Moved, AccountStep, Stays, NotRunning, Generation,
   PausedStep

LEMMA ConfirmStoppedStep ==
    ASSUME TypeOK, NEW r \in Resource, NEW gen \in Generation, NEW failed \in BOOLEAN,
           ConfirmStopped(r, gen, failed),
           r \in Locked /\ bindings'[r] # bindings[r] => ~Busy(r)'
    PROVE  BindingStep
BY ConfirmStoppedEffect DEF BindingStep, Moved, Stopped, TypeOK, Binding

LEMMA FinishPauseStep ==
    ASSUME TypeOK, NEW r \in Workspace, NEW gen \in Generation,
           NEW shown \in SUBSET pausedTasks, NEW published \in BOOLEAN,
           NEW terminal \in BOOLEAN, NEW stopped \in BOOLEAN,
           FinishPause(r, gen, shown, published, terminal, stopped),
           bindings[r].state # "absent", ~Busy(r)'
    PROVE  BindingStep /\ PausedStep
<1>1. r \in Resource /\ r \notin Locked
  BY KindsAssumption DEF Resource
<1>2. BindingStep
  BY <1>1, FinishPauseEffect DEF BindingStep, Moved, Stopped, TypeOK, Binding
<1>3. ASSUME NEW x \in pausedTasks' \ pausedTasks
      PROVE  bindings'[x].state = "paused" /\ ~Busy(x)'
  <2>1. x = r /\ published /\ ~terminal /\ stopped /\ bindings[r].generation = gen
    BY <1>3 DEF FinishPause
  <2>2. bindings'[r] = ConfirmedBinding(r, gen, ~terminal /\ ~stopped)
    BY <1>1, <2>1 DEF FinishPause, ConfirmStopped, TypeOK
  <2>3. bindings'[r].state = "paused"
    BY <2>1, <2>2 DEF ConfirmedBinding
  <2> QED
    BY <2>1, <2>3
<1> QED
  BY <1>2, <1>3 DEF PausedStep
-------------------------------------------------------------------------------
LEMMA GovernanceEffects == ASSUME ExecutionInvariant, Governance PROVE StepEffects
<1> TypeOK /\ Exclusion /\ Owned
  BY DEF ExecutionInvariant
<1>1. ASSUME NEW disabled \in BOOLEAN, NEW pending \in BOOLEAN,
             UpdateAccountStatus(disabled, pending)
      PROVE  StepEffects
  <2>1. AccountStep
    BY <1>1 DEF UpdateAccountStatus, AccountStep, Parked, TypeOK, Generation, Binding
  <2>2. ASSUME NEW r \in Resource, Moved(r) PROVE Stopped(r)
    <3>1. bindings[r].state = "idle" /\ bindings'[r] = [bindings[r] EXCEPT !.state = "paused"]
      BY <1>1, <2>2 DEF UpdateAccountStatus, Moved, Parked
    <3>2. r \in Locked => ~Busy(r)'
      BY <1>1, <3>1, RunningFacts DEF UpdateAccountStatus, Busy, RunsOn
    <3> QED
      BY <3>1, <3>2 DEF Stopped, TypeOK, Binding
  <2>3. WorkerStep /\ PausedStep
    BY <1>1, UnchangedParts DEF UpdateAccountStatus
  <2> QED
    BY <2>1, <2>2, <2>3 DEF StepEffects, BindingStep
<1>2. CASE IssueGrant
  BY <1>2, UnchangedParts DEF IssueGrant, StepEffects
<1>3. ASSUME NEW r \in Workspace, CreateTask(r) PROVE StepEffects
  <2>1. BindingStep
    BY <1>3 DEF CreateTask, NewBinding, BindingStep, Moved, Created, TypeOK, Resource
  <2> QED
    BY <1>3, <2>1, UnchangedParts DEF CreateTask, StepEffects
<1>4. ASSUME NEW r \in Workspace, NEW published \in PublicationOutcomes,
             NEW terminal \in BOOLEAN, NEW stopped \in BOOLEAN,
             PauseQueued(r, published, terminal, stopped)
      PROVE  StepEffects
  <2>1. ~Busy(r)'
    BY <1>4, FreeIsQuiet DEF PauseQueued, Busy, RunsOn
  <2>2. bindings[r].generation \in Generation /\ published \in BOOLEAN
    BY OutcomesAssumption DEF TypeOK, Binding, Resource
  <2>3. BindingStep /\ PausedStep
    BY <1>4, <2>1, <2>2, FinishPauseStep DEF PauseQueued
  <2> QED
    BY <1>4, <2>3, UnchangedParts DEF PauseQueued, StepEffects
<1>5. ASSUME NEW targets \in SUBSET Resource,
             RegisterQuarantine(targets) \/ RegisterChatQuarantine(targets)
      PROVE  StepEffects
  <2>1. AccountStep
    BY <1>5 DEF RegisterQuarantine, RegisterChatQuarantine, AccountStep, TypeOK, Generation
  <2> QED
    BY <1>5, <2>1, UnchangedParts DEF RegisterQuarantine, RegisterChatQuarantine, StepEffects
<1>6. ASSUME NEW g \in Generation, RetryHold(g) PROVE StepEffects
  BY <1>6, UnchangedParts DEF RetryHold, StepEffects
<1>7. ASSUME NEW r \in Workspace, NEW harness \in {{}} \union {{h} : h \in Locked},
             Resume(r, harness)
      PROVE  StepEffects
  <2>1. ASSUME NEW x \in Resource, Moved(x) PROVE Resumed(x)
    <3>1. /\ x \in {r} \union harness /\ bindings[x].state = "paused"
          /\ bindings'[x] = [generation |-> account.generation, state |-> "idle"]
      BY <1>7, <2>1 DEF Resume, Moved, Resumable
    <3>2. x = r \/ x \in Locked
      BY <3>1
    <3>3. ~Busy(x)
      BY <1>7, <3>1, <3>2, FreeIsQuiet, RunningFacts DEF Resume, Busy, RunsOn
    <3>4. x \notin pausedTasks'
      BY <1>7, <3>2, KindsAssumption DEF Resume, TypeOK
    <3>5. ~Held /\ (x \in Workspace => x \in pausedTasks)
      BY <1>7, <3>2, KindsAssumption DEF Resume
    <3> QED
      BY <3>1, <3>3, <3>4, <3>5 DEF Resumed
  <2> QED
    BY <1>7, <2>1, UnchangedParts DEF Resume, StepEffects, BindingStep
<1> QED
  BY <1>1, <1>2, <1>3, <1>4, <1>5, <1>6, <1>7 DEF Governance

LEMMA ExecutingEffects ==
    ASSUME ExecutionInvariant, NEW w \in Worker, Executing(w)
    PROVE  StepEffects
<1> TypeOK /\ Exclusion /\ Owned
  BY DEF ExecutionInvariant
<1> PICK r : r = workers[w].resource
  OBVIOUS
<1> PICK gen : gen = workers[w].generation
  OBVIOUS
<1>1. AccountStep
  BY UnchangedParts
     DEF Executing, Capture, Bind, Launch, Enter, Activate, Begin, Return, Denied, BodyFails,
         StopFails, PauseDenied, Ejected, Crash
<1>2. workers[w] \in Execution /\ gen \in Generation
  BY DEF TypeOK, Execution
<1>3. ASSUME NEW x \in Locked, Capture(w, x) PROVE StepEffects
  <2>1. Admitted(w)
    BY <1>3, KindsAssumption DEF Capture, Admitted, TypeOK, Resource
  <2> QED
    BY <1>1, <1>3, <2>1, UnchangedParts DEF Capture, StepEffects, WorkerStep, TypeOK
<1>4. ASSUME NEW state \in {"active", "idle"}, Bind(w, state) PROVE StepEffects
  <2>1. BindingStep
    BY <1>4 DEF Bind, NewBinding, BindingStep, Moved, Created, TypeOK, Authorized
  <2> QED
    BY <1>1, <1>4, <2>1, UnchangedParts DEF Bind, StepEffects
<1>5. ASSUME NEW x \in Workspace, Launch(w, x) PROVE StepEffects
  <2>1. Admitted(w)
    BY <1>5 DEF Launch, RequireBinding, BindingUsable, Admitted, TypeOK, Resource
  <2> QED
    BY <1>1, <1>5, <2>1, UnchangedParts DEF Launch, StepEffects, WorkerStep, TypeOK
<1>6. CASE Enter(w)
  <2>1. WorkerStep
    BY <1>6, UnchangedParts DEF Enter, MovesTo, Locks, WorkerStep, TypeOK
  <2> QED
    BY <1>1, <1>6, <2>1, UnchangedParts DEF Enter, StepEffects
<1>7. CASE Activate(w)
  <2>1. CASE RequireBinding(r, gen) /\ MovesTo(w, "running")
             /\ bindings' = [bindings EXCEPT ![r].state = "active"]
    <3>1. r \in Resource /\ Starts(w)
      BY <1>7, <2>1 DEF Activate, RequireBinding, MovesTo, Starts, TypeOK, Resource
    <3>2. BindingStep
      BY <2>1, <3>1 DEF RequireBinding, BindingUsable, BindingStep, Moved, Used, TypeOK, Binding
    <3>3. WorkerStep
      BY <2>1, <3>1 DEF MovesTo, WorkerStep, TypeOK
    <3> QED
      BY <1>1, <1>7, <3>2, <3>3, UnchangedParts DEF Activate, StepEffects
  <2>2. CASE Stays(w) /\ UNCHANGED bindings
    BY <1>1, <1>7, <2>2, UnchangedParts DEF Activate, StepEffects
  <2> QED
    BY <1>7, <2>1, <2>2 DEF Activate
<1>8. CASE Begin(w)
  <2>1. Starts(w)
    BY <1>8, KindsAssumption DEF Begin, RequireBinding, MovesTo, Starts, TypeOK, Resource
  <2>2. WorkerStep
    BY <1>8, <2>1 DEF Begin, MovesTo, WorkerStep, TypeOK
  <2> QED
    BY <1>1, <1>8, <2>2, UnchangedParts DEF Begin, StepEffects
<1>9. CASE Return(w)
  <2>1. r \in Resource
    BY <1>9, RunningFacts DEF Return
  <2>2. WorkerStep /\ ~Busy(r)'
    BY <1>9, LeavingIsQuiet DEF Return
  <2>3. BindingStep
    <3> SUFFICES ASSUME NEW x \in Resource, Moved(x) PROVE Used(x)
      BY DEF BindingStep
    <3>1. x = r
      BY <1>9 DEF Return, Moved, TypeOK
    <3> QED
      BY <1>9, <2>1, <2>2, <3>1
         DEF Return, RequireBinding, BindingUsable, Used, TypeOK, Binding
  <2> QED
    BY <1>1, <1>9, <2>2, <2>3, UnchangedParts DEF Return, StepEffects
<1>10. CASE Denied(w)
  <2>1. r \in Resource /\ ConfirmStopped(r, gen, FALSE)
    BY <1>10 DEF Denied, Resource
  <2>2. WorkerStep /\ ~Busy(r)'
    BY <1>10, LeavingIsQuiet DEF Denied
  <2>3. BindingStep
    BY <1>2, <2>1, <2>2, ConfirmStoppedStep
  <2> QED
    BY <1>1, <1>10, <2>2, <2>3, UnchangedParts DEF Denied, StepEffects
<1>11. CASE BodyFails(w)
  <2>1. r \in Resource /\ ConfirmStopped(r, gen, TRUE)
    BY <1>11 DEF BodyFails, Resource
  <2>2. WorkerStep /\ ~Busy(r)'
    BY <1>11, LeavingIsQuiet DEF BodyFails
  <2>3. BindingStep
    BY <1>2, <2>1, <2>2, ConfirmStoppedStep
  <2> QED
    BY <1>1, <1>11, <2>2, <2>3, UnchangedParts DEF BodyFails, StepEffects
<1>12. CASE StopFails(w)
  <2>1. r \in Resource /\ r \notin Locked /\ ConfirmStopped(r, gen, TRUE)
    BY <1>12, KindsAssumption DEF StopFails, Resource
  <2>2. BindingStep
    BY <1>2, <2>1, ConfirmStoppedStep
  <2>3. PausedStep
    BY <1>12, UnchangedParts DEF StopFails
  <2> QED
    BY <1>1, <1>12, <2>2, <2>3, UnchangedParts DEF StopFails, StepEffects
<1>13. CASE PauseDenied(w)
  <2>1. PICK published \in PublicationOutcomes, terminal \in BOOLEAN, stopped \in BOOLEAN :
            FinishPause(r, gen, pausedTasks, published, terminal, stopped)
    BY <1>13 DEF PauseDenied
  <2>2. WorkerStep /\ ~Busy(r)'
    BY <1>13, LeavingIsQuiet DEF PauseDenied
  <2>3. r \in Workspace /\ bindings[r].state # "absent" /\ published \in BOOLEAN
    BY <1>13, OutcomesAssumption DEF PauseDenied, Owned
  <2>4. BindingStep /\ PausedStep
    BY <1>2, <2>1, <2>2, <2>3, FinishPauseStep
  <2> QED
    BY <1>1, <2>2, <2>4 DEF StepEffects
<1>14. CASE Ejected(w) \/ Crash(w)
  BY <1>1, <1>14, UnchangedParts DEF Ejected, Crash, StepEffects
<1> QED
  BY <1>3, <1>4, <1>5, <1>6, <1>7, <1>8, <1>9, <1>10, <1>11, <1>12, <1>13, <1>14
     DEF Executing

LEMMA ManagingEffects ==
    ASSUME ExecutionInvariant, NEW m \in Manager, Managing(m)
    PROVE  StepEffects
<1> TypeOK /\ Exclusion /\ Owned /\ Snapshots
  BY DEF ExecutionInvariant
<1>1. AccountStep /\ WorkerStep
  BY UnchangedParts
     DEF Managing, Reconcile, ListHolds, TakeHold, ReconcileQuarantined, ReconcileParked,
         ReconcileLocked, ReconcileWorkspace, ReconcileBusy, ReconcileMoved, WriteHold,
         ManagerCrash, ManagerStart
<1>2. ASSUME UNCHANGED bindings, pausedTasks' \subseteq pausedTasks PROVE StepEffects
  BY <1>1, <1>2, UnchangedParts DEF StepEffects
<1>3. ASSUME NEW r \in Resource, ReconcileParked(m, r) PROVE StepEffects
  <2> DEFINE seen == rounds[m].seen[r]
  <2>1. /\ ConfirmStopped(r, seen.generation, FALSE)
        /\ seen.generation \in Generation /\ seen.state \in {"idle", "paused"}
        /\ r \in Locked /\ r \in rounds[m].todo
    <3>1. rounds[m] \in Round /\ seen \in Binding
      BY DEF TypeOK, Round
    <3> QED
      BY <1>3, <3>1 DEF ReconcileParked, Reconciling, Binding
  <2>2. bindings'[r] # bindings[r] => bindings[r].generation = seen.generation
    BY <2>1, ConfirmStoppedEffect
  <2>3. bindings'[r] # bindings[r] => bindings[r].state # "active"
    BY <2>1, <2>2 DEF Snapshots
  <2>4. bindings'[r] # bindings[r] => ~Busy(r)'
    BY <1>3, <2>1, <2>3, RunningFacts DEF ReconcileParked, Busy, RunsOn
  <2>5. BindingStep
    BY <2>1, <2>4, ConfirmStoppedStep
  <2> QED
    BY <1>1, <1>3, <2>5, UnchangedParts DEF ReconcileParked, StepEffects
<1>4. ASSUME NEW r \in Resource, NEW finished \in BOOLEAN, ReconcileLocked(m, r, finished)
      PROVE  StepEffects
  <2>1. rounds[m].seen[r].generation \in Generation
    BY DEF TypeOK, Round, Binding
  <2>2. ~Busy(r)'
    BY <1>4, FreeIsQuiet DEF ReconcileLocked, Busy, RunsOn
  <2>3. BindingStep
    BY <1>4, <2>1, <2>2, ConfirmStoppedStep, UnchangedParts DEF ReconcileLocked
  <2> QED
    BY <1>1, <1>4, <2>3, UnchangedParts DEF ReconcileLocked, StepEffects
<1>5. ASSUME NEW r \in Resource, NEW published \in PublicationOutcomes,
             NEW terminal \in BOOLEAN, NEW stopped \in BOOLEAN,
             ReconcileWorkspace(m, r, published, terminal, stopped)
      PROVE  StepEffects
  <2>1. /\ r \in Workspace /\ bindings[r].generation \in Generation
        /\ published \in BOOLEAN /\ bindings[r].state # "absent"
    BY <1>5, OutcomesAssumption
       DEF ReconcileWorkspace, Reconciling, TypeOK, Binding, Snapshots
  <2>2. ~Busy(r)'
    BY <1>5, FreeIsQuiet DEF ReconcileWorkspace, Busy, RunsOn
  <2>3. BindingStep /\ PausedStep
    BY <1>5, <2>1, <2>2, FinishPauseStep DEF ReconcileWorkspace
  <2> QED
    BY <1>1, <2>3 DEF StepEffects
<1> QED
  BY <1>2, <1>3, <1>4, <1>5
     DEF Managing, Reconcile, ListHolds, TakeHold, ReconcileQuarantined, ReconcileBusy,
         ReconcileMoved, WriteHold, ManagerCrash, ManagerStart

LEMMA NextEffects == ASSUME ExecutionInvariant, Next PROVE StepEffects
BY GovernanceEffects, ExecutingEffects, ManagingEffects DEF Next
-------------------------------------------------------------------------------
(* What a step does to the holds and to the rounds *)

HoldStep ==
    \A g \in Generation : holds'[g].status # "none" =>
        \/ holds'[g].status = holds[g].status
        \/ holds'[g].status = "pending" /\ g <= account'.generation
        \/ \E m \in Manager : WriteHold(m) /\ g = rounds[m].hold

Restarted(m) ==
    /\ rounds'[m].todo = {} /\ rounds'[m].phase # "reconciling" /\ rounds'[m].hold = 0
    /\ \A g \in rounds'[m].ops : g \in rounds[m].ops \/ holds[g].status # "none"
Taken(m) == \E g \in Generation, outcome \in SchedulerOutcomes : TakeHold(m, g, outcome)
Advanced(m) ==
    \E r \in Resource, stopped, unknown \in BOOLEAN :
        /\ Reconciling(m, r)
        /\ Found(m, r, stopped, unknown)
        /\ stopped => ~Busy(r)'

RoundStep ==
    \A m \in Manager : \/ rounds'[m] = rounds[m]
                       \/ Restarted(m) \/ Taken(m) \/ Advanced(m)

LEMMA NextHolds == ASSUME ExecutionInvariant, TypeOK', StepEffects, Next PROVE HoldStep
<1> TypeOK /\ Ordered /\ AccountStep
  BY DEF ExecutionInvariant, StepEffects
<1>0. UNCHANGED holds => HoldStep
  BY DEF HoldStep
<1>1. ASSUME NEW disabled \in BOOLEAN, NEW pending \in BOOLEAN,
             UpdateAccountStatus(disabled, pending)
      PROVE  HoldStep
  BY <1>1 DEF UpdateAccountStatus, HoldStep, TypeOK, Generation, Hold
<1>2. ASSUME NEW x \in Generation, RetryHold(x) PROVE HoldStep
  BY <1>2 DEF RetryHold, HoldStep, TypeOK, Ordered, Generation, Hold
<1>3. ASSUME NEW m \in Manager, WriteHold(m) PROVE HoldStep
  BY <1>3 DEF WriteHold, HoldStep, TypeOK
<1>4. CASE Governance
  BY <1>0, <1>1, <1>2, <1>4 DEF Governance, IssueGrant, CreateTask, PauseQueued,
     RegisterQuarantine, RegisterChatQuarantine, Resume
<1>5. ASSUME NEW w \in Worker, Executing(w) PROVE HoldStep
  BY <1>0, <1>5 DEF Executing, Capture, Bind, Launch, Enter, Activate, Begin, Return, Denied,
     BodyFails, StopFails, PauseDenied, Ejected, Crash
<1>6. ASSUME NEW m \in Manager, Managing(m) PROVE HoldStep
  BY <1>0, <1>3, <1>6 DEF Managing, Reconcile, ListHolds, TakeHold, ReconcileQuarantined,
     ReconcileParked, ReconcileLocked, ReconcileWorkspace, ReconcileBusy, ReconcileMoved,
     ManagerCrash, ManagerStart
<1> QED
  BY <1>4, <1>5, <1>6 DEF Next

LEMMA NextRounds == ASSUME ExecutionInvariant, Next PROVE RoundStep
<1> TypeOK /\ Owned /\ Snapshots
  BY DEF ExecutionInvariant
<1>0. UNCHANGED rounds => RoundStep
  BY DEF RoundStep
<1>1. CASE Governance
  BY <1>0, <1>1 DEF Governance, UpdateAccountStatus, IssueGrant, CreateTask, PauseQueued,
     RegisterQuarantine, RegisterChatQuarantine, RetryHold, Resume
<1>2. ASSUME NEW w \in Worker, Executing(w) PROVE RoundStep
  BY <1>0, <1>2 DEF Executing, Capture, Bind, Launch, Enter, Activate, Begin, Return, Denied,
     BodyFails, StopFails, PauseDenied, Ejected, Crash
<1>3. ASSUME NEW m \in Manager, Managing(m) PROVE RoundStep
  <2>1. \A x \in Manager \ {m} : rounds'[x] = rounds[x]
    BY <1>3 DEF Managing, Reconcile, ListHolds, TakeHold, ReconcileQuarantined,
       ReconcileParked, ReconcileLocked, ReconcileWorkspace, ReconcileBusy, ReconcileMoved,
       WriteHold, ManagerCrash, ManagerStart, Found, TypeOK
  <2>2. ASSUME ListHolds(m) \/ WriteHold(m) \/ ManagerCrash(m) \/ ManagerStart(m)
        PROVE  Restarted(m)
    <3>1. \A ops : LET round == [Sleeping EXCEPT !.phase = "listed", !.ops = ops] IN
             /\ round.todo = {} /\ round.phase = "listed" /\ round.hold = 0
             /\ round.ops = ops
      BY DEF Sleeping
    <3>2. CASE ListHolds(m)
      <4>1. rounds'[m] = [Sleeping EXCEPT !.phase = "listed",
                              !.ops = {g \in Generation : holds[g].status = "pending"}]
        BY <3>2 DEF ListHolds, TypeOK
      <4> QED
        BY <3>1, <4>1 DEF Restarted
    <3>3. CASE WriteHold(m)
      <4>1. rounds'[m] \in {Sleeping, [Sleeping EXCEPT !.phase = "listed", !.ops = rounds[m].ops]}
        BY <3>3 DEF WriteHold, TypeOK
      <4>2. CASE rounds'[m] = Sleeping
        BY <4>2 DEF Restarted, Sleeping
      <4> QED
        BY <3>1, <4>1, <4>2 DEF Restarted
    <3>4. CASE ManagerCrash(m) \/ ManagerStart(m)
      <4>1. rounds'[m] \in {Sleeping, [Sleeping EXCEPT !.phase = "down"]}
        BY <3>4 DEF ManagerCrash, ManagerStart, TypeOK
      <4> QED
        BY <4>1 DEF Restarted, Sleeping
    <3> QED
      BY <2>2, <3>2, <3>3, <3>4
  <2>3. ASSUME NEW r \in Resource, ReconcileQuarantined(m, r) \/ ReconcileBusy(m, r)
                                  \/ ReconcileMoved(m, r)
        PROVE  Advanced(m)
    <3>1. PICK unknown \in BOOLEAN : Reconciling(m, r) /\ Found(m, r, FALSE, unknown)
      BY <2>3 DEF ReconcileQuarantined, ReconcileBusy, ReconcileMoved
    <3> QED
      BY <3>1 DEF Advanced
  <2>4. ASSUME NEW r \in Resource, ReconcileParked(m, r) PROVE Advanced(m)
    <3>1. PICK stopped \in BOOLEAN :
             stopped = ConfirmAnswer(r, rounds[m].seen[r].generation, FALSE)
      BY DEF ConfirmAnswer
    <3>2. Reconciling(m, r) /\ Found(m, r, stopped, FALSE)
      BY <2>4, <3>1 DEF ReconcileParked
    <3>3. stopped => bindings[r].state # "active"
      BY <2>4, <3>1, <3>2 DEF ReconcileParked, Reconciling, ConfirmAnswer, Snapshots
    <3>4. stopped => ~Busy(r)'
      BY <2>4, <3>3 DEF ReconcileParked, Owned, Busy, RunsOn
    <3> QED
      BY <3>2, <3>4 DEF Advanced
  <2>5. ASSUME NEW r \in Resource, NEW finished \in BOOLEAN, ReconcileLocked(m, r, finished)
        PROVE  Advanced(m)
    <3>1. PICK answer \in BOOLEAN :
             answer = ConfirmAnswer(r, rounds[m].seen[r].generation, FALSE)
      BY DEF ConfirmAnswer
    <3>2. PICK stopped \in BOOLEAN, unknown \in BOOLEAN :
             Reconciling(m, r) /\ Found(m, r, stopped, unknown)
      BY <2>5, <3>1 DEF ReconcileLocked
    <3>3. ~Busy(r)'
      BY <2>5, FreeIsQuiet DEF ReconcileLocked, Busy, RunsOn
    <3> QED
      BY <3>2, <3>3 DEF Advanced
  <2>6. ASSUME NEW r \in Resource, NEW published \in PublicationOutcomes,
               NEW terminal \in BOOLEAN, NEW stopped \in BOOLEAN,
               ReconcileWorkspace(m, r, published, terminal, stopped)
        PROVE  Advanced(m)
    <3>1. PICK answer \in BOOLEAN : answer = (published /\ (terminal \/ stopped))
      BY OutcomesAssumption
    <3>2. Reconciling(m, r) /\ Found(m, r, answer, FALSE)
      BY <2>6, <3>1 DEF ReconcileWorkspace
    <3>3. ~Busy(r)'
      BY <2>6, FreeIsQuiet DEF ReconcileWorkspace, Busy, RunsOn
    <3> QED
      BY <3>2, <3>3 DEF Advanced
  <2> QED
    BY <1>3, <2>1, <2>2, <2>3, <2>4, <2>5, <2>6 DEF Managing, Reconcile, RoundStep, Taken
<1> QED
  BY <1>1, <1>2, <1>3 DEF Next
-------------------------------------------------------------------------------
(* The parts of the invariant *)

LEMMA InitHolds == Init => ExecutionInvariant
<1> SUFFICES ASSUME Init PROVE ExecutionInvariant
  OBVIOUS
<1>1. TypeOK
  BY TypeInit
<1>2. Exclusion /\ Owned /\ IdleIsCurrent /\ CompletedHoldIsQuiet /\ PausedTaskIsQuiet
  BY DEF Init, Exclusion, Owned, IdleIsCurrent, CompletedHoldIsQuiet, PausedTaskIsQuiet,
     NotRunning, NotBound
<1>3. Ordered /\ Snapshots /\ Swept
  BY BoundAssumption DEF Init, Ordered, Snapshots, Swept, Sleeping, Generation
<1> QED
  BY <1>1, <1>2, <1>3 DEF ExecutionInvariant

\* A resource becomes busy only under a binding of the present.
LEMMA BusyStep ==
    ASSUME TypeOK, WorkerStep, NEW r \in Resource, Busy(r)', ~Busy(r)
    PROVE  BindingUsable(r, bindings[r].generation)
<1>1. PICK w \in Worker : RunsOn(w, r)' /\ ~RunsOn(w, r)
  BY DEF Busy
<1>2. Starts(w)
  BY <1>1 DEF WorkerStep, RunsOn, Admitted, Locks, TypeOK, Execution
<1>3. workers[w].resource = r /\ BindingUsable(r, workers[w].generation)
  BY <1>1, <1>2 DEF Starts, RunsOn, TypeOK, Execution
<1> QED
  BY <1>3 DEF BindingUsable

\* What is older than the account was already there, as old, and gets no executor.
LEMMA OlderStays ==
    ASSUME TypeOK, StepEffects, NEW g \in Generation, g <= account.generation,
           NEW r \in Resource, bindings'[r].state # "absent", bindings'[r].generation < g
    PROVE  /\ bindings[r].state # "absent"
           /\ bindings[r].generation = bindings'[r].generation
           /\ ~BindingUsable(r, bindings[r].generation)
           /\ Busy(r)' => Busy(r)
           /\ bindings[r].state = "paused" => bindings'[r].state = "paused"
<1>1. bindings'[r].generation # account.generation
  BY DEF TypeOK, Generation
<1>2. CASE ~Moved(r)
  <2>1. ~BindingUsable(r, bindings[r].generation)
    BY <1>1, <1>2 DEF Moved, BindingUsable, Authorized
  <2> QED
    BY <1>2, <2>1, BusyStep DEF Moved, StepEffects
<1>3. CASE Moved(r)
  <2>1. Stopped(r)
    BY <1>1, <1>3 DEF StepEffects, BindingStep, Created, Used, Resumed, BindingUsable, Authorized
  <2>2. ~BindingUsable(r, bindings[r].generation)
    BY <1>1, <2>1 DEF Stopped, BindingUsable, Authorized
  <2> QED
    BY <2>1, <2>2, BusyStep DEF Stopped, StepEffects
<1> QED
  BY <1>2, <1>3

LEMMA KeepsExclusion == ASSUME TypeOK, Exclusion, WorkerStep PROVE Exclusion'
<1> SUFFICES ASSUME NEW v \in Worker, NEW w \in Worker, v # w,
                    workers'[v].pc \in {"entered", "running"},
                    workers'[w].pc \in {"entered", "running"},
                    workers'[v].resource = workers'[w].resource,
                    workers'[v] = workers[v]
             PROVE  FALSE
  BY DEF WorkerStep, Exclusion
<1>1. CASE workers'[w] = workers[w]
  BY <1>1 DEF Exclusion
<1>2. CASE Locks(w)
  BY <1>2 DEF Locks, LockFree, TypeOK, Execution
<1>3. CASE Starts(w)
  BY <1>3 DEF Starts, Exclusion, TypeOK, Execution
<1> QED
  BY <1>1, <1>2, <1>3 DEF WorkerStep, Admitted

LEMMA KeepsOwned == ASSUME TypeOK, Owned, StepEffects PROVE Owned'
<1> SUFFICES ASSUME NEW w \in Worker, workers'[w].pc # "out"
             PROVE  LET r == workers'[w].resource  b == bindings'[r] IN
                    /\ r \in Resource
                    /\ r \in Workspace => b.state # "absent"
                    /\ workers'[w].pc = "running" =>
                          /\ b.generation = workers'[w].generation /\ b.state # "absent"
                          /\ r \in Locked => b.state = "active"
  BY DEF Owned
<1> PICK r : r = workers'[w].resource
  OBVIOUS
<1>0. \A x \in Resource : bindings[x].state # "absent" => bindings'[x].state # "absent"
  BY DEF StepEffects, BindingStep, Moved, Created, Used, Stopped, Resumed
<1>1. WorkerStep /\ BindingStep
  BY DEF StepEffects
<1>2. r \in Resource /\ (r \in Workspace => bindings[r].state # "absent")
  <2>1. CASE workers'[w] = workers[w]
    BY <2>1 DEF Owned
  <2>2. CASE Admitted(w)
    BY <2>2 DEF Admitted
  <2>3. CASE Locks(w)
    BY <2>3 DEF Locks, Owned, TypeOK, Execution
  <2>4. CASE Starts(w)
    BY <2>4 DEF Starts, Owned, TypeOK, Execution
  <2> QED
    BY <1>1, <2>1, <2>2, <2>3, <2>4 DEF WorkerStep
<1>3. ASSUME workers'[w].pc = "running"
      PROVE  /\ bindings'[r].generation = workers'[w].generation
             /\ bindings'[r].state # "absent"
             /\ r \in Locked => bindings'[r].state = "active"
  <2>1. Busy(r)'
    BY <1>3 DEF Busy, RunsOn
  <2>2. CASE workers'[w] = workers[w]
    <3>1. /\ bindings[r].generation = workers'[w].generation /\ bindings[r].state # "absent"
          /\ r \in Locked => bindings[r].state = "active"
      BY <1>3, <2>2 DEF Owned
    <3>2. Busy(r)
      BY <1>3, <2>2 DEF Busy, RunsOn
    <3> QED
      BY <1>1, <1>2, <2>1, <3>1, <3>2
         DEF BindingStep, Moved, Created, Used, Stopped, Resumed
  <2>3. CASE Starts(w)
    <3>1. /\ BindingUsable(r, workers'[w].generation)
          /\ r \in Locked => bindings'[r].state = "active"
      BY <2>3 DEF Starts, TypeOK, Execution
    <3> QED
      BY <1>1, <1>2, <3>1
         DEF BindingStep, Moved, Created, Used, Stopped, Resumed, BindingUsable
  <2> QED
    BY <1>1, <1>3, <2>2, <2>3 DEF WorkerStep, Admitted, Locks, TypeOK, Execution
<1> QED
  BY <1>0, <1>2, <1>3

LEMMA KeepsPausedTasks ==
    ASSUME TypeOK, PausedTaskIsQuiet, StepEffects PROVE PausedTaskIsQuiet'
<1> SUFFICES ASSUME NEW r \in pausedTasks'
             PROVE  bindings'[r].state = "paused" /\ ~Busy(r)'
  BY DEF PausedTaskIsQuiet
<1>1. CASE r \notin pausedTasks
  BY <1>1 DEF StepEffects, PausedStep
<1>2. CASE r \in pausedTasks
  <2>1. r \in Resource /\ bindings[r].state = "paused" /\ ~Busy(r)
    BY <1>2 DEF TypeOK, Resource, PausedTaskIsQuiet
  <2>2. ~Moved(r)
    BY <2>1 DEF StepEffects, BindingStep, Created, Used, Stopped, Resumed, BindingUsable
  <2> QED
    BY <2>1, <2>2, BusyStep DEF Moved, BindingUsable, StepEffects
<1> QED
  BY <1>1, <1>2

LEMMA KeepsIdle == ASSUME TypeOK, IdleIsCurrent, StepEffects PROVE IdleIsCurrent'
<1> SUFFICES ASSUME NEW r \in Resource \ quarantined', bindings'[r].state = "idle"
             PROVE  bindings'[r].generation = account'.generation
  BY DEF IdleIsCurrent
<1>1. account'.generation = account.generation /\ r \notin quarantined
  BY DEF StepEffects, AccountStep
<1>2. bindings'[r].generation = account.generation
  BY <1>1 DEF StepEffects, BindingStep, Moved, Created, Used, Stopped, Resumed, BindingUsable,
     Authorized, IdleIsCurrent
<1> QED
  BY <1>1, <1>2

LEMMA KeepsOrdered ==
    ASSUME TypeOK, TypeOK', Ordered, StepEffects, HoldStep, RoundStep PROVE Ordered'
<1>1. /\ account.generation \in Nat /\ account'.generation \in Nat
      /\ account'.generation >= account.generation
  BY DEF StepEffects, AccountStep, TypeOK, Generation
<1>2. ASSUME NEW g \in Generation, holds'[g].status # "none" PROVE g <= account'.generation
  <2>1. CASE holds'[g].status = holds[g].status
    BY <1>1, <1>2, <2>1 DEF Ordered, Generation
  <2>2. ASSUME NEW m \in Manager, g = rounds[m].hold PROVE g <= account'.generation
    BY <1>1, <2>2 DEF Ordered, Generation
  <2> QED
    BY <1>2, <2>1, <2>2 DEF HoldStep
<1>3. ASSUME NEW m \in Manager
      PROVE  /\ \A g \in rounds'[m].ops : g <= account'.generation
             /\ rounds'[m].hold <= account'.generation
  <2>1. /\ \A g \in rounds[m].ops : g <= account'.generation
        /\ rounds[m].hold <= account'.generation
    BY <1>1 DEF Ordered, TypeOK, Round, Generation
  <2>2. CASE rounds'[m] = rounds[m]
    BY <2>1, <2>2
  <2>3. CASE Restarted(m)
    <3>1. \A g \in rounds'[m].ops : g \in Generation
      BY DEF TypeOK, Round
    <3> QED
      BY <1>1, <2>1, <2>3, <3>1 DEF Restarted, Ordered, Generation
  <2>4. CASE Taken(m)
    <3>1. rounds'[m].ops \subseteq rounds[m].ops /\ rounds'[m].hold \in rounds[m].ops
      BY <2>4 DEF Taken, TakeHold, TypeOK
    <3> QED
      BY <2>1, <3>1
  <2>5. CASE Advanced(m)
    <3>1. rounds'[m].ops = rounds[m].ops /\ rounds'[m].hold = rounds[m].hold
      BY <2>5 DEF Advanced, Found, TypeOK, Round
    <3> QED
      BY <2>1, <3>1
  <2> QED
    BY <2>2, <2>3, <2>4, <2>5 DEF RoundStep
<1> QED
  BY <1>2, <1>3 DEF Ordered

LEMMA KeepsSnapshots ==
    ASSUME TypeOK, TypeOK', Ordered, Snapshots, StepEffects, RoundStep PROVE Snapshots'
<1>1. /\ account.generation \in Nat /\ account'.generation \in Nat
      /\ account'.generation >= account.generation
  BY DEF StepEffects, AccountStep, TypeOK, Generation
<1> SUFFICES ASSUME NEW m \in Manager, NEW r \in rounds'[m].todo
             PROVE  LET seen == rounds'[m].seen[r] IN
                    /\ rounds'[m].phase = "reconciling"
                    /\ seen.generation < account'.generation
                    /\ bindings'[r].state # "absent"
                    /\ /\ seen.state \in {"idle", "paused"}
                       /\ bindings'[r].generation = seen.generation
                       => bindings'[r].state # "active"
  BY DEF Snapshots
<1> PICK seen : seen = rounds'[m].seen[r]
  OBVIOUS
<1>2. r \in Resource /\ seen \in Binding /\ seen.generation \in Nat
  BY DEF TypeOK, Round, Binding, Generation
<1>3. ASSUME r \in rounds[m].todo, rounds[m].seen[r] = seen,
             rounds'[m].phase = rounds[m].phase
      PROVE  /\ rounds'[m].phase = "reconciling"
             /\ seen.generation < account'.generation
             /\ bindings'[r].state # "absent"
             /\ /\ seen.state \in {"idle", "paused"}
                /\ bindings'[r].generation = seen.generation
                => bindings'[r].state # "active"
  <2>1. /\ rounds[m].phase = "reconciling"
        /\ seen.generation < account.generation
        /\ bindings[r].state # "absent"
        /\ /\ seen.state \in {"idle", "paused"}
           /\ bindings[r].generation = seen.generation
           => bindings[r].state # "active"
    BY <1>3 DEF Snapshots
  <2>2. seen.generation < account'.generation
    BY <1>1, <1>2, <2>1
  <2>3. seen.generation # account.generation
    BY <1>1, <1>2, <2>1
  <2>4. CASE ~Moved(r)
    BY <1>3, <2>1, <2>2, <2>4 DEF Moved
  <2>5. CASE Moved(r)
    BY <1>2, <1>3, <2>1, <2>2, <2>3, <2>5
       DEF StepEffects, BindingStep, Created, Used, Stopped, Resumed, BindingUsable, Authorized
  <2> QED
    BY <2>4, <2>5
<1>4. CASE rounds'[m] = rounds[m]
  BY <1>3, <1>4
<1>5. CASE Restarted(m)
  BY <1>5 DEF Restarted
<1>6. ASSUME NEW g \in Generation, NEW outcome \in SchedulerOutcomes, TakeHold(m, g, outcome)
      PROVE  /\ rounds'[m].phase = "reconciling"
             /\ seen.generation < account'.generation
             /\ bindings'[r].state # "absent"
             /\ /\ seen.state \in {"idle", "paused"}
                /\ bindings'[r].generation = seen.generation
                => bindings'[r].state # "active"
  <2>1. /\ rounds'[m].phase = "reconciling" /\ g \in rounds[m].ops
        /\ bindings[r].state # "absent" /\ bindings[r].generation < g
        /\ seen = bindings[r] /\ UNCHANGED <<account, bindings>>
    BY <1>2, <1>6 DEF TakeHold, TypeOK
  <2>2. g <= account.generation /\ g \in Nat
    BY <2>1 DEF Ordered, Generation
  <2>3. seen.generation < account'.generation
    BY <1>1, <1>2, <2>1, <2>2
  <2> QED
    BY <2>1, <2>3
<1>7. CASE Advanced(m)
  BY <1>3, <1>7 DEF Advanced, Found, TypeOK, Round
<1> QED
  BY <1>4, <1>5, <1>6, <1>7 DEF RoundStep, Taken

LEMMA KeepsSwept ==
    ASSUME TypeOK, TypeOK', Ordered, Swept, StepEffects, RoundStep PROVE Swept'
<1> SUFFICES ASSUME NEW m \in Manager,
                    rounds'[m].phase = "reconciling", rounds'[m].complete,
                    NEW r \in Resource \ (quarantined' \union rounds'[m].todo),
                    bindings'[r].state # "absent",
                    bindings'[r].generation < rounds'[m].hold
             PROVE  ~Busy(r)'
  BY DEF Swept
<1>1. r \notin quarantined
  BY DEF StepEffects, AccountStep
<1>2. ASSUME rounds[m].phase = "reconciling", rounds[m].complete, r \notin rounds[m].todo,
             rounds'[m].hold = rounds[m].hold
      PROVE  ~Busy(r)'
  <2>1. rounds[m].hold \in Generation /\ rounds[m].hold <= account.generation
    BY DEF TypeOK, Round, Ordered
  <2>2. /\ bindings[r].state # "absent" /\ bindings[r].generation < rounds[m].hold
        /\ Busy(r)' => Busy(r)
    BY <1>2, <2>1, OlderStays
  <2>3. ~Busy(r)
    BY <1>1, <1>2, <2>2 DEF Swept
  <2> QED
    BY <2>2, <2>3
<1>3. CASE rounds'[m] = rounds[m]
  BY <1>2, <1>3
<1>4. ASSUME NEW g \in Generation, NEW outcome \in SchedulerOutcomes, TakeHold(m, g, outcome)
      PROVE  FALSE
  <2>1. /\ rounds'[m].complete = (outcome = "stopped") /\ rounds'[m].hold = g
        /\ UNCHANGED <<bindings, quarantined>>
    BY <1>4 DEF TakeHold, TypeOK
  <2>2. outcome = "stopped" => r \in rounds'[m].todo
    BY <1>1, <1>4, <2>1 DEF TakeHold, TypeOK
  <2> QED
    BY <2>1, <2>2
<1>5. ASSUME NEW x \in Resource, NEW stopped \in BOOLEAN, NEW unknown \in BOOLEAN,
             Reconciling(m, x), Found(m, x, stopped, unknown), stopped => ~Busy(x)'
      PROVE  ~Busy(r)'
  <2>0. rounds \in [Manager -> Round]
    BY DEF TypeOK
  <2>1. /\ rounds'[m].complete = (rounds[m].complete /\ stopped)
        /\ rounds'[m].todo = rounds[m].todo \ {x} /\ rounds'[m].hold = rounds[m].hold
    BY ONLY <1>5, <2>0 DEF Found, Round
  <2>2. rounds[m].complete /\ stopped
    BY <2>1
  <2> QED
    BY <1>2, <1>5, <2>1, <2>2 DEF Reconciling
<1> QED
  BY <1>3, <1>4, <1>5 DEF RoundStep, Restarted, Taken, Advanced

LEMMA KeepsCompleted ==
    ASSUME ExecutionInvariant, StepEffects, HoldStep PROVE CompletedHoldIsQuiet'
<1> TypeOK /\ Ordered /\ IdleIsCurrent /\ Swept /\ CompletedHoldIsQuiet
  BY DEF ExecutionInvariant
<1> SUFFICES ASSUME NEW g \in Generation, holds'[g].status = "completed",
                    NEW r \in Resource \ quarantined',
                    bindings'[r].generation < g, bindings'[r].state # "absent"
             PROVE  bindings'[r].state = "paused" /\ ~Busy(r)'
  BY DEF CompletedHoldIsQuiet
<1>1. r \notin quarantined
  BY DEF StepEffects, AccountStep
<1>2. CASE holds[g].status = "completed"
  <2>1. g <= account.generation
    BY <1>2 DEF Ordered
  <2>2. /\ bindings[r].state # "absent" /\ bindings[r].generation < g
        /\ Busy(r)' => Busy(r)
        /\ bindings[r].state = "paused" => bindings'[r].state = "paused"
    BY <2>1, OlderStays
  <2> QED
    BY <1>1, <1>2, <2>2 DEF CompletedHoldIsQuiet
<1>3. ASSUME NEW m \in Manager, WriteHold(m), g = rounds[m].hold
      PROVE  bindings'[r].state = "paused" /\ ~Busy(r)'
  <2>1. /\ UNCHANGED <<bindings, workers>> /\ rounds[m].todo = {}
        /\ rounds[m].phase = "reconciling"
        /\ RefreshedHold(g, rounds[m].complete /\ ~rounds[m].error, rounds[m].error).status
              = "completed"
    BY <1>3 DEF WriteHold, TypeOK
  <2>2. rounds[m].complete /\ ~OlderIn(g, "cleanup_failed") /\ ~OlderIn(g, "active")
    BY <2>1 DEF RefreshedHold
  <2>3. bindings[r] \in Binding /\ bindings[r].state # "absent" /\ bindings[r].generation < g
    BY <2>1 DEF TypeOK
  <2>4. bindings[r].state \notin {"cleanup_failed", "active"}
    BY <1>1, <2>2, <2>3 DEF OlderIn
  <2>5. bindings[r].generation # account.generation
    BY <1>3, <2>3 DEF Ordered, TypeOK, Binding, Generation
  <2>6. bindings[r].state = "paused"
    BY <1>1, <2>3, <2>4, <2>5 DEF IdleIsCurrent, Binding, BindingState
  <2>7. ~Busy(r)
    BY <1>1, <1>3, <2>1, <2>2, <2>3 DEF Swept
  <2> QED
    BY <2>1, <2>6, <2>7 DEF Busy, RunsOn
<1> QED
  BY <1>2, <1>3 DEF HoldStep
-------------------------------------------------------------------------------
LEMMA HoldsStutter == ASSUME ExecutionInvariant, UNCHANGED vars PROVE ExecutionInvariant'
BY DEF vars, ExecutionInvariant, TypeOK, Exclusion, Owned, Ordered, Snapshots, IdleIsCurrent,
   Swept, PausedTaskIsQuiet, CompletedHoldIsQuiet, Busy, RunsOn

LEMMA HoldsStep == ASSUME ExecutionInvariant, Next PROVE ExecutionInvariant'
<1> TypeOK /\ Exclusion /\ Owned /\ Ordered /\ Snapshots /\ IdleIsCurrent /\ Swept
    /\ PausedTaskIsQuiet
  BY DEF ExecutionInvariant
<1>1. TypeOK'
  BY TypeNext
<1>2. StepEffects
  BY NextEffects
<1>3. HoldStep /\ RoundStep
  BY <1>1, <1>2, NextHolds, NextRounds
<1>4. Exclusion' /\ Owned'
  BY <1>2, KeepsExclusion, KeepsOwned DEF StepEffects
<1>5. Ordered' /\ Snapshots' /\ Swept'
  BY <1>1, <1>2, <1>3, KeepsOrdered, KeepsSnapshots, KeepsSwept
<1>6. IdleIsCurrent' /\ PausedTaskIsQuiet' /\ CompletedHoldIsQuiet'
  BY <1>2, <1>3, KeepsIdle, KeepsPausedTasks, KeepsCompleted
<1> QED
  BY <1>1, <1>4, <1>5, <1>6 DEF ExecutionInvariant

\* Every reachable state satisfies the strengthened invariant: the lock excludes,
\* a runner owns its binding, snapshots are old, and completed holds are quiet.
\* Code: running_execution, _run_admitted_once, confirm_execution_stopped.
THEOREM HoldsAreSound == Spec => []ExecutionInvariant
<1>1. ExecutionInvariant /\ [Next]_vars => ExecutionInvariant'
  BY HoldsStep, HoldsStutter
<1> QED
  BY <1>1, InitHolds, PTL DEF Spec

\* No resume, no second executor and no late stop confirmation takes a binding
\* away from the executor that runs under it, for any number of resources,
\* executors, managers and holds.
\* Code: running_execution, confirm_execution_stopped, resume_execution.
THEOREM RunnersKeepTheirBinding == Spec => []RunnerOwnsBinding
<1>1. ExecutionInvariant => RunnerOwnsBinding
  <2> SUFFICES ASSUME ExecutionInvariant, NEW w \in Worker, workers[w].pc = "running"
               PROVE  LET b == bindings[workers[w].resource] IN
                      /\ b.generation = workers[w].generation
                      /\ workers[w].resource \in Locked => b.state = "active"
                      /\ \A v \in Worker \ {w} : ~RunsOn(v, workers[w].resource)
    BY DEF RunnerOwnsBinding
  <2> TypeOK /\ Exclusion /\ Owned
    BY DEF ExecutionInvariant
  <2> QED
    BY RunningFacts DEF Owned
<1> QED
  BY <1>1, HoldsAreSound, PTL

\* A stop proof of a locked resource is never a lie, whoever wrote it.
\* Code: update_account_status, _reconcile_binding, running_execution.
THEOREM StopProofsOfLockedResources == Spec => []PausedIsQuiet
<1>1. ExecutionInvariant => PausedIsQuiet
  BY DEF ExecutionInvariant, Owned, PausedIsQuiet, Busy, RunsOn
<1> QED
  BY <1>1, HoldsAreSound, PTL

\* A task shown as paused has its stop proof and no executor.
\* Code: _finish_account_pause, resume_account_workspace_execution.
THEOREM PausedTasksAreQuiet == Spec => []PausedTaskIsQuiet
<1>1. ExecutionInvariant => PausedTaskIsQuiet
  BY DEF ExecutionInvariant
<1> QED
  BY <1>1, HoldsAreSound, PTL

\* A completed hold means that everything older than it is over, for ever.
\* Code: _run_admitted_once, refresh_hold_operation.
THEOREM CompletedHoldsAreQuiet == Spec => []CompletedHoldIsQuiet
<1>1. ExecutionInvariant => CompletedHoldIsQuiet
  BY DEF ExecutionInvariant
<1> QED
  BY <1>1, HoldsAreSound, PTL

\* Only an explicit resume, from a true stop proof and under a live account,
\* moves a binding to another generation.
\* Code: resume_execution and its two callers.
THEOREM ResumesStartFromProof == Spec => ResumedFromProof
<1>1. ASSUME ExecutionInvariant, Next, NEW r \in Resource, bindings[r].state # "absent",
             bindings'[r].generation # bindings[r].generation
      PROVE  /\ bindings[r].state = "paused" /\ ~Busy(r)
             /\ r \in Workspace => r \in pausedTasks
             /\ ~Held /\ bindings'[r] = [generation |-> account.generation, state |-> "idle"]
  <2>1. BindingStep
    BY <1>1, NextEffects DEF StepEffects
  <2> QED
    BY <1>1, <2>1 DEF BindingStep, Moved, Created, Used, Stopped, Resumed
<1>2. ExecutionInvariant /\ [Next]_vars =>
        [\A r \in Resource :
          bindings[r].state # "absent" /\ bindings'[r].generation # bindings[r].generation =>
            /\ bindings[r].state = "paused" /\ ~Busy(r)
            /\ r \in Workspace => r \in pausedTasks
            /\ ~Held /\ bindings'[r] = [generation |-> account.generation, state |-> "idle"]]_vars
  BY <1>1
<1> QED
  BY <1>2, HoldsAreSound, PTL DEF Spec, ResumedFromProof
-------------------------------------------------------------------------------
(* Late stops *)

\* What a step may do to a binding that is usable now and not in quarantine.
Harmless(r) ==
    BindingUsable(r, bindings[r].generation) /\ bindings'[r].state \in {"paused", "cleanup_failed"}
        => \/ account' # account
           \/ \E w \in Worker : RunsOn(w, r) /\ workers[w].generation = account.generation

\* A stop that names a generation does not reach a binding usable in another one.
LEMMA ConfirmHarmless ==
    ASSUME TypeOK, NEW x \in Resource, NEW gen \in Generation, NEW failed \in BOOLEAN,
           ~BindingUsable(x, gen), ConfirmStopped(x, gen, failed), NEW r \in Resource
    PROVE  Harmless(r)
<1>1. CASE bindings'[r] = bindings[r]
  BY <1>1 DEF Harmless, BindingUsable
<1>2. CASE bindings'[r] # bindings[r]
  <2>1. r = x /\ bindings[r].generation = gen
    BY <1>2, ConfirmStoppedEffect
  <2> QED
    BY <2>1 DEF Harmless
<1> QED
  BY <1>1, <1>2

LEMMA PauseHarmless ==
    ASSUME TypeOK, NEW x \in Workspace, NEW gen \in Generation, NEW shown, NEW published \in BOOLEAN,
           NEW terminal \in BOOLEAN, NEW stopped \in BOOLEAN, ~BindingUsable(x, gen),
           FinishPause(x, gen, shown, published, terminal, stopped), NEW r \in Resource
    PROVE  Harmless(r)
<1>1. CASE UNCHANGED bindings
  BY <1>1 DEF Harmless, BindingUsable
<1>2. CASE ConfirmStopped(x, gen, ~terminal /\ ~stopped)
  <2>1. x \in Resource /\ (~terminal /\ ~stopped) \in BOOLEAN
    BY DEF Resource
  <2> QED
    BY <1>2, <2>1, ConfirmHarmless
<1> QED
  BY <1>1, <1>2 DEF FinishPause

LEMMA GovernanceHarmless ==
    ASSUME TypeOK, Governance, NEW r \in Resource PROVE Harmless(r)
<1>1. CASE UNCHANGED bindings
  BY <1>1 DEF Harmless, BindingUsable
<1>2. ASSUME NEW disabled \in BOOLEAN, NEW pending \in BOOLEAN,
             UpdateAccountStatus(disabled, pending)
      PROVE  Harmless(r)
  <2>1. CASE ~Held /\ (disabled \/ pending)
    BY <1>2, <2>1 DEF UpdateAccountStatus, Harmless, TypeOK, Generation
  <2>2. CASE ~(~Held /\ (disabled \/ pending))
    BY <1>2, <2>2 DEF UpdateAccountStatus, Harmless, BindingUsable
  <2> QED
    BY <2>1, <2>2
<1>3. ASSUME NEW x \in Workspace, CreateTask(x) PROVE Harmless(r)
  BY <1>3 DEF CreateTask, NewBinding, Harmless, BindingUsable, TypeOK, Resource
<1>4. ASSUME NEW x \in Workspace, NEW published \in PublicationOutcomes,
             NEW terminal \in BOOLEAN, NEW stopped \in BOOLEAN,
             PauseQueued(x, published, terminal, stopped)
      PROVE  Harmless(r)
  <2>1. bindings[x].generation \in Generation /\ published \in BOOLEAN
    BY OutcomesAssumption DEF TypeOK, Binding, Resource
  <2> QED
    BY <1>4, <2>1, PauseHarmless DEF PauseQueued
<1>5. ASSUME NEW x \in Workspace, NEW harness \in {{}} \union {{h} : h \in Locked},
             Resume(x, harness)
      PROVE  Harmless(r)
  BY <1>5 DEF Resume, Harmless, BindingUsable
<1> QED
  BY <1>1, <1>2, <1>3, <1>4, <1>5 DEF Governance, IssueGrant, RegisterQuarantine,
     RegisterChatQuarantine, RetryHold

LEMMA ExecutingHarmless ==
    ASSUME TypeOK, NEW w \in Worker, Executing(w), NEW r \in Resource PROVE Harmless(r)
<1> DEFINE x == workers[w].resource
           gen == workers[w].generation
<1>0. gen \in Generation /\ (x \in Locked \/ x \in Workspace => x \in Resource)
  BY DEF TypeOK, Execution, Resource
<1>1. CASE UNCHANGED bindings
  BY <1>1 DEF Harmless, BindingUsable
<1>2. CASE \E state \in {"active", "idle"} : Bind(w, state)
  BY <1>0, <1>2 DEF Bind, NewBinding, Harmless, BindingUsable, TypeOK
<1>3. CASE \E state \in {"active", "idle"} : bindings' = [bindings EXCEPT ![x].state = state]
  BY <1>3 DEF Harmless, BindingUsable, TypeOK, Binding
<1>4. CASE Denied(w) \/ StopFails(w)
  <2>1. x \in Resource /\ ~BindingUsable(x, gen)
        /\ \E failed \in BOOLEAN : ConfirmStopped(x, gen, failed)
    BY <1>0, <1>4 DEF Denied, StopFails
  <2> QED
    BY <1>0, <2>1, ConfirmHarmless
<1>5. CASE BodyFails(w)
  <2>1. x \in Resource /\ RunsOn(w, x) /\ ConfirmStopped(x, gen, TRUE)
    BY <1>0, <1>5 DEF BodyFails, RunsOn
  <2>2. CASE BindingUsable(x, gen)
    <3>1. gen = account.generation
      BY <2>2 DEF BindingUsable, Authorized
    <3>2. \A y \in Resource \ {x} : bindings'[y] = bindings[y]
      BY <1>0, <2>1, ConfirmStoppedEffect
    <3> QED
      BY <2>1, <3>1, <3>2 DEF Harmless, BindingUsable
  <2>3. CASE ~BindingUsable(x, gen)
    BY <1>0, <2>1, <2>3, ConfirmHarmless
  <2> QED
    BY <2>2, <2>3
<1>6. CASE PauseDenied(w)
  <2>1. PICK published \in PublicationOutcomes, terminal \in BOOLEAN, stopped \in BOOLEAN :
            FinishPause(x, gen, pausedTasks, published, terminal, stopped)
    BY <1>6 DEF PauseDenied
  <2>2. x \in Workspace /\ ~BindingUsable(x, gen) /\ published \in BOOLEAN
    BY <1>6, OutcomesAssumption DEF PauseDenied
  <2> QED
    BY <1>0, <2>1, <2>2, PauseHarmless
<1>7. CASE Activate(w) \/ Return(w)
  BY <1>1, <1>3, <1>7 DEF Activate, Return
<1> QED
  BY <1>1, <1>2, <1>4, <1>5, <1>6, <1>7
     DEF Executing, Capture, Launch, Enter, Begin, Ejected, Crash

LEMMA ManagingHarmless ==
    ASSUME TypeOK, Snapshots, NEW m \in Manager, Managing(m), NEW r \in Resource \ quarantined
    PROVE  Harmless(r)
<1>1. CASE UNCHANGED bindings
  BY <1>1 DEF Harmless, BindingUsable
<1>2. ASSUME NEW x \in Resource, Reconciling(m, x),
             ConfirmStopped(x, rounds[m].seen[x].generation, FALSE)
      PROVE  Harmless(r)
  <2>1. /\ rounds[m].seen[x].generation \in Generation /\ account.generation \in Nat
        /\ rounds[m].seen[x].generation < account.generation
    BY <1>2 DEF Reconciling, Snapshots, TypeOK, Round, Binding, Generation
  <2>2. ~BindingUsable(x, rounds[m].seen[x].generation)
    BY <2>1 DEF BindingUsable, Authorized, Generation
  <2> QED
    BY <1>2, <2>1, <2>2, ConfirmHarmless
<1>3. ASSUME NEW x \in Resource, NEW published \in PublicationOutcomes,
             NEW terminal \in BOOLEAN, NEW stopped \in BOOLEAN,
             ReconcileWorkspace(m, x, published, terminal, stopped)
      PROVE  Harmless(r)
  <2>1. /\ x \in Workspace /\ bindings[x].generation \in Generation /\ published \in BOOLEAN
        /\ ~BindingUsable(x, bindings[x].generation)
    BY <1>3, OutcomesAssumption DEF ReconcileWorkspace, RequireBinding, TypeOK, Binding
  <2> QED
    BY <1>3, <2>1, PauseHarmless DEF ReconcileWorkspace
<1> QED
  BY <1>1, <1>2, <1>3
     DEF Managing, Reconcile, ListHolds, TakeHold, ReconcileQuarantined, ReconcileParked,
         ReconcileLocked, ReconcileBusy, ReconcileMoved, WriteHold, ManagerCrash, ManagerStart

\* A late stop or a late failure, of a hold round, an executor or a pause, never
\* reaches a binding that is usable now unless its own executor reports it.
\* Code: the generation test of confirm_execution_stopped.
THEOREM LateStopsAreHarmless == Spec => LateStopIsHarmless
<1>1. ASSUME ExecutionInvariant, Next, NEW r \in Resource \ quarantined PROVE Harmless(r)
  BY <1>1, GovernanceHarmless, ExecutingHarmless, ManagingHarmless DEF ExecutionInvariant, Next
<1>2. ExecutionInvariant /\ [Next]_vars =>
        [\A r \in Resource \ quarantined :
          /\ BindingUsable(r, bindings[r].generation)
          /\ bindings'[r].state \in {"paused", "cleanup_failed"}
          => \/ account' # account
             \/ \E w \in Worker : RunsOn(w, r) /\ workers[w].generation = account.generation]_vars
  BY <1>1 DEF Harmless
<1> QED
  BY <1>2, HoldsAreSound, PTL DEF Spec, LateStopIsHarmless
-------------------------------------------------------------------------------
(* One manager *)

\* What a round has listed is still pending, and it lists no hold twice.
StillPending ==
    \A m \in Manager :
        /\ \A g \in rounds[m].ops : holds[g].status = "pending"
        /\ rounds[m].phase = "reconciling" =>
               rounds[m].hold \notin rounds[m].ops /\ holds[rounds[m].hold].status = "pending"

LEMMA InitPending == Init => StillPending
BY DEF Init, StillPending, Sleeping

\* Only the end of a round takes a hold out of its pending status.
LEMMA PendingStep ==
    ASSUME ExecutionInvariant, Next, NEW g \in Generation, holds[g].status = "pending"
    PROVE  \/ holds'[g].status = "pending"
           \/ \E m \in Manager : WriteHold(m) /\ rounds[m].hold = g
<1> TypeOK
  BY DEF ExecutionInvariant
<1>2. CASE UNCHANGED holds
  BY <1>2
<1>3. ASSUME NEW disabled \in BOOLEAN, NEW pending \in BOOLEAN,
             UpdateAccountStatus(disabled, pending)
      PROVE  holds'[g].status = "pending"
  BY <1>3 DEF UpdateAccountStatus, TypeOK
<1>4. ASSUME NEW h \in Generation, RetryHold(h) PROVE holds'[g].status = "pending"
  BY <1>4 DEF RetryHold, TypeOK
<1>5. ASSUME NEW m \in Manager, WriteHold(m), rounds[m].hold # g
      PROVE  holds'[g].status = "pending"
  BY <1>5 DEF WriteHold, TypeOK
<1>6. CASE Governance
  BY <1>2, <1>3, <1>4, <1>6
     DEF Governance, IssueGrant, CreateTask, PauseQueued, RegisterQuarantine,
     RegisterChatQuarantine, Resume
<1>7. ASSUME NEW w \in Worker, Executing(w) PROVE UNCHANGED holds
  BY <1>7 DEF Executing, Capture, Bind, Launch, Enter, Activate, Begin, Return, Denied,
     BodyFails, StopFails, PauseDenied, Ejected, Crash
<1>8. ASSUME NEW m \in Manager, Managing(m) PROVE UNCHANGED holds \/ WriteHold(m)
  BY <1>8 DEF Managing, Reconcile, ListHolds, TakeHold, ReconcileQuarantined, ReconcileParked,
     ReconcileLocked, ReconcileWorkspace, ReconcileBusy, ReconcileMoved, ManagerCrash, ManagerStart
<1> QED
  BY <1>2, <1>5, <1>6, <1>7, <1>8 DEF Next

LEMMA UnchangedRounds ==
    ASSUME Governance \/ \E w \in Worker : Executing(w) PROVE UNCHANGED rounds
BY DEF Governance, UpdateAccountStatus, IssueGrant, CreateTask, PauseQueued,
   RegisterQuarantine, RegisterChatQuarantine,
   RetryHold, Resume, Executing, Capture, Bind, Launch, Enter, Activate, Begin, Return, Denied,
   BodyFails, StopFails, PauseDenied, Ejected, Crash

LEMMA KeepsPending ==
    ASSUME ExecutionInvariant, StillPending, Next, \A m, n \in Manager : m = n
    PROVE  StillPending'
<1> TypeOK /\ TypeOK'
  BY TypeNext DEF ExecutionInvariant
<1> SUFFICES ASSUME NEW m \in Manager
             PROVE  /\ \A g \in rounds'[m].ops : holds'[g].status = "pending"
                    /\ rounds'[m].phase = "reconciling" =>
                         /\ rounds'[m].hold \notin rounds'[m].ops
                         /\ holds'[rounds'[m].hold].status = "pending"
  BY DEF StillPending
<1>1. rounds[m] \in Round /\ rounds'[m] \in Round
  BY DEF TypeOK
<1>2. CASE WriteHold(m)
  <2>1. /\ rounds'[m].phase # "reconciling" /\ rounds'[m].ops \subseteq rounds[m].ops
        /\ rounds[m].phase = "reconciling"
    <3>1. rounds'[m] \in {Sleeping, [Sleeping EXCEPT !.phase = "listed", !.ops = rounds[m].ops]}
      BY <1>2 DEF WriteHold, TypeOK
    <3>2. \A ops : LET round == [Sleeping EXCEPT !.phase = "listed", !.ops = ops] IN
             round.phase = "listed" /\ round.ops = ops
      BY DEF Sleeping
    <3>3. Sleeping.phase = "sleeping" /\ Sleeping.ops = {}
      BY DEF Sleeping
    <3> QED
      BY <1>2, <3>1, <3>2, <3>3 DEF WriteHold
  <2>2. \A g \in rounds[m].ops : holds'[g] = holds[g]
    BY <1>1, <1>2, <2>1 DEF WriteHold, StillPending, TypeOK, Round
  <2> QED
    BY <2>1, <2>2 DEF StillPending
<1>3. CASE ~WriteHold(m)
  <2>1. \A g \in Generation : holds[g].status = "pending" => holds'[g].status = "pending"
    BY <1>3, PendingStep
  <2>2. rounds[m].ops \subseteq Generation /\ rounds[m].hold \in Generation
    BY <1>1 DEF Round
  <2>3. CASE rounds'[m] = rounds[m]
    BY <2>1, <2>2, <2>3 DEF StillPending
  <2>4. CASE Taken(m)
    <3>1. /\ rounds'[m].hold \in rounds[m].ops /\ rounds'[m].ops = rounds[m].ops \ {rounds'[m].hold}
      BY <2>4 DEF Taken, TakeHold, TypeOK
    <3> QED
      BY <2>1, <2>2, <3>1 DEF StillPending
  <2>5. ASSUME NEW r, NEW stopped, NEW unknown, Found(m, r, stopped, unknown)
        PROVE  /\ \A g \in rounds'[m].ops : holds'[g].status = "pending"
               /\ rounds'[m].phase = "reconciling" =>
                    /\ rounds'[m].hold \notin rounds'[m].ops
                    /\ holds'[rounds'[m].hold].status = "pending"
    <3>1. /\ rounds'[m].hold = rounds[m].hold /\ rounds'[m].ops = rounds[m].ops
          /\ rounds'[m].phase = rounds[m].phase
      BY <1>1, <2>5 DEF Found, TypeOK, Round
    <3> QED
      BY <2>1, <2>2, <3>1 DEF StillPending
  <2>6. CASE ListHolds(m)
    <3>1. rounds'[m] = [Sleeping EXCEPT !.phase = "listed",
                            !.ops = {g \in Generation : holds[g].status = "pending"}]
      BY <2>6 DEF ListHolds, TypeOK
    <3>2. /\ rounds'[m].phase = "listed"
          /\ rounds'[m].ops = {g \in Generation : holds[g].status = "pending"}
      BY <3>1 DEF Sleeping
    <3> QED
      BY <2>1, <3>2
  <2>7. CASE ManagerCrash(m) \/ ManagerStart(m)
    <3>1. rounds'[m] \in {Sleeping, [Sleeping EXCEPT !.phase = "down"]}
      BY <2>7 DEF ManagerCrash, ManagerStart, TypeOK
    <3> QED
      BY <3>1 DEF Sleeping
  <2>8. CASE Governance \/ \E w \in Worker : Executing(w)
    BY <2>3, <2>8, UnchangedRounds
  <2>9. CASE Managing(m)
    BY <1>3, <2>4, <2>5, <2>6, <2>7, <2>9
       DEF Managing, Reconcile, Taken, ReconcileQuarantined, ReconcileParked, ReconcileLocked,
           ReconcileWorkspace, ReconcileBusy, ReconcileMoved
  <2> QED
    BY <2>8, <2>9 DEF Next
<1> QED
  BY <1>2, <1>3

\* A hold once reported completed stays completed, where one manager works: only a
\* second round could write its older findings over it.
\* Code: _run_admitted_once, retry_account_execution_hold.
THEOREM CompletedHoldsStay == (\A m, n \in Manager : m = n) => (Spec => CompletedIsFinal)
<1> SUFFICES ASSUME \A m, n \in Manager : m = n PROVE Spec => CompletedIsFinal
  OBVIOUS
<1>1. ASSUME ExecutionInvariant, StillPending, [Next]_vars PROVE StillPending'
  <2>1. CASE UNCHANGED vars
    BY <1>1, <2>1 DEF vars, StillPending
  <2> QED
    BY <1>1, <2>1, KeepsPending
<1>2. ASSUME ExecutionInvariant, StillPending, Next,
             NEW g \in Generation, holds[g].status = "completed"
      PROVE  holds'[g].status = "completed"
  <2> TypeOK /\ Ordered
    BY <1>2 DEF ExecutionInvariant
  <2>1. CASE UNCHANGED holds
    BY <1>2, <2>1
  <2>2. ASSUME NEW disabled \in BOOLEAN, NEW pending \in BOOLEAN,
               UpdateAccountStatus(disabled, pending)
        PROVE  holds'[g].status = "completed"
    <3>1. g <= account.generation /\ g \in Nat /\ account.generation \in Nat
      BY <1>2 DEF Ordered, TypeOK, Generation
    <3>2. g # account.generation + 1
      BY <3>1
    <3> QED
      BY <1>2, <2>2, <3>2 DEF UpdateAccountStatus, TypeOK
  <2>3. ASSUME NEW h \in Generation, RetryHold(h) PROVE holds'[g].status = "completed"
    BY <1>2, <2>3 DEF RetryHold, TypeOK
  <2>4. ASSUME NEW m \in Manager, WriteHold(m) PROVE holds'[g].status = "completed"
    <3>1. rounds[m].hold # g
      BY <1>2, <2>4 DEF WriteHold, StillPending
    <3> QED
      BY <1>2, <2>4, <3>1 DEF WriteHold, TypeOK
  <2>5. CASE Governance
    BY <2>1, <2>2, <2>3, <2>5
       DEF Governance, IssueGrant, CreateTask, PauseQueued, RegisterQuarantine,
       RegisterChatQuarantine, Resume
  <2>6. ASSUME NEW w \in Worker, Executing(w) PROVE UNCHANGED holds
    BY <2>6 DEF Executing, Capture, Bind, Launch, Enter, Activate, Begin, Return, Denied,
       BodyFails, StopFails, PauseDenied, Ejected, Crash
  <2>7. ASSUME NEW m \in Manager, Managing(m) PROVE UNCHANGED holds \/ WriteHold(m)
    BY <2>7 DEF Managing, Reconcile, ListHolds, TakeHold, ReconcileQuarantined, ReconcileParked,
       ReconcileLocked, ReconcileWorkspace, ReconcileBusy, ReconcileMoved, ManagerCrash,
       ManagerStart
  <2> QED
    BY <1>2, <2>1, <2>4, <2>5, <2>6, <2>7 DEF Next
<1>3. ExecutionInvariant /\ StillPending /\ [Next]_vars =>
        [\A g \in Generation : holds[g].status = "completed" => holds'[g].status = "completed"]_vars
  BY <1>2
<1> QED
  BY <1>1, <1>3, InitPending, HoldsAreSound, PTL DEF Spec, CompletedIsFinal
-------------------------------------------------------------------------------
(* The table of HoldPromise *)

LEMMA TableRows ==
    ASSUME ExecutionInvariant, NEW r \in Resource
    PROVE  /\ r \in Bound <=> bindings[r].state # "absent"
           /\ Generations[r] = bindings[r].generation
           /\ r \in Working <=> Busy(r)
           /\ r \in Proved => bindings[r].state = "paused" /\ ~Busy(r)
           /\ r \in Proved <=> (IF r \in Workspace THEN r \in pausedTasks
                                ELSE bindings[r].state = "paused")
<1> TypeOK /\ Owned /\ PausedTaskIsQuiet
  BY DEF ExecutionInvariant
<1>1. r \in Locked /\ bindings[r].state = "paused" => ~Busy(r)
  BY DEF Owned, Busy, RunsOn
<1>2. r \in pausedTasks => bindings[r].state = "paused" /\ ~Busy(r)
  BY DEF PausedTaskIsQuiet
<1>3. r \in Proved <=> (IF r \in Workspace THEN r \in pausedTasks ELSE bindings[r].state = "paused")
  BY KindsAssumption DEF Proved, TypeOK, Resource
<1> QED
  BY <1>1, <1>2, <1>3, KindsAssumption DEF Bound, Generations, Working, Proved, Resource

LEMMA TableSets ==
    ASSUME ExecutionInvariant
    PROVE  Bound \subseteq Resource /\ Working \subseteq Resource /\ Proved \subseteq Resource
           /\ Generations = [r \in Resource |-> Generations[r]]
BY DEF ExecutionInvariant, TypeOK, Bound, Working, Proved, Resource, Generations

\* A step that touches nothing but one resource, gives it no work and leaves its
\* generation alone: whatever it writes has the effect of a stop, or none.
Spares(x) ==
    /\ bindings'[x] = bindings[x] /\ (x \in pausedTasks' <=> x \in pausedTasks)
    /\ Busy(x)' <=> Busy(x)
TouchesOnly(r) == \A x \in Resource \ {r} : Spares(x)

LEMMA TouchedStops ==
    ASSUME ExecutionInvariant, ExecutionInvariant', NEW r \in Resource, TouchesOnly(r),
           UNCHANGED <<account, holds, quarantined>>,
           bindings'[r].generation = bindings[r].generation,
           bindings'[r].state = "absent" <=> bindings[r].state = "absent",
           Busy(r)' => Busy(r),
           r \notin quarantined \/ Spares(r)
    PROVE  Table!Stops(r)
<1>1. ASSUME NEW x \in Resource, Spares(x)
      PROVE  /\ (x \in Bound)' <=> x \in Bound
             /\ Generations'[x] = Generations[x]
             /\ (x \in Working)' <=> x \in Working
             /\ (x \in Proved)' <=> x \in Proved
  BY <1>1, TableRows, KindsAssumption DEF Spares, Generations, Bound, Working, Proved, Resource
<1>2. /\ (r \in Bound)' <=> r \in Bound
      /\ Generations'[r] = Generations[r]
      /\ (r \in Working)' => r \in Working
  BY DEF Bound, Generations, Working
<1>3. Bound' = Bound /\ Generations' = Generations
  <2>1. \A x \in Resource : /\ (x \in Bound)' <=> x \in Bound
                            /\ Generations'[x] = Generations[x]
    BY <1>1, <1>2 DEF TouchesOnly
  <2> QED
    BY <2>1 DEF Bound, Generations
<1>4. Working' \in {Working, Working \ {r}}
  <2>1. \A x \in Resource \ {r} : (x \in Working)' <=> x \in Working
    BY <1>1 DEF TouchesOnly
  <2>2. Working \subseteq Resource /\ Working' \subseteq Resource
    BY DEF Working
  <2> QED
    BY <1>2, <2>1, <2>2
<1>5. /\ \A x \in Resource \ {r} : x \in Proved' <=> x \in Proved
      /\ Proved \subseteq Resource /\ Proved' \subseteq Resource
  BY <1>1, TableSets DEF TouchesOnly, ExecutionInvariant, TypeOK, Proved, Resource
<1>6. CASE r \in Proved' /\ r \notin Proved
  <2>1. r \notin quarantined
    BY <1>1, <1>6
  <2>2. (r \in Proved => bindings[r].state = "paused" /\ ~Busy(r))'
    BY TableRows DEF ExecutionInvariant, TypeOK, Owned, PausedTaskIsQuiet, Proved, Busy, RunsOn,
       Resource
  <2>3. r \in Bound /\ r \notin Working'
    BY <1>3, <1>6, <2>2 DEF Bound, Working
  <2>4. Proved' = Proved \union {r}
    BY <1>5, <1>6
  <2> QED
    BY <1>3, <1>4, <2>1, <2>3, <2>4 DEF Table!Stops, Held, Over
<1>7. CASE ~(r \in Proved' /\ r \notin Proved)
  <2>1. Proved' \in {Proved, Proved \ {r}}
    BY <1>5, <1>7
  <2> QED
    BY <1>3, <1>4, <2>1 DEF Table!Stops, Held, Over
<1> QED
  BY <1>6, <1>7

LEMMA TableRests ==
    ASSUME UNCHANGED <<account, bindings, quarantined, pausedTasks>>,
           \A r \in Resource : Busy(r)' <=> Busy(r), Over' = Over
    PROVE  UNCHANGED Table!vars
<1>1. Working' = Working
  BY DEF Working
<1> QED
  BY <1>1 DEF Table!vars, Held, Bound, Generations, Proved

\* What an executor does to the work, by the way it moves.
LEMMA LeavingTouches ==
    ASSUME TypeOK, NEW w \in Worker, NEW r, r = workers[w].resource, Stays(w)
    PROVE  /\ \A x \in Resource \ {r} : Busy(x)' <=> Busy(x)
           /\ Busy(r)' => Busy(r)
           /\ workers[w].pc # "running" => (Busy(r)' <=> Busy(r))
<1>1. /\ workers'[w].pc = "out" /\ \A v \in Worker \ {w} : workers'[v] = workers[v]
  BY DEF TypeOK, Stays, NotRunning
<1>2. ASSUME NEW x PROVE \A v \in Worker \ {w} : RunsOn(v, x)' <=> RunsOn(v, x)
  BY <1>1 DEF RunsOn
<1>3. \A x : ~RunsOn(w, x)'
  BY <1>1 DEF RunsOn
<1>4. \A x : RunsOn(w, x) => x = r /\ workers[w].pc = "running"
  BY DEF RunsOn
<1> QED
  BY <1>2, <1>3, <1>4 DEF Busy

LEMMA WaitingRests ==
    ASSUME TypeOK, NEW w \in Worker, workers[w].pc # "running", workers'[w].pc # "running",
           \A v \in Worker \ {w} : workers'[v] = workers[v]
    PROVE  \A x \in Resource : Busy(x)' <=> Busy(x)
<1>1. ASSUME NEW x PROVE \A v \in Worker : RunsOn(v, x)' <=> RunsOn(v, x)
  BY <1>1 DEF RunsOn
<1> QED
  BY <1>1 DEF Busy

\* Confirmations and pauses keep the generation, and do not make a binding.
OneRowKeeps(r) ==
    /\ \A x \in Resource \ {r} : /\ bindings'[x] = bindings[x]
                                 /\ x \in pausedTasks' <=> x \in pausedTasks
    /\ bindings'[r].generation = bindings[r].generation
    /\ bindings'[r].state = "absent" <=> bindings[r].state = "absent"

LEMMA ConfirmKeepsRow ==
    ASSUME TypeOK, NEW r \in Resource, NEW gen \in Generation, NEW failed \in BOOLEAN,
           ConfirmStopped(r, gen, failed), pausedTasks' \in {pausedTasks, pausedTasks \ {r}}
    PROVE  OneRowKeeps(r)
<1>1. bindings[r] \in Binding
  BY DEF TypeOK
<1> QED
  BY <1>1, ConfirmStoppedEffect DEF Binding, OneRowKeeps

LEMMA PauseKeepsRow ==
    ASSUME TypeOK, NEW r \in Workspace, NEW gen \in Generation,
           NEW shown \in SUBSET pausedTasks, pausedTasks \ {r} \subseteq shown,
           NEW published \in BOOLEAN, NEW terminal \in BOOLEAN, NEW stopped \in BOOLEAN,
           FinishPause(r, gen, shown, published, terminal, stopped)
    PROVE  OneRowKeeps(r)
<1>1. r \in Resource /\ bindings[r] \in Binding
  BY DEF TypeOK, Resource
<1>2. \A x \in Resource \ {r} : x \in pausedTasks' <=> x \in pausedTasks
  BY DEF FinishPause
<1>3. /\ \A x \in Resource \ {r} : bindings'[x] = bindings[x]
      /\ bindings'[r] \in {bindings[r], [generation |-> bindings[r].generation, state |-> "paused"],
                          [generation |-> bindings[r].generation, state |-> "cleanup_failed"]}
      /\ bindings[r].state \in {"absent", "paused"} => bindings'[r] = bindings[r]
  BY FinishPauseEffect
<1> QED
  BY <1>1, <1>2, <1>3 DEF Binding, OneRowKeeps

\* An executor that leaves, whatever it says about its stop.
LEMMA LeavesStop ==
    ASSUME ExecutionInvariant, ExecutionInvariant', NEW w \in Worker,
           workers[w].pc # "out", NEW r, r = workers[w].resource, Stays(w),
           OneRowKeeps(r),
           r \notin quarantined \/ UNCHANGED <<bindings, pausedTasks>>,
           UNCHANGED <<account, holds, quarantined>>
    PROVE  Table!Stops(r) /\ r \in Resource
<1>1. TypeOK /\ r \in Resource
  BY DEF ExecutionInvariant, Owned
<1>2. TouchesOnly(r) /\ (Busy(r)' => Busy(r))
  BY <1>1, LeavingTouches DEF TouchesOnly, Spares, OneRowKeeps
<1>3. CASE r \notin quarantined
  BY <1>1, <1>2, <1>3, TouchedStops DEF OneRowKeeps
<1>4. CASE UNCHANGED <<bindings, pausedTasks>>
  <2>1. Bound' = Bound /\ Generations' = Generations /\ Proved' = Proved /\ Over' = Over
    BY <1>4 DEF Bound, Generations, Proved, Over
  <2>2. Working' \in {Working, Working \ {r}}
    BY <1>2 DEF TouchesOnly, Spares, Working
  <2> QED
    BY <1>1, <2>1, <2>2 DEF Table!Stops, Held
<1> QED
  BY <1>1, <1>3, <1>4

\* An executor begins: under the lock nobody else works, and its check holds now.
LEMMA StartsBegin ==
    ASSUME ExecutionInvariant, NEW w \in Worker, NEW r, r = workers[w].resource,
           workers[w].pc = "entered", RequireBinding(r, workers[w].generation), r \in Resource,
           MovesTo(w, "running"), \A x \in Resource \ {r} : bindings'[x] = bindings[x],
           bindings'[r].generation = bindings[r].generation,
           bindings'[r].state \in {"active", "idle"},
           UNCHANGED <<account, holds, quarantined, pausedTasks>>
    PROVE  Table!Begins(r)
<1> TypeOK /\ Exclusion /\ Owned
  BY DEF ExecutionInvariant
<1>1. /\ workers'[w].pc = "running" /\ workers'[w].resource = r
      /\ \A v \in Worker \ {w} : workers'[v] = workers[v]
  BY DEF MovesTo, TypeOK, Execution
<1>2. \A v \in Worker : ~RunsOn(v, r)
  BY DEF Exclusion, RunsOn
<1>3. \A x \in Resource \ {r} : Busy(x)' <=> Busy(x)
  <2>1. ASSUME NEW x \in Resource \ {r} PROVE \A v \in Worker : RunsOn(v, x)' <=> RunsOn(v, x)
    BY <1>1 DEF RunsOn
  <2> QED
    BY <2>1 DEF Busy
<1>4. r \notin Working /\ Working' = Working \union {r}
  <2>1. Busy(r)' /\ ~Busy(r)
    BY <1>1, <1>2 DEF Busy, RunsOn
  <2> QED
    BY <1>3, <2>1 DEF Working
<1>5. /\ ~Held /\ bindings[r].generation = account.generation
      /\ bindings[r].state \in {"active", "idle"} /\ r \notin quarantined
  BY DEF RequireBinding, BindingUsable, Authorized
<1>6. r \in Bound /\ r \notin Proved /\ Generations[r] = account.generation
  BY <1>5, TableRows
<1>7. Bound' = Bound /\ Generations' = Generations /\ Over' = Over
  BY <1>5 DEF Bound, Generations, Over
<1>8. Proved' = Proved
  <2>1. bindings'[r].state # "paused" /\ bindings[r].state # "paused"
    BY <1>5
  <2> QED
    BY <2>1, KindsAssumption DEF Proved, Resource
<1> QED
  BY <1>4, <1>5, <1>6, <1>7, <1>8 DEF Table!Begins, Held

\* A resource is bound under the account of now.
LEMMA NewRowBinds ==
    ASSUME ExecutionInvariant, NEW r \in Resource, NEW gen, NEW state \in {"active", "idle"},
           NewBinding(r, gen, state), UNCHANGED <<account, holds, quarantined, pausedTasks, workers>>
    PROVE  [Table!Next]_(Table!vars)
<1>1. /\ ~Held /\ gen = account.generation /\ r \notin quarantined /\ bindings[r].state = "absent"
      /\ bindings'[r] = [generation |-> account.generation, state |-> state]
      /\ \A x \in Resource \ {r} : bindings'[x] = bindings[x]
  BY DEF NewBinding, Authorized, ExecutionInvariant, TypeOK
<1>2. r \notin Bound /\ Bound' = Bound \union {r}
  BY <1>1 DEF Bound
<1>3. Generations' = [Generations EXCEPT ![r] = account.generation]
  <2>1. /\ bindings'[r].generation = account.generation
        /\ \A x \in Resource \ {r} : bindings'[x].generation = bindings[x].generation
    BY <1>1
  <2> QED
    BY <2>1 DEF Generations
<1>4. Proved' = Proved
  <2>1. bindings'[r].state # "paused" /\ bindings[r].state # "paused"
    BY <1>1
  <2> QED
    BY <1>1, <2>1, KindsAssumption DEF Proved, Resource
<1>5. Working' = Working /\ Over' = Over
  BY DEF Working, Busy, RunsOn, Over
<1> QED
  BY <1>1, <1>2, <1>3, <1>4, <1>5 DEF Table!Binds, Table!Next, Held

\* Governance, one operation after the other.
LEMMA GovernanceOnTable ==
    ASSUME ExecutionInvariant, ExecutionInvariant', Governance
    PROVE  [Table!Next]_(Table!vars)
<1> TypeOK /\ Owned /\ Ordered /\ PausedTaskIsQuiet
  BY DEF ExecutionInvariant
<1>1. ASSUME NEW disabled \in BOOLEAN, NEW pending \in BOOLEAN,
             UpdateAccountStatus(disabled, pending)
      PROVE  [Table!Next]_(Table!vars)
  <2>1. /\ Bound' = Bound /\ Generations' = Generations /\ Working' = Working
        /\ quarantined' = quarantined
    <3>1. \A r \in Resource : /\ bindings'[r].generation = bindings[r].generation
                              /\ bindings'[r].state = "absent" <=> bindings[r].state = "absent"
      BY <1>1 DEF UpdateAccountStatus, Parked, TypeOK, Binding
    <3> QED
      BY <1>1, <3>1 DEF UpdateAccountStatus, Bound, Generations, Working, Busy, RunsOn
  <2>2. CASE ~Held /\ (disabled \/ pending)
    <3>1. Held' /\ account'.generation = account.generation + 1
      BY <1>1, <2>2 DEF UpdateAccountStatus, Held
    <3>2. Over' = Over
      <4>1. holds[account.generation + 1].status # "completed" \/ account.generation + 1 \notin Generation
        BY DEF Ordered, TypeOK, Generation
      <4>2. holds' = [holds EXCEPT ![account.generation + 1] =
                        [status |-> "pending", complete |-> FALSE, error |-> FALSE]]
        BY <1>1, <2>2 DEF UpdateAccountStatus
      <4> QED
        BY <4>1, <4>2 DEF Over, TypeOK, Generation
    <3>3. /\ \A r \in Resource : bindings'[r] = IF Parked(r) THEN [bindings[r] EXCEPT !.state = "paused"]
                                                ELSE bindings[r]
          /\ pausedTasks' = pausedTasks
      BY <1>1, <2>2 DEF UpdateAccountStatus
    <3>4. Proved \subseteq Proved'
      BY <3>3 DEF Proved, Parked, Resource, TypeOK, Binding
    <3>5. ASSUME NEW r \in Proved', r \notin Proved
          PROVE  r \in Bound \ (Working \union quarantined)
      <4>1. r \in Locked /\ Parked(r)
        BY <3>3, <3>5 DEF Proved, Resource
      <4>2. ~Busy(r)
        BY <4>1 DEF Parked, Owned, Busy, RunsOn
      <4> QED
        BY <4>1, <4>2 DEF Parked, Bound, Working, Resource
    <3> QED
      BY <2>1, <2>2, <3>1, <3>2, <3>4, <3>5 DEF Table!Holds, Table!Next
  <2>3. CASE ~(~Held /\ (disabled \/ pending))
    <3>1. /\ UNCHANGED <<holds, pausedTasks>> /\ account'.generation = account.generation
          /\ \A r \in Resource : bindings'[r] = bindings[r]
          /\ Held' => Held
      BY <1>1, <2>3 DEF UpdateAccountStatus, Held
    <3>2. Over' = Over /\ Proved' = Proved
      BY <3>1 DEF Over, Proved, Resource
    <3>3. CASE Held' = Held
      BY <2>1, <3>1, <3>2, <3>3 DEF Table!vars
    <3>4. Held \in BOOLEAN /\ Held' \in BOOLEAN
      BY DEF Held
    <3>5. CASE Held /\ ~Held'
      <4>1. Held' = FALSE
        BY <3>5
      <4> QED
        BY <2>1, <3>1, <3>2, <3>5, <4>1 DEF Table!Releases, Table!Next
    <3> QED
      BY <3>1, <3>3, <3>4, <3>5
  <2> QED
    BY <2>2, <2>3
<1>2. ASSUME NEW r \in Workspace, CreateTask(r) PROVE [Table!Next]_(Table!vars)
  BY <1>2, NewRowBinds DEF CreateTask, Resource
<1>3. ASSUME NEW r \in Workspace, NEW published \in PublicationOutcomes, NEW terminal \in BOOLEAN,
             NEW stopped \in BOOLEAN, PauseQueued(r, published, terminal, stopped)
      PROVE  [Table!Next]_(Table!vars)
  <2>1. r \in Resource /\ published \in BOOLEAN /\ bindings[r].generation \in Generation
    BY OutcomesAssumption DEF Resource, TypeOK, Binding
  <2>2. /\ \A x \in Resource \ {r} : bindings'[x] = bindings[x]
        /\ bindings'[r].generation = bindings[r].generation
        /\ bindings'[r].state = "absent" <=> bindings[r].state = "absent"
        /\ \A x \in Resource \ {r} : x \in pausedTasks' <=> x \in pausedTasks
    <3>1. FinishPause(r, bindings[r].generation, pausedTasks \ {r}, published, terminal, stopped)
      BY <1>3 DEF PauseQueued
    <3>2. pausedTasks \ {r} \in SUBSET pausedTasks
      OBVIOUS
    <3>3. pausedTasks \ {r} \subseteq pausedTasks \ {r}
      OBVIOUS
    <3>4. OneRowKeeps(r)
      BY <2>1, <3>1, <3>2, <3>3, PauseKeepsRow
    <3> QED
      BY <3>4 DEF OneRowKeeps
  <2>3. \A x : Busy(x)' <=> Busy(x)
    BY <1>3 DEF PauseQueued, Busy, RunsOn
  <2>4. Table!Stops(r)
    BY <1>3, <2>1, <2>2, <2>3, TouchedStops DEF PauseQueued, TouchesOnly, Spares
  <2> QED
    BY <2>1, <2>4 DEF Table!Next
<1>4. ASSUME NEW targets \in SUBSET Resource,
             RegisterQuarantine(targets) \/ RegisterChatQuarantine(targets)
      PROVE  [Table!Next]_(Table!vars)
  <2>1. Bound' = Bound /\ Generations' = Generations /\ Working' = Working /\ Proved' = Proved
        /\ Over' = Over
    BY <1>4 DEF RegisterQuarantine, RegisterChatQuarantine, Bound, Generations, Working, Busy,
       RunsOn, Proved, Over
  <2> QED
    BY <1>4, <2>1 DEF RegisterQuarantine, RegisterChatQuarantine, Held, Table!Quarantines,
       Table!Next
<1>5. ASSUME NEW g \in Generation, RetryHold(g) PROVE [Table!Next]_(Table!vars)
  <2>1. Over' = Over
    BY <1>5 DEF RetryHold, Over, TypeOK
  <2>2. \A x : Busy(x)' <=> Busy(x)
    BY <1>5 DEF RetryHold, Busy, RunsOn
  <2> QED
    BY <1>5, <2>1, <2>2, TableRests DEF RetryHold
<1>6. ASSUME NEW r \in Workspace, NEW harness \in {{}} \union {{h} : h \in Locked},
             Resume(r, harness)
      PROVE  [Table!Next]_(Table!vars)
  <2> DEFINE resumed == {r} \union harness
  <2>1. /\ resumed \subseteq Resource /\ ~Held /\ resumed \intersect quarantined = {}
        /\ \A x \in resumed : bindings[x].state = "paused"
        /\ r \in pausedTasks /\ resumed \ {r} \subseteq Locked
    BY <1>6 DEF Resume, Resumable, Resource
  <2>2. /\ bindings' = [x \in Resource |->
                          IF x \in resumed THEN [generation |-> account.generation, state |-> "idle"]
                          ELSE bindings[x]]
        /\ pausedTasks' = pausedTasks \ {r}
        /\ UNCHANGED <<account, holds, quarantined, workers>>
    BY <1>6 DEF Resume
  <2> HIDE DEF resumed
  <2>3. resumed \subseteq Proved /\ resumed \intersect Working = {}
    <3>1. resumed \subseteq Proved
      BY <2>1 DEF Proved
    <3> QED
      BY <2>1, <3>1, TableRows
  <2>4. Proved' = Proved \ resumed
    <3>1. \A x \in Resource : bindings'[x].state = "paused" <=>
                                 bindings[x].state = "paused" /\ x \notin resumed
      BY <2>1, <2>2
    <3>2. \A x \in pausedTasks : x \in resumed => x = r
      BY <2>1, KindsAssumption DEF TypeOK
    <3>3. pausedTasks \subseteq Workspace /\ r \in resumed
      BY DEF TypeOK, resumed
    <3> QED
      BY <2>1, <2>2, <3>1, <3>2, <3>3, KindsAssumption DEF Proved, Resource
  <2>5. /\ Bound' = Bound /\ Working' = Working /\ Over' = Over
        /\ Generations' = [x \in Resource |-> IF x \in resumed THEN account.generation
                                              ELSE Generations[x]]
    <3>1. \A x \in Resource : /\ bindings'[x].state = "absent" <=> bindings[x].state = "absent"
                              /\ bindings'[x].generation = IF x \in resumed THEN account.generation
                                                           ELSE bindings[x].generation
      BY <2>1, <2>2
    <3> QED
      BY <2>2, <3>1 DEF Bound, Working, Busy, RunsOn, Over, Generations
  <2>6. Table!Resumes(resumed)
    BY <2>1, <2>2, <2>3, <2>4, <2>5 DEF Table!Resumes, Held
  <2> QED
    BY <2>1, <2>6 DEF Table!Next
<1>7. CASE IssueGrant
  <2>1. Over' = Over /\ \A x : Busy(x)' <=> Busy(x)
    BY <1>7 DEF IssueGrant, Over, Busy, RunsOn
  <2> QED
    BY <1>7, <2>1, TableRests DEF IssueGrant
<1> QED
  BY <1>1, <1>2, <1>3, <1>4, <1>5, <1>6, <1>7 DEF Governance

\* A stop that is written for an executor by somebody else.
LEMMA WritesStop ==
    ASSUME ExecutionInvariant, ExecutionInvariant', NEW r \in Resource, r \notin quarantined,
           OneRowKeeps(r), UNCHANGED <<account, holds, quarantined, workers>>
    PROVE  [Table!Next]_(Table!vars)
<1>1. \A x : Busy(x)' <=> Busy(x)
  BY DEF Busy, RunsOn
<1>2. Table!Stops(r)
  BY <1>1, TouchedStops DEF OneRowKeeps, TouchesOnly, Spares
<1> QED
  BY <1>2 DEF Table!Next

LEMMA WaitsRest ==
    ASSUME ExecutionInvariant, NEW w \in Worker, workers[w].pc # "running",
           workers'[w].pc # "running", \A v \in Worker \ {w} : workers'[v] = workers[v],
           UNCHANGED <<account, bindings, holds, quarantined, pausedTasks>>
    PROVE  UNCHANGED Table!vars
<1>1. \A r \in Resource : Busy(r)' <=> Busy(r)
  BY WaitingRests DEF ExecutionInvariant
<1>2. Over' = Over
  BY DEF Over
<1> QED
  BY <1>1, <1>2, TableRests

LEMMA ExecutingOnTable ==
    ASSUME ExecutionInvariant, ExecutionInvariant', NEW w \in Worker, Executing(w)
    PROVE  [Table!Next]_(Table!vars)
<1> TypeOK /\ Owned
  BY DEF ExecutionInvariant
<1> PICK r : r = workers[w].resource
  OBVIOUS
<1> PICK gen : gen = workers[w].generation
  OBVIOUS
<1>1. workers[w] \in Execution /\ gen \in Generation /\ (workers[w].pc # "out" => r \in Resource)
  BY DEF TypeOK, Execution, Owned
<1>2. Stays(w) => workers'[w].pc = "out" /\ \A v \in Worker \ {w} : workers'[v] = workers[v]
  BY DEF Stays, NotRunning, TypeOK
<1>3. (\E x \in Locked : Capture(w, x)) \/ (\E x \in Workspace : Launch(w, x)) => UNCHANGED Table!vars
  BY WaitsRest DEF Capture, Launch, TypeOK
<1>4. ASSUME NEW state \in {"active", "idle"}, Bind(w, state) PROVE [Table!Next]_(Table!vars)
  <2>1. r \in Resource /\ NewBinding(r, gen, state)
    BY <1>4 DEF Bind, Resource
  <2> QED
    BY <1>4, <2>1, NewRowBinds DEF Bind
<1>5. CASE Enter(w)
  <2>1. workers'[w].pc # "running" /\ \A v \in Worker \ {w} : workers'[v] = workers[v]
    BY <1>2, <1>5 DEF Enter, MovesTo, TypeOK, Execution
  <2> QED
    BY <1>5, <2>1, WaitsRest DEF Enter
<1>6. CASE Activate(w)
  <2>1. CASE /\ RequireBinding(r, gen) /\ MovesTo(w, "running")
             /\ bindings' = [bindings EXCEPT ![r].state = "active"]
    <3>1. r \in Resource
      BY <1>1, <1>6 DEF Activate
    <3>2. /\ \A x \in Resource \ {r} : bindings'[x] = bindings[x]
          /\ bindings'[r].generation = bindings[r].generation /\ bindings'[r].state = "active"
      BY <2>1, <3>1 DEF TypeOK, Binding
    <3>3. Table!Begins(r)
      BY <1>6, <2>1, <3>1, <3>2, StartsBegin DEF Activate
    <3> QED
      BY <3>1, <3>3 DEF Table!Next
  <2>2. CASE Stays(w) /\ UNCHANGED bindings
    BY <1>2, <1>6, <2>2, WaitsRest DEF Activate
  <2> QED
    BY <1>6, <2>1, <2>2 DEF Activate
<1>7. CASE Begin(w)
  <2>1. /\ r \in Resource /\ bindings[r].state \in {"active", "idle"}
        /\ RequireBinding(r, gen)
    BY <1>1, <1>7 DEF Begin, RequireBinding, BindingUsable
  <2>2. Table!Begins(r)
    BY <1>7, <2>1, StartsBegin DEF Begin
  <2> QED
    BY <2>1, <2>2 DEF Table!Next
<1>8. ASSUME workers[w].pc # "out", Stays(w), OneRowKeeps(r),
             r \notin quarantined \/ UNCHANGED <<bindings, pausedTasks>>,
             UNCHANGED <<account, holds, quarantined>>
      PROVE  [Table!Next]_(Table!vars)
  BY <1>8, LeavesStop DEF Table!Next
<1>9. CASE Return(w)
  <2>1. OneRowKeeps(r)
    BY <1>1, <1>9 DEF Return, RequireBinding, BindingUsable, OneRowKeeps, TypeOK, Binding
  <2>2. r \notin quarantined
    BY <1>9 DEF Return, RequireBinding
  <2> QED
    BY <1>8, <1>9, <2>1, <2>2 DEF Return
<1>10. CASE Denied(w) \/ BodyFails(w)
  <2>1. r \in Resource /\ r \notin quarantined
    BY <1>10 DEF Denied, BodyFails, Resource
  <2>2. OneRowKeeps(r)
    BY <1>1, <1>10, <2>1, ConfirmKeepsRow DEF Denied, BodyFails
  <2> QED
    BY <1>8, <1>10, <2>1, <2>2 DEF Denied, BodyFails
<1>11. CASE StopFails(w)
  <2>1. r \in Resource /\ r \notin quarantined
    BY <1>11 DEF StopFails, Resource
  <2>2. OneRowKeeps(r)
    BY <1>1, <1>11, <2>1, ConfirmKeepsRow DEF StopFails
  <2> QED
    BY <1>11, <2>1, <2>2, WritesStop DEF StopFails
<1>12. CASE PauseDenied(w)
  <2>1. PICK published \in PublicationOutcomes, terminal \in BOOLEAN, stopped \in BOOLEAN :
            FinishPause(r, gen, pausedTasks, published, terminal, stopped)
    BY <1>12 DEF PauseDenied
  <2>2. /\ r \in Workspace /\ r \notin quarantined /\ published \in BOOLEAN
        /\ pausedTasks \in SUBSET pausedTasks /\ pausedTasks \ {r} \subseteq pausedTasks
    BY <1>12, OutcomesAssumption DEF PauseDenied
  <2>3. OneRowKeeps(r)
    BY <1>1, <2>1, <2>2, PauseKeepsRow
  <2> QED
    BY <1>8, <1>12, <2>2, <2>3 DEF PauseDenied
<1>13. CASE Ejected(w) \/ Crash(w)
  BY <1>8, <1>13 DEF Ejected, Crash, OneRowKeeps
<1> QED
  BY <1>3, <1>4, <1>5, <1>6, <1>7, <1>9, <1>10, <1>11, <1>12, <1>13 DEF Executing

LEMMA ManagingOnTable ==
    ASSUME ExecutionInvariant, ExecutionInvariant', NEW m \in Manager, Managing(m)
    PROVE  [Table!Next]_(Table!vars)
<1> TypeOK /\ Ordered
  BY DEF ExecutionInvariant
<1>1. ASSUME UNCHANGED <<account, bindings, holds, quarantined, pausedTasks, workers>>
      PROVE  UNCHANGED Table!vars
  <2>1. Over' = Over /\ \A r \in Resource : Busy(r)' <=> Busy(r)
    BY <1>1 DEF Over, Busy, RunsOn
  <2> QED
    BY <1>1, <2>1, TableRests
<1>2. ASSUME NEW r \in Resource,
             \/ ReconcileParked(m, r)
             \/ \E finished \in BOOLEAN : ReconcileLocked(m, r, finished)
      PROVE  [Table!Next]_(Table!vars)
  <2>1. rounds[m].seen[r].generation \in Generation
    BY DEF TypeOK, Round, Binding
  <2>2. ConfirmStopped(r, rounds[m].seen[r].generation, FALSE) \/ UNCHANGED bindings
    BY <1>2 DEF ReconcileParked, ReconcileLocked
  <2>3. r \notin quarantined /\ UNCHANGED <<account, holds, quarantined, pausedTasks, workers>>
    BY <1>2 DEF ReconcileParked, ReconcileLocked
  <2>4. CASE UNCHANGED bindings
    BY <1>1, <2>3, <2>4
  <2>5. CASE ConfirmStopped(r, rounds[m].seen[r].generation, FALSE)
    <3>1. OneRowKeeps(r)
      BY <2>1, <2>3, <2>5, ConfirmKeepsRow
    <3> QED
      BY <2>3, <3>1, WritesStop
  <2> QED
    BY <2>2, <2>4, <2>5
<1>3. ASSUME NEW r \in Resource, NEW published \in PublicationOutcomes, NEW terminal \in BOOLEAN,
             NEW stopped \in BOOLEAN, ReconcileWorkspace(m, r, published, terminal, stopped)
      PROVE  [Table!Next]_(Table!vars)
  <2>1. /\ r \in Workspace /\ r \notin quarantined /\ published \in BOOLEAN
        /\ bindings[r].generation \in Generation /\ pausedTasks \ {r} \in SUBSET pausedTasks
        /\ pausedTasks \ {r} \subseteq pausedTasks \ {r}
        /\ FinishPause(r, bindings[r].generation, pausedTasks \ {r}, published, terminal, stopped)
        /\ UNCHANGED <<account, holds, quarantined, workers>>
    BY <1>3, OutcomesAssumption DEF ReconcileWorkspace, TypeOK, Binding
  <2>2. OneRowKeeps(r)
    BY <2>1, PauseKeepsRow
  <2> QED
    BY <2>1, <2>2, WritesStop
<1>4. ASSUME NEW r \in Resource, ReconcileBusy(m, r) PROVE [Table!Next]_(Table!vars)
  BY <1>4, WritesStop DEF ReconcileBusy, OneRowKeeps
<1>5. CASE WriteHold(m)
  <2> DEFINE g == rounds[m].hold
  <2>1. /\ g \in Generation /\ g <= account.generation /\ g \in 0 .. account.generation
    BY DEF TypeOK, Round, Ordered, Generation
  <2>2. /\ UNCHANGED <<account, bindings, quarantined, pausedTasks, workers>>
        /\ \A h \in Generation \ {g} : holds'[h] = holds[h]
    BY <1>5 DEF WriteHold, TypeOK
  <2>3. /\ Bound' = Bound /\ Generations' = Generations /\ Working' = Working /\ Proved' = Proved
        /\ Held' = Held
    BY <2>2 DEF Bound, Generations, Working, Busy, RunsOn, Proved, Held
  <2>4. CASE holds'[g].status = "completed"
    <3>1. Over' = Over \union {g}
      BY <2>1, <2>2, <2>4 DEF Over
    <3>2. \A r \in Bound \ quarantined : Generations[r] < g => r \notin Working
      BY <2>1, <2>2, <2>3, <2>4
         DEF ExecutionInvariant, CompletedHoldIsQuiet, Bound, Generations, Working, Busy, RunsOn
    <3>3. Table!Reports(g)
      BY <2>1, <2>2, <2>3, <3>1, <3>2 DEF Table!Reports
    <3> QED
      BY <2>1, <3>3 DEF Table!Next
  <2>5. CASE holds'[g].status # "completed"
    <3>1. Over' = Over \ {g}
      BY <2>1, <2>2, <2>5 DEF Over
    <3>2. Table!Withdraws(g)
      BY <2>1, <2>2, <2>3, <3>1 DEF Table!Withdraws
    <3> QED
      BY <2>1, <3>2 DEF Table!Next
  <2> QED
    BY <2>4, <2>5
<1> QED
  BY <1>1, <1>2, <1>3, <1>4, <1>5
     DEF Managing, Reconcile, ListHolds, TakeHold, ReconcileQuarantined, ReconcileMoved,
         ManagerCrash, ManagerStart

\* Executors, holds, resumes, quarantine and managers together keep the promise:
\* every step has the effect of at most one step on a single table, where work
\* begins only under the account of now and a hold is reported completed only
\* when nothing older works.
\* Code: running_execution, confirm_execution_stopped, update_account_status,
\* resume_execution, _run_admitted_once, refresh_hold_operation.
THEOREM HoldsAreKept == Spec => KeepsHolds
<1>1. Init => Table!Init
  <2> SUFFICES ASSUME Init PROVE Table!Init
    OBVIOUS
  <2>1. \A r \in Resource : bindings[r].state = "absent" /\ bindings[r].generation = 0
    BY DEF Init, NotBound
  <2>2. \A w \in Worker : workers[w].pc = "out"
    BY DEF Init, NotRunning
  <2>3. Bound = {} /\ Generations = [r \in Resource |-> 0] /\ Working = {}
    BY <2>1, <2>2 DEF Bound, Generations, Working, Busy, RunsOn
  <2>4. Proved = {} /\ Over = {}
    BY <2>1 DEF Init, Proved, Over, Resource
  <2>5. Held = FALSE /\ account.generation = 0 /\ quarantined = {}
    BY DEF Init, Held
  <2> QED
    BY <2>3, <2>4, <2>5 DEF Table!Init
<1>2. ExecutionInvariant /\ [Next]_vars => [Table!Next]_(Table!vars)
  <2> SUFFICES ASSUME ExecutionInvariant, [Next]_vars PROVE [Table!Next]_(Table!vars)
    OBVIOUS
  <2>1. ExecutionInvariant'
    BY HoldsStep, HoldsStutter
  <2>2. CASE UNCHANGED vars
    <3>1. Over' = Over /\ \A r \in Resource : Busy(r)' <=> Busy(r)
      BY <2>2 DEF vars, Over, Busy, RunsOn
    <3> QED
      BY <2>2, <3>1, TableRests DEF vars
  <2> QED
    BY <2>1, <2>2, GovernanceOnTable, ExecutingOnTable, ManagingOnTable DEF Next
<1> QED
  BY <1>1, <1>2, HoldsAreSound, PTL DEF Spec, KeepsHolds, Table!Spec
===============================================================================
