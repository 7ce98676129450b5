--------------------------- MODULE AccountExecution ---------------------------
(***************************************************************************)
(* Account execution authorisation of one owner: the monotone account      *)
(* generation, the durable binding of every executable resource, the hold  *)
(* operation written when the account is disabled or sent back to pending, *)
(* the executors that run under a binding, and the manager that reconciles *)
(* holds until every older execution is known to be quiet.                 *)
(*                                                                         *)
(* One action is one SQLite transaction (BEGIN IMMEDIATE) or one file-lock *)
(* operation of the code.  Two kinds of resource are told apart because    *)
(* the code runs them differently: a Locked resource (data task, harness,  *)
(* chat) runs inside running_execution, which marks its binding active; a  *)
(* Workspace resource runs under the generation stored in its own binding  *)
(* and only its creation marks the binding active.                         *)
(***************************************************************************)
EXTENDS Naturals, FiniteSets

CONSTANTS
    Locked,               \* resources run by running_execution
    Workspace,            \* workspace tasks
    Worker,               \* requests and queue workers, of any process
    Manager,              \* account execution managers, one per process
    SchedulerOutcomes,    \* what scheduler reconciliation may answer
    PublicationOutcomes,  \* whether account publications may be reconciled
    MaxGeneration         \* bound: holds entered in a behaviour

Resource == Locked \union Workspace
Generation == 0 .. MaxGeneration
None == "none"

ASSUME KindsAssumption == Locked \intersect Workspace = {} /\ None \notin Resource
ASSUME OutcomesAssumption ==
    /\ SchedulerOutcomes \subseteq {"stopped", "busy", "unavailable", "uninventoried"}
    /\ PublicationOutcomes \subseteq BOOLEAN
ASSUME BoundAssumption == MaxGeneration \in Nat

VARIABLES
    account,      \* users: disabled, pending, execution_generation
    bindings,     \* account_execution_bindings
    holds,        \* account_execution_holds, by generation
    grants,       \* generations of the unrevoked model-connection grants
    quarantined,  \* resources named by the quarantine manifests
    registered,   \* quarantine manifests registered
    pausedTasks,  \* workspace tasks whose row says 'paused'
    workers,      \* executors
    rounds        \* reconciliation rounds

vars == <<account, bindings, holds, grants, quarantined, registered, pausedTasks, workers, rounds>>
-------------------------------------------------------------------------------
BindingState == {"absent", "active", "idle", "paused", "cleanup_failed"}
HoldStatus == {"none", "pending", "completed", "failed"}

Binding == [generation : Generation, state : BindingState]
Hold == [status : HoldStatus, complete : BOOLEAN, error : BOOLEAN]
Execution == [pc : {"out", "ready", "entered", "running"},
              generation : Generation, resource : Resource \union {None}]

\* A round works through the pending holds it listed (ops), one at a time: the
\* hold it is on, the bindings it snapshotted, those still to reconcile, and
\* what it found so far.
Round == [phase : {"down", "sleeping", "listed", "reconciling"},
          ops : SUBSET Generation, hold : Generation,
          seen : [Resource -> Binding], todo : SUBSET Resource,
          complete : BOOLEAN, error : BOOLEAN]

NotRunning == [pc |-> "out", generation |-> 0, resource |-> None]
NotBound == [generation |-> 0, state |-> "absent"]
Sleeping == [phase |-> "sleeping", ops |-> {}, hold |-> 0,
             seen |-> [r \in Resource |-> NotBound], todo |-> {},
             complete |-> FALSE, error |-> FALSE]

TypeOK ==
    /\ account \in [disabled : BOOLEAN, pending : BOOLEAN, generation : Generation]
    /\ bindings \in [Resource -> Binding]
    /\ holds \in [Generation -> Hold]
    /\ grants \subseteq Generation
    /\ quarantined \subseteq Resource /\ registered \subseteq {"initial", "chat"}
    /\ pausedTasks \subseteq Workspace
    /\ workers \in [Worker -> Execution]
    /\ rounds \in [Manager -> Round]

\* A registered account that is already approved; nothing ran yet.
Init ==
    /\ account = [disabled |-> FALSE, pending |-> FALSE, generation |-> 0]
    /\ bindings = [r \in Resource |-> NotBound]
    /\ holds = [g \in Generation |-> [status |-> "none", complete |-> FALSE, error |-> FALSE]]
    /\ grants = {}
    /\ quarantined = {} /\ registered = {}
    /\ pausedTasks = {}
    /\ workers = [w \in Worker |-> NotRunning]
    /\ rounds = [m \in Manager |-> Sleeping]
-------------------------------------------------------------------------------
(* Predicates of account_execution.py *)

Held == account.disabled \/ account.pending

\* require_authorized: the authorisation is the one the account gives now.
Authorized(gen) == ~Held /\ gen = account.generation

\* The part of require_binding that raises ExecutionDenied; a quarantined
\* resource raises QuarantinedExecutionError, which no executor catches.
BindingUsable(r, gen) ==
    /\ Authorized(gen)
    /\ bindings[r].generation = gen
    /\ bindings[r].state \in {"active", "idle"}

RequireBinding(r, gen) == r \notin quarantined /\ BindingUsable(r, gen)

\* Defective: a confirmation for an older generation hits the new binding.
DefectConfirmedBinding(r, gen, cleanupFailed) ==
    IF bindings[r].state \notin {"absent", "paused"}
    THEN [bindings[r] EXCEPT !.state = IF cleanupFailed THEN "cleanup_failed" ELSE "paused"]
    ELSE bindings[r]

\* confirm_execution_stopped: the binding it leaves behind ...
ConfirmedBinding(r, gen, cleanupFailed) ==
    IF /\ bindings[r].state \notin {"absent", "paused"}
       /\ bindings[r].generation = gen
    THEN [generation |-> gen, state |-> IF cleanupFailed THEN "cleanup_failed" ELSE "paused"]
    ELSE bindings[r]

\* ... and what it answers.
ConfirmAnswer(r, gen, cleanupFailed) ==
    /\ bindings[r].state # "absent"
    /\ bindings[r].generation = gen
    /\ bindings[r].state = "paused" => ~cleanupFailed

ConfirmStopped(r, gen, cleanupFailed) ==
    bindings' = [bindings EXCEPT ![r] = ConfirmedBinding(r, gen, cleanupFailed)]

\* refresh_hold_operation: only bindings older than the hold and outside the
\* quarantine count.
OlderIn(g, state) ==
    \E r \in Resource \ quarantined :
        bindings[r].state = state /\ bindings[r].generation < g

RefreshedHold(g, complete, error) ==
    [status |-> IF error \/ OlderIn(g, "cleanup_failed") THEN "failed"
                ELSE IF OlderIn(g, "active") \/ ~complete THEN "pending"
                ELSE "completed",
     complete |-> complete,
     error |-> error]

\* Defective: a busy lock is treated as acquired.
DefectLockFree(r) == r \in Resource

\* The file lock of a resource (execution_lock) belongs to whoever is inside it.
LockFree(r) ==
    \A w \in Worker : workers[w].resource = r => workers[w].pc \notin {"entered", "running"}

RunsOn(w, r) == workers[w].pc = "running" /\ workers[w].resource = r
Busy(r) == \E w \in Worker : RunsOn(w, r)
-------------------------------------------------------------------------------
(* Governance of the account *)

\* Defective: work in flight is parked as well.
DefectParksActive(r) == r \notin quarantined /\ bindings[r].state \in {"idle", "active"}

\* Defective: the quarantine is not consulted.
DefectParksQuarantined(r) == bindings[r].state = "idle"

\* The bindings a hold parks: nothing runs under them as far as they tell.
Parked(r) == r \notin quarantined /\ bindings[r].state = "idle"

\* update_account_status.  Entering the hold advances the generation, revokes
\* the grants, writes the hold and parks the idle bindings, in one transaction.
UpdateAccountStatus(disabled, pending) ==
    LET entering == ~Held /\ (disabled \/ pending)
        next == account.generation + 1
    IN  /\ entering => next <= MaxGeneration
        /\ account' = [disabled |-> disabled, pending |-> pending,
                       generation |-> IF entering THEN next ELSE account.generation]
        /\ grants' = IF entering THEN {} ELSE grants
        /\ holds' = IF entering
                    THEN [holds EXCEPT ![next] =
                            [status |-> "pending", complete |-> FALSE, error |-> FALSE]]
                    ELSE holds
        /\ bindings' = [r \in Resource |->
                          IF entering /\ Parked(r)
                          THEN [bindings[r] EXCEPT !.state = "paused"]
                          ELSE bindings[r]]
        /\ UNCHANGED <<quarantined, registered, pausedTasks, workers, rounds>>

\* Defective: a held account may still be granted.
DefectIssueGrant ==
    /\ grants' = grants \union {account.generation}
    /\ UNCHANGED <<account, bindings, holds, quarantined, registered, pausedTasks, workers, rounds>>

\* create_grant: a grant is issued under the authorisation of the moment.
IssueGrant ==
    /\ ~Held
    /\ grants' = grants \union {account.generation}
    /\ UNCHANGED <<account, bindings, holds, quarantined, registered, pausedTasks, workers, rounds>>

\* Two quarantine manifests, each registered once and never changed; what both
\* name is refused alike.  The first may name anything ...
RegisterQuarantine(targets) ==
    /\ "initial" \notin registered
    /\ targets # {}
    /\ quarantined' = quarantined \union targets
    /\ registered' = registered \union {"initial"}
    /\ UNCHANGED <<account, bindings, holds, grants, pausedTasks, workers, rounds>>

\* ... the other adds chats whose cleanup has failed and stayed so.
RegisterChatQuarantine(targets) ==
    /\ "chat" \notin registered
    /\ targets # {} /\ targets \subseteq Locked \ quarantined
    /\ \A r \in targets : bindings[r].state = "cleanup_failed"
    /\ quarantined' = quarantined \union targets
    /\ registered' = registered \union {"chat"}
    /\ UNCHANGED <<account, bindings, holds, grants, pausedTasks, workers, rounds>>

\* Defective: a completed hold is reopened.
DefectRetryHold(g) ==
    /\ holds[g].status # "none"
    /\ holds' = [holds EXCEPT ![g] = [status |-> "pending", complete |-> FALSE, error |-> FALSE]]
    /\ UNCHANGED <<account, bindings, grants, quarantined, registered, pausedTasks, workers, rounds>>

\* retry_account_execution_hold: the same hold is reconciled again.
RetryHold(g) ==
    /\ holds[g].status \in {"pending", "failed"}
    /\ holds' = [holds EXCEPT ![g] = [status |-> "pending", complete |-> FALSE, error |-> FALSE]]
    /\ UNCHANGED <<account, bindings, grants, quarantined, registered, pausedTasks, workers, rounds>>
-------------------------------------------------------------------------------
(* Executors *)

Stays(w) == workers' = [workers EXCEPT ![w] = NotRunning]
MovesTo(w, pc) == workers' = [workers EXCEPT ![w].pc = pc]

\* capture_authorization, for a request that runs the locked resource r.
Capture(w, r) ==
    /\ workers[w].pc = "out"
    /\ r \in Locked
    /\ ~Held
    /\ workers' = [workers EXCEPT ![w] =
                     [pc |-> "ready", generation |-> account.generation, resource |-> r]]
    /\ UNCHANGED <<account, bindings, holds, grants, quarantined, registered, pausedTasks, rounds>>

\* bind_execution, first binding of a resource: what both callers below share.
NewBinding(r, gen, state) ==
    /\ bindings[r].state = "absent"
    /\ r \notin quarantined
    /\ Authorized(gen)
    /\ bindings' = [bindings EXCEPT ![r] = [generation |-> gen, state |-> state]]

\* The request binds the locked resource it is about to run.
Bind(w, state) ==
    /\ workers[w].pc = "ready"
    /\ workers[w].resource \in Locked
    /\ NewBinding(workers[w].resource, workers[w].generation, state)
    /\ UNCHANGED <<account, holds, grants, quarantined, registered, pausedTasks, workers, rounds>>

\* create_semantic_workspace_task binds the task active and queues it.
CreateTask(r) ==
    /\ r \in Workspace
    /\ NewBinding(r, account.generation, "active")
    /\ UNCHANGED <<account, holds, grants, quarantined, registered, pausedTasks, workers, rounds>>

\* _launch_admitted_job: the queue worker acts with the generation of the binding.
Launch(w, r) ==
    /\ workers[w].pc = "out"
    /\ RequireBinding(r, bindings[r].generation)
    /\ workers' = [workers EXCEPT ![w] =
                     [pc |-> "ready", generation |-> bindings[r].generation, resource |-> r]]
    /\ UNCHANGED <<account, bindings, holds, grants, quarantined, registered, pausedTasks, rounds>>

\* A lock acquired without waiting, or given up.
Enter(w) ==
    /\ workers[w].pc = "ready"
    /\ IF LockFree(workers[w].resource) THEN MovesTo(w, "entered") ELSE Stays(w)
    /\ UNCHANGED <<account, bindings, holds, grants, quarantined, registered, pausedTasks, rounds>>

\* Defective: the check made before the lock was taken is trusted.
DefectActivate(w) ==
    LET r == workers[w].resource IN
    /\ workers[w].pc = "entered"
    /\ r \in Locked \ quarantined
    /\ bindings[r].generation = workers[w].generation
    /\ bindings' = [bindings EXCEPT ![r].state = "active"]
    /\ MovesTo(w, "running")
    /\ UNCHANGED <<account, holds, grants, quarantined, registered, pausedTasks, rounds>>

\* running_execution checks the binding again under the lock and marks it active.
Activate(w) ==
    LET r == workers[w].resource IN
    /\ workers[w].pc = "entered"
    /\ r \in Locked
    /\ \/ /\ RequireBinding(r, workers[w].generation)
          /\ bindings' = [bindings EXCEPT ![r].state = "active"]
          /\ MovesTo(w, "running")
       \/ /\ ~RequireBinding(r, workers[w].generation)
          /\ Stays(w)
          /\ UNCHANGED bindings
    /\ UNCHANGED <<account, holds, grants, quarantined, registered, pausedTasks, rounds>>

\* _run_task_with_authorization checks the binding and leaves its state alone.
Begin(w) ==
    /\ workers[w].pc = "entered"
    /\ workers[w].resource \in Workspace
    /\ RequireBinding(workers[w].resource, workers[w].generation)
    /\ MovesTo(w, "running")
    /\ UNCHANGED <<account, bindings, holds, grants, quarantined, registered, pausedTasks, rounds>>

\* The body returns and the binding is still usable: it becomes idle.
Return(w) ==
    LET r == workers[w].resource IN
    /\ workers[w].pc = "running"
    /\ RequireBinding(r, workers[w].generation)
    /\ bindings' = [bindings EXCEPT ![r].state = "idle"]
    /\ Stays(w)
    /\ UNCHANGED <<account, holds, grants, quarantined, registered, pausedTasks, rounds>>

\* running_execution sees ExecutionDenied, from a checkpoint of the body or
\* from the last state change, and confirms the stop.
Denied(w) ==
    LET r == workers[w].resource IN
    /\ workers[w].pc = "running"
    /\ r \in Locked \ quarantined
    /\ ~BindingUsable(r, workers[w].generation)
    /\ ConfirmStopped(r, workers[w].generation, FALSE)
    /\ Stays(w)
    /\ UNCHANGED <<account, holds, grants, quarantined, registered, pausedTasks, rounds>>

\* Any other exception of the body: how far the resource got is unknown.
BodyFails(w) ==
    LET r == workers[w].resource IN
    /\ workers[w].pc = "running"
    /\ r \in Locked \ quarantined
    /\ ConfirmStopped(r, workers[w].generation, TRUE)
    /\ Stays(w)
    /\ UNCHANGED <<account, holds, grants, quarantined, registered, pausedTasks, rounds>>

\* The quarantine refuses every write of the executor, its last one included.
Ejected(w) ==
    /\ workers[w].pc \in {"entered", "running"}
    /\ workers[w].resource \in quarantined
    /\ Stays(w)
    /\ UNCHANGED <<account, bindings, holds, grants, quarantined, registered, pausedTasks, rounds>>

\* Defective: the task is shown as paused although its runtime goes on.
DefectFinishPause(r, gen, shown, published, terminal, stopped) ==
    /\ terminal => r \notin pausedTasks
    /\ IF published /\ bindings[r].generation = gen
       THEN /\ ConfirmStopped(r, gen, ~terminal /\ ~stopped)
            /\ pausedTasks' = IF terminal THEN shown ELSE shown \union {r}
       ELSE pausedTasks' = shown /\ UNCHANGED bindings

\* _finish_account_pause for one generation of workspace r, under its lock:
\* publications first, then the runtime, then the stop proof.  A task in a
\* terminal status has no runtime left and keeps its status; a binding that
\* moved on is left alone.  shown are the tasks shown as paused when it starts:
\* pause_account_execution has already shown r as pausing.
FinishPause(r, gen, shown, published, terminal, stopped) ==
    /\ terminal => r \notin pausedTasks
    /\ IF published /\ bindings[r].generation = gen
       THEN /\ ConfirmStopped(r, gen, ~terminal /\ ~stopped)
            /\ pausedTasks' = IF terminal THEN shown
                              ELSE IF stopped THEN shown \union {r}
                              ELSE shown \ {r}
       ELSE pausedTasks' = shown /\ UNCHANGED bindings

\* watch_account: the task is denied, its runtime cannot be stopped, and the
\* code goes on waiting for the execution under the same lock.
StopFails(w) ==
    LET r == workers[w].resource IN
    /\ workers[w].pc = "running"
    /\ r \in Workspace \ quarantined
    /\ ~BindingUsable(r, workers[w].generation)
    /\ ConfirmStopped(r, workers[w].generation, TRUE)
    /\ pausedTasks' = pausedTasks \ {r}
    /\ UNCHANGED <<account, holds, grants, quarantined, registered, workers, rounds>>

\* _run_task_with_authorization sees ExecutionDenied and pauses its own task.
PauseDenied(w) ==
    LET r == workers[w].resource IN
    /\ workers[w].pc \in {"entered", "running"}
    /\ r \in Workspace \ quarantined
    /\ ~BindingUsable(r, workers[w].generation)
    /\ \E published \in PublicationOutcomes, terminal, stopped \in BOOLEAN :
            FinishPause(r, workers[w].generation, pausedTasks, published, terminal, stopped)
    /\ Stays(w)
    /\ UNCHANGED <<account, holds, grants, quarantined, registered, rounds>>

\* _launch_admitted_job finds a queued task denied and pauses it.
PauseQueued(r, published, terminal, stopped) ==
    /\ bindings[r].state # "absent"
    /\ r \notin quarantined
    /\ ~BindingUsable(r, bindings[r].generation)
    /\ LockFree(r)
    /\ FinishPause(r, bindings[r].generation, pausedTasks \ {r}, published, terminal, stopped)
    /\ UNCHANGED <<account, holds, grants, quarantined, registered, workers, rounds>>

\* The process dies, or a workspace body ends without a final status: the lock
\* is released and the binding keeps its state.
Crash(w) ==
    /\ workers[w].pc # "out"
    /\ Stays(w)
    /\ UNCHANGED <<account, bindings, holds, grants, quarantined, registered, pausedTasks, rounds>>

\* Defective: the harness run is taken over in whatever state it is.
DefectResumable(x, gen) == bindings[x].state # "absent" /\ bindings[x].generation = gen

\* resume_execution: only a stop proof of the generation the caller read.
Resumable(x, gen) == bindings[x].state = "paused" /\ bindings[x].generation = gen

\* resume_account_workspace_execution and create_semantic_workspace_revision
\* with account_resume_generation: the owner continues a paused task under the
\* current generation, with the waiting harness run it owns if there is one.
Resume(r, harness) ==
    LET resumed == {r} \union harness IN
    /\ LockFree(r)
    /\ r \in pausedTasks
    /\ ~Held
    /\ resumed \intersect quarantined = {}
    /\ \A x \in resumed : Resumable(x, bindings[r].generation)
    /\ bindings' = [x \in Resource |->
                      IF x \in resumed
                      THEN [generation |-> account.generation, state |-> "idle"]
                      ELSE bindings[x]]
    /\ pausedTasks' = pausedTasks \ {r}
    /\ UNCHANGED <<account, holds, grants, quarantined, registered, workers, rounds>>
-------------------------------------------------------------------------------
(* The account execution manager *)

\* _run_admitted_once lists the pending holds, oldest first.
ListHolds(m) ==
    LET pending == {g \in Generation : holds[g].status = "pending"} IN
    /\ rounds[m].phase = "sleeping"
    /\ pending # {}
    /\ rounds' = [rounds EXCEPT ![m] = [Sleeping EXCEPT !.phase = "listed", !.ops = pending]]
    /\ UNCHANGED <<account, bindings, holds, grants, quarantined, registered, pausedTasks, workers>>

\* ... asks the scheduler and snapshots the older bindings of the next hold.
\* An incomplete inventory ends the hold's turn before any binding is read.
TakeHold(m, g, outcome) ==
    LET older == {r \in Resource \ quarantined : /\ bindings[r].state # "absent"
                                                 /\ bindings[r].generation < g}
        todo == IF outcome = "uninventoried" THEN {} ELSE older
    IN  /\ rounds[m].phase = "listed"
        /\ g \in rounds[m].ops
        /\ \A h \in rounds[m].ops : g <= h
        /\ rounds' = [rounds EXCEPT ![m] =
               [phase |-> "reconciling", ops |-> rounds[m].ops \ {g}, hold |-> g,
                seen |-> [r \in Resource |-> IF r \in todo THEN bindings[r] ELSE NotBound],
                todo |-> todo,
                complete |-> outcome = "stopped",
                error |-> outcome \in {"unavailable", "uninventoried"}]]
        /\ UNCHANGED <<account, bindings, holds, grants, quarantined, registered, pausedTasks, workers>>

\* What _reconcile_binding returns for r, folded into the round.
Found(m, r, stopped, unknown) ==
    rounds' = [rounds EXCEPT ![m] =
        [rounds[m] EXCEPT !.todo = @ \ {r},
                          !.complete = @ /\ stopped,
                          !.error = @ \/ unknown]]

Reconciling(m, r) == rounds[m].phase = "reconciling" /\ r \in rounds[m].todo

\* The resource was quarantined after the snapshot.
ReconcileQuarantined(m, r) ==
    /\ Reconciling(m, r)
    /\ r \in quarantined
    /\ Found(m, r, FALSE, TRUE)
    /\ UNCHANGED <<account, bindings, holds, grants, quarantined, registered, pausedTasks, workers>>

\* The snapshot says idle or paused: confirm, whatever the binding is by now.
ReconcileParked(m, r) ==
    LET seen == rounds[m].seen[r] IN
    /\ Reconciling(m, r)
    /\ r \in Locked \ quarantined
    /\ seen.state \in {"idle", "paused"}
    /\ ConfirmStopped(r, seen.generation, FALSE)
    /\ Found(m, r, ConfirmAnswer(r, seen.generation, FALSE), FALSE)
    /\ UNCHANGED <<account, holds, grants, quarantined, registered, pausedTasks, workers>>

\* Defective: an unknown outcome is left for the next round.
DefectReconcileLocked(m, r, finished) ==
    LET seen == rounds[m].seen[r] IN
    /\ Reconciling(m, r)
    /\ r \in Locked \ quarantined
    /\ seen.state \in {"active", "cleanup_failed"}
    /\ LockFree(r)
    /\ IF finished
       THEN /\ ConfirmStopped(r, seen.generation, FALSE)
            /\ Found(m, r, ConfirmAnswer(r, seen.generation, FALSE), FALSE)
       ELSE /\ Found(m, r, FALSE, FALSE)
            /\ UNCHANGED bindings
    /\ UNCHANGED <<account, holds, grants, quarantined, registered, pausedTasks, workers>>

\* Otherwise only the lock tells whether a holder is left; a free lock with an
\* unfinished row means the outcome is unknown.
ReconcileLocked(m, r, finished) ==
    LET seen == rounds[m].seen[r] IN
    /\ Reconciling(m, r)
    /\ r \in Locked \ quarantined
    /\ seen.state \in {"active", "cleanup_failed"}
    /\ LockFree(r)
    /\ IF finished
       THEN /\ ConfirmStopped(r, seen.generation, FALSE)
            /\ Found(m, r, ConfirmAnswer(r, seen.generation, FALSE), FALSE)
       ELSE /\ Found(m, r, FALSE, TRUE)
            /\ UNCHANGED bindings
    /\ UNCHANGED <<account, holds, grants, quarantined, registered, pausedTasks, workers>>

\* pause_account_execution for a binding still at the snapshotted generation.
ReconcileWorkspace(m, r, published, terminal, stopped) ==
    /\ Reconciling(m, r)
    /\ r \in Workspace \ quarantined
    /\ bindings[r].generation = rounds[m].seen[r].generation
    /\ ~RequireBinding(r, bindings[r].generation)
    /\ LockFree(r)
    /\ FinishPause(r, bindings[r].generation, pausedTasks \ {r}, published, terminal, stopped)
    /\ Found(m, r, published /\ (terminal \/ stopped), FALSE)
    /\ UNCHANGED <<account, holds, grants, quarantined, registered, workers>>

\* _active: a job for the workspace r has been started and has not ended.
Launched(r) == r \in Workspace /\ \E w \in Worker : workers[w].pc # "out" /\ workers[w].resource = r

\* The lock is held, or the job of this process is about to take it: not stopped,
\* try again next round.  A paused task found so is shown as pausing again.
ReconcileBusy(m, r) ==
    /\ Reconciling(m, r)
    /\ r \notin quarantined
    /\ r \in Locked => rounds[m].seen[r].state \in {"active", "cleanup_failed"}
    /\ r \in Workspace => /\ bindings[r].generation = rounds[m].seen[r].generation
                          /\ ~RequireBinding(r, bindings[r].generation)
    /\ ~LockFree(r) \/ Launched(r)
    /\ pausedTasks' = pausedTasks \ {r}
    /\ Found(m, r, FALSE, FALSE)
    /\ UNCHANGED <<account, bindings, holds, grants, quarantined, registered, workers>>

\* The workspace was resumed after the snapshot: this hold no longer owns it.
ReconcileMoved(m, r) ==
    /\ Reconciling(m, r)
    /\ r \in Workspace \ quarantined
    /\ \/ bindings[r].generation # rounds[m].seen[r].generation
       \/ RequireBinding(r, bindings[r].generation)
    /\ Found(m, r, FALSE, FALSE)
    /\ UNCHANGED <<account, bindings, holds, grants, quarantined, registered, pausedTasks, workers>>

\* The round writes what it found; the table may have changed meanwhile.
WriteHold(m) ==
    LET round == rounds[m] IN
    /\ round.phase = "reconciling"
    /\ round.todo = {}
    /\ holds' = [holds EXCEPT ![round.hold] =
                   RefreshedHold(round.hold, round.complete /\ ~round.error, round.error)]
    /\ rounds' = [rounds EXCEPT ![m] =
                   IF round.ops = {} THEN Sleeping
                   ELSE [Sleeping EXCEPT !.phase = "listed", !.ops = round.ops]]
    /\ UNCHANGED <<account, bindings, grants, quarantined, registered, pausedTasks, workers>>

\* The manager's process dies in the middle of a round, and is started again.
ManagerCrash(m) ==
    /\ rounds[m].phase \notin {"down", "sleeping"}
    /\ rounds' = [rounds EXCEPT ![m] = [Sleeping EXCEPT !.phase = "down"]]
    /\ UNCHANGED <<account, bindings, holds, grants, quarantined, registered, pausedTasks, workers>>

ManagerStart(m) ==
    /\ rounds[m].phase = "down"
    /\ rounds' = [rounds EXCEPT ![m] = Sleeping]
    /\ UNCHANGED <<account, bindings, holds, grants, quarantined, registered, pausedTasks, workers>>
-------------------------------------------------------------------------------
Governance ==
    \/ \E disabled, pending \in BOOLEAN : UpdateAccountStatus(disabled, pending)
    \/ IssueGrant
    \/ \E r \in Workspace : CreateTask(r)
    \/ \E r \in Workspace, published \in PublicationOutcomes, terminal, stopped \in BOOLEAN :
          PauseQueued(r, published, terminal, stopped)
    \/ \E targets \in SUBSET Resource : RegisterQuarantine(targets) \/ RegisterChatQuarantine(targets)
    \/ \E g \in Generation : RetryHold(g)
    \/ \E r \in Workspace, harness \in {{}} \union {{h} : h \in Locked} : Resume(r, harness)

Executing(w) ==
    \/ \E r \in Locked : Capture(w, r)
    \/ \E state \in {"active", "idle"} : Bind(w, state)
    \/ \E r \in Workspace : Launch(w, r)
    \/ Enter(w) \/ Activate(w) \/ Begin(w) \/ Return(w)
    \/ Denied(w) \/ BodyFails(w) \/ StopFails(w) \/ PauseDenied(w)
    \/ Ejected(w) \/ Crash(w)

\* What a round does on its own account, without waiting for anybody.
Reconcile(m) ==
    \/ \E g \in Generation, outcome \in SchedulerOutcomes : TakeHold(m, g, outcome)
    \/ \E r \in Resource :
          \/ ReconcileQuarantined(m, r)
          \/ ReconcileParked(m, r)
          \/ \E finished \in BOOLEAN : ReconcileLocked(m, r, finished)
          \/ \E published \in PublicationOutcomes, terminal, stopped \in BOOLEAN :
                ReconcileWorkspace(m, r, published, terminal, stopped)
          \/ ReconcileBusy(m, r)
          \/ ReconcileMoved(m, r)
    \/ WriteHold(m)

Managing(m) == ListHolds(m) \/ Reconcile(m) \/ ManagerCrash(m) \/ ManagerStart(m)

Next ==
    \/ Governance
    \/ \E w \in Worker : Executing(w)
    \/ \E m \in Manager : Managing(m)

Spec == Init /\ [][Next]_vars

\* Every started execution goes on to its lock and its check; a denied one
\* meets a checkpoint (watch_account polls, execution_checkpoint wraps every
\* call) and unwinds.  The manager polls for ever and dies finitely often.
\* Requests for a resource that refuses them do not go on for ever: each takes
\* the lock for a moment, and might meet every poll of the manager.
Unwinds(w) == Denied(w) \/ BodyFails(w) \/ PauseDenied(w) \/ Ejected(w)
Probes(w) == Enter(w) /\ ~BindingUsable(workers[w].resource, workers[w].generation)

Fairness ==
    /\ \A w \in Worker : /\ WF_vars(Enter(w) \/ Activate(w) \/ Begin(w))
                         /\ WF_vars(Unwinds(w))
                         /\ <>[][~Probes(w)]_vars
    /\ \A m \in Manager : /\ WF_vars(ListHolds(m) \/ Reconcile(m) \/ ManagerStart(m))
                          /\ <>[][~ManagerCrash(m)]_vars

FairSpec == Spec /\ Fairness
-------------------------------------------------------------------------------
(* Properties *)

\* An executor between its check and its last write still owns its binding: no
\* resume, no other executor and no late confirmation has taken it over.  A
\* locked resource is then also known to be active, so a hold counts it.
\* Code: running_execution, confirm_execution_stopped, resume_execution.
RunnerOwnsBinding ==
    \A w \in Worker : workers[w].pc = "running" =>
        LET b == bindings[workers[w].resource] IN
        /\ b.generation = workers[w].generation
        /\ workers[w].resource \in Locked => b.state = "active"
        /\ \A v \in Worker \ {w} : ~RunsOn(v, workers[w].resource)

\* A paused locked resource has no executor: its stop proof is true, whichever
\* of the hold, the executor and the manager wrote it, in whatever order.
\* Code: confirm_execution_stopped, update_account_status, _reconcile_binding.
PausedIsQuiet == \A r \in Locked : bindings[r].state = "paused" => ~Busy(r)

\* A task shown as paused has its stop proof and no executor; this is what
\* account_resume_strategy and resume_account_workspace_execution trust.
\* Code: _finish_account_pause, update_account_workspace_state.
PausedTaskIsQuiet == \A r \in pausedTasks : bindings[r].state = "paused" /\ ~Busy(r)

\* A completed hold tells the administrator that everything older than it is
\* over: no older executor outside the quarantine runs, and none can be counted
\* as active or failed any more.  It stays true after the hold was completed,
\* through re-enabling, resumes, later holds and stale rounds.
\* Code: _run_admitted_once, refresh_hold_operation.
CompletedHoldIsQuiet ==
    \A g \in Generation : holds[g].status = "completed" =>
        \A r \in Resource \ quarantined :
            bindings[r].generation < g /\ bindings[r].state # "absent" =>
                bindings[r].state = "paused" /\ ~Busy(r)

\* No two executors are inside the lock of one resource.
Exclusion ==
    \A v, w \in Worker :
        /\ v # w
        /\ workers[v].pc \in {"entered", "running"}
        /\ workers[w].pc \in {"entered", "running"}
        => workers[v].resource # workers[w].resource

\* Whoever is past its admission has a binding, and a running executor's binding
\* is still the one it checked.
Owned ==
    \A w \in Worker :
        LET b == bindings[workers[w].resource] IN
        /\ workers[w].pc # "out" => workers[w].resource \in Resource
        /\ workers[w].pc # "out" /\ workers[w].resource \in Workspace => b.state # "absent"
        /\ workers[w].pc = "running" =>
              /\ b.generation = workers[w].generation /\ b.state # "absent"
              /\ workers[w].resource \in Locked => b.state = "active"

\* Holds, and the rounds that work on them, are never ahead of the account.
Ordered ==
    /\ \A g \in Generation : holds[g].status # "none" => g <= account.generation
    /\ \A m \in Manager : /\ \A g \in rounds[m].ops : g <= account.generation
                          /\ rounds[m].hold <= account.generation

\* What a round has snapshotted and not yet reconciled is older than the account,
\* still bound, and not at work again if the snapshot saw it parked.
Snapshots ==
    \A m \in Manager : \A r \in rounds[m].todo :
        LET seen == rounds[m].seen[r] IN
        /\ rounds[m].phase = "reconciling"
        /\ seen.generation < account.generation
        /\ bindings[r].state # "absent"
        /\ /\ seen.state \in {"idle", "paused"}
           /\ bindings[r].generation = seen.generation
           => bindings[r].state # "active"

\* Every hold parks what is idle, so what is idle belongs to the present.
IdleIsCurrent ==
    \A r \in Resource \ quarantined :
        bindings[r].state = "idle" => bindings[r].generation = account.generation

\* While a round still finds its hold complete, what it has been through is quiet.
Swept ==
    \A m \in Manager : rounds[m].phase = "reconciling" /\ rounds[m].complete =>
        \A r \in Resource \ (quarantined \union rounds[m].todo) :
            bindings[r].state # "absent" /\ bindings[r].generation < rounds[m].hold => ~Busy(r)

\* What the safety of holds rests on, step by step: the lock, the executor's
\* claim on its binding, the age of snapshots and the work a round has done.
\* Code: running_execution, _run_admitted_once, confirm_execution_stopped.
ExecutionInvariant ==
    /\ TypeOK /\ Exclusion /\ Owned /\ Ordered /\ Snapshots /\ IdleIsCurrent /\ Swept
    /\ PausedTaskIsQuiet /\ CompletedHoldIsQuiet

\* Whoever holds an unrevoked grant holds it under the generation the account
\* executes under now; a held account has none.
\* Code: update_account_status, create_grant.
GrantsFollowAccount ==
    /\ grants \subseteq {account.generation}
    /\ Held => grants = {}

\* The binding of a quarantined resource never changes again, whatever hold,
\* executor, manager or resume touches its owner.
\* Code: _require_unquarantined_binding, update_account_status.
QuarantineFreezes ==
    [][\A r \in quarantined : bindings'[r] = bindings[r]]_vars

\* A binding changes generation only by an explicit resume of a live account
\* from a stop proof that is true at that moment.
\* Code: resume_execution and its two callers.
ResumedFromProof ==
    [][\A r \in Resource :
          bindings[r].state # "absent" /\ bindings'[r].generation # bindings[r].generation =>
            /\ bindings[r].state = "paused" /\ ~Busy(r)
            /\ r \in Workspace => r \in pausedTasks
            /\ ~Held /\ bindings'[r] = [generation |-> account.generation, state |-> "idle"]]_vars

\* A late stop or a late failure never reaches a binding that is usable now,
\* unless its own executor of this generation reports it.
\* Code: the generation test of confirm_execution_stopped.
LateStopIsHarmless ==
    [][\A r \in Resource \ quarantined :
          /\ BindingUsable(r, bindings[r].generation)
          /\ bindings'[r].state \in {"paused", "cleanup_failed"}
          => \/ account' # account
             \/ \E w \in Worker : RunsOn(w, r) /\ workers[w].generation = account.generation]_vars

\* With one manager, a hold once reported completed stays completed.
\* Code: _run_admitted_once, retry_account_execution_hold.
CompletedIsFinal ==
    [][\A g \in Generation : holds[g].status = "completed" => holds'[g].status = "completed"]_vars

\* A hold does not stay pending for ever: the manager completes it, or reports a
\* failure that the administrator can retry - unless one of three things meets
\* round after round: schedules that are still running, a publication in flight,
\* or a runtime that cannot be proved stopped under a binding the hold parked
\* itself, whose failure nothing records.
\* Code: AccountExecutionManager._run, refresh_hold_operation, _finish_account_pause.
Obstructed(m) ==
    \/ \E g \in Generation : "busy" \in SchedulerOutcomes /\ TakeHold(m, g, "busy")
    \/ \E r \in Workspace, published \in PublicationOutcomes, terminal \in BOOLEAN :
          /\ ~published \/ (~terminal /\ bindings[r].state = "paused")
          /\ ReconcileWorkspace(m, r, published, terminal, FALSE)
HoldSettles ==
    (\A m \in Manager : <>[][~Obstructed(m)]_vars) =>
        \A g \in Generation : holds[g].status = "pending" ~> holds[g].status \in {"completed", "failed"}

\* Files, rows, locks and rounds that work from snapshots: yet every step has the
\* effect of one on a single table, or none.
\* Code: running_execution, confirm_execution_stopped, update_account_status,
\* resume_execution, _run_admitted_once, refresh_hold_operation.
Bound == {r \in Resource : bindings[r].state # "absent"}
Generations == [r \in Resource |-> bindings[r].generation]
Working == {r \in Resource : Busy(r)}
Proved == pausedTasks \union {r \in Locked : bindings[r].state = "paused"}
Over == {g \in Generation : holds[g].status = "completed"}
Table == INSTANCE HoldPromise
         WITH account <- [held |-> Held, generation |-> account.generation],
              known <- Bound, bound <- Generations, working <- Working,
              proved <- Proved, outside <- quarantined, over <- Over
KeepsHolds == Table!Spec
===============================================================================
