------------------------ MODULE AccountExecution_proofs ------------------------
(***************************************************************************)
(* Theorems about AccountExecution, for every set of resources, executors  *)
(* and managers and every bound.                                           *)
(***************************************************************************)
EXTENDS AccountExecution, TLAPS

\* The values the provers are told about once and for all.
LEMMA ConstantsAreTyped ==
    /\ 0 \in Generation
    /\ NotRunning \in Execution
    /\ NotBound \in Binding
    /\ Sleeping \in Round
BY BoundAssumption DEF Generation, NotRunning, Execution, NotBound, Binding, BindingState,
   Sleeping, Round

\* A confirmation leaves a binding that keeps its generation.
LEMMA ConfirmedBindingType ==
    ASSUME TypeOK, NEW r \in Resource, NEW gen \in Generation, NEW failed \in BOOLEAN
    PROVE  /\ ConfirmedBinding(r, gen, failed) \in Binding
           /\ ConfirmedBinding(r, gen, failed).generation = bindings[r].generation
BY DEF TypeOK, ConfirmedBinding, Binding, BindingState

\* Confirming a stop changes one binding, and never its generation.
LEMMA ConfirmStoppedEffect ==
    ASSUME TypeOK, NEW r \in Resource, NEW gen \in Generation, NEW failed \in BOOLEAN,
           ConfirmStopped(r, gen, failed)
    PROVE  /\ bindings' \in [Resource -> Binding]
           /\ \A x \in Resource : bindings'[x].generation = bindings[x].generation
           /\ \A x \in Resource \ {r} : bindings'[x] = bindings[x]
           /\ bindings'[r] \in {bindings[r], [generation |-> bindings[r].generation,
                                              state |-> "paused"],
                               [generation |-> bindings[r].generation,
                                state |-> "cleanup_failed"]}
           /\ bindings'[r] # bindings[r] => bindings[r].generation = gen
           /\ bindings[r].state \in {"absent", "paused"} => bindings'[r] = bindings[r]
BY ConfirmedBindingType DEF TypeOK, ConfirmStopped, ConfirmedBinding, Binding, BindingState

\* So does a workspace pause.
LEMMA FinishPauseEffect ==
    ASSUME TypeOK, NEW r \in Workspace, NEW gen \in Generation,
           NEW shown \in SUBSET pausedTasks, NEW published \in BOOLEAN,
           NEW terminal \in BOOLEAN, NEW stopped \in BOOLEAN,
           FinishPause(r, gen, shown, published, terminal, stopped)
    PROVE  /\ bindings' \in [Resource -> Binding]
           /\ pausedTasks' \subseteq Workspace
           /\ \A x \in Resource : bindings'[x].generation = bindings[x].generation
           /\ \A x \in Resource \ {r} : bindings'[x] = bindings[x]
           /\ bindings'[r] \in {bindings[r], [generation |-> bindings[r].generation,
                                              state |-> "paused"],
                               [generation |-> bindings[r].generation,
                                state |-> "cleanup_failed"]}
           /\ bindings[r].state \in {"absent", "paused"} => bindings'[r] = bindings[r]
<1>1. PICK failed \in BOOLEAN : failed <=> (~terminal /\ ~stopped)
  OBVIOUS
<1>2. r \in Resource
  BY DEF Resource
<1>3. pausedTasks' \subseteq Workspace
  BY DEF FinishPause, TypeOK
<1>4. CASE UNCHANGED bindings
  BY <1>2, <1>3, <1>4 DEF TypeOK, Binding, BindingState
<1>5. CASE ConfirmStopped(r, gen, ~terminal /\ ~stopped)
  <2>1. ConfirmStopped(r, gen, failed)
    BY <1>1, <1>5 DEF ConfirmStopped, ConfirmedBinding
  <2> QED
    BY <1>2, <1>3, <2>1, ConfirmStoppedEffect
<1> QED
  BY <1>4, <1>5 DEF FinishPause

\* Init establishes the type invariant.
LEMMA TypeInit == Init => TypeOK
BY ConstantsAreTyped DEF Init, TypeOK, Hold, HoldStatus

LEMMA GovernanceType == TypeOK /\ Governance => TypeOK'
<1> SUFFICES ASSUME TypeOK, Governance PROVE TypeOK'
    OBVIOUS
<1>1. ASSUME NEW disabled \in BOOLEAN, NEW pending \in BOOLEAN,
             UpdateAccountStatus(disabled, pending)
      PROVE  TypeOK'
  <2>1. account' \in [disabled : BOOLEAN, pending : BOOLEAN, generation : Generation]
    BY <1>1, BoundAssumption DEF TypeOK, UpdateAccountStatus, Generation
  <2>2. bindings' \in [Resource -> Binding]
    BY <1>1 DEF TypeOK, UpdateAccountStatus, Binding, BindingState
  <2>3. holds' \in [Generation -> Hold] /\ grants' \subseteq Generation
    BY <1>1 DEF TypeOK, UpdateAccountStatus, Hold, HoldStatus
  <2> QED
    BY <1>1, <2>1, <2>2, <2>3 DEF TypeOK, UpdateAccountStatus
<1>2. CASE IssueGrant
  BY <1>2 DEF TypeOK, IssueGrant
<1>3. ASSUME NEW r \in Workspace, CreateTask(r) PROVE TypeOK'
  BY <1>3 DEF TypeOK, CreateTask, NewBinding, Resource, Binding, BindingState
<1>4. ASSUME NEW r \in Workspace, NEW published \in PublicationOutcomes,
             NEW terminal \in BOOLEAN, NEW stopped \in BOOLEAN,
             PauseQueued(r, published, terminal, stopped)
      PROVE  TypeOK'
  <2>1. bindings[r].generation \in Generation /\ published \in BOOLEAN
    BY OutcomesAssumption DEF TypeOK, Binding, Resource
  <2>2. bindings' \in [Resource -> Binding] /\ pausedTasks' \subseteq Workspace
    BY <1>4, <2>1, FinishPauseEffect DEF PauseQueued
  <2> QED
    BY <1>4, <2>2 DEF TypeOK, PauseQueued
<1>5. ASSUME NEW targets \in SUBSET Resource,
             RegisterQuarantine(targets) \/ RegisterChatQuarantine(targets)
      PROVE  TypeOK'
  BY <1>5 DEF TypeOK, RegisterQuarantine, RegisterChatQuarantine
<1>6. ASSUME NEW g \in Generation, RetryHold(g) PROVE TypeOK'
  BY <1>6 DEF TypeOK, RetryHold, Hold, HoldStatus
<1>7. ASSUME NEW r \in Workspace, NEW harness \in {{}} \union {{h} : h \in Locked},
             Resume(r, harness)
      PROVE  TypeOK'
  BY <1>7 DEF TypeOK, Resume, Binding, BindingState
<1> QED
  BY <1>1, <1>2, <1>3, <1>4, <1>5, <1>6, <1>7 DEF Governance

LEMMA ExecutingType == ASSUME TypeOK, NEW w \in Worker, Executing(w) PROVE TypeOK'
<1> USE DEF Execution
<1>1. ASSUME NEW r \in Locked, Capture(w, r) PROVE TypeOK'
  BY <1>1 DEF TypeOK, Capture, Resource
<1>2. ASSUME NEW state \in {"active", "idle"}, Bind(w, state) PROVE TypeOK'
  BY <1>2 DEF TypeOK, Bind, NewBinding, Binding, BindingState, Resource
<1>3. ASSUME NEW r \in Workspace, Launch(w, r) PROVE TypeOK'
  BY <1>3 DEF TypeOK, Launch, Binding, Resource
<1>4. CASE Enter(w)
  BY <1>4, ConstantsAreTyped DEF TypeOK, Enter, MovesTo, Stays
<1>5. CASE Activate(w)
  BY <1>5, ConstantsAreTyped
     DEF TypeOK, Activate, MovesTo, Stays, Binding, BindingState, Resource
<1>6. CASE Begin(w)
  BY <1>6 DEF TypeOK, Begin, MovesTo
<1>7. CASE Return(w)
  BY <1>7, ConstantsAreTyped DEF TypeOK, Return, Stays, Binding, BindingState, Resource
<1>8. ASSUME NEW failed \in BOOLEAN, workers[w].resource \in Resource,
             ConfirmStopped(workers[w].resource, workers[w].generation, failed)
      PROVE  bindings' \in [Resource -> Binding]
  BY <1>8, ConfirmStoppedEffect DEF TypeOK
<1>9. CASE Denied(w)
  BY <1>8, <1>9, ConstantsAreTyped DEF TypeOK, Denied, Stays, Resource
<1>10. CASE BodyFails(w)
  BY <1>8, <1>10, ConstantsAreTyped DEF TypeOK, BodyFails, Stays, Resource
<1>11. CASE StopFails(w)
  BY <1>8, <1>11 DEF TypeOK, StopFails, Resource
<1>12. CASE PauseDenied(w)
  <2>1. PICK published \in PublicationOutcomes, terminal \in BOOLEAN, stopped \in BOOLEAN :
            FinishPause(workers[w].resource, workers[w].generation, pausedTasks,
                        published, terminal, stopped)
    BY <1>12 DEF PauseDenied
  <2>2. /\ workers[w].resource \in Workspace /\ workers[w].generation \in Generation
        /\ published \in BOOLEAN
    BY <1>12, OutcomesAssumption DEF TypeOK, PauseDenied, Execution
  <2>3. bindings' \in [Resource -> Binding] /\ pausedTasks' \subseteq Workspace
    BY <2>1, <2>2, FinishPauseEffect
  <2> QED
    BY <1>12, <2>3, ConstantsAreTyped DEF TypeOK, PauseDenied, Stays
<1>13. CASE Ejected(w)
  BY <1>13, ConstantsAreTyped DEF TypeOK, Ejected, Stays
<1>14. CASE Crash(w)
  BY <1>14, ConstantsAreTyped DEF TypeOK, Crash, Stays
<1> QED
  BY <1>1, <1>2, <1>3, <1>4, <1>5, <1>6, <1>7, <1>9, <1>10, <1>11, <1>12, <1>13, <1>14
     DEF Executing

\* What a reconciliation step writes into the round is well typed.
LEMMA FoundType ==
    ASSUME TypeOK, NEW m \in Manager, NEW r \in Resource, NEW stopped, NEW unknown,
           Found(m, r, stopped, unknown)
    PROVE  rounds' \in [Manager -> Round]
<1> DEFINE todo == rounds[m].todo \ {r}
           complete == rounds[m].complete /\ stopped
           error == rounds[m].error \/ unknown
<1>1. complete \in BOOLEAN /\ error \in BOOLEAN
  OBVIOUS
<1>2. rounds[m] \in Round /\ todo \in SUBSET Resource
  BY DEF TypeOK, Round
<1>3. \A b \in BOOLEAN, e \in BOOLEAN :
          [rounds[m] EXCEPT !.todo = todo, !.complete = b, !.error = e] \in Round
  BY <1>2 DEF Round
<1>4. [rounds[m] EXCEPT !.todo = todo, !.complete = complete, !.error = error] \in Round
  <2> HIDE DEF todo, complete, error
  <2> QED
    BY <1>1, <1>3
<1>5. rounds' = [rounds EXCEPT ![m] =
          [rounds[m] EXCEPT !.todo = todo, !.complete = complete, !.error = error]]
  BY Zenon DEF Found
<1> QED
  <2> HIDE DEF todo, complete, error
  <2> QED
    BY <1>4, <1>5 DEF TypeOK

LEMMA ManagingType == ASSUME TypeOK, NEW m \in Manager, Managing(m) PROVE TypeOK'
<1>1. CASE ListHolds(m)
  BY <1>1, ConstantsAreTyped DEF TypeOK, ListHolds, Round
<1>2. ASSUME NEW g \in Generation, NEW outcome \in SchedulerOutcomes, TakeHold(m, g, outcome)
      PROVE  TypeOK'
  BY <1>2, ConstantsAreTyped DEF TypeOK, TakeHold, Round
<1> DEFINE gen(r) == rounds[m].seen[r].generation
<1>3. \A r \in Resource : gen(r) \in Generation
  BY DEF TypeOK, Round, Binding
<1>5. ASSUME NEW r \in Resource, ReconcileQuarantined(m, r) PROVE TypeOK'
  BY <1>5, FoundType DEF TypeOK, ReconcileQuarantined
<1>6. ASSUME NEW r \in Resource, ReconcileParked(m, r) PROVE TypeOK'
  <2>1. bindings' \in [Resource -> Binding]
    BY <1>3, <1>6, ConfirmStoppedEffect DEF ReconcileParked
  <2>2. rounds' \in [Manager -> Round]
    BY <1>6, FoundType DEF ReconcileParked
  <2> QED
    BY <1>6, <2>1, <2>2 DEF TypeOK, ReconcileParked
<1>7. ASSUME NEW r \in Resource, NEW finished \in BOOLEAN, ReconcileLocked(m, r, finished)
      PROVE  TypeOK'
  <2>1. bindings' \in [Resource -> Binding]
    BY <1>3, <1>7, ConfirmStoppedEffect DEF ReconcileLocked, TypeOK
  <2>2. rounds' \in [Manager -> Round]
    BY <1>7, FoundType DEF ReconcileLocked
  <2> QED
    BY <1>7, <2>1, <2>2 DEF TypeOK, ReconcileLocked
<1>8. ASSUME NEW r \in Resource, NEW published \in PublicationOutcomes,
             NEW terminal \in BOOLEAN, NEW stopped \in BOOLEAN,
             ReconcileWorkspace(m, r, published, terminal, stopped)
      PROVE  TypeOK'
  <2>1. /\ r \in Workspace /\ published \in BOOLEAN
        /\ bindings[r].generation \in Generation
    BY <1>8, OutcomesAssumption DEF ReconcileWorkspace, TypeOK, Binding
  <2>2. bindings' \in [Resource -> Binding] /\ pausedTasks' \subseteq Workspace
    BY <1>8, <2>1, FinishPauseEffect DEF ReconcileWorkspace
  <2>3. rounds' \in [Manager -> Round]
    BY <1>8, FoundType DEF ReconcileWorkspace
  <2> QED
    BY <1>8, <2>2, <2>3 DEF TypeOK, ReconcileWorkspace
<1>9. ASSUME NEW r \in Resource, ReconcileBusy(m, r) PROVE TypeOK'
  BY <1>9, FoundType DEF TypeOK, ReconcileBusy
<1>10. ASSUME NEW r \in Resource, ReconcileMoved(m, r) PROVE TypeOK'
  BY <1>10, FoundType DEF TypeOK, ReconcileMoved
<1>11. CASE WriteHold(m)
  <2>1. \A g \in Generation, complete \in BOOLEAN, error \in BOOLEAN :
            RefreshedHold(g, complete, error) \in Hold
    BY DEF RefreshedHold, Hold, HoldStatus
  <2>2. holds' \in [Generation -> Hold]
    BY <1>11, <2>1 DEF WriteHold, TypeOK, Round
  <2>3. rounds' \in [Manager -> Round]
    BY <1>11, ConstantsAreTyped DEF WriteHold, TypeOK, Round
  <2> QED
    BY <1>11, <2>2, <2>3 DEF TypeOK, WriteHold
<1>12. CASE ManagerCrash(m)
  BY <1>12, ConstantsAreTyped DEF TypeOK, ManagerCrash, Round
<1>13. CASE ManagerStart(m)
  BY <1>13, ConstantsAreTyped DEF TypeOK, ManagerStart
<1> QED
  BY <1>1, <1>2, <1>5, <1>6, <1>7, <1>8, <1>9, <1>10, <1>11, <1>12, <1>13
     DEF Managing, Reconcile

LEMMA TypeNext == TypeOK /\ [Next]_vars => TypeOK'
<1> SUFFICES ASSUME TypeOK, [Next]_vars PROVE TypeOK'
    OBVIOUS
<1>1. CASE UNCHANGED vars
  BY <1>1 DEF TypeOK, vars
<1> QED
  BY <1>1, GovernanceType, ExecutingType, ManagingType DEF Next

\* Every variable keeps its type: no generation leaves its bound, no hold or
\* binding takes a status that the tables do not know.
THEOREM TypeCorrect == Spec => []TypeOK
BY TypeInit, TypeNext, PTL DEF Spec
-------------------------------------------------------------------------------
(* Grants *)

\* An unrevoked model-connection grant always belongs to the generation the
\* account executes under now, and a held account has none.
THEOREM GrantsAreCurrent == Spec => []GrantsFollowAccount
<1>1. Init => GrantsFollowAccount
  BY DEF Init, GrantsFollowAccount, Held
<1>2. GrantsFollowAccount /\ [Next]_vars => GrantsFollowAccount'
  <2> SUFFICES ASSUME GrantsFollowAccount, [Next]_vars PROVE GrantsFollowAccount'
    OBVIOUS
  <2>1. ASSUME UNCHANGED <<account, grants>> PROVE GrantsFollowAccount'
    BY <2>1 DEF GrantsFollowAccount, Held
  <2>2. ASSUME NEW disabled \in BOOLEAN, NEW pending \in BOOLEAN,
               UpdateAccountStatus(disabled, pending)
        PROVE  GrantsFollowAccount'
    BY <2>2 DEF GrantsFollowAccount, Held, UpdateAccountStatus
  <2>3. CASE IssueGrant
    BY <2>3 DEF GrantsFollowAccount, Held, IssueGrant
  <2>4. ASSUME Governance PROVE GrantsFollowAccount'
    BY <2>1, <2>2, <2>3, <2>4
       DEF Governance, CreateTask, PauseQueued, RegisterQuarantine, RegisterChatQuarantine,
       RetryHold, Resume
  <2>5. ASSUME NEW w \in Worker, Executing(w) PROVE UNCHANGED <<account, grants>>
    BY <2>5 DEF Executing, Capture, Bind, Launch, Enter, Activate, Begin, Return, Denied,
       BodyFails, StopFails, PauseDenied, Ejected, Crash
  <2>6. ASSUME NEW m \in Manager, Managing(m) PROVE UNCHANGED <<account, grants>>
    BY <2>6 DEF Managing, Reconcile, ListHolds, TakeHold, ReconcileQuarantined,
       ReconcileParked, ReconcileLocked, ReconcileWorkspace, ReconcileBusy, ReconcileMoved,
       WriteHold, ManagerCrash, ManagerStart
  <2> QED
    BY <2>1, <2>4, <2>5, <2>6 DEF Next, vars
<1> QED
  BY <1>1, <1>2, PTL DEF Spec
-------------------------------------------------------------------------------
(* Quarantine *)

\* Once the quarantine manifest names a resource no step of anybody changes its
\* binding: not a hold, an executor's last write, a reconciliation or a resume.
THEOREM QuarantineIsFrozen == Spec => QuarantineFreezes
<1> DEFINE Frozen == \A r \in quarantined : bindings'[r] = bindings[r]
<1>1. TypeOK /\ [Next]_vars => [Frozen]_vars
  <2> SUFFICES ASSUME TypeOK, Next PROVE Frozen
    BY DEF vars
  <2>1. quarantined \subseteq Resource
    BY DEF TypeOK
  <2>2. ASSUME UNCHANGED bindings PROVE Frozen
    BY <2>2
  <2>3. ASSUME NEW r \in Resource \ quarantined,
               \A x \in Resource \ {r} : bindings'[x] = bindings[x]
        PROVE  Frozen
    BY <2>1, <2>3
  <2>4. ASSUME NEW r \in Resource \ quarantined, NEW b,
               bindings' = [bindings EXCEPT ![r] = b]
        PROVE  Frozen
    BY <2>1, <2>4 DEF TypeOK
  <2>5. ASSUME NEW r \in Resource \ quarantined, NEW gen, NEW shown, NEW published,
               NEW terminal, NEW stopped, FinishPause(r, gen, shown, published, terminal, stopped)
        PROVE  Frozen
    BY <2>2, <2>4, <2>5 DEF FinishPause, ConfirmStopped
  <2>6. ASSUME Governance PROVE Frozen
    <3>1. ASSUME NEW disabled \in BOOLEAN, NEW pending \in BOOLEAN,
                 UpdateAccountStatus(disabled, pending)
          PROVE  Frozen
      BY <2>1, <3>1 DEF UpdateAccountStatus, Parked
    <3>2. ASSUME NEW r \in Workspace, CreateTask(r) PROVE Frozen
      BY <2>4, <3>2 DEF CreateTask, NewBinding, Resource
    <3>3. ASSUME NEW r \in Workspace, NEW published, NEW terminal, NEW stopped,
                 PauseQueued(r, published, terminal, stopped)
          PROVE  Frozen
      BY <2>5, <3>3 DEF PauseQueued, Resource
    <3>4. ASSUME NEW r \in Workspace, NEW harness, Resume(r, harness) PROVE Frozen
      BY <2>1, <3>4 DEF Resume
    <3> QED
      BY <2>2, <2>6, <3>1, <3>2, <3>3, <3>4
         DEF Governance, IssueGrant, RegisterQuarantine, RegisterChatQuarantine, RetryHold
  <2>7. ASSUME NEW w \in Worker, Executing(w) PROVE Frozen
    <3> DEFINE r == workers[w].resource
    <3>1. CASE \E state \in {"active", "idle"} : Bind(w, state)
      BY <2>4, <3>1 DEF Bind, NewBinding, Resource
    <3>2. CASE Activate(w)
      BY <2>2, <2>4, <3>2 DEF Activate, RequireBinding, Resource
    <3>3. CASE Return(w)
      <4>1. CASE r \in Resource
        BY <2>4, <3>3, <4>1 DEF Return, RequireBinding
      <4>2. CASE r \notin Resource
        BY <2>1, <3>3, <4>2 DEF Return, TypeOK
      <4> QED
        BY <4>1, <4>2
    <3>4. CASE Denied(w) \/ BodyFails(w) \/ StopFails(w)
      BY <2>4, <3>4 DEF Denied, BodyFails, StopFails, ConfirmStopped, Resource
    <3>5. CASE PauseDenied(w)
      BY <2>5, <3>5 DEF PauseDenied, Resource
    <3> QED
      BY <2>2, <2>7, <3>1, <3>2, <3>3, <3>4, <3>5
         DEF Executing, Capture, Launch, Enter, Begin, Ejected, Crash
  <2>8. ASSUME NEW m \in Manager, Managing(m) PROVE Frozen
    <3>1. ASSUME NEW r \in Resource, ReconcileParked(m, r) PROVE Frozen
      BY <2>4, <3>1 DEF ReconcileParked, ConfirmStopped
    <3>2. ASSUME NEW r \in Resource, NEW finished, ReconcileLocked(m, r, finished) PROVE Frozen
      BY <2>2, <2>4, <3>2 DEF ReconcileLocked, ConfirmStopped
    <3>3. ASSUME NEW r \in Resource, NEW published, NEW terminal, NEW stopped,
                 ReconcileWorkspace(m, r, published, terminal, stopped)
          PROVE  Frozen
      BY <2>5, <3>3 DEF ReconcileWorkspace
    <3> QED
      BY <2>2, <2>8, <3>1, <3>2, <3>3
         DEF Managing, Reconcile, ListHolds, TakeHold, ReconcileQuarantined, ReconcileBusy,
             ReconcileMoved, WriteHold, ManagerCrash, ManagerStart
  <2> QED
    BY <2>6, <2>7, <2>8 DEF Next
<1> QED
  BY <1>1, TypeCorrect, PTL DEF Spec, QuarantineFreezes
===============================================================================
