# A formal model of Mangrove's execution and delivery core

Mangrove (the repository this project sits beside) is a multi-user workspace in which a language-model
agent works on tasks and publishes formal deliveries. Its core is not the agent but the authority around
it: who may execute, when that ends, what counts as proof that something stopped, and when a result has
become a formal delivery. That state lives in SQLite rows, file locks and directories, is touched by
request handlers, queue workers, background managers and other processes, and must survive crashes at any
point. This directory models it in TLA+, checks it with TLC and proves the central part with TLAPS.

Paths below are relative to the repository's Python package (`src/src/` of this checkout).

## 1. Inventory

| Component | State it keeps | Operations | Interacts through | Hard behaviour | Correct when |
|---|---|---|---|---|---|
| Account execution (`account_execution.py`, `api/execution.py`) | `users.execution_generation/disabled/pending`, `account_execution_bindings`, `account_execution_holds`; one file lock per resource | capture, bind, mark active/idle, confirm stopped, resume, enter/leave a hold | everything that executes checks a binding | check and use in different transactions, late stop reports, crashes with the binding active | a stop proof is true, a completed hold is true, a late report never reaches a newer generation |
| Account manager (`api/account_execution_runtime.py`) | the round in progress (in memory) | list pending holds, snapshot bindings, reconcile each, write the result | store, workspace runtime, scheduler, validators | acts on a snapshot while others move; dies in the middle | every hold is settled; completed is final and true |
| Workspace runtime (`api/semantic_workspace_runtime.py`) | queue, `_active` jobs, the token of heavy jobs, task and revision rows | enqueue, launch, run, watch the account, cancel, pause, resume, publish | account execution, kernel, verification, publishing | cancellation, hold and completion race with the job; a task may be dispatched twice | one executor per task, a paused task is quiet, a dispatch is made only for what is pending |
| Delivery publishing (`delivery_publishing/`) | `delivery_publish_intents`, `formal_delivery_runs`, staging and final directories, one file lock per publication key | publish (claim, gates, stage, commit point, rename, formal row), recover, revoke | runtime, verification, deletion, account holds | database and directories change in separate steps; crash between any two; retries and concurrent calls | one frozen manifest per key, the commit point is final, recovery always possible under a live authority |
| Source deletion (`source_acquisition/deletion.py`) | deletion operations and tombstones | plan, begin, stop, clean | publishing, runtime | cleans what others use | a delivery keeps its record and is never replaced, only the outputs a deletion lists are gone; nothing is published from deleted sources |
| Candidate verification (`candidate_verification/`) | attempts `requested/running/passed/failed/inconclusive/outcome_unknown/cancelled`, leases | request, start, finish, cancel, recover orphans | publishing, runtime, routing (P0) | orphaned workers, supersession, P0 in between | one active attempt per candidate set, only the latest passed attempt publishes |
| Runtime routing (`runtime_routing/`) | rollout row with a version, gates, approvals, assignments | record gate, change mode, resolve assignment | publishing (P0), runtime | compare-and-set against reads outside the transaction | an assignment is frozen and agrees with the rollout it was made under |
| Agent kernel (`agentic_runtime/kernel.py`, `repository.py`) | runtime rows, frozen binding, events, in-memory cancel marks | start, resume, steer, cancel, accept results | adapters, runtime | late results and events against cancellation and restart | a cancelled or sealed run accepts nothing later |
| Scheduler (`scheduler/`) | plans, runs, a binding per plan | claim, run, mark, pause, reconcile | account execution | two databases, late callbacks, crash while active | a plan runs once per due time and never after its pause |
| Model connections (`model_connections/`) | grants, leases, qualification ledger | issue, authorise, settle, revoke | account execution, runtime | revocation against use | no grant of an older generation is usable |
| Capability governance (`capability_governance/`) | validation runs, approvals, publications | validate, approve, publish, emergency stop | runtime gate | supervision of running work | nothing runs on a revoked capability |
| Conversation steering (`conversation_steering/`) | turns, proposals, decisions | handle turn, decide, safe point | runtime | replaced decisions, late turns | a decision is applied once, to the proposal it saw |
| Quarantine and seals (`deployment_quarantine.py`, `runtime_run_seals.py`) | two manifests, seals of runs | register, refuse | everything | registered while work is in flight | nothing named in them is written again |
| Deployment drain (`services/deployment_drain.py`) | admissions | admit, drain | all background work | a drain against admissions in progress | drained means nothing admitted is left |
| Harness, conductor, chat agent, data preparation, collectors, parsers, memory, migrations, routes | their own rows and files | sequential work | run as resources under account execution, or are pure input/output | little shared state | outside this model |

`PROJECT.json` lists all of them with their status, and the hazards at their lines.

## 2. Modules

| Module | What it is |
|---|---|
| `AccountExecution` | accounts, bindings, holds, grants, quarantine, executors and the manager |
| `HoldPromise` | abstract specification: what works, what is proved stopped, what is reported, in one table |
| `MCAccountExecution` | its TLC instances |
| `AccountExecution_proofs` | types, grants, quarantine, proved |
| `AccountHolds_proofs` | the inductive invariant of holds and eight theorems with it, among them the refinement of `HoldPromise` |
| `DeliveryPublishing` | publication of the candidates of one task, and what runs beside it |
| `DeliveryPromise` | abstract specification: open, promised, delivered |
| `MCDeliveryPublishing` | its TLC instances |
| `DeliveryPublishing_proofs` | its inductive invariant, nine theorems from it, among them the refinement of `DeliveryPromise` |
| `CandidateVerification`, `MCCandidateVerification` | verification attempts of one candidate set, their workers and takeovers |
| `VerificationPromise` | abstract specification: the record of attempts |
| `CandidateVerification_proofs` | its inductive invariant and four theorems |
| `VerificationRecord_proofs` | the refinement of `VerificationPromise` |
| `WorkspaceRun`, `MCWorkspaceRun` | one run: queue job, kernel, runtime operation, container, stops |
| `RunPromise` | abstract specification: task, run, container and job as one record |
| `WorkspaceRun_proofs` | its inductive invariant and six theorems, among them the refinement of `RunPromise` |
| `RuntimeRouting`, `MCRuntimeRouting` | gate snapshots, rollout mode, approvals, previews, assignments |
| `RolloutPromise` | abstract specification: a rollout in which nobody acts on an old reading |
| `RuntimeRouting_proofs` | its inductive invariant and three theorems, among them the refinement of `RolloutPromise` |
| `Scheduler`, `MCScheduler` | plans, polling, claims, runs, account holds over plans |
| `SchedulePromise` | abstract specification: one cell per plan |
| `Scheduler_proofs` | its inductive invariant and four theorems, among them the refinement of `SchedulePromise` |

### AccountExecution

One owner. A *Locked* resource stands for the kinds that run inside `running_execution` (data task,
harness run, chat): file lock, check, mark active, body, mark idle. A *Workspace* resource is a task of the
queue worker: it runs under the generation stored in its own binding, is bound active when it is created,
and nothing marks it active again. One action is one `BEGIN IMMEDIATE` transaction or one lock operation:

* `UpdateAccountStatus` is the whole of `update_account_status` (generation, grants, hold row, parked
  bindings); `IssueGrant`, `RegisterQuarantine`, `RegisterChatQuarantine` (a second manifest that adds chats whose cleanup
  failed; both are merged when a write is refused), `RetryHold` the other governance writes.
* `Capture`, `Bind`, `Enter`, `Activate`, `Return`, `Denied`, `BodyFails` are the steps of a locked execution;
  `CreateTask`, `Launch`, `Enter`, `Begin`, `Return`, `PauseDenied`, `StopFails`, `PauseQueued`, `Resume` those of a
  task. `Ejected` is the refusal by the quarantine, `Crash` the death of a process (the lock is dropped, the
  row stays).
* `ListHolds`, `TakeHold`, the `Reconcile*` actions and `WriteHold` are one round of the manager, each binding a
  step of its own: the round awaits between them. `seen` is the snapshot the code holds in its local list.

Abstracted: what a body does; the answer of `_confirm_runtime_stopped` and of the publication reconciliation
(inputs `stopped`, `published`); the scheduler's answer and the inventory (`SchedulerOutcomes`); the status of
a finished row (`finished`). Terminal tasks are an input of the pause (`terminal`).

`HoldPromise` is the same as one table that everybody reads and writes at once: work begins only under the account
of that moment, a stop proof is given only for what does not work, a hold is reported only when nothing older
works. `KeepsHolds` maps the bindings to it: *working* is an executor past its check, *proved* a stop proof that a
resume would accept, wherever the code keeps it. Checks, snapshots and rounds, which the code spreads over many
transactions, have no place in it: each of them has the effect of one step on the table, or none.

### DeliveryPublishing

One task, several publication keys. A key belongs to one frozen command; `KeyOf` lets two commands claim the
same key, as a retry with other inputs does. Publishers are calls of `DeliveryPublisher.publish`, of any
process: from `Acquire` to its last step a publisher holds the file lock of its key. The intent row, the
staging directory, the final directory and the formal row are separate variables, because the code writes
them in separate steps. A manifest is a model value, and a new one differs from every one in use, as the
random identifiers in it do. *Automatic* commands are those of the queue worker, which carry no verification
attempt; *explicit* ones name their attempt.

Beside them: `Cancel`, `AdvanceRevision`, `SwitchP0`, `Supersede` (a newer attempt), `Hold`/`Reenable`, the
reconciliation of a hold (`StartPause`, `AbortPending`, `FinishPause`), `Resume`, `OpenDeletion` with
`CleanPublication` and `RemoveOutputs`, and `Crash`/`Restart` of any publisher at any step. A deletion aborts what
has no formal row and clears its directories; of a formal delivery it only takes the outputs it lists among its
objects (`_remove_object`), one file at a time and without the lock: `Partial` stands for a directory that lost some
of them, while formal row and intent stay. `Complete` is what the caller writes after
`publish` returns: it clears a cancellation.

`DeliveryPromise` states what the owner of a task is promised. `KeepsPromises` maps a commit point under a live
authority to a promise and the formal row to a delivery: every step of the system is a step of it or leaves it
unchanged, checked by TLC and proved.

### CandidateVerification

One frozen candidate set. `first` is the attempt its workspace run makes; *requested* attempts come from owners
who inspect the set (`Inspect`: which reason a re-verification would have, and what forbids it) and request it
later (`Request`: the same conditions in the transaction that inserts the row). Workers are coroutines of any
process: `Lease` takes the file lock of the attempt without waiting, `Load` and `StartRequested` or
`CreateAndStart` claim the row, `VerifyStart` and `VerifyEnd` are the entry into the verifier and its outcome,
`Finish`, `FinishStopped`, `FinishInconclusive` the three ways the attempt ends, `Close` the release. Sweepers are
maintenance loops and account-pause rounds: `Scan` reads a running row for maintenance, `ScanHeld` a row whose
binding an account hold must stop, `Takeover` acts under the lease on the status that was read before. `Interrupt` cancels a worker at an await, `Crash` drops its lease. The gates (P0, task
row, ruleset) change at any time; `BeginCommit` and `Deliver` are the publication as verification sees it: `Explicit` names
the latest attempt and is compared with it at the commit point, `Automatic` is the queue worker's, which publishes on
the verdict of the run's own attempt and whose commit point does not look at attempts.

`VerificationPromise` is the record the owner relies on: at most one open attempt, one worker inside the verifier
under the account of the moment it entered, verdicts only from the worker inside and never over another one, silence
only of what has ended, nothing after the delivery. `KeepsVerification` maps rows, bindings and workers to it: a
leased, loaded or claimed attempt and all that a sweeper has read are invisible, only entering and leaving the
verifier and the writes of rows are seen. A re-verification that publishes its projection is `Answers` only while the
delivery is not written. A row that errors has an outcome of its own, because the code may end it without a verdict.

Abstracted: the report (a verdict or an error), the provider grant (`HasGrant`: whether a lost worker's outcome
is unknown), the files behind the candidate digest.

### WorkspaceRun

One revision of a task on the Pi runtime, in one asyncio process: an action is what runs between two awaits.
`Enqueue`, `Take` and `Launch` are maintenance, the queue and its workers: a heavy task that meets a job of another
heavy task (`TakeOther`, `EndOther`) or one of its own waits for the token, where it counts neither as queued nor as
active, so maintenance may dispatch it again; each dispatch is acted on when its turn comes, whatever the task shows
by then, unless it is over or to be stopped. `Begin` to `Recover` are the queue job up to its operation, with the execution lock, the `cancel` file and the
ledger of an older operation; `Plan` to `Close` the operation (`_owned_run`): ledger before container, the
checkpoint through the kernel's sink, creation, settling, cleanup. `LateCreate` is the container engine that
finishes a creation whose client died. `AwaitStop` and `Accept` are the kernel's acceptance of a result.
`AskStop`, `AskProof`, `TakeLock`, `TimeOut`, `CleanupFails` and `Stopped` are stops, by the owner, by maintenance,
by the job itself or by a deletion; `Interrupt` is what cancelling the job does to it. The `Decide*` actions are
what the job writes when its run ended, `Gate`, `Commit`, `Complete` and `PublishRaises` its publication from
outside. `Crash` drops memory, locks and coroutines and requeues what was running.

`RunPromise` is the run as its owner sees it. `KeepsRun` maps it to the task row, the outcome of the run row, the
`cancel` file (*barred*), the container or its creation (*alive*) and the job (*busy*); ledger, execution lock, kernel
memory, operation and stops in progress are not seen. Work begins only for an open run that is shown running and that
nobody ever asked to stop; a task is settled only with nothing alive; a cancelled run stays so; an unknown outcome is
shown until somebody wants the task stopped or a dispatch that was out before is acted on, and only what is pending is
dispatched; a delivery follows a candidate that passed. What the code does beyond a
tidy record is in it too: a job shows the task running over a stop (`Goes`), a stop that failed reopens a task that
was over (`Cancels`), a stop may reach a delivered run (`Stops`).

Abstracted: the agent's work (one of six outcomes), resources other than the main container (they share its
ledger), event contents. The adapter's exception for runs that were moved from another host is left out: on the
host that ran them it never applies.

### RuntimeRouting

`RecordGate` writes a snapshot and, in the same transaction, withdraws the rollout if the snapshot fails;
`RecordApproval`; `ReadRollout`, `ReadGates`, `ChangeRollout` are the readings and the compare-and-set of
`change_mode`. `Preview` and `Select` are the plan a request makes long before `Assign`, the transaction that
creates the revision. Snapshots are identified by their content, as their ids are.

`RolloutPromise` has neither readings nor previews: an approval moves the mode once, on the qualified snapshot of that
moment, and a revision is bound to what the mode of that moment allows. `KeepsRollout` says that the readings of
`change_mode` and the previews of requests, however old, never show: what is written is what one atomic step would
have written.

### Scheduler

Plans of one owner in one process. `BeginTick` reads the due plans, `Take` claims one when a consumer has a slot
(claim, binding and comparison with the row that was read are one step of the loop), `RunNow` is the manual run.
A run goes through `Begin` (history row), `StartWork`, `EndWork`, `Mark`, `FinishRun` or `RecordUnknown` or
`CloseStopped`, and `Release`; an `EndWork` by time-out leaves a worker nobody waits for, until `OrphanEnds`.
`Add`, `Pause`, `Resume`, `Edit`, `Cancel` are the owner's writes; plan and binding are in two databases and
`CommitsBinding` lets the process die between the two commits. `Hold`, `Enable` and `Reconcile` are the account.

`SchedulePromise` has one cell per plan where the code has a plan row, a binding in another database, a list of due
rows in memory and a run. `KeepsSchedule` maps a claimed plan to a *polled* or *manual* job, a binding whose outcome
nobody knows to a *lost* one, and the worker threads to `work`: a plan is free again only after its work ended, and is
run only when it is due at that moment or its owner runs it.

### How they compose

`DeliveryPublishing` carries its own small copy of the account state (`account`, `binding`): the part of
`AccountExecution` that publishing reads, with the same `BindingUsable`. `AccountExecution` sees publishing as
the input `published` of a pause, and the scheduler as one of `SchedulerOutcomes`: `Reconcile` of `Scheduler` is
where these come from, and its `StopReportIsTrue` is what makes a reported stop a fact. Likewise
`CandidateVerification` sees publishing as two steps (`BeginCommit`, `Deliver`), `DeliveryPublishing` sees
verification as the event `Supersede`, `WorkspaceRun` sees publishing as gate, commit point and return, and the
input `stopped` of `AccountExecution` is what `_confirm_runtime_stopped` proves in `WorkspaceRun`. A module that
joins accounts and publishing through the real binding and the real hold is the first item of the plan.

## 3. Runs

| Run | Instance | Checks |
|---|---|---|
| `shared` | 1 locked resource, 1 task, 2 executors, 1 manager, 1 hold, every outcome | stop proofs, paused tasks, completed holds, ownership, the inductive invariant, refinement of `HoldPromise` |
| `resume` | 1 executor, 2 successive holds | grants, quarantine, resume from proof, harmless late stops, completed is final |
| `live` | fair scheduling, 1 hold, every outcome of scheduler, publications and stop | a hold settles unless it is obstructed for ever |
| `owner` | 1 key, 2 explicit commands for it, 2 publishers, 3 manifests, all events | frozen delivery beside deletions, evidence for recovery, one answer, finality of the commit point, delivery only while current, the inductive invariant |
| `worker` | 1 explicit and 1 automatic key, 2 publishers, hold, resume, crash | refinement of `DeliveryPromise`, no half-finished publication in a paused task |
| `live_commit` | fair scheduling, automatic key, all events except cancellation | a publication past the commit point settles |
| `cv` | the run's attempt and 1 requested one, 2 workers, 1 sweeper, provider grants, 1 hold, 1 ruleset change, 1 crash or interruption, every event, fair scheduling | nobody verifies a finished or paused attempt, one verifier per attempt, the accepted cost, refinement of `VerificationPromise`, attempts end |
| `routing` | 3 snapshots over 2 gates (all pass, one fails, one checks fewer), 2 approvals, 1 mode change, 2 requests, 2 revisions | the inductive invariant, the new runtime only in an open rollout, legacy tasks stay, refinement of `RolloutPromise` |
| `run` | 1 run, 2 queue workers, 2 cancellations or deletions, 1 crash, 1 failing cleanup or time-out, fair scheduling | settled tasks are quiet, one container, final cancellations, refinement of `RunPromise` (an unknown outcome is asked about), stops settle |
| `scheduler` | 2 plans (one runs once, one is controlled by its owner), 1 slot, 2 days, 1 hold, 1 failure, crashes, fair scheduling | refinement of `SchedulePromise`, true reports, late runs, due plans are run |
| `overwrite`, `unstarted` | minimal instances | what a comment says and the code does not do, see section 6 |

Bounds and why they suffice. `MaxGeneration` counts holds: one hold has an older and a current generation, two
holds add a binding resumed in between, which is what late reports and stale rounds need. Two executors give
every race for one lock; a third would wait like the second. One resource of each kind is enough because no
rule relates two resources except a resume that takes a task and its harness run together, which the instance
contains. Two publishers give every race for one key; three manifests are one in final or formal, one in
staging and one new. `MaxRevision = 2` gives a current and a superseded revision. In `cv` one requested attempt
is one that recovers or repeats the first; that a chain of them repeats an attempt of unknown outcome only once
needs more attempts than TLC can take and is what `CostsAreAccepted` proves. A third takeover of one attempt
meets the same row as the second. In `run` two workers give one dispatch that is acted on and one that waits, the
second cancellation is the one beside maintenance; a crash during the recovery from a crash is beyond this run, and
the safety theorems hold for any number. In `shared` one hold means one old generation: a binding of a second
generation that is reconciled by the first hold is for `resume` (`ResumedFromProof`) and for the theorem
`CompletedHoldsAreQuiet`. In `scheduler` a plan that misses its day is seen to wait because the clock stops at
`LastDay`. In `scheduler` two days give a plan that is due again while its
first run is late. `Events` lets a run leave out events it has no question about; the two main runs leave out
nothing that their properties mention.
Symmetry is used for executors, publishers and manifests, and never in a run with fairness. Deadlock is
checked for `AccountExecution` and is off elsewhere: a task whose revision moved on, a finished run, a rollout
without approvals or plans that are done have nothing left to do.

Fairness. Account: an executor that started goes on to its lock and its check, and a denied one unwinds
(`watch_account` polls, every model call passes a checkpoint): weak fairness. The manager polls for ever: weak
fairness of its round, and it dies finitely often. Of scheduler, publications and runtime nothing is assumed:
`HoldSettles` says instead what a hold waits for. Schedules that are still running and a publication in flight keep it
pending, and so does a task that cannot be proved stopped when the hold itself parked its binding: the failure is not
written over a parked binding (`account_execution.py:137-138`) and the round finds it pending again. A run that was
cancelled before it had a ledger is such a task for ever (`pi_runtime.py:2049`, run `unstarted`). If these obstructions
end, the hold does. Requests refused because of the hold do not hit the lock at every
poll for ever. Nothing is assumed of bodies, of owners or of administrators. Publishing: a call that runs is
scheduled, a process that died is restarted, the worker's queue asks again for its publication (maintenance
lists pending tasks at every poll), holds are reconciled again, crashes are finitely many; an
incomplete deletion is continued by requests of its owner (`deletion.py:490`), so strong fairness of `CleanPublication`
assumes that somebody asks again. Verification: a
worker that started runs on (the verifier has time-outs), maintenance schedules requested rows and takes over
running ones for ever (strong fairness of `Scan`: the same sweeper also goes on hold rounds in between);
`AttemptSettles` asks further that the gates stop changing, because a P0 switch thrown for ever lets the run
start over for ever. Run: the event loop runs every coroutine that can go on, agent and engine answer within
their limits, maintenance repeats the stops it finds. Scheduler: the polling comes back, a consumer with a free
slot takes what is due, a run returns or exceeds its time. Nothing is assumed of owners or administrators.

Every property has a defective variant of one definition (the `Defect...` operators, each just before the
definition it replaces) under which TLC finds it violated: a lock not waited for, a check trusted across a
lock, a status test dropped, a recovery that starts again, a deletion that clears a delivered publication, and so on.

## 4. Proofs

### AccountExecution

For every number of resources, executors, managers and generations, under the assumptions of
`AccountExecution` (locked and workspace resources are disjoint, the outcome sets are what they are, the bound
is a natural number):

* `TypeCorrect`, `GrantsAreCurrent`, `QuarantineIsFrozen` in `AccountExecution_proofs`.
* `HoldsAreSound` in `AccountHolds_proofs`, and from it `RunnersKeepTheirBinding`, `StopProofsOfLockedResources`,
  `PausedTasksAreQuiet`, `CompletedHoldsAreQuiet`, `ResumesStartFromProof`, `LateStopsAreHarmless`.
* `CompletedHoldsStay`, for any bounds but one manager: with two, the slower round writes its older findings over a
  completed hold (hazard at `account_execution_runtime.py:126`), so the assumption stands in the theorem. It needs
  one more invariant, `StillPending`: what a round has listed is still pending.

`CompletedHoldIsQuiet` is not inductive: a round may complete a hold with what it saw earlier. The
strengthening `ExecutionInvariant` adds

* `Exclusion` and `Owned`: one executor per lock, and a running one's binding is the one it checked (active, if
  it is a locked resource);
* `Ordered`: holds and rounds are never ahead of the account;
* `Snapshots`: what a round has still to reconcile is older than the account, and a parked binding of the
  snapshot that has the same generation did not become active again;
* `IdleIsCurrent`: every hold parks what is idle, so an idle binding is of the present generation;
* `Swept`: while a round still finds its hold complete, everything it has been through is quiet.

The proof classifies each action by what it may do to the account, to bindings, to workers and to paused
tasks (`NextEffects`), what it may do to holds and rounds (`NextHolds`, `NextRounds`), and then has one lemma per
conjunct of the invariant over these classes; an action of the module is looked at once, not once per
conjunct. `ResumesStartFromProof` uses the invariant for the truth of the stop proof.

`HoldsAreKept`: the specification implements `HoldPromise`. Most actions touch one resource and give it no work;
`TouchedStops` says that whatever such a step writes is a `Stops` of the table or nothing, because `ExecutionInvariant`
makes every stop proof it may leave behind true. What remains are the steps that begin work, where the lock, the check
under it and `Owned` show that the check still holds (`StartsBegin`), the hold itself, whose parked bindings nobody
executes, the resume, which starts from proofs, and `WriteHold`, where `Swept` is what makes a report true.

### DeliveryPublishing

For every set of keys, commands, calls, manifests and events, under `CommandAssumption` (a command has one key
and one revision, the values that stand for nothing are no manifests) and `BoundAssumption`:

* `PublishingIsSafe`: `PublishingInvariant` always holds; from it `PublishingTypes`, `DeliveriesAreFrozen`,
  `EvidenceIsWhole`, `AnswersAgree`, `PausedIsSettled` and `LocksExclude`.
* `CommitPointHolds` and `DeliveriesAreCurrent`, the two action properties.
* `PromisesAreKept`: the specification implements `DeliveryPromise`.

None of the safety properties is inductive: that the answer of a recovery is the frozen manifest depends on what
each call remembers, and that a resumed task finds nothing pending on what a pause has still on its list.
`PublishingInvariant` adds

* `Exclusion` and `CallsKnow`: one call per key past `Acquire`, and what it knows of the row, the staging
  directory and the manifest at each of its steps;
* `Aged`: an intent is never of a later generation than the binding, the binding never of a later one than the
  account, and of an earlier one during a hold or a pause. Therefore authority never comes back: a resume gives the binding
  the new generation, which no present intent has;
* `Leftovers`: a final directory without a commit point belongs to an authority that ended, so the `rename` of a
  backed publication never meets one;
* `Settling`: while a pause still counts as complete, every pending intent is on its list;
* `CommittedIsCurrent`: the revision of a committed explicit publication is the active one, because
  `create_semantic_workspace_revision` refuses to leave it behind.

The proof looks at each action once. A step of a call, a cleanup or an abort changes the row of one key, in one
of six ways (`Claims`, `Fails`, `Revokes`, `Commits`, `Delivers`, or not at all), its directories in one of four and
its answers in one of two (`RowStep`); only the holder of the lock, or a step that found it free, does so. A step
of the account or the task leaves all rows as they are, and authority only ends (`EnvStep`, `EnvEffect`). Each conjunct
of the invariant, the action properties and the refinement then follow from these classes: `Commits` is a
promise, `Delivers` a delivery, a hold or a deletion a withdrawal, everything else a stutter.

### Scheduler

For every finite set of plans and any slots, days, holds and failures (`SchedulerAssumption`): `SchedulerIsSafe`
(`SchedulerInvariant`), and from it `NeverTwoExecutions`, `ReportsAreTrue` and `LateRunsKeepControl`. A count of
workers alone is not inductive: a worker outlives its run. The invariant adds `RunOwnsBinding` (a run in progress
owns the active binding it was claimed under, so nobody else can claim the plan), `WorkIsAccounted` (a worker
without a run left a failed cleanup behind, which is never claimed and never reported) and `ReportedIsPaused`
(what is older than a reported hold is proved stopped). One lemma per action; `LateRunsKeepControl` follows from
the definitions of the run's steps and the type invariant.

`ScheduleIsKept`: the specification implements `SchedulePromise`. A polling claims from a list it read earlier, possibly
days ago; `TickIsDue` (what it read was due then, and time does not go back) with the comparison of the claim makes
this a claim of a plan that is due now. `WorkIsAccounted` is what makes a released plan free of work.

### RuntimeRouting

For any gates, snapshots, approvals, administrators, requests, tasks and revisions (`SnapshotAssumption`,
`MaxRevisionAssumption`): `RolloutIsSafe` (`RoutingInvariant`), `PiNeedsAnOpenRollout` and `LegacyTasksStay`.
`OpenIsQualified` needs `ReadsAreSound`: what a mode change has read is still true as long as the snapshot it read
is the active one, and `ApprovalsAreSpent` needs it to know which approval a change carries. `PiOnlyWhileOpen`
and `LegacyStays` depend on what an old preview has seen; the lemma `PlansAlwaysFollow` strengthens them: a plan
that still fits rollout and revision was selected by the rule of that rollout from the assignments of now.

`RolloutIsKept`: the specification implements `RolloutPromise`. `ReadsAreSound` turns the compare-and-set of a mode
change into a `Move` on the active snapshot. A revision bound to the old runtime needs one more invariant, `PlansFit`:
a preview of the old runtime that still is for the next revision is of a task that is new or was on it, or was
made while the new runtime was not the default.

### CandidateVerification

For every set of attempts, workers, sweepers and events and every bound (`AttemptAssumption`,
`VerificationBoundAssumption`): `VerificationIsSafe` (`VerificationInvariant`), and from it `TypesAreRight`,
`StoppedAttemptsAreQuiet`, `CostsAreAccepted` and `DeliveredVerdictsStay`. That nobody verifies a finished attempt
is not inductive: what a sweeper has read may be old, and what an offer promises may have been taken by another
request. The invariant adds

* `Exclusion`, `ExecutesRunning` and `LiveIsActive`: one holder per lease, a worker past its claim has a running
  row, and a row that is requested or running has an active binding, which no hold parks by itself;
* `PaidOnce` and `CallsKnow`: a claim is the last moment at which an attempt has not been in the verifier;
* `SeenIsFinal` and `OffersAreNew`: the end of an attempt a sweeper has seen is final, and an offer is for an attempt
  not yet inserted, after one that has a verdict or whose outcome is unknown;
* `Placed`, `InsertedOnce` and `RepeatsFollow`: the history has every row once, and an attempt that repeats one of
  unknown outcome was inserted right after it, so there is one such attempt;
* `ReportsAreVerdicts`: a run whose candidates are ready has the report of its first attempt, so that attempt ended.

`RowStep` says what a step may do to the rows (park, insert, claim, end), `WorkStep` what a worker may do to itself,
`EndedBy` who may end a row. Their lemmas carry the invariant (`WorkerKeeps`, `OthersKeep`), and each action only has
to be shown to be of these kinds.

`VerificationIsKept` in `VerificationRecord_proofs`: the specification implements `VerificationPromise`. It needs
`RecordInvariant`, which TLC checked on the run's instance before:

* `OneLive`: at most one row is requested or running. A request is refused while another is open, and every later
  insertion looks again in its transaction;
* `FirstOpens`: the history begins with the run's own attempt;
* `BindingsTell`: what the binding of an attempt says about its end. A hold parks idle bindings only, so *silent* means
  ended with an answer, and never an unknown outcome;
* `SeenIsTrue`: the end a sweeper has read is still the end of its row when it acts, which is why a confirmation of a
  stop is never one of a running attempt.

What a change of one row is on the record is shown once (`BecomesOnRecord` and the lemmas after it); each action is then
one of these changes.

### WorkspaceRun

For every number of queue workers, cancellations, crashes and faults (`RunBoundAssumption`): `RunsAreSound`
(`RunInvariant`), and from it `RunTypes`, `OneContainerWorks`, `SettledTasksAreQuiet`, `CancelledRunsStay` and
`UnknownOutcomesAreAsked` (an unknown outcome is shown until the task is to be stopped or a dispatch from before is
acted on, and no dispatch is added). Not even the type invariant is inductive: that operation, job and execution lock go
together depends on which stops may interrupt a job where. The invariant adds

* `Ledger`: a container, or a creation under way, is in the ledger, and where an operation stands says what the ledger
  holds; nobody cleans up over a creation whose end is unknown;
* `Identity`: a run without identity has no ledger and no stop, so a job may be cancelled without one;
* `CleanResults`: a result that is not a failure left no ledger behind, nor did a candidate that goes to publication;
* `JobIsShown`: a job works only on a task that is queued, running or being stopped; one that was just launched may
  find a task that waits for its owner. With `Ledger` and `Rest` this is why a settled task is quiet;
* `QueueFits` (the part of `TypeOK` about the queue, an invariant of its own): every dispatch that waits and every
  job, this task's or another's, has a worker;
* `Stops`: a stop in progress has left its mark, one that saw no job keeps it that way, and the job's own stop ends
  with the job;
* `CancelledRun`: a cancelled run has no operation, no job about to begin or recover, and a kernel that refuses results;
* `DraftIsKnown`: a task does not show a draft together with an unknown outcome, so no approval queues it again. This
  and `Undispatched` (no step dispatches a task that shows an unknown outcome) bound what may repeat an unknown outcome to the dispatches
  that were out when it was recorded.

Each action has a lemma. Its first step says what the action does to the few fields the invariant speaks of
(`TaskBecomes`, `CleansUp`, `StopFails` and the like); the conjuncts follow from that alone.

`RunIsKept`: the specification implements `RunPromise`. It needs `RunRecord`, proved on the way:

* `Marked`: an operation that is not cancelled has met no stop, and a cancellation a job does not know yet has left
  its file. Therefore no container is created for a run somebody asked to stop, although the operation itself reads
  the file only when it plans: a later stop has cancelled it;
* `Unstarted`: a run without identity was never asked to stop and has come to nothing;
* `StopLasts`: what the kernel has stopped is not taken up again in this process: a job that a late dispatch starts
  is refused before it has an operation; and a delivered task is not marked as being cancelled;
* `RowFollows`: the row is open until the result is accepted and then tells what the job knows.

### Only model-checked

Liveness and everything that needs fairness or ENABLED is out of the prover's reach (`HoldSettles`,
`CommitSettles`, `AttemptSettles`, `StopSettles`, `DueIsRun`). Every invariant, every action property and every refinement of
the passing runs is proved. `NoVerdictAfterDelivery`, `UnknownIsAsked`, `OneExecution` and the inductive invariants
`SchedulerInvariant`, `VerificationInvariant` and `RunInvariant` have theorems and no run of their own: the first
follow from the refinements the runs check, the others were checked by TLC before they were proved.

The refinements say more than the invariants they rest on: that nothing an actor remembers, holds or has on its way
makes it do what the record of the moment would not allow. All six components have one.

## 5. What is not modelled

* Accounts: candidate, validation and source resources inside a round (the leases of candidates are in
  `CandidateVerification`); a hold record that is itself quarantined; more than one manager.
* Publishing: the owner-acceptance variant; the end of a deletion. An open deletion also stands for a task that was
  purged (`store.py:4328`): both forbid to publish. Once open, it stays open in the model.
* Verification: rebaselining of legacy attempts, historical authority, seals, drift of files, clock order of
  attempts.
* Runs: the account-hold path (in `AccountExecution`), supervision of the capability gate during a run, the switch
  of a revision by steering, the early host copy of a draft, seals, an orderly shutdown of the service, the
  CoreMind adapter.
* Routing: the records of gate comparisons, `resolve` (only tests call it), the mode `legacy_default` (nothing
  enters it).
* Scheduler: the deployment drain gate, quarantine, cron arithmetic (a plan with an end date is one that runs
  once), the contents of history rows, notifications, the read-modify-write of an edit, plans with legacy time
  zones; a known failure of the runner counts as its return.
* Database errors other than the death of the process. Language-model calls, parsers, collectors and the user
  interface have no place in these models.

The map covers a small share of the repository: most of its lines are request handlers, prompts, document and
network tools, data conversion and evaluation scripts, which keep no shared state.

## 6. Where code and documents disagree

Two have a run that finds them (`PROJECT.json`, `findings`):

* `overwrite`: a verifier that raises after the formal delivery covers the delivered verdict
  (`candidate_verification/service.py:1816`); the normal end of an attempt checks for it.
* `unstarted`: a run that is cancelled after its identity was stored and before its resource ledger was written
  can never be proved stopped; the task stays `cancelling` (`agentic_runtime/pi_runtime.py:2049`).

The others were met while modelling. The behaviour is in the modules unless it is said not to be; no property
forbids it.

* A hold writes the stop proof of a task that is being re-run, because a re-run leaves its binding idle
  (`account_execution.py:189`). The hold still waits for the task, so a completed hold stays true.
* An automatic publication does not look at cancellation and P0 again at the commit point
  (`delivery_publishing/repository.py:249`), though `CONTEXT.md:563` promises zero output before the boundary.
* A failed publication is stored with status `failed`, which the inventory of the deployment preflight does not
  know (`services/deployment_preflight.py:90`). The preflight is not modelled.
* After a cancellation and a crash past the commit point nobody finishes an automatic publication
  (`api/semantic_workspace_runtime.py:2381`), and new revisions are refused from then on. `CommitSettles` is therefore
  checked without cancellation.
* The pause of a task does not wait for a publisher that retries a failed publication
  (`delivery_publishing/repository.py:101`).
* A requested attempt without provider grant whose worker died during a hold is never finished: the sweep finds
  its binding unusable. The docstring at `candidate_verification/service.py:1950` wants a replayable end for every
  attempt; `AttemptSettles` excepts older generations for it.
* A cancellation that reaches the job during or after the commit of its publication ends the task as cancelled
  although it is delivered. A publication put off for a retry sets the task `running` over a cancellation, and so
  does a job that begins; with a crash after it the stop is forgotten (`Overwritten` in `StopSettles`).
* `_mark_result_unknown` says that only a new version may ask the model again after an unknown outcome
  ("暂停未知结果；只有用户创建新版本后才允许再次请求模型。", `api/semantic_workspace_runtime.py:4156`), and its event promises no automatic
  retry. A worker that waits for the token of heavy jobs (`:2387`) has taken the task out of `_queued` and it is not in
  `_active`, so maintenance dispatches it again (`:1604`, `:1847`); the check before the launch (`:2402`) passes a task that
  waits for its owner. The second dispatch therefore runs the task again after the first job has shown an unknown
  outcome, or a draft. The model does the same. `KeepsRun` and `UnknownOutcomesAreAsked` say what remains true: only a
  dispatch that was out before can do so, and none is added.
* An explicit publication looks for the latest attempt at its commit point (`delivery_publishing/repository.py:280-321`),
  the queue worker's does not: it may deliver candidates while a requested attempt over them is open or has failed.
* A job that is interrupted while it stops its own run ends the queue worker that awaits it.
* A crash between the kernel's record of an unknown outcome and the task's lets the run start again.
* A creation cut off by a crash leaves `.creating-main`; every later start and stop of the run refuses.
* The scheduler: an exception after the runner returned records the run as unknown, yet releases the binding, and
  the plan runs again, although `scheduler/service.py:8` forbids automatic retries of unknown runs; a cancelled plan
  can be made active again by an edit of its status.

## 7. Plan

1. `ExecutionAndDelivery`: accounts and publishing joined through the real binding, hold and workspace lock; it
   takes the place of the input `published` and of the copied account state. With the six abstract specifications the
   join may be of these: `DeliveryPromise`, `VerificationPromise` and `SchedulePromise` each carry an account, which
   should be the one of `HoldPromise`.
2. Proofs about that composition, from the invariants of its parts; what each abstract specification implies by
   itself (a settled run has no container, a reported hold nothing older at work), proved about it alone.
3. `SourceDeletion` with read uses; `ConversationSteering` (waiting decisions and safe points); the model connection
   broker (leases, budgets, settlement); deployment drain.
4. Capability governance: validation runs, emergency revocation against running tasks.
