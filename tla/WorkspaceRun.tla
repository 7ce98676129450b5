------------------------------ MODULE WorkspaceRun ------------------------------
(***************************************************************************)
(* One revision of a workspace task executed by the Pi runtime: the queue  *)
(* job that drives it, the agent kernel that accepts or refuses its        *)
(* result, the runtime operation with its container and its cleanup        *)
(* ledger, and the stops that race them: an owner's cancellation, the      *)
(* maintenance loop that finishes stops left behind, the stop a job asks   *)
(* for itself when its run raised, and the proof of rest a deletion of its *)
(* sources demands.  The process may crash anywhere; the database, the     *)
(* container and the lifecycle files survive.                              *)
(*                                                                         *)
(* All of it is one asyncio process: an action is what runs between two    *)
(* awaits.                                                                 *)
(***************************************************************************)
EXTENDS Naturals, FiniteSets

CONSTANTS
    QueueWorkers,   \* coroutines that take jobs from the queue
    MaxCancels,     \* bound: cancellations by the owner
    MaxCrashes,     \* bound: crashes of the process
    MaxFaults       \* bound: cleanups that fail, stops that time out

ASSUME RunBoundAssumption ==
    /\ QueueWorkers \in Nat \ {0}
    /\ MaxCancels \in Nat /\ MaxCrashes \in Nat /\ MaxFaults \in Nat

VARIABLES
    task,     \* semantic_workspace_tasks: status, cancel_requested, the question
    row,      \* agentic_runtime_runs
    files,    \* lifecycle directory: cancel, resources.json, cleaned, .creating-main
    box,      \* whether the main container exists
    kernel,   \* memory of AgentKernel: _cancelled and the slot of _cancel_requests
    lock,     \* holder of execution.lock
    queue,    \* dispatches of the task: in _queue, waiting for _heavy; another's job
    job,      \* the asyncio task of the run, in _active
    op,       \* the runtime operation, in _operations
    calls,    \* stops in progress
    workers,  \* queue workers alive
    spent     \* bounded events used up

vars == <<task, row, files, box, kernel, lock, queue, job, op, calls, workers, spent>>
-------------------------------------------------------------------------------
None == "none"
Caller == {"user", "maintenance", "job", "deletion"}
Terminal == {"completed", "candidate_ready", "failed", "cancelled"}
Quiescent == {"needs_input", "candidate_ready", "failed", "cancelled"}
Outcome == {"passed", "unverified", "question", "unknown", "error", "stalled"}
Result == Outcome \union {"cancelled"}

JobPc == {None, "launched", "preparing", "owning", "recovering", "waiting", "returned",
          "accepting", "decided", "publishing", "committing", "delivered", "stopping"}
OpPc == {None, "opening", "planned", "saved", "creating", "running", "closing"}

NoJob == [pc |-> None, resume |-> FALSE, result |-> None, awaits |-> None]
NoOp == [pc |-> None, cancelled |-> FALSE, result |-> None]
NoCall == [pc |-> None, sawOp |-> FALSE, active |-> FALSE]

\* Workers held by the job and by a heavy job of another task.
Held == (IF job.pc = None THEN 0 ELSE 1) + (IF queue.other THEN 1 ELSE 0)

\* Values of every variable, and which of them go together: an operation
\* belongs to a job that waits for it and holds the lock, a dispatch to a worker.
TypeOK ==
    /\ task \in [status : {"queued", "running", "cancelling", "needs_input"} \union Terminal,
                 cancel : BOOLEAN, ask : {None, "draft", "approved"}]
    /\ row \in [status : {"queued", "preparing", "running"} \union Quiescent,
                failure : {None, "unknown", "other"}, reserved : BOOLEAN,
                bound : BOOLEAN, root : BOOLEAN, passed : BOOLEAN]
    /\ files \in [cancel : BOOLEAN, journal : {None, "planned", "started"},
                  cleaned : BOOLEAN, creating : BOOLEAN]
    /\ box \in BOOLEAN
    /\ kernel \in [cancelled : BOOLEAN, request : {None} \union Caller]
    /\ lock \in {None, "run"} \union Caller
    /\ queue \in [queued : BOOLEAN, waiting : 0 .. QueueWorkers, other : BOOLEAN]
    /\ job \in [pc : JobPc, resume : BOOLEAN, result : Result \union {None},
                awaits : {None} \union Caller]
    /\ op \in [pc : OpPc, cancelled : BOOLEAN, result : Result \union {None}]
    /\ calls \in [Caller -> [pc : {None, "waiting", "cleaning"}, sawOp : BOOLEAN, active : BOOLEAN]]
    /\ workers \in 0 .. QueueWorkers
    /\ spent \in [cancels : 0 .. MaxCancels, crashes : 0 .. MaxCrashes, faults : 0 .. MaxFaults]
    /\ op.pc # None <=> job.pc = "waiting"
    /\ lock = "run" <=> job.pc \in {"waiting", "recovering"}
    /\ \A c \in Caller : lock = c <=> calls[c].pc = "cleaning"
    /\ queue.waiting + Held <= workers

\* A task just created and enqueued; its run identity may be reserved in the same transaction.
Init ==
    /\ task = [status |-> "queued", cancel |-> FALSE, ask |-> None]
    /\ \E reserved \in BOOLEAN :
        row = [status |-> "queued", failure |-> None, reserved |-> reserved,
               bound |-> reserved, root |-> FALSE, passed |-> FALSE]
    /\ files = [cancel |-> FALSE, journal |-> None, cleaned |-> FALSE, creating |-> FALSE]
    /\ box = FALSE
    /\ kernel = [cancelled |-> FALSE, request |-> None]
    /\ lock = None
    /\ queue = [queued |-> TRUE, waiting |-> 0, other |-> FALSE]
    /\ job = NoJob
    /\ op = NoOp
    /\ calls = [c \in Caller |-> NoCall]
    /\ workers = QueueWorkers
    /\ spent = [cancels |-> 0, crashes |-> 0, faults |-> 0]
-------------------------------------------------------------------------------
(* The queue job up to the runtime operation *)

JobAt(pc) == job.pc = pc
Raise(result) == job' = [job EXCEPT !.pc = "decided", !.result = result, !.awaits = None]
Return(result) == job' = [job EXCEPT !.pc = "returned", !.result = result]

\* The maintenance loop enqueues what is pending, unless it knows it to be in the
\* queue or executed: a dispatch that waits for the token of heavy jobs is neither.
DefectPending == task.status \in {"queued", "running", "needs_input"}
Pending == task.status \in {"queued", "running"}
Enqueue ==
    /\ Pending /\ ~queue.queued /\ JobAt(None)
    /\ queue' = [queue EXCEPT !.queued = TRUE]
    /\ UNCHANGED <<task, row, files, box, kernel, lock, job, op, calls, workers, spent>>

\* A worker starts a job unless the task is over or its cancellation requested; it
\* asks when it takes the dispatch, and again when the token is its own.
Launchable == task.status \notin Terminal /\ ~task.cancel
StartJob == IF Launchable THEN job' = [NoJob EXCEPT !.pc = "launched"] ELSE UNCHANGED job
FreeWorker == queue.waiting + Held < workers
TokenFree == JobAt(None) /\ ~queue.other
Take ==
    /\ queue.queued /\ FreeWorker
    /\ \/ /\ Launchable => TokenFree /\ queue.waiting = 0
          /\ queue' = [queue EXCEPT !.queued = FALSE]
          /\ StartJob
       \/ /\ Launchable /\ ~(TokenFree /\ queue.waiting = 0)
          /\ queue' = [queue EXCEPT !.queued = FALSE, !.waiting = @ + 1]
          /\ UNCHANGED job
    /\ UNCHANGED <<task, row, files, box, kernel, lock, op, calls, workers, spent>>
Launch ==
    /\ queue.waiting > 0 /\ TokenFree
    /\ queue' = [queue EXCEPT !.waiting = @ - 1]
    /\ StartJob
    /\ UNCHANGED <<task, row, files, box, kernel, lock, op, calls, workers, spent>>

\* A heavy job of another task.
TakeOther ==
    /\ FreeWorker /\ TokenFree /\ queue.waiting = 0
    /\ queue' = [queue EXCEPT !.other = TRUE]
    /\ UNCHANGED <<task, row, files, box, kernel, lock, job, op, calls, workers, spent>>
EndOther ==
    /\ queue.other
    /\ queue' = [queue EXCEPT !.other = FALSE]
    /\ UNCHANGED <<task, row, files, box, kernel, lock, job, op, calls, workers, spent>>

\* The job shows the task running, then continues a passed candidate with its
\* publication, a run with a checkpoint by resuming it, any other by a start.
Checkpointed == row.status \in {"preparing", "running", "needs_input"} /\ row.bound /\ row.root
Begin ==
    /\ JobAt("launched")
    /\ task' = [task EXCEPT !.status = "running"]
    /\ \/ /\ row.status = "candidate_ready" /\ row.passed
          /\ job' = [job EXCEPT !.pc = "publishing"]
          /\ UNCHANGED row
       \/ /\ ~(row.status = "candidate_ready" /\ row.passed)
          /\ job' = [job EXCEPT !.pc = "preparing", !.resume = Checkpointed]
          /\ row' = [row EXCEPT !.status = "running", !.failure = None]
    /\ UNCHANGED <<files, box, kernel, lock, queue, op, calls, workers, spent>>

\* The kernel binds the run identity once; a bound run starts again only when
\* the identity was reserved and no result was accepted.
MayStart == ~row.bound \/ (row.reserved /\ row.status \in {"queued", "preparing", "running"})
Start ==
    /\ JobAt("preparing")
    /\ \/ /\ job.resume \/ MayStart
          /\ row' = [row EXCEPT !.bound = TRUE]
          /\ job' = [job EXCEPT !.pc = "owning"]
       \/ Raise("error") /\ UNCHANGED row  \* refused, or the manifest is not available
    /\ UNCHANGED <<task, files, box, kernel, lock, queue, op, calls, workers, spent>>

\* The run takes the execution lock without waiting, refuses when a stop left
\* its mark, and cleans what an older operation left before it starts its own.
StartOperation == /\ op' = [NoOp EXCEPT !.pc = "opening"]
                  /\ job' = [job EXCEPT !.pc = "waiting"]
DefectRefused == lock # None \/ files.cancel  \* recovers over an unconfirmed creation
Refused == lock # None \/ files.cancel \/ (files.journal # None /\ files.creating)
Own ==
    /\ JobAt("owning")
    /\ \/ Refused /\ Return("error") /\ UNCHANGED <<lock, op>>
       \/ /\ ~Refused /\ files.journal # None
          /\ lock' = "run"
          /\ job' = [job EXCEPT !.pc = "recovering"]
          /\ UNCHANGED op
       \/ /\ ~Refused /\ files.journal = None
          /\ lock' = "run"
          /\ StartOperation
    /\ UNCHANGED <<task, row, files, box, kernel, queue, calls, workers, spent>>

\* A complete cleanup: a container that was asked for is gone, the ledger is
\* replaced by the proof of the cleanup.
DefectCleanup ==  \* takes a ledger without a started container for all of them
    /\ UNCHANGED box
    /\ files' = [files EXCEPT !.journal = None, !.cleaned = TRUE]
Cleanup ==
    /\ box' = (box /\ files.journal # "started")
    /\ files' = [files EXCEPT !.journal = None, !.cleaned = TRUE]
Fault == spent.faults < MaxFaults /\ spent' = [spent EXCEPT !.faults = @ + 1]

Recover ==
    /\ JobAt("recovering")
    /\ \/ Cleanup /\ StartOperation /\ UNCHANGED <<lock, spent>>
       \/ /\ Fault
          /\ Return("error") /\ lock' = None
          /\ UNCHANGED <<files, box, op>>
    /\ UNCHANGED <<task, row, kernel, calls, workers, queue>>
-------------------------------------------------------------------------------
(* The runtime operation *)

OpAt(pc) == op.pc = pc /\ ~op.cancelled
EndOp(result) == op' = [op EXCEPT !.pc = "closing", !.result = result]
OpTo(pc) == op' = [op EXCEPT !.pc = pc]

\* The ledger is written before anything is created, unless a stop is marked.
Plan ==
    /\ OpAt("opening")
    /\ \/ files.cancel /\ EndOp("cancelled") /\ UNCHANGED files
       \/ /\ ~files.cancel
          /\ files' = [files EXCEPT !.journal = "planned", !.cleaned = FALSE]
          /\ OpTo("planned")
    /\ UNCHANGED <<task, row, box, kernel, lock, queue, job, calls, workers, spent>>

\* A stop that succeeded in this process is remembered, whatever came of it.
DefectStopWon == kernel.request # None  \* knows only of a stop in progress
StopWon == kernel.cancelled

\* The checkpoint goes through the sink of the kernel, which drops the events
\* of a run that is settled or being stopped.
Dropped == kernel.request # None \/ StopWon \/ row.status \in Quiescent
SaveCheckpoint ==
    /\ OpAt("planned")
    /\ row' = [row EXCEPT !.root = @ \/ ~Dropped]
    /\ OpTo("saved")
    /\ UNCHANGED <<task, files, box, kernel, lock, queue, job, calls, workers, spent>>

BeginCreate ==
    /\ OpAt("saved")
    /\ files' = [files EXCEPT !.journal = "started", !.creating = TRUE]
    /\ OpTo("creating")
    /\ UNCHANGED <<task, row, box, kernel, lock, queue, job, calls, workers, spent>>

EndCreate ==
    /\ OpAt("creating")
    /\ \/ box' = TRUE /\ files' = [files EXCEPT !.creating = FALSE] /\ OpTo("running")
       \/ /\ UNCHANGED box  \* rejected by the container engine
          /\ files' = [files EXCEPT !.creating = FALSE, !.journal = "planned"]
          /\ EndOp("error")
    /\ UNCHANGED <<task, row, kernel, lock, queue, job, calls, workers, spent>>

\* The engine may finish a creation whose client died, whatever runs by then.
LateCreate ==
    /\ files.creating /\ op.pc # "creating" /\ ~box
    /\ box' = TRUE
    /\ UNCHANGED <<task, row, files, kernel, lock, queue, job, op, calls, workers, spent>>

\* The agent settles with an outcome; setting up may fail earlier.
Settle ==
    /\ \/ OpAt("running") /\ \E outcome \in Outcome : EndOp(outcome)
       \/ (OpAt("opening") \/ OpAt("planned") \/ OpAt("saved")) /\ EndOp("error")
    /\ UNCHANGED <<task, row, files, box, kernel, lock, queue, job, calls, workers, spent>>

\* The watcher of the cancel file stops an operation nobody has cancelled.
Watch ==
    /\ files.cancel /\ op.pc \notin {None, "closing"} /\ ~op.cancelled
    /\ op' = [op EXCEPT !.cancelled = TRUE]
    /\ UNCHANGED <<task, row, files, box, kernel, lock, queue, job, calls, workers, spent>>

\* A cancelled operation ends; a creation under way is awaited first.
Unwind ==
    /\ op.cancelled /\ op.pc # "closing"
    /\ EndOp("cancelled")
    /\ files' = [files EXCEPT !.creating = FALSE]
    /\ box' \in (IF op.pc = "creating" THEN BOOLEAN ELSE {box})
    /\ UNCHANGED <<task, row, kernel, lock, queue, job, calls, workers, spent>>

\* The owner of the operation cleans up after it, then gives the lock back; a
\* failed cleanup replaces the result and keeps the ledger.
Close ==
    /\ op.pc = "closing"
    /\ \/ Cleanup /\ Return(op.result) /\ UNCHANGED spent
       \/ Fault /\ Return("error") /\ UNCHANGED <<files, box>>
    /\ op' = NoOp /\ lock' = None
    /\ UNCHANGED <<task, row, kernel, calls, workers, queue>>
-------------------------------------------------------------------------------
(* The kernel accepts or drops the result *)

\* Before it accepts a result the kernel waits for the stop it sees in progress.
AwaitStop ==
    /\ JobAt("returned") /\ job.result # "cancelled" /\ kernel.request # None
    /\ job' = [job EXCEPT !.pc = "accepting", !.awaits = kernel.request]
    /\ UNCHANGED <<task, row, files, box, kernel, lock, queue, op, calls, workers, spent>>

StopSettled == \/ JobAt("returned") /\ (kernel.request = None \/ job.result = "cancelled")
               \/ JobAt("accepting") /\ job.awaits = None
Accepted == IF job.result = "question" THEN "needs_input" ELSE "candidate_ready"
Accept ==
    /\ StopSettled
    /\ \/ /\ job.result = "cancelled"
          /\ Raise("cancelled") /\ UNCHANGED row
       \/ /\ job.result # "cancelled" /\ StopWon  \* the stop won
          /\ Raise(IF job.result \in {"unknown", "stalled"} THEN job.result ELSE "error")
          /\ UNCHANGED row
       \/ /\ job.result \in {"passed", "unverified", "question"} /\ ~StopWon
          /\ row' = [row EXCEPT !.status = Accepted, !.failure = None]
          /\ Raise(job.result)
       \/ /\ job.result \in {"unknown", "error", "stalled"} /\ ~StopWon
          /\ row' = [row EXCEPT
                !.status = IF job.result = "unknown" THEN "needs_input" ELSE "failed",
                !.failure = IF job.result = "unknown" THEN "unknown" ELSE "other"]
          /\ Raise(job.result)
    /\ UNCHANGED <<task, files, box, kernel, lock, queue, op, calls, workers, spent>>
-------------------------------------------------------------------------------
(* Stops *)

\* The task and its run are cancelled together.
MarkCancelled ==
    /\ task' = [task EXCEPT !.status = "cancelled", !.cancel = TRUE, !.ask = None]
    /\ row' = [row EXCEPT !.status = "cancelled", !.failure = None]

\* Cancelling the job interrupts whatever it awaits: it stops its own run, except
\* when it was about to begin or was doing just that; then it ends and with it
\* the queue worker that awaits it.
Interrupt ==
    IF job.pc \in {"launched", "stopping"}
    THEN /\ job' = NoJob
         /\ workers' = workers - 1
    ELSE /\ IF job.pc \in {"publishing", "committing", "delivered"}
            THEN job' = [job EXCEPT !.result = "cancelled"]
            ELSE Raise("cancelled")
         /\ UNCHANGED workers

\* The runtime is asked to stop: the file that forbids it to run again, the
\* request the kernel waits for, the first request cancels the operation.
RequestStop(c, active) ==
    /\ files' = [files EXCEPT !.cancel = TRUE]
    /\ kernel' = [kernel EXCEPT !.request = c]
    /\ op' = [op EXCEPT !.cancelled =
                @ \/ (~files.cancel /\ op.pc \notin {None, "closing"})]
    /\ calls' = [calls EXCEPT ![c] = [pc |-> "waiting", sawOp |-> op.pc # None, active |-> active]]

\* cancel(): by the owner of a task that is not over, or by the maintenance loop
\* for one that is being stopped.  A run without identity needs no stop.
DefectMayAsk(c) == c = "user" /\ task.status \notin Terminal /\ spent.cancels < MaxCancels
MayAsk(c) == \/ c = "user" /\ task.status \notin Terminal /\ spent.cancels < MaxCancels
             \/ c = "maintenance" /\ task.status = "cancelling"
AskStop(c) ==
    /\ MayAsk(c) /\ calls[c].pc = None
    /\ spent' = [spent EXCEPT !.cancels = IF c = "user" THEN @ + 1 ELSE @]
    /\ \/ /\ row.bound
          /\ task' = [task EXCEPT !.status = "cancelling", !.cancel = TRUE]
          /\ RequestStop(c, job.pc # None)
          /\ UNCHANGED <<row, job, workers>>
       \/ /\ ~row.bound /\ JobAt(None)
          /\ MarkCancelled
          /\ UNCHANGED <<files, kernel, op, job, calls, workers>>
       \/ /\ ~row.bound /\ job.pc # None
          /\ task' = [task EXCEPT !.status = "cancelling", !.cancel = TRUE]
          /\ Interrupt
          /\ UNCHANGED <<row, files, kernel, op, calls>>
    /\ queue' = [queue EXCEPT !.queued = @ /\ job.pc # None]
    /\ UNCHANGED <<box, lock>>

\* The deletion of a source cancels the task first; when that has returned, with
\* the task over or its stop failed, it wants the run stopped without touching
\* task or job.  A job that only waits for its turn of the event loop has it
\* before such a stop is through: after a failure the next one is not immediate.
AskProof ==
    /\ task.status \in Terminal \union {"cancelling"} /\ row.bound
    /\ calls["user"].pc = None /\ calls["deletion"].pc = None
    /\ job.pc # "launched"
    /\ spent.cancels < MaxCancels
    /\ spent' = [spent EXCEPT !.cancels = @ + 1]
    /\ RequestStop("deletion", FALSE)
    /\ UNCHANGED <<task, row, box, lock, job, workers, queue>>

\* A stop is over: its slot is free and the kernel goes on.
DefectEndRequest(c, cancelled) ==  \* a stop that failed keeps its slot
    /\ kernel' = [kernel EXCEPT !.cancelled = @ \/ cancelled]
    /\ UNCHANGED calls
EndRequest(c, cancelled) ==
    /\ kernel' = [cancelled |-> kernel.cancelled \/ cancelled, request |-> None]
    /\ calls' = [calls EXCEPT ![c] = NoCall]
Wake(c) == job' = [job EXCEPT !.awaits = IF @ = c THEN None ELSE @]

\* A stop that failed leaves the task to be stopped again.
FailStop(c) ==
    /\ EndRequest(c, FALSE)
    /\ task' = IF c = "deletion" THEN task
               ELSE [task EXCEPT !.status = "cancelling", !.cancel = TRUE]
    /\ IF c = "job" THEN job' = NoJob ELSE Wake(c)
    /\ UNCHANGED <<row, op, workers>>

\* Once the operation it saw is over the stop takes the lock.  Without ledger
\* and without the proof of a cleanup it proves nothing and fails, like a stop
\* that finds a creation whose end is unknown.
NoLedger(c) == ~calls[c].sawOp /\ files.journal = None /\ ~files.cleaned
Unprovable(c) == NoLedger(c) \/ (files.journal # None /\ files.creating)
TakeLock(c) ==
    /\ calls[c].pc = "waiting" /\ lock = None
    /\ \/ Unprovable(c) /\ FailStop(c) /\ UNCHANGED lock
       \/ /\ ~Unprovable(c)
          /\ lock' = c
          /\ calls' = [calls EXCEPT ![c].pc = "cleaning"]
          /\ UNCHANGED <<task, row, kernel, job, op, workers>>
    /\ UNCHANGED <<files, box, spent, queue>>

TimeOut(c) ==
    /\ calls[c].pc = "waiting" /\ lock # None
    /\ Fault
    /\ FailStop(c)
    /\ UNCHANGED <<files, box, lock, queue>>

CleanupFails(c) ==
    /\ calls[c].pc = "cleaning"
    /\ Fault
    /\ FailStop(c)
    /\ lock' = None
    /\ UNCHANGED <<files, box, queue>>

\* What a job does once its own stop succeeded, by the reason it asked for it.
FinishJob(reason) ==
    /\ job' = NoJob
    /\ \/ /\ reason = "cancelled" \/ (reason = "stalled" /\ task.cancel)
          /\ MarkCancelled
       \/ /\ reason = "stalled" /\ ~task.cancel
          /\ task' = [task EXCEPT !.status = "needs_input", !.ask = None]
          /\ row' = [row EXCEPT !.status = "needs_input", !.failure = "other"]
       \/ /\ reason = "error"
          /\ task' = [task EXCEPT !.status = "failed", !.ask = None]
          /\ row' = IF row.bound THEN [row EXCEPT !.status = "cancelled", !.failure = None] ELSE row

\* The runtime is proved stopped: late results are refused from here on.  The
\* job that asked finishes; a stop from outside interrupts the job it saw, with
\* the job's own stop, or marks the task itself when there was none.
Interrupts(c) == c \in {"user", "maintenance"} /\ calls[c].active /\ job.pc # None
RowCancelled == row' = [row EXCEPT !.status = "cancelled", !.failure = None]
Stopped(c) ==
    /\ calls[c].pc = "cleaning"
    /\ c = "deletion" => job.pc # "decided"
    /\ Cleanup
    /\ lock' = None
    /\ kernel' = [cancelled |-> TRUE, request |-> None]
    /\ calls' = [d \in Caller |-> IF d = c \/ (d = "job" /\ Interrupts(c)) THEN NoCall ELSE calls[d]]
    /\ \/ c = "job" /\ FinishJob(job.result) /\ UNCHANGED workers
       \/ Interrupts(c) /\ Interrupt /\ RowCancelled /\ UNCHANGED task
       \/ /\ c \in {"user", "maintenance"} /\ ~calls[c].active
          /\ MarkCancelled
          /\ UNCHANGED <<job, workers>>
       \/ /\ c = "deletion" \/ (c # "job" /\ calls[c].active /\ job.pc = None)
          /\ RowCancelled
          /\ Wake(c)
          /\ UNCHANGED <<task, workers>>
    /\ UNCHANGED <<op, spent, queue>>

Stop(c) == TakeLock(c) \/ TimeOut(c) \/ CleanupFails(c) \/ Stopped(c)
-------------------------------------------------------------------------------
(* The job after its run *)

\* A run that raised is stopped before the task shows it; the reason is the
\* cancellation once one was requested.
StopOwn(reason) ==
    /\ job' = [job EXCEPT !.pc = "stopping", !.result = reason]
    /\ RequestStop("job", FALSE)
    /\ UNCHANGED task
RaisedReason == IF task.cancel THEN "cancelled" ELSE "error"

DecideRaised ==
    /\ JobAt("decided") /\ job.result \in {"error", "stalled", "cancelled"}
    /\ LET reason == IF job.result = "error" THEN RaisedReason ELSE job.result
       IN \/ row.bound /\ StopOwn(reason) /\ UNCHANGED row
          \/ ~row.bound /\ FinishJob(reason) /\ UNCHANGED <<files, kernel, op, calls>>
    /\ UNCHANGED <<box, lock, workers, spent, queue>>

\* A question or a draft for the owner; a task being stopped refuses it.
DecideQuestion ==
    /\ JobAt("decided") /\ job.result = "question"
    /\ row' = [row EXCEPT !.status = "needs_input", !.root = TRUE]
    /\ \/ /\ task.cancel \/ task.status \in {"cancelling", "cancelled"}
          /\ StopOwn(RaisedReason)
       \/ /\ ~task.cancel /\ task.status \notin {"cancelling", "cancelled"}
          /\ \E ask \in {None, "draft"} :
                task' = [task EXCEPT !.status = "needs_input", !.ask = ask]
          /\ job' = NoJob
          /\ UNCHANGED <<files, kernel, op, calls>>
    /\ UNCHANGED <<box, lock, workers, spent, queue>>

\* The outcome of a model request is unknown: the owner is asked to decide.
DecideUnknown ==
    /\ JobAt("decided") /\ job.result = "unknown"
    /\ task' = [task EXCEPT !.status = "needs_input", !.ask = None]
    /\ job' = NoJob
    /\ UNCHANGED <<row, files, box, kernel, lock, queue, op, calls, workers, spent>>

\* Verified candidates are recorded; only passed ones go to publication, the
\* others end the task as they are.
DecideCandidate ==
    /\ JobAt("decided") /\ job.result \in {"passed", "unverified"}
    /\ row' = [row EXCEPT !.status = "candidate_ready", !.root = TRUE,
                          !.passed = (job.result = "passed")]
    /\ \/ /\ job.result = "passed"
          /\ job' = [job EXCEPT !.pc = "publishing"]
          /\ UNCHANGED task
       \/ /\ job.result = "unverified"
          /\ task' = [task EXCEPT !.status = "candidate_ready", !.cancel = FALSE, !.ask = None]
          /\ job' = NoJob
    /\ UNCHANGED <<files, box, kernel, lock, queue, op, calls, workers, spent>>

\* Publication in a thread, seen from here as its gate, its commit point and its
\* return (DeliveryPublishing has the steps).  Interrupted, the job waits for the
\* thread before it stops its run.  A fault worth a retry shows the task running.
Gate ==
    /\ JobAt("publishing")
    /\ ~task.cancel
    /\ job' = [job EXCEPT !.pc = "committing"]
    /\ UNCHANGED <<task, row, files, box, kernel, lock, queue, op, calls, workers, spent>>
Commit ==
    /\ JobAt("committing")
    /\ job' = [job EXCEPT !.pc = "delivered"]
    /\ UNCHANGED <<task, row, files, box, kernel, lock, queue, op, calls, workers, spent>>
Complete ==
    /\ JobAt("delivered")
    /\ \/ job.result = "cancelled" /\ Raise("cancelled") /\ UNCHANGED task
       \/ /\ job.result # "cancelled"
          /\ task' = [task EXCEPT !.status = "completed", !.cancel = FALSE, !.ask = None]
          /\ job' = NoJob
    /\ UNCHANGED <<row, files, box, kernel, lock, queue, op, calls, workers, spent>>
PublishRaises ==
    /\ job.pc \in {"publishing", "committing", "delivered"}
    /\ \/ Raise("error") /\ UNCHANGED task
       \/ task' = [task EXCEPT !.status = "running"] /\ job' = NoJob
    /\ UNCHANGED <<row, files, box, kernel, lock, queue, op, calls, workers, spent>>
-------------------------------------------------------------------------------
(* The owner and the process *)

\* The owner lets a run go on from its draft; no job is inside its lock.
ApproveDraft ==
    /\ task.status = "needs_input" /\ task.ask = "draft" /\ ~task.cancel
    /\ task' = [task EXCEPT !.status = "queued", !.ask = "approved"]
    /\ queue' = [queue EXCEPT !.queued = @ \/ job.pc = None]
    /\ UNCHANGED <<row, files, box, kernel, lock, job, op, calls, workers, spent>>

\* Memory, locks and coroutines are gone; the next process queues again what was
\* running and leaves what was being stopped to its maintenance loop.
Crash ==
    /\ spent.crashes < MaxCrashes
    /\ spent' = [spent EXCEPT !.crashes = @ + 1]
    /\ task' = [task EXCEPT !.status = IF @ = "running" THEN "queued" ELSE @]
    /\ kernel' = [cancelled |-> FALSE, request |-> None]
    /\ lock' = None /\ job' = NoJob /\ op' = NoOp
    /\ calls' = [c \in Caller |-> NoCall]
    /\ workers' = QueueWorkers
    /\ queue' = [queued |-> Pending, waiting |-> 0, other |-> FALSE]
    /\ UNCHANGED <<row, files, box>>

JobStep == Begin \/ Start \/ Own \/ Recover \/ AwaitStop \/ Accept
           \/ DecideRaised \/ DecideQuestion \/ DecideUnknown \/ DecideCandidate
           \/ Gate \/ Commit \/ Complete \/ PublishRaises
OperationStep == Plan \/ SaveCheckpoint \/ BeginCreate \/ EndCreate \/ Settle \/ Unwind \/ Close
Dispatch == Enqueue \/ Take \/ Launch \/ TakeOther \/ EndOther
Next ==
    \/ Dispatch \/ JobStep \/ OperationStep \/ Watch \/ LateCreate
    \/ \E c \in Caller : AskStop(c) \/ Stop(c)
    \/ AskProof \/ ApproveDraft \/ Crash

Spec == Init /\ [][Next]_vars

\* The event loop runs every coroutine that can go on, the maintenance loop comes
\* back, agent and engine answer within their time limits.
FairSpec ==
    /\ Spec
    /\ WF_vars(Enqueue) /\ WF_vars(Take) /\ WF_vars(Launch) /\ WF_vars(EndOther)
    /\ WF_vars(JobStep) /\ WF_vars(OperationStep) /\ WF_vars(Watch)
    /\ WF_vars(AskStop("maintenance"))
    /\ \A c \in Caller : WF_vars(Stop(c))
-------------------------------------------------------------------------------
(* Properties *)

\* A task that waits for its owner or is over has no container and no operation,
\* and none can appear: no ledger of a container, no creation under way, no job
\* on its way to one.  A cancelled task has a cancelled run.
\* Code: _confirm_runtime_stopped before every such status, _cleanup_resources.
SettledIsQuiet ==
    /\ task.status \in Terminal \union {"needs_input"} =>
          /\ ~box /\ ~files.creating /\ files.journal # "started"
          /\ op.pc = None
          /\ job.pc \notin {"preparing", "owning", "recovering", "waiting"}
    /\ task.status = "cancelled" => row.status = "cancelled"

\* Two containers never work on one run: while an operation prepares its own none
\* is left of an earlier one, whatever crashed in between.
\* Code: the ledger and .creating-main in _owned_run, _run_rpc.
OneContainer == op.pc \in {"opening", "planned", "saved", "creating"} => ~box

\* Once a cancellation has stopped the run, nothing that was still on its way
\* changes that: no late result replaces the run's status, no operation starts.
\* Code: _cancel_won, _accept_result, _persist_failure, the cancel file.
CancelIsFinal ==
    [][row.status = "cancelled" /\ task.cancel =>
          /\ row'.status = "cancelled"
          /\ op'.pc = None]_vars

\* A task that shows an unknown model outcome is not asked of the model again on
\* its own, by more than was already under way: until somebody stops it, only a
\* dispatch from before the outcome takes it from its owner, and no dispatch is
\* added meanwhile, whatever crashes or else ends.
\* Code: _mark_result_unknown, the statuses maintenance and requeue dispatch, the
\* ones a worker launches.
ShowsUnknown == task.status = "needs_input" /\ row.failure = "unknown"
Dispatched == queue.queued \/ queue.waiting > 0 \/ JobAt("launched")
UnknownIsAsked ==
    [][ShowsUnknown => /\ ShowsUnknown' \/ task'.cancel \/ JobAt("launched")
                       /\ Dispatched \/ ~Dispatched']_vars

\* The run as its owner sees it: what the runtime and the stops know in files, locks
\* and memory stays unseen, and a job is seen only while it has the task.
\* Code: the statuses written by _execute, _accept_result, cancel and the requeue,
\* each against what _confirm_runtime_stopped and the cancel file have proved.
OutcomeOf ==
    CASE row.status \in {"queued", "preparing", "running"} -> "open"
      [] row.status = "needs_input" -> IF row.failure = "unknown" THEN "unknown" ELSE "asked"
      [] OTHER -> row.status
Alive == box \/ files.creating
Due == queue.queued \/ queue.waiting > 0
Busy == job.pc # None
Seen == INSTANCE RunPromise
        WITH shown <- task.status, stopping <- task.cancel, draft <- task.ask,
             outcome <- OutcomeOf, passed <- row.passed, barred <- files.cancel,
             alive <- Alive, due <- Due, busy <- Busy
KeepsRun == Seen!Spec

\* A stop that has a ledger, or the proof of a cleanup, to go by ends: container
\* and operation are gone and the task is no longer being stopped, after any
\* crash and failed attempt.  Two things may keep it open: a creation cut off by
\* a crash, and a job that showed the task running over the stop.
\* Code: PiRuntime.cancel, the maintenance loop.
Provable == files.journal # None \/ files.cleaned
Overwritten == task.cancel /\ task.status \in {"queued", "running"}
StopSettles ==
    files.cancel /\ Provable
        ~> \/ ~box /\ op.pc = None /\ task.status # "cancelling"
           \/ files.creating \/ Overwritten
-------------------------------------------------------------------------------
(* What a comment of the repository says and the code does not do *)

\* A task that is cancelled before its run began becomes cancelled.
CancelBeforeRunSettles ==
    task.status = "cancelling" /\ job.pc = None /\ ~row.root ~> task.status # "cancelling"
===============================================================================
