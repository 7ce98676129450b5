-------------------------- MODULE WorkspaceRun_proofs --------------------------
(***************************************************************************)
(* Theorems about WorkspaceRun, for every number of queue workers and      *)
(* every bound: the inductive invariant of a run, its jobs, its ledger and *)
(* the stops in progress, and the four safety properties it carries.  The  *)
(* invariant speaks of a few fields only; what an action does to these is  *)
(* the first step of its lemma, the rest follows from it; the dispatches   *)
(* and the workers that hold them are a part of their own.  And that       *)
(* WorkspaceRun implements RunPromise, action by action.                   *)
(***************************************************************************)
EXTENDS WorkspaceRun, TLAPS

Task == [status : {"queued", "running", "cancelling", "needs_input"} \union Terminal,
         cancel : BOOLEAN, ask : {None, "draft", "approved"}]
RunRow == [status : {"queued", "preparing", "running"} \union Quiescent,
           failure : {None, "unknown", "other"}, reserved : BOOLEAN,
           bound : BOOLEAN, root : BOOLEAN, passed : BOOLEAN]
Files == [cancel : BOOLEAN, journal : {None, "planned", "started"},
          cleaned : BOOLEAN, creating : BOOLEAN]
Kernel == [cancelled : BOOLEAN, request : {None} \union Caller]
Job == [pc : JobPc, resume : BOOLEAN, result : Result \union {None},
        awaits : {None} \union Caller]
Op == [pc : OpPc, cancelled : BOOLEAN, result : Result \union {None}]
Call == [pc : {None, "waiting", "cleaning"}, sawOp : BOOLEAN, active : BOOLEAN]
Spent == [cancels : 0 .. MaxCancels, crashes : 0 .. MaxCrashes, faults : 0 .. MaxFaults]

\* The parts of TypeOK: the values, what goes together, and the dispatches, each
\* with a worker of its own.
Typed ==
    /\ task \in Task /\ row \in RunRow /\ files \in Files /\ box \in BOOLEAN /\ kernel \in Kernel
    /\ lock \in {None, "run"} \union Caller /\ job \in Job /\ op \in Op
    /\ calls \in [Caller -> Call] /\ workers \in 0 .. QueueWorkers /\ spent \in Spent
Together ==
    /\ op.pc # None <=> job.pc = "waiting"
    /\ lock = "run" <=> job.pc \in {"waiting", "recovering"}
    /\ \A c \in Caller : lock = c <=> calls[c].pc = "cleaning"

Queue == [queued : BOOLEAN, waiting : 0 .. QueueWorkers, other : BOOLEAN]
QueueFits == queue \in Queue /\ queue.waiting + Held <= workers

LEMMA TypeParts == TypeOK <=> Typed /\ Together /\ QueueFits
BY DEF TypeOK, Typed, Together, QueueFits, Queue, Task, RunRow, Files, Kernel, Job, Op, Call, Spent
-------------------------------------------------------------------------------
(* The invariant *)

Outside == {"user", "maintenance"}
Settled == task.status \in Terminal \union {"needs_input"}
Publishing == {"publishing", "committing", "delivered"}
Over == task.cancel \/ task.status \in Terminal

\* The ledger speaks for the container: it is written before one is created and
\* holds until the container is gone.
Ledger ==
    /\ box \/ files.creating => files.journal = "started"
    /\ op.pc = "opening" => files.journal = None
    /\ op.pc \in {"planned", "saved"} => files.journal = "planned"
    /\ op.pc = "creating" => ~box /\ files.creating
    /\ op.pc \in {"running", "closing"} \/ job.pc = "recovering" => ~files.creating
    /\ \A c \in Caller : calls[c].pc = "cleaning" => ~files.creating

\* Nothing is run, and no ledger written, before the run has its identity.
Identity ==
    ~row.bound =>
        /\ files.journal = None
        /\ row.status # "candidate_ready"
        /\ \A c \in Caller : calls[c].pc = None
        /\ job.pc \in {None, "launched", "preparing", "decided"}
        /\ job.pc = "decided" => job.result \in {"error", "cancelled"}
        /\ row.status = "cancelled" => job.pc = None

\* A result other than a failure comes from an operation that was cleaned up.
CleanResults ==
    /\ job.pc \in {"returned", "accepting", "decided"}
       /\ job.result \in {"passed", "unverified", "question", "unknown"} => files.journal = None
    /\ job.pc \in Publishing => files.journal = None
    /\ row.status = "candidate_ready" =>
          /\ files.journal = None
          /\ job.pc \notin {"preparing", "owning", "recovering", "waiting"}

\* A job works only on a task that shows it; one that only was launched may find
\* a task that waits for its owner.
JobIsShown ==
    job.pc # None =>
        /\ workers > 0
        /\ \/ task.status \in {"queued", "running", "cancelling"}
           \/ job.pc = "launched" /\ task.status = "needs_input"

\* A stop in progress has left its mark; one that saw no job keeps it that way.
Stops ==
    /\ task.status = "cancelling" => task.cancel
    /\ op.cancelled => op.pc # None
    /\ calls["job"].pc # None => job.pc = "stopping"
    /\ \A c \in Caller : calls[c].pc # None => files.cancel
    /\ \A c \in Outside \union {"deletion"} : calls[c].pc # None => Over
    /\ \A c \in Outside : calls[c].pc # None /\ ~calls[c].active => task.cancel /\ job.pc = None
    /\ calls["deletion"].pc # None => job.pc # "launched"

\* A task at rest left nothing behind.
Rest ==
    /\ Settled => files.journal # "started"
    /\ task.status = "cancelled" => row.status = "cancelled"

\* What holds of a run once it is cancelled.
CancelledRun ==
    row.status = "cancelled" =>
        /\ Over
        /\ op.pc = None
        /\ row.bound => files.cancel \/ job.pc = None
        /\ job.pc \notin {"launched", "recovering"}
        /\ job.pc # None => kernel.cancelled
        /\ job.pc = "decided" => job.result \notin {"passed", "unverified", "question"}

\* A draft for the owner is not shown with an unknown outcome.
DraftIsKnown ==
    /\ job.pc = "decided" /\ job.result = "question" => row.failure # "unknown"
    /\ task.status = "needs_input" /\ task.ask = "draft" => row.failure # "unknown"

RunInvariant ==
    /\ Typed /\ Together /\ Ledger /\ Identity /\ CleanResults /\ JobIsShown /\ Stops /\ Rest
    /\ CancelledRun /\ DraftIsKnown
-------------------------------------------------------------------------------
(* What a step does to the fields the invariant speaks of *)

TaskBecomes(status, cancel, ask) ==
    task' \in Task /\ task'.status = status /\ task'.cancel = cancel /\ task'.ask = ask
RowBecomes(status, failure, bound) ==
    row' \in RunRow /\ row'.status = status /\ row'.failure = failure /\ row'.bound = bound
FilesBecome(cancel, journal, creating) ==
    /\ files' \in Files
    /\ files'.cancel = cancel /\ files'.journal = journal /\ files'.creating = creating
KernelBecomes(cancelled) == kernel' \in Kernel /\ kernel'.cancelled = cancelled
JobBecomes(pc, result) == job' \in Job /\ job'.pc = pc /\ job'.result = result
OpBecomes(pc) == op' \in Op /\ op'.pc = pc /\ (op'.cancelled => op'.pc # None)
CallBecomes(c, pc, active) ==
    /\ calls' \in [Caller -> Call]
    /\ calls'[c].pc = pc /\ calls'[c].active = active
    /\ \A d \in Caller \ {c} : calls'[d] = calls[d]
CleansUp ==
    /\ FilesBecome(files.cancel, None, files.creating)
    /\ box' \in BOOLEAN /\ (box' => box /\ files.journal # "started")
CancelsBoth ==
    TaskBecomes("cancelled", TRUE, None) /\ RowBecomes("cancelled", None, row.bound)
Requests(c, active) ==
    /\ FilesBecome(TRUE, files.journal, files.creating)
    /\ KernelBecomes(kernel.cancelled)
    /\ OpBecomes(op.pc)
    /\ CallBecomes(c, "waiting", active)
StopsItself ==
    /\ Requests("job", FALSE) /\ task' = task
    /\ \E result \in Result : JobBecomes("stopping", result)
Finishes ==
    /\ JobBecomes(None, None)
    /\ \/ CancelsBoth
       \/ /\ ~task.cancel
          /\ TaskBecomes("needs_input", FALSE, None) /\ RowBecomes("needs_input", "other", row.bound)
       \/ /\ TaskBecomes("failed", task.cancel, None)
          /\ \/ row.bound /\ RowBecomes("cancelled", None, row.bound)
             \/ ~row.bound /\ row' = row
Interrupted ==
    /\ workers' \in 0 .. QueueWorkers
    /\ \/ job.pc \in {"launched", "stopping"} /\ JobBecomes(None, None)
       \/ job.pc \in Publishing /\ JobBecomes(job.pc, "cancelled") /\ workers' = workers
       \/ job.pc # "launched" /\ JobBecomes("decided", "cancelled") /\ workers' = workers
StopFails(c) ==
    /\ KernelBecomes(kernel.cancelled) /\ CallBecomes(c, None, FALSE)
    /\ \/ c = "deletion" /\ task' = task
       \/ c # "deletion" /\ TaskBecomes("cancelling", TRUE, task.ask)
    /\ \/ c = "job" /\ JobBecomes(None, None)
       \/ c # "job" /\ JobBecomes(job.pc, job.result)
    /\ UNCHANGED <<row, op, workers>>

\* What every step keeps: the invariant, and the two action properties.
KeepsCancelled == row.status = "cancelled" /\ task.cancel => row'.status = "cancelled"
KeepsUnknown == ShowsUnknown => ShowsUnknown' \/ task'.cancel \/ JobAt("launched")
KeepsAll == RunInvariant' /\ KeepsCancelled /\ KeepsUnknown

USE DEF None

-------------------------------------------------------------------------------
(* What the operators shared by several actions do *)

LEMMA RaiseEffect ==
    ASSUME Typed, NEW result \in Result, Raise(result) PROVE JobBecomes("decided", result)
BY DEF Typed, Raise, JobBecomes, Job, JobPc

LEMMA ReturnEffect ==
    ASSUME Typed, NEW result \in Result \union {None}, Return(result)
    PROVE  JobBecomes("returned", result)
BY DEF Typed, Return, JobBecomes, Job, JobPc

LEMMA JobEnds == job' = NoJob => JobBecomes(None, None)
BY DEF NoJob, JobBecomes, Job, JobPc

LEMMA OpStarts ==
    ASSUME Typed, StartOperation PROVE JobBecomes("waiting", job.result) /\ OpBecomes("opening")
BY DEF Typed, StartOperation, JobBecomes, OpBecomes, Job, JobPc, Op, OpPc, NoOp

LEMMA OpEnds == op' = NoOp => OpBecomes(None)
BY DEF NoOp, OpBecomes, Op, OpPc

LEMMA CleanupEffect == ASSUME Typed, Cleanup PROVE CleansUp
BY DEF Typed, Cleanup, CleansUp, FilesBecome, Files

LEMMA FaultEffect == ASSUME Typed, Fault PROVE spent' \in Spent
BY RunBoundAssumption DEF Typed, Fault, Spent

LEMMA RequestStopEffect ==
    ASSUME Typed, op.cancelled => op.pc # None,
           NEW c \in Caller, NEW active \in BOOLEAN, RequestStop(c, active)
    PROVE  Requests(c, active)
<1>1. FilesBecome(TRUE, files.journal, files.creating) /\ KernelBecomes(kernel.cancelled)
  BY DEF Typed, RequestStop, FilesBecome, KernelBecomes, Files, Kernel
<1>2. OpBecomes(op.pc)
  BY DEF Typed, RequestStop, OpBecomes, Op
<1>3. CallBecomes(c, "waiting", active)
  BY DEF Typed, RequestStop, CallBecomes, Call, Op
<1> QED
  BY <1>1, <1>2, <1>3 DEF Requests

LEMMA EndRequestEffect ==
    ASSUME Typed, NEW c \in Caller, NEW cancelled \in BOOLEAN, EndRequest(c, cancelled)
    PROVE  KernelBecomes(kernel.cancelled \/ cancelled) /\ CallBecomes(c, None, FALSE)
BY DEF Typed, EndRequest, KernelBecomes, CallBecomes, Kernel, Call, NoCall, Caller

LEMMA WakeEffect == ASSUME Typed, NEW c \in Caller, Wake(c) PROVE JobBecomes(job.pc, job.result)
BY DEF Typed, Wake, JobBecomes, Job

LEMMA MarkCancelledEffect == ASSUME Typed, MarkCancelled PROVE CancelsBoth
BY DEF Typed, MarkCancelled, CancelsBoth, TaskBecomes, RowBecomes, Task, RunRow, Terminal, Quiescent

LEMMA InterruptEffect ==
    ASSUME Typed, job.pc # None => workers > 0, Interrupt, job.pc # None PROVE Interrupted
<1>1. CASE job.pc \in {"launched", "stopping"}
  BY <1>1, JobEnds, RunBoundAssumption DEF Interrupt, Typed, Interrupted
<1>2. CASE job.pc \in Publishing
  BY <1>2 DEF Interrupt, Interrupted, Typed, Publishing, JobBecomes, Job, Result
<1>3. CASE job.pc \notin {"launched", "stopping"} \union Publishing
  BY <1>3, RaiseEffect DEF Interrupt, Interrupted, Typed, Publishing, Result
<1> QED
  BY <1>1, <1>2, <1>3

LEMMA StopOwnEffect ==
    ASSUME Typed, op.cancelled => op.pc # None, NEW reason \in Result, StopOwn(reason)
    PROVE  StopsItself
<1>1. Requests("job", FALSE)
  BY RequestStopEffect DEF StopOwn, Caller
<1>2. JobBecomes("stopping", reason)
  BY DEF StopOwn, Typed, JobBecomes, Job, JobPc
<1> QED
  BY <1>1, <1>2 DEF StopsItself, StopOwn

LEMMA FinishJobEffect ==
    ASSUME Typed, NEW reason, FinishJob(reason) PROVE Finishes
<1>1. JobBecomes(None, None)
  BY JobEnds DEF FinishJob
<1>2. CASE MarkCancelled
  BY <1>1, <1>2, MarkCancelledEffect DEF Finishes
<1>3. CASE /\ ~task.cancel
           /\ task' = [task EXCEPT !.status = "needs_input", !.ask = None]
           /\ row' = [row EXCEPT !.status = "needs_input", !.failure = "other"]
  BY <1>1, <1>3 DEF Typed, Finishes, TaskBecomes, RowBecomes, Task, RunRow, Quiescent
<1>4. CASE /\ task' = [task EXCEPT !.status = "failed", !.ask = None]
           /\ row' = IF row.bound THEN [row EXCEPT !.status = "cancelled", !.failure = None] ELSE row
  BY <1>1, <1>4 DEF Typed, Finishes, TaskBecomes, RowBecomes, Task, RunRow, Quiescent, Terminal
<1> QED
  BY <1>2, <1>3, <1>4 DEF FinishJob

LEMMA FailStopEffect ==
    ASSUME Typed, NEW c \in Caller, FailStop(c) PROVE StopFails(c)
<1>1. KernelBecomes(kernel.cancelled) /\ CallBecomes(c, None, FALSE)
  <2>1. KernelBecomes(kernel.cancelled \/ FALSE) /\ CallBecomes(c, None, FALSE)
    BY EndRequestEffect DEF FailStop
  <2> QED
    BY <2>1 DEF KernelBecomes, Typed, Kernel
<1>2. \/ c = "deletion" /\ task' = task
      \/ c # "deletion" /\ TaskBecomes("cancelling", TRUE, task.ask)
  BY DEF FailStop, Typed, TaskBecomes, Task
<1>3. \/ c = "job" /\ JobBecomes(None, None)
      \/ c # "job" /\ JobBecomes(job.pc, job.result)
  BY JobEnds, WakeEffect DEF FailStop
<1> QED
  BY <1>1, <1>2, <1>3 DEF FailStop, StopFails

-------------------------------------------------------------------------------
(* Every action keeps all of it *)

\* A dispatch is acted on: the task is not over and nobody wants it stopped.
LEMMA JobStartKeeps ==
    ASSUME RunInvariant, job.pc = None, workers > 0, Launchable,
           job' = [NoJob EXCEPT !.pc = "launched"],
           UNCHANGED <<task, row, files, box, kernel, lock, op, calls, workers, spent>>
    PROVE  KeepsAll
<1>1. /\ job.pc = None /\ workers > 0 /\ task.status \notin Terminal /\ ~task.cancel
      /\ task.status \in {"queued", "running", "needs_input"}
      /\ JobBecomes("launched", None)
      /\ UNCHANGED <<task, row, files, box, kernel, lock, op, calls, workers, spent>>
  BY DEF RunInvariant, Typed, Task, Job, Stops, JobBecomes, Launchable, NoJob, JobPc
<1>2. Typed'
  BY <1>1 DEF RunInvariant, Typed, JobBecomes
<1>3. Together'
  BY <1>1 DEF RunInvariant, Together, JobBecomes
<1>4. Ledger'
  BY <1>1 DEF RunInvariant, Ledger, JobBecomes
<1>5. Identity' /\ CleanResults'
  BY <1>1 DEF RunInvariant, Identity, CleanResults, CancelledRun, Publishing, Over, Terminal,
              JobBecomes
<1>6. JobIsShown' /\ Stops'
  BY <1>1 DEF RunInvariant, JobIsShown, Stops, Over, Terminal, Publishing
<1>7. Rest' /\ CancelledRun' /\ DraftIsKnown'
  BY <1>1 DEF RunInvariant, Rest, CancelledRun, DraftIsKnown, Settled, Over, Terminal, JobBecomes
<1>8. KeepsCancelled /\ KeepsUnknown
  BY <1>1 DEF RunInvariant, ShowsUnknown, KeepsCancelled, KeepsUnknown
<1> QED
  BY <1>2, <1>3, <1>4, <1>5, <1>6, <1>7, <1>8 DEF RunInvariant, KeepsAll

\* Nothing but the queue changes.
LEMMA WaitKeeps ==
    ASSUME RunInvariant, UNCHANGED <<task, row, files, box, kernel, lock, job, op, calls, workers, spent>>
    PROVE  KeepsAll
BY DEF KeepsAll, KeepsCancelled, KeepsUnknown, ShowsUnknown, RunInvariant, Typed, Together, Ledger,
       Identity, CleanResults, JobIsShown, Stops, Rest, CancelledRun, DraftIsKnown, Settled, Over

LEMMA DispatchKeeps ==
    ASSUME RunInvariant, QueueFits, Dispatch PROVE KeepsAll
<1>1. CASE Take \/ Launch
  <2>1. UNCHANGED <<task, row, files, box, kernel, lock, op, calls, workers, spent>>
    BY <1>1 DEF Take, Launch
  <2>2. CASE Launchable /\ job.pc = None /\ job' = [NoJob EXCEPT !.pc = "launched"]
    <3>1. workers > 0
      BY <1>1, <2>2 DEF Take, Launch, FreeWorker, Held, QueueFits, Queue, RunInvariant, Typed
    <3> QED
      BY <2>1, <2>2, <3>1, JobStartKeeps
  <2>3. CASE job' = job
    BY <2>1, <2>3, WaitKeeps
  <2> QED
    BY <1>1, <2>2, <2>3 DEF Take, Launch, StartJob, TokenFree, JobAt
<1>2. CASE Enqueue \/ TakeOther \/ EndOther
  BY <1>2, WaitKeeps DEF Enqueue, TakeOther, EndOther
<1> QED
  BY <1>1, <1>2 DEF Dispatch

LEMMA BeginKeeps ==
    ASSUME RunInvariant, Begin PROVE KeepsAll
<1>1. /\ job.pc = "launched"
      /\ TaskBecomes("running", task.cancel, task.ask)
      /\ \/ row.status = "candidate_ready" /\ JobBecomes("publishing", job.result) /\ row' = row
         \/ JobBecomes("preparing", job.result) /\ RowBecomes("running", None, row.bound)
      /\ UNCHANGED <<files, box, kernel, lock, op, calls, workers, spent>>
  BY DEF RunInvariant, Typed, Task, RunRow, Job, TaskBecomes, RowBecomes,
         JobBecomes, Begin, JobAt, Checkpointed, JobPc
<1>2. Typed'
  BY <1>1 DEF RunInvariant, Typed, TaskBecomes, RowBecomes, JobBecomes
<1>3. Together'
  BY <1>1 DEF RunInvariant, Together, JobBecomes
<1>4. Ledger'
  BY <1>1 DEF RunInvariant, Ledger, JobBecomes
<1>5. Identity' /\ CleanResults'
  BY <1>1 DEF RunInvariant, Identity, CleanResults, Publishing, RowBecomes, JobBecomes
<1>6. JobIsShown' /\ Stops'
  BY <1>1 DEF RunInvariant, JobIsShown, Stops, Over, Terminal, TaskBecomes
<1>7. Rest' /\ CancelledRun' /\ DraftIsKnown'
  BY <1>1 DEF RunInvariant, Rest, CancelledRun, DraftIsKnown, Settled, Terminal, TaskBecomes,
              RowBecomes, JobBecomes
<1>8. KeepsCancelled /\ KeepsUnknown
  BY <1>1 DEF RunInvariant, CancelledRun, KeepsCancelled, KeepsUnknown, JobAt
<1> QED
  BY <1>2, <1>3, <1>4, <1>5, <1>6, <1>7, <1>8 DEF RunInvariant, KeepsAll

LEMMA StartKeeps ==
    ASSUME RunInvariant, Start PROVE KeepsAll
<1>1. /\ job.pc = "preparing"
      /\ \/ RowBecomes(row.status, row.failure, TRUE) /\ JobBecomes("owning", job.result)
         \/ JobBecomes("decided", "error") /\ row' = row
      /\ UNCHANGED <<task, files, box, kernel, lock, op, calls, workers, spent>>
  BY DEF RunInvariant, Typed, RunRow, Job, RowBecomes, JobBecomes, Start, JobAt,
         Raise, JobPc, Result, Outcome
<1>2. Typed'
  BY <1>1 DEF RunInvariant, Typed, RowBecomes, JobBecomes
<1>3. Together'
  BY <1>1 DEF RunInvariant, Together, RowBecomes, JobBecomes
<1>4. Ledger'
  BY <1>1 DEF RunInvariant, Ledger, RowBecomes, JobBecomes
<1>5. Identity' /\ CleanResults'
  BY <1>1 DEF RunInvariant, Identity, CleanResults, Publishing, RowBecomes, JobBecomes
<1>6. JobIsShown' /\ Stops'
  BY <1>1 DEF RunInvariant, JobIsShown, Stops, Over, RowBecomes, JobBecomes
<1>7. Rest' /\ CancelledRun' /\ DraftIsKnown'
  BY <1>1 DEF RunInvariant, Identity, Rest, CancelledRun, DraftIsKnown, Settled, Over, RowBecomes,
              JobBecomes
<1>8. KeepsCancelled /\ KeepsUnknown
  BY <1>1 DEF RunInvariant, ShowsUnknown, KeepsCancelled, KeepsUnknown, RowBecomes
<1> QED
  BY <1>2, <1>3, <1>4, <1>5, <1>6, <1>7, <1>8 DEF RunInvariant, KeepsAll

LEMMA OwnKeeps ==
    ASSUME RunInvariant, Own PROVE KeepsAll
<1>1. /\ job.pc = "owning"
      /\ \/ JobBecomes("returned", "error") /\ UNCHANGED <<lock, op>>
         \/ /\ lock = None /\ ~files.cancel /\ ~files.creating
            /\ JobBecomes("recovering", job.result) /\ lock' = "run" /\ op' = op
         \/ /\ lock = None /\ ~files.cancel /\ files.journal = None
            /\ JobBecomes("waiting", job.result) /\ lock' = "run" /\ OpBecomes("opening")
      /\ UNCHANGED <<task, row, files, box, kernel, calls, workers, spent>>
  BY DEF RunInvariant, Typed, Job, Op, JobBecomes, OpBecomes, Own, JobAt,
         Refused, Return, StartOperation, NoOp, JobPc, OpPc, Result, Outcome
<1>2. Typed'
  BY <1>1 DEF RunInvariant, Typed, JobBecomes, OpBecomes
<1>3. Together'
  BY <1>1 DEF RunInvariant, Together, Caller, JobBecomes, OpBecomes
<1>4. Ledger'
  BY <1>1 DEF RunInvariant, Ledger, JobBecomes, OpBecomes
<1>5. Identity' /\ CleanResults'
  BY <1>1 DEF RunInvariant, Identity, CleanResults, Publishing, JobBecomes
<1>6. JobIsShown' /\ Stops'
  BY <1>1 DEF RunInvariant, JobIsShown, Stops, Over, JobBecomes, OpBecomes
<1>7. Rest' /\ CancelledRun' /\ DraftIsKnown'
  BY <1>1 DEF RunInvariant, Identity, Rest, CancelledRun, DraftIsKnown, Settled, Over, JobBecomes
<1>8. KeepsCancelled /\ KeepsUnknown
  BY <1>1 DEF RunInvariant, ShowsUnknown, KeepsCancelled, KeepsUnknown
<1> QED
  BY <1>2, <1>3, <1>4, <1>5, <1>6, <1>7, <1>8 DEF RunInvariant, KeepsAll

LEMMA RecoverKeeps ==
    ASSUME RunInvariant, Recover PROVE KeepsAll
<1>1. /\ job.pc = "recovering"
      /\ \/ /\ CleansUp /\ JobBecomes("waiting", job.result) /\ OpBecomes("opening")
            /\ UNCHANGED <<lock, spent>>
         \/ /\ JobBecomes("returned", "error") /\ lock' = None /\ spent' \in Spent
            /\ UNCHANGED <<files, box, op>>
      /\ UNCHANGED <<task, row, kernel, calls, workers>>
  BY CleanupEffect, OpStarts, ReturnEffect, FaultEffect DEF RunInvariant, Recover, JobAt, Result,
                                                            Outcome
<1>2. Typed'
  BY <1>1 DEF RunInvariant, Typed, JobBecomes, OpBecomes, CleansUp, FilesBecome
<1>3. Together'
  BY <1>1 DEF RunInvariant, Together, Caller, JobBecomes, OpBecomes
<1>4. Ledger'
  BY <1>1 DEF RunInvariant, Ledger, OpBecomes, CleansUp, FilesBecome
<1>5. Identity' /\ CleanResults'
  BY <1>1 DEF RunInvariant, Identity, CleanResults, Publishing, JobBecomes
<1>6. JobIsShown' /\ Stops'
  BY <1>1 DEF RunInvariant, JobIsShown, Stops, Over, JobBecomes, OpBecomes, CleansUp, FilesBecome
<1>7. Rest' /\ CancelledRun' /\ DraftIsKnown'
  BY <1>1 DEF RunInvariant, JobIsShown, Rest, CancelledRun, DraftIsKnown, Settled, Terminal,
              JobBecomes
<1>8. KeepsCancelled /\ KeepsUnknown
  BY <1>1 DEF RunInvariant, ShowsUnknown, KeepsCancelled, KeepsUnknown
<1> QED
  BY <1>2, <1>3, <1>4, <1>5, <1>6, <1>7, <1>8 DEF RunInvariant, KeepsAll

LEMMA PlanKeeps ==
    ASSUME RunInvariant, Plan PROVE KeepsAll
<1>1. /\ op.pc = "opening"
      /\ \/ OpBecomes("closing") /\ files' = files
         \/ OpBecomes("planned") /\ FilesBecome(files.cancel, "planned", files.creating)
      /\ UNCHANGED <<task, row, box, kernel, lock, job, calls, workers, spent>>
  BY DEF RunInvariant, Typed, Files, Op, FilesBecome, OpBecomes, Plan, OpAt,
         EndOp, OpTo, OpPc, Result, Outcome
<1>2. Typed'
  BY <1>1 DEF RunInvariant, Typed, FilesBecome, OpBecomes
<1>3. Together'
  BY <1>1 DEF RunInvariant, Together, OpBecomes
<1>4. Ledger'
  BY <1>1 DEF RunInvariant, Ledger, FilesBecome, OpBecomes
<1>5. Identity' /\ CleanResults'
  BY <1>1 DEF RunInvariant, Together, Identity, CleanResults, Publishing
<1>6. JobIsShown' /\ Stops'
  BY <1>1 DEF RunInvariant, JobIsShown, Stops, Over, FilesBecome, OpBecomes
<1>7. Rest' /\ CancelledRun' /\ DraftIsKnown'
  BY <1>1 DEF RunInvariant, Together, JobIsShown, Rest, CancelledRun, DraftIsKnown, Settled,
              Terminal
<1>8. KeepsCancelled /\ KeepsUnknown
  BY <1>1 DEF RunInvariant, ShowsUnknown, KeepsCancelled, KeepsUnknown
<1> QED
  BY <1>2, <1>3, <1>4, <1>5, <1>6, <1>7, <1>8 DEF RunInvariant, KeepsAll

LEMMA SaveCheckpointKeeps ==
    ASSUME RunInvariant, SaveCheckpoint PROVE KeepsAll
<1>1. /\ op.pc = "planned"
      /\ OpBecomes("saved")
      /\ RowBecomes(row.status, row.failure, row.bound)
      /\ UNCHANGED <<task, files, box, kernel, lock, job, calls, workers, spent>>
  BY DEF RunInvariant, Typed, RunRow, Op, RowBecomes, OpBecomes, SaveCheckpoint,
         OpAt, OpTo, OpPc
<1>2. Typed'
  BY <1>1 DEF RunInvariant, Typed, RowBecomes, OpBecomes
<1>3. Together'
  BY <1>1 DEF RunInvariant, Together, OpBecomes
<1>4. Ledger'
  BY <1>1 DEF RunInvariant, Ledger, OpBecomes
<1>5. Identity' /\ CleanResults'
  BY <1>1 DEF RunInvariant, Identity, CleanResults, RowBecomes
<1>6. JobIsShown' /\ Stops'
  BY <1>1 DEF RunInvariant, JobIsShown, Stops, Over, OpBecomes
<1>7. Rest' /\ CancelledRun' /\ DraftIsKnown'
  BY <1>1 DEF RunInvariant, Ledger, Rest, CancelledRun, DraftIsKnown, RowBecomes
<1>8. KeepsCancelled /\ KeepsUnknown
  BY <1>1 DEF RunInvariant, Together, JobIsShown, CancelledRun, ShowsUnknown, KeepsCancelled,
              KeepsUnknown
<1> QED
  BY <1>2, <1>3, <1>4, <1>5, <1>6, <1>7, <1>8 DEF RunInvariant, KeepsAll

LEMMA BeginCreateKeeps ==
    ASSUME RunInvariant, BeginCreate PROVE KeepsAll
<1>1. /\ op.pc = "saved"
      /\ OpBecomes("creating")
      /\ FilesBecome(files.cancel, "started", TRUE)
      /\ UNCHANGED <<task, row, box, kernel, lock, job, calls, workers, spent>>
  BY DEF RunInvariant, Typed, Files, Op, FilesBecome, OpBecomes, BeginCreate,
         OpAt, OpTo, OpPc
<1>2. Typed'
  BY <1>1 DEF RunInvariant, Typed, FilesBecome, OpBecomes
<1>3. Together'
  BY <1>1 DEF RunInvariant, Together, OpBecomes
<1>4. Ledger'
  BY <1>1 DEF RunInvariant, Together, Ledger, Caller, FilesBecome, OpBecomes
<1>5. Identity' /\ CleanResults'
  BY <1>1 DEF RunInvariant, Identity, CleanResults, Ledger
<1>6. JobIsShown' /\ Stops'
  BY <1>1 DEF RunInvariant, JobIsShown, Stops, Over, FilesBecome, OpBecomes
<1>7. Rest' /\ CancelledRun' /\ DraftIsKnown'
  BY <1>1 DEF RunInvariant, Together, JobIsShown, Rest, CancelledRun, DraftIsKnown, Settled,
              Terminal
<1>8. KeepsCancelled /\ KeepsUnknown
  BY <1>1 DEF RunInvariant, ShowsUnknown, KeepsCancelled, KeepsUnknown
<1> QED
  BY <1>2, <1>3, <1>4, <1>5, <1>6, <1>7, <1>8 DEF RunInvariant, KeepsAll

LEMMA EndCreateKeeps ==
    ASSUME RunInvariant, EndCreate PROVE KeepsAll
<1>1. /\ op.pc = "creating"
      /\ \/ OpBecomes("running") /\ FilesBecome(files.cancel, files.journal, FALSE) /\ box'
         \/ OpBecomes("closing") /\ FilesBecome(files.cancel, "planned", FALSE) /\ box' = box
      /\ box' \in BOOLEAN
      /\ UNCHANGED <<task, row, kernel, lock, job, calls, workers, spent>>
  BY DEF RunInvariant, Typed, Files, Op, FilesBecome, OpBecomes, EndCreate,
         OpAt, OpTo, EndOp, OpPc, Result, Outcome
<1>2. Typed'
  BY <1>1 DEF RunInvariant, Typed, FilesBecome, OpBecomes
<1>3. Together'
  BY <1>1 DEF RunInvariant, Together, FilesBecome, OpBecomes
<1>4. Ledger'
  BY <1>1 DEF RunInvariant, Ledger, FilesBecome, OpBecomes
<1>5. Identity' /\ CleanResults'
  BY <1>1 DEF RunInvariant, Identity, CleanResults, Ledger
<1>6. JobIsShown' /\ Stops'
  BY <1>1 DEF RunInvariant, JobIsShown, Stops, Over, FilesBecome, OpBecomes
<1>7. Rest' /\ CancelledRun' /\ DraftIsKnown'
  BY <1>1 DEF RunInvariant, Ledger, Rest, CancelledRun, DraftIsKnown, Settled
<1>8. KeepsCancelled /\ KeepsUnknown
  BY <1>1 DEF RunInvariant, ShowsUnknown, KeepsCancelled, KeepsUnknown
<1> QED
  BY <1>2, <1>3, <1>4, <1>5, <1>6, <1>7, <1>8 DEF RunInvariant, KeepsAll

LEMMA LateCreateKeeps ==
    ASSUME RunInvariant, LateCreate PROVE KeepsAll
<1>1. /\ files.creating /\ op.pc = None
      /\ box' \in BOOLEAN
      /\ UNCHANGED <<task, row, files, kernel, lock, job, op, calls, workers, spent>>
  BY DEF RunInvariant, LateCreate, Ledger, Typed, Op, OpPc
<1>2. Typed'
  BY <1>1 DEF RunInvariant, Typed
<1>3. Together'
  BY <1>1 DEF RunInvariant, Together
<1>4. Ledger'
  BY <1>1 DEF RunInvariant, Ledger
<1>5. Identity' /\ CleanResults'
  BY <1>1 DEF RunInvariant, Identity, CleanResults
<1>6. JobIsShown' /\ Stops'
  BY <1>1 DEF RunInvariant, JobIsShown, Stops, Over
<1>7. Rest' /\ CancelledRun' /\ DraftIsKnown'
  BY <1>1 DEF RunInvariant, Rest, CancelledRun, DraftIsKnown, Settled, Over
<1>8. KeepsCancelled /\ KeepsUnknown
  BY <1>1 DEF RunInvariant, ShowsUnknown, KeepsCancelled, KeepsUnknown
<1> QED
  BY <1>2, <1>3, <1>4, <1>5, <1>6, <1>7, <1>8 DEF RunInvariant, KeepsAll

LEMMA SettleKeeps ==
    ASSUME RunInvariant, Settle PROVE KeepsAll
<1>1. /\ op.pc \in {"opening", "planned", "saved", "running"}
      /\ OpBecomes("closing")
      /\ UNCHANGED <<task, row, files, box, kernel, lock, job, calls, workers, spent>>
  BY DEF RunInvariant, Typed, Op, OpBecomes, Settle, OpAt, EndOp, OpPc, Result,
         Outcome
<1>2. Typed'
  BY <1>1 DEF RunInvariant, Typed, OpBecomes
<1>3. Together'
  BY <1>1 DEF RunInvariant, Together, OpBecomes
<1>4. Ledger'
  BY <1>1 DEF RunInvariant, Ledger, OpBecomes
<1>5. Identity' /\ CleanResults'
  BY <1>1 DEF RunInvariant, Identity, CleanResults
<1>6. JobIsShown' /\ Stops'
  BY <1>1 DEF RunInvariant, JobIsShown, Stops, Over, OpBecomes
<1>7. Rest' /\ CancelledRun' /\ DraftIsKnown'
  BY <1>1 DEF RunInvariant, Rest, CancelledRun, DraftIsKnown, Settled
<1>8. KeepsCancelled /\ KeepsUnknown
  BY <1>1 DEF RunInvariant, ShowsUnknown, KeepsCancelled, KeepsUnknown
<1> QED
  BY <1>2, <1>3, <1>4, <1>5, <1>6, <1>7, <1>8 DEF RunInvariant, KeepsAll

LEMMA WatchKeeps ==
    ASSUME RunInvariant, Watch PROVE KeepsAll
<1>1. /\ OpBecomes(op.pc)
      /\ UNCHANGED <<task, row, files, box, kernel, lock, job, calls, workers, spent>>
  BY DEF RunInvariant, Typed, Op, OpBecomes, Watch
<1>2. Typed'
  BY <1>1 DEF RunInvariant, Typed, OpBecomes
<1>3. Together'
  BY <1>1 DEF RunInvariant, Together, OpBecomes
<1>4. Ledger'
  BY <1>1 DEF RunInvariant, Ledger, OpBecomes
<1>5. Identity' /\ CleanResults'
  BY <1>1 DEF RunInvariant, Identity, CleanResults
<1>6. JobIsShown' /\ Stops'
  BY <1>1 DEF RunInvariant, JobIsShown, Stops, Over, OpBecomes
<1>7. Rest' /\ CancelledRun' /\ DraftIsKnown'
  BY <1>1 DEF RunInvariant, Rest, CancelledRun, DraftIsKnown, Settled, Over, OpBecomes
<1>8. KeepsCancelled /\ KeepsUnknown
  BY <1>1 DEF RunInvariant, ShowsUnknown, KeepsCancelled, KeepsUnknown
<1> QED
  BY <1>2, <1>3, <1>4, <1>5, <1>6, <1>7, <1>8 DEF RunInvariant, KeepsAll

LEMMA UnwindKeeps ==
    ASSUME RunInvariant, Unwind PROVE KeepsAll
<1>1. /\ op.pc # None
      /\ OpBecomes("closing")
      /\ FilesBecome(files.cancel, files.journal, FALSE)
      /\ box' \in BOOLEAN /\ (op.pc # "creating" => box' = box)
      /\ UNCHANGED <<task, row, kernel, lock, job, calls, workers, spent>>
  <2>1. box' \in BOOLEAN /\ (op.pc # "creating" => box' = box)
    BY DEF RunInvariant, Typed, Unwind
  <2>2. OpBecomes("closing")
    BY DEF RunInvariant, Typed, Unwind, EndOp, OpBecomes, Op, OpPc, Result
  <2>3. FilesBecome(files.cancel, files.journal, FALSE)
    BY DEF RunInvariant, Typed, Unwind, FilesBecome, Files
  <2> QED
    BY <2>1, <2>2, <2>3 DEF RunInvariant, Unwind, Stops
<1>2. Typed'
  BY <1>1 DEF RunInvariant, Typed, FilesBecome, OpBecomes
<1>3. Together'
  BY <1>1 DEF RunInvariant, Together, OpBecomes
<1>4. Ledger'
  BY <1>1 DEF RunInvariant, Ledger, FilesBecome, OpBecomes
<1>5. Identity' /\ CleanResults'
  BY <1>1 DEF RunInvariant, Together, Identity, CleanResults, Publishing
<1>6. JobIsShown' /\ Stops'
  BY <1>1 DEF RunInvariant, JobIsShown, Stops, Over, FilesBecome, OpBecomes
<1>7. Rest' /\ CancelledRun' /\ DraftIsKnown'
  BY <1>1 DEF RunInvariant, Together, JobIsShown, Rest, CancelledRun, DraftIsKnown, Settled,
              Terminal
<1>8. KeepsCancelled /\ KeepsUnknown
  BY <1>1 DEF RunInvariant, ShowsUnknown, KeepsCancelled, KeepsUnknown
<1> QED
  BY <1>2, <1>3, <1>4, <1>5, <1>6, <1>7, <1>8 DEF RunInvariant, KeepsAll

LEMMA CloseKeeps ==
    ASSUME RunInvariant, Close PROVE KeepsAll
<1>1. /\ op.pc = "closing"
      /\ OpBecomes(None) /\ lock' = None
      /\ \/ CleansUp /\ JobBecomes("returned", op.result) /\ spent' = spent
         \/ JobBecomes("returned", "error") /\ spent' \in Spent /\ UNCHANGED <<files, box>>
      /\ UNCHANGED <<task, row, kernel, calls, workers>>
  BY CleanupEffect, OpEnds, ReturnEffect, FaultEffect DEF RunInvariant, Close, Typed, Op, Result,
                                                          Outcome
<1>2. Typed'
  BY <1>1 DEF RunInvariant, Typed, JobBecomes, OpBecomes, CleansUp, FilesBecome
<1>3. Together'
  BY <1>1 DEF RunInvariant, Together, Caller, JobBecomes, OpBecomes
<1>4. Ledger'
  BY <1>1 DEF RunInvariant, Ledger, OpBecomes, CleansUp, FilesBecome
<1>5. Identity' /\ CleanResults'
  BY <1>1 DEF RunInvariant, Together, Identity, CleanResults, Publishing, JobBecomes, CleansUp,
              FilesBecome
<1>6. JobIsShown' /\ Stops'
  BY <1>1 DEF RunInvariant, Together, JobIsShown, Stops, Over, JobBecomes, OpBecomes, CleansUp,
              FilesBecome
<1>7. Rest' /\ CancelledRun' /\ DraftIsKnown'
  BY <1>1 DEF RunInvariant, Together, JobIsShown, Rest, CancelledRun, DraftIsKnown, Settled,
              Terminal, JobBecomes
<1>8. KeepsCancelled /\ KeepsUnknown
  BY <1>1 DEF RunInvariant, ShowsUnknown, KeepsCancelled, KeepsUnknown
<1> QED
  BY <1>2, <1>3, <1>4, <1>5, <1>6, <1>7, <1>8 DEF RunInvariant, KeepsAll

LEMMA AwaitStopKeeps ==
    ASSUME RunInvariant, AwaitStop PROVE KeepsAll
<1>1. /\ job.pc = "returned"
      /\ JobBecomes("accepting", job.result)
      /\ UNCHANGED <<task, row, files, box, kernel, lock, op, calls, workers, spent>>
  BY DEF RunInvariant, Typed, Job, JobBecomes, AwaitStop, JobAt, JobPc, Kernel
<1>2. Typed'
  BY <1>1 DEF RunInvariant, Typed, JobBecomes
<1>3. Together'
  BY <1>1 DEF RunInvariant, Together, JobBecomes
<1>4. Ledger'
  BY <1>1 DEF RunInvariant, Ledger, JobBecomes
<1>5. Identity' /\ CleanResults'
  BY <1>1 DEF RunInvariant, Identity, CleanResults, Publishing, JobBecomes
<1>6. JobIsShown' /\ Stops'
  BY <1>1 DEF RunInvariant, JobIsShown, Stops, Over, JobBecomes
<1>7. Rest' /\ CancelledRun' /\ DraftIsKnown'
  BY <1>1 DEF RunInvariant, Rest, CancelledRun, DraftIsKnown, Settled, Over, JobBecomes
<1>8. KeepsCancelled /\ KeepsUnknown
  BY <1>1 DEF RunInvariant, ShowsUnknown, KeepsCancelled, KeepsUnknown
<1> QED
  BY <1>2, <1>3, <1>4, <1>5, <1>6, <1>7, <1>8 DEF RunInvariant, KeepsAll

LEMMA AcceptKeeps ==
    ASSUME RunInvariant, Accept PROVE KeepsAll
<1>1. /\ job.pc \in {"returned", "accepting"}
      /\ \/ /\ JobBecomes("decided", "cancelled") /\ row' = row
         \/ /\ JobBecomes("decided", job.result) /\ job.result \in {"unknown", "stalled"} /\ row' = row
         \/ /\ JobBecomes("decided", "error") /\ row' = row
         \/ /\ ~kernel.cancelled /\ JobBecomes("decided", job.result)
            /\ \/ /\ job.result \in {"passed", "unverified"}
                  /\ RowBecomes("candidate_ready", None, row.bound)
               \/ job.result = "question" /\ RowBecomes("needs_input", None, row.bound)
               \/ /\ job.result \in {"unknown", "error", "stalled"}
                  /\ \E status \in {"needs_input", "failed"}, failure \in {"unknown", "other"} :
                        RowBecomes(status, failure, row.bound)
      /\ UNCHANGED <<task, files, box, kernel, lock, op, calls, workers, spent>>
  BY DEF RunInvariant, Typed, RunRow, Job, RowBecomes, JobBecomes, Accept,
         StopSettled, JobAt, Raise, StopWon, Accepted, JobPc, Result, Outcome,
         Quiescent
<1>2. Typed'
  BY <1>1 DEF RunInvariant, Typed, RowBecomes, JobBecomes
<1>3. Together'
  BY <1>1 DEF RunInvariant, Together, JobBecomes
<1>4. Ledger'
  BY <1>1 DEF RunInvariant, Ledger, JobBecomes
<1>5. Identity' /\ CleanResults'
  BY <1>1 DEF RunInvariant, Identity, CleanResults, Publishing, RowBecomes, JobBecomes
<1>6. JobIsShown' /\ Stops'
  BY <1>1 DEF RunInvariant, JobIsShown, Stops, Over, JobBecomes
<1>7. Rest' /\ CancelledRun' /\ DraftIsKnown'
  BY <1>1 DEF RunInvariant, JobIsShown, Rest, CancelledRun, DraftIsKnown, Settled, Over,
              RowBecomes, JobBecomes
<1>8. KeepsCancelled /\ KeepsUnknown
  BY <1>1 DEF RunInvariant, JobIsShown, CancelledRun, ShowsUnknown, KeepsCancelled, KeepsUnknown
<1> QED
  BY <1>2, <1>3, <1>4, <1>5, <1>6, <1>7, <1>8 DEF RunInvariant, KeepsAll

LEMMA AskProofKeeps ==
    ASSUME RunInvariant, AskProof PROVE KeepsAll
<1>1. /\ task.status \in Terminal \union {"cancelling"} /\ job.pc # "launched"
      /\ calls["deletion"].pc = None /\ row.bound
      /\ Requests("deletion", FALSE) /\ spent' \in Spent
      /\ UNCHANGED <<task, row, box, lock, job, workers>>
  <2>1. Requests("deletion", FALSE)
    BY RequestStopEffect DEF RunInvariant, Stops, AskProof, Caller
  <2>2. spent' \in Spent
    BY RunBoundAssumption DEF RunInvariant, Typed, AskProof, Spent
  <2> QED
    BY <2>1, <2>2 DEF AskProof
<1>2. Typed'
  BY <1>1 DEF RunInvariant, Typed, Requests, FilesBecome, KernelBecomes, OpBecomes, CallBecomes
<1>3. Together'
  BY <1>1 DEF RunInvariant, Together, Requests, OpBecomes, CallBecomes
<1>4. Ledger'
  BY <1>1 DEF RunInvariant, Ledger, Requests, FilesBecome, OpBecomes, CallBecomes
<1>5. Identity' /\ CleanResults'
  BY <1>1 DEF RunInvariant, Identity, CleanResults, Requests, FilesBecome
<1>6. JobIsShown' /\ Stops'
  BY <1>1 DEF RunInvariant, JobIsShown, Stops, Outside, Over, Caller, Requests, FilesBecome,
              OpBecomes, CallBecomes
<1>7. Rest' /\ CancelledRun' /\ DraftIsKnown'
  BY <1>1 DEF RunInvariant, Rest, CancelledRun, DraftIsKnown, Settled, Over, Requests, FilesBecome,
              KernelBecomes, OpBecomes
<1>8. KeepsCancelled /\ KeepsUnknown
  BY <1>1 DEF RunInvariant, ShowsUnknown, KeepsCancelled, KeepsUnknown
<1> QED
  BY <1>2, <1>3, <1>4, <1>5, <1>6, <1>7, <1>8 DEF RunInvariant, KeepsAll

LEMMA ApproveDraftKeeps ==
    ASSUME RunInvariant, ApproveDraft PROVE KeepsAll
<1>1. /\ task.status = "needs_input" /\ task.ask = "draft" /\ ~task.cancel
      /\ TaskBecomes("queued", FALSE, "approved")
      /\ UNCHANGED <<row, files, box, kernel, lock, job, op, calls, workers, spent>>
  BY DEF RunInvariant, Typed, Task, TaskBecomes, ApproveDraft
<1>2. Typed'
  BY <1>1 DEF RunInvariant, Typed, TaskBecomes
<1>3. Together'
  BY <1>1 DEF RunInvariant, Together
<1>4. Ledger'
  BY <1>1 DEF RunInvariant, Ledger
<1>5. Identity' /\ CleanResults'
  BY <1>1 DEF RunInvariant, Identity, CleanResults
<1>6. JobIsShown' /\ Stops'
  BY <1>1 DEF RunInvariant, JobIsShown, Stops, Over, Terminal, TaskBecomes
<1>7. Rest' /\ CancelledRun' /\ DraftIsKnown'
  BY <1>1 DEF RunInvariant, Rest, CancelledRun, DraftIsKnown, Settled, Over, Terminal, TaskBecomes
<1>8. KeepsCancelled /\ KeepsUnknown
  BY <1>1 DEF RunInvariant, DraftIsKnown, ShowsUnknown, KeepsCancelled, KeepsUnknown
<1> QED
  BY <1>2, <1>3, <1>4, <1>5, <1>6, <1>7, <1>8 DEF RunInvariant, KeepsAll

LEMMA CrashKeeps ==
    ASSUME RunInvariant, Crash PROVE KeepsAll
<1>1. /\ \/ TaskBecomes(task.status, task.cancel, task.ask)
         \/ task.status = "running" /\ TaskBecomes("queued", task.cancel, task.ask)
      /\ KernelBecomes(FALSE) /\ lock' = None /\ JobBecomes(None, None) /\ OpBecomes(None)
      /\ calls' \in [Caller -> Call] /\ (\A c \in Caller : calls'[c].pc = None)
      /\ workers' \in 0 .. QueueWorkers /\ spent' \in Spent
      /\ UNCHANGED <<row, files, box>>
  <2>1. /\ task' = [task EXCEPT !.status = IF @ = "running" THEN "queued" ELSE @]
        /\ kernel' = [cancelled |-> FALSE, request |-> None] /\ lock' = None
        /\ job' = NoJob /\ op' = NoOp /\ calls' = [c \in Caller |-> NoCall]
        /\ workers' = QueueWorkers /\ spent.crashes < MaxCrashes
        /\ spent' = [spent EXCEPT !.crashes = @ + 1] /\ UNCHANGED <<row, files, box>>
    BY DEF Crash
  <2>2. \/ TaskBecomes(task.status, task.cancel, task.ask)
        \/ task.status = "running" /\ TaskBecomes("queued", task.cancel, task.ask)
    BY <2>1 DEF RunInvariant, Typed, Task, TaskBecomes
  <2>3. KernelBecomes(FALSE) /\ JobBecomes(None, None) /\ OpBecomes(None)
    BY <2>1 DEF Kernel, Job, Op, KernelBecomes, JobBecomes, OpBecomes, NoJob, NoOp, JobPc, OpPc
  <2>4. calls' \in [Caller -> Call] /\ (\A c \in Caller : calls'[c].pc = None)
    BY <2>1 DEF NoCall, Call
  <2>5. workers' \in 0 .. QueueWorkers /\ spent' \in Spent
    BY <2>1, RunBoundAssumption DEF RunInvariant, Typed, Spent
  <2> QED
    BY <2>1, <2>2, <2>3, <2>4, <2>5
<1>2. Typed'
  BY <1>1 DEF RunInvariant, Typed, TaskBecomes, KernelBecomes, JobBecomes, OpBecomes
<1>3. Together'
  BY <1>1 DEF RunInvariant, Together, Caller, JobBecomes, OpBecomes
<1>4. Ledger'
  BY <1>1 DEF RunInvariant, Ledger, JobBecomes, OpBecomes
<1>5. Identity' /\ CleanResults'
  BY <1>1 DEF RunInvariant, Identity, CleanResults, Publishing, JobBecomes
<1>6. JobIsShown' /\ Stops'
  BY <1>1 DEF RunInvariant, JobIsShown, Stops, Outside, Caller, TaskBecomes, JobBecomes, OpBecomes
<1>7. Rest' /\ CancelledRun' /\ DraftIsKnown'
  BY <1>1 DEF RunInvariant, Rest, CancelledRun, DraftIsKnown, Settled, Over, Terminal, TaskBecomes,
              JobBecomes, OpBecomes
<1>8. KeepsCancelled /\ KeepsUnknown
  BY <1>1 DEF RunInvariant, ShowsUnknown, KeepsCancelled, KeepsUnknown, TaskBecomes
<1> QED
  BY <1>2, <1>3, <1>4, <1>5, <1>6, <1>7, <1>8 DEF RunInvariant, KeepsAll

LEMMA DecideUnknownKeeps ==
    ASSUME RunInvariant, DecideUnknown PROVE KeepsAll
<1>1. /\ job.pc = "decided" /\ job.result = "unknown"
      /\ TaskBecomes("needs_input", task.cancel, None) /\ JobBecomes(None, None)
      /\ UNCHANGED <<row, files, box, kernel, lock, op, calls, workers, spent>>
  BY DEF RunInvariant, Typed, Task, Job, TaskBecomes, JobBecomes, DecideUnknown,
         JobAt, NoJob, JobPc
<1>2. Typed'
  BY <1>1 DEF RunInvariant, Typed, TaskBecomes, JobBecomes
<1>3. Together'
  BY <1>1 DEF RunInvariant, Together, JobBecomes
<1>4. Ledger'
  BY <1>1 DEF RunInvariant, Ledger, JobBecomes
<1>5. Identity' /\ CleanResults'
  BY <1>1 DEF RunInvariant, Identity, CleanResults, JobBecomes
<1>6. JobIsShown' /\ Stops'
  BY <1>1 DEF RunInvariant, JobIsShown, Stops, Over, Terminal, TaskBecomes, JobBecomes
<1>7. Rest' /\ CancelledRun' /\ DraftIsKnown'
  BY <1>1 DEF RunInvariant, CleanResults, JobIsShown, Rest, CancelledRun, DraftIsKnown, Over,
              Terminal, TaskBecomes, JobBecomes
<1>8. KeepsCancelled /\ KeepsUnknown
  BY <1>1 DEF RunInvariant, JobIsShown, ShowsUnknown, KeepsCancelled, KeepsUnknown
<1> QED
  BY <1>2, <1>3, <1>4, <1>5, <1>6, <1>7, <1>8 DEF RunInvariant, KeepsAll

LEMMA DecideCandidateKeeps ==
    ASSUME RunInvariant, DecideCandidate PROVE KeepsAll
<1>1. /\ job.pc = "decided" /\ job.result \in {"passed", "unverified"}
      /\ RowBecomes("candidate_ready", row.failure, row.bound)
      /\ \/ JobBecomes("publishing", job.result) /\ task' = task
         \/ TaskBecomes("candidate_ready", FALSE, None) /\ JobBecomes(None, None)
      /\ UNCHANGED <<files, box, kernel, lock, op, calls, workers, spent>>
  BY JobEnds DEF RunInvariant, DecideCandidate, JobAt, Typed, Task, RunRow, Job, JobPc, Quiescent,
                 Terminal, TaskBecomes, RowBecomes, JobBecomes
<1>2. Typed'
  BY <1>1 DEF RunInvariant, Typed, TaskBecomes, RowBecomes, JobBecomes
<1>3. Together'
  BY <1>1 DEF RunInvariant, Together, TaskBecomes, JobBecomes
<1>4. Ledger'
  BY <1>1 DEF RunInvariant, Ledger, TaskBecomes, JobBecomes
<1>5. Identity' /\ CleanResults'
  BY <1>1 DEF RunInvariant, Identity, CleanResults, TaskBecomes, RowBecomes, JobBecomes
<1>6. JobIsShown' /\ Stops'
  BY <1>1 DEF RunInvariant, JobIsShown, Stops, Over, Terminal, TaskBecomes, JobBecomes
<1>7. Rest' /\ CancelledRun' /\ DraftIsKnown'
  BY <1>1 DEF RunInvariant, CleanResults, Rest, CancelledRun, DraftIsKnown, TaskBecomes,
              RowBecomes, JobBecomes
<1>8. KeepsCancelled /\ KeepsUnknown
  BY <1>1 DEF RunInvariant, JobIsShown, CancelledRun, ShowsUnknown, KeepsCancelled, KeepsUnknown
<1> QED
  BY <1>2, <1>3, <1>4, <1>5, <1>6, <1>7, <1>8 DEF RunInvariant, KeepsAll

LEMMA GateKeeps ==
    ASSUME RunInvariant, Gate PROVE KeepsAll
<1>1. /\ job.pc = "publishing"
      /\ JobBecomes("committing", job.result)
      /\ UNCHANGED <<task, row, files, box, kernel, lock, op, calls, workers, spent>>
  BY DEF RunInvariant, Typed, Job, JobBecomes, Gate, JobAt, JobPc
<1>2. Typed'
  BY <1>1 DEF RunInvariant, Typed, JobBecomes
<1>3. Together'
  BY <1>1 DEF RunInvariant, Together, JobBecomes
<1>4. Ledger'
  BY <1>1 DEF RunInvariant, Ledger, JobBecomes
<1>5. Identity' /\ CleanResults'
  BY <1>1 DEF RunInvariant, Identity, CleanResults, Publishing, JobBecomes
<1>6. JobIsShown' /\ Stops'
  BY <1>1 DEF RunInvariant, JobIsShown, Stops, Over, JobBecomes
<1>7. Rest' /\ CancelledRun' /\ DraftIsKnown'
  BY <1>1 DEF RunInvariant, Rest, CancelledRun, DraftIsKnown, Settled, Over, JobBecomes
<1>8. KeepsCancelled /\ KeepsUnknown
  BY <1>1 DEF RunInvariant, ShowsUnknown, KeepsCancelled, KeepsUnknown
<1> QED
  BY <1>2, <1>3, <1>4, <1>5, <1>6, <1>7, <1>8 DEF RunInvariant, KeepsAll

LEMMA CommitKeeps ==
    ASSUME RunInvariant, Commit PROVE KeepsAll
<1>1. /\ job.pc = "committing"
      /\ JobBecomes("delivered", job.result)
      /\ UNCHANGED <<task, row, files, box, kernel, lock, op, calls, workers, spent>>
  BY DEF RunInvariant, Typed, Job, JobBecomes, Commit, JobAt, JobPc
<1>2. Typed'
  BY <1>1 DEF RunInvariant, Typed, JobBecomes
<1>3. Together'
  BY <1>1 DEF RunInvariant, Together, JobBecomes
<1>4. Ledger'
  BY <1>1 DEF RunInvariant, Ledger, JobBecomes
<1>5. Identity' /\ CleanResults'
  BY <1>1 DEF RunInvariant, Identity, CleanResults, Publishing, JobBecomes
<1>6. JobIsShown' /\ Stops'
  BY <1>1 DEF RunInvariant, JobIsShown, Stops, Over, JobBecomes
<1>7. Rest' /\ CancelledRun' /\ DraftIsKnown'
  BY <1>1 DEF RunInvariant, Rest, CancelledRun, DraftIsKnown, Settled, Over, JobBecomes
<1>8. KeepsCancelled /\ KeepsUnknown
  BY <1>1 DEF RunInvariant, ShowsUnknown, KeepsCancelled, KeepsUnknown
<1> QED
  BY <1>2, <1>3, <1>4, <1>5, <1>6, <1>7, <1>8 DEF RunInvariant, KeepsAll

LEMMA CompleteKeeps ==
    ASSUME RunInvariant, Complete PROVE KeepsAll
<1>1. /\ job.pc = "delivered"
      /\ \/ JobBecomes("decided", "cancelled") /\ task' = task
         \/ TaskBecomes("completed", FALSE, None) /\ JobBecomes(None, None)
      /\ UNCHANGED <<row, files, box, kernel, lock, op, calls, workers, spent>>
  BY JobEnds, RaiseEffect DEF RunInvariant, Complete, JobAt, Typed, Task, Result, Terminal,
                              TaskBecomes
<1>2. Typed'
  BY <1>1 DEF RunInvariant, Typed, TaskBecomes, JobBecomes
<1>3. Together'
  BY <1>1 DEF RunInvariant, Together, TaskBecomes, JobBecomes
<1>4. Ledger'
  BY <1>1 DEF RunInvariant, Ledger, TaskBecomes, JobBecomes
<1>5. Identity' /\ CleanResults'
  BY <1>1 DEF RunInvariant, Identity, CleanResults, Publishing, TaskBecomes, JobBecomes
<1>6. JobIsShown' /\ Stops'
  BY <1>1 DEF RunInvariant, JobIsShown, Stops, Over, Terminal, TaskBecomes, JobBecomes
<1>7. Rest' /\ CancelledRun' /\ DraftIsKnown'
  BY <1>1 DEF RunInvariant, CleanResults, Rest, CancelledRun, DraftIsKnown, Over, Terminal,
              Publishing, TaskBecomes, JobBecomes
<1>8. KeepsCancelled /\ KeepsUnknown
  BY <1>1 DEF RunInvariant, JobIsShown, ShowsUnknown, KeepsCancelled, KeepsUnknown
<1> QED
  BY <1>2, <1>3, <1>4, <1>5, <1>6, <1>7, <1>8 DEF RunInvariant, KeepsAll

LEMMA PublishRaisesKeeps ==
    ASSUME RunInvariant, PublishRaises PROVE KeepsAll
<1>1. /\ job.pc \in Publishing
      /\ \/ JobBecomes("decided", "error") /\ task' = task
         \/ TaskBecomes("running", task.cancel, task.ask) /\ JobBecomes(None, None)
      /\ UNCHANGED <<row, files, box, kernel, lock, op, calls, workers, spent>>
  BY JobEnds, RaiseEffect DEF RunInvariant, PublishRaises, Publishing, Typed, Task, Result,
                              Outcome, TaskBecomes
<1>2. Typed'
  BY <1>1 DEF RunInvariant, Typed, TaskBecomes, JobBecomes
<1>3. Together'
  BY <1>1 DEF RunInvariant, Together, Publishing, JobBecomes
<1>4. Ledger'
  BY <1>1 DEF RunInvariant, Ledger, JobBecomes
<1>5. Identity' /\ CleanResults'
  BY <1>1 DEF RunInvariant, Identity, CleanResults, Publishing, JobBecomes
<1>6. JobIsShown' /\ Stops'
  BY <1>1 DEF RunInvariant, JobIsShown, Stops, Over, Terminal, Publishing, TaskBecomes, JobBecomes
<1>7. Rest' /\ CancelledRun' /\ DraftIsKnown'
  BY <1>1 DEF RunInvariant, CleanResults, JobIsShown, Rest, CancelledRun, DraftIsKnown, Over,
              Terminal, Publishing, TaskBecomes, JobBecomes
<1>8. KeepsCancelled /\ KeepsUnknown
  BY <1>1 DEF RunInvariant, JobIsShown, ShowsUnknown, KeepsCancelled, KeepsUnknown, Publishing
<1> QED
  BY <1>2, <1>3, <1>4, <1>5, <1>6, <1>7, <1>8 DEF RunInvariant, KeepsAll

LEMMA DecideRaisedKeeps ==
    ASSUME RunInvariant, DecideRaised PROVE KeepsAll
<1>1. /\ job.pc = "decided" /\ job.result \in {"error", "stalled", "cancelled"}
      /\ \/ row.bound /\ StopsItself /\ row' = row
         \/ ~row.bound /\ Finishes /\ UNCHANGED <<files, kernel, op, calls>>
      /\ UNCHANGED <<box, lock, workers, spent>>
  BY StopOwnEffect, FinishJobEffect DEF RunInvariant, DecideRaised, JobAt, RaisedReason, Stops,
                                        Result, Outcome
<1>2. Typed'
  BY <1>1 DEF RunInvariant, Typed, StopsItself, Finishes, Requests, JobBecomes, CancelsBoth,
              FilesBecome, KernelBecomes, OpBecomes, CallBecomes, TaskBecomes, RowBecomes
<1>3. Together'
  BY <1>1 DEF RunInvariant, Together, Stops, StopsItself, Finishes, Requests, JobBecomes,
              FilesBecome, OpBecomes, CallBecomes, TaskBecomes
<1>4. Ledger'
  BY <1>1 DEF RunInvariant, Ledger, Identity, StopsItself, Requests, JobBecomes, FilesBecome,
              OpBecomes, CallBecomes, TaskBecomes
<1>5. Identity' /\ CleanResults'
  BY <1>1 DEF RunInvariant, Identity, CleanResults, Publishing, StopsItself, Finishes, Requests,
              JobBecomes, CancelsBoth, FilesBecome, CallBecomes, TaskBecomes, RowBecomes
<1>6. JobIsShown' /\ Stops'
  BY <1>1 DEF RunInvariant, JobIsShown, Stops, Outside, Over, Caller, Terminal, StopsItself,
              Finishes, Requests, JobBecomes, CancelsBoth, FilesBecome, OpBecomes, CallBecomes,
              TaskBecomes
<1>7. Rest' /\ CancelledRun' /\ DraftIsKnown'
  BY <1>1 DEF RunInvariant, Together, Identity, Rest, CancelledRun, DraftIsKnown, Settled, Over,
              StopsItself, Finishes, Requests, JobBecomes, CancelsBoth, FilesBecome, KernelBecomes,
              OpBecomes, CallBecomes, TaskBecomes, RowBecomes
<1>8. KeepsCancelled /\ KeepsUnknown
  BY <1>1 DEF RunInvariant, Identity, JobIsShown, ShowsUnknown, KeepsCancelled, KeepsUnknown,
              Requests, FilesBecome, CallBecomes, TaskBecomes
<1> QED
  BY <1>2, <1>3, <1>4, <1>5, <1>6, <1>7, <1>8 DEF RunInvariant, KeepsAll

LEMMA DecideQuestionKeeps ==
    ASSUME RunInvariant, DecideQuestion PROVE KeepsAll
<1>1. /\ job.pc = "decided" /\ job.result = "question"
      /\ RowBecomes("needs_input", row.failure, row.bound)
      /\ \/ StopsItself
         \/ /\ ~task.cancel
            /\ \E ask \in {None, "draft"} : TaskBecomes("needs_input", FALSE, ask)
            /\ JobBecomes(None, None)
            /\ UNCHANGED <<files, kernel, op, calls>>
      /\ UNCHANGED <<box, lock, workers, spent>>
  BY StopOwnEffect, JobEnds DEF RunInvariant, DecideQuestion, JobAt, RaisedReason, Stops, Result,
                                Outcome, Typed, Task, RunRow, Quiescent, TaskBecomes, RowBecomes
<1>2. Typed'
  BY <1>1 DEF RunInvariant, Typed, TaskBecomes, RowBecomes, JobBecomes, StopsItself, Requests,
              FilesBecome, KernelBecomes, OpBecomes, CallBecomes
<1>3. Together'
  BY <1>1 DEF RunInvariant, Together, Stops, TaskBecomes, JobBecomes, StopsItself, Requests,
              FilesBecome, OpBecomes, CallBecomes
<1>4. Ledger'
  BY <1>1 DEF RunInvariant, Ledger, TaskBecomes, JobBecomes, StopsItself, Requests, FilesBecome,
              OpBecomes, CallBecomes
<1>5. Identity' /\ CleanResults'
  BY <1>1 DEF RunInvariant, Identity, CleanResults, TaskBecomes, RowBecomes, StopsItself, Requests,
              FilesBecome, CallBecomes
<1>6. JobIsShown' /\ Stops'
  BY <1>1 DEF RunInvariant, JobIsShown, Stops, Outside, Over, Caller, Terminal, TaskBecomes,
              JobBecomes, StopsItself, Requests, FilesBecome, OpBecomes, CallBecomes
<1>7. Rest' /\ CancelledRun' /\ DraftIsKnown'
  BY <1>1 DEF RunInvariant, CleanResults, Rest, CancelledRun, DraftIsKnown, TaskBecomes,
              RowBecomes, StopsItself, Requests, FilesBecome, CallBecomes
<1>8. KeepsCancelled /\ KeepsUnknown
  BY <1>1 DEF RunInvariant, JobIsShown, CancelledRun, ShowsUnknown, KeepsCancelled, KeepsUnknown
<1> QED
  BY <1>2, <1>3, <1>4, <1>5, <1>6, <1>7, <1>8 DEF RunInvariant, KeepsAll

LEMMA AskStopKeeps ==
    ASSUME RunInvariant, NEW c \in Caller, AskStop(c) PROVE KeepsAll
<1>1. /\ c \in Outside /\ calls[c].pc = None
      /\ \/ /\ row.bound
            /\ TaskBecomes("cancelling", TRUE, task.ask)
            /\ Requests(c, job.pc # None)
            /\ UNCHANGED <<row, job, workers>>
         \/ /\ ~row.bound /\ job.pc = None
            /\ CancelsBoth
            /\ UNCHANGED <<files, kernel, op, job, calls, workers>>
         \/ /\ ~row.bound /\ job.pc # None
            /\ TaskBecomes("cancelling", TRUE, task.ask)
            /\ Interrupted
            /\ UNCHANGED <<row, files, kernel, op, calls>>
      /\ spent' \in Spent
      /\ UNCHANGED <<box, lock>>
  <2>1. c \in Outside /\ calls[c].pc = None /\ UNCHANGED <<box, lock>>
    BY DEF AskStop, MayAsk, Outside
  <2>2. spent' \in Spent
    <3>1. CASE c = "user"
      BY <3>1, RunBoundAssumption DEF RunInvariant, Typed, AskStop, MayAsk, Spent
    <3>2. CASE c # "user"
      BY <3>2 DEF RunInvariant, Typed, AskStop, Spent
    <3> QED
      BY <3>1, <3>2
  <2>3. CASE task' = [task EXCEPT !.status = "cancelling", !.cancel = TRUE]
    <3>1. TaskBecomes("cancelling", TRUE, task.ask)
      BY <2>3 DEF RunInvariant, Typed, TaskBecomes, Task
    <3>2. CASE row.bound /\ RequestStop(c, job.pc # None) /\ UNCHANGED <<row, job, workers>>
      <4>1. Requests(c, job.pc # None)
        BY <3>2, RequestStopEffect DEF RunInvariant, Stops
      <4> QED
        BY <2>1, <2>2, <3>1, <3>2, <4>1
    <3>3. CASE ~row.bound /\ job.pc # None /\ Interrupt /\ UNCHANGED <<row, files, kernel, op, calls>>
      BY <2>1, <2>2, <3>1, <3>3, InterruptEffect DEF RunInvariant, JobIsShown
    <3>4. CASE ~row.bound /\ JobAt(None) /\ MarkCancelled
               /\ UNCHANGED <<files, kernel, op, job, calls, workers>>
      BY <2>1, <2>2, <3>4, MarkCancelledEffect DEF RunInvariant, JobAt
    <3> QED
      BY <3>2, <3>3, <3>4 DEF AskStop, JobAt
  <2>4. CASE ~row.bound /\ JobAt(None) /\ MarkCancelled
             /\ UNCHANGED <<files, kernel, op, job, calls, workers>>
    BY <2>1, <2>2, <2>4, MarkCancelledEffect DEF RunInvariant, JobAt
  <2> QED
    BY <2>3, <2>4 DEF AskStop
<1>2. Typed'
  BY <1>1 DEF RunInvariant, Typed, TaskBecomes, CancelsBoth, Requests, Interrupted, RowBecomes,
              FilesBecome, KernelBecomes, OpBecomes, CallBecomes, JobBecomes
<1>3. Together'
  BY <1>1 DEF RunInvariant, Together, Identity, TaskBecomes, Requests, Interrupted, FilesBecome,
              OpBecomes, CallBecomes, JobBecomes
<1>4. Ledger'
  BY <1>1 DEF RunInvariant, Ledger, Identity, TaskBecomes, Requests, FilesBecome, OpBecomes,
              CallBecomes
<1>5. Identity' /\ CleanResults'
  BY <1>1 DEF RunInvariant, Identity, CleanResults, TaskBecomes, CancelsBoth, Requests,
              Interrupted, RowBecomes, FilesBecome, JobBecomes
<1>6. JobIsShown' /\ Stops'
  BY <1>1 DEF RunInvariant, Typed, Together, JobIsShown, Stops, Outside, Over, Caller, Terminal,
              Identity, Publishing, TaskBecomes, CancelsBoth, Requests, Interrupted, RowBecomes,
              FilesBecome, KernelBecomes, OpBecomes, CallBecomes, JobBecomes
<1>7. Rest' /\ CancelledRun' /\ DraftIsKnown'
  BY <1>1 DEF RunInvariant, Together, Identity, Rest, CancelledRun, DraftIsKnown, Settled, Over,
              Terminal, TaskBecomes, CancelsBoth, Requests, Interrupted, RowBecomes, FilesBecome,
              KernelBecomes, OpBecomes, JobBecomes
<1>8. KeepsCancelled /\ KeepsUnknown
  BY <1>1 DEF RunInvariant, KeepsCancelled, KeepsUnknown, TaskBecomes, CancelsBoth, RowBecomes,
              FilesBecome
<1> QED
  BY <1>2, <1>3, <1>4, <1>5, <1>6, <1>7, <1>8 DEF RunInvariant, KeepsAll

LEMMA TakeLockKeeps ==
    ASSUME RunInvariant, NEW c \in Caller, TakeLock(c) PROVE KeepsAll
<1>1. /\ calls[c].pc = "waiting" /\ lock = None
      /\ \/ StopFails(c) /\ lock' = lock
         \/ /\ files.creating => files.journal = None
            /\ lock' = c
            /\ CallBecomes(c, "cleaning", calls[c].active)
            /\ UNCHANGED <<task, row, kernel, job, op, workers>>
      /\ UNCHANGED <<files, box, spent>>
  BY FailStopEffect DEF RunInvariant, TakeLock, Unprovable, Typed, Call, CallBecomes
<1>2. Typed'
  BY <1>1 DEF RunInvariant, Typed, CallBecomes, StopFails, KernelBecomes, TaskBecomes, JobBecomes
<1>3. Together'
  BY <1>1 DEF RunInvariant, Together, Caller, CallBecomes, StopFails, TaskBecomes, JobBecomes
<1>4. Ledger'
  BY <1>1 DEF RunInvariant, Ledger, CallBecomes, StopFails, TaskBecomes, JobBecomes
<1>5. Identity' /\ CleanResults'
  BY <1>1 DEF RunInvariant, Identity, CleanResults, Publishing, CallBecomes, StopFails,
              TaskBecomes, JobBecomes
<1>6. JobIsShown' /\ Stops'
  BY <1>1 DEF RunInvariant, JobIsShown, Stops, Outside, Over, Caller, CallBecomes, StopFails,
              TaskBecomes, JobBecomes
<1>7. Rest' /\ CancelledRun' /\ DraftIsKnown'
  BY <1>1 DEF RunInvariant, Rest, CancelledRun, DraftIsKnown, Settled, Over, Terminal, CallBecomes,
              StopFails, KernelBecomes, TaskBecomes, JobBecomes
<1>8. KeepsCancelled /\ KeepsUnknown
  BY <1>1 DEF RunInvariant, ShowsUnknown, KeepsCancelled, KeepsUnknown, CallBecomes, StopFails,
              TaskBecomes
<1> QED
  BY <1>2, <1>3, <1>4, <1>5, <1>6, <1>7, <1>8 DEF RunInvariant, KeepsAll

LEMMA TimeOutKeeps ==
    ASSUME RunInvariant, NEW c \in Caller, TimeOut(c) PROVE KeepsAll
<1>1. /\ calls[c].pc = "waiting"
      /\ StopFails(c) /\ spent' \in Spent
      /\ UNCHANGED <<files, box, lock>>
  BY FailStopEffect, FaultEffect DEF RunInvariant, TimeOut
<1>2. Typed'
  BY <1>1 DEF RunInvariant, Typed, StopFails, KernelBecomes, CallBecomes, TaskBecomes, JobBecomes
<1>3. Together'
  BY <1>1 DEF RunInvariant, Together, Stops, StopFails, CallBecomes, JobBecomes
<1>4. Ledger'
  BY <1>1 DEF RunInvariant, Ledger, StopFails, CallBecomes, JobBecomes
<1>5. Identity' /\ CleanResults'
  BY <1>1 DEF RunInvariant, Identity, CleanResults, Publishing, StopFails, JobBecomes
<1>6. JobIsShown' /\ Stops'
  BY <1>1 DEF RunInvariant, JobIsShown, Stops, Outside, Over, Caller, StopFails, CallBecomes,
              TaskBecomes, JobBecomes
<1>7. Rest' /\ CancelledRun' /\ DraftIsKnown'
  BY <1>1 DEF RunInvariant, Rest, CancelledRun, DraftIsKnown, Settled, Over, Terminal, StopFails,
              KernelBecomes, TaskBecomes, JobBecomes
<1>8. KeepsCancelled /\ KeepsUnknown
  BY <1>1 DEF RunInvariant, ShowsUnknown, KeepsCancelled, KeepsUnknown, StopFails, TaskBecomes
<1> QED
  BY <1>2, <1>3, <1>4, <1>5, <1>6, <1>7, <1>8 DEF RunInvariant, KeepsAll

LEMMA CleanupFailsKeeps ==
    ASSUME RunInvariant, NEW c \in Caller, CleanupFails(c) PROVE KeepsAll
<1>1. /\ calls[c].pc = "cleaning"
      /\ StopFails(c) /\ lock' = None /\ spent' \in Spent
      /\ UNCHANGED <<files, box>>
  BY FailStopEffect, FaultEffect DEF RunInvariant, CleanupFails
<1>2. Typed'
  BY <1>1 DEF RunInvariant, Typed, StopFails, KernelBecomes, CallBecomes, TaskBecomes, JobBecomes
<1>3. Together'
  BY <1>1 DEF RunInvariant, Together, Caller, StopFails, CallBecomes, JobBecomes
<1>4. Ledger'
  BY <1>1 DEF RunInvariant, Ledger, StopFails
<1>5. Identity' /\ CleanResults'
  BY <1>1 DEF RunInvariant, Identity, CleanResults, Publishing, StopFails, JobBecomes
<1>6. JobIsShown' /\ Stops'
  BY <1>1 DEF RunInvariant, JobIsShown, Stops, Outside, Over, Caller, StopFails, CallBecomes,
              TaskBecomes, JobBecomes
<1>7. Rest' /\ CancelledRun' /\ DraftIsKnown'
  BY <1>1 DEF RunInvariant, Rest, CancelledRun, DraftIsKnown, Settled, Over, Terminal, StopFails,
              KernelBecomes, TaskBecomes, JobBecomes
<1>8. KeepsCancelled /\ KeepsUnknown
  BY <1>1 DEF RunInvariant, ShowsUnknown, KeepsCancelled, KeepsUnknown, StopFails, TaskBecomes
<1> QED
  BY <1>2, <1>3, <1>4, <1>5, <1>6, <1>7, <1>8 DEF RunInvariant, KeepsAll

LEMMA StoppedKeeps ==
    ASSUME RunInvariant, NEW c \in Caller, Stopped(c) PROVE KeepsAll
<1>1. /\ calls[c].pc = "cleaning" /\ (c = "deletion" => job.pc # "decided")
      /\ CleansUp /\ lock' = None /\ KernelBecomes(TRUE)
      /\ calls' \in [Caller -> Call] /\ calls'[c].pc = None
      /\ \A d \in Caller : calls'[d] = calls[d] \/ calls'[d].pc = None
      /\ \/ c = "job" /\ Finishes /\ workers' = workers
         \/ /\ c \in Outside /\ job.pc # None /\ calls'["job"].pc = None
            /\ Interrupted /\ RowBecomes("cancelled", None, row.bound)
            /\ task' = task
         \/ /\ c \in Outside /\ ~calls[c].active
            /\ CancelsBoth
            /\ UNCHANGED <<job, workers>>
         \/ /\ c = "deletion" \/ (c \in Outside /\ job.pc = None)
            /\ RowBecomes("cancelled", None, row.bound) /\ JobBecomes(job.pc, job.result)
            /\ UNCHANGED <<task, workers>>
      /\ UNCHANGED <<op, spent>>
  <2>1. /\ calls[c].pc = "cleaning" /\ (c = "deletion" => job.pc # "decided")
        /\ lock' = None /\ KernelBecomes(TRUE) /\ UNCHANGED <<op, spent>>
    BY DEF Stopped, KernelBecomes, Kernel
  <2>2. CleansUp
    BY CleanupEffect DEF RunInvariant, Stopped
  <2>3. /\ calls' \in [Caller -> Call] /\ calls'[c].pc = None
        /\ \A d \in Caller : calls'[d] = calls[d] \/ calls'[d].pc = None
        /\ Interrupts(c) => calls'["job"].pc = None
    BY DEF RunInvariant, Typed, Stopped, Call, NoCall, Caller
  <2>4. RowCancelled => RowBecomes("cancelled", None, row.bound)
    BY DEF RunInvariant, Typed, RowCancelled, RowBecomes, RunRow, Quiescent
  <2>5. CASE c = "job" /\ FinishJob(job.result) /\ UNCHANGED workers
    BY <2>1, <2>2, <2>3, <2>5, FinishJobEffect DEF RunInvariant
  <2>6. CASE Interrupts(c) /\ Interrupt /\ RowCancelled /\ UNCHANGED task
    BY <2>1, <2>2, <2>3, <2>4, <2>6, InterruptEffect
       DEF RunInvariant, JobIsShown, Interrupts, Outside
  <2>7. CASE c \in {"user", "maintenance"} /\ ~calls[c].active /\ MarkCancelled /\ UNCHANGED <<job, workers>>
    BY <2>1, <2>2, <2>3, <2>7, MarkCancelledEffect DEF RunInvariant, Outside
  <2>8. CASE /\ c = "deletion" \/ (c # "job" /\ calls[c].active /\ job.pc = None)
             /\ RowCancelled /\ Wake(c) /\ UNCHANGED <<task, workers>>
    BY <2>1, <2>2, <2>3, <2>4, <2>8, WakeEffect DEF RunInvariant, Outside, Caller
  <2> QED
    BY <2>5, <2>6, <2>7, <2>8 DEF Stopped
<1>2. Typed'
  BY <1>1 DEF RunInvariant, Typed, RowBecomes, KernelBecomes, JobBecomes, CleansUp, CancelsBoth,
              Finishes, Interrupted, FilesBecome, TaskBecomes
<1>3. Together'
  BY <1>1 DEF RunInvariant, Together, Caller, JobBecomes, Finishes, Interrupted, TaskBecomes
<1>4. Ledger'
  BY <1>1 DEF RunInvariant, Together, Ledger, Caller, CleansUp, FilesBecome
<1>5. Identity' /\ CleanResults'
  BY <1>1 DEF RunInvariant, Identity, CleanResults, RowBecomes, CleansUp, CancelsBoth, Finishes,
              FilesBecome, TaskBecomes
<1>6. JobIsShown' /\ Stops'
  <2>1. JobIsShown'
    BY <1>1 DEF RunInvariant, JobIsShown, Stops, Outside, JobBecomes, CancelsBoth, Finishes,
                Interrupted, TaskBecomes
  <2>2. files'.cancel = files.cancel /\ op' = op /\ (task'.status = "cancelling" => task'.cancel)
    <3>1. files'.cancel = files.cancel /\ op' = op
      BY <1>1 DEF CleansUp, FilesBecome
    <3>2. \/ task' = task \/ task'.status = "cancelled" \/ task'.status = "needs_input"
          \/ task'.status = "failed"
      BY <1>1 DEF TaskBecomes, CancelsBoth, Finishes
    <3> QED
      BY <3>1, <3>2 DEF RunInvariant, Stops
  <2>3. Over => Over'
    BY <1>1 DEF RunInvariant, Stops, JobIsShown, Over, Terminal, Caller, TaskBecomes, CancelsBoth, Finishes
  <2>4. \A d \in Outside : calls'[d].pc # None /\ ~calls'[d].active => task'.cancel /\ job'.pc = None
    BY <1>1 DEF RunInvariant, Stops, Outside, Caller, JobBecomes, CancelsBoth, Finishes, Interrupted,
                TaskBecomes
  <2>5. /\ calls'["job"].pc # None => job'.pc = "stopping"
        /\ calls'["deletion"].pc # None => job'.pc # "launched"
    BY <1>1 DEF RunInvariant, Stops, Outside, Caller, JobBecomes, Finishes, Interrupted
  <2>6. \A d \in Caller : calls'[d].pc # None => calls[d].pc # None
    BY <1>1
  <2>7. Stops'
    BY <2>2, <2>3, <2>4, <2>5, <2>6 DEF RunInvariant, Stops, Outside, Caller
  <2> QED
    BY <2>1, <2>7
<1>7. Rest' /\ CancelledRun' /\ DraftIsKnown'
  BY <1>1 DEF RunInvariant, Together, Stops, Rest, CancelledRun, DraftIsKnown, Over, Outside,
              Terminal, Publishing, RowBecomes, KernelBecomes, JobBecomes, CleansUp, CancelsBoth,
              Finishes, Interrupted, FilesBecome, TaskBecomes
<1>8. KeepsCancelled /\ KeepsUnknown
  BY <1>1 DEF RunInvariant, JobIsShown, Stops, ShowsUnknown, KeepsCancelled, KeepsUnknown, Over,
              Terminal, RowBecomes, CancelsBoth, Finishes, TaskBecomes
<1> QED
  BY <1>2, <1>3, <1>4, <1>5, <1>6, <1>7, <1>8 DEF RunInvariant, KeepsAll

-------------------------------------------------------------------------------
(* Dispatches and workers *)

\* No step takes more workers than there are, and none dispatches a task that
\* shows an unknown outcome.
Undispatched == ShowsUnknown /\ Dispatched' => Dispatched
QueueKeeps == QueueFits' /\ Undispatched

\* What most steps leave alone.
Calm == /\ UNCHANGED <<queue, workers>>
        /\ job'.pc # None => job.pc # None
        /\ job'.pc = "launched" => job.pc = "launched"

LEMMA CalmKeeps ==
    ASSUME RunInvariant, QueueFits, Calm PROVE QueueKeeps
<1>1. QueueFits'
  BY DEF Calm, QueueFits, Queue, Held, RunInvariant, Typed
<1>2. Undispatched
  BY DEF Calm, Undispatched, Dispatched, JobAt
<1> QED
  BY <1>1, <1>2 DEF QueueKeeps

LEMMA JobIsCalm ==
    ASSUME RunInvariant, JobStep PROVE Calm
<1>1. CASE Begin \/ Start \/ Own \/ Recover \/ AwaitStop \/ Accept
  BY <1>1 DEF Begin, Start, Own, Recover, AwaitStop, Accept, StopSettled, JobAt, Raise, Return,
              StartOperation, Calm, RunInvariant, Typed, Job
<1>2. CASE DecideRaised \/ DecideQuestion \/ DecideUnknown \/ DecideCandidate
  <2>1. UNCHANGED <<queue, workers>> /\ job.pc = "decided"
    BY <1>2 DEF DecideRaised, DecideQuestion, DecideUnknown, DecideCandidate, JobAt
  <2>2. \/ job' = NoJob
        \/ \E reason : job' = [job EXCEPT !.pc = "stopping", !.result = reason]
        \/ job' = [job EXCEPT !.pc = "publishing"]
    BY <1>2 DEF DecideRaised, DecideQuestion, DecideUnknown, DecideCandidate, StopOwn, FinishJob
  <2>3. CASE job' = NoJob
    BY <2>1, <2>3 DEF NoJob, Calm
  <2>4. CASE job' # NoJob
    <3>1. job'.pc \in {"stopping", "publishing"}
      BY <2>2, <2>4 DEF RunInvariant, Typed, Job
    <3> QED
      BY <2>1, <3>1 DEF Calm
  <2> QED
    BY <2>3, <2>4
<1>3. CASE Gate \/ Commit \/ Complete \/ PublishRaises
  <2>1. UNCHANGED <<queue, workers>> /\ job.pc \in {"publishing", "committing", "delivered"}
    BY <1>3 DEF Gate, Commit, Complete, PublishRaises, JobAt
  <2>2. \/ job' = NoJob \/ Raise("cancelled") \/ Raise("error")
        \/ job' = [job EXCEPT !.pc = "committing"] \/ job' = [job EXCEPT !.pc = "delivered"]
    BY <1>3 DEF Gate, Commit, Complete, PublishRaises
  <2>3. CASE job' = NoJob
    BY <2>1, <2>3 DEF NoJob, Calm
  <2>4. CASE job' # NoJob
    <3>1. job'.pc \in {"decided", "committing", "delivered"}
      BY <2>2, <2>4 DEF Raise, RunInvariant, Typed, Job
    <3> QED
      BY <2>1, <3>1 DEF Calm
  <2> QED
    BY <2>3, <2>4
<1> QED
  BY <1>1, <1>2, <1>3 DEF JobStep

LEMMA OperationIsCalm ==
    ASSUME RunInvariant, OperationStep \/ Watch \/ LateCreate \/ AskProof PROVE Calm
<1>1. CASE Close
  BY <1>1 DEF Close, Return, Calm, RunInvariant, Together, Typed, Job
<1>2. CASE ~Close
  BY <1>2 DEF OperationStep, Plan, SaveCheckpoint, BeginCreate, EndCreate, Settle, Unwind, Watch,
              LateCreate, AskProof, Calm
<1> QED
  BY <1>1, <1>2

\* A job that is interrupted before it began takes its worker with it.
LEMMA InterruptFits ==
    ASSUME RunInvariant, QueueFits, job.pc # None, Interrupt,
           queue' \in Queue, queue'.waiting = queue.waiting, queue'.other = queue.other
    PROVE  QueueFits' /\ job'.pc # "launched"
<1>1. CASE job.pc \in {"launched", "stopping"}
  <2>1. job'.pc = None /\ workers' = workers - 1
    BY <1>1 DEF Interrupt, NoJob
  <2> QED
    BY <2>1 DEF QueueFits, Queue, Held, RunInvariant, Typed
<1>2. CASE job.pc \notin {"launched", "stopping"}
  <2>1. workers' = workers /\ job'.pc # "launched"
    BY <1>2 DEF Interrupt, Raise, RunInvariant, Typed, Job
  <2> QED
    BY <2>1 DEF QueueFits, Queue, Held, RunInvariant, Typed
<1> QED
  BY <1>1, <1>2

LEMMA StopFits ==
    ASSUME RunInvariant, QueueFits, NEW c \in Caller, AskStop(c) \/ Stop(c) PROVE QueueKeeps
<1>1. CASE AskStop(c)
  <2>1. /\ queue' \in Queue /\ queue'.waiting = queue.waiting /\ queue'.other = queue.other
        /\ queue'.queued => queue.queued
    BY <1>1 DEF AskStop, QueueFits, Queue
  <2>2. CASE UNCHANGED <<job, workers>>
    BY <2>1, <2>2 DEF QueueKeeps, QueueFits, Undispatched, Dispatched, JobAt, Held
  <2>3. CASE job.pc # None /\ Interrupt
    BY <2>1, <2>3, InterruptFits DEF QueueKeeps, Undispatched, Dispatched, JobAt
  <2> QED
    BY <1>1, <2>2, <2>3 DEF AskStop
<1>2. CASE TakeLock(c) \/ TimeOut(c) \/ CleanupFails(c)
  <2>1. \/ UNCHANGED <<queue, workers, job>>
        \/ FailStop(c) /\ queue' = queue
    BY <1>2 DEF TakeLock, TimeOut, CleanupFails
  <2>2. Calm
    <3>1. \/ job' = job \/ job' = NoJob \/ Wake(c)
      BY <2>1 DEF FailStop
    <3>2. job'.pc \in {job.pc, None}
      BY <3>1, WakeEffect DEF JobBecomes, NoJob, RunInvariant
    <3> QED
      BY <2>1, <3>2 DEF FailStop, Calm
  <2> QED
    BY <2>2, CalmKeeps
<1>3. CASE Stopped(c)
  <2>1. queue' = queue
    BY <1>3 DEF Stopped
  <2>2. CASE Interrupts(c) /\ Interrupt
    BY <2>1, <2>2, InterruptFits DEF Interrupts, QueueFits, QueueKeeps, Undispatched, Dispatched, JobAt
  <2>3. CASE workers' = workers /\ (FinishJob(job.result) \/ Wake(c) \/ job' = job)
    <3>1. Calm
      BY <2>1, <2>3 DEF FinishJob, Wake, NoJob, Calm, RunInvariant, Typed, Job
    <3> QED
      BY <3>1, CalmKeeps
  <2> QED
    BY <1>3, <2>2, <2>3 DEF Stopped
<1> QED
  BY <1>1, <1>2, <1>3 DEF Stop

LEMMA DispatchFits ==
    ASSUME RunInvariant, QueueFits, Dispatch PROVE QueueKeeps
<1>1. Undispatched
  BY DEF Dispatch, Enqueue, Pending, Take, Launch, TakeOther, EndOther, StartJob, NoJob, QueueFits, Queue,
         Undispatched, Dispatched, JobAt, ShowsUnknown
<1>2. CASE Enqueue
  BY <1>1, <1>2 DEF Enqueue, QueueFits, Queue, Held, QueueKeeps
<1>3. CASE Take
  <2>1. CASE Launchable /\ ~(TokenFree /\ queue.waiting = 0)
    <3>1. /\ queue' = [queue EXCEPT !.queued = FALSE, !.waiting = @ + 1]
          /\ queue.waiting + Held < workers /\ job' = job /\ workers' = workers
      BY <1>3, <2>1 DEF Take, FreeWorker
    <3>2. queue.waiting + 1 \in 0 .. QueueWorkers
      BY <3>1, RunBoundAssumption DEF QueueFits, Queue, Held, RunInvariant, Typed
    <3>3. queue' \in Queue /\ queue'.waiting = queue.waiting + 1 /\ queue'.other = queue.other
      BY <3>1, <3>2 DEF QueueFits, Queue
    <3> QED
      BY <1>1, <3>1, <3>3 DEF QueueFits, Queue, Held, QueueKeeps, RunInvariant, Typed
  <2>2. CASE Launchable => TokenFree /\ queue.waiting = 0
    <3>1. /\ queue' = [queue EXCEPT !.queued = FALSE] /\ StartJob
          /\ queue.waiting + Held < workers /\ workers' = workers
      BY <1>3, <2>2 DEF Take, FreeWorker
    <3>2. queue' \in Queue /\ queue'.waiting = queue.waiting /\ queue'.other = queue.other
      BY <3>1 DEF QueueFits, Queue
    <3>3. job' = job \/ job.pc = None
      BY <2>2, <3>1 DEF StartJob, TokenFree, JobAt
    <3> QED
      BY <1>1, <3>1, <3>2, <3>3 DEF QueueFits, Queue, Held, QueueKeeps, RunInvariant, Typed
  <2> QED
    BY <2>1, <2>2
<1>4. CASE Launch
  <2>1. /\ queue' = [queue EXCEPT !.waiting = @ - 1] /\ queue.waiting > 0
        /\ job.pc = None /\ ~queue.other /\ workers' = workers
    BY <1>4 DEF Launch, TokenFree, JobAt
  <2>2. queue.waiting - 1 \in 0 .. QueueWorkers
    BY <2>1, RunBoundAssumption DEF QueueFits, Queue
  <2>3. queue' \in Queue /\ queue'.waiting = queue.waiting - 1 /\ queue'.other = queue.other
    BY <2>1, <2>2 DEF QueueFits, Queue
  <2> QED
    BY <1>1, <2>1, <2>3 DEF QueueFits, Queue, Held, QueueKeeps, RunInvariant, Typed
<1>5. CASE TakeOther
  <2>1. /\ queue' \in Queue /\ queue'.waiting = queue.waiting /\ queue'.other
        /\ queue.waiting + Held < workers /\ ~queue.other /\ job' = job /\ workers' = workers
    BY <1>5 DEF TakeOther, FreeWorker, TokenFree, QueueFits, Queue
  <2> QED
    BY <1>1, <2>1 DEF QueueFits, Queue, Held, QueueKeeps, RunInvariant, Typed
<1>6. CASE EndOther
  <2>1. /\ queue' \in Queue /\ queue'.waiting = queue.waiting /\ ~queue'.other /\ queue.other
        /\ job' = job /\ workers' = workers
    BY <1>6 DEF EndOther, QueueFits, Queue
  <2> QED
    BY <1>1, <2>1 DEF QueueFits, Queue, Held, QueueKeeps, RunInvariant, Typed
<1> QED
  BY <1>2, <1>3, <1>4, <1>5, <1>6 DEF Dispatch

LEMMA NextFits ==
    ASSUME RunInvariant, QueueFits, [Next]_vars PROVE QueueKeeps
<1>1. CASE UNCHANGED vars
  BY <1>1 DEF vars, QueueKeeps, QueueFits, Held, Undispatched, Dispatched, JobAt
<1>2. CASE JobStep \/ OperationStep \/ Watch \/ LateCreate \/ AskProof
  BY <1>2, JobIsCalm, OperationIsCalm, CalmKeeps
<1>3. CASE ApproveDraft
  <2>1. ~ShowsUnknown
    BY <1>3 DEF ApproveDraft, RunInvariant, DraftIsKnown, ShowsUnknown
  <2>2. QueueFits'
    BY <1>3 DEF ApproveDraft, QueueFits, Queue, Held
  <2> QED
    BY <2>1, <2>2 DEF QueueKeeps, Undispatched
<1>4. CASE Crash
  <2>1. /\ queue' = [queued |-> Pending, waiting |-> 0, other |-> FALSE]
        /\ job'.pc = None /\ workers' = QueueWorkers
    BY <1>4 DEF Crash, NoJob
  <2>2. QueueFits'
    BY <2>1, RunBoundAssumption DEF QueueFits, Queue, Held, Pending
  <2>3. ShowsUnknown => ~queue'.queued /\ ~(queue'.waiting > 0)
    <3>1. queue'.queued = Pending /\ queue'.waiting = 0
      BY <2>1, Zenon
    <3>2. ShowsUnknown => Pending = FALSE
      BY DEF ShowsUnknown, Pending
    <3>3. ~(queue'.waiting > 0)
      BY <3>1
    <3> QED
      BY <3>1, <3>2, <3>3, Zenon
  <2>4. Undispatched
    BY <2>1, <2>3 DEF Undispatched, Dispatched, JobAt
  <2> QED
    BY <2>2, <2>4 DEF QueueKeeps
<1> QED
  BY <1>1, <1>2, <1>3, <1>4, DispatchFits, StopFits DEF Next

-------------------------------------------------------------------------------
(* Theorems *)

LEMMA InitRun == Init => RunInvariant /\ QueueFits
<1> SUFFICES ASSUME Init PROVE RunInvariant /\ QueueFits
  OBVIOUS
<1>0. QueueFits
  BY RunBoundAssumption DEF Init, NoJob, QueueFits, Queue, Held
<1>1. Typed
  <2>1. row \in RunRow /\ task \in Task /\ files \in Files /\ kernel \in Kernel
    BY DEF Init, Task, RunRow, Files, Kernel
  <2>2. job \in Job /\ op \in Op /\ calls \in [Caller -> Call]
    BY DEF Init, NoJob, NoOp, NoCall, Job, JobPc, Op, OpPc, Call
  <2>3. spent \in Spent /\ workers \in 0 .. QueueWorkers
    BY RunBoundAssumption DEF Init, Spent
  <2> QED
    BY <2>1, <2>2, <2>3 DEF Init, Typed
<1>2. /\ task.status = "queued" /\ ~task.cancel /\ task.ask = None
      /\ row.status = "queued" /\ files.journal = None /\ ~files.creating /\ ~box
      /\ lock = None /\ job.pc = None /\ op.pc = None /\ ~op.cancelled
      /\ \A c \in Caller : calls[c].pc = None
  BY DEF Init, NoJob, NoOp, NoCall
<1>3. Together
  BY <1>2 DEF Together, Caller
<1>4. Ledger /\ Identity /\ CleanResults /\ JobIsShown
  BY <1>2 DEF Ledger, Identity, CleanResults, JobIsShown, Publishing
<1>5. Stops /\ Rest /\ CancelledRun /\ DraftIsKnown
  BY <1>2 DEF Stops, Rest, CancelledRun, DraftIsKnown, Settled, Terminal, Outside, Caller
<1> QED
  BY <1>0, <1>1, <1>3, <1>4, <1>5 DEF RunInvariant

LEMMA NextKeeps == ASSUME RunInvariant, QueueFits, [Next]_vars PROVE KeepsAll
<1>1. CASE UNCHANGED vars
  BY <1>1, WaitKeeps DEF vars
<1>2. CASE Dispatch \/ Watch \/ LateCreate \/ AskProof \/ ApproveDraft \/ Crash
  BY <1>2, DispatchKeeps, WatchKeeps, LateCreateKeeps, AskProofKeeps, ApproveDraftKeeps, CrashKeeps
<1>3. CASE JobStep
  BY <1>3, BeginKeeps, StartKeeps, OwnKeeps, RecoverKeeps, AwaitStopKeeps, AcceptKeeps,
     DecideRaisedKeeps, DecideQuestionKeeps, DecideUnknownKeeps, DecideCandidateKeeps,
     GateKeeps, CommitKeeps, CompleteKeeps, PublishRaisesKeeps DEF JobStep
<1>4. CASE OperationStep
  BY <1>4, PlanKeeps, SaveCheckpointKeeps, BeginCreateKeeps, EndCreateKeeps, SettleKeeps,
     UnwindKeeps, CloseKeeps DEF OperationStep
<1>5. CASE \E c \in Caller : AskStop(c) \/ Stop(c)
  BY <1>5, AskStopKeeps, TakeLockKeeps, TimeOutKeeps, CleanupFailsKeeps, StoppedKeeps DEF Stop
<1> QED
  BY <1>1, <1>2, <1>3, <1>4, <1>5 DEF Next

\* A run is sound in every reachable state, and every dispatch that waits, the job
\* and the job of another task have a worker each.
\* Code: the ledger of _owned_run, the execution lock, _cancel_won, the job of a
\* revision and its stops, _queue and _heavy.
THEOREM RunsAreSound == Spec => [](RunInvariant /\ QueueFits)
<1>1. RunInvariant /\ QueueFits /\ [Next]_vars => (RunInvariant /\ QueueFits)'
  BY NextKeeps, NextFits DEF KeepsAll, QueueKeeps
<1> QED
  BY InitRun, <1>1, PTL DEF Spec

\* Every variable keeps its type; operation, job and lock go together.
\* Code: PiRuntime._owned_run and the fields of the stored records.
THEOREM RunTypes == Spec => []TypeOK
<1>1. RunInvariant /\ QueueFits => TypeOK
  BY TypeParts DEF RunInvariant
<1> QED
  BY RunsAreSound, <1>1, PTL

\* Two containers never work on one run.
\* Code: the ledger and .creating-main in _owned_run, _run_rpc.
THEOREM OneContainerWorks == Spec => []OneContainer
<1>1. RunInvariant => OneContainer
  BY DEF RunInvariant, Typed, Ledger, OneContainer
<1> QED
  BY RunsAreSound, <1>1, PTL

\* A task that waits for its owner or is over has no container, no operation and
\* nothing that could bring one.
\* Code: _confirm_runtime_stopped before every such status, _cleanup_resources.
THEOREM SettledTasksAreQuiet == Spec => []SettledIsQuiet
<1>1. RunInvariant => SettledIsQuiet
  BY DEF RunInvariant, Typed, Together, Ledger, JobIsShown, Rest, Settled, Terminal, SettledIsQuiet
<1> QED
  BY RunsAreSound, <1>1, PTL

\* Nothing that was still on its way changes a run that a cancellation stopped.
\* Code: _cancel_won, _accept_result, _persist_failure, the cancel file.
THEOREM CancelledRunsStay == Spec => CancelIsFinal
<1>1. ASSUME RunInvariant, QueueFits, [Next]_vars
      PROVE  row.status = "cancelled" /\ task.cancel => row'.status = "cancelled" /\ op'.pc = None
  BY <1>1, NextKeeps DEF KeepsAll, KeepsCancelled, RunInvariant, CancelledRun
<1>2. RunInvariant /\ QueueFits /\ [Next]_vars =>
        [row.status = "cancelled" /\ task.cancel => row'.status = "cancelled" /\ op'.pc = None]_vars
  BY <1>1
<1> QED
  BY RunsAreSound, <1>2, PTL DEF Spec, CancelIsFinal

\* A task that shows an unknown model outcome keeps showing it until it is stopped
\* or a dispatch from before the outcome is acted on; none is added meanwhile.
\* Code: _mark_result_unknown, the statuses maintenance and requeue dispatch, the
\* ones a worker launches.
THEOREM UnknownOutcomesAreAsked == Spec => UnknownIsAsked
<1>1. RunInvariant /\ QueueFits /\ [Next]_vars =>
        [ShowsUnknown => /\ ShowsUnknown' \/ task'.cancel \/ JobAt("launched")
                         /\ Dispatched \/ ~Dispatched']_vars
  BY NextKeeps, NextFits DEF KeepsAll, KeepsUnknown, QueueKeeps, Undispatched
<1> QED
  BY RunsAreSound, <1>1, PTL DEF Spec, UnknownIsAsked
-------------------------------------------------------------------------------
(* The promise of a run *)

\* A job on its way to an operation, or with its result.
Heading == {"preparing", "owning", "recovering", "waiting", "returned", "accepting"}

\* An operation that nobody cancelled has met no stop, and a cancellation that a
\* job does not know yet has left its mark.
Marked ==
    /\ op.pc \in {"planned", "saved", "creating", "running"} /\ ~op.cancelled => ~files.cancel
    /\ task.cancel /\ job.pc \in {"launched", "preparing", "owning", "recovering", "waiting"}
          => files.cancel

\* A run without identity was never asked to stop and has come to nothing.
Unstarted ==
    ~row.bound => /\ ~files.cancel /\ ~row.passed
                  /\ row.status \in {"queued", "preparing", "running", "cancelled"}

\* What the kernel has stopped in this process is not taken up again: a job that a
\* late dispatch starts is refused before it has an operation.
StopLasts ==
    /\ kernel.cancelled => files.cancel
    /\ kernel.cancelled /\ row.status # "cancelled" =>
          /\ job.pc \notin {"recovering", "waiting"}
          /\ job.pc \in {"returned", "accepting"} => job.result = "error"
    /\ task.status \in {"completed", "candidate_ready"} => ~task.cancel

\* The run is open until its result is accepted, and then tells what the job knows.
RowFollows ==
    /\ job.pc \in Heading => row.status \in {"running", "cancelled"} /\ task.status # "queued"
    /\ job.pc = "decided" =>
          /\ job.result \in {"passed", "unverified"} => row.status = "candidate_ready"
          /\ job.result = "question" => row.status = "needs_input"
          /\ job.result = "unknown" => \/ row.status = "cancelled"
                                       \/ row.status = "needs_input" /\ row.failure = "unknown"
    /\ job.pc \in Publishing => row.passed

RunRecord == Marked /\ Unstarted /\ StopLasts /\ RowFollows

\* Every step is one of the record, and keeps what the record needs.
OnRecord == RunRecord' /\ Seen!Next

\* A step that nobody sees.
LEMMA UnseenRests ==
    ASSUME UNCHANGED <<task, row, queue>>, files'.cancel = files.cancel, Alive' = Alive, Busy' = Busy
    PROVE  Seen!Next
BY DEF Seen!Next, Seen!Rests, Seen!vars, OutcomeOf, Due

\* What worked is gone, or did not work before.
LEMMA EndOfWork ==
    ASSUME UNCHANGED <<task, row, queue>>, files'.cancel = files.cancel, ~Alive', Busy' = Busy
    PROVE  Seen!Next
BY DEF Seen!Next, Seen!WorkEnds, OutcomeOf, Alive, Due

\* Without the ledger of a container there is none and none will appear.
LEMMA NotAlive ==
    ASSUME RunInvariant, files.journal # "started" PROVE ~Alive
BY DEF RunInvariant, Ledger, Alive, Typed

\* A dispatch is put into the queue, dropped, or acted on.
LEMMA DispatchOnRecord ==
    ASSUME RunInvariant, RunRecord, QueueFits, Dispatch PROVE OnRecord
<1>1. UNCHANGED <<task, row, files, box, kernel, lock, op, calls, workers, spent>>
  BY DEF Dispatch, Enqueue, Take, Launch, TakeOther, EndOther
<1>2. CASE job' = job
  <2>1. RunRecord'
    BY <1>1, <1>2 DEF RunRecord, Marked, Unstarted, StopLasts, RowFollows, Over
  <2>2. Seen!IsDispatched \/ Seen!Forgets \/ Seen!Rests
    <3>1. CASE Enqueue
      BY <1>1, <1>2, <3>1 DEF Enqueue, Pending, JobAt, Seen!IsDispatched, OutcomeOf, Alive, Due, Busy,
                               QueueFits, Queue
    <3>2. CASE ~Launchable /\ (Take \/ Launch)
      BY <1>1, <1>2, <3>2 DEF Take, Launch, Launchable, Terminal, Seen!Forgets, Seen!Terminal, OutcomeOf,
                               Alive, Due, Busy, QueueFits, Queue
    <3>3. CASE Launchable /\ (Take \/ Launch)
      <4>1. Take /\ ~(TokenFree /\ queue.waiting = 0)
        BY <1>2, <3>3 DEF Take, Launch, StartJob, NoJob, TokenFree, JobAt
      <4>2. queue.queued /\ queue' = [queue EXCEPT !.queued = FALSE, !.waiting = @ + 1]
        BY <3>3, <4>1 DEF Take
      <4>3. queue'.waiting = queue.waiting + 1 /\ queue.waiting \in Nat
        BY <4>2, RunBoundAssumption DEF QueueFits, Queue
      <4>4. Due /\ Due'
        BY <4>2, <4>3 DEF Due
      <4> QED
        BY <1>1, <1>2, <4>4 DEF Seen!Rests, Seen!vars, OutcomeOf, Alive, Busy
    <3>4. CASE TakeOther \/ EndOther
      BY <1>1, <1>2, <3>4 DEF TakeOther, EndOther, Seen!Rests, Seen!vars, OutcomeOf, Alive, Due, Busy,
                               QueueFits, Queue
    <3> QED
      BY <3>1, <3>2, <3>3, <3>4 DEF Dispatch
  <2> QED
    BY <2>1, <2>2 DEF OnRecord, Seen!Next
<1>3. CASE job' # job
  <2>1. /\ Launchable /\ job.pc = None /\ job'.pc = "launched" /\ Due
    BY <1>3 DEF Dispatch, Enqueue, Take, Launch, TakeOther, EndOther, StartJob, TokenFree, JobAt, NoJob,
                Due, QueueFits, Queue
  <2>2. RunRecord'
    BY <1>1, <2>1 DEF RunRecord, Marked, Unstarted, StopLasts, RowFollows, Heading, Publishing, Over,
                Launchable
  <2>3. Due' \in {Due, FALSE}
    BY <2>1 DEF Due
  <2>4. Seen!Claims
    BY <1>1, <2>1, <2>3 DEF Seen!Claims, Seen!Terminal, Launchable, Terminal, OutcomeOf, Alive, Busy
  <2> QED
    BY <2>2, <2>4 DEF OnRecord, Seen!Next
<1> QED
  BY <1>2, <1>3

LEMMA BeginOnRecord ==
    ASSUME RunInvariant, RunRecord, Begin PROVE OnRecord
<1>1. /\ job.pc = "launched"
      /\ task'.status = "running" /\ task'.cancel = task.cancel /\ task'.ask = task.ask
      /\ UNCHANGED <<files, box, kernel, lock, queue, op, calls, workers, spent>>
  BY DEF Begin, JobAt, RunInvariant, Typed, Task
<1>2. \/ row.status = "candidate_ready" /\ row.passed /\ job'.pc = "publishing" /\ row' = row
      \/ /\ ~(row.status = "candidate_ready" /\ row.passed) /\ job'.pc = "preparing"
         /\ row'.status = "running" /\ row'.bound = row.bound /\ row'.passed = row.passed
  BY DEF Begin, RunInvariant, Typed, RunRow, Job
<1>3. row.status # "cancelled" /\ task.status \in {"queued", "running", "cancelling", "needs_input"}
  BY <1>1 DEF RunInvariant, CancelledRun, JobIsShown
<1>4. RunRecord'
  BY <1>1, <1>2, <1>3 DEF RunRecord, Marked, Unstarted, StopLasts, RowFollows, Heading, Publishing,
              Over, Terminal
<1>5. Seen!Goes
  BY <1>1, <1>2, <1>3 DEF Seen!Goes, Seen!Terminal, OutcomeOf, Alive, Due, Busy
<1> QED
  BY <1>4, <1>5 DEF OnRecord, Seen!Next

LEMMA StartOnRecord ==
    ASSUME RunInvariant, RunRecord, Start PROVE OnRecord
<1>1. /\ job.pc = "preparing"
      /\ \/ /\ job'.pc = "owning"
            /\ row'.status = row.status /\ row'.failure = row.failure /\ row'.passed = row.passed
            /\ row'.bound
         \/ job'.pc = "decided" /\ job'.result = "error" /\ row' = row
      /\ UNCHANGED <<task, files, box, kernel, lock, queue, op, calls, workers, spent>>
  BY DEF Start, JobAt, Raise, RunInvariant, Typed, RunRow, Job
<1>2. RunRecord'
  BY <1>1 DEF RunRecord, Marked, Unstarted, StopLasts, RowFollows, Heading, Publishing, Over
<1>3. Seen!Rests
  BY <1>1 DEF Seen!Rests, Seen!vars, OutcomeOf, Alive, Due, Busy
<1> QED
  BY <1>2, <1>3 DEF OnRecord, Seen!Next

LEMMA OwnOnRecord ==
    ASSUME RunInvariant, RunRecord, Own PROVE OnRecord
<1>1. /\ job.pc = "owning"
      /\ job'.pc \in {"returned", "recovering", "waiting"}
      /\ op'.pc \in {op.pc, "opening"}
      /\ op'.pc # "opening" => op' = op
      /\ UNCHANGED <<task, row, files, box, kernel, queue>>
      /\ files.cancel => job'.pc = "returned" /\ job'.result = "error"
  BY DEF Own, Refused, JobAt, Return, StartOperation, RunInvariant, Typed, Job, Op, NoOp
<1>2. RunRecord'
  BY <1>1 DEF RunRecord, Marked, Unstarted, StopLasts, RowFollows, Heading, Publishing, Over
<1>3. Alive' = Alive /\ Busy' = Busy
  BY <1>1 DEF Alive, Due, Busy
<1> QED
  BY <1>1, <1>2, <1>3, UnseenRests DEF OnRecord

LEMMA RecoverOnRecord ==
    ASSUME RunInvariant, RunRecord, Recover PROVE OnRecord
<1>1. /\ job.pc = "recovering" /\ UNCHANGED <<task, row, kernel, queue>>
      /\ \/ /\ files'.cancel = files.cancel /\ files'.creating = files.creating
            /\ box' = (box /\ files.journal # "started")
            /\ job'.pc = "waiting" /\ op'.pc = "opening"
         \/ job'.pc = "returned" /\ UNCHANGED <<files, box, op>>
  BY DEF Recover, JobAt, Return, StartOperation, Cleanup, RunInvariant, Typed, Job, Op, NoOp, Files
<1>2. RunRecord'
  BY <1>1 DEF RunRecord, Marked, Unstarted, StopLasts, RowFollows, Heading, Publishing, Over
<1>3. Busy' = Busy /\ files'.cancel = files.cancel
  BY <1>1 DEF Busy
<1>4. ~Alive' \/ Alive' = Alive
  BY <1>1 DEF RunInvariant, Ledger, Alive
<1> QED
  BY <1>1, <1>2, <1>3, <1>4, UnseenRests, EndOfWork DEF OnRecord

LEMMA PlanOnRecord ==
    ASSUME RunInvariant, RunRecord, Plan PROVE OnRecord
<1>1. /\ UNCHANGED <<task, row, box, kernel, lock, queue, job, calls, workers, spent>>
      /\ files'.cancel = files.cancel /\ files'.creating = files.creating
      /\ \/ op'.pc = "closing"
         \/ op'.pc = "planned" /\ ~files.cancel
  BY DEF Plan, EndOp, OpTo, RunInvariant, Typed, Op, Files
<1>2. RunRecord'
  BY <1>1 DEF RunRecord, Marked, Unstarted, StopLasts, RowFollows, Over
<1>3. Alive' = Alive /\ Busy' = Busy
  BY <1>1 DEF Alive, Due, Busy
<1> QED
  BY <1>1, <1>2, <1>3, UnseenRests DEF OnRecord

LEMMA SaveCheckpointOnRecord ==
    ASSUME RunInvariant, RunRecord, SaveCheckpoint PROVE OnRecord
<1>1. /\ UNCHANGED <<task, files, box, kernel, lock, queue, job, calls, workers, spent>>
      /\ row'.status = row.status /\ row'.failure = row.failure /\ row'.passed = row.passed
      /\ row'.bound = row.bound
      /\ op.pc = "planned" /\ op'.pc = "saved" /\ op'.cancelled = op.cancelled
  BY DEF SaveCheckpoint, OpAt, OpTo, RunInvariant, Typed, Op, RunRow
<1>2. RunRecord'
  BY <1>1 DEF RunRecord, Marked, Unstarted, StopLasts, RowFollows, Over
<1>3. Seen!Rests
  BY <1>1 DEF Seen!Rests, Seen!vars, OutcomeOf, Alive, Due, Busy
<1> QED
  BY <1>2, <1>3 DEF OnRecord, Seen!Next

\* A container is asked for: nobody wants the run stopped, its task shows it
\* running and nothing of an earlier container is left.
LEMMA BeginCreateOnRecord ==
    ASSUME RunInvariant, RunRecord, BeginCreate PROVE OnRecord
<1>1. /\ UNCHANGED <<task, row, box, kernel, lock, queue, job, calls, workers, spent>>
      /\ files'.cancel = files.cancel /\ files'.creating
      /\ op.pc = "saved" /\ ~op.cancelled /\ op'.pc = "creating" /\ op'.cancelled = op.cancelled
  BY DEF BeginCreate, OpAt, OpTo, RunInvariant, Typed, Op, Files
<1>2. RunRecord'
  BY <1>1 DEF RunRecord, Marked, Unstarted, StopLasts, RowFollows, Over
<1>3. job.pc = "waiting" /\ files.journal = "planned"
  BY <1>1 DEF RunInvariant, Together, Ledger
<1>4. ~files.cancel /\ ~task.cancel
  BY <1>1, <1>3 DEF RunRecord, Marked
<1>5. row.status = "running" /\ task.status = "running"
  <2>1. row.status # "cancelled"
    BY <1>1 DEF RunInvariant, CancelledRun
  <2> QED
    BY <1>3, <1>4, <2>1 DEF RunInvariant, JobIsShown, Stops, RunRecord, RowFollows, Heading
<1>6. ~Alive /\ Alive'
  BY <1>1, <1>3, NotAlive DEF Alive
<1>7. Seen!WorkBegins
  BY <1>1, <1>3, <1>4, <1>5, <1>6 DEF Seen!WorkBegins, OutcomeOf, Due, Busy
<1> QED
  BY <1>2, <1>7 DEF OnRecord, Seen!Next

LEMMA EndCreateOnRecord ==
    ASSUME RunInvariant, RunRecord, EndCreate PROVE OnRecord
<1>1. /\ UNCHANGED <<task, row, kernel, lock, queue, job, calls, workers, spent>>
      /\ files'.cancel = files.cancel /\ ~files'.creating
      /\ op.pc = "creating" /\ ~op.cancelled /\ box' \in BOOLEAN
      /\ \/ op'.pc = "running" /\ op'.cancelled = op.cancelled /\ box'
         \/ op'.pc = "closing" /\ box' = box
  BY DEF EndCreate, OpAt, OpTo, EndOp, RunInvariant, Typed, Op, Files
<1>2. RunRecord'
  BY <1>1 DEF RunRecord, Marked, Unstarted, StopLasts, RowFollows, Over
<1>3. Busy' = Busy
  BY <1>1 DEF Busy
<1>4. ~Alive' \/ Alive' = Alive
  BY <1>1 DEF RunInvariant, Ledger, Alive
<1> QED
  BY <1>1, <1>2, <1>3, <1>4, UnseenRests, EndOfWork DEF OnRecord

LEMMA LateCreateOnRecord ==
    ASSUME RunInvariant, RunRecord, LateCreate PROVE OnRecord
<1>1. /\ UNCHANGED <<task, row, files, kernel, lock, queue, job, op, calls, workers, spent>>
      /\ files.creating /\ box' = TRUE
  BY DEF LateCreate
<1>2. RunRecord'
  BY <1>1 DEF RunRecord, Marked, Unstarted, StopLasts, RowFollows, Over
<1>3. Alive' = Alive /\ Busy' = Busy
  BY <1>1 DEF Alive, Due, Busy, RunInvariant, Typed, Files
<1> QED
  BY <1>1, <1>2, <1>3, UnseenRests DEF OnRecord

LEMMA SettleOnRecord ==
    ASSUME RunInvariant, RunRecord, Settle PROVE OnRecord
<1>1. /\ UNCHANGED <<task, row, files, box, kernel, lock, queue, job, calls, workers, spent>>
      /\ op'.pc = "closing"
  BY DEF Settle, EndOp, RunInvariant, Typed, Op
<1>2. RunRecord'
  BY <1>1 DEF RunRecord, Marked, Unstarted, StopLasts, RowFollows, Over
<1>3. Alive' = Alive /\ Busy' = Busy
  BY <1>1 DEF Alive, Due, Busy
<1> QED
  BY <1>1, <1>2, <1>3, UnseenRests DEF OnRecord

LEMMA WatchOnRecord ==
    ASSUME RunInvariant, RunRecord, Watch PROVE OnRecord
<1>1. /\ UNCHANGED <<task, row, files, box, kernel, lock, queue, job, calls, workers, spent>>
      /\ op'.cancelled
  BY DEF Watch, RunInvariant, Typed, Op
<1>2. RunRecord'
  BY <1>1 DEF RunRecord, Marked, Unstarted, StopLasts, RowFollows, Over
<1>3. Alive' = Alive /\ Busy' = Busy
  BY <1>1 DEF Alive, Due, Busy
<1> QED
  BY <1>1, <1>2, <1>3, UnseenRests DEF OnRecord

LEMMA UnwindOnRecord ==
    ASSUME RunInvariant, RunRecord, Unwind PROVE OnRecord
<1>1. /\ UNCHANGED <<task, row, kernel, lock, queue, job, calls, workers, spent>>
      /\ files'.cancel = files.cancel /\ ~files'.creating
      /\ op.cancelled /\ op.pc # "closing" /\ op'.pc = "closing"
      /\ box' \in BOOLEAN /\ (op.pc # "creating" => box' = box)
  BY DEF Unwind, EndOp, RunInvariant, Typed, Op, Files
<1>2. RunRecord'
  BY <1>1 DEF RunRecord, Marked, Unstarted, StopLasts, RowFollows, Over
<1>3. Busy' = Busy
  BY <1>1 DEF Busy
<1>4. ~Alive' \/ Alive' = Alive
  <2>1. op.pc # "creating" => ~files.creating
    BY <1>1 DEF RunInvariant, Stops, Ledger, Typed, Op, OpPc
  <2> QED
    BY <1>1, <2>1 DEF RunInvariant, Ledger, Alive
<1> QED
  BY <1>1, <1>2, <1>3, <1>4, UnseenRests, EndOfWork DEF OnRecord

LEMMA CloseOnRecord ==
    ASSUME RunInvariant, RunRecord, Close PROVE OnRecord
<1>1. /\ UNCHANGED <<task, row, kernel, queue>>
      /\ op.pc = "closing" /\ op'.pc = None /\ job'.pc = "returned"
      /\ files'.cancel = files.cancel /\ files'.creating = files.creating
      /\ box' = box \/ box' = (box /\ files.journal # "started")
  BY DEF Close, Return, Cleanup, RunInvariant, Typed, Job, NoOp, Files
<1>2. job.pc = "waiting"
  BY <1>1 DEF RunInvariant, Together
<1>3. RunRecord'
  BY <1>1, <1>2 DEF RunRecord, Marked, Unstarted, StopLasts, RowFollows, Heading, Publishing, Over
<1>4. Busy' = Busy
  BY <1>1, <1>2 DEF Busy
<1>5. ~Alive' \/ Alive' = Alive
  BY <1>1 DEF RunInvariant, Ledger, Alive
<1> QED
  BY <1>1, <1>3, <1>4, <1>5, UnseenRests, EndOfWork DEF OnRecord

LEMMA AwaitStopOnRecord ==
    ASSUME RunInvariant, RunRecord, AwaitStop PROVE OnRecord
<1>1. /\ UNCHANGED <<task, row, files, box, kernel, lock, queue, op, calls, workers, spent>>
      /\ job.pc = "returned" /\ job'.pc = "accepting" /\ job'.result = job.result
  BY DEF AwaitStop, JobAt, RunInvariant, Typed, Job
<1>2. RunRecord'
  BY <1>1 DEF RunRecord, Marked, Unstarted, StopLasts, RowFollows, Heading, Publishing, Over
<1>3. Alive' = Alive /\ Busy' = Busy
  BY <1>1 DEF Alive, Due, Busy
<1> QED
  BY <1>1, <1>2, <1>3, UnseenRests DEF OnRecord

\* An accepted result is the answer of an open run; once a stop won the kernel
\* answers nothing.
LEMMA AcceptOnRecord ==
    ASSUME RunInvariant, RunRecord, Accept PROVE OnRecord
<1>1. /\ job.pc \in {"returned", "accepting"} /\ job'.pc = "decided"
      /\ UNCHANGED <<task, files, box, kernel, lock, queue, op, calls, workers, spent>>
  BY DEF Accept, StopSettled, JobAt, Raise, RunInvariant, Typed, Job
<1>2. \/ row' = row /\ job'.result \in {"cancelled", "error", "stalled"}
      \/ row' = row /\ job'.result = "unknown" /\ job.result = "unknown" /\ kernel.cancelled
      \/ /\ ~kernel.cancelled /\ job'.result = job.result
         /\ row'.bound = row.bound /\ row'.passed = row.passed
         /\ \/ /\ job.result \in {"passed", "unverified"}
               /\ row'.status = "candidate_ready"
            \/ job.result = "question" /\ row'.status = "needs_input" /\ row'.failure = None
            \/ job.result = "unknown" /\ row'.status = "needs_input" /\ row'.failure = "unknown"
            \/ job.result \in {"error", "stalled"} /\ row'.status = "failed"
  BY DEF Accept, Raise, StopWon, Accepted, RunInvariant, Typed, Job, RunRow
<1>3. row.bound
  BY <1>1 DEF RunInvariant, Identity
<1>4. RunRecord'
  BY <1>1, <1>2, <1>3 DEF RunRecord, Marked, Unstarted, StopLasts, RowFollows, Heading, Publishing,
              Over
<1>5. CASE row' = row
  BY <1>1, <1>4, <1>5, UnseenRests DEF OnRecord, Alive, Due, Busy
<1>6. CASE row' # row
  <2>1. ~kernel.cancelled /\ row.status = "running"
    BY <1>1, <1>2, <1>6 DEF RunInvariant, CancelledRun, RunRecord, RowFollows, Heading
  <2>2. job.result \in {"passed", "unverified", "question", "unknown"} => ~Alive
    BY <1>1, NotAlive DEF RunInvariant, CleanResults
  <2>3. PICK answer \in {"asked", "unknown", "candidate_ready", "failed"} :
           OutcomeOf' = answer /\ (Alive => answer = "failed") /\ row'.passed = row.passed
    BY <1>2, <1>6, <2>2 DEF OutcomeOf
  <2>4. Seen!Answers(answer)
    BY <1>1, <2>1, <2>3 DEF Seen!Answers, OutcomeOf, Alive, Due, Busy
  <2> QED
    BY <1>4, <2>4 DEF OnRecord, Seen!Next
<1> QED
  BY <1>5, <1>6

\* A stop that is asked for leaves its mark, and reaches an operation at work.
LEMMA RequestBars ==
    ASSUME RunInvariant, RunRecord, NEW c \in Caller, NEW active, RequestStop(c, active)
    PROVE  /\ files'.cancel /\ files'.creating = files.creating
           /\ kernel'.cancelled = kernel.cancelled
           /\ op'.pc = op.pc
           /\ op'.pc \in {"planned", "saved", "creating", "running"} => op'.cancelled
BY DEF RequestStop, RunInvariant, Typed, Files, Kernel, Op, RunRecord, Marked

LEMMA OwnStopOnRecord ==
    ASSUME RunInvariant, RunRecord, job.pc = "decided", NEW reason, StopOwn(reason),
           row'.status = row.status, row'.failure = row.failure, row'.passed = row.passed,
           row'.bound = row.bound, row.bound, box' = box, queue' = queue
    PROVE  OnRecord
<1>1. /\ job'.pc = "stopping" /\ task' = task
      /\ files'.cancel /\ files'.creating = files.creating
      /\ kernel'.cancelled = kernel.cancelled /\ op'.pc = op.pc
      /\ op'.pc \in {"planned", "saved", "creating", "running"} => op'.cancelled
  BY RequestBars DEF StopOwn, RunInvariant, Typed, Job, Caller
<1>2. RunRecord'
  BY <1>1 DEF RunRecord, Marked, Unstarted, StopLasts, RowFollows, Heading, Publishing, Over
<1>3. Seen!Bars
  BY <1>1 DEF Seen!Bars, OutcomeOf, Alive, Due, Busy
<1> QED
  BY <1>2, <1>3 DEF OnRecord, Seen!Next

\* Task and run are cancelled together, with nothing left of either.
LEMMA MarkOnRecord ==
    ASSUME RunInvariant, RunRecord, MarkCancelled,
           task.status \notin {"candidate_ready", "completed"},
           job'.pc = None, op'.pc = op.pc, op'.cancelled = op.cancelled,
           files'.cancel = files.cancel, kernel'.cancelled => files.cancel,
           ~Alive', Alive => files.cancel, Due' \in {Due, FALSE}
    PROVE  OnRecord
<1>1. /\ task'.status = "cancelled" /\ task'.cancel = TRUE /\ task'.ask = None
      /\ row'.status = "cancelled" /\ row'.passed = row.passed /\ row'.bound = row.bound
  BY DEF MarkCancelled, RunInvariant, Typed, Task, RunRow
<1>2. RunRecord'
  BY <1>1 DEF RunRecord, Marked, Unstarted, StopLasts, RowFollows, Heading, Publishing, Over,
              Terminal
<1>3. Seen!Stops
  BY <1>1 DEF Seen!Stops, OutcomeOf, Alive, Busy
<1> QED
  BY <1>2, <1>3 DEF OnRecord, Seen!Next

LEMMA DecideRaisedOnRecord ==
    ASSUME RunInvariant, RunRecord, DecideRaised PROVE OnRecord
<1>1. /\ job.pc = "decided" /\ job.result \in {"error", "stalled", "cancelled"}
      /\ UNCHANGED <<box, lock, workers, spent, queue>>
  BY DEF DecideRaised, JobAt
<1>2. task.status \in {"queued", "running", "cancelling"}
  BY <1>1 DEF RunInvariant, JobIsShown
<1>3. PICK reason \in {"error", "stalled", "cancelled"} :
         /\ job.result \in {"error", "cancelled"} => reason # "stalled"
         /\ \/ row.bound /\ StopOwn(reason) /\ UNCHANGED row
            \/ ~row.bound /\ FinishJob(reason) /\ UNCHANGED <<files, kernel, op, calls>>
  BY <1>1 DEF DecideRaised, RaisedReason
<1>4. CASE row.bound
  BY <1>1, <1>3, <1>4, OwnStopOnRecord
<1>5. CASE ~row.bound
  <2>1. reason # "stalled" /\ ~Alive /\ ~files.cancel /\ ~row.passed
    BY <1>1, <1>3, <1>5, NotAlive DEF RunInvariant, Identity, RunRecord, Unstarted
  <2>2. row.status \in {"queued", "preparing", "running"}
    BY <1>1, <1>5 DEF RunInvariant, Identity, RunRecord, Unstarted
  <2>3. ~Alive' /\ job'.pc = None /\ UNCHANGED <<files, kernel, op>>
    BY <1>1, <1>3, <1>5, <2>1 DEF FinishJob, NoJob, Alive
  <2>4. CASE MarkCancelled
    <3>1. (kernel'.cancelled => files.cancel) /\ Due' = Due
      BY <1>1, <2>3 DEF RunRecord, StopLasts, Due
    <3> QED
      BY <1>2, <2>1, <2>3, <2>4, <3>1, MarkOnRecord
  <2>5. CASE reason = "error" /\ ~MarkCancelled
    <3>1. /\ task'.status = "failed" /\ task'.cancel = task.cancel /\ task'.ask = None
          /\ row' = row
      BY <1>3, <1>5, <2>5 DEF FinishJob, RunInvariant, Typed, Task
    <3>2. RunRecord'
      BY <1>1, <2>3, <3>1 DEF RunRecord, Marked, Unstarted, StopLasts, RowFollows, Heading,
                  Publishing, Over, Terminal
    <3>3. Seen!Refuses
      BY <1>1, <2>1, <2>2, <2>3, <3>1 DEF Seen!Refuses, Seen!Shows, OutcomeOf, Alive, Due, Busy
    <3> QED
      BY <3>2, <3>3 DEF OnRecord, Seen!Next
  <2> QED
    BY <1>3, <1>5, <2>1, <2>4, <2>5 DEF FinishJob
<1> QED
  BY <1>4, <1>5

LEMMA DecideQuestionOnRecord ==
    ASSUME RunInvariant, RunRecord, DecideQuestion PROVE OnRecord
<1>1. /\ job.pc = "decided" /\ job.result = "question"
      /\ row'.status = "needs_input" /\ row'.failure = row.failure /\ row'.passed = row.passed
      /\ row'.bound = row.bound
      /\ UNCHANGED <<box, lock, workers, spent, queue>>
  BY DEF DecideQuestion, JobAt, RunInvariant, Typed, RunRow
<1>2. /\ row.status = "needs_input" /\ row.failure # "unknown" /\ row.bound
      /\ task.status \in {"queued", "running", "cancelling"}
  BY <1>1 DEF RunInvariant, DraftIsKnown, JobIsShown, Identity, RunRecord, RowFollows
<1>3. CASE \E reason : StopOwn(reason)
  BY <1>1, <1>2, <1>3, OwnStopOnRecord
<1>4. CASE /\ ~task.cancel /\ job' = NoJob /\ UNCHANGED <<files, kernel, op, calls>>
           /\ \E ask \in {None, "draft"} :
                task' = [task EXCEPT !.status = "needs_input", !.ask = ask]
  <2>1. PICK ask \in {"none", "draft"} :
           task'.status = "needs_input" /\ task'.cancel = task.cancel /\ task'.ask = ask
    BY <1>4 DEF RunInvariant, Typed, Task
  <2>2. job'.pc = None /\ UNCHANGED <<files, kernel, op, box>>
    BY <1>1, <1>4 DEF NoJob
  <2>3. RunRecord'
    BY <1>1, <1>2, <2>1, <2>2 DEF RunRecord, Marked, Unstarted, StopLasts, RowFollows,
                Heading, Publishing, Over, Terminal
  <2>4. ~Alive
    BY <1>1, NotAlive DEF RunInvariant, CleanResults
  <2>5. Seen!Asks(ask)
    BY <1>1, <1>2, <1>4, <2>1, <2>2, <2>4 DEF Seen!Asks, Seen!Shows, OutcomeOf, Alive, Due, Busy
  <2> QED
    BY <2>3, <2>5 DEF OnRecord, Seen!Next
<1> QED
  BY <1>3, <1>4 DEF DecideQuestion

LEMMA DecideUnknownOnRecord ==
    ASSUME RunInvariant, RunRecord, DecideUnknown PROVE OnRecord
<1>1. /\ job.pc = "decided" /\ job.result = "unknown"
      /\ task'.status = "needs_input" /\ task'.cancel = task.cancel /\ task'.ask = None
      /\ job'.pc = None
      /\ UNCHANGED <<row, files, box, kernel, lock, queue, op, calls, workers, spent>>
  BY DEF DecideUnknown, JobAt, NoJob, RunInvariant, Typed, Task
<1>2. RunRecord'
  BY <1>1 DEF RunRecord, Marked, Unstarted, StopLasts, RowFollows, Heading, Publishing, Over,
              Terminal
<1>3. \/ row.status = "cancelled" /\ task.cancel
      \/ row.status = "needs_input" /\ row.failure = "unknown"
  BY <1>1 DEF RunRecord, RowFollows, RunInvariant, CancelledRun, JobIsShown, Over, Terminal
<1>4. ~Alive
  BY <1>1, NotAlive DEF RunInvariant, CleanResults
<1>5. Seen!Asks("none")
  BY <1>1, <1>3, <1>4 DEF Seen!Asks, Seen!Shows, OutcomeOf, Alive, Due, Busy
<1> QED
  BY <1>2, <1>5 DEF OnRecord, Seen!Next

LEMMA DecideCandidateOnRecord ==
    ASSUME RunInvariant, RunRecord, DecideCandidate PROVE OnRecord
<1>1. /\ job.pc = "decided" /\ row.status = "candidate_ready" /\ row.bound
      /\ row'.status = "candidate_ready" /\ row'.failure = row.failure /\ row'.bound = row.bound
      /\ UNCHANGED <<files, box, kernel, lock, queue, op, calls, workers, spent>>
  BY DEF DecideCandidate, JobAt, RunInvariant, Typed, RunRow, Identity, RunRecord, RowFollows
<1>2. \/ row'.passed /\ job'.pc = "publishing" /\ task' = task
      \/ /\ ~row'.passed /\ job'.pc = None
         /\ task'.status = "candidate_ready" /\ task'.cancel = FALSE /\ task'.ask = None
  <2>1. CASE job.result = "passed"
    BY <2>1 DEF DecideCandidate, RunInvariant, Typed, RunRow, Job
  <2>2. CASE job.result = "unverified"
    <3>1. job'.pc = None /\ task'.status = "candidate_ready" /\ task'.cancel = FALSE
          /\ task'.ask = None
      <4>1. /\ task' = [task EXCEPT !.status = "candidate_ready", !.cancel = FALSE, !.ask = None]
            /\ job' = NoJob
        BY <2>2 DEF DecideCandidate
      <4> QED
        BY <4>1 DEF NoJob, RunInvariant, Typed, Task
    <3>2. row'.passed = (job.result = "passed")
      BY DEF DecideCandidate, RunInvariant, Typed, RunRow
    <3> QED
      BY <2>2, <3>1, <3>2
  <2> QED
    BY <2>1, <2>2 DEF DecideCandidate
<1>3. row'.passed \in BOOLEAN
  BY DEF DecideCandidate, RunInvariant, Typed, RunRow
<1>4. RunRecord'
  BY <1>1, <1>2 DEF RunRecord, Marked, Unstarted, StopLasts, RowFollows, Heading, Publishing, Over,
              Terminal
<1>5. ~Alive
  BY <1>1, NotAlive DEF RunInvariant, CleanResults
<1>6. Seen!Passes \/ Seen!Offers
  BY <1>1, <1>2, <1>3, <1>5 DEF Seen!Passes, Seen!Offers, Seen!Shows, OutcomeOf, Alive, Due, Busy,
              DecideCandidate
<1> QED
  BY <1>4, <1>6 DEF OnRecord, Seen!Next

LEMMA PublicationOnRecord ==
    ASSUME RunInvariant, RunRecord, Gate \/ Commit \/ Complete \/ PublishRaises PROVE OnRecord
<1>1. /\ job.pc \in Publishing /\ row.passed /\ ~Alive
      /\ task.status \in {"queued", "running", "cancelling"}
      /\ UNCHANGED <<row, files, box, kernel, lock, queue, op, calls, workers, spent>>
  <2>1. /\ job.pc \in Publishing
        /\ UNCHANGED <<row, files, box, kernel, lock, queue, op, calls, workers, spent>>
    BY DEF Gate, Commit, Complete, PublishRaises, JobAt, Publishing
  <2> QED
    BY <2>1, NotAlive DEF RunInvariant, CleanResults, JobIsShown, RunRecord, RowFollows, Publishing
<1>2. \/ job'.pc \in Publishing /\ task' = task
      \/ job'.pc = "decided" /\ job'.result \in {"error", "cancelled"} /\ task' = task
      \/ /\ job'.pc = None
         /\ task'.status = "completed" /\ task'.cancel = FALSE /\ task'.ask = None
      \/ /\ job'.pc = None
         /\ task'.status = "running" /\ task'.cancel = task.cancel /\ task'.ask = task.ask
  <2>1. CASE Gate \/ Commit
    <3>1. job'.pc \in {"committing", "delivered"} /\ task' = task
      BY <2>1 DEF Gate, Commit, RunInvariant, Typed, Job
    <3> QED
      BY <3>1 DEF Publishing
  <2>2. CASE Complete
    <3>1. CASE job.result = "cancelled"
      BY <2>2, <3>1 DEF Complete, Raise, RunInvariant, Typed, Job
    <3>2. CASE job.result # "cancelled"
      <4>1. /\ task' = [task EXCEPT !.status = "completed", !.cancel = FALSE, !.ask = None]
            /\ job' = NoJob
        BY <2>2, <3>2 DEF Complete
      <4> QED
        BY <4>1 DEF NoJob, RunInvariant, Typed, Task
    <3> QED
      BY <3>1, <3>2
  <2>3. CASE PublishRaises
    <3>1. CASE Raise("error") /\ UNCHANGED task
      BY <3>1 DEF Raise, RunInvariant, Typed, Job
    <3>2. CASE task' = [task EXCEPT !.status = "running"] /\ job' = NoJob
      BY <3>2 DEF NoJob, RunInvariant, Typed, Task
    <3> QED
      BY <2>3, <3>1, <3>2 DEF PublishRaises
  <2> QED
    BY <2>1, <2>2, <2>3
<1>3. task'.cancel \in BOOLEAN
  BY DEF Gate, Commit, Complete, PublishRaises, RunInvariant, Typed, Task
<1>4. RunRecord'
  BY <1>1, <1>2 DEF RunRecord, Marked, Unstarted, StopLasts, RowFollows, Heading, Publishing, Over,
              Terminal
<1>5. Seen!Rests \/ Seen!Delivers \/ Seen!Postpones
  BY <1>1, <1>2, <1>3 DEF Seen!Rests, Seen!vars, Seen!Delivers, Seen!Postpones, Seen!Shows,
              OutcomeOf, Alive, Due, Busy, Publishing
<1> QED
  BY <1>4, <1>5 DEF OnRecord, Seen!Next

\* An interrupted job is gone, about to end as cancelled, or waits for its thread.
LEMMA InterruptMoves ==
    ASSUME Typed, Interrupt
    PROVE  \/ job'.pc = None
           \/ job'.pc = "decided" /\ job'.result = "cancelled"
           \/ job'.pc = job.pc /\ job.pc \in Publishing
<1>1. CASE job.pc \in {"launched", "stopping"}
  <2>1. job' = NoJob
    BY <1>1 DEF Interrupt
  <2> QED
    BY <2>1 DEF NoJob
<1>2. CASE job.pc \in Publishing
  BY <1>2 DEF Interrupt, Publishing, Typed, Job
<1>3. CASE job.pc \notin {"launched", "stopping"} \union Publishing
  <2>1. Raise("cancelled")
    BY <1>3 DEF Interrupt, Publishing
  <2> QED
    BY <2>1 DEF Raise, Typed, Job
<1> QED
  BY <1>1, <1>2, <1>3

\* A stop is asked for, or failed and is still wanted.
LEMMA CancelsOnRecord ==
    ASSUME RunInvariant, RunRecord,
           task'.status = "cancelling", task'.cancel = TRUE, task'.ask = task.ask,
           row' = row, Alive' = Alive, Alive => files'.cancel,
           files'.cancel = files.cancel \/ files'.cancel = TRUE,
           kernel'.cancelled = kernel.cancelled,
           op'.pc = op.pc,
           op'.cancelled = op.cancelled
               \/ (op'.pc \in {"planned", "saved", "creating", "running"} => op'.cancelled),
           files'.cancel = files.cancel
               \/ (op'.pc \in {"planned", "saved", "creating", "running"} => op'.cancelled),
           row.bound => files'.cancel, ~row.bound => files'.cancel = files.cancel,
           \/ job'.pc = job.pc /\ job'.result = job.result /\ row.bound
           \/ job'.pc = None
           \/ job.pc # None /\ job'.pc = "decided" /\ job'.result = "cancelled",
           Due' \in {Due, FALSE}
    PROVE  OnRecord
<1>1. RunRecord'
  BY DEF RunRecord, Marked, Unstarted, StopLasts, RowFollows, Heading, Publishing, Over
<1>2. Seen!Cancels
  BY DEF Seen!Cancels, OutcomeOf, Busy, Alive
<1> QED
  BY <1>1, <1>2 DEF OnRecord, Seen!Next

LEMMA AskStopOnRecord ==
    ASSUME RunInvariant, RunRecord, QueueFits, NEW c \in Caller, AskStop(c) PROVE OnRecord
<1>0. Due' \in {Due, FALSE}
  <2>1. queue'.waiting = queue.waiting /\ (queue'.queued => queue.queued)
    BY DEF AskStop, QueueFits, Queue
  <2> QED
    BY <2>1 DEF Due
<1>1. CASE row.bound
  <2>1. RequestStop(c, job.pc # None) /\ UNCHANGED <<row, job, box>>
        /\ task'.status = "cancelling" /\ task'.cancel = TRUE /\ task'.ask = task.ask
    BY <1>1 DEF AskStop, RunInvariant, Typed, Task
  <2>2. /\ files'.cancel = TRUE /\ files'.creating = files.creating
        /\ kernel'.cancelled = kernel.cancelled
        /\ op'.pc = op.pc
        /\ op'.pc \in {"planned", "saved", "creating", "running"} => op'.cancelled
    <3>1. files'.cancel = TRUE
      BY <2>1 DEF RequestStop, RunInvariant, Typed, Files
    <3> QED
      BY <2>1, <3>1, RequestBars
  <2>3. Alive' = Alive
    BY <2>1, <2>2 DEF Alive
  <2> QED
    BY <1>0, <1>1, <2>1, <2>2, <2>3, CancelsOnRecord
<1>2. CASE ~row.bound
  <2>1. ~Alive /\ files.journal = None
    BY <1>2, NotAlive DEF RunInvariant, Identity
  <2>2. UNCHANGED <<files, kernel, op, box>>
    BY <1>2 DEF AskStop
  <2>3. ~Alive' /\ Alive' = Alive
    BY <2>1, <2>2 DEF Alive
  <2>4. CASE job.pc = None
    <3>1. MarkCancelled /\ job' = job
      BY <1>2, <2>4 DEF AskStop, JobAt
    <3>2. task.status \notin {"candidate_ready", "completed"}
      BY DEF AskStop, MayAsk, Terminal
    <3>3. kernel'.cancelled => files.cancel
      BY <2>2 DEF RunRecord, StopLasts
    <3> QED
      BY <1>0, <2>1, <2>2, <2>3, <2>4, <3>1, <3>2, <3>3, MarkOnRecord
  <2>5. CASE job.pc # None
    <3>1. Interrupt /\ row' = row
          /\ task'.status = "cancelling" /\ task'.cancel = TRUE /\ task'.ask = task.ask
      BY <1>2, <2>5 DEF AskStop, JobAt, RunInvariant, Typed, Task
    <3>2. job.pc \notin Publishing
      BY <1>2 DEF RunInvariant, Identity, Publishing
    <3>3. \/ job'.pc = None
          \/ job'.pc = "decided" /\ job'.result = "cancelled"
      BY <3>1, <3>2, InterruptMoves DEF RunInvariant
    <3> QED
      BY <1>0, <1>2, <2>1, <2>2, <2>3, <2>5, <3>1, <3>3, CancelsOnRecord
  <2> QED
    BY <2>4, <2>5
<1> QED
  BY <1>1, <1>2

LEMMA AskProofOnRecord ==
    ASSUME RunInvariant, RunRecord, AskProof PROVE OnRecord
<1>1. RequestStop("deletion", FALSE) /\ UNCHANGED <<task, row, box, lock, job, workers, queue>> /\ row.bound
  BY DEF AskProof
<1>2. /\ files'.cancel /\ files'.cancel = TRUE /\ files'.creating = files.creating
      /\ kernel'.cancelled = kernel.cancelled
      /\ op'.pc = op.pc
      /\ op'.pc \in {"planned", "saved", "creating", "running"} => op'.cancelled
  <2>1. files'.cancel = TRUE
    BY <1>1 DEF RequestStop, RunInvariant, Typed, Files
  <2> QED
    BY <1>1, <2>1, RequestBars DEF Caller
<1>3. RunRecord'
  BY <1>1, <1>2 DEF RunRecord, Marked, Unstarted, StopLasts, RowFollows, Heading, Publishing, Over
<1>4. Seen!Bars
  BY <1>1, <1>2 DEF Seen!Bars, OutcomeOf, Alive, Due, Busy
<1> QED
  BY <1>3, <1>4 DEF OnRecord, Seen!Next

LEMMA FailStopOnRecord ==
    ASSUME RunInvariant, RunRecord, NEW c \in Caller, calls[c].pc # None, FailStop(c),
           UNCHANGED <<files, box, queue>>
    PROVE  OnRecord
<1>1. files.cancel /\ row.bound
  BY DEF RunInvariant, Stops, Identity
<1>2. /\ UNCHANGED <<row, op>> /\ kernel'.cancelled = kernel.cancelled
      /\ \/ c = "job" /\ job'.pc = None
         \/ c # "job" /\ job'.pc = job.pc /\ job'.result = job.result
  BY DEF FailStop, EndRequest, Wake, NoJob, RunInvariant, Typed, Job, Kernel
<1>3. Alive' = Alive /\ Due' = Due
  BY DEF Alive, Due
<1>4. CASE c = "deletion"
  <2>1. task' = task /\ job'.pc = job.pc /\ job'.result = job.result /\ Busy' = Busy
    BY <1>2, <1>4 DEF FailStop, Busy
  <2>2. RunRecord'
    BY <1>2, <2>1 DEF RunRecord, Marked, Unstarted, StopLasts, RowFollows, Heading, Publishing, Over
  <2> QED
    BY <1>2, <1>3, <2>1, <2>2, UnseenRests DEF OnRecord
<1>5. CASE c # "deletion"
  <2>1. task'.status = "cancelling" /\ task'.cancel = TRUE /\ task'.ask = task.ask
    BY <1>5 DEF FailStop, RunInvariant, Typed, Task
  <2> QED
    BY <1>1, <1>2, <1>3, <2>1, CancelsOnRecord
<1> QED
  BY <1>4, <1>5

LEMMA FailingStopsOnRecord ==
    ASSUME RunInvariant, RunRecord, NEW c \in Caller, TakeLock(c) \/ TimeOut(c) \/ CleanupFails(c)
    PROVE  OnRecord
<1>1. calls[c].pc # None /\ UNCHANGED <<files, box, queue>>
  BY DEF TakeLock, TimeOut, CleanupFails
<1>2. CASE FailStop(c)
  BY <1>1, <1>2, FailStopOnRecord
<1>3. CASE ~FailStop(c)
  <2>1. UNCHANGED <<task, row, kernel, job, op>>
    BY <1>3 DEF TakeLock, TimeOut, CleanupFails
  <2>2. RunRecord'
    BY <1>1, <2>1 DEF RunRecord, Marked, Unstarted, StopLasts, RowFollows, Over
  <2>3. Alive' = Alive /\ Busy' = Busy
    BY <1>1, <2>1 DEF Alive, Due, Busy
  <2> QED
    BY <1>1, <2>1, <2>2, <2>3, UnseenRests DEF OnRecord
<1> QED
  BY <1>2, <1>3

\* What a proof of rest leaves: a cancelled run, and a task that is over, about to
\* be, or waits for its owner.
LEMMA StoppedOnRecord ==
    ASSUME RunInvariant, RunRecord, NEW c \in Caller, Stopped(c) PROVE OnRecord
<1>1. /\ calls[c].pc = "cleaning" /\ files.cancel /\ row.bound
      /\ job.pc \notin {"waiting", "recovering"} /\ op.pc = None /\ op' = op
  <2>1. calls[c].pc = "cleaning" /\ files.cancel /\ row.bound /\ op' = op
    BY DEF Stopped, RunInvariant, Stops, Identity
  <2>2. lock = c /\ c # "run"
    BY <2>1 DEF RunInvariant, Together, Caller
  <2> QED
    BY <2>1, <2>2 DEF RunInvariant, Together
<1>2. files'.cancel = files.cancel /\ files'.creating = files.creating /\ ~Alive'
      /\ kernel'.cancelled = TRUE /\ queue' = queue /\ Due' = Due
  BY <1>1 DEF Stopped, Cleanup, Due, RunInvariant, Ledger, Typed, Files, Alive
<1>3. CASE c = "job" /\ FinishJob(job.result)
  <2>1. job.pc = "stopping" /\ task.status \in {"queued", "running", "cancelling"}
    BY <1>1, <1>3 DEF RunInvariant, Stops, JobIsShown
  <2>2. job'.pc = None
    BY <1>3 DEF FinishJob, NoJob
  <2>3. CASE MarkCancelled
    BY <1>1, <1>2, <2>1, <2>2, <2>3, MarkOnRecord
  <2>4. CASE /\ ~task.cancel
             /\ task' = [task EXCEPT !.status = "needs_input", !.ask = None]
             /\ row' = [row EXCEPT !.status = "needs_input", !.failure = "other"]
    <3>1. /\ task'.status = "needs_input" /\ task'.cancel = task.cancel /\ task'.ask = None
          /\ row'.status = "needs_input" /\ row'.failure = "other" /\ row'.passed = row.passed
          /\ row'.bound = row.bound
      BY <2>4 DEF RunInvariant, Typed, Task, RunRow
    <3>2. row.status # "cancelled"
      BY <2>1, <2>4 DEF RunInvariant, CancelledRun, Over, Terminal
    <3>3. RunRecord'
      BY <1>1, <1>2, <2>2, <3>1 DEF RunRecord, Marked, Unstarted, StopLasts, RowFollows, Heading,
                  Publishing, Over, Terminal
    <3>4. Seen!Stalls
      BY <1>1, <1>2, <2>1, <2>2, <2>4, <3>1, <3>2 DEF Seen!Stalls, OutcomeOf, Alive, Due, Busy
    <3> QED
      BY <3>3, <3>4 DEF OnRecord, Seen!Next
  <2>5. CASE /\ task' = [task EXCEPT !.status = "failed", !.ask = None]
             /\ row' = IF row.bound THEN [row EXCEPT !.status = "cancelled", !.failure = None] ELSE row
    <3>1. /\ task'.status = "failed" /\ task'.cancel = task.cancel /\ task'.ask = None
          /\ row'.status = "cancelled" /\ row'.passed = row.passed /\ row'.bound = row.bound
      BY <1>1, <2>5 DEF RunInvariant, Typed, Task, RunRow
    <3>2. RunRecord'
      BY <1>1, <1>2, <2>2, <3>1 DEF RunRecord, Marked, Unstarted, StopLasts, RowFollows, Heading,
                  Publishing, Over, Terminal
    <3>3. Seen!Stops
      BY <1>1, <1>2, <2>1, <2>2, <3>1 DEF Seen!Stops, OutcomeOf, Alive, Due, Busy
    <3> QED
      BY <3>2, <3>3 DEF OnRecord, Seen!Next
  <2> QED
    BY <1>3, <2>3, <2>4, <2>5 DEF FinishJob
<1>4. CASE c \in Outside /\ ~calls[c].active /\ MarkCancelled /\ job' = job
  <2>1. job.pc = None /\ task.cancel
    BY <1>1, <1>4 DEF RunInvariant, Stops
  <2>2. task.status \notin {"candidate_ready", "completed"}
    BY <2>1 DEF RunRecord, StopLasts
  <2> QED
    BY <1>1, <1>2, <1>4, <2>1, <2>2, MarkOnRecord
<1>5. CASE /\ c \in Outside \union {"deletion"} /\ RowCancelled /\ task' = task
           /\ \/ Interrupts(c) /\ Interrupt
              \/ (c = "deletion" \/ job.pc = None) /\ Wake(c)
  <2>1. /\ row'.status = "cancelled" /\ row'.passed = row.passed /\ row'.bound = row.bound
    BY <1>5 DEF RowCancelled, RunInvariant, Typed, RunRow
  <2>2. Over
    BY <1>1, <1>5 DEF RunInvariant, Stops
  <2>3. \/ job'.pc = None
        \/ job'.pc = "decided" /\ job'.result = "cancelled" /\ job.pc # None
        \/ job'.pc = job.pc /\ job.pc \in Publishing
        \/ job'.pc = job.pc /\ job.pc \notin {"launched", "decided"}
    <3>1. CASE Interrupts(c) /\ Interrupt
      BY <3>1, InterruptMoves DEF Interrupts, RunInvariant
    <3>2. CASE (c = "deletion" \/ job.pc = None) /\ Wake(c)
      <4>1. job'.pc = job.pc
        BY <3>2 DEF Wake, RunInvariant, Typed, Job
      <4>2. c = "deletion" => job.pc \notin {"launched", "decided"}
        BY <1>1 DEF Stopped, RunInvariant, Stops
      <4> QED
        BY <3>2, <4>1, <4>2
    <3> QED
      BY <1>5, <3>1, <3>2
  <2>4. RunRecord'
    <3>1. task.status # "queued" \/ job'.pc \notin Heading
      BY <2>3 DEF RunRecord, RowFollows, Heading, Publishing
    <3>2. Marked' /\ Unstarted'
      BY <1>1, <1>2, <1>5, <2>1, <2>3 DEF RunRecord, Marked, Unstarted
    <3>3. StopLasts'
      BY <1>1, <1>2, <1>5, <2>1, <2>2, <2>3 DEF RunRecord, StopLasts, Over, Heading, Publishing
    <3>4. RowFollows'
      BY <1>1, <1>5, <2>1, <2>3, <3>1 DEF RunRecord, RowFollows, Heading, Publishing
    <3> QED
      BY <3>2, <3>3, <3>4 DEF RunRecord
  <2>5. Seen!Stops
    BY <1>1, <1>2, <1>5, <2>1, <2>2, <2>3
    DEF Seen!Stops, Seen!Terminal, OutcomeOf, Alive, Due, Busy, Over, Terminal, Publishing
  <2> QED
    BY <2>4, <2>5 DEF OnRecord, Seen!Next
<1> QED
  BY <1>3, <1>4, <1>5 DEF Stopped, Interrupts, Outside, Caller

LEMMA ApproveDraftOnRecord ==
    ASSUME RunInvariant, RunRecord, QueueFits, ApproveDraft PROVE OnRecord
<1>1. /\ task.status = "needs_input" /\ task.ask = "draft" /\ ~task.cancel
      /\ task'.status = "queued" /\ task'.cancel = task.cancel /\ task'.ask = "approved"
      /\ UNCHANGED <<row, files, box, kernel, lock, job, op, calls, workers, spent>>
      /\ Due' \in {Due, TRUE} /\ (Busy \/ Due')
  BY DEF ApproveDraft, Due, Busy, QueueFits, Queue, RunInvariant, Typed, Task
<1>2. job.pc \in {None, "launched"}
  BY <1>1 DEF RunInvariant, JobIsShown
<1>3. RunRecord'
  BY <1>1, <1>2 DEF RunRecord, Marked, Unstarted, StopLasts, RowFollows, Heading, Publishing, Over
<1>4. Seen!Approves
  BY <1>1 DEF Seen!Approves, OutcomeOf, Alive, Busy
<1> QED
  BY <1>3, <1>4 DEF OnRecord, Seen!Next

LEMMA CrashOnRecord ==
    ASSUME RunInvariant, RunRecord, Crash PROVE OnRecord
<1>1. /\ task'.status = (IF task.status = "running" THEN "queued" ELSE task.status)
      /\ task'.cancel = task.cancel /\ task'.ask = task.ask
      /\ ~kernel'.cancelled /\ job'.pc = None /\ op'.pc = None
      /\ UNCHANGED <<row, files, box>>
  BY DEF Crash, NoJob, NoOp, RunInvariant, Typed, Task
<1>2. RunRecord'
  BY <1>1 DEF RunRecord, Marked, Unstarted, StopLasts, RowFollows, Heading, Publishing
<1>3. Due' = (task'.status = "queued")
  <2>1. queue' = [queued |-> Pending, waiting |-> 0, other |-> FALSE]
    BY DEF Crash
  <2>2. queue'.queued = Pending /\ queue'.waiting = 0
    BY <2>1, Zenon
  <2>3. Pending = (task'.status = "queued")
    BY <1>1 DEF Pending
  <2>4. ~(queue'.waiting > 0)
    BY <2>2
  <2>5. Due' = queue'.queued
    <3>1. queue'.queued \in BOOLEAN
      BY <2>2 DEF Pending
    <3> QED
      BY <2>4, <3>1 DEF Due
  <2> QED
    BY <2>2, <2>3, <2>5, Zenon
<1>4. Seen!Crashes
  BY <1>1, <1>3 DEF Seen!Crashes, OutcomeOf, Alive, Busy
<1> QED
  BY <1>2, <1>4 DEF OnRecord, Seen!Next

LEMMA StepOnRecord ==
    ASSUME RunInvariant, RunRecord, QueueFits, [Next]_vars PROVE RunRecord' /\ [Seen!Next]_(Seen!vars)
<1>1. CASE Next
  <2>1. CASE JobStep
    BY <2>1, BeginOnRecord, StartOnRecord, OwnOnRecord, RecoverOnRecord, AwaitStopOnRecord,
       AcceptOnRecord, DecideRaisedOnRecord, DecideQuestionOnRecord, DecideUnknownOnRecord,
       DecideCandidateOnRecord, PublicationOnRecord
    DEF JobStep, OnRecord
  <2>2. CASE OperationStep
    BY <2>2, PlanOnRecord, SaveCheckpointOnRecord, BeginCreateOnRecord, EndCreateOnRecord,
       SettleOnRecord, UnwindOnRecord, CloseOnRecord
    DEF OperationStep, OnRecord
  <2>3. ASSUME NEW c \in Caller, AskStop(c) \/ Stop(c) PROVE OnRecord
    BY <2>3, AskStopOnRecord, FailingStopsOnRecord, StoppedOnRecord DEF Stop
  <2> QED
    BY <1>1, <2>1, <2>2, <2>3, DispatchOnRecord, WatchOnRecord, LateCreateOnRecord, AskProofOnRecord,
       ApproveDraftOnRecord, CrashOnRecord
    DEF Next, OnRecord
<1>2. CASE UNCHANGED vars
  <2>1. UNCHANGED <<task, row, files, box, kernel, queue, job, op>>
    BY <1>2 DEF vars
  <2> QED
    BY <2>1 DEF RunRecord, Marked, Unstarted, StopLasts, RowFollows, Over, Seen!vars, OutcomeOf,
                Alive, Due, Busy
<1> QED
  BY <1>1, <1>2

LEMMA InitOnRecord == Init => RunRecord /\ Seen!Init
BY DEF Init, RunRecord, Marked, Unstarted, StopLasts, RowFollows, Heading, Publishing, Over, Terminal,
       NoJob, NoOp, Seen!Init, OutcomeOf, Alive, Due, Busy

\* A run keeps its promise: whatever jobs, kernel, operation and stops know in files,
\* locks and memory, what the owner sees changes as one record would.
\* Code: _execute, _owned_run, _accept_result, cancel, _confirm_runtime_stopped, the requeue.
THEOREM RunIsKept == Spec => KeepsRun
<1>1. Init => RunRecord /\ Seen!Init
  BY InitOnRecord
<1>2. RunInvariant /\ QueueFits /\ RunRecord /\ [Next]_vars => RunRecord' /\ [Seen!Next]_(Seen!vars)
  BY StepOnRecord
<1> QED
  BY <1>1, <1>2, RunsAreSound, PTL DEF Spec, KeepsRun, Seen!Spec
===============================================================================
