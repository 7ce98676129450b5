------------------------------- MODULE RunPromise -------------------------------
(***************************************************************************)
(* What a run of a task promises to the owner, as if task, run, container  *)
(* and job were one record that everybody reads and writes at once: work   *)
(* begins for a job, for a run that is still open and that nobody ever     *)
(* asked to stop; a job has the task only for a dispatch, and a task is    *)
(* dispatched while it is pending or when its owner approves; a task is    *)
(* settled only when nothing works; a cancelled run stays cancelled; an    *)
(* outcome that is unknown is shown until somebody stops the task or a     *)
(* dispatch from before is acted on; only a candidate that passed is       *)
(* delivered.                                                              *)
(***************************************************************************)

VARIABLES
    shown,     \* status of the task
    stopping,  \* somebody wants it stopped
    draft,     \* whether it waits with a draft: none, draft, approved
    outcome,   \* open, or what became of the run
    passed,    \* its candidate passed
    barred,    \* the runtime was asked to stop, for ever
    alive,     \* a container works, or one may still appear
    due,       \* a dispatch is out
    busy       \* a job has the task

vars == <<shown, stopping, draft, outcome, passed, barred, alive, due, busy>>

Terminal == {"candidate_ready", "completed", "failed", "cancelled"}

Init ==
    /\ shown = "queued" /\ stopping = FALSE /\ draft = "none"
    /\ outcome = "open" /\ passed = FALSE
    /\ barred = FALSE /\ alive = FALSE /\ due = TRUE /\ busy = FALSE
-------------------------------------------------------------------------------
(* A job and its work *)

\* What is pending is dispatched, once at a time; several dispatches may be out.
IsDispatched ==
    /\ ~busy /\ shown \in {"queued", "running"}
    /\ due' = TRUE
    /\ UNCHANGED <<shown, stopping, draft, outcome, passed, barred, alive, busy>>

\* A dispatch of a task that is over or to be stopped comes to nothing.
Forgets ==
    /\ stopping \/ shown \in Terminal
    /\ due' \in {due, FALSE}
    /\ UNCHANGED <<shown, stopping, draft, outcome, passed, barred, alive, busy>>

\* A dispatch is acted on whenever its turn comes, unless the task is over by then.
Claims ==
    /\ due /\ ~busy /\ ~stopping /\ shown \notin Terminal
    /\ busy' = TRUE /\ due' \in {due, FALSE}
    /\ UNCHANGED <<shown, stopping, draft, outcome, passed, barred, alive>>

\* A job shows the task running; unless its candidate passed the run is open again.
Goes ==
    /\ busy /\ shown \notin Terminal /\ outcome # "cancelled"
    /\ shown' = "running"
    /\ outcome' = IF outcome = "candidate_ready" /\ passed THEN outcome ELSE "open"
    /\ UNCHANGED <<stopping, draft, passed, barred, alive, due, busy>>

WorkBegins ==
    /\ busy /\ shown = "running" /\ ~stopping /\ outcome = "open"
    /\ ~barred /\ ~alive
    /\ alive' = TRUE
    /\ UNCHANGED <<shown, stopping, draft, outcome, passed, barred, due, busy>>

WorkEnds ==
    /\ alive' = FALSE
    /\ UNCHANGED <<shown, stopping, draft, outcome, passed, barred, due, busy>>

\* A run is answered once, when its work has ended; only a failure may be known
\* before that.
Answers(answer) ==
    /\ busy /\ outcome = "open"
    /\ alive => answer = "failed"
    /\ outcome' = answer
    /\ UNCHANGED <<shown, stopping, draft, passed, barred, alive, due, busy>>
-------------------------------------------------------------------------------
(* What the job shows at its end *)

Shows(status) == /\ busy /\ ~alive
                 /\ shown' = status /\ busy' = FALSE
                 /\ UNCHANGED <<barred, alive, due>>

Asks(ask) ==
    /\ Shows("needs_input")
    /\ \/ outcome = "asked" /\ ~stopping
       \/ outcome = "unknown" /\ ask = "none"
       \/ outcome = "cancelled" /\ stopping /\ ask = "none"
    /\ draft' = ask
    /\ UNCHANGED <<stopping, outcome, passed>>

Passes ==
    /\ busy /\ ~alive /\ outcome = "candidate_ready"
    /\ passed' = TRUE
    /\ UNCHANGED <<shown, stopping, draft, outcome, barred, alive, due, busy>>

Offers ==
    /\ Shows("candidate_ready") /\ outcome = "candidate_ready"
    /\ stopping' = FALSE /\ draft' = "none" /\ passed' = FALSE
    /\ UNCHANGED outcome

Delivers ==
    /\ Shows("completed") /\ passed
    /\ stopping' = FALSE /\ draft' = "none"
    /\ UNCHANGED <<outcome, passed>>

\* The delivery is put off.
Postpones ==
    /\ Shows("running") /\ passed
    /\ UNCHANGED <<stopping, draft, outcome, passed>>

\* It failed before anything could be asked to stop.
Refuses ==
    /\ Shows("failed") /\ draft' = "none"
    /\ outcome = "open" /\ ~barred /\ ~passed
    /\ UNCHANGED <<stopping, outcome, passed>>
-------------------------------------------------------------------------------
(* Stops *)

Bars ==
    /\ barred' = TRUE
    /\ UNCHANGED <<shown, stopping, draft, outcome, passed, alive, due, busy>>

\* A stop is asked for, or failed and is still wanted.
Cancels ==
    /\ shown' = "cancelling" /\ stopping' = TRUE
    /\ barred' \in {barred, TRUE} /\ busy' \in {busy, FALSE} /\ due' \in {due, FALSE}
    /\ alive => barred'
    /\ UNCHANGED <<draft, outcome, passed, alive>>

\* Nothing works any more, and nothing will: the run is cancelled; the task may
\* be so at once, or fail with the job that asked.
Stops ==
    /\ alive => barred
    /\ alive' = FALSE /\ outcome' = "cancelled"
    /\ busy' \in {busy, FALSE} /\ due' \in {due, FALSE}
    /\ \/ /\ stopping \/ shown \in Terminal
          /\ UNCHANGED <<shown, stopping, draft>>
       \/ /\ shown \notin {"candidate_ready", "completed"} /\ ~busy'
          /\ shown' = "cancelled" /\ stopping' = TRUE /\ draft' = "none"
       \/ /\ busy /\ ~busy'
          /\ shown' = "failed" /\ draft' = "none" /\ UNCHANGED stopping
    /\ UNCHANGED <<passed, barred>>

\* A run that came to nothing is stopped and its owner asked.
Stalls ==
    /\ busy /\ barred /\ ~stopping /\ outcome # "cancelled"
    /\ alive' = FALSE /\ outcome' = "asked"
    /\ shown' = "needs_input" /\ draft' = "none" /\ busy' = FALSE
    /\ UNCHANGED <<stopping, passed, barred, due>>

Approves ==
    /\ shown = "needs_input" /\ draft = "draft" /\ ~stopping
    /\ shown' = "queued" /\ draft' = "approved"
    /\ due' \in {due, TRUE}
    /\ busy \/ due'
    /\ UNCHANGED <<stopping, outcome, passed, barred, alive, busy>>

Crashes ==
    /\ busy' = FALSE
    /\ shown' = IF shown = "running" THEN "queued" ELSE shown
    /\ due' = (shown' = "queued")
    /\ UNCHANGED <<stopping, draft, outcome, passed, barred, alive>>
-------------------------------------------------------------------------------
\* Nothing that the owner can see.
Rests == UNCHANGED vars

Next ==
    \/ Rests
    \/ IsDispatched \/ Forgets \/ Claims \/ Goes \/ WorkBegins \/ WorkEnds
    \/ \E answer \in {"asked", "unknown", "candidate_ready", "failed"} : Answers(answer)
    \/ \E ask \in {"none", "draft"} : Asks(ask)
    \/ Passes \/ Offers \/ Delivers \/ Postpones \/ Refuses
    \/ Bars \/ Cancels \/ Stops \/ Stalls \/ Approves \/ Crashes

Spec == Init /\ [][Next]_vars
===============================================================================
