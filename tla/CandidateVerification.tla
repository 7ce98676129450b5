------------------------ MODULE CandidateVerification ------------------------
(***************************************************************************)
(* Verification attempts over one frozen candidate set: the first attempt, *)
(* which runs inside its workspace run, the re-verifications an owner      *)
(* requests afterwards, the background workers that execute them, and the  *)
(* maintenance and account-pause sweeps that take over what a dead worker  *)
(* left.  Beside them: the P0 switch, cancellation, a new ruleset, account *)
(* holds, formal publication, interrupted tasks and crashes.               *)
(*                                                                         *)
(* A file lock per attempt (the lease) is shared by all of them and is     *)
(* never waited for.  One action is one transaction or one reading.        *)
(***************************************************************************)
EXTENDS Naturals, FiniteSets, Sequences

CONSTANTS
    Attempt,        \* attempts, named by owner and idempotency key
    first,          \* the attempt of the workspace run itself
    Worker,         \* coroutines that execute attempts, of any process
    Sweeper,        \* maintenance loops and account-pause rounds
    UsesProvider,   \* whether the run verifies through a model connection
    Events,         \* bound: what may happen beside the workers
    MaxGeneration,  \* bound: account holds in a behaviour
    MaxRuleset,     \* bound: changes of the verifier ruleset
    MaxStops        \* bound: crashes and interruptions of workers

None == "none"
Generation == 0 .. MaxGeneration
Ruleset == 0 .. MaxRuleset

ASSUME AttemptAssumption == first \in Attempt /\ None \notin Attempt
ASSUME VerificationBoundAssumption ==
    /\ UsesProvider \in BOOLEAN
    /\ MaxGeneration \in Nat /\ MaxRuleset \in Nat /\ MaxStops \in Nat
    /\ Events \subseteq {"hold", "p0", "cancel", "revise", "ruleset", "deliver"}

VARIABLES
    account,    \* execution generation of the owner, and whether it is held
    gate,       \* what the gates read: P0, the task row, candidate_ready, the ruleset
    rows,       \* candidate_verification_attempts
    history,    \* their order of insertion (rowid)
    bindings,   \* account execution bindings of kind candidate
    projection, \* the attempt whose report the runtime row shows
    delivery,   \* formal publication of the candidate set
    offers,     \* owner requests between their inspection and their insert
    workers,    \* attempts in execution
    sweepers,   \* takeovers in progress
    calls,      \* how often an attempt entered the verifier (history)
    stops       \* crashes and interruptions so far

vars == <<account, gate, rows, history, bindings, projection, delivery, offers,
          workers, sweepers, calls, stops>>
-------------------------------------------------------------------------------
Terminal == {"passed", "failed", "inconclusive", "outcome_unknown", "cancelled"}
Verdict == {"passed", "failed", "inconclusive"}
Status == {"absent", "requested", "running"} \union Terminal
Reason == {"initial", "semantic_inconclusive", "ruleset_changed", "provider_outcome_recovery"}
Requested == Attempt \ {first}

Row == [status : Status, previous : Attempt \union {None}, reason : Reason \union {None},
        ruleset : Ruleset, report : {"none", "verdict", "error"}]
Offer == [previous : Attempt \union {None}, reason : Reason \union {None},
          ruleset : Ruleset, generation : Generation]
Pc == {"idle", "leasing", "loading", "starting", "checking", "verifying", "finishing",
       "cancelling", "losing", "doubting", "failing", "closing", "abandoned"}
Call == [pc : Pc, attempt : Attempt, generation : Generation,
         projection : Attempt \union {None}, verdict : Verdict \union {None}]

NoRow == [status |-> "absent", previous |-> None, reason |-> None,
          ruleset |-> 0, report |-> "none"]
NoOffer == [previous |-> None, reason |-> None, ruleset |-> 0, generation |-> 0]
Idle == [pc |-> "idle", attempt |-> first, generation |-> 0,
         projection |-> None, verdict |-> None]
Resting == [pc |-> "idle", attempt |-> first, seen |-> "absent"]

TypeOK ==
    /\ account \in [generation : Generation, held : BOOLEAN]
    /\ gate \in [p0 : BOOLEAN, current : BOOLEAN, cancelled : BOOLEAN, ready : BOOLEAN,
                ruleset : Ruleset]
    /\ rows \in [Attempt -> Row]
    /\ history \in Seq(Attempt)
    /\ bindings \in [Attempt -> [generation : Generation,
                     state : {"none", "active", "idle", "paused", "cleanup_failed"}]]
    /\ projection \in Attempt \union {None}
    /\ delivery \in {"none", "committing", "delivered"}
    /\ offers \in [Requested -> Offer]
    /\ workers \in [Worker -> Call]
    /\ sweepers \in [Sweeper -> [pc : {"idle", "acting"}, attempt : Attempt, seen : Status]]
    /\ calls \in [Attempt -> 0 .. 2]
    /\ stops \in 0 .. MaxStops
    \* a row that exists has its place in the history and its binding
    /\ \A a \in Attempt :
        rows[a].status # "absent"
            <=> (bindings[a].state # "none" /\ \E i \in 1 .. Len(history) : history[i] = a)

\* A run about to verify its candidates for the first time.
Init ==
    /\ account = [generation |-> 0, held |-> FALSE]
    /\ gate = [p0 |-> FALSE, current |-> TRUE, cancelled |-> FALSE, ready |-> FALSE, ruleset |-> 0]
    /\ rows = [a \in Attempt |-> NoRow]
    /\ history = <<>>
    /\ bindings = [a \in Attempt |-> [generation |-> 0, state |-> "none"]]
    /\ projection = None
    /\ delivery = "none"
    /\ offers = [a \in Requested |-> NoOffer]
    /\ workers = [w \in Worker |-> Idle]
    /\ sweepers = [s \in Sweeper |-> Resting]
    /\ calls = [a \in Attempt |-> 0]
    /\ stops = 0
-------------------------------------------------------------------------------
(* Authority, lease and helpers *)

Authorized(gen) == ~account.held /\ gen = account.generation
BindingUsable(a, gen) ==
    Authorized(gen) /\ gen = bindings[a].generation /\ bindings[a].state \in {"active", "idle"}
HasGrant(a) == a # first /\ UsesProvider

At(w, pc) == workers[w].pc = pc
AttemptOf(w) == workers[w].attempt
Goto(w, pc) == workers' = [workers EXCEPT ![w].pc = pc]
Drop(w) == workers' = [workers EXCEPT ![w] = Idle]

HoldsLease(w, a) == AttemptOf(w) = a /\ workers[w].pc \notin {"idle", "leasing", "abandoned"}
\* Defective: the lease is kept by the process, not by the lock file.
DefectLeaseFree(a) == a \in Attempt
LeaseFree(a) == \A w \in Worker : ~HoldsLease(w, a)

Latest == IF history = <<>> THEN None ELSE history[Len(history)]
Active == {a \in Attempt : rows[a].status \in {"requested", "running"}}

\* confirm_execution_stopped with the binding's own generation: a proof of
\* silence is not overwritten by a late failure.
Stoppable(a, gen, failed) ==
    /\ bindings[a].generation = gen
    /\ bindings[a].state = "paused" => ~failed
Stopped(a, failed) ==
    IF bindings[a].state = "paused" THEN bindings
    ELSE [bindings EXCEPT ![a].state = IF failed THEN "cleanup_failed" ELSE "paused"]

\* A terminal status without a verdict, if the row is still running and the
\* stop can be confirmed; otherwise the transaction is rolled back.
CanStop(a, gen, status) ==
    rows[a].status = "running" /\ Stoppable(a, gen, status = "outcome_unknown")
StopRow(a, gen, status) ==
    IF CanStop(a, gen, status)
    THEN /\ rows' = [rows EXCEPT ![a].status = status]
         /\ bindings' = Stopped(a, status = "outcome_unknown")
    ELSE UNCHANGED <<rows, bindings>>

\* A report, of the verifier or of an error: its binding becomes idle.
ReportRow(a, status, report) ==
    /\ rows' = [rows EXCEPT ![a].status = status, ![a].report = report]
    /\ bindings' = [bindings EXCEPT ![a].state = "idle"]
-------------------------------------------------------------------------------
(* The first attempt, inside its workspace run *)

\* _execute up to the lease: the run is admitted under the generation of now,
\* and its task lock admits one run at a time.
Begin(w) ==
    /\ At(w, "idle") /\ \A v \in Worker : ~At(v, "idle") => AttemptOf(v) # first
    /\ ~account.held /\ ~gate.p0 /\ gate.current /\ ~gate.cancelled /\ ~gate.ready
    /\ workers' = [workers EXCEPT ![w] = [Idle EXCEPT !.pc = "leasing",
                                                      !.generation = account.generation]]
    /\ UNCHANGED <<account, gate, rows, history, bindings, projection, delivery, offers,
                   sweepers, calls, stops>>

\* acquire(timeout=0): a busy lease ends the call.
Lease(w) ==
    LET a == AttemptOf(w) IN
    /\ At(w, "leasing")
    /\ IF LeaseFree(a) THEN Goto(w, IF a = first THEN "starting" ELSE "loading") ELSE Drop(w)
    /\ UNCHANGED <<account, gate, rows, history, bindings, projection, delivery, offers,
                   sweepers, calls, stops>>

\* An attempt is inserted with its execution binding.
\* Defective: without it.
DefectNewRow(a, reason, previous, ruleset, status, gen) ==
    /\ rows' = [rows EXCEPT ![a] = [status |-> status, previous |-> previous, reason |-> reason,
                                    ruleset |-> ruleset, report |-> "none"]]
    /\ history' = Append(history, a)
    /\ UNCHANGED bindings
NewRow(a, reason, previous, ruleset, status, gen) ==
    /\ rows' = [rows EXCEPT ![a] = [status |-> status, previous |-> previous, reason |-> reason,
                                    ruleset |-> ruleset, report |-> "none"]]
    /\ history' = Append(history, a)
    /\ bindings' = [bindings EXCEPT ![a] = [generation |-> gen, state |-> "active"]]

\* create_and_start_if_p0_allowed: a running row is executed again, a terminal
\* one is the answer.
CreateAndStart(w) ==
    LET gen == workers[w].generation
        opens == rows[first].status = "absent" /\ Active = {}
                   /\ ~gate.p0 /\ Authorized(gen)
        again == rows[first].status = "running" /\ ~gate.p0 /\ BindingUsable(first, gen) IN
    /\ At(w, "starting") /\ AttemptOf(w) = first
    /\ IF opens THEN NewRow(first, "initial", None, gate.ruleset, "running", gen)
                ELSE UNCHANGED <<rows, history, bindings>>
    /\ IF opens \/ again THEN Goto(w, "checking") ELSE Drop(w)
    /\ UNCHANGED <<account, gate, projection, delivery, offers, sweepers, calls, stops>>

\* The run ends with its candidates, on the report of their verification.
RunReturns ==
    /\ ~gate.ready /\ rows[first].report # "none"
    /\ \A w \in Worker : At(w, "idle") \/ AttemptOf(w) # first
    /\ gate' = [gate EXCEPT !.ready = TRUE]
    /\ UNCHANGED <<account, rows, history, bindings, projection, delivery, offers, workers,
                   sweepers, calls, stops>>
-------------------------------------------------------------------------------
(* Owner requests *)

\* inspect_reverification: why the latest attempt may be verified again.
OfferedReason ==
    LET last == rows[Latest] IN
    CASE last.status = "inconclusive" /\ last.report = "verdict" /\ projection = Latest ->
            "semantic_inconclusive"
      [] last.status \in {"passed", "failed"} /\ last.ruleset # gate.ruleset ->
            "ruleset_changed"
      [] last.status = "outcome_unknown" -> "provider_outcome_recovery"
      [] OTHER -> None

Inspect(a) ==
    /\ rows[a].status = "absent" /\ offers[a] = NoOffer
    /\ ~account.held /\ ~gate.p0 /\ gate.current /\ gate.ready /\ delivery # "delivered"
    /\ Latest # None /\ OfferedReason # None
    /\ offers' = [offers EXCEPT ![a] = [previous |-> Latest, reason |-> OfferedReason,
                     ruleset |-> gate.ruleset, generation |-> account.generation]]
    /\ UNCHANGED <<account, gate, rows, history, bindings, projection, delivery, workers,
                   sweepers, calls, stops>>

\* Only a recovery asks again, in the transaction, for the latest attempt.
Recoverable(o) == rows[o.previous].status = "outcome_unknown" /\ o.previous = Latest

\* create_with_result: insert the attempt the inspection allowed, or fail.
Request(a) ==
    LET o == offers[a]
        accepted == Authorized(o.generation) /\ Active = {}
                      /\ rows[o.previous].status \in Terminal
                      /\ (o.reason = "provider_outcome_recovery" => Recoverable(o)) IN
    /\ o # NoOffer
    /\ IF accepted THEN NewRow(a, o.reason, o.previous, o.ruleset, "requested", o.generation)
                   ELSE UNCHANGED <<rows, history, bindings>>
    /\ offers' = [offers EXCEPT ![a] = NoOffer]
    /\ UNCHANGED <<account, gate, projection, delivery, workers, sweepers, calls, stops>>
-------------------------------------------------------------------------------
(* A background worker up to the claim *)

\* The request itself or the maintenance round starts a task for a requested row,
\* under the generation of its binding.
Schedule(w, a) ==
    /\ At(w, "idle") /\ rows[a].status = "requested"
    /\ workers' = [workers EXCEPT ![w] = [Idle EXCEPT !.pc = "leasing", !.attempt = a,
                                              !.generation = bindings[a].generation]]
    /\ UNCHANGED <<account, gate, rows, history, bindings, projection, delivery, offers,
                   sweepers, calls, stops>>

\* The account is checked, then the frozen context and the ruleset.
Load(w) ==
    LET a == AttemptOf(w) IN
    /\ At(w, "loading")
    /\ IF /\ BindingUsable(a, workers[w].generation)
          /\ gate.ready /\ gate.current /\ rows[a].ruleset = gate.ruleset
       THEN workers' = [workers EXCEPT ![w].pc = "starting", ![w].projection = projection]
       ELSE Goto(w, "closing")
    /\ UNCHANGED <<account, gate, rows, history, bindings, projection, delivery, offers,
                   sweepers, calls, stops>>

Current == ~gate.p0 /\ gate.current /\ ~gate.cancelled /\ gate.ready /\ delivery # "delivered"
StillInherits(a) ==
    rows[a].reason = "provider_outcome_recovery" =>
        rows[rows[a].previous].status = "outcome_unknown" /\ Latest = a

\* Defective: the claim does not look whether the row is still requested.
DefectClaimable(a) == rows[a].status # "absent"
Claimable(a) == rows[a].status = "requested"

\* start_requested_if_current: claim the row, or close it in the same
\* transaction, or leave it to whoever has it.
StartRequested(w) ==
    LET a == AttemptOf(w)
        claims == Current /\ StillInherits(a) /\ projection = workers[w].projection IN
    /\ At(w, "starting") /\ a # first
    /\ \/ /\ ~BindingUsable(a, workers[w].generation)
          /\ Goto(w, "closing") /\ UNCHANGED <<rows, bindings>>
       \/ /\ BindingUsable(a, workers[w].generation) /\ ~Claimable(a)
          /\ Drop(w) /\ UNCHANGED <<rows, bindings>>
       \/ /\ BindingUsable(a, workers[w].generation) /\ Claimable(a) /\ claims
          /\ rows' = [rows EXCEPT ![a].status = "running"]
          /\ Goto(w, "checking") /\ UNCHANGED bindings
       \/ /\ BindingUsable(a, workers[w].generation) /\ Claimable(a) /\ ~claims
          /\ rows' = [rows EXCEPT ![a].status = "cancelled"]
          /\ bindings' = Stopped(a, FALSE)
          /\ Drop(w)
    /\ UNCHANGED <<account, gate, history, projection, delivery, offers, sweepers, calls, stops>>
-------------------------------------------------------------------------------
(* Executing a running attempt *)

Bump(n) == IF n < 2 THEN n + 1 ELSE n

\* How an execution ends that P0, an interruption or an error stopped: with a
\* provider its outcome is unknown.
Abort(a) == IF HasGrant(a) THEN "losing" ELSE "cancelling"
Doubt(a) == IF HasGrant(a) THEN "losing" ELSE "doubting"

\* _complete_running up to the verifier: the account, then P0 for a requested one.
VerifyStart(w) ==
    LET a == AttemptOf(w)
        denied == ~BindingUsable(a, workers[w].generation)
        blocked == a # first /\ gate.p0 IN
    /\ At(w, "checking")
    /\ IF denied \/ blocked
       THEN Goto(w, IF denied THEN "cancelling" ELSE Abort(a)) /\ UNCHANGED calls
       ELSE Goto(w, "verifying") /\ calls' = [calls EXCEPT ![a] = Bump(@)]
    /\ UNCHANGED <<account, gate, rows, history, bindings, projection, delivery, offers,
                   sweepers, stops>>

\* The verifier is done.  P0 wins over its result, then the account does.
VerifyEnd(w) ==
    LET a == AttemptOf(w) IN
    /\ At(w, "verifying")
    /\ \/ a # first /\ gate.p0 /\ Goto(w, Abort(a))
       \/ /\ ~(a # first /\ gate.p0)
          /\ \/ UsesProvider /\ Goto(w, "losing")   \* ProviderOutcomeUnknownError
             \/ Goto(w, "failing")                  \* any other exception
             \/ /\ ~BindingUsable(a, workers[w].generation)
                /\ Goto(w, "cancelling")
             \/ /\ BindingUsable(a, workers[w].generation)
                /\ \E v \in Verdict : workers' = [workers EXCEPT ![w].pc = "finishing",
                                                                 ![w].verdict = v]
    /\ UNCHANGED <<account, gate, rows, history, bindings, projection, delivery, offers,
                   sweepers, calls, stops>>

\* finish_with_runtime_projection: verdict, binding and projection in one
\* transaction, for a requested attempt only while it is current.
\* Defective: the gates of a requested attempt are not asked again.
DefectMayReport(a) == rows[a].status = "running"
MayReport(a) == rows[a].status = "running" /\ (a # first => Current)

Finish(w) ==
    LET a == AttemptOf(w)
        usable == BindingUsable(a, workers[w].generation) IN
    /\ At(w, "finishing")
    /\ IF usable /\ MayReport(a)
       THEN /\ ReportRow(a, workers[w].verdict, "verdict")
            /\ projection' = a
            /\ Drop(w)
       ELSE /\ Goto(w, IF usable THEN Doubt(a) ELSE "cancelling")
            /\ UNCHANGED <<rows, bindings, projection>>
    /\ UNCHANGED <<account, gate, history, delivery, offers, sweepers, calls, stops>>

\* _finish_cancelled and _finish_outcome_unknown.
FinishStopped(w) ==
    /\ At(w, "cancelling") \/ At(w, "losing")
    /\ StopRow(AttemptOf(w), workers[w].generation,
               IF At(w, "losing") THEN "outcome_unknown" ELSE "cancelled")
    /\ Drop(w)
    /\ UNCHANGED <<account, gate, history, projection, delivery, offers, sweepers, calls, stops>>

\* _finish_inconclusive after an exception of the verifier ("failing", which
\* also shows the error report) or of the commit ("doubting").  It needs the
\* binding: denied, it leaves the row running.
FinishInconclusive(w) ==
    LET a == AttemptOf(w) IN
    /\ At(w, "failing") \/ At(w, "doubting")
    /\ IF BindingUsable(a, workers[w].generation) /\ rows[a].status = "running"
       THEN /\ ReportRow(a, "inconclusive", "error")
            /\ projection' = IF At(w, "failing") THEN a ELSE projection
       ELSE UNCHANGED <<rows, bindings, projection>>
    /\ Drop(w)
    /\ UNCHANGED <<account, gate, history, delivery, offers, sweepers, calls, stops>>

\* close_unstarted_reverification, with the lease after a failed preparation,
\* without it after the task was cancelled.
Close(w) ==
    LET a == AttemptOf(w) IN
    /\ At(w, "closing") \/ At(w, "abandoned")
    /\ IF rows[a].status = "requested" /\ Stoppable(a, workers[w].generation, FALSE)
       THEN /\ rows' = [rows EXCEPT ![a].status = "cancelled"]
            /\ bindings' = Stopped(a, FALSE)
       ELSE UNCHANGED <<rows, bindings>>
    /\ Drop(w)
    /\ UNCHANGED <<account, gate, history, projection, delivery, offers, sweepers, calls, stops>>

\* The task of a coroutine is cancelled: before its lease, in its preparation
\* (an await of the ruleset) or in the verifier.
Interrupt(w) ==
    LET a == AttemptOf(w) IN
    /\ stops < MaxStops
    /\ \/ a # first /\ At(w, "leasing") /\ Goto(w, "abandoned")
       \/ a # first /\ At(w, "loading") /\ Goto(w, "closing")
       \/ At(w, "verifying") /\ Goto(w, Abort(a))
    /\ stops' = stops + 1
    /\ UNCHANGED <<account, gate, rows, history, bindings, projection, delivery, offers,
                   sweepers, calls>>

\* The process of a coroutine dies: the lock file is free, the row stays.
Crash(w) ==
    /\ stops < MaxStops /\ ~At(w, "idle")
    /\ Drop(w)
    /\ stops' = stops + 1
    /\ UNCHANGED <<account, gate, rows, history, bindings, projection, delivery, offers,
                   sweepers, calls>>
-------------------------------------------------------------------------------
(* Taking over what a dead worker left *)

\* Defective: maintenance lists only what may have been charged for.
DefectOrphans == {a \in Attempt : rows[a].status = "running" /\ HasGrant(a)}
Orphans == {a \in Attempt : rows[a].status = "running"}

OldBinding(a) ==
    bindings[a].generation < account.generation
        /\ bindings[a].state \in {"active", "cleanup_failed"}

\* Maintenance lists the running rows, a hold round the bindings it must stop;
\* both keep the status they saw.
See(s, a) ==
    /\ sweepers[s].pc = "idle"
    /\ sweepers' = [sweepers EXCEPT ![s] = [pc |-> "acting", attempt |-> a,
                                            seen |-> rows[a].status]]
    /\ UNCHANGED <<account, gate, rows, history, bindings, projection, delivery, offers,
                   workers, calls, stops>>
Scan(s) == \E a \in Orphans : See(s, a)
ScanHeld(s) == \E a \in Attempt : OldBinding(a) /\ See(s, a)

\* recover_interrupted_reverification: with a provider the outcome is unknown,
\* without one it is an error report, which needs the binding.
Recover(a) ==
    LET gen == bindings[a].generation IN
    IF HasGrant(a) THEN StopRow(a, gen, "outcome_unknown")
    ELSE IF BindingUsable(a, gen) /\ rows[a].status = "running"
         THEN ReportRow(a, "inconclusive", "error")
         ELSE UNCHANGED <<rows, bindings>>

\* Under the lease, act on the status seen before it was taken.
Takeover(s) ==
    LET a == sweepers[s].attempt
        seen == sweepers[s].seen IN
    /\ sweepers[s].pc = "acting"
    /\ sweepers' = [sweepers EXCEPT ![s] = Resting]
    /\ \/ ~LeaseFree(a) /\ UNCHANGED <<rows, bindings>>
       \/ LeaseFree(a) /\ seen = "running" /\ Recover(a)
       \/ /\ LeaseFree(a) /\ seen = "requested"
          /\ IF rows[a].status = "requested"
             THEN /\ rows' = [rows EXCEPT ![a].status = "cancelled"]
                  /\ bindings' = Stopped(a, FALSE)
             ELSE UNCHANGED <<rows, bindings>>
       \/ /\ LeaseFree(a) /\ seen \in Terminal
          /\ bindings' = Stopped(a, seen = "outcome_unknown")
          /\ UNCHANGED rows
    /\ UNCHANGED <<account, gate, history, projection, delivery, offers, workers, calls, stops>>
-------------------------------------------------------------------------------
(* Around the attempts *)

\* update_account_status: idle bindings of older generations are parked at once.
Hold ==
    /\ "hold" \in Events /\ ~account.held /\ account.generation < MaxGeneration
    /\ account' = [generation |-> account.generation + 1, held |-> TRUE]
    /\ bindings' = [a \in Attempt |-> IF bindings[a].state = "idle"
                        THEN [bindings[a] EXCEPT !.state = "paused"] ELSE bindings[a]]
    /\ UNCHANGED <<gate, rows, history, projection, delivery, offers, workers, sweepers,
                   calls, stops>>

Enable ==
    /\ account.held
    /\ account' = [account EXCEPT !.held = FALSE]
    /\ UNCHANGED <<gate, rows, history, bindings, projection, delivery, offers, workers,
                   sweepers, calls, stops>>

GateChanges ==
    /\ \/ "p0" \in Events /\ gate' = [gate EXCEPT !.p0 = ~@]
       \/ "cancel" \in Events /\ gate' = [gate EXCEPT !.cancelled = TRUE]
       \/ "revise" \in Events /\ gate' = [gate EXCEPT !.current = FALSE]
       \/ /\ "ruleset" \in Events /\ gate.ruleset < MaxRuleset
          /\ gate' = [gate EXCEPT !.ruleset = @ + 1]
    /\ UNCHANGED <<account, rows, history, bindings, projection, delivery, offers, workers,
                   sweepers, calls, stops>>

\* prepare_publication and begin_commit of an explicit publication: its attempt is
\* the latest, passed, under the ruleset of now.  The queue worker publishes what its
\* run's own verification passed, whatever was requested since; its commit point asks
\* neither for the latest attempt nor for the revision.
Explicit ==
    /\ gate.current
    /\ Latest # None /\ rows[Latest].status = "passed" /\ rows[Latest].ruleset = gate.ruleset
Automatic == rows[first].status = "passed"
BeginCommit ==
    /\ "deliver" \in Events /\ delivery = "none" /\ ~account.held
    /\ ~gate.cancelled /\ ~gate.p0 /\ gate.ready
    /\ Explicit \/ Automatic
    /\ delivery' = "committing"
    /\ UNCHANGED <<account, gate, rows, history, bindings, projection, offers, workers,
                   sweepers, calls, stops>>

\* The formal delivery row.
Deliver ==
    /\ delivery = "committing" /\ ~account.held
    /\ delivery' = "delivered"
    /\ UNCHANGED <<account, gate, rows, history, bindings, projection, offers, workers,
                   sweepers, calls, stops>>
-------------------------------------------------------------------------------
Execute(w) ==
    \/ Lease(w) \/ CreateAndStart(w) \/ Load(w) \/ StartRequested(w) \/ VerifyStart(w)
    \/ VerifyEnd(w) \/ Finish(w) \/ FinishStopped(w) \/ FinishInconclusive(w) \/ Close(w)

Next ==
    \/ \E w \in Worker :
        \/ Begin(w) \/ Execute(w) \/ Interrupt(w) \/ Crash(w)
        \/ \E a \in Requested : Schedule(w, a)
    \/ \E a \in Requested : Inspect(a) \/ Request(a)
    \/ \E s \in Sweeper : Scan(s) \/ ScanHeld(s) \/ Takeover(s)
    \/ RunReturns \/ Hold \/ Enable \/ GateChanges \/ BeginCommit \/ Deliver

Spec == Init /\ [][Next]_vars

\* A coroutine that was started runs on (the verifier is bounded by time-outs);
\* maintenance goes round for ever, beside the rounds of holds, schedules every
\* requested row and takes over every running one.  Owners, administrators and switches owe nothing.
Fairness ==
    /\ \A w \in Worker : WF_vars(Execute(w))
    /\ \A a \in Requested : WF_vars(\E w \in Worker : Schedule(w, a))
    /\ \A s \in Sweeper : SF_vars(Scan(s)) /\ WF_vars(Takeover(s))
FairSpec == Spec /\ Fairness
-------------------------------------------------------------------------------
(* Properties *)

InVerifier(a) == {w \in Worker : AttemptOf(w) = a /\ At(w, "verifying")}

\* An attempt that is shown as finished, or whose binding is the proof of
\* silence a completed hold rests on, has nobody in the verifier; and nobody
\* ever verifies an attempt beside another, whoever recovered, closed or
\* restarted it in between.
StoppedIsQuiet ==
    \A a \in Attempt :
        /\ Cardinality(InVerifier(a)) <= 1
        /\ rows[a].status # "running" \/ bindings[a].state = "paused" => InVerifier(a) = {}

\* The provider costs an owner accepts: a requested attempt enters the verifier
\* at most once, and of the attempts that repeat one whose outcome is unknown at
\* most one enters it.
RepeatsOf(a) == {b \in Requested : rows[b].previous = a /\ calls[b] > 0}
CostIsAccepted ==
    /\ \A a \in Requested : calls[a] <= 1
    /\ \A a \in Attempt :
        rows[a].status = "outcome_unknown" => Cardinality(RepeatsOf(a)) <= 1

\* After the formal delivery no verdict of a re-verification replaces the one the
\* candidate set was delivered with, whatever was in the verifier then.
NoVerdictAfterDelivery ==
    [][delivery = "delivered" /\ projection' # projection
           => rows'[projection'].report = "error"]_vars

\* The same without exception, as inspect_reverification says of a delivered
\* candidate set: nothing of a re-verification covers its delivered meaning.
DeliveredVerdictStands ==
    [][delivery = "delivered" => projection' = projection]_vars

\* The one active place of the candidate set is not occupied for ever: its
\* attempt ends, or the account it was bound to is of an older generation.
\* (A switch that is thrown for ever can keep its workspace run restarting.)
Occupied == \E a \in Active : account.generation <= bindings[a].generation
AttemptSettles == <>[][gate' = gate]_vars => (Occupied ~> ~Occupied)

\* Leases, claims, rows seen long ago and workers that die: yet every step has the
\* effect of one on a single record of attempts, or none.
\* Code: create_with_result, start_requested_if_current, finish_with_runtime_projection,
\* recover_interrupted_reverification, confirm_execution_stopped.
Outcome(a) ==
    IF rows[a].status \in {"requested", "running"} THEN "open"
    ELSE IF rows[a].report = "error" THEN "error" ELSE rows[a].status
Generations == [a \in Attempt |-> bindings[a].generation]
Basis == [a \in Attempt |-> rows[a].previous]
Outcomes == [a \in Attempt |-> Outcome(a)]
Inside == [w \in Worker |-> IF At(w, "verifying") \/ At(w, "finishing") THEN AttemptOf(w) ELSE None]
Paid == {a \in Attempt : calls[a] > 0}
Silent == {a \in Attempt : bindings[a].state = "paused"}
Record == INSTANCE VerificationPromise
          WITH order <- history, bound <- Generations, basis <- Basis, outcome <- Outcomes,
               inside <- Inside, paid <- Paid, silent <- Silent, shown <- projection,
               published <- delivery
KeepsVerification == Record!Spec
===============================================================================
