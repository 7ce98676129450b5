---------------------- MODULE VerificationRecord_proofs ----------------------
(***************************************************************************)
(* CandidateVerification implements VerificationPromise, for every set of  *)
(* attempts, workers and sweepers and every bound: what a change of one    *)
(* row is on the record, then every action.                                *)
(***************************************************************************)
EXTENDS CandidateVerification_proofs

(* What the record needs to know besides the invariant of verification *)

OneLive == \A a, b \in Attempt : rows[a].status \in Live /\ rows[b].status \in Live => a = b
FirstOpens == history # <<>> => history[1] = first

\* A binding tells how its row ended: idle after a report, paused after a report
\* or a cancellation, and never paused while the outcome is unknown.
BindingTells(row, state) ==
    /\ row.status \in Verdict <=> row.report # "none"
    /\ row.report = "error" => row.status = "inconclusive"
    /\ row.report # "none" => state \in {"idle", "paused"}
    /\ state = "idle" => row.report # "none"
    /\ state = "paused" => row.report # "none" \/ row.status = "cancelled"
    /\ row.status = "cancelled" => state = "paused"
    /\ row.status = "outcome_unknown" => state = "cleanup_failed"
BindingsTell == \A a \in Attempt : BindingTells(rows[a], bindings[a].state)

SeenIsTrue ==
    \A s \in Sweeper : sweepers[s].pc = "acting" /\ sweepers[s].seen \in Terminal
        => rows[sweepers[s].attempt].status = sweepers[s].seen
RecordInvariant == OneLive /\ FirstOpens /\ BindingsTell /\ SeenIsTrue

Within == {"verifying", "finishing"}

\* Every step of the system is one of the record, and keeps what the record needs.
OnRecord == RecordInvariant' /\ Record!Next

\* What a sweeper saw is given up or kept.
SweepersRest == \A s \in Sweeper : sweepers'[s] = sweepers[s] \/ sweepers'[s].pc = "idle"

LEMMA InsideOne ==
    ASSUME VerificationInvariant, NEW w \in Worker, NEW c \in Call,
           workers' = [workers EXCEPT ![w] = c]
    PROVE  /\ Inside' = [Inside EXCEPT ![w] = IF c.pc \in Within THEN c.attempt ELSE None]
           /\ workers[w].pc \notin Within => Inside[w] = None
           /\ Inside \in [Worker -> Attempt \union {None}]
<1>1. workers'[w] = c /\ \A v \in Worker \ {w} : workers'[v] = workers[v]
  BY DEF VerificationInvariant, TypeOK
<1>2. Inside \in [Worker -> Attempt \union {None}]
  BY DEF VerificationInvariant, TypeOK, Inside, Call, AttemptOf
<1> DEFINE out == [Inside EXCEPT ![w] = IF c.pc \in Within THEN c.attempt ELSE None]
<1>3. Inside' = [v \in Worker |-> IF workers'[v].pc \in Within THEN workers'[v].attempt ELSE None]
  BY DEF Inside, At, AttemptOf, Within
<1>4. \A v \in Worker : Inside[v] = IF workers[v].pc \in Within THEN workers[v].attempt ELSE None
  BY DEF Inside, At, AttemptOf, Within
<1>5. ASSUME NEW v \in Worker PROVE Inside'[v] = out[v]
  BY <1>1, <1>2, <1>3, <1>4
<1>6. Inside' = out
  BY <1>2, <1>3, <1>5
<1> QED
  BY <1>2, <1>4, <1>6

LEMMA GivesUp ==
    ASSUME VerificationInvariant, NEW w \in Worker,
           Drop(w) \/ \E pc \in Pc \ Within : Goto(w, pc)
    PROVE  \E c \in Call : workers' = [workers EXCEPT ![w] = c] /\ c.pc \notin Within
<1>1. CASE Drop(w)
  <2>1. Idle \in Call /\ Idle.pc \notin Within
    BY AttemptAssumption, VerificationBoundAssumption DEF Idle, Call, Pc, Generation, Within
  <2> QED
    BY <1>1, <2>1 DEF Drop
<1>2. ASSUME NEW pc \in Pc \ Within, Goto(w, pc)
      PROVE  \E c \in Call : workers' = [workers EXCEPT ![w] = c] /\ c.pc \notin Within
  <2> DEFINE c == [workers[w] EXCEPT !.pc = pc]
  <2>1. workers \in [Worker -> Call]
    BY DEF VerificationInvariant, TypeOK
  <2>2. c \in Call /\ c.pc = pc /\ workers' = [workers EXCEPT ![w] = c]
    BY <1>2, <2>1 DEF Call, Goto
  <2> QED
    BY <2>2
<1> QED
  BY <1>1, <1>2

\* A worker who was not inside and is not inside changes nothing there.
LEMMA InsideStays ==
    ASSUME VerificationInvariant, NEW w \in Worker, workers[w].pc \notin Within,
           Drop(w) \/ \E pc \in Pc \ Within : Goto(w, pc)
    PROVE  Inside' = Inside
<1>1. PICK c \in Call : workers' = [workers EXCEPT ![w] = c] /\ c.pc \notin Within
  BY GivesUp
<1>2. /\ Inside' = [Inside EXCEPT ![w] = None] /\ Inside[w] = None
      /\ Inside \in [Worker -> Attempt \union {None}]
  BY <1>1, InsideOne
<1> QED
  BY <1>2

LEMMA InsideLeaves ==
    ASSUME VerificationInvariant, NEW w \in Worker, workers[w].pc \in Within,
           Drop(w) \/ \E pc \in Pc \ Within : Goto(w, pc)
    PROVE  /\ Inside[w] = AttemptOf(w) /\ AttemptOf(w) \in Attempt /\ AttemptOf(w) # None
           /\ Inside' = [Inside EXCEPT ![w] = None]
<1>1. PICK c \in Call : workers' = [workers EXCEPT ![w] = c] /\ c.pc \notin Within
  BY GivesUp
<1>2. AttemptOf(w) \in Attempt /\ AttemptOf(w) # None
  BY CallOf, AttemptAssumption
<1> QED
  BY <1>1, <1>2, InsideOne DEF Inside, At, Within

LEMMA InsideHolds ==
    ASSUME VerificationInvariant, NEW v \in Worker, Inside[v] # None
    PROVE  /\ workers[v].pc \in Within /\ workers[v].pc \in Executing
           /\ Inside[v] = AttemptOf(v) /\ AttemptOf(v) \in Attempt
           /\ HoldsLease(v, AttemptOf(v)) /\ rows[AttemptOf(v)].status = "running"
<1>1. workers[v].pc \in Within /\ Inside[v] = AttemptOf(v)
  BY DEF Inside, At, Within
<1> QED
  BY <1>1, HoldersExecute DEF Within, Executing

LEMMA NobodyInside ==
    ASSUME VerificationInvariant, NEW a \in Attempt,
           \/ LeaseFree(a) \/ rows[a].status # "running"
           \/ \E w \in Worker : HoldsLease(w, a) /\ workers[w].pc \notin Within
    PROVE  Record!Outside(a)
<1> SUFFICES ASSUME NEW v \in Worker, Inside[v] = a PROVE FALSE
  BY DEF Record!Outside
<1>1. Inside[v] # None
  BY AttemptAssumption
<1>2. HoldsLease(v, a) /\ rows[a].status = "running" /\ workers[v].pc \in Within
  BY <1>1, InsideHolds
<1> QED
  BY <1>2 DEF LeaseFree, VerificationInvariant, Exclusion

\* One row is live, one worker holds its lease: a worker that is about to enter
\* finds nobody inside, for whatever attempt.
LEMMA NobodyElse ==
    ASSUME VerificationInvariant, OneLive, NEW w \in Worker, workers[w].pc \in Executing \ Within
    PROVE  \A v \in Worker : Inside[v] = None
<1> SUFFICES ASSUME NEW v \in Worker, Inside[v] # None PROVE FALSE
  OBVIOUS
<1>1. /\ workers[v].pc \in Within /\ AttemptOf(v) \in Attempt
      /\ HoldsLease(v, AttemptOf(v)) /\ rows[AttemptOf(v)].status = "running"
  BY InsideHolds
<1>2. /\ AttemptOf(w) \in Attempt /\ HoldsLease(w, AttemptOf(w))
      /\ rows[AttemptOf(w)].status = "running"
  BY HoldersExecute
<1>3. AttemptOf(v) = AttemptOf(w)
  BY <1>1, <1>2 DEF OneLive, Live
<1> QED
  BY <1>1, <1>2, <1>3 DEF VerificationInvariant, Exclusion
-------------------------------------------------------------------------------
(* What a change of one row is on the record *)

RowBecomes(a, status, report, state) ==
    /\ \A b \in Attempt \ {a} : rows'[b] = rows[b] /\ bindings'[b] = bindings[b]
    /\ rows'[a].status = status /\ rows'[a].report = report
    /\ rows'[a].previous = rows[a].previous
    /\ bindings'[a].state = state /\ bindings'[a].generation = bindings[a].generation
    /\ UNCHANGED history

OutcomeOf(status, report) ==
    IF status \in Live THEN "open" ELSE IF report = "error" THEN "error" ELSE status

LEMMA OutcomesAre ==
    ASSUME NEW a \in Attempt
    PROVE  Outcomes[a] = OutcomeOf(rows[a].status, rows[a].report)
BY DEF Outcomes, Outcome, OutcomeOf, Live

LEMMA BecomesOnRecord ==
    ASSUME VerificationInvariant, NEW a \in Attempt, NEW status, NEW report, NEW state,
           RowBecomes(a, status, report, state)
    PROVE  /\ UNCHANGED <<history, Generations, Basis>>
           /\ Outcomes' = [Outcomes EXCEPT ![a] = OutcomeOf(status, report)]
           /\ Silent' = IF state = "paused" THEN Silent \union {a} ELSE Silent \ {a}
<1>1. UNCHANGED Generations
  BY DEF Generations, RowBecomes
<1>2. UNCHANGED Basis
  BY DEF Basis, RowBecomes
<1>3. Outcomes' = [Outcomes EXCEPT ![a] = OutcomeOf(status, report)]
  <2>1. ASSUME NEW b \in Attempt
        PROVE  Outcome(b)' = IF b = a THEN OutcomeOf(status, report) ELSE Outcome(b)
    BY DEF RowBecomes, Outcome, OutcomeOf, Live
  <2>2. Outcomes' = [b \in Attempt |-> IF b = a THEN OutcomeOf(status, report) ELSE Outcome(b)]
    BY <2>1 DEF Outcomes
  <2> QED
    BY <2>2 DEF Outcomes
<1>4. Silent' = IF state = "paused" THEN Silent \union {a} ELSE Silent \ {a}
  BY DEF Silent, RowBecomes
<1> QED
  BY <1>1, <1>2, <1>3, <1>4 DEF RowBecomes

\* The invariant of the record, when one row ends or one binding of an ended row
\* changes.
LEMMA BecomesKeeps ==
    ASSUME VerificationInvariant, RecordInvariant, NEW a \in Attempt,
           NEW status, NEW report, NEW state, RowBecomes(a, status, report, state),
           BindingTells([status |-> status, report |-> report], state),
           status \in Live => rows[a].status \in Live,
           rows[a].status \in Terminal => status = rows[a].status,
           SweepersRest
    PROVE  RecordInvariant'
<1>1. OneLive'
  <2>1. \A b \in Attempt : rows'[b].status \in Live => rows[b].status \in Live
    BY DEF RowBecomes
  <2> QED
    BY <2>1 DEF OneLive, RecordInvariant
<1>2. FirstOpens'
  BY DEF FirstOpens, RecordInvariant, RowBecomes
<1>3. BindingsTell'
  <2>1. BindingTells(rows'[a], bindings'[a].state)
    BY DEF BindingTells, RowBecomes
  <2> QED
    BY <2>1 DEF BindingsTell, RecordInvariant, RowBecomes
<1>4. SeenIsTrue'
  <2>1. \A b \in Attempt : rows[b].status \in Terminal => rows'[b].status = rows[b].status
    BY DEF RowBecomes
  <2>2. \A s \in Sweeper : sweepers[s].attempt \in Attempt
    BY DEF VerificationInvariant, TypeOK
  <2>3. ASSUME NEW s \in Sweeper, sweepers'[s].pc = "acting", sweepers'[s].seen \in Terminal
        PROVE  rows'[sweepers'[s].attempt].status = sweepers'[s].seen
    <3>1. sweepers'[s] = sweepers[s]
      BY <2>3 DEF SweepersRest
    <3> QED
      BY <2>1, <2>2, <2>3, <3>1 DEF RecordInvariant, SeenIsTrue
  <2> QED
    BY <2>3 DEF SeenIsTrue
<1> QED
  BY <1>1, <1>2, <1>3, <1>4 DEF RecordInvariant

LEMMA QuietRecord ==
    ASSUME VerificationInvariant, RecordInvariant, SweepersRest,
           UNCHANGED <<account, rows, history, bindings, projection, delivery, calls, Inside>>
    PROVE  OnRecord
<1>1. SeenIsTrue'
  BY DEF SweepersRest, RecordInvariant, SeenIsTrue
<1>2. RecordInvariant'
  BY <1>1 DEF RecordInvariant, OneLive, FirstOpens, BindingsTell
<1>3. UNCHANGED <<Generations, Basis, Outcomes, Paid, Silent>>
  BY DEF Generations, Basis, Outcomes, Outcome, Paid, Silent
<1>4. Record!Rests
  BY <1>3 DEF Record!Rests, Record!vars
<1> QED
  BY <1>2, <1>4 DEF OnRecord, Record!Next

\* The answerless ends of a live row, under one name each.
LEMMA CancelOnRecord ==
    ASSUME VerificationInvariant, RecordInvariant, SweepersRest,
           NEW a \in Attempt, rows[a].status \in Live, Record!Outside(a),
           RowBecomes(a, "cancelled", "none", "paused"),
           UNCHANGED <<account, projection, delivery, calls, Inside>>
    PROVE  OnRecord
<1>1. RecordInvariant'
  BY BecomesKeeps DEF BindingTells, Live, Terminal, Verdict
<1>2. /\ UNCHANGED <<history, Generations, Basis, Paid>>
      /\ Outcomes' = [Outcomes EXCEPT ![a] = "cancelled"] /\ Silent' = Silent \union {a}
  BY BecomesOnRecord DEF OutcomeOf, Live, Paid
<1>3. Outcomes[a] = "open"
  BY OutcomesAre DEF OutcomeOf
<1>4. Record!Cancels(a)
  BY <1>2, <1>3 DEF Record!Cancels
<1> QED
  BY <1>1, <1>4 DEF OnRecord, Record!Next

LEMMA LossOnRecord ==
    ASSUME VerificationInvariant, RecordInvariant, SweepersRest,
           NEW a \in Attempt, rows[a].status \in Live, Record!Outside(a),
           RowBecomes(a, "outcome_unknown", "none", "cleanup_failed"),
           UNCHANGED <<account, projection, delivery, calls, Inside>>
    PROVE  OnRecord
<1>1. RecordInvariant'
  BY BecomesKeeps DEF BindingTells, Live, Terminal, Verdict
<1>2. a \notin Silent
  BY DEF Silent, VerificationInvariant, LiveIsActive
<1>3. /\ UNCHANGED <<history, Generations, Basis, Paid, Silent>>
      /\ Outcomes' = [Outcomes EXCEPT ![a] = "outcome_unknown"]
  BY <1>2, BecomesOnRecord DEF OutcomeOf, Live, Paid
<1>4. Outcomes[a] = "open"
  BY OutcomesAre DEF OutcomeOf
<1>5. Record!Loses(a)
  BY <1>3, <1>4 DEF Record!Loses
<1> QED
  BY <1>1, <1>5 DEF OnRecord, Record!Next

LEMMA FailureOnRecord ==
    ASSUME VerificationInvariant, RecordInvariant, SweepersRest,
           NEW a \in Attempt, rows[a].status \in Live, Record!Outside(a),
           ~account.held, bindings[a].generation = account.generation,
           RowBecomes(a, "inconclusive", "error", "idle"), projection' \in {projection, a},
           UNCHANGED <<account, delivery, calls, Inside>>
    PROVE  OnRecord
<1>1. RecordInvariant'
  BY BecomesKeeps DEF BindingTells, Live, Terminal, Verdict
<1>2. a \notin Silent
  BY DEF Silent, VerificationInvariant, LiveIsActive
<1>3. /\ UNCHANGED <<history, Generations, Basis, Paid, Silent>>
      /\ Outcomes' = [Outcomes EXCEPT ![a] = "error"]
  BY <1>2, BecomesOnRecord DEF OutcomeOf, Live, Paid
<1>4. Outcomes[a] = "open" /\ Record!Authorized(a)
  BY OutcomesAre DEF OutcomeOf, Record!Authorized, Generations
<1>5. Record!Fails(a)
  BY <1>3, <1>4 DEF Record!Fails
<1> QED
  BY <1>1, <1>5 DEF OnRecord, Record!Next

LEMMA ClosedRow ==
    ASSUME VerificationInvariant, NEW a \in Attempt, rows[a].status \in Live,
           NEW status, NEW failed \in BOOLEAN,
           rows' = [rows EXCEPT ![a].status = status], bindings' = Stopped(a, failed),
           UNCHANGED history
    PROVE  RowBecomes(a, status, "none", IF failed THEN "cleanup_failed" ELSE "paused")
<1> DEFINE state == IF failed THEN "cleanup_failed" ELSE "paused"
<1>1. rows \in [Attempt -> Row] /\ bindings \in [Attempt -> Binding]
  BY TypesAreParts DEF VerificationInvariant
<1>2. bindings[a].state = "active" /\ rows[a].report = "none"
  BY DEF VerificationInvariant, LiveIsActive, ReportsAreVerdicts, Live, Verdict
<1>3. /\ \A b \in Attempt \ {a} : rows'[b] = rows[b]
      /\ rows'[a].status = status /\ rows'[a].report = "none"
      /\ rows'[a].previous = rows[a].previous
  BY <1>1, <1>2 DEF Row
<1>4. bindings' = [bindings EXCEPT ![a].state = state]
  BY <1>2 DEF Stopped
<1>5. /\ \A b \in Attempt \ {a} : bindings'[b] = bindings[b]
      /\ bindings'[a].state = state /\ bindings'[a].generation = bindings[a].generation
  BY <1>1, <1>4 DEF Binding
<1> QED
  BY <1>3, <1>5 DEF RowBecomes

LEMMA ReportedRow ==
    ASSUME VerificationInvariant, NEW a \in Attempt, NEW status, NEW report,
           ReportRow(a, status, report), UNCHANGED history
    PROVE  RowBecomes(a, status, report, "idle")
<1>1. rows \in [Attempt -> Row] /\ bindings \in [Attempt -> Binding]
  BY TypesAreParts DEF VerificationInvariant
<1>2. /\ \A b \in Attempt \ {a} : rows'[b] = rows[b]
      /\ rows'[a].status = status /\ rows'[a].report = report
      /\ rows'[a].previous = rows[a].previous
  BY <1>1 DEF Row, ReportRow
<1>3. /\ \A b \in Attempt \ {a} : bindings'[b] = bindings[b]
      /\ bindings'[a].state = "idle" /\ bindings'[a].generation = bindings[a].generation
  BY <1>1 DEF Binding, ReportRow
<1> QED
  BY <1>2, <1>3 DEF RowBecomes

LEMMA CloseOnRecord ==
    ASSUME VerificationInvariant, RecordInvariant, SweepersRest,
           NEW a \in Attempt, rows[a].status \in Live, Record!Outside(a),
           rows' = [rows EXCEPT ![a].status = "cancelled"], bindings' = Stopped(a, FALSE),
           UNCHANGED <<account, history, projection, delivery, calls, Inside>>
    PROVE  OnRecord
<1>1. RowBecomes(a, "cancelled", "none", "paused")
  BY ClosedRow
<1> QED
  BY <1>1, CancelOnRecord

LEMMA StopOnRecord ==
    ASSUME VerificationInvariant, RecordInvariant, SweepersRest,
           NEW a \in Attempt, NEW gen, NEW status \in {"cancelled", "outcome_unknown"},
           StopRow(a, gen, status), Record!Outside(a),
           UNCHANGED <<account, history, projection, delivery, calls, Inside>>
    PROVE  OnRecord
<1>1. CASE CanStop(a, gen, status)
  <2>1. rows[a].status \in Live
    BY <1>1 DEF CanStop, Live
  <2>2. /\ rows' = [rows EXCEPT ![a].status = status]
        /\ bindings' = Stopped(a, status = "outcome_unknown")
    BY <1>1 DEF StopRow
  <2>3. CASE status = "cancelled"
    BY <2>1, <2>2, <2>3, CloseOnRecord
  <2>4. CASE status = "outcome_unknown"
    <3>1. RowBecomes(a, "outcome_unknown", "none", "cleanup_failed")
      BY <2>1, <2>2, <2>4, ClosedRow
    <3> QED
      BY <2>1, <3>1, LossOnRecord
  <2> QED
    BY <2>3, <2>4
<1>2. CASE ~CanStop(a, gen, status)
  BY <1>2, QuietRecord DEF StopRow
<1> QED
  BY <1>1, <1>2

\* A row that is claimed stays open, and a record of it is as before.
LEMMA ClaimOnRecord ==
    ASSUME VerificationInvariant, RecordInvariant, SweepersRest,
           NEW a \in Attempt, rows[a].status = "requested",
           rows' = [rows EXCEPT ![a].status = "running"],
           UNCHANGED <<account, history, bindings, projection, delivery, calls, Inside>>
    PROVE  OnRecord
<1>1. rows[a].report = "none" /\ bindings[a].state = "active" /\ rows \in [Attempt -> Row]
  BY DEF VerificationInvariant, TypeOK, LiveIsActive, ReportsAreVerdicts, Live, Verdict
<1>2. RowBecomes(a, "running", "none", "active")
  BY <1>1 DEF RowBecomes, Row
<1>3. RecordInvariant'
  BY <1>2, BecomesKeeps DEF BindingTells, Live, Terminal, Verdict
<1>4. OutcomeOf("running", "none") = "open" /\ Outcomes[a] = "open" /\ a \notin Silent
  BY <1>1, OutcomesAre DEF OutcomeOf, Live, Silent
<1>5. UNCHANGED <<Generations, Basis, Silent>> /\ Outcomes' = [Outcomes EXCEPT ![a] = "open"]
  BY <1>2, <1>4, BecomesOnRecord
<1>6. UNCHANGED <<Outcomes, Paid>>
  BY <1>4, <1>5 DEF Outcomes, Paid
<1>7. Record!Rests
  BY <1>5, <1>6 DEF Record!Rests, Record!vars
<1> QED
  BY <1>3, <1>7 DEF OnRecord, Record!Next

\* A new row opens an attempt under the account of now.
LEMMA OpeningOnRecord ==
    ASSUME VerificationInvariant, RecordInvariant, SweepersRest,
           NEW a \in Attempt, rows[a].status = "absent", Active = {},
           NEW reason, NEW previous, NEW ruleset, NEW status \in Live,
           NewRow(a, reason, previous, ruleset, status, account.generation), ~account.held,
           IF a = first THEN previous = None
                        ELSE previous \in Attempt /\ Record!Repeatable(previous),
           UNCHANGED <<account, projection, delivery, calls, Inside>>
    PROVE  OnRecord
<1>1. /\ rows \in [Attempt -> Row] /\ bindings \in [Attempt -> Binding]
      /\ history \in Seq(Attempt)
  BY TypesAreParts DEF VerificationInvariant
<1>2. /\ \A b \in Attempt \ {a} : rows'[b] = rows[b] /\ bindings'[b] = bindings[b]
      /\ rows'[a] = [status |-> status, previous |-> previous, reason |-> reason,
                     ruleset |-> ruleset, report |-> "none"]
      /\ bindings'[a] = [generation |-> account.generation, state |-> "active"]
      /\ history' = Append(history, a)
  BY <1>1 DEF NewRow
<1>3. \A b \in Attempt : rows[b].status \notin Live
  BY DEF Active, Live
<1>4. a = first <=> history = <<>>
  <2>1. a = first => history = <<>>
    BY <1>1 DEF RecordInvariant, FirstOpens, VerificationInvariant, Placed
  <2>2. ASSUME a # first PROVE history # <<>>
    <3>1. rows[previous].status # "absent" /\ previous \in Attempt
      BY <2>2, OutcomesAre
         DEF Record!Repeatable, Record!Reported, Record!Verdict, OutcomeOf, VerificationInvariant,
             ReportsAreVerdicts, Verdict, Live
    <3> QED
      BY <3>1 DEF VerificationInvariant, Placed
  <2> QED
    BY <2>1, <2>2
<1>5. RecordInvariant'
  <2>1. OneLive'
    BY <1>2, <1>3 DEF OneLive
  <2>2. FirstOpens'
    BY <1>1, <1>2, <1>4 DEF FirstOpens, RecordInvariant
  <2>3. BindingsTell'
    <3>1. BindingTells(rows'[a], bindings'[a].state)
      BY <1>2 DEF BindingTells, Live, Verdict
    <3> QED
      BY <1>2, <3>1 DEF BindingsTell, RecordInvariant
  <2>4. SeenIsTrue'
    <3>1. \A b \in Attempt : rows[b].status \in Terminal => rows'[b].status = rows[b].status
      BY <1>2 DEF Terminal
    <3>2. \A s \in Sweeper : sweepers[s].attempt \in Attempt
      BY DEF VerificationInvariant, TypeOK
    <3>3. ASSUME NEW s \in Sweeper, sweepers'[s].pc = "acting", sweepers'[s].seen \in Terminal
          PROVE  rows'[sweepers'[s].attempt].status = sweepers'[s].seen
      <4>1. sweepers'[s] = sweepers[s]
        BY <3>3 DEF SweepersRest
      <4> QED
        BY <3>1, <3>2, <3>3, <4>1 DEF RecordInvariant, SeenIsTrue
    <3> QED
      BY <3>3 DEF SeenIsTrue
  <2> QED
    BY <2>1, <2>2, <2>3, <2>4 DEF RecordInvariant
<1>6. Generations' = [Generations EXCEPT ![a] = account.generation]
  <2>1. \A b \in Attempt : bindings'[b].generation =
            IF b = a THEN account.generation ELSE bindings[b].generation
    BY <1>2
  <2> QED
    BY <2>1 DEF Generations
<1>7. Basis' = [Basis EXCEPT ![a] = previous]
  <2>1. \A b \in Attempt : rows'[b].previous = IF b = a THEN previous ELSE rows[b].previous
    BY <1>2
  <2> QED
    BY <2>1 DEF Basis
<1>8. Outcomes' = [Outcomes EXCEPT ![a] = "open"]
  <2>1. ASSUME NEW b \in Attempt PROVE Outcome(b)' = IF b = a THEN "open" ELSE Outcome(b)
    BY <1>2 DEF Outcome, Live
  <2>2. Outcomes' = [b \in Attempt |-> IF b = a THEN "open" ELSE Outcome(b)]
    BY <2>1 DEF Outcomes
  <2> QED
    BY <2>2 DEF Outcomes
<1>9. UNCHANGED <<Silent, Paid>>
  <2>1. bindings[a].state # "paused"
    BY DEF RecordInvariant, BindingsTell, BindingTells, Verdict
  <2> QED
    BY <1>2, <2>1 DEF Silent, Paid
<1>10. Outcomes[a] = "absent" /\ \A c \in Attempt : Outcomes[c] # "open"
  <2>1. rows[a].report = "none"
    BY DEF VerificationInvariant, ReportsAreVerdicts, Verdict
  <2>2. \A c \in Attempt : rows[c].status # "open"
    BY <1>1 DEF Row, Status, Terminal
  <2> QED
    BY <1>3, <2>1, <2>2, OutcomesAre DEF OutcomeOf, Live
<1>11. Record!Opens(a, previous)
  BY <1>2, <1>4, <1>6, <1>7, <1>8, <1>9, <1>10 DEF Record!Opens
<1>12. previous \in Attempt \union {None}
  OBVIOUS
<1> QED
  BY <1>5, <1>11, <1>12 DEF OnRecord, Record!Next
-------------------------------------------------------------------------------
(* The steps of the workers on the record *)

LEMMA OneWorkerOnRecord ==
    ASSUME VerificationInvariant, RecordInvariant, NEW w \in Worker, NEW c \in Call,
           workers' = [workers EXCEPT ![w] = c], c.pc \notin Within,
           UNCHANGED <<account, rows, history, bindings, projection, delivery, sweepers, calls>>
    PROVE  OnRecord
<1>1. Inside' = [Inside EXCEPT ![w] = None] /\ Inside \in [Worker -> Attempt \union {None}]
  BY InsideOne
<1>2. SweepersRest
  BY DEF SweepersRest
<1>3. CASE Inside[w] = None
  <2>1. Inside' = Inside
    BY <1>1, <1>3
  <2> QED
    BY <1>2, <2>1, QuietRecord
<1>4. CASE Inside[w] # None
  <2>1. RecordInvariant'
    BY DEF RecordInvariant, OneLive, FirstOpens, BindingsTell, SeenIsTrue
  <2>2. UNCHANGED <<Generations, Basis, Outcomes, Paid, Silent>>
    BY DEF Generations, Basis, Outcomes, Outcome, Paid, Silent
  <2>3. Record!Leaves(w)
    BY <1>1, <1>4, <2>2 DEF Record!Leaves
  <2> QED
    BY <2>1, <2>3 DEF OnRecord, Record!Next
<1> QED
  BY <1>3, <1>4

LEMMA MovesOnRecord ==
    ASSUME VerificationInvariant, RecordInvariant, NEW w \in Worker,
           Drop(w) \/ \E pc \in Pc \ Within : Goto(w, pc),
           UNCHANGED <<account, rows, history, bindings, projection, delivery, sweepers, calls>>
    PROVE  OnRecord
<1>1. PICK c \in Call : workers' = [workers EXCEPT ![w] = c] /\ c.pc \notin Within
  BY GivesUp
<1> QED
  BY <1>1, OneWorkerOnRecord

LEMMA StartsOnRecord ==
    ASSUME VerificationInvariant, RecordInvariant, NEW w \in Worker,
           Begin(w) \/ (\E a \in Requested : Schedule(w, a)) \/ Lease(w) \/ Load(w)
    PROVE  OnRecord
<1>1. workers \in [Worker -> Call] /\ projection \in Attempt \union {None}
  BY DEF VerificationInvariant, TypeOK
<1>2. \E c \in Call : workers' = [workers EXCEPT ![w] = c] /\ c.pc \notin Within
  <2>1. CASE Begin(w)
    <3> DEFINE c == [Idle EXCEPT !.pc = "leasing", !.generation = account.generation]
    <3>1. c \in Call /\ c.pc \notin Within
      BY AttemptAssumption DEF VerificationInvariant, TypeOK, Idle, Call, Pc, Within
    <3> QED
      BY <2>1, <3>1 DEF Begin
  <2>2. ASSUME NEW a \in Requested, Schedule(w, a)
        PROVE  \E c \in Call : workers' = [workers EXCEPT ![w] = c] /\ c.pc \notin Within
    <3> DEFINE c == [Idle EXCEPT !.pc = "leasing", !.attempt = a,
                                 !.generation = bindings[a].generation]
    <3>1. c \in Call /\ c.pc \notin Within
      BY DEF VerificationInvariant, TypeOK, Idle, Call, Pc, Within, Requested
    <3> QED
      BY <2>2, <3>1 DEF Schedule
  <2>3. CASE Lease(w)
    <3>1. Drop(w) \/ \E pc \in Pc \ Within : Goto(w, pc)
      BY <2>3 DEF Lease, Pc, Within
    <3> QED
      BY <3>1, GivesUp
  <2>4. CASE Load(w) /\ Goto(w, "closing")
    <3>1. \E pc \in Pc \ Within : Goto(w, pc)
      BY <2>4 DEF Pc, Within
    <3> QED
      BY <3>1, GivesUp
  <2>5. CASE Load(w) /\ workers' = [workers EXCEPT ![w].pc = "starting", ![w].projection = projection]
    <3> DEFINE c == [workers[w] EXCEPT !.pc = "starting", !.projection = projection]
    <3>1. c \in Call /\ c.pc = "starting"
      BY <1>1 DEF Call, Pc
    <3>2. workers' = [workers EXCEPT ![w] = c]
      BY <1>1, <2>5
    <3> HIDE DEF c
    <3> QED
      BY <3>1, <3>2 DEF Within
  <2> QED
    BY <2>1, <2>2, <2>3, <2>4, <2>5 DEF Load
<1>3. UNCHANGED <<account, rows, history, bindings, projection, delivery, sweepers, calls>>
  BY DEF Begin, Schedule, Lease, Load
<1> QED
  BY <1>2, <1>3, OneWorkerOnRecord

LEMMA CreateOnRecord ==
    ASSUME VerificationInvariant, RecordInvariant, NEW w \in Worker, CreateAndStart(w)
    PROVE  OnRecord
<1> DEFINE gen == workers[w].generation
           opens == rows[first].status = "absent" /\ Active = {} /\ ~gate.p0 /\ Authorized(gen)
<1>1. /\ first \in Attempt /\ workers[w].pc \notin Within
      /\ Drop(w) \/ \E pc \in Pc \ Within : Goto(w, pc)
  BY AttemptAssumption DEF CreateAndStart, At, Within, Pc
<1>2. Inside' = Inside /\ SweepersRest
  BY <1>1, InsideStays DEF CreateAndStart, SweepersRest
<1>3. CASE opens
  <2>1. /\ NewRow(first, "initial", None, gate.ruleset, "running", account.generation)
        /\ ~account.held /\ "running" \in Live
    BY <1>3 DEF CreateAndStart, Authorized, Live
  <2> QED
    BY <1>1, <1>2, <1>3, <2>1, OpeningOnRecord DEF CreateAndStart
<1>4. CASE ~opens
  BY <1>1, <1>4, MovesOnRecord DEF CreateAndStart
<1> QED
  BY <1>3, <1>4

LEMMA StartOnRecord ==
    ASSUME VerificationInvariant, RecordInvariant, NEW w \in Worker, StartRequested(w)
    PROVE  OnRecord
<1> DEFINE a == AttemptOf(w)
<1>1. /\ a \in Attempt /\ workers[w].pc \notin Within
      /\ Drop(w) \/ \E pc \in Pc \ Within : Goto(w, pc)
  BY CallOf DEF StartRequested, At, Within, Pc
<1>2. Inside' = Inside /\ SweepersRest
  BY <1>1, InsideStays DEF StartRequested, SweepersRest
<1>3. UNCHANGED <<account, history, projection, delivery, sweepers, calls>>
  BY DEF StartRequested
<1>4. CASE UNCHANGED <<rows, bindings>>
  BY <1>1, <1>3, <1>4, MovesOnRecord
<1>5. CASE Claimable(a) /\ rows' = [rows EXCEPT ![a].status = "running"] /\ UNCHANGED bindings
  BY <1>1, <1>2, <1>3, <1>5, ClaimOnRecord DEF Claimable
<1>6. CASE /\ Claimable(a) /\ rows' = [rows EXCEPT ![a].status = "cancelled"]
           /\ bindings' = Stopped(a, FALSE)
  <2>1. rows[a].status \in Live /\ Record!Outside(a)
    BY <1>1, <1>6, NobodyInside DEF Claimable, Live
  <2> QED
    BY <1>1, <1>2, <1>3, <1>6, <2>1, CloseOnRecord
<1> QED
  BY <1>4, <1>5, <1>6 DEF StartRequested

\* A worker enters alone, under the account of now, and for a requested attempt
\* for the first time.
LEMMA VerifyStartOnRecord ==
    ASSUME VerificationInvariant, RecordInvariant, NEW w \in Worker, VerifyStart(w)
    PROVE  OnRecord
<1> DEFINE a == AttemptOf(w)
<1>1. /\ workers[w].pc = "checking" /\ workers[w].pc \in Executing \ Within
      /\ a \in Attempt /\ rows[a].status = "running"
  BY HoldersExecute DEF VerifyStart, At, Executing, Within
<1>2. UNCHANGED <<account, rows, history, bindings, projection, delivery, sweepers>>
  BY DEF VerifyStart
<1>3. CASE UNCHANGED calls /\ \E pc \in {"cancelling", "losing"} : Goto(w, pc)
  BY <1>2, <1>3, MovesOnRecord DEF Pc, Within
<1>4. CASE /\ BindingUsable(a, workers[w].generation) /\ Goto(w, "verifying")
           /\ calls' = [calls EXCEPT ![a] = Bump(@)]
  <2>1. Inside' = [Inside EXCEPT ![w] = a]
    <3> DEFINE c == [workers[w] EXCEPT !.pc = "verifying"]
    <3>1. workers \in [Worker -> Call]
      BY DEF VerificationInvariant, TypeOK
    <3>2. c \in Call /\ c.pc = "verifying" /\ c.attempt = a
      BY <3>1 DEF Call, Pc, AttemptOf
    <3>3. workers' = [workers EXCEPT ![w] = c]
      BY <1>4, <3>1 DEF Goto
    <3> HIDE DEF c
    <3> QED
      BY <3>2, <3>3, InsideOne DEF Within
  <2>2. \A v \in Worker : Inside[v] = None
    BY <1>1, NobodyElse DEF RecordInvariant
  <2>3. Paid' = Paid \union {a}
    <3>1. \A b \in Attempt : calls'[b] > 0 <=> b = a \/ calls[b] > 0
      BY <1>1, <1>4 DEF VerificationInvariant, TypeOK, Bump
    <3> QED
      BY <1>1, <3>1 DEF Paid
  <2>4. a = first \/ a \notin Paid
    BY <1>1 DEF VerificationInvariant, CallsKnow, At, Paid
  <2>5. Outcomes[a] = "open" /\ Record!Authorized(a)
    BY <1>1, <1>4, OutcomesAre
       DEF OutcomeOf, Live, Record!Authorized, Generations, BindingUsable, Authorized
  <2>6. UNCHANGED <<Generations, Basis, Outcomes, Silent>>
    BY <1>2 DEF Generations, Basis, Outcomes, Outcome, Silent
  <2>7. Record!Enters(w, a)
    BY <1>2, <2>1, <2>2, <2>3, <2>4, <2>5, <2>6 DEF Record!Enters
  <2>8. RecordInvariant'
    BY <1>2 DEF RecordInvariant, OneLive, FirstOpens, BindingsTell, SeenIsTrue
  <2> QED
    BY <1>1, <2>7, <2>8 DEF OnRecord, Record!Next
<1> QED
  BY <1>3, <1>4 DEF VerifyStart, Abort

LEMMA VerifyEndOnRecord ==
    ASSUME VerificationInvariant, RecordInvariant, NEW w \in Worker, VerifyEnd(w)
    PROVE  OnRecord
<1>1. /\ workers[w].pc = "verifying" /\ SweepersRest
      /\ UNCHANGED <<account, rows, history, bindings, projection, delivery, sweepers, calls>>
  BY DEF VerifyEnd, At, SweepersRest
<1>2. CASE \E pc \in {"cancelling", "losing", "failing"} : Goto(w, pc)
  BY <1>1, <1>2, MovesOnRecord DEF Pc, Within
<1>3. ASSUME NEW v \in Verdict,
             workers' = [workers EXCEPT ![w].pc = "finishing", ![w].verdict = v]
      PROVE  OnRecord
  <2> DEFINE c == [workers[w] EXCEPT !.pc = "finishing", !.verdict = v]
  <2>1. workers \in [Worker -> Call]
    BY DEF VerificationInvariant, TypeOK
  <2>2. c \in Call /\ c.pc = "finishing" /\ c.attempt = AttemptOf(w)
    BY <2>1 DEF Call, Pc, AttemptOf
  <2>3. workers' = [workers EXCEPT ![w] = c]
    BY <1>3, <2>1
  <2> HIDE DEF c
  <2>4. c.pc \in Within /\ Inside[w] = AttemptOf(w)
    BY <1>1, <2>2 DEF Within, Inside, At
  <2>5. /\ Inside' = [Inside EXCEPT ![w] = AttemptOf(w)]
        /\ Inside \in [Worker -> Attempt \union {None}]
    BY <2>2, <2>3, <2>4, InsideOne
  <2>6. Inside' = Inside
    BY <2>4, <2>5
  <2> QED
    BY <1>1, <2>6, QuietRecord
<1> QED
  BY <1>2, <1>3 DEF VerifyEnd, Abort

\* The answer of the worker inside, or it leaves without one.
LEMMA FinishOnRecord ==
    ASSUME VerificationInvariant, RecordInvariant, NEW w \in Worker, Finish(w)
    PROVE  OnRecord
<1> DEFINE a == AttemptOf(w)
           verdict == workers[w].verdict
           usable == BindingUsable(a, workers[w].generation)
<1>1. /\ workers[w].pc = "finishing" /\ workers[w].pc \in Within /\ SweepersRest
      /\ verdict \in Verdict /\ a \in Attempt
  BY CallOf DEF Finish, At, Within, SweepersRest, VerificationInvariant, CallsKnow
<1>2. UNCHANGED <<account, history, delivery, sweepers, calls>>
  BY DEF Finish
<1>3. CASE usable /\ MayReport(a)
  <2>1. ReportRow(a, verdict, "verdict") /\ projection' = a /\ Drop(w)
    BY <1>3 DEF Finish
  <2>2. /\ Inside[w] = a /\ a # None /\ Inside' = [Inside EXCEPT ![w] = None]
    BY <1>1, <2>1, InsideLeaves
  <2>3. rows[a].status = "running" /\ rows[a].status \in Live /\ verdict \notin Live
    BY <1>1, <1>3 DEF MayReport, Live, Verdict
  <2>4. RowBecomes(a, verdict, "verdict", "idle")
    BY <1>1, <1>2, <2>1, ReportedRow
  <2>5. RecordInvariant'
    BY <1>1, <2>3, <2>4, BecomesKeeps DEF BindingTells, Live, Terminal, Verdict
  <2>6. a \notin Silent
    BY <2>3 DEF Silent, VerificationInvariant, LiveIsActive
  <2>7. /\ UNCHANGED <<Generations, Basis, Paid, Silent>>
        /\ Outcomes' = [Outcomes EXCEPT ![a] = verdict]
    BY <1>1, <1>2, <2>3, <2>4, <2>6, BecomesOnRecord DEF OutcomeOf, Paid
  <2>8. Outcomes[a] = "open" /\ Record!Authorized(a)
    BY <1>1, <1>3, <2>3, OutcomesAre
       DEF OutcomeOf, Record!Authorized, Generations, BindingUsable, Authorized
  <2>9. delivery # "delivered"
    <3>1. CASE a # first
      BY <1>3, <3>1 DEF MayReport, Current
    <3>2. CASE a = first
      BY <2>3, <3>2, AttemptAssumption DEF VerificationInvariant, ReportsAreVerdicts, Verdict
    <3> QED
      BY <3>1, <3>2
  <2>10. Record!Answers(w, verdict)
    BY <1>2, <2>1, <2>2, <2>7, <2>8, <2>9 DEF Record!Answers
  <2> QED
    BY <1>1, <2>5, <2>10 DEF OnRecord, Record!Next, Record!Verdict, Verdict
<1>4. CASE ~(usable /\ MayReport(a))
  <2>1. /\ UNCHANGED <<rows, bindings, projection>>
        /\ \E pc \in Pc \ Within : Goto(w, pc)
    BY <1>4 DEF Finish, Doubt, Pc, Within
  <2> QED
    BY <1>2, <2>1, MovesOnRecord
<1> QED
  BY <1>3, <1>4

LEMMA EndingsOnRecord ==
    ASSUME VerificationInvariant, RecordInvariant, NEW w \in Worker,
           FinishStopped(w) \/ FinishInconclusive(w) \/ Close(w)
    PROVE  OnRecord
<1> DEFINE a == AttemptOf(w)
<1>1. /\ a \in Attempt /\ workers[w].pc \notin Within /\ Drop(w) /\ SweepersRest
      /\ UNCHANGED <<account, history, delivery, sweepers, calls>>
  BY CallOf DEF FinishStopped, FinishInconclusive, Close, At, Within, SweepersRest
<1>2. Inside' = Inside
  BY <1>1, InsideStays
<1>3. CASE FinishStopped(w)
  <2>1. HoldsLease(w, a) /\ projection' = projection
    BY <1>3 DEF FinishStopped, At, HoldsLease
  <2>2. Record!Outside(a)
    BY <1>1, <2>1, NobodyInside
  <2>3. \E status \in {"cancelled", "outcome_unknown"} : StopRow(a, workers[w].generation, status)
    BY <1>3 DEF FinishStopped
  <2> QED
    BY <1>1, <1>2, <2>1, <2>2, <2>3, StopOnRecord
<1>4. CASE FinishInconclusive(w)
  <2>1. HoldsLease(w, a)
    BY <1>4 DEF FinishInconclusive, At, HoldsLease
  <2>2. Record!Outside(a)
    BY <1>1, <2>1, NobodyInside
  <2>3. CASE BindingUsable(a, workers[w].generation) /\ rows[a].status = "running"
    <3>1. /\ RowBecomes(a, "inconclusive", "error", "idle") /\ projection' \in {projection, a}
          /\ rows[a].status \in Live /\ ~account.held /\ bindings[a].generation = account.generation
      BY <1>1, <1>4, <2>3, ReportedRow DEF FinishInconclusive, BindingUsable, Authorized, Live
    <3> QED
      BY <1>1, <1>2, <2>2, <3>1, FailureOnRecord
  <2>4. CASE UNCHANGED <<rows, bindings, projection>>
    BY <1>1, <1>2, <2>4, QuietRecord
  <2> QED
    BY <1>4, <2>3, <2>4 DEF FinishInconclusive
<1>5. CASE Close(w)
  <2>1. projection' = projection
    BY <1>5 DEF Close
  <2>2. CASE /\ rows[a].status = "requested" /\ rows' = [rows EXCEPT ![a].status = "cancelled"]
             /\ bindings' = Stopped(a, FALSE)
    <3>1. rows[a].status \in Live /\ Record!Outside(a)
      BY <1>1, <2>2, NobodyInside DEF Live
    <3> QED
      BY <1>1, <1>2, <2>1, <2>2, <3>1, CloseOnRecord
  <2>3. CASE UNCHANGED <<rows, bindings>>
    BY <1>1, <1>2, <2>1, <2>3, QuietRecord
  <2> QED
    BY <1>5, <2>2, <2>3 DEF Close
<1> QED
  BY <1>3, <1>4, <1>5 DEF FinishStopped, FinishInconclusive, Close

LEMMA StopsOnRecord ==
    ASSUME VerificationInvariant, RecordInvariant, NEW w \in Worker, Interrupt(w) \/ Crash(w)
    PROVE  OnRecord
<1>1. /\ Drop(w) \/ \E pc \in Pc \ Within : Goto(w, pc)
      /\ UNCHANGED <<account, rows, history, bindings, projection, delivery, sweepers, calls>>
  BY DEF Interrupt, Crash, Abort, Pc, Within
<1> QED
  BY <1>1, MovesOnRecord
-------------------------------------------------------------------------------
(* The steps beside the workers on the record *)

LEMMA SameInside ==
    ASSUME UNCHANGED workers PROVE Inside' = Inside
BY DEF Inside, At, AttemptOf

LEMMA RequestOnRecord ==
    ASSUME VerificationInvariant, RecordInvariant, NEW a \in Requested, Inspect(a) \/ Request(a)
    PROVE  OnRecord
<1> DEFINE o == offers[a]
<1>1. /\ SweepersRest /\ Inside' = Inside
      /\ UNCHANGED <<account, projection, delivery, calls>>
  BY SameInside DEF Inspect, Request, SweepersRest
<1>2. CASE UNCHANGED <<rows, history, bindings>>
  BY <1>1, <1>2, QuietRecord
<1>3. CASE /\ Request(a) /\ Authorized(o.generation) /\ Active = {}
           /\ o.reason = "provider_outcome_recovery" => Recoverable(o)
           /\ NewRow(a, o.reason, o.previous, o.ruleset, "requested", o.generation)
  <2>1. /\ a \in Attempt /\ a # first /\ rows[a].status = "absent" /\ o.previous \in Attempt
        /\ o.reason # "provider_outcome_recovery" => rows[o.previous].status \in Verdict
    BY <1>3 DEF Request, Requested, VerificationInvariant, OffersAreNew
  <2>2. Record!Repeatable(o.previous)
    <3>1. CASE o.reason = "provider_outcome_recovery"
      <4>1. rows[o.previous].status = "outcome_unknown" /\ o.previous = Latest /\ Latest # None
        BY <1>3, <2>1, <3>1, AttemptAssumption DEF Recoverable
      <4>2. rows[o.previous].report = "none"
        BY <2>1, <4>1 DEF VerificationInvariant, ReportsAreVerdicts, Verdict
      <4>3. Outcomes[o.previous] = "outcome_unknown"
        BY <2>1, <4>1, <4>2, OutcomesAre DEF OutcomeOf, Live
      <4>4. history # <<>> /\ o.previous = history[Len(history)]
        BY <4>1, LatestIsAttempt
      <4> QED
        BY <4>3, <4>4 DEF Record!Repeatable
    <3>2. CASE o.reason # "provider_outcome_recovery"
      <4>1. Outcomes[o.previous] \in Verdict \union {"error"}
        BY <2>1, <3>2, OutcomesAre DEF OutcomeOf, Live, Verdict
      <4> QED
        BY <2>1, <4>1 DEF Record!Repeatable, Record!Reported, Record!Verdict, Verdict
    <3> QED
      BY <3>1, <3>2
  <2>3. o.generation = account.generation /\ ~account.held /\ "requested" \in Live
    BY <1>3 DEF Authorized, Live
  <2> QED
    BY <1>1, <1>3, <2>1, <2>2, <2>3, OpeningOnRecord
<1> QED
  BY <1>2, <1>3 DEF Inspect, Request

LEMMA SeeOnRecord ==
    ASSUME VerificationInvariant, RecordInvariant, NEW s \in Sweeper, NEW a \in Attempt, See(s, a)
    PROVE  OnRecord
<1>1. /\ sweepers'[s] = [pc |-> "acting", attempt |-> a, seen |-> rows[a].status]
      /\ \A t \in Sweeper \ {s} : sweepers'[t] = sweepers[t]
      /\ UNCHANGED <<account, rows, history, bindings, projection, delivery, calls, workers>>
  BY DEF See, VerificationInvariant, TypeOK
<1>2. SeenIsTrue'
  <2>1. ASSUME NEW t \in Sweeper, sweepers'[t].pc = "acting", sweepers'[t].seen \in Terminal
        PROVE  rows'[sweepers'[t].attempt].status = sweepers'[t].seen
    BY <1>1, <2>1 DEF RecordInvariant, SeenIsTrue
  <2> QED
    BY <2>1 DEF SeenIsTrue
<1>3. RecordInvariant'
  BY <1>1, <1>2 DEF RecordInvariant, OneLive, FirstOpens, BindingsTell
<1>4. UNCHANGED <<Generations, Basis, Outcomes, Paid, Silent, Inside>>
  BY <1>1, SameInside DEF Generations, Basis, Outcomes, Outcome, Paid, Silent
<1>5. Record!Rests
  BY <1>1, <1>4 DEF Record!Rests, Record!vars
<1> QED
  BY <1>3, <1>5 DEF OnRecord, Record!Next

\* An ended row whose binding a sweeper stops: what it saw is still so, and an
\* unknown outcome is never proved silent.
LEMMA SilenceOnRecord ==
    ASSUME VerificationInvariant, RecordInvariant, SweepersRest, NEW a \in Attempt,
           rows[a].status \in Terminal, bindings' = Stopped(a, rows[a].status = "outcome_unknown"),
           UNCHANGED <<account, rows, history, projection, delivery, calls, Inside>>
    PROVE  OnRecord
<1> DEFINE row == rows[a]
           state == IF row.status = "outcome_unknown" THEN "cleanup_failed" ELSE "paused"
<1>1. BindingTells(row, bindings[a].state) /\ bindings \in [Attempt -> Binding]
  BY TypesAreParts DEF RecordInvariant, BindingsTell, VerificationInvariant
<1>2. CASE bindings[a].state = "paused"
  BY <1>2, QuietRecord DEF Stopped
<1>3. CASE bindings[a].state # "paused"
  <2>1. bindings' = [bindings EXCEPT ![a].state = state]
    BY <1>3 DEF Stopped
  <2>2. RowBecomes(a, row.status, row.report, state)
    BY <1>1, <2>1 DEF RowBecomes, Binding
  <2>3. BindingTells([status |-> row.status, report |-> row.report], state)
    BY <1>1, <1>3 DEF BindingTells, Verdict, Terminal
  <2>4. RecordInvariant'
    BY <2>2, <2>3, BecomesKeeps DEF Live, Terminal, Verdict
  <2>5. OutcomeOf(row.status, row.report) = Outcomes[a]
    BY OutcomesAre
  <2>6. /\ UNCHANGED <<Generations, Basis, Paid>>
        /\ Outcomes' = [Outcomes EXCEPT ![a] = Outcomes[a]]
        /\ Silent' = IF state = "paused" THEN Silent \union {a} ELSE Silent \ {a}
    BY <2>2, <2>5, BecomesOnRecord DEF Paid
  <2>7. Outcomes' = Outcomes
    BY <2>6 DEF Outcomes
  <2>8. CASE state = "cleanup_failed"
    <3>1. Silent' = Silent
      BY <1>3, <2>6, <2>8 DEF Silent
    <3>2. Record!Rests
      BY <2>6, <2>7, <3>1 DEF Record!Rests, Record!vars
    <3> QED
      BY <2>4, <3>2 DEF OnRecord, Record!Next
  <2>9. CASE state = "paused"
    <3>1. row.status \in Verdict
      BY <1>1, <1>3, <2>9 DEF BindingTells, Terminal, Verdict
    <3>2. Outcomes[a] \in Verdict \union {"error"}
      BY <2>5, <3>1 DEF OutcomeOf, Live, Verdict
    <3>3. Record!Silences(a)
      BY <2>6, <2>7, <2>9, <3>2
         DEF Record!Silences, Record!Reported, Record!Verdict, Verdict
    <3> QED
      BY <2>4, <3>3 DEF OnRecord, Record!Next
  <2> QED
    BY <2>8, <2>9
<1> QED
  BY <1>2, <1>3

LEMMA TakeoverOnRecord ==
    ASSUME VerificationInvariant, RecordInvariant, NEW s \in Sweeper, Takeover(s)
    PROVE  OnRecord
<1> DEFINE a == sweepers[s].attempt
           seen == sweepers[s].seen
<1>1. /\ a \in Attempt /\ sweepers[s].pc = "acting" /\ SweepersRest /\ Inside' = Inside
      /\ UNCHANGED <<account, history, projection, delivery, calls>>
  <2>1. /\ sweepers' = [sweepers EXCEPT ![s] = Resting] /\ sweepers[s].pc = "acting"
        /\ UNCHANGED <<account, history, projection, delivery, calls, workers>>
    BY DEF Takeover
  <2>2. a \in Attempt /\ SweepersRest
    BY <2>1 DEF VerificationInvariant, TypeOK, Resting, SweepersRest
  <2> QED
    BY <2>1, <2>2, SameInside
<1>2. CASE UNCHANGED <<rows, bindings>>
  BY <1>1, <1>2, QuietRecord
<1>3. CASE LeaseFree(a) /\ Recover(a)
  <2>1. Record!Outside(a)
    BY <1>1, <1>3, NobodyInside
  <2>2. CASE HasGrant(a)
    <3>1. StopRow(a, bindings[a].generation, "outcome_unknown")
      BY <1>3, <2>2 DEF Recover
    <3> QED
      BY <1>1, <2>1, <3>1, StopOnRecord
  <2>3. CASE /\ BindingUsable(a, bindings[a].generation) /\ rows[a].status = "running"
             /\ ReportRow(a, "inconclusive", "error")
    <3>1. /\ RowBecomes(a, "inconclusive", "error", "idle") /\ projection' \in {projection, a}
          /\ rows[a].status \in Live /\ ~account.held /\ bindings[a].generation = account.generation
      BY <1>1, <2>3, ReportedRow DEF BindingUsable, Authorized, Live
    <3> QED
      BY <1>1, <2>1, <3>1, FailureOnRecord
  <2> QED
    BY <1>2, <1>3, <2>2, <2>3 DEF Recover
<1>4. CASE /\ rows[a].status = "requested"
           /\ rows' = [rows EXCEPT ![a].status = "cancelled"] /\ bindings' = Stopped(a, FALSE)
  <2>1. rows[a].status \in Live /\ Record!Outside(a)
    BY <1>1, <1>4, NobodyInside DEF Live
  <2> QED
    BY <1>1, <1>4, <2>1, CloseOnRecord
<1>5. CASE seen \in Terminal /\ bindings' = Stopped(a, seen = "outcome_unknown") /\ UNCHANGED rows
  <2>1. rows[a].status = seen
    BY <1>1, <1>5 DEF RecordInvariant, SeenIsTrue
  <2> QED
    BY <1>1, <1>5, <2>1, SilenceOnRecord
<1> QED
  BY <1>2, <1>3, <1>4, <1>5 DEF Takeover

\* Every reported attempt is idle or proved silent, and nothing else is idle: so a
\* hold proves just the reported ones silent.
LEMMA HoldOnRecord ==
    ASSUME VerificationInvariant, RecordInvariant, Hold
    PROVE  OnRecord
<1>1. /\ UNCHANGED <<rows, history, projection, delivery, calls, sweepers, Inside>>
      /\ bindings \in [Attempt -> Binding] /\ rows \in [Attempt -> Row]
  BY TypesAreParts, SameInside DEF Hold, VerificationInvariant
<1>2. \A b \in Attempt :
          /\ bindings'[b].generation = bindings[b].generation
          /\ bindings'[b].state = IF bindings[b].state = "idle" THEN "paused" ELSE bindings[b].state
  BY <1>1 DEF Hold, Binding
<1>3. RecordInvariant'
  <2>1. BindingsTell'
    <3>1. ASSUME NEW b \in Attempt PROVE BindingTells(rows[b], bindings'[b].state)
      BY <1>2 DEF RecordInvariant, BindingsTell, BindingTells, Verdict
    <3> QED
      BY <1>1, <3>1 DEF BindingsTell
  <2> QED
    BY <1>1, <2>1 DEF RecordInvariant, OneLive, FirstOpens, SeenIsTrue
<1>4. Generations' = Generations
  BY <1>2 DEF Generations
<1>5. UNCHANGED <<Basis, Outcomes, Paid>>
  BY <1>1 DEF Basis, Outcomes, Outcome, Paid
<1>6. Silent' = Silent \union Record!Reported
  <2>1. ASSUME NEW b \in Attempt
        PROVE  bindings'[b].state = "paused"
                   <=> bindings[b].state = "paused" \/ Outcomes[b] \in Verdict \union {"error"}
    <3>1. Outcomes[b] \in Verdict \union {"error"} <=> rows[b].report # "none"
      BY <1>1, OutcomesAre
         DEF OutcomeOf, Live, Verdict, RecordInvariant, BindingsTell, BindingTells, Row, Status,
             Terminal
    <3>2. rows[b].report # "none" <=>
              bindings[b].state = "idle" \/ (bindings[b].state = "paused" /\ rows[b].report # "none")
      BY DEF RecordInvariant, BindingsTell, BindingTells
    <3> QED
      BY <1>2, <3>1, <3>2
  <2> QED
    BY <2>1 DEF Silent, Record!Reported, Record!Verdict, Verdict
<1>7. Record!Holds
  BY <1>1, <1>4, <1>5, <1>6 DEF Record!Holds, Hold
<1> QED
  BY <1>3, <1>7 DEF OnRecord, Record!Next

LEMMA SurroundingsOnRecord ==
    ASSUME VerificationInvariant, RecordInvariant,
           RunReturns \/ Enable \/ GateChanges \/ BeginCommit \/ Deliver
    PROVE  OnRecord
<1>1. /\ UNCHANGED <<rows, history, bindings, projection, calls, sweepers, Inside>>
      /\ SweepersRest
  BY SameInside DEF RunReturns, Enable, GateChanges, BeginCommit, Deliver, SweepersRest
<1>2. UNCHANGED <<Generations, Basis, Outcomes, Paid, Silent>> /\ RecordInvariant'
  BY <1>1 DEF Generations, Basis, Outcomes, Outcome, Paid, Silent, RecordInvariant, OneLive,
     FirstOpens, BindingsTell, SeenIsTrue
<1>3. CASE RunReturns \/ GateChanges
  BY <1>1, <1>3, QuietRecord DEF RunReturns, GateChanges
<1>4. CASE Enable
  <2>1. Record!Releases
    BY <1>1, <1>2, <1>4 DEF Record!Releases, Enable
  <2> QED
    BY <1>2, <2>1 DEF OnRecord, Record!Next
<1>5. CASE BeginCommit
  <2>1. PICK a \in Attempt : rows[a].status = "passed" /\ a \in {first, Latest}
    BY <1>5, LatestIsAttempt, AttemptAssumption DEF BeginCommit, Explicit, Automatic
  <2>2. history # <<>> /\ Latest = history[Len(history)]
    BY <2>1, LatestIsAttempt DEF Latest, VerificationInvariant, TypeOK
  <2>3. rows[a].report # "error"
    BY <2>1 DEF RecordInvariant, BindingsTell, BindingTells
  <2>4. Outcomes[a] = "passed"
    BY <2>1, <2>3, OutcomesAre DEF OutcomeOf, Live
  <2>5. Record!Commits
    BY <1>1, <1>2, <1>5, <2>1, <2>2, <2>4 DEF Record!Commits, BeginCommit
  <2> QED
    BY <1>2, <2>5 DEF OnRecord, Record!Next
<1>6. CASE Deliver
  <2>1. Record!Delivers
    BY <1>1, <1>2, <1>6 DEF Record!Delivers, Deliver
  <2> QED
    BY <1>2, <2>1 DEF OnRecord, Record!Next
<1> QED
  BY <1>3, <1>4, <1>5, <1>6

LEMMA StepOnRecord ==
    ASSUME VerificationInvariant, RecordInvariant, [Next]_vars
    PROVE  OnRecord
<1>1. CASE UNCHANGED vars
  <2>1. /\ UNCHANGED <<account, rows, history, bindings, projection, delivery, calls, Inside>>
        /\ SweepersRest
    BY <1>1, SameInside DEF vars, SweepersRest
  <2> QED
    BY <2>1, QuietRecord
<1>2. ASSUME NEW w \in Worker, \/ Begin(w) \/ Execute(w) \/ Interrupt(w) \/ Crash(w)
                               \/ \E a \in Requested : Schedule(w, a)
      PROVE  OnRecord
  BY <1>2, StartsOnRecord, CreateOnRecord, StartOnRecord, VerifyStartOnRecord, VerifyEndOnRecord,
     FinishOnRecord, EndingsOnRecord, StopsOnRecord DEF Execute
<1>3. ASSUME NEW a \in Requested, Inspect(a) \/ Request(a) PROVE OnRecord
  BY <1>3, RequestOnRecord
<1>4. ASSUME NEW s \in Sweeper, Scan(s) \/ ScanHeld(s) \/ Takeover(s) PROVE OnRecord
  BY <1>4, SeeOnRecord, TakeoverOnRecord DEF Scan, ScanHeld, Orphans
<1>5. CASE RunReturns \/ Hold \/ Enable \/ GateChanges \/ BeginCommit \/ Deliver
  BY <1>5, HoldOnRecord, SurroundingsOnRecord
<1> QED
  BY <1>1, <1>2, <1>3, <1>4, <1>5 DEF Next

LEMMA InitOnRecord == Init => RecordInvariant /\ Record!Init
<1> SUFFICES ASSUME Init PROVE RecordInvariant /\ Record!Init
  OBVIOUS
<1>1. RecordInvariant
  BY DEF Init, RecordInvariant, OneLive, FirstOpens, BindingsTell, BindingTells, SeenIsTrue, NoRow,
         Resting, Live, Verdict
<1>2. /\ Generations = [a \in Attempt |-> 0] /\ Basis = [a \in Attempt |-> None]
      /\ Outcomes = [a \in Attempt |-> "absent"] /\ Paid = {} /\ Silent = {}
  BY DEF Init, Generations, Basis, Outcomes, Outcome, Paid, Silent, NoRow
<1>3. Inside = [w \in Worker |-> None]
  BY DEF Init, Inside, At, Idle
<1> QED
  BY <1>1, <1>2, <1>3 DEF Record!Init, Init

\* Verification implements VerificationPromise: whoever executes, interrupts,
\* recovers or closes an attempt, and whatever it saw before, the owner's record
\* changes only as if everybody read and wrote it at once.
THEOREM VerificationIsKept == Spec => KeepsVerification
<1>1. VerificationInvariant /\ RecordInvariant /\ [Next]_vars
          => RecordInvariant' /\ [Record!Next]_(Record!vars)
  BY StepOnRecord DEF OnRecord
<1> QED
  BY <1>1, InitOnRecord, VerificationIsSafe, PTL DEF Spec, KeepsVerification, Record!Spec
===============================================================================
