---------------------- MODULE CandidateVerification_proofs ----------------------
(***************************************************************************)
(* Theorems about CandidateVerification, for every set of attempts,        *)
(* workers and sweepers and every bound.  What a step may do to the rows,  *)
(* and what to the workers, is said once (RowStep, WorkStep); every action *)
(* is of these kinds.                                                      *)
(***************************************************************************)
EXTENDS CandidateVerification, SequenceTheorems, FiniteSetTheorems, TLAPS

\* A worker past the claim of its attempt, up to the end of it.
Executing == {"checking", "verifying", "finishing", "cancelling", "losing", "doubting", "failing"}
Live == {"requested", "running"}

LiveIsActive == \A a \in Attempt : rows[a].status \in Live => bindings[a].state = "active"
ExecutesRunning ==
    \A w \in Worker : workers[w].pc \in Executing => rows[AttemptOf(w)].status = "running"
Exclusion ==
    \A a \in Attempt : \A v, w \in Worker : HoldsLease(v, a) /\ HoldsLease(w, a) => v = w
PaidOnce ==
    \A a \in Requested :
        /\ calls[a] <= 1
        /\ rows[a].status \in {"absent", "requested"} => calls[a] = 0
CallsKnow ==
    \A w \in Worker :
        /\ At(w, "checking") /\ AttemptOf(w) # first => calls[AttemptOf(w)] = 0
        /\ At(w, "finishing") => workers[w].verdict \in Verdict
SeenIsFinal ==
    \A s \in Sweeper : sweepers[s].pc = "acting" /\ sweepers[s].seen \in Terminal
        => rows[sweepers[s].attempt].status \in Terminal
OffersAreNew ==
    \A a \in Requested : offers[a] # NoOffer =>
        /\ rows[a].status = "absent"
        /\ offers[a].previous \in Attempt
        /\ offers[a].reason # None
        /\ offers[a].reason # "provider_outcome_recovery"
               => rows[offers[a].previous].status \in Verdict
Placed ==
    \A a \in Attempt :
        /\ rows[a].status # "absent" => bindings[a].state # "none"
        /\ rows[a].status # "absent" <=> \E i \in 1 .. Len(history) : history[i] = a
InsertedOnce == \A i, j \in 1 .. Len(history) : history[i] = history[j] => i = j
Follows(h, a, b) == \E i \in 1 .. Len(h) - 1 : h[i] = a /\ h[i + 1] = b
RepeatsFollow ==
    \A b \in Attempt : rows[b].previous # None =>
        /\ rows[b].reason # "provider_outcome_recovery" => rows[rows[b].previous].status \in Verdict
        /\ rows[b].reason = "provider_outcome_recovery" => Follows(history, rows[b].previous, b)
ReportsAreVerdicts ==
    /\ \A a \in Attempt : rows[a].report # "none" => rows[a].status \in Verdict
    /\ gate.ready => rows[first].report # "none"
    /\ delivery # "none" => gate.ready

VerificationInvariant ==
    /\ TypeOK
    /\ LiveIsActive /\ ExecutesRunning /\ Exclusion /\ PaidOnce /\ CallsKnow /\ SeenIsFinal
    /\ OffersAreNew /\ Placed /\ InsertedOnce /\ RepeatsFollow /\ ReportsAreVerdicts

LEMMA InitInvariant == Init => VerificationInvariant
<1> SUFFICES ASSUME Init PROVE VerificationInvariant
  OBVIOUS
<1> USE AttemptAssumption, VerificationBoundAssumption
<1>1. TypeOK
  BY DEF Init, TypeOK, Row, NoRow, Offer, NoOffer, Call, Idle, Resting, Generation, Ruleset,
         Requested, None, Pc, Verdict, Status, Reason, Terminal
<1>2. /\ LiveIsActive /\ ExecutesRunning /\ Exclusion /\ PaidOnce /\ CallsKnow /\ SeenIsFinal
      /\ OffersAreNew /\ Placed /\ InsertedOnce /\ RepeatsFollow /\ ReportsAreVerdicts
  BY DEF Init, LiveIsActive, ExecutesRunning, Exclusion, PaidOnce, CallsKnow, SeenIsFinal,
         OffersAreNew, Placed, InsertedOnce, RepeatsFollow, ReportsAreVerdicts, NoRow, NoOffer, Idle,
         Resting, Live, Executing, HoldsLease, AttemptOf, At, Requested, Terminal
<1> QED
  BY <1>1, <1>2 DEF VerificationInvariant
-------------------------------------------------------------------------------
(* The rows *)

Binding == [generation : Generation, state : {"none", "active", "idle", "paused", "cleanup_failed"}]

\* Bindings change their state, none of a live row.
Parks ==
    /\ UNCHANGED <<rows, history>>
    /\ bindings' \in [Attempt -> Binding]
    /\ \A a \in Attempt :
        /\ bindings'[a].state = "none" <=> bindings[a].state = "none"
        /\ rows[a].status \in Live => bindings'[a].state = bindings[a].state
Inserts(a) ==
    /\ rows[a].status = "absent"
    /\ \E reason \in Reason, previous \in Attempt \union {None}, ruleset \in Ruleset,
          status \in Live, gen \in Generation :
        /\ NewRow(a, reason, previous, ruleset, status, gen)
        /\ previous # None =>
            /\ reason # "provider_outcome_recovery" => rows[previous].status \in Verdict
            /\ reason = "provider_outcome_recovery" => previous = Latest
Claims(a) ==
    /\ rows[a].status = "requested"
    /\ rows' = [rows EXCEPT ![a].status = "running"]
    /\ UNCHANGED <<bindings, history>>
Ends(a) ==
    /\ rows[a].status \in Live
    /\ rows' \in [Attempt -> Row] /\ bindings' \in [Attempt -> Binding]
    /\ \A b \in Attempt \ {a} : rows'[b] = rows[b] /\ bindings'[b] = bindings[b]
    /\ rows'[a].status \in Terminal
    /\ rows'[a].previous = rows[a].previous /\ rows'[a].reason = rows[a].reason
    /\ rows'[a].report # "none" => rows'[a].status \in Verdict
    /\ bindings'[a].state # "none"
    /\ UNCHANGED history
RowStep(a) == Parks \/ Inserts(a) \/ Claims(a) \/ Ends(a)

\* What the invariant says of rows, bindings and history alone.
RowsSound ==
    /\ rows \in [Attempt -> Row] /\ history \in Seq(Attempt) /\ bindings \in [Attempt -> Binding]
    /\ Placed /\ LiveIsActive /\ InsertedOnce /\ RepeatsFollow
    /\ \A a \in Attempt : rows[a].report # "none" => rows[a].status \in Verdict

LEMMA RowsAreSound == VerificationInvariant => RowsSound
BY DEF VerificationInvariant, TypeOK, RowsSound, Binding, Placed, ReportsAreVerdicts

\* A terminal row stays as it is; a row that may still be claimed was so before.
RowsGoOn ==
    \A a \in Attempt :
        /\ rows[a].status \in Terminal => rows'[a] = rows[a]
        /\ rows'[a].status \in {"absent", "requested"} => rows[a].status \in {"absent", "requested"}

LEMMA ParksKeeps == ASSUME RowsSound, Parks PROVE RowsSound' /\ RowsGoOn
BY DEF RowsSound, Parks, RowsGoOn, Placed, LiveIsActive, InsertedOnce, RepeatsFollow

LEMMA ClaimsKeeps == ASSUME RowsSound, NEW a \in Attempt, Claims(a) PROVE RowsSound' /\ RowsGoOn
<1>1. rows' \in [Attempt -> Row]
  BY DEF RowsSound, Claims, Row, Status
<1>2. /\ \A b \in Attempt \ {a} : rows'[b] = rows[b]
      /\ rows'[a].status = "running" /\ rows'[a].previous = rows[a].previous
      /\ rows'[a].reason = rows[a].reason /\ rows'[a].report = rows[a].report
  BY DEF RowsSound, Claims, Row
<1>3. rows[a].status \notin Verdict /\ rows[a].status \notin Terminal
  BY DEF Claims, Verdict, Terminal
<1>4. RowsGoOn
  BY <1>2, <1>3 DEF RowsGoOn
<1>5. Placed' /\ LiveIsActive' /\ InsertedOnce'
  BY <1>2 DEF RowsSound, Claims, Placed, LiveIsActive, InsertedOnce, Live
<1>6. RepeatsFollow'
  BY <1>1, <1>2, <1>3 DEF RowsSound, Claims, RepeatsFollow, Row
<1> QED
  BY <1>1, <1>2, <1>3, <1>4, <1>5, <1>6 DEF RowsSound, Claims

LEMMA EndsKeeps == ASSUME RowsSound, NEW a \in Attempt, Ends(a) PROVE RowsSound' /\ RowsGoOn
<1>1. rows[a].status \notin Verdict /\ rows[a].status \notin Terminal /\ rows[a].status # "absent"
  BY DEF Ends, Verdict, Terminal, Live
<1>2. rows'[a].status \notin Live /\ rows'[a].status \notin {"absent", "requested"}
  BY DEF Ends, Terminal, Live
<1>3. RowsGoOn
  BY <1>1, <1>2 DEF RowsGoOn, Ends
<1>4. Placed'
  BY <1>1, <1>2 DEF RowsSound, Ends, Placed
<1>5. LiveIsActive' /\ InsertedOnce'
  BY <1>2 DEF RowsSound, Ends, LiveIsActive, InsertedOnce
<1>6. RepeatsFollow'
  <2>1. \A c \in Attempt : rows[c].status \in Verdict => rows'[c].status \in Verdict
    BY <1>1 DEF Ends
  <2>2. \A b \in Attempt : /\ rows'[b].previous = rows[b].previous /\ rows'[b].reason = rows[b].reason
                           /\ rows[b].previous \in Attempt \union {None}
    BY DEF RowsSound, Ends, Row
  <2> QED
    BY <2>1, <2>2 DEF RowsSound, Ends, RepeatsFollow
<1>7. \A b \in Attempt : rows'[b].report # "none" => rows'[b].status \in Verdict
  BY DEF RowsSound, Ends
<1> QED
  BY <1>3, <1>4, <1>5, <1>6, <1>7 DEF RowsSound, Ends

LEMMA InsertsKeeps == ASSUME RowsSound, NEW a \in Attempt, Inserts(a) PROVE RowsSound' /\ RowsGoOn
<1>1. PICK reason \in Reason, previous \in Attempt \union {None}, ruleset \in Ruleset,
          status \in Live, gen \in Generation :
        /\ NewRow(a, reason, previous, ruleset, status, gen)
        /\ previous # None =>
            /\ reason # "provider_outcome_recovery" => rows[previous].status \in Verdict
            /\ reason = "provider_outcome_recovery" => previous = Latest
  BY DEF Inserts
<1>2. rows[a].status = "absent"
  BY DEF Inserts
<1>3. /\ rows' \in [Attempt -> Row] /\ bindings' \in [Attempt -> Binding]
      /\ \A b \in Attempt \ {a} : rows'[b] = rows[b] /\ bindings'[b] = bindings[b]
      /\ rows'[a].status = status /\ rows'[a].previous = previous /\ rows'[a].reason = reason
      /\ rows'[a].report = "none" /\ bindings'[a].state = "active"
  BY <1>1 DEF RowsSound, NewRow, Row, Binding, Live, Status
<1>4. /\ history' \in Seq(Attempt) /\ Len(history') = Len(history) + 1 /\ Len(history) \in Nat
      /\ \A i \in 1 .. Len(history) : history'[i] = history[i]
      /\ history'[Len(history) + 1] = a
  BY <1>1 DEF RowsSound, NewRow
<1>5. \A i \in 1 .. Len(history) : history[i] # a /\ history[i] \in Attempt
  BY <1>2 DEF RowsSound, Placed
<1>6. RowsGoOn
  BY <1>2, <1>3 DEF RowsGoOn, Terminal, Live
<1>7. Placed'
  <2>1. ASSUME NEW b \in Attempt PROVE (\E i \in 1 .. Len(history') : history'[i] = b)
          <=> (b = a \/ \E i \in 1 .. Len(history) : history[i] = b)
    BY <1>4
  <2> QED
    BY <1>2, <1>3, <2>1 DEF RowsSound, Placed, Live
<1>8. LiveIsActive' /\ InsertedOnce'
  <2>1. LiveIsActive'
    BY <1>3 DEF RowsSound, LiveIsActive
  <2>2. \A i \in 1 .. Len(history') : i \in 1 .. Len(history) \/ i = Len(history) + 1
    BY <1>4
  <2>3. InsertedOnce'
    BY <1>4, <1>5, <2>2 DEF RowsSound, InsertedOnce
  <2> QED
    BY <2>1, <2>3
<1>9. ASSUME NEW b \in Attempt, rows'[b].previous # None
      PROVE  /\ rows'[b].reason # "provider_outcome_recovery"
                    => rows'[rows'[b].previous].status \in Verdict
             /\ rows'[b].reason = "provider_outcome_recovery" => Follows(history', rows'[b].previous, b)
  <2>1. \A c \in Attempt : rows[c].status \in Verdict => c # a /\ rows'[c] = rows[c]
    BY <1>2, <1>3 DEF Verdict
  <2>2. CASE b = a
    <3>1. previous \in Attempt /\ rows'[b].previous = previous /\ rows'[b].reason = reason
      BY <1>3, <1>9, <2>2
    <3>2. ASSUME reason = "provider_outcome_recovery" PROVE Follows(history', previous, a)
      <4>1. previous = Latest /\ previous # None
        BY <1>1, <1>3, <1>9, <2>2, <3>2
      <4>2. Len(history) \in 1 .. Len(history') - 1 /\ history[Len(history)] = previous
        BY <1>4, <4>1 DEF Latest, RowsSound
      <4> QED
        BY <1>4, <4>2 DEF Follows
    <3>3. reason # "provider_outcome_recovery" => rows'[previous].status \in Verdict
      BY <1>1, <1>9, <2>1, <3>1
    <3> QED
      BY <2>2, <3>1, <3>2, <3>3
  <2>3. CASE b # a
    <3>1. rows'[b] = rows[b] /\ rows[b].previous \in Attempt
      BY <1>3, <1>9, <2>3 DEF RowsSound, Row
    <3>2. Follows(history, rows[b].previous, b) => Follows(history', rows[b].previous, b)
      BY <1>4, <3>1 DEF Follows
    <3>3. /\ rows[b].reason # "provider_outcome_recovery" => rows[rows[b].previous].status \in Verdict
          /\ rows[b].reason = "provider_outcome_recovery" => Follows(history, rows[b].previous, b)
      BY <1>9, <3>1 DEF RowsSound, RepeatsFollow
    <3>4. rows[rows[b].previous].status \in Verdict => rows'[rows[b].previous].status \in Verdict
      BY <2>1, <3>1
    <3> QED
      BY <3>1, <3>2, <3>3, <3>4
  <2> QED
    BY <2>2, <2>3
<1>10. RepeatsFollow'
  BY <1>9 DEF RepeatsFollow
<1>11. \A b \in Attempt : rows'[b].report # "none" => rows'[b].status \in Verdict
  BY <1>3 DEF RowsSound
<1> QED
  BY <1>3, <1>4, <1>6, <1>7, <1>8, <1>10, <1>11 DEF RowsSound

LEMMA RowsKeep == ASSUME RowsSound, NEW a \in Attempt, RowStep(a) PROVE RowsSound' /\ RowsGoOn
BY ParksKeeps, InsertsKeeps, ClaimsKeeps, EndsKeeps DEF RowStep
-------------------------------------------------------------------------------
(* The workers *)

Unleased == {"idle", "leasing", "abandoned"}

\* A worker gives its attempt up, or goes on with it under the lease.
WorkStep(w) ==
    \E c \in Call :
        /\ workers' = [workers EXCEPT ![w] = c]
        /\ c.pc \notin Unleased =>
            /\ c.attempt = AttemptOf(w)
            /\ LeaseFree(AttemptOf(w)) \/ workers[w].pc \notin Unleased
            /\ c.pc \in Executing => rows'[c.attempt].status = "running"
            /\ c.pc = "checking" /\ c.attempt # first => calls'[c.attempt] = 0
            /\ c.pc = "finishing" => c.verdict \in Verdict

\* Nobody but the holder of the lease ends a running row.
EndedBy(a, holders) ==
    Ends(a) => \/ rows[a].status = "requested"
               \/ LeaseFree(a)
               \/ \E w \in holders : HoldsLease(w, a)

LEMMA HoldersExecute ==
    ASSUME VerificationInvariant, NEW w \in Worker, workers[w].pc \in Executing
    PROVE  /\ AttemptOf(w) \in Attempt /\ HoldsLease(w, AttemptOf(w))
           /\ rows[AttemptOf(w)].status = "running"
BY DEF VerificationInvariant, TypeOK, Call, ExecutesRunning, HoldsLease, AttemptOf, Executing

LEMMA OthersExecute ==
    ASSUME VerificationInvariant, NEW a \in Attempt, RowStep(a), NEW W \in SUBSET Worker,
           EndedBy(a, W), NEW v \in Worker, workers[v].pc \in Executing,
           \A w \in W : AttemptOf(w) = AttemptOf(v) => workers[w].pc \in Unleased
    PROVE  rows'[AttemptOf(v)].status = "running"
<1>1. /\ AttemptOf(v) \in Attempt /\ HoldsLease(v, AttemptOf(v))
      /\ rows[AttemptOf(v)].status = "running"
  BY HoldersExecute
<1>2. CASE Parks \/ Inserts(a) \/ Claims(a)
  BY <1>1, <1>2 DEF Parks, Inserts, Claims, NewRow, VerificationInvariant, TypeOK, Row
<1>3. CASE Ends(a) /\ AttemptOf(v) # a
  BY <1>1, <1>3 DEF Ends
<1>4. CASE Ends(a) /\ AttemptOf(v) = a
  BY <1>1, <1>4 DEF EndedBy, LeaseFree, HoldsLease, Unleased
<1> QED
  BY <1>2, <1>3, <1>4 DEF RowStep

LEMMA WorkersStay ==
    ASSUME VerificationInvariant, NEW a \in Attempt, RowStep(a), RowsGoOn, EndedBy(a, {}),
           UNCHANGED <<workers, calls>>
    PROVE  ExecutesRunning' /\ Exclusion' /\ CallsKnow' /\ PaidOnce'
<1>1. ExecutesRunning'
  BY OthersExecute DEF ExecutesRunning, AttemptOf
<1>2. Exclusion' /\ CallsKnow'
  BY DEF VerificationInvariant, Exclusion, CallsKnow, HoldsLease, AttemptOf, At
<1>3. PaidOnce'
  BY DEF VerificationInvariant, PaidOnce, RowsGoOn, Requested
<1> QED
  BY <1>1, <1>2, <1>3

\* One lease, one worker: what it does disturbs no other.
LEMMA WorkersGoOn ==
    ASSUME VerificationInvariant, NEW a \in Attempt, RowStep(a), NEW w \in Worker,
           EndedBy(a, {w}), WorkStep(w)
    PROVE  workers' \in [Worker -> Call] /\ ExecutesRunning' /\ Exclusion'
<1>1. PICK c \in Call :
        /\ workers' = [workers EXCEPT ![w] = c]
        /\ c.pc \notin Unleased =>
            /\ c.attempt = AttemptOf(w)
            /\ LeaseFree(AttemptOf(w)) \/ workers[w].pc \notin Unleased
            /\ c.pc \in Executing => rows'[c.attempt].status = "running"
  BY DEF WorkStep
<1>2. workers \in [Worker -> Call]
  BY DEF VerificationInvariant, TypeOK
<1>3. workers' \in [Worker -> Call] /\ workers'[w] = c
      /\ \A v \in Worker \ {w} : workers'[v] = workers[v]
  BY <1>1, <1>2
<1>4. Exclusion'
  <2>1. \A b \in Attempt : HoldsLease(w, b)' => LeaseFree(b) \/ HoldsLease(w, b)
    BY <1>1, <1>3 DEF HoldsLease, AttemptOf, Unleased
  <2>2. \A b \in Attempt : \A v \in Worker \ {w} : HoldsLease(v, b)' => HoldsLease(v, b)
    BY <1>3 DEF HoldsLease, AttemptOf
  <2> QED
    BY <2>1, <2>2 DEF VerificationInvariant, Exclusion, LeaseFree
<1>5. ASSUME NEW v \in Worker, workers'[v].pc \in Executing
      PROVE  rows'[workers'[v].attempt].status = "running"
  <2>1. CASE v = w
    BY <1>1, <1>3, <1>5, <2>1 DEF Executing, Unleased
  <2>2. CASE v # w
    <3>1. workers[v].pc \in Executing /\ workers'[v] = workers[v]
      BY <1>3, <1>5, <2>2
    <3>2. HoldsLease(v, AttemptOf(v)) /\ AttemptOf(v) \in Attempt
      BY <3>1, HoldersExecute
    <3>3. AttemptOf(w) = AttemptOf(v) => workers[w].pc \in Unleased
      BY <2>2, <3>2 DEF VerificationInvariant, Exclusion, HoldsLease, AttemptOf, Unleased
    <3> QED
      BY <2>2, <3>1, <3>3, OthersExecute DEF AttemptOf
  <2> QED
    BY <2>1, <2>2
<1> QED
  BY <1>3, <1>4, <1>5 DEF ExecutesRunning, AttemptOf

LEMMA CallsStayKnown ==
    ASSUME VerificationInvariant, NEW w \in Worker, WorkStep(w), RowsGoOn, UNCHANGED calls
    PROVE  CallsKnow' /\ PaidOnce'
<1>1. PICK c \in Call :
        /\ workers' = [workers EXCEPT ![w] = c]
        /\ c.pc \notin Unleased =>
            /\ c.pc = "checking" /\ c.attempt # first => calls'[c.attempt] = 0
            /\ c.pc = "finishing" => c.verdict \in Verdict
  BY DEF WorkStep
<1>2. workers'[w] = c /\ \A v \in Worker \ {w} : workers'[v] = workers[v]
  BY <1>1 DEF VerificationInvariant, TypeOK
<1>3. CallsKnow'
  BY <1>1, <1>2 DEF VerificationInvariant, CallsKnow, At, AttemptOf, Unleased
<1>4. PaidOnce'
  BY DEF VerificationInvariant, PaidOnce, RowsGoOn, Requested
<1> QED
  BY <1>3, <1>4
-------------------------------------------------------------------------------
(* The rest of the state *)

RestTypes ==
    /\ account \in [generation : Generation, held : BOOLEAN]
    /\ gate \in [p0 : BOOLEAN, current : BOOLEAN, cancelled : BOOLEAN, ready : BOOLEAN,
                ruleset : Ruleset]
    /\ projection \in Attempt \union {None}
    /\ delivery \in {"none", "committing", "delivered"}
    /\ offers \in [Requested -> Offer]
    /\ sweepers \in [Sweeper -> [pc : {"idle", "acting"}, attempt : Attempt, seen : Status]]
    /\ calls \in [Attempt -> 0 .. 2]
    /\ stops \in 0 .. MaxStops

LEMMA TypesAreParts ==
    TypeOK <=> /\ RestTypes /\ workers \in [Worker -> Call] /\ history \in Seq(Attempt)
               /\ rows \in [Attempt -> Row] /\ bindings \in [Attempt -> Binding]
               /\ \A a \in Attempt : rows[a].status # "absent"
                    <=> (bindings[a].state # "none" /\ \E i \in 1 .. Len(history) : history[i] = a)
BY DEF TypeOK, RestTypes, Binding

LEMMA PartsMakeIt ==
    ASSUME RestTypes', workers' \in [Worker -> Call], RowsSound', ExecutesRunning', Exclusion',
           PaidOnce', CallsKnow', SeenIsFinal', OffersAreNew', ReportsAreVerdicts'
    PROVE  VerificationInvariant'
<1>1. TypeOK'
  BY DEF TypeOK, RestTypes, RowsSound, Placed, Binding
<1> QED
  BY <1>1 DEF VerificationInvariant, RowsSound

LEMMA OffersStay ==
    ASSUME VerificationInvariant, NEW a \in Attempt, RowStep(a), RowsGoOn, UNCHANGED offers,
           Parks \/ rows[a].status # "absent" \/ a = first
    PROVE  OffersAreNew'
<1> SUFFICES ASSUME NEW b \in Requested, offers[b] # NoOffer
             PROVE  /\ rows'[b].status = "absent"
                    /\ offers[b].previous \in Attempt
                    /\ offers[b].reason # None
                    /\ offers[b].reason # "provider_outcome_recovery"
                           => rows'[offers[b].previous].status \in Verdict
  BY DEF OffersAreNew
<1>1. /\ rows[b].status = "absent" /\ offers[b].previous \in Attempt /\ offers[b].reason # None
      /\ offers[b].reason # "provider_outcome_recovery" => rows[offers[b].previous].status \in Verdict
  BY DEF VerificationInvariant, OffersAreNew
<1>2. rows'[b] = rows[b]
  <2>1. CASE Parks
    BY <2>1 DEF Parks
  <2>2. CASE a # b /\ (Inserts(a) \/ Claims(a) \/ Ends(a))
    BY <2>2 DEF Inserts, Claims, Ends, NewRow, Requested, VerificationInvariant, TypeOK
  <2>3. a = b => Parks
    BY <1>1 DEF Requested, RowStep, Claims, Ends, Live
  <2> QED
    BY <2>1, <2>2, <2>3 DEF RowStep
<1> QED
  BY <1>1, <1>2 DEF RowsGoOn, Verdict, Terminal

LEMMA ReportsStay ==
    ASSUME VerificationInvariant, RowsSound', RowsGoOn, UNCHANGED <<gate, delivery>>
    PROVE  ReportsAreVerdicts'
BY AttemptAssumption
   DEF VerificationInvariant, RowsSound, ReportsAreVerdicts, RowsGoOn, Verdict, Terminal

LEMMA SeenStays ==
    ASSUME VerificationInvariant, RowsGoOn, UNCHANGED sweepers
    PROVE  SeenIsFinal'
BY DEF VerificationInvariant, TypeOK, SeenIsFinal, RowsGoOn

LEMMA WorkerKeeps ==
    ASSUME VerificationInvariant, NEW a \in Attempt, RowStep(a),
           Parks \/ rows[a].status # "absent" \/ a = first,
           NEW w \in Worker, EndedBy(a, {w}), WorkStep(w),
           UNCHANGED <<account, gate, delivery, offers, sweepers, calls>>,
           projection' \in Attempt \union {None}, stops' \in 0 .. MaxStops
    PROVE  VerificationInvariant'
<1>1. RowsSound' /\ RowsGoOn
  BY RowsAreSound, RowsKeep
<1>2. RestTypes'
  BY TypesAreParts DEF VerificationInvariant, RestTypes
<1>3. workers' \in [Worker -> Call] /\ ExecutesRunning' /\ Exclusion'
  BY WorkersGoOn
<1>4. CallsKnow' /\ PaidOnce'
  BY <1>1, CallsStayKnown
<1>5. OffersAreNew' /\ ReportsAreVerdicts' /\ SeenIsFinal'
  BY <1>1, OffersStay, ReportsStay, SeenStays
<1> QED
  BY <1>1, <1>2, <1>3, <1>4, <1>5, PartsMakeIt

LEMMA OthersKeep ==
    ASSUME VerificationInvariant, NEW a \in Attempt, RowStep(a), EndedBy(a, {}),
           UNCHANGED <<workers, calls>>, RestTypes',
           SeenIsFinal', OffersAreNew', RowsSound' /\ RowsGoOn => ReportsAreVerdicts'
    PROVE  VerificationInvariant'
<1>1. RowsSound' /\ RowsGoOn
  BY RowsAreSound, RowsKeep
<1>2. ExecutesRunning' /\ Exclusion' /\ CallsKnow' /\ PaidOnce'
  BY <1>1, WorkersStay
<1>3. workers' \in [Worker -> Call]
  BY DEF VerificationInvariant, TypeOK
<1> QED
  BY <1>1, <1>2, <1>3, PartsMakeIt
-------------------------------------------------------------------------------
(* What the helpers of the actions do *)

LEMMA KeptParks ==
    ASSUME VerificationInvariant, UNCHANGED <<rows, bindings, history>>
    PROVE  Parks
BY DEF VerificationInvariant, TypeOK, Parks, Binding

LEMMA DropIsStep ==
    ASSUME VerificationInvariant, NEW w \in Worker, Drop(w)
    PROVE  WorkStep(w)
<1>1. Idle \in Call /\ Idle.pc \in Unleased
  BY AttemptAssumption, VerificationBoundAssumption
     DEF Idle, Call, Pc, Generation, Unleased
<1> QED
  BY <1>1 DEF WorkStep, Drop

LEMMA GotoIsStep ==
    ASSUME VerificationInvariant, NEW w \in Worker, NEW pc \in Pc, Goto(w, pc),
           pc # "finishing",
           pc \notin Unleased =>
               /\ LeaseFree(AttemptOf(w)) \/ workers[w].pc \notin Unleased
               /\ pc \in Executing => rows'[AttemptOf(w)].status = "running"
               /\ pc = "checking" /\ AttemptOf(w) # first => calls'[AttemptOf(w)] = 0
    PROVE  WorkStep(w)
<1> DEFINE c == [workers[w] EXCEPT !.pc = pc]
<1>1. workers \in [Worker -> Call]
  BY DEF VerificationInvariant, TypeOK
<1>2. c \in Call /\ c.pc = pc /\ c.attempt = AttemptOf(w)
  BY <1>1 DEF Call, AttemptOf
<1>3. workers' = [workers EXCEPT ![w] = c]
  BY <1>1 DEF Goto
<1> HIDE DEF c
<1> QED
  BY <1>2, <1>3 DEF WorkStep

LEMMA StoppedBindings ==
    ASSUME VerificationInvariant, NEW a \in Attempt, NEW failed \in BOOLEAN,
           bindings[a].state # "none"
    PROVE  /\ Stopped(a, failed) \in [Attempt -> Binding]
           /\ \A b \in Attempt \ {a} : Stopped(a, failed)[b] = bindings[b]
           /\ Stopped(a, failed)[a].state # "none"
<1>1. bindings \in [Attempt -> Binding]
  BY TypesAreParts DEF VerificationInvariant
<1>2. CASE bindings[a].state = "paused"
  BY <1>1, <1>2 DEF Stopped
<1>3. CASE bindings[a].state # "paused"
  <2> DEFINE st == IF failed THEN "cleanup_failed" ELSE "paused"
             b0 == [bindings[a] EXCEPT !.state = st]
  <2>1. Stopped(a, failed) = [bindings EXCEPT ![a] = b0]
    BY <1>1, <1>3 DEF Stopped
  <2>2. b0 \in Binding /\ b0.state # "none"
    BY <1>1 DEF Binding
  <2> HIDE DEF b0
  <2> QED
    BY <1>1, <2>1, <2>2
<1> QED
  BY <1>2, <1>3

LEMMA ExistingRow ==
    ASSUME VerificationInvariant, NEW a \in Attempt, rows[a].status # "absent"
    PROVE  bindings[a].state # "none"
BY DEF VerificationInvariant, Placed

LEMMA ClosingEnds ==
    ASSUME VerificationInvariant, NEW a \in Attempt, rows[a].status \in Live,
           NEW status \in Terminal, NEW failed \in BOOLEAN,
           rows' = [rows EXCEPT ![a].status = status],
           bindings' = Stopped(a, failed), UNCHANGED history
    PROVE  Ends(a)
<1>1. rows \in [Attempt -> Row] /\ bindings[a].state # "none"
  BY ExistingRow DEF VerificationInvariant, TypeOK, Live
<1>2. rows[a].report = "none"
  BY DEF VerificationInvariant, ReportsAreVerdicts, Live, Verdict
<1>3. /\ rows' \in [Attempt -> Row] /\ \A b \in Attempt \ {a} : rows'[b] = rows[b]
      /\ rows'[a].status = status /\ rows'[a].previous = rows[a].previous
      /\ rows'[a].reason = rows[a].reason /\ rows'[a].report = rows[a].report
  BY <1>1 DEF Row, Status
<1> QED
  BY <1>1, <1>2, <1>3, StoppedBindings DEF Ends

LEMMA StopRowStep ==
    ASSUME VerificationInvariant, NEW a \in Attempt, NEW gen, NEW status \in {"cancelled", "outcome_unknown"},
           StopRow(a, gen, status), UNCHANGED history
    PROVE  Parks \/ (Ends(a) /\ rows[a].status = "running")
<1>1. CASE CanStop(a, gen, status)
  BY <1>1, ClosingEnds DEF StopRow, CanStop, Live, Terminal
<1>2. CASE ~CanStop(a, gen, status)
  BY <1>2, KeptParks DEF StopRow
<1> QED
  BY <1>1, <1>2

LEMMA ReportEnds ==
    ASSUME VerificationInvariant, NEW a \in Attempt, rows[a].status = "running",
           NEW status \in Verdict, NEW report \in {"verdict", "error"},
           ReportRow(a, status, report), UNCHANGED history
    PROVE  Ends(a)
<1>1. /\ rows \in [Attempt -> Row] /\ bindings \in [Attempt -> Binding]
      /\ rows' = [rows EXCEPT ![a].status = status, ![a].report = report]
      /\ bindings' = [bindings EXCEPT ![a].state = "idle"]
  BY DEF VerificationInvariant, TypeOK, ReportRow, Binding
<1>2. /\ rows' \in [Attempt -> Row] /\ \A b \in Attempt \ {a} : rows'[b] = rows[b]
      /\ rows'[a].status = status /\ rows'[a].previous = rows[a].previous
      /\ rows'[a].reason = rows[a].reason
  BY <1>1 DEF Row, Status, Terminal, Verdict
<1>3. /\ bindings' \in [Attempt -> Binding] /\ \A b \in Attempt \ {a} : bindings'[b] = bindings[b]
      /\ bindings'[a].state = "idle"
  BY <1>1 DEF Binding
<1> QED
  BY <1>2, <1>3 DEF Ends, Live, Terminal, Verdict

LEMMA NotEnded ==
    ASSUME VerificationInvariant, NEW a \in Attempt, NEW W, Parks \/ Inserts(a) \/ Claims(a)
    PROVE  EndedBy(a, W)
<1>1. CASE Parks
  BY <1>1 DEF Parks, EndedBy, Ends, Live, Terminal
<1>2. CASE Inserts(a)
  BY <1>2 DEF Inserts, EndedBy, Ends, Live
<1>3. CASE Claims(a)
  BY <1>3 DEF Claims, EndedBy
<1> QED
  BY <1>1, <1>2, <1>3

\* What a worker does to itself alone.
LEMMA QuietWorker ==
    ASSUME VerificationInvariant, NEW w \in Worker, WorkStep(w),
           UNCHANGED <<account, gate, rows, history, bindings, projection, delivery, offers,
                       sweepers, calls>>,
           stops' \in 0 .. MaxStops
    PROVE  VerificationInvariant'
<1>1. Parks
  BY KeptParks
<1>2. first \in Attempt /\ RowStep(first) /\ EndedBy(first, {w})
  BY <1>1, AttemptAssumption, NotEnded DEF RowStep
<1>3. projection' \in Attempt \union {None}
  BY DEF VerificationInvariant, TypeOK
<1> QED
  BY <1>1, <1>2, <1>3, WorkerKeeps

\* What somebody else does beside the rows.
LEMMA QuietOther ==
    ASSUME VerificationInvariant, UNCHANGED <<rows, history, bindings, workers, calls>>,
           RestTypes', SeenIsFinal', OffersAreNew', ReportsAreVerdicts'
    PROVE  VerificationInvariant'
<1>1. first \in Attempt /\ RowStep(first) /\ EndedBy(first, {})
  BY KeptParks, AttemptAssumption, NotEnded DEF RowStep
<1> QED
  BY <1>1, OthersKeep

LEMMA SameStops == VerificationInvariant => stops \in 0 .. MaxStops
BY DEF VerificationInvariant, TypeOK

LEMMA MoreStops ==
    ASSUME VerificationInvariant, stops < MaxStops, stops' = stops + 1
    PROVE  stops' \in 0 .. MaxStops
BY VerificationBoundAssumption DEF VerificationInvariant, TypeOK
-------------------------------------------------------------------------------
(* The actions of the workers *)

LEMMA CallOf ==
    ASSUME VerificationInvariant, NEW w \in Worker
    PROVE  /\ workers[w] \in Call /\ AttemptOf(w) \in Attempt
           /\ workers[w].pc \notin Unleased => HoldsLease(w, AttemptOf(w))
BY DEF VerificationInvariant, TypeOK, Call, AttemptOf, HoldsLease, Unleased

LEMMA BeginKeeps ==
    ASSUME VerificationInvariant, NEW w \in Worker,
           Begin(w) \/ \E a \in Requested : Schedule(w, a)
    PROVE  VerificationInvariant'
<1>1. PICK c \in Call : c.pc \in Unleased /\ workers' = [workers EXCEPT ![w] = c]
  <2>1. CASE Begin(w)
    <3> DEFINE c == [Idle EXCEPT !.pc = "leasing", !.generation = account.generation]
    <3>1. c \in Call /\ c.pc \in Unleased
      BY AttemptAssumption DEF VerificationInvariant, TypeOK, Idle, Call, Pc, Unleased
    <3> QED
      BY <2>1, <3>1 DEF Begin
  <2>2. ASSUME NEW a \in Requested, Schedule(w, a)
        PROVE  \E c \in Call : c.pc \in Unleased /\ workers' = [workers EXCEPT ![w] = c]
    <3> DEFINE c == [Idle EXCEPT !.pc = "leasing", !.attempt = a,
                                 !.generation = bindings[a].generation]
    <3>1. c \in Call /\ c.pc \in Unleased
      BY DEF VerificationInvariant, TypeOK, Idle, Call, Pc, Unleased, Requested
    <3> QED
      BY <2>2, <3>1 DEF Schedule
  <2> QED
    BY <2>1, <2>2
<1>2. WorkStep(w)
  BY <1>1 DEF WorkStep
<1> QED
  BY <1>2, SameStops, QuietWorker DEF Begin, Schedule

LEMMA LeaseKeeps ==
    ASSUME VerificationInvariant, NEW w \in Worker, Lease(w)
    PROVE  VerificationInvariant'
<1>1. CASE LeaseFree(AttemptOf(w))
  <2>1. \E pc \in {"starting", "loading"} : Goto(w, pc)
    BY <1>1 DEF Lease
  <2> QED
    BY <1>1, <2>1, GotoIsStep, SameStops, QuietWorker DEF Lease, Pc, Executing, Unleased
<1>2. CASE ~LeaseFree(AttemptOf(w))
  BY <1>2, DropIsStep, SameStops, QuietWorker DEF Lease
<1> QED
  BY <1>1, <1>2

LEMMA CreateAndStartKeeps ==
    ASSUME VerificationInvariant, NEW w \in Worker, CreateAndStart(w)
    PROVE  VerificationInvariant'
<1> DEFINE gen == workers[w].generation
           opens == rows[first].status = "absent" /\ Active = {} /\ ~gate.p0 /\ Authorized(gen)
           again == rows[first].status = "running" /\ ~gate.p0 /\ BindingUsable(first, gen)
<1>1. first \in Attempt /\ AttemptOf(w) = first /\ workers[w].pc = "starting" /\ gen \in Generation
  BY AttemptAssumption, CallOf DEF CreateAndStart, At, Call
<1>2. CASE opens
  <2>1. NewRow(first, "initial", None, gate.ruleset, "running", gen) /\ Goto(w, "checking")
    BY <1>2 DEF CreateAndStart
  <2>2. Inserts(first)
    BY <1>1, <1>2, <2>1 DEF Inserts, Reason, Live, VerificationInvariant, TypeOK
  <2>3. rows'[first].status = "running"
    BY <1>1, <2>1 DEF NewRow, VerificationInvariant, TypeOK
  <2>4. WorkStep(w)
    BY <1>1, <2>1, <2>3, GotoIsStep DEF Pc, Unleased
  <2> QED
    BY <1>1, <2>2, <2>4, NotEnded, SameStops, WorkerKeeps
       DEF CreateAndStart, RowStep, VerificationInvariant, TypeOK
<1>3. CASE ~opens /\ again
  <2>1. Goto(w, "checking") /\ rows'[first].status = "running"
    BY <1>3 DEF CreateAndStart
  <2>2. WorkStep(w)
    BY <1>1, <2>1, GotoIsStep DEF Pc, Unleased
  <2> QED
    BY <1>3, <2>2, SameStops, QuietWorker DEF CreateAndStart
<1>4. CASE ~opens /\ ~again
  BY <1>4, DropIsStep, SameStops, QuietWorker DEF CreateAndStart
<1> QED
  BY <1>2, <1>3, <1>4

LEMMA LoadKeeps ==
    ASSUME VerificationInvariant, NEW w \in Worker, Load(w)
    PROVE  VerificationInvariant'
<1>1. workers[w].pc = "loading" /\ workers[w].pc \notin Unleased
  BY DEF Load, At, Unleased
<1>2. CASE Goto(w, "closing")
  BY <1>1, <1>2, GotoIsStep, SameStops, QuietWorker DEF Load, Pc, Executing, Unleased
<1>3. CASE workers' = [workers EXCEPT ![w].pc = "starting", ![w].projection = projection]
  <2> DEFINE c == [workers[w] EXCEPT !.pc = "starting", !.projection = projection]
  <2>1. workers \in [Worker -> Call] /\ projection \in Attempt \union {None}
    BY DEF VerificationInvariant, TypeOK
  <2>2. c \in Call /\ c.pc = "starting" /\ c.attempt = AttemptOf(w)
    BY <2>1 DEF Call, Pc, AttemptOf
  <2>3. workers' = [workers EXCEPT ![w] = c]
    BY <1>3, <2>1
  <2> HIDE DEF c
  <2>4. WorkStep(w)
    BY <1>1, <2>2, <2>3 DEF WorkStep, Executing
  <2> QED
    BY <2>4, SameStops, QuietWorker DEF Load
<1> QED
  BY <1>2, <1>3 DEF Load

LEMMA StartRequestedKeeps ==
    ASSUME VerificationInvariant, NEW w \in Worker, StartRequested(w)
    PROVE  VerificationInvariant'
<1> DEFINE a == AttemptOf(w)
<1>1. a \in Attempt /\ workers[w].pc = "starting" /\ workers[w].pc \notin Unleased /\ a # first
  BY CallOf DEF StartRequested, At, Unleased
<1>2. UNCHANGED <<account, gate, history, projection, delivery, offers, sweepers, calls, stops>>
  BY DEF StartRequested
<1>3. CASE Goto(w, "closing") /\ UNCHANGED <<rows, bindings>>
  <2>1. WorkStep(w)
    BY <1>1, <1>3, GotoIsStep DEF Pc, Executing
  <2> QED
    BY <1>2, <1>3, <2>1, SameStops, QuietWorker
<1>4. CASE Drop(w) /\ UNCHANGED <<rows, bindings>>
  BY <1>2, <1>4, DropIsStep, SameStops, QuietWorker
<1>5. CASE /\ Claimable(a) /\ rows' = [rows EXCEPT ![a].status = "running"]
           /\ Goto(w, "checking") /\ UNCHANGED bindings
  <2>1. Claims(a)
    BY <1>2, <1>5 DEF Claims, Claimable
  <2>2. rows'[a].status = "running" /\ calls[a] = 0 /\ rows[a].status # "absent"
    BY <1>1, <1>5 DEF Claimable, VerificationInvariant, TypeOK, Row, PaidOnce, Requested
  <2>3. WorkStep(w)
    BY <1>1, <1>2, <1>5, <2>2, GotoIsStep DEF Pc
  <2> QED
    BY <1>1, <1>2, <2>1, <2>2, <2>3, NotEnded, SameStops, WorkerKeeps
       DEF RowStep, VerificationInvariant, TypeOK
<1>6. CASE /\ Claimable(a) /\ rows' = [rows EXCEPT ![a].status = "cancelled"]
           /\ bindings' = Stopped(a, FALSE) /\ Drop(w)
  <2>1. rows[a].status = "requested"
    BY <1>6 DEF Claimable
  <2>2. Ends(a)
    BY <1>1, <1>2, <1>6, <2>1, ClosingEnds DEF Live, Terminal
  <2> QED
    BY <1>1, <1>2, <1>6, <2>1, <2>2, DropIsStep, SameStops, WorkerKeeps
       DEF RowStep, EndedBy, VerificationInvariant, TypeOK
<1> QED
  BY <1>3, <1>4, <1>5, <1>6 DEF StartRequested

\* A worker past the claim goes to another stage of the same execution.
LEMMA ExecutingGoes ==
    ASSUME VerificationInvariant, NEW w \in Worker, workers[w].pc \in Executing,
           NEW pc \in Pc, pc # "checking", pc # "finishing", Goto(w, pc), UNCHANGED rows
    PROVE  WorkStep(w)
<1>1. rows'[AttemptOf(w)].status = "running" /\ workers[w].pc \notin Unleased
  BY HoldersExecute DEF Executing, Unleased
<1> QED
  BY <1>1, GotoIsStep

LEMMA VerifyStartKeeps ==
    ASSUME VerificationInvariant, NEW w \in Worker, VerifyStart(w)
    PROVE  VerificationInvariant'
<1> DEFINE a == AttemptOf(w)
<1>1. /\ workers[w].pc = "checking" /\ workers[w].pc \in Executing
      /\ a \in Attempt /\ HoldsLease(w, a) /\ rows[a].status = "running"
  BY HoldersExecute DEF VerifyStart, At, Executing
<1>2. UNCHANGED <<account, gate, rows, history, bindings, projection, delivery, offers, sweepers, stops>>
  BY DEF VerifyStart
<1>3. CASE UNCHANGED calls /\ \E pc \in {"cancelling", "losing"} : Goto(w, pc)
  BY <1>1, <1>2, <1>3, ExecutingGoes, SameStops, QuietWorker DEF Pc
<1>4. CASE Goto(w, "verifying") /\ calls' = [calls EXCEPT ![a] = Bump(@)]
  <2>1. WorkStep(w) /\ Parks
    BY <1>1, <1>2, <1>4, ExecutingGoes, KeptParks DEF Pc
  <2>2. RowStep(a) /\ EndedBy(a, {w})
    BY <1>1, <2>1, NotEnded DEF RowStep
  <2>3. RowsSound' /\ RowsGoOn
    BY <1>1, <2>2, RowsAreSound, RowsKeep
  <2>4. workers' \in [Worker -> Call] /\ ExecutesRunning' /\ Exclusion'
    BY <1>1, <2>1, <2>2, WorkersGoOn
  <2>5. calls' \in [Attempt -> 0 .. 2] /\ \A b \in Attempt \ {a} : calls'[b] = calls[b]
    BY <1>1, <1>4 DEF VerificationInvariant, TypeOK, Bump
  <2>6. RestTypes'
    BY <1>2, <2>5 DEF VerificationInvariant, TypeOK, RestTypes
  <2>7. CallsKnow'
    <3>1. \A v \in Worker \ {w} : workers'[v] = workers[v]
      BY <1>4 DEF Goto, VerificationInvariant, TypeOK
    <3>2. workers'[w].pc = "verifying"
      BY <1>4 DEF Goto, VerificationInvariant, TypeOK, Call
    <3>3. ASSUME NEW v \in Worker \ {w}, workers[v].pc = "checking"
          PROVE  AttemptOf(v) # a /\ AttemptOf(v) \in Attempt
      BY <1>1, <3>3, HoldersExecute DEF Executing, VerificationInvariant, Exclusion
    <3> QED
      BY <2>5, <3>1, <3>2, <3>3 DEF VerificationInvariant, CallsKnow, At, AttemptOf
  <2>8. PaidOnce'
    <3>1. a # first => calls[a] = 0
      BY <1>1 DEF VerificationInvariant, CallsKnow, At
    <3>2. a # first => calls'[a] = 1
      BY <1>1, <1>4, <3>1 DEF VerificationInvariant, TypeOK, Bump
    <3> QED
      BY <1>1, <1>2, <2>5, <3>2 DEF VerificationInvariant, PaidOnce, Requested
  <2>9. OffersAreNew' /\ ReportsAreVerdicts' /\ SeenIsFinal'
    BY <1>1, <1>2, <2>1, <2>2, <2>3, OffersStay, ReportsStay, SeenStays
  <2> QED
    BY <2>3, <2>4, <2>6, <2>7, <2>8, <2>9, PartsMakeIt
<1> QED
  BY <1>3, <1>4 DEF VerifyStart, Abort

LEMMA VerifyEndKeeps ==
    ASSUME VerificationInvariant, NEW w \in Worker, VerifyEnd(w)
    PROVE  VerificationInvariant'
<1>1. workers[w].pc = "verifying" /\ workers[w].pc \in Executing
  BY DEF VerifyEnd, At, Executing
<1>2. CASE \E pc \in {"cancelling", "losing", "failing"} : Goto(w, pc)
  <2>1. WorkStep(w)
    BY <1>1, <1>2, ExecutingGoes DEF VerifyEnd, Pc
  <2> QED
    BY <2>1, SameStops, QuietWorker DEF VerifyEnd
<1>3. ASSUME NEW v \in Verdict,
             workers' = [workers EXCEPT ![w].pc = "finishing", ![w].verdict = v]
      PROVE  VerificationInvariant'
  <2> DEFINE c == [workers[w] EXCEPT !.pc = "finishing", !.verdict = v]
  <2>1. workers \in [Worker -> Call] /\ rows'[AttemptOf(w)].status = "running"
    BY <1>1, HoldersExecute DEF VerificationInvariant, TypeOK, VerifyEnd
  <2>2. c \in Call /\ c.pc = "finishing" /\ c.attempt = AttemptOf(w) /\ c.verdict = v
    BY <2>1 DEF Call, Pc, AttemptOf
  <2>3. workers' = [workers EXCEPT ![w] = c]
    BY <1>3, <2>1
  <2> HIDE DEF c
  <2>4. WorkStep(w)
    BY <1>1, <2>1, <2>2, <2>3 DEF WorkStep, Unleased
  <2> QED
    BY <2>4, SameStops, QuietWorker DEF VerifyEnd
<1> QED
  BY <1>2, <1>3 DEF VerifyEnd, Abort

\* The holder of the lease ends the running row of its attempt.
LEMMA HolderEnds ==
    ASSUME VerificationInvariant, NEW w \in Worker, workers[w].pc \in Executing,
           Parks \/ Ends(AttemptOf(w)), WorkStep(w),
           UNCHANGED <<account, gate, delivery, offers, sweepers, calls, stops>>,
           projection' \in Attempt \union {None}
    PROVE  VerificationInvariant'
<1>1. /\ AttemptOf(w) \in Attempt /\ HoldsLease(w, AttemptOf(w))
      /\ rows[AttemptOf(w)].status = "running"
  BY HoldersExecute
<1>2. RowStep(AttemptOf(w)) /\ EndedBy(AttemptOf(w), {w})
  BY <1>1 DEF RowStep, EndedBy
<1>3. stops' \in 0 .. MaxStops
  BY SameStops
<1> QED
  BY <1>1, <1>2, <1>3, WorkerKeeps

LEMMA FinishKeeps ==
    ASSUME VerificationInvariant, NEW w \in Worker, Finish(w)
    PROVE  VerificationInvariant'
<1> DEFINE a == AttemptOf(w)
           usable == BindingUsable(a, workers[w].generation)
<1>1. /\ workers[w].pc \in Executing /\ workers[w].verdict \in Verdict
      /\ a \in Attempt /\ projection \in Attempt \union {None}
  BY CallOf DEF Finish, At, Executing, VerificationInvariant, TypeOK, CallsKnow
<1>2. UNCHANGED <<account, gate, history, delivery, offers, sweepers, calls, stops>>
  BY DEF Finish
<1>3. CASE usable /\ MayReport(a)
  <2>1. ReportRow(a, workers[w].verdict, "verdict") /\ projection' = a /\ Drop(w)
    BY <1>3 DEF Finish
  <2>2. Ends(a)
    BY <1>1, <1>2, <1>3, <2>1, ReportEnds DEF MayReport
  <2> QED
    BY <1>1, <1>2, <2>1, <2>2, DropIsStep, HolderEnds
<1>4. CASE ~(usable /\ MayReport(a))
  <2>1. /\ UNCHANGED <<rows, bindings, projection>>
        /\ \E pc \in {"cancelling", "losing", "doubting"} : Goto(w, pc)
    BY <1>4 DEF Finish, Doubt
  <2>2. WorkStep(w)
    BY <1>1, <2>1, ExecutingGoes DEF Pc
  <2> QED
    BY <1>2, <2>1, <2>2, SameStops, QuietWorker
<1> QED
  BY <1>3, <1>4

LEMMA FinishStoppedKeeps ==
    ASSUME VerificationInvariant, NEW w \in Worker, FinishStopped(w)
    PROVE  VerificationInvariant'
<1>1. /\ workers[w].pc \in Executing /\ AttemptOf(w) \in Attempt
      /\ projection' \in Attempt \union {None}
  BY CallOf DEF FinishStopped, At, Executing, VerificationInvariant, TypeOK
<1>2. \E status \in {"cancelled", "outcome_unknown"} :
          StopRow(AttemptOf(w), workers[w].generation, status)
  BY DEF FinishStopped
<1>3. Parks \/ Ends(AttemptOf(w))
  BY <1>1, <1>2, StopRowStep DEF FinishStopped
<1> QED
  BY <1>1, <1>3, DropIsStep, HolderEnds DEF FinishStopped

LEMMA FinishInconclusiveKeeps ==
    ASSUME VerificationInvariant, NEW w \in Worker, FinishInconclusive(w)
    PROVE  VerificationInvariant'
<1> DEFINE a == AttemptOf(w)
<1>1. /\ workers[w].pc \in Executing /\ a \in Attempt /\ projection \in Attempt \union {None}
  BY CallOf DEF FinishInconclusive, At, Executing, VerificationInvariant, TypeOK
<1>2. CASE ReportRow(a, "inconclusive", "error") /\ rows[a].status = "running"
  <2>1. Ends(a)
    BY <1>1, <1>2, ReportEnds DEF FinishInconclusive, Verdict
  <2>2. projection' \in Attempt \union {None}
    BY <1>1 DEF FinishInconclusive
  <2> QED
    BY <1>1, <2>1, <2>2, DropIsStep, HolderEnds DEF FinishInconclusive
<1>3. CASE UNCHANGED <<rows, bindings, projection>>
  BY <1>3, DropIsStep, SameStops, QuietWorker DEF FinishInconclusive
<1> QED
  BY <1>2, <1>3 DEF FinishInconclusive

LEMMA CloseKeeps ==
    ASSUME VerificationInvariant, NEW w \in Worker, Close(w)
    PROVE  VerificationInvariant'
<1> DEFINE a == AttemptOf(w)
<1>1. a \in Attempt /\ WorkStep(w)
  BY CallOf, DropIsStep DEF Close
<1>2. UNCHANGED <<account, gate, history, projection, delivery, offers, sweepers, calls, stops>>
  BY DEF Close
<1>3. CASE /\ rows[a].status = "requested" /\ rows' = [rows EXCEPT ![a].status = "cancelled"]
           /\ bindings' = Stopped(a, FALSE)
  <2>1. Ends(a)
    BY <1>1, <1>2, <1>3, ClosingEnds DEF Live, Terminal
  <2> QED
    BY <1>1, <1>2, <1>3, <2>1, SameStops, WorkerKeeps
       DEF RowStep, EndedBy, VerificationInvariant, TypeOK
<1>4. CASE UNCHANGED <<rows, bindings>>
  BY <1>1, <1>2, <1>4, SameStops, QuietWorker
<1> QED
  BY <1>3, <1>4 DEF Close

LEMMA StopsKeep ==
    ASSUME VerificationInvariant, NEW w \in Worker, Interrupt(w) \/ Crash(w)
    PROVE  VerificationInvariant'
<1>1. WorkStep(w)
  <2>1. CASE Crash(w)
    BY <2>1, DropIsStep DEF Crash
  <2>2. CASE Interrupt(w) /\ At(w, "verifying")
    <3>1. \E pc \in {"losing", "cancelling"} : Goto(w, pc)
      BY <2>2 DEF Interrupt, Abort, At
    <3> QED
      BY <2>2, <3>1, ExecutingGoes DEF Interrupt, At, Pc, Executing
  <2>3. CASE Interrupt(w) /\ ~At(w, "verifying")
    <3>1. Goto(w, "abandoned") \/ (workers[w].pc = "loading" /\ Goto(w, "closing"))
      BY <2>3 DEF Interrupt, At
    <3> QED
      BY <3>1, GotoIsStep DEF Pc, Unleased, Executing
  <2> QED
    BY <2>1, <2>2, <2>3
<1>2. stops' \in 0 .. MaxStops
  BY MoreStops DEF Interrupt, Crash
<1> QED
  BY <1>1, <1>2, QuietWorker DEF Interrupt, Crash
-------------------------------------------------------------------------------
(* The actions beside the workers *)

LEMMA LatestIsAttempt ==
    ASSUME VerificationInvariant, Latest # None
    PROVE  Latest \in Attempt /\ history # <<>> /\ Latest = history[Len(history)]
BY DEF VerificationInvariant, TypeOK, Latest

LEMMA InspectKeeps ==
    ASSUME VerificationInvariant, NEW a \in Requested, Inspect(a)
    PROVE  VerificationInvariant'
<1> DEFINE o == [previous |-> Latest, reason |-> OfferedReason,
                 ruleset |-> gate.ruleset, generation |-> account.generation]
<1>1. Latest \in Attempt /\ OfferedReason # None /\ rows[a].status = "absent"
  BY LatestIsAttempt DEF Inspect
<1>2. /\ OfferedReason \in Reason
      /\ OfferedReason # "provider_outcome_recovery" => rows[Latest].status \in Verdict
  BY <1>1 DEF OfferedReason, Reason, Verdict
<1>3. o \in Offer /\ offers' = [offers EXCEPT ![a] = o]
  BY <1>1, <1>2 DEF Inspect, Offer, VerificationInvariant, TypeOK
<1>4. /\ offers' \in [Requested -> Offer] /\ offers'[a] = o
      /\ \A b \in Requested \ {a} : offers'[b] = offers[b]
  BY <1>3 DEF VerificationInvariant, TypeOK
<1>5. RestTypes'
  BY <1>4 DEF RestTypes, Inspect, VerificationInvariant, TypeOK
<1>6. OffersAreNew'
  BY <1>1, <1>2, <1>4 DEF OffersAreNew, Inspect, VerificationInvariant
<1>7. SeenIsFinal' /\ ReportsAreVerdicts'
  BY DEF Inspect, VerificationInvariant, SeenIsFinal, ReportsAreVerdicts
<1> QED
  BY <1>5, <1>6, <1>7, QuietOther DEF Inspect

LEMMA RequestKeeps ==
    ASSUME VerificationInvariant, NEW a \in Requested, Request(a)
    PROVE  VerificationInvariant'
<1> DEFINE o == offers[a]
<1>1. /\ a \in Attempt /\ o \in Offer /\ o # NoOffer /\ rows[a].status = "absent"
      /\ o.previous \in Attempt /\ o.reason # None
      /\ o.reason # "provider_outcome_recovery" => rows[o.previous].status \in Verdict
  BY DEF Request, Requested, VerificationInvariant, TypeOK, OffersAreNew
<1>2. /\ offers' \in [Requested -> Offer] /\ offers'[a] = NoOffer
      /\ \A b \in Requested \ {a} : offers'[b] = offers[b]
  <2>1. NoOffer \in Offer
    BY VerificationBoundAssumption DEF NoOffer, Offer, Ruleset, Generation
  <2> QED
    BY <2>1 DEF Request, VerificationInvariant, TypeOK
<1>3. Parks \/ Inserts(a)
  <2>1. CASE UNCHANGED <<rows, history, bindings>>
    BY <2>1, KeptParks
  <2>2. CASE /\ NewRow(a, o.reason, o.previous, o.ruleset, "requested", o.generation)
             /\ o.reason = "provider_outcome_recovery" => Recoverable(o)
    <3>1. /\ o.reason \in Reason /\ o.ruleset \in Ruleset /\ o.generation \in Generation
          /\ "requested" \in Live
      BY <1>1 DEF Offer, Live
    <3>2. o.reason = "provider_outcome_recovery" => o.previous = Latest
      BY <2>2 DEF Recoverable
    <3> QED
      BY <1>1, <2>2, <3>1, <3>2 DEF Inserts
  <2> QED
    BY <2>1, <2>2 DEF Request
<1>4. RowStep(a) /\ EndedBy(a, {})
  BY <1>1, <1>3, NotEnded DEF RowStep
<1>5. RowsSound' /\ RowsGoOn
  BY <1>1, <1>4, RowsAreSound, RowsKeep
<1>6. RestTypes'
  BY <1>2 DEF RestTypes, Request, VerificationInvariant, TypeOK
<1>7. OffersAreNew'
  <2>1. \A b \in Attempt \ {a} : rows'[b] = rows[b]
    BY <1>3 DEF Parks, Inserts, NewRow, VerificationInvariant, TypeOK
  <2>2. \A b \in Attempt : rows[b].status \in Verdict => rows'[b].status \in Verdict
    BY <1>5 DEF RowsGoOn, Verdict, Terminal
  <2> QED
    BY <1>2, <2>1, <2>2 DEF OffersAreNew, VerificationInvariant, Requested
<1>8. SeenIsFinal' /\ ReportsAreVerdicts'
  BY <1>5, SeenStays, ReportsStay DEF Request
<1> QED
  BY <1>1, <1>4, <1>6, <1>7, <1>8, OthersKeep DEF Request

LEMMA SeeKeeps ==
    ASSUME VerificationInvariant, NEW s \in Sweeper, NEW a \in Attempt, See(s, a)
    PROVE  VerificationInvariant'
<1>1. rows[a].status \in Status
  BY DEF VerificationInvariant, TypeOK, Row
<1>2. /\ sweepers' \in [Sweeper -> [pc : {"idle", "acting"}, attempt : Attempt, seen : Status]]
      /\ sweepers'[s] = [pc |-> "acting", attempt |-> a, seen |-> rows[a].status]
      /\ \A t \in Sweeper \ {s} : sweepers'[t] = sweepers[t]
  BY <1>1 DEF See, VerificationInvariant, TypeOK
<1>3. RestTypes'
  BY <1>2 DEF RestTypes, See, VerificationInvariant, TypeOK
<1>4. SeenIsFinal'
  BY <1>2 DEF SeenIsFinal, See, VerificationInvariant
<1>5. OffersAreNew' /\ ReportsAreVerdicts'
  BY DEF See, VerificationInvariant, OffersAreNew, ReportsAreVerdicts
<1> QED
  BY <1>3, <1>4, <1>5, QuietOther DEF See

LEMMA TakeoverStep ==
    ASSUME VerificationInvariant, NEW s \in Sweeper, Takeover(s)
    PROVE  LET a == sweepers[s].attempt IN
           a \in Attempt /\ (Parks \/ (Ends(a) /\ rows[a].status # "absent" /\ LeaseFree(a)))
<1> DEFINE a == sweepers[s].attempt
           seen == sweepers[s].seen
<1>1. a \in Attempt /\ UNCHANGED history
  BY DEF Takeover, VerificationInvariant, TypeOK
<1>2. CASE UNCHANGED <<rows, bindings>>
  BY <1>1, <1>2, KeptParks
<1>3. CASE LeaseFree(a) /\ Recover(a)
  <2>1. CASE HasGrant(a)
    <3>1. StopRow(a, bindings[a].generation, "outcome_unknown")
      BY <1>3, <2>1 DEF Recover
    <3> QED
      BY <1>1, <1>3, <3>1, StopRowStep
  <2>2. CASE ReportRow(a, "inconclusive", "error") /\ rows[a].status = "running"
    BY <1>1, <1>3, <2>2, ReportEnds DEF Verdict
  <2> QED
    BY <1>2, <1>3, <2>1, <2>2 DEF Recover
<1>4. CASE /\ LeaseFree(a) /\ rows[a].status = "requested"
           /\ rows' = [rows EXCEPT ![a].status = "cancelled"] /\ bindings' = Stopped(a, FALSE)
  BY <1>1, <1>4, ClosingEnds DEF Live, Terminal
<1>5. CASE /\ seen \in Terminal /\ sweepers[s].pc = "acting" /\ UNCHANGED rows
           /\ \E failed \in BOOLEAN : bindings' = Stopped(a, failed)
  <2>1. rows[a].status \in Terminal
    BY <1>5 DEF VerificationInvariant, SeenIsFinal
  <2>2. rows[a].status \notin Live /\ bindings[a].state # "none"
    BY <1>1, <2>1, ExistingRow DEF Terminal, Live
  <2> QED
    BY <1>1, <1>5, <2>2, StoppedBindings DEF Parks
<1> QED
  BY <1>1, <1>2, <1>3, <1>4, <1>5 DEF Takeover

LEMMA TakeoverKeeps ==
    ASSUME VerificationInvariant, NEW s \in Sweeper, Takeover(s)
    PROVE  VerificationInvariant'
<1> DEFINE a == sweepers[s].attempt
<1>0. a \in Attempt /\ (Parks \/ (Ends(a) /\ rows[a].status # "absent" /\ LeaseFree(a)))
  BY TakeoverStep
<1>1. a \in Attempt /\ RowStep(a) /\ EndedBy(a, {})
  <2>1. CASE Parks
    BY <1>0, <2>1, NotEnded DEF RowStep
  <2>2. CASE Ends(a) /\ LeaseFree(a)
    BY <1>0, <2>2 DEF RowStep, EndedBy
  <2> QED
    BY <1>0, <2>1, <2>2
<1>2. RowsSound' /\ RowsGoOn
  BY <1>1, RowsAreSound, RowsKeep
<1>3. /\ sweepers' \in [Sweeper -> [pc : {"idle", "acting"}, attempt : Attempt, seen : Status]]
      /\ sweepers'[s] = Resting
      /\ \A t \in Sweeper \ {s} : sweepers'[t] = sweepers[t]
  BY AttemptAssumption DEF Takeover, VerificationInvariant, TypeOK, Resting, Status
<1>4. RestTypes'
  BY <1>3 DEF RestTypes, Takeover, VerificationInvariant, TypeOK
<1>5. SeenIsFinal'
  BY <1>2, <1>3 DEF SeenIsFinal, Resting, RowsGoOn, VerificationInvariant, TypeOK
<1>6. OffersAreNew' /\ ReportsAreVerdicts'
  BY <1>0, <1>1, <1>2, OffersStay, ReportsStay DEF Takeover
<1> QED
  BY <1>1, <1>4, <1>5, <1>6, OthersKeep DEF Takeover

LEMMA HoldKeeps ==
    ASSUME VerificationInvariant, Hold
    PROVE  VerificationInvariant'
<1>1. Parks
  <2>1. \A b \in Attempt : rows[b].status \in Live => bindings[b].state = "active"
    BY DEF VerificationInvariant, LiveIsActive
  <2>2. \A b \in Attempt : [bindings[b] EXCEPT !.state = "paused"] \in Binding
    BY TypesAreParts DEF VerificationInvariant, Binding
  <2>3. bindings' \in [Attempt -> Binding]
    BY <2>2, TypesAreParts DEF Hold, VerificationInvariant
  <2>4. \A b \in Attempt : IF bindings[b].state = "idle" THEN bindings'[b].state = "paused"
                           ELSE bindings'[b] = bindings[b]
    BY TypesAreParts DEF Hold, VerificationInvariant, Binding
  <2> QED
    BY <2>1, <2>3, <2>4 DEF Parks, Hold
<1>2. first \in Attempt /\ RowStep(first) /\ EndedBy(first, {})
  BY <1>1, AttemptAssumption, NotEnded DEF RowStep
<1>3. RestTypes'
  BY VerificationBoundAssumption DEF RestTypes, Hold, VerificationInvariant, TypeOK, Generation
<1>4. SeenIsFinal' /\ OffersAreNew' /\ ReportsAreVerdicts'
  BY DEF Hold, VerificationInvariant, SeenIsFinal, OffersAreNew, ReportsAreVerdicts
<1> QED
  BY <1>2, <1>3, <1>4, OthersKeep DEF Hold

LEMMA SurroundingsKeep ==
    ASSUME VerificationInvariant, RunReturns \/ Enable \/ GateChanges \/ BeginCommit \/ Deliver
    PROVE  VerificationInvariant'
<1>1. RestTypes'
  <2>1. CASE RunReturns \/ Enable
    BY <2>1 DEF RestTypes, VerificationInvariant, TypeOK, RunReturns, Enable
  <2>2. CASE GateChanges
    <3> DEFINE Gate == [p0 : BOOLEAN, current : BOOLEAN, cancelled : BOOLEAN, ready : BOOLEAN,
                        ruleset : Ruleset]
    <3>1. gate \in Gate
      BY DEF VerificationInvariant, TypeOK
    <3>2. CASE gate' = [gate EXCEPT !.p0 = ~@]
      <4>1. (~gate.p0) \in BOOLEAN
        OBVIOUS
      <4> QED
        BY <2>2, <3>1, <3>2, <4>1 DEF RestTypes, VerificationInvariant, TypeOK, GateChanges
    <3>3. CASE gate' = [gate EXCEPT !.cancelled = TRUE] \/ gate' = [gate EXCEPT !.current = FALSE]
      BY <2>2, <3>1, <3>3 DEF RestTypes, VerificationInvariant, TypeOK, GateChanges
    <3>4. CASE gate.ruleset < MaxRuleset /\ gate' = [gate EXCEPT !.ruleset = @ + 1]
      <4>1. gate.ruleset + 1 \in Ruleset
        BY <3>1, <3>4, VerificationBoundAssumption DEF Ruleset
      <4>2. gate' \in Gate
        BY <3>1, <3>4, <4>1
      <4> QED
        BY <2>2, <4>2 DEF RestTypes, VerificationInvariant, TypeOK, GateChanges
    <3> QED
      BY <2>2, <3>2, <3>3, <3>4 DEF GateChanges
  <2>3. CASE BeginCommit \/ Deliver
    BY <2>3 DEF RestTypes, VerificationInvariant, TypeOK, BeginCommit, Deliver
  <2> QED
    BY <2>1, <2>2, <2>3
<1>2. ReportsAreVerdicts'
  BY DEF VerificationInvariant, TypeOK, ReportsAreVerdicts, RunReturns, Enable, GateChanges,
         BeginCommit, Deliver
<1>3. SeenIsFinal' /\ OffersAreNew'
  BY DEF VerificationInvariant, SeenIsFinal, OffersAreNew, RunReturns, Enable, GateChanges,
         BeginCommit, Deliver
<1> QED
  BY <1>1, <1>2, <1>3, QuietOther DEF RunReturns, Enable, GateChanges, BeginCommit, Deliver

LEMMA NextKeeps ==
    ASSUME VerificationInvariant, [Next]_vars
    PROVE  VerificationInvariant'
<1>1. CASE UNCHANGED vars
  BY <1>1 DEF vars, VerificationInvariant, TypeOK, LiveIsActive, ExecutesRunning, Exclusion, PaidOnce,
     CallsKnow, SeenIsFinal, OffersAreNew, Placed, InsertedOnce, RepeatsFollow, Follows,
     ReportsAreVerdicts, HoldsLease, AttemptOf, At
<1>2. ASSUME NEW w \in Worker, \/ Begin(w) \/ Execute(w) \/ Interrupt(w) \/ Crash(w)
                               \/ \E a \in Requested : Schedule(w, a)
      PROVE  VerificationInvariant'
  BY <1>2, BeginKeeps, LeaseKeeps, CreateAndStartKeeps, LoadKeeps, StartRequestedKeeps,
     VerifyStartKeeps, VerifyEndKeeps, FinishKeeps, FinishStoppedKeeps, FinishInconclusiveKeeps,
     CloseKeeps, StopsKeep DEF Execute
<1>3. ASSUME NEW a \in Requested, Inspect(a) \/ Request(a) PROVE VerificationInvariant'
  BY <1>3, InspectKeeps, RequestKeeps
<1>4. ASSUME NEW s \in Sweeper, Scan(s) \/ ScanHeld(s) \/ Takeover(s)
      PROVE  VerificationInvariant'
  BY <1>4, SeeKeeps, TakeoverKeeps DEF Scan, ScanHeld, Orphans
<1>5. CASE RunReturns \/ Hold \/ Enable \/ GateChanges \/ BeginCommit \/ Deliver
  BY <1>5, HoldKeeps, SurroundingsKeep
<1> QED
  BY <1>1, <1>2, <1>3, <1>4, <1>5 DEF Next
-------------------------------------------------------------------------------
(* The theorems *)

\* In every reachable state a live attempt owns an active binding, whoever executes
\* an attempt holds its lease over a running row, nobody else does, and what was
\* seen, offered and recorded about the others is still true.
THEOREM VerificationIsSafe == Spec => []VerificationInvariant
<1>1. VerificationInvariant /\ [Next]_vars => VerificationInvariant'
  BY NextKeeps
<1> QED
  BY <1>1, InitInvariant, PTL DEF Spec

\* The variables keep their types, and a row, its place in the history and its
\* execution binding come into being together.
THEOREM TypesAreRight == Spec => []TypeOK
<1>1. VerificationInvariant => TypeOK
  BY DEF VerificationInvariant
<1> QED
  BY <1>1, VerificationIsSafe, PTL

LEMMA AtMostOne == ASSUME NEW S, \A x, y \in S : x = y PROVE Cardinality(S) <= 1
<1>1. CASE S = {}
  BY <1>1, FS_EmptySet
<1>2. ASSUME NEW x \in S PROVE Cardinality(S) <= 1
  <2>1. S = {x}
    OBVIOUS
  <2> QED
    BY <2>1, FS_Singleton
<1> QED
  BY <1>1, <1>2

\* Nobody verifies an attempt beside another, or one that is shown as finished or
\* whose binding is the proof of silence of an account hold.
THEOREM StoppedAttemptsAreQuiet == Spec => []StoppedIsQuiet
<1>1. ASSUME VerificationInvariant PROVE StoppedIsQuiet
  <2> SUFFICES ASSUME NEW a \in Attempt
               PROVE  /\ Cardinality(InVerifier(a)) <= 1
                      /\ rows[a].status # "running" \/ bindings[a].state = "paused"
                            => InVerifier(a) = {}
    BY DEF StoppedIsQuiet
  <2>1. \A w \in InVerifier(a) :
            /\ w \in Worker /\ HoldsLease(w, a) /\ rows[a].status = "running"
            /\ bindings[a].state = "active"
    BY <1>1, HoldersExecute
       DEF InVerifier, At, Executing, VerificationInvariant, LiveIsActive, Live
  <2>2. \A v, w \in InVerifier(a) : v = w
    BY <1>1, <2>1 DEF VerificationInvariant, Exclusion
  <2>3. Cardinality(InVerifier(a)) <= 1
    BY <2>2, AtMostOne
  <2> QED
    BY <2>1, <2>3
<1> QED
  BY <1>1, VerificationIsSafe, PTL

\* A requested attempt enters the verifier at most once, and at most one attempt
\* that repeats another of unknown outcome does: the one inserted right after it.
THEOREM CostsAreAccepted == Spec => []CostIsAccepted
<1>1. ASSUME VerificationInvariant PROVE CostIsAccepted
  <2>1. \A a \in Requested : calls[a] <= 1
    BY <1>1 DEF VerificationInvariant, PaidOnce
  <2>2. ASSUME NEW a \in Attempt, rows[a].status = "outcome_unknown"
        PROVE  Cardinality(RepeatsOf(a)) <= 1
    <3>1. ASSUME NEW b \in RepeatsOf(a)
          PROVE  b \in Attempt /\ Follows(history, a, b)
      BY <1>1, <2>2, AttemptAssumption
         DEF RepeatsOf, Requested, VerificationInvariant, RepeatsFollow, Verdict
    <3>2. \A b, c \in RepeatsOf(a) : b = c
      <4> SUFFICES ASSUME NEW b \in RepeatsOf(a), NEW c \in RepeatsOf(a) PROVE b = c
        OBVIOUS
      <4>1. Len(history) \in Nat
        BY <1>1 DEF VerificationInvariant, TypeOK
      <4>2. PICK i \in 1 .. Len(history) - 1 : history[i] = a /\ history[i + 1] = b
        BY <3>1 DEF Follows
      <4>3. PICK j \in 1 .. Len(history) - 1 : history[j] = a /\ history[j + 1] = c
        BY <3>1 DEF Follows
      <4>4. i \in 1 .. Len(history) /\ j \in 1 .. Len(history)
        BY <4>1
      <4>5. i = j
        BY <1>1, <4>2, <4>3, <4>4 DEF VerificationInvariant, InsertedOnce
      <4> QED
        BY <4>2, <4>3, <4>5
    <3> QED
      BY <3>2, AtMostOne
  <2> QED
    BY <2>1, <2>2 DEF CostIsAccepted
<1> QED
  BY <1>1, VerificationIsSafe, PTL

\* After the formal delivery only an error report may still replace the projection:
\* the first attempt has its report by then, and every other asks the gates again.
THEOREM DeliveredVerdictsStay == Spec => NoVerdictAfterDelivery
<1> DEFINE Stays == delivery = "delivered" /\ projection' # projection
                       => rows'[projection'].report = "error"
<1>1. ASSUME VerificationInvariant, [Next]_vars PROVE [Stays]_vars
  <2> SUFFICES ASSUME delivery = "delivered", projection' # projection
               PROVE  rows'[projection'].report = "error"
    OBVIOUS
  <2>1. PICK w \in Worker : Finish(w) \/ FinishInconclusive(w)
    BY <1>1 DEF Next, vars, Begin, Execute, Interrupt, Crash, Schedule, Inspect, Request, Scan,
       ScanHeld, See, Takeover, RunReturns, Hold, Enable, GateChanges, BeginCommit, Deliver, Lease,
       CreateAndStart, Load, StartRequested, VerifyStart, VerifyEnd, FinishStopped, Close
  <2>2. AttemptOf(w) \in Attempt /\ rows \in [Attempt -> Row]
    BY <1>1, CallOf DEF VerificationInvariant, TypeOK
  <2>3. CASE FinishInconclusive(w)
    BY <2>2, <2>3 DEF FinishInconclusive, ReportRow, Row
  <2>4. CASE Finish(w)
    <3>1. MayReport(AttemptOf(w))
      BY <2>4 DEF Finish
    <3>2. rows[first].status \in Verdict
      BY <1>1, AttemptAssumption DEF VerificationInvariant, ReportsAreVerdicts
    <3> QED
      BY <3>1, <3>2 DEF MayReport, Current, Verdict
  <2> QED
    BY <2>1, <2>3, <2>4
<1> QED
  BY <1>1, VerificationIsSafe, PTL DEF Spec, NoVerdictAfterDelivery
===============================================================================
