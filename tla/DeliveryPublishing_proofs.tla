----------------------- MODULE DeliveryPublishing_proofs -----------------------
(***************************************************************************)
(* PublishingInvariant is inductive, and publishing implements             *)
(* DeliveryPromise.  As for account holds, the proof looks at each action  *)
(* once, to classify what it may do to the row, the directories and the    *)
(* answers of a publication key (RowStep), and derives every part of the   *)
(* invariant, the action properties and the refinement from these classes. *)
(***************************************************************************)
EXTENDS DeliveryPublishing, TLAPS

Pending == {"staging", "aborted", "failed"}

\* The ways a step changes the intent and the formal row of a key.
Claims(k) ==
    /\ intents[k].status = "absent" /\ intents'[k].status = "staging"
    /\ BindingUsable(intents'[k].generation)
    /\ formal'[k] = formal[k]
Fails(k) ==
    /\ intents[k].status \in Pending /\ intents'[k].status \in {"aborted", "failed"}
    /\ intents'[k].generation = intents[k].generation
    /\ formal'[k] = formal[k]
Revokes(k) ==
    /\ intents[k].status # "absent" /\ intents'[k].status = "aborted"
    /\ formal[k] = None /\ ~Backed(k)
    /\ intents'[k].generation = intents[k].generation
    /\ formal'[k] = formal[k]
Commits(k) ==
    /\ intents[k].status \in Pending /\ intents'[k].status = "committing"
    /\ Backed(k)
    /\ intents'[k].generation = intents[k].generation
    /\ intents'[k].command \in Explicit => RevOf[intents'[k].command] = task.revision
    /\ staging[k] \in Manifest /\ intents'[k].manifest = staging[k]
    /\ formal'[k] = formal[k]
Delivers(k) ==
    /\ intents[k].status = "committing" /\ intents'[k].status = "published"
    /\ Backed(k)
    /\ intents'[k].generation = intents[k].generation
    /\ intents[k].manifest \in Manifest
    /\ intents'[k].manifest = intents[k].manifest
    /\ final[k] = intents[k].manifest /\ formal'[k] = intents[k].manifest
IntentKept(k) == intents'[k] = intents[k] /\ formal'[k] = formal[k]
IntentStep(k) ==
    IntentKept(k) \/ Claims(k) \/ Fails(k) \/ Revokes(k) \/ Commits(k) \/ Delivers(k)

\* The ways a step changes the directories of a key.
FilesKept(k) == staging'[k] = staging[k] /\ final'[k] = final[k]
Restages(k) == intents[k].status \in Pending /\ IntentKept(k) /\ final'[k] = final[k]
Moves(k) ==
    /\ intents[k].status = "committing" /\ IntentKept(k)
    /\ final[k] = None /\ staging[k] = intents[k].manifest
    /\ final'[k] = intents[k].manifest
Cleans(k) ==
    /\ task.deleting /\ formal[k] = None /\ final'[k] = None
    /\ IntentKept(k) \/ Revokes(k)
Removes(k) ==
    /\ formal[k] # None /\ IntentKept(k)
    /\ staging'[k] = staging[k] /\ final'[k] = Partial
FilesStep(k) == FilesKept(k) \/ Restages(k) \/ Moves(k) \/ Cleans(k) \/ Removes(k)

AnswerStep(k) ==
    \/ answers'[k] = answers[k]
    \/ formal'[k] # None /\ answers'[k] = answers[k] \union {formal'[k]}

RowStep(k) == IntentStep(k) /\ FilesStep(k) /\ AnswerStep(k)
RowKept(k) == IntentKept(k) /\ FilesKept(k) /\ answers'[k] = answers[k]

\* A step on the rows leaves authority alone and touches one key only.
Steady ==
    /\ UNCHANGED <<account, binding>>
    /\ task'.revision = task.revision /\ task'.paused = task.paused
    /\ task'.deleting = task.deleting
OneKey == \A j, k \in Key : j # k => RowKept(j) \/ RowKept(k)
RowsStep == Steady /\ OneKey /\ \A k \in Key : RowStep(k)

EnvStep ==
    \/ Cancel \/ AdvanceRevision \/ SwitchP0 \/ (\E c \in Command : Supersede(c))
    \/ OpenDeletion \/ Hold \/ Reenable \/ StartPause \/ PauseCrash
    \/ (\E stopped \in BOOLEAN : FinishPause(stopped))
    \/ (\E advance \in BOOLEAN : Resume(advance))
CleanStep == \E k \in Key, recorded \in BOOLEAN : CleanPublication(k, recorded)
RemoveStep == \E k \in Key : RemoveOutputs(k)
AbortStep == \E k \in Key : AbortPending(k)
Calls(p) ==
    \/ (\E c \in Command : Request(p, c)) \/ Publishes(p)
    \/ LockTimeout(p) \/ Crash(p) \/ Restart(p)

LEMMA NextCases ==
    ASSUME [Next]_vars
    PROVE  \/ UNCHANGED vars \/ EnvStep \/ CleanStep \/ RemoveStep \/ AbortStep
           \/ \E p \in Publisher : Calls(p)
BY DEF Next, EnvStep, CleanStep, RemoveStep, AbortStep, Calls, Pauses
-------------------------------------------------------------------------------
(* Authority *)

\* A present intent has a usable binding exactly when it is of the generation
\* the account has now.
LEMMA UsableIsCurrent ==
    ASSUME TypeOK, Aged, NEW gen \in Generation, gen <= binding.generation
    PROVE  BindingUsable(gen) <=> gen = account.generation
BY DEF TypeOK, Aged, BindingUsable, Authorized, Generation

\* Nobody claims or commits under a hold or during a pause.
LEMMA UsableIsUnpaused ==
    ASSUME TypeOK, Aged, NEW gen \in Generation, BindingUsable(gen)
    PROVE  /\ ~pause.active /\ ~task.paused
           /\ gen = binding.generation /\ gen = account.generation
BY DEF TypeOK, Aged, BindingUsable, Authorized, Generation
-------------------------------------------------------------------------------
(* Types *)

LEMMA CallTypes ==
    ASSUME TypeOK, CallsKnow, NEW p \in Publisher
    PROVE  /\ publishers[p] \in Call
           /\ publishers[p].pc \notin {"down", "idle"} =>
                 /\ CommandOf(p) \in Command /\ KeyAt(p) \in Key
                 /\ IntentAt(p) \in Intent
           /\ publishers[p].pc \in {"checking", "committing", "renaming", "delivering"} =>
                 publishers[p].manifest \in Manifest
<1>1. publishers[p] \in Call /\ KnowsIntent(p) /\ KnowsManifest(p)
  BY DEF TypeOK, CallsKnow
<1>2. publishers[p].pc \notin {"down", "idle"} => CommandOf(p) \in Command
  BY <1>1 DEF KnowsIntent
<1>3. CommandOf(p) \in Command => KeyAt(p) \in Key /\ IntentAt(p) \in Intent
  BY CommandAssumption DEF KeyAt, IntentAt, TypeOK
<1>4. publishers[p].manifest \in Manifest \union {None}
  BY <1>1 DEF Call
<1> QED
  BY <1>1, <1>2, <1>3, <1>4 DEF KnowsManifest

LEMMA IdleType == Idle \in Call
BY BoundAssumption DEF Idle, Call, Pc, Generation

LEMMA EnvTypes == ASSUME TypeOK, EnvStep PROVE TypeOK'
<1> USE DEF TypeOK, env, files, rows
<1>1. CASE Cancel
  BY <1>1 DEF Cancel
<1>2. CASE AdvanceRevision
  <2>1. task.revision + 1 \in Revision
    BY <1>2, BoundAssumption DEF AdvanceRevision, Revision
  <2> QED
    BY <1>2, <2>1 DEF AdvanceRevision
<1>3. CASE SwitchP0
  BY <1>3 DEF SwitchP0
<1>4. ASSUME NEW c \in Command, Supersede(c) PROVE TypeOK'
  BY <1>4 DEF Supersede
<1>5. CASE OpenDeletion
  BY <1>5 DEF OpenDeletion
<1>6. CASE Hold
  BY <1>6, BoundAssumption DEF Hold, Generation
<1>7. CASE Reenable
  BY <1>7 DEF Reenable
<1>8. CASE StartPause
  BY <1>8 DEF StartPause, PendingIntents
<1>9. CASE PauseCrash
  BY <1>9 DEF PauseCrash
<1>10. ASSUME NEW stopped \in BOOLEAN, FinishPause(stopped) PROVE TypeOK'
  <2>1. binding' \in [generation : Generation, paused : BOOLEAN]
    BY <1>10 DEF FinishPause
  <2>2. task' \in [revision : Revision, cancelled : BOOLEAN, paused : BOOLEAN,
                   p0 : BOOLEAN, deleting : BOOLEAN]
    BY <1>10 DEF FinishPause
  <2> QED
    BY <1>10, <2>1, <2>2 DEF FinishPause
<1>11. ASSUME NEW advance \in BOOLEAN, Resume(advance) PROVE TypeOK'
  <2>1. advance => task.revision + 1 \in Revision
    BY <1>11, BoundAssumption DEF Resume, Revision
  <2>2. task' \in [revision : Revision, cancelled : BOOLEAN, paused : BOOLEAN,
                   p0 : BOOLEAN, deleting : BOOLEAN]
    BY <1>11, <2>1 DEF Resume
  <2> QED
    BY <1>11, <2>2 DEF Resume
<1> QED
  BY <1>1, <1>2, <1>3, <1>4, <1>5, <1>6, <1>7, <1>8, <1>9, <1>10, <1>11 DEF EnvStep

LEMMA OtherTypes == ASSUME TypeOK, CleanStep \/ RemoveStep \/ AbortStep PROVE TypeOK'
<1>1. ASSUME NEW k \in Key, NEW recorded \in BOOLEAN, CleanPublication(k, recorded)
      PROVE  TypeOK'
  <2>0. intents \in [Key -> Intent] /\ intents[k] \in Intent
    BY DEF TypeOK
  <2>a. [intents[k] EXCEPT !.status = "aborted", !.manifest = None] \in Intent
    BY <2>0 DEF Intent, Status
  <2>1. intents' \in [Key -> Intent]
    BY <1>1, <2>0, <2>a DEF CleanPublication
  <2> QED
    BY <1>1, <2>1 DEF CleanPublication, env, TypeOK
<1>2. ASSUME NEW k \in Key, AbortPending(k) PROVE TypeOK'
  <2>0. intents \in [Key -> Intent] /\ intents[k] \in Intent
    BY DEF TypeOK
  <2>a. [intents[k] EXCEPT !.status = "aborted"] \in Intent
    BY <2>0 DEF Intent, Status
  <2>1. intents' \in [Key -> Intent]
    BY <1>2, <2>0, <2>a DEF AbortPending, SetStatus
  <2>2. pause' \in [active : BOOLEAN, todo : SUBSET Key, complete : BOOLEAN]
    BY <1>2 DEF AbortPending, TypeOK
  <2> QED
    BY <1>2, <2>1, <2>2 DEF AbortPending, env, files, TypeOK
<1>3. ASSUME NEW k \in Key, RemoveOutputs(k) PROVE TypeOK'
  BY <1>3 DEF RemoveOutputs, env, TypeOK
<1> QED
  BY <1>1, <1>2, <1>3 DEF CleanStep, RemoveStep, AbortStep
-------------------------------------------------------------------------------
(* Calls *)

\* What a step of the call p does to the calls: the others stay where they are,
\* and p enters no lock that is not free.
Turn(p) ==
    /\ publishers' \in [Publisher -> Call]
    /\ \A q \in Publisher \ {p} : publishers'[q] = publishers[q]
    /\ \A k \in Key : HoldsLock(p, k)' => HoldsLock(p, k) \/ LockFree(k)

Knows(p) == KnowsIntent(p) /\ KnowsManifest(p)

CallStep(p) ==
    /\ TypeOK' /\ Steady /\ pause' = pause /\ Turn(p) /\ Knows(p)'
    /\ \A k \in Key : RowKept(k) \/ (HoldsLock(p, k) /\ RowStep(k))

LEMMA EndTurn == ASSUME TypeOK, NEW p \in Publisher, Ends(p) PROVE Turn(p) /\ Knows(p)'
<1>1. /\ publishers' \in [Publisher -> Call] /\ publishers'[p] = Idle
      /\ \A q \in Publisher \ {p} : publishers'[q] = publishers[q]
  BY IdleType DEF TypeOK, Ends
<1>2. publishers'[p].pc = "idle"
  BY <1>1 DEF Idle
<1>3. Knows(p)'
  BY <1>2 DEF Knows, KnowsIntent, KnowsManifest, At, Uncommitted
<1> QED
  BY <1>1, <1>2, <1>3 DEF Turn, HoldsLock

LEMMA GoesTurn ==
    ASSUME TypeOK, CallsKnow, NEW p \in Publisher, NEW pc \in Pc \ {"down", "idle"}, Goes(p, pc),
           publishers[p].pc \notin {"down", "idle"},
           publishers[p].pc \notin {"waiting", "completing"}
               \/ pc \in {"waiting", "completing"} \/ LockFree(KeyAt(p))
    PROVE  /\ Turn(p) /\ publishers'[p] = [publishers[p] EXCEPT !.pc = pc]
           /\ publishers'[p].pc = pc /\ publishers'[p].manifest = publishers[p].manifest
           /\ CommandOf(p)' = CommandOf(p) /\ KeyAt(p)' = KeyAt(p)
           /\ CommandOf(p) \in Command /\ KeyAt(p) \in Key
<1>1. publishers[p] \in Call /\ CommandOf(p) \in Command /\ KeyAt(p) \in Key
  BY CallTypes
<1>2. /\ publishers'[p] = [publishers[p] EXCEPT !.pc = pc]
      /\ \A q \in Publisher \ {p} : publishers'[q] = publishers[q]
  BY DEF Goes, TypeOK
<1>3. publishers'[p] \in Call
  BY <1>1, <1>2 DEF Call
<1>4. publishers' \in [Publisher -> Call]
  BY <1>1, <1>3 DEF Goes, TypeOK
<1>5. /\ publishers'[p].pc = pc /\ publishers'[p].manifest = publishers[p].manifest
      /\ publishers'[p].command = publishers[p].command
  BY <1>1, <1>2 DEF Call
<1>6. CommandOf(p)' = CommandOf(p) /\ KeyAt(p)' = KeyAt(p)
  BY <1>5 DEF CommandOf, KeyAt
<1>7. \A k \in Key : HoldsLock(p, k)' => HoldsLock(p, k) \/ LockFree(k)
  BY <1>5, <1>6 DEF HoldsLock
<1> QED
  BY <1>1, <1>2, <1>4, <1>5, <1>6, <1>7 DEF Turn

LEMMA StatusType ==
    ASSUME TypeOK, NEW k \in Key, NEW status \in Status, SetStatus(k, status)
    PROVE  /\ intents' \in [Key -> Intent]
           /\ intents'[k] = [intents[k] EXCEPT !.status = status]
           /\ \A j \in Key \ {k} : intents'[j] = intents[j]
<1>1. intents \in [Key -> Intent] /\ intents[k] \in Intent
  BY DEF TypeOK
<1>2. [intents[k] EXCEPT !.status = status] \in Intent
  BY <1>1 DEF Intent
<1> QED
  BY <1>1, <1>2 DEF SetStatus

\* A step that leaves the rows alone, and after which p has nothing to know of
\* its key that it did not know before.
LEMMA QuietCall ==
    ASSUME TypeOK, NEW p \in Publisher, Turn(p), Knows(p)', Steady,
           UNCHANGED <<intents, formal, files, superseded, pause, answers>>,
           task' \in [revision : Revision, cancelled : BOOLEAN, paused : BOOLEAN,
                      p0 : BOOLEAN, deleting : BOOLEAN]
    PROVE  CallStep(p)
<1>1. \A k \in Key : RowKept(k)
  BY DEF RowKept, IntentKept, FilesKept, files
<1>2. TypeOK'
  BY DEF TypeOK, Turn, Steady, files
<1> QED
  BY <1>1, <1>2 DEF CallStep

LEMMA QuietEnd ==
    ASSUME TypeOK, NEW p \in Publisher, Ends(p),
           UNCHANGED <<env, intents, formal, files, pause, answers>>
    PROVE  CallStep(p)
<1>1. Steady
  BY DEF Steady, env
<1> QED
  BY <1>1, EndTurn, QuietCall DEF env, TypeOK

\* Steps of a call for which it only needs to know a usable command.
Unknowing == {"waiting", "claiming", "answering", "denied", "completing"}
LEMMA QuietGoes ==
    ASSUME TypeOK, CallsKnow, NEW p \in Publisher, NEW pc \in Unknowing, Goes(p, pc),
           publishers[p].pc \notin {"down", "idle"},
           publishers[p].pc \notin {"waiting", "completing"}
               \/ pc \in {"waiting", "completing"} \/ LockFree(KeyAt(p)),
           UNCHANGED <<env, intents, formal, files, pause, answers>>
    PROVE  CallStep(p)
<1>1. pc \in Pc \ {"down", "idle"}
  BY DEF Unknowing, Pc
<1>2. /\ Turn(p) /\ publishers'[p].pc = pc /\ CommandOf(p)' = CommandOf(p)
      /\ CommandOf(p) \in Command
  BY <1>1, GoesTurn
<1>3. Knows(p)'
  BY <1>2 DEF Knows, KnowsIntent, KnowsManifest, Unknowing, Uncommitted, At
<1>4. Steady
  BY DEF Steady, env
<1> QED
  BY <1>2, <1>3, <1>4, QuietCall DEF env, TypeOK
-------------------------------------------------------------------------------
LEMMA OwnRow ==
    ASSUME NEW p \in Publisher, NEW k \in Key, HoldsLock(p, k), RowStep(k),
           \A j \in Key \ {k} : RowKept(j),
           TypeOK', Steady, pause' = pause, Turn(p), Knows(p)'
    PROVE  CallStep(p)
BY DEF CallStep

LEMMA RequestStep ==
    ASSUME PublishingInvariant, NEW p \in Publisher, NEW c \in Command, Request(p, c)
    PROVE  CallStep(p)
<1> TypeOK
  BY DEF PublishingInvariant
<1> DEFINE crossed == intents[KeyOf[c]].status \in {"committing", "published"}
<1>1. publishers' = [publishers EXCEPT ![p] =
          [pc |-> "waiting", command |-> c, generation |-> account.generation,
           manifest |-> None, crossed |-> crossed, denied |-> FALSE]]
  BY DEF Request
<1> crossed \in BOOLEAN
  OBVIOUS
<1> HIDE DEF crossed
<1>2. /\ publishers' \in [Publisher -> Call] /\ publishers'[p].pc = "waiting"
      /\ publishers'[p].command = c
      /\ \A q \in Publisher \ {p} : publishers'[q] = publishers[q]
  BY <1>1 DEF TypeOK, Call, Pc
<1>3. Turn(p)
  BY <1>2 DEF Turn, HoldsLock
<1>4. Knows(p)'
  BY <1>2 DEF Knows, KnowsIntent, KnowsManifest, Uncommitted, At, CommandOf
<1>5. Steady
  BY DEF Request, Steady, env
<1> QED
  BY <1>3, <1>4, <1>5, QuietCall DEF Request, env, TypeOK

LEMMA StopStep ==
    ASSUME PublishingInvariant, NEW p \in Publisher, Crash(p) \/ Restart(p) \/ LockTimeout(p)
    PROVE  CallStep(p)
<1> TypeOK
  BY DEF PublishingInvariant
<1>1. CASE Crash(p)
  <2>1. [Idle EXCEPT !.pc = "down"] \in Call
    BY IdleType DEF Call, Pc
  <2>2. /\ publishers' \in [Publisher -> Call] /\ publishers'[p].pc = "down"
        /\ \A q \in Publisher \ {p} : publishers'[q] = publishers[q]
    BY <1>1, <2>1 DEF Crash, TypeOK, Idle
  <2>3. Turn(p)
    BY <2>2 DEF Turn, HoldsLock
  <2>4. Knows(p)'
    BY <2>2 DEF Knows, KnowsIntent, KnowsManifest, Uncommitted, At
  <2>5. Steady
    BY <1>1 DEF Crash, Steady, env
  <2> QED
    BY <1>1, <2>3, <2>4, <2>5, QuietCall DEF Crash, env, TypeOK
<1>2. CASE Restart(p) \/ LockTimeout(p)
  BY <1>2, QuietEnd DEF Restart, LockTimeout
<1> QED
  BY <1>1, <1>2

LEMMA QuietSteps ==
    ASSUME PublishingInvariant, NEW p \in Publisher,
           Acquire(p) \/ ClaimRefused(p) \/ ClaimDenied(p)
    PROVE  CallStep(p)
<1> TypeOK /\ CallsKnow
  BY DEF PublishingInvariant
<1>1. CASE Acquire(p)
  BY <1>1, QuietGoes DEF Acquire, At, Unknowing
<1>2. CASE ClaimRefused(p)
  BY <1>2, QuietEnd DEF ClaimRefused
<1>3. CASE ClaimDenied(p)
  BY <1>3, QuietGoes DEF ClaimDenied, At, Unknowing
<1> QED
  BY <1>1, <1>2, <1>3

LEMMA ClaimStep ==
    ASSUME PublishingInvariant, NEW p \in Publisher, Claim(p)
    PROVE  CallStep(p)
<1> TypeOK /\ CallsKnow
  BY DEF PublishingInvariant
<1> PICK k : k = KeyAt(p)
  OBVIOUS
<1>1. /\ publishers[p].pc = "claiming" /\ k \in Key /\ intents[k] \in Intent
      /\ publishers[p] \in Call /\ HoldsLock(p, k) /\ CommandOf(p) \in Command
  BY CallTypes DEF Claim, At, IntentAt, HoldsLock
<1>2. CASE intents[k].status = "published"
  <2>1. intents' = intents /\ Goes(p, "answering")
    BY <1>1, <1>2 DEF Claim, AfterClaim, TypeOK
  <2> QED
    BY <1>1, <2>1, QuietGoes DEF Claim, Unknowing
<1>3. CASE intents[k].status # "published"
  <2> DEFINE pc == IF intents[k].status = "committing" THEN "recovering" ELSE "gating"
  <2>1. Goes(p, pc)
    BY <1>3 DEF Claim, AfterClaim
  <2>2. /\ Turn(p) /\ publishers'[p].pc = pc
        /\ CommandOf(p)' = CommandOf(p) /\ KeyAt(p)' = k
    BY <1>1, <2>1, GoesTurn DEF Pc
  <2>3. /\ intents' \in [Key -> Intent] /\ \A j \in Key \ {k} : intents'[j] = intents[j]
        /\ \/ intents'[k] = intents[k] /\ intents[k].status # "absent"
           \/ /\ intents[k].status = "absent"
              /\ intents'[k] = [status |-> "staging", command |-> CommandOf(p),
                                generation |-> publishers[p].generation, manifest |-> None]
    BY <1>1 DEF Claim, TypeOK, Intent, Status, Call
  <2>4. Steady /\ pause' = pause /\ TypeOK'
    BY <2>2, <2>3 DEF Claim, Steady, env, files, Turn, TypeOK
  <2>5. Knows(p)'
    <3>1. intents'[k].command = CommandOf(p)
      BY <2>3 DEF Claim
    <3>2. pc = "gating" => intents'[k].status \in {"staging", "aborted", "failed"}
      BY <1>1, <1>3, <2>3 DEF Intent, Status
    <3>3. pc = "recovering" => intents'[k].status = "committing"
      BY <2>3
    <3> QED
      BY <1>1, <2>2, <3>1, <3>2, <3>3
         DEF Knows, KnowsIntent, KnowsManifest, Uncommitted, At, IntentAt
  <2>6. IntentStep(k)
    <3>1. formal'[k] = formal[k]
      BY DEF Claim
    <3>2. CASE intents[k].status = "absent"
      BY <2>3, <3>1, <3>2 DEF Claim, Denies, IntentStep, Claims
    <3> QED
      BY <2>3, <3>1, <3>2 DEF IntentStep, IntentKept
  <2>7. /\ RowStep(k)
        /\ \A j \in Key \ {k} : RowKept(j)
    BY <2>3, <2>6 DEF Claim, RowStep, RowKept, IntentKept, FilesStep, FilesKept, AnswerStep, files
  <2> QED
    BY <1>1, <2>2, <2>4, <2>5, <2>7, OwnRow
<1> QED
  BY <1>2, <1>3

LEMMA AnswerStepOf ==
    ASSUME PublishingInvariant, NEW p \in Publisher, Answer(p)
    PROVE  CallStep(p)
<1> TypeOK /\ CallsKnow
  BY DEF PublishingInvariant
<1> PICK k : k = KeyAt(p)
  OBVIOUS
<1>1. /\ publishers[p].pc = "answering" /\ k \in Key /\ HoldsLock(p, k)
  BY CallTypes DEF Answer, At, HoldsLock
<1>2. CASE Answered(k, formal[k]) /\ Goes(p, "completing") /\ formal[k] # None
  <2>1. /\ Turn(p) /\ publishers'[p].pc = "completing" /\ CommandOf(p)' = CommandOf(p)
        /\ CommandOf(p) \in Command
    BY <1>1, <1>2, GoesTurn DEF Pc
  <2>2. Knows(p)'
    BY <2>1 DEF Knows, KnowsIntent, KnowsManifest, Uncommitted, At
  <2>3. formal[k] \in Manifest
    BY <1>1, <1>2 DEF TypeOK
  <2>4. Steady /\ pause' = pause /\ TypeOK'
    BY <1>1, <1>2, <2>1, <2>3 DEF Answer, Answered, Steady, env, files, Turn, TypeOK
  <2>5. /\ RowStep(k)
        /\ \A j \in Key \ {k} : RowKept(j)
    BY <1>1, <1>2 DEF Answer, Answered, RowStep, RowKept, IntentStep, IntentKept, FilesStep,
       FilesKept, AnswerStep, files, TypeOK
  <2> QED
    BY <1>1, <2>1, <2>2, <2>4, <2>5, OwnRow
<1>3. CASE Ends(p) /\ UNCHANGED answers
  BY <1>3, QuietEnd DEF Answer
<1> QED
  BY <1>2, <1>3 DEF Answer

LEMMA RecoverStep ==
    ASSUME PublishingInvariant, NEW p \in Publisher, Recover(p)
    PROVE  CallStep(p)
<1> TypeOK /\ CallsKnow
  BY DEF PublishingInvariant
<1> PICK k : k = KeyAt(p)
  OBVIOUS
<1> PICK frozen : frozen = intents[k].manifest
  OBVIOUS
<1>1. /\ publishers[p].pc = "recovering" /\ k \in Key /\ HoldsLock(p, k)
      /\ CommandOf(p) \in Command /\ publishers[p] \in Call /\ intents[k] \in Intent
  BY CallTypes DEF Recover, At, HoldsLock, IntentAt
<1>2. intents[k].status = "committing" /\ intents[k].command = CommandOf(p)
  BY <1>1 DEF CallsKnow, KnowsIntent, IntentAt, Uncommitted
<1>3. CASE /\ frozen # None
           /\ publishers' = [publishers EXCEPT ![p].pc = "delivering", ![p].manifest = frozen]
           /\ final' = [final EXCEPT ![k] = frozen]
           /\ staging' = IF final[k] = None THEN [staging EXCEPT ![k] = None] ELSE staging
           /\ (IF final[k] # None THEN final[k] ELSE staging[k]) = frozen
  <2>1. frozen \in Manifest
    BY <1>1, <1>3 DEF Intent
  <2>2. /\ publishers'[p] = [publishers[p] EXCEPT !.pc = "delivering", !.manifest = frozen]
        /\ \A q \in Publisher \ {p} : publishers'[q] = publishers[q]
    BY <1>3 DEF TypeOK
  <2>3. /\ publishers'[p].pc = "delivering" /\ publishers'[p].manifest = frozen
        /\ publishers'[p].command = CommandOf(p)
    BY <1>1, <2>2 DEF Call, CommandOf
  <2>4. publishers'[p] \in Call
    BY <1>1, <2>1, <2>2 DEF Call, Pc
  <2>5. publishers' \in [Publisher -> Call]
    BY <1>3, <2>2, <2>4 DEF TypeOK
  <2>6. KeyAt(p)' = k /\ CommandOf(p)' = CommandOf(p)
    BY <2>3 DEF KeyAt, CommandOf
  <2>7. Turn(p)
    BY <1>1, <2>2, <2>5, <2>6 DEF Turn, HoldsLock
  <2>8. Steady /\ pause' = pause /\ TypeOK'
    BY <1>1, <1>3, <2>1, <2>5 DEF Recover, Steady, env, TypeOK
  <2>9. Knows(p)'
    BY <1>1, <1>2, <1>3, <2>3, <2>6
       DEF Recover, Knows, KnowsIntent, KnowsManifest, Uncommitted, At, IntentAt, TypeOK
  <2>10. IntentKept(k) /\ answers'[k] = answers[k]
    BY DEF Recover, IntentKept
  <2>11. FilesStep(k)
    <3>1. CASE final[k] # None
      BY <1>1, <1>3, <3>1 DEF FilesStep, FilesKept, TypeOK
    <3>2. CASE final[k] = None
      BY <1>1, <1>2, <1>3, <2>10, <3>2 DEF FilesStep, Moves, TypeOK
    <3> QED
      BY <3>1, <3>2
  <2>12. /\ RowStep(k)
         /\ \A j \in Key \ {k} : RowKept(j)
    BY <1>1, <1>3, <2>10, <2>11
       DEF Recover, RowStep, RowKept, IntentStep, IntentKept, FilesKept, AnswerStep, TypeOK
  <2> QED
    BY <1>1, <2>7, <2>8, <2>9, <2>12, OwnRow
<1>4. CASE Ends(p) /\ UNCHANGED files
  BY <1>4, QuietEnd DEF Recover
<1> QED
  BY <1>3, <1>4 DEF Recover, IntentAt

\* A step before the commit point that changes staging or nothing.
LEMMA Preparing ==
    ASSUME PublishingInvariant, NEW p \in Publisher, NEW pc \in Uncommitted, Goes(p, pc),
           publishers[p].pc \in Uncommitted,
           UNCHANGED <<env, intents, formal, final, pause, answers>>,
           NEW dir \in Manifest \union {None, Partial},
           staging' = [staging EXCEPT ![KeyAt(p)] = dir],
           pc \in {"checking", "committing"} =>
               dir = publishers[p].manifest /\ publishers[p].manifest # None
    PROVE  CallStep(p)
<1> TypeOK /\ CallsKnow
  BY DEF PublishingInvariant
<1> PICK k : k = KeyAt(p)
  OBVIOUS
<1>0. publishers[p].pc \notin {"down", "idle", "waiting", "completing"}
  BY DEF Uncommitted
<1>1. k \in Key /\ HoldsLock(p, k) /\ CommandOf(p) \in Command
  BY <1>0, CallTypes DEF HoldsLock
<1>2. intents[k].status \in Pending /\ intents[k].command = CommandOf(p)
  BY DEF CallsKnow, KnowsIntent, IntentAt, Pending
<1>3. pc \in Pc \ {"down", "idle"}
  BY DEF Uncommitted, Pc
<1>4. /\ Turn(p) /\ publishers'[p].pc = pc /\ publishers'[p].manifest = publishers[p].manifest
      /\ CommandOf(p)' = CommandOf(p) /\ KeyAt(p)' = k
  BY <1>0, <1>3, GoesTurn
<1>5. Steady /\ pause' = pause /\ TypeOK'
  BY <1>1, <1>4 DEF Steady, env, Turn, TypeOK
<1>6. Knows(p)'
  BY <1>1, <1>2, <1>4
     DEF Knows, KnowsIntent, KnowsManifest, Uncommitted, At, IntentAt, Pending, TypeOK
<1>7. /\ RowStep(k)
      /\ \A j \in Key \ {k} : RowKept(j)
  BY <1>1, <1>2
     DEF RowStep, RowKept, IntentStep, IntentKept, FilesStep, FilesKept, Restages, AnswerStep, TypeOK
<1> QED
  BY <1>1, <1>4, <1>5, <1>6, <1>7, OwnRow

\* The same, with the directory left alone.
LEMMA Checking ==
    ASSUME PublishingInvariant, NEW p \in Publisher, NEW pc \in Uncommitted, Goes(p, pc),
           publishers[p].pc \in Uncommitted,
           UNCHANGED <<env, intents, formal, files, pause, answers>>,
           pc \in {"checking", "committing"} => publishers[p].pc \in {"checking", "committing"}
    PROVE  CallStep(p)
<1> TypeOK /\ CallsKnow
  BY DEF PublishingInvariant
<1>1. KeyAt(p) \in Key
  BY CallTypes DEF Uncommitted
<1>2. /\ staging[KeyAt(p)] \in Manifest \union {None, Partial}
      /\ staging' = [staging EXCEPT ![KeyAt(p)] = staging[KeyAt(p)]]
      /\ UNCHANGED final
  BY <1>1 DEF TypeOK, files
<1>3. pc \in {"checking", "committing"} =>
          staging[KeyAt(p)] = publishers[p].manifest /\ publishers[p].manifest # None
  BY DEF CallsKnow, KnowsManifest
<1> QED
  BY <1>2, <1>3, Preparing

\* A publication that has not committed is marked aborted or failed.
LEMMA Marking ==
    ASSUME PublishingInvariant, NEW p \in Publisher, publishers[p].pc \in Uncommitted,
           NEW status \in {"aborted", "failed"}, SetStatus(KeyAt(p), status),
           Ends(p) \/ Goes(p, "sweeping"),
           UNCHANGED <<env, formal, files, pause, answers>>
    PROVE  CallStep(p)
<1> TypeOK /\ CallsKnow
  BY DEF PublishingInvariant
<1> PICK k : k = KeyAt(p)
  OBVIOUS
<1>0. publishers[p].pc \notin {"down", "idle", "waiting", "completing"}
  BY DEF Uncommitted
<1>1. k \in Key /\ HoldsLock(p, k) /\ CommandOf(p) \in Command /\ intents[k] \in Intent
  BY <1>0, CallTypes DEF HoldsLock, IntentAt
<1>2. intents[k].status \in Pending /\ intents[k].command = CommandOf(p)
  BY DEF CallsKnow, KnowsIntent, IntentAt, Pending
<1>3. /\ intents' \in [Key -> Intent]
      /\ intents'[k] = [intents[k] EXCEPT !.status = status]
      /\ \A j \in Key \ {k} : intents'[j] = intents[j]
  BY <1>1, StatusType DEF Status
<1>4. /\ intents'[k].status = status /\ intents'[k].command = intents[k].command
      /\ intents'[k].generation = intents[k].generation
  BY <1>1, <1>3 DEF Intent
<1>5. Turn(p) /\ Knows(p)'
  <2>1. CASE Ends(p)
    BY <2>1, EndTurn
  <2>2. CASE Goes(p, "sweeping")
    <3>1. /\ Turn(p) /\ publishers'[p].pc = "sweeping"
          /\ CommandOf(p)' = CommandOf(p) /\ KeyAt(p)' = k
      BY <1>0, <2>2, GoesTurn DEF Pc
    <3> QED
      BY <1>1, <1>2, <1>4, <3>1
         DEF Knows, KnowsIntent, KnowsManifest, Uncommitted, At, IntentAt
  <2> QED
    BY <2>1, <2>2
<1>6. Steady /\ pause' = pause /\ TypeOK'
  BY <1>3, <1>5 DEF Steady, env, files, Turn, TypeOK
<1>7. /\ RowStep(k)
      /\ \A j \in Key \ {k} : RowKept(j)
  BY <1>1, <1>2, <1>3, <1>4
     DEF RowStep, RowKept, IntentStep, IntentKept, Fails, FilesStep, FilesKept, AnswerStep, files
<1> QED
  BY <1>1, <1>5, <1>6, <1>7, OwnRow

LEMMA GateSteps ==
    ASSUME PublishingInvariant, NEW p \in Publisher, FirstGate(p) \/ MarkAborted(p)
    PROVE  CallStep(p)
<1>1. CASE FirstGate(p)
  <2>1. publishers[p].pc \in Uncommitted
    BY <1>1 DEF FirstGate, At, Uncommitted
  <2>2. CASE Goes(p, "staging") /\ UNCHANGED intents
    BY <1>1, <2>1, <2>2, Checking DEF FirstGate, Uncommitted
  <2>3. CASE SetStatus(KeyAt(p), "aborted") /\ Ends(p)
    BY <1>1, <2>1, <2>3, Marking DEF FirstGate
  <2>4. CASE Ends(p) /\ UNCHANGED intents
    BY <1>1, <2>4, QuietEnd DEF FirstGate, PublishingInvariant
  <2> QED
    BY <1>1, <2>2, <2>3, <2>4 DEF FirstGate
<1>2. CASE MarkAborted(p)
  BY <1>2, Marking DEF MarkAborted, At, Uncommitted
<1> QED
  BY <1>1, <1>2

LEMMA StagingSteps ==
    ASSUME PublishingInvariant, NEW p \in Publisher,
           BeginStaging(p) \/ StagingFails(p) \/ SecondGate(p)
    PROVE  CallStep(p)
<1>1. CASE BeginStaging(p)
  BY <1>1, Preparing DEF BeginStaging, At, Uncommitted
<1>2. CASE StagingFails(p)
  BY <1>2, Checking DEF StagingFails, At, Uncommitted
<1>3. CASE SecondGate(p)
  <2>1. publishers[p].pc = "checking"
    BY <1>3 DEF SecondGate, At
  <2>2. CASE Goes(p, "failing") /\ UNCHANGED staging
    BY <1>3, <2>1, <2>2, Checking DEF SecondGate, Uncommitted, files
  <2>3. CASE Goes(p, "committing") /\ UNCHANGED staging
    BY <1>3, <2>1, <2>3, Checking DEF SecondGate, Uncommitted, files
  <2>4. CASE staging' = [staging EXCEPT ![KeyAt(p)] = None] /\ Goes(p, "closing")
    BY <1>3, <2>1, <2>4, Preparing DEF SecondGate, Uncommitted
  <2> QED
    BY <1>3, <2>2, <2>3, <2>4 DEF SecondGate
<1> QED
  BY <1>1, <1>2, <1>3

LEMMA FinishStagingStep ==
    ASSUME PublishingInvariant, NEW p \in Publisher, NEW m \in Manifest, FinishStaging(p, m)
    PROVE  CallStep(p)
<1> TypeOK /\ CallsKnow
  BY DEF PublishingInvariant
<1> PICK k : k = KeyAt(p)
  OBVIOUS
<1>0. publishers[p].pc = "copying"
  BY DEF FinishStaging, At
<1>1. /\ k \in Key /\ HoldsLock(p, k) /\ CommandOf(p) \in Command
      /\ publishers[p] \in Call
  BY <1>0, CallTypes DEF HoldsLock
<1>2. intents[k].status \in Pending /\ intents[k].command = CommandOf(p)
  BY <1>0 DEF CallsKnow, KnowsIntent, IntentAt, Pending, Uncommitted
<1>3. /\ publishers'[p] = [publishers[p] EXCEPT !.pc = "checking", !.manifest = m]
      /\ \A q \in Publisher \ {p} : publishers'[q] = publishers[q]
  BY DEF FinishStaging, TypeOK
<1>4. /\ publishers'[p].pc = "checking" /\ publishers'[p].manifest = m
      /\ CommandOf(p)' = CommandOf(p) /\ KeyAt(p)' = k
  BY <1>1, <1>3 DEF Call, CommandOf, KeyAt
<1>5. publishers'[p] \in Call
  BY <1>1, <1>3 DEF Call, Pc
<1>6. publishers' \in [Publisher -> Call]
  BY <1>5 DEF FinishStaging, TypeOK
<1>7. Turn(p)
  BY <1>1, <1>3, <1>4, <1>6 DEF Turn, HoldsLock
<1>8. Steady /\ pause' = pause /\ TypeOK'
  BY <1>1, <1>6 DEF FinishStaging, Steady, env, TypeOK
<1>9. m # None
  BY CommandAssumption
<1>10. Knows(p)'
  BY <1>1, <1>2, <1>4, <1>9
     DEF FinishStaging, Knows, KnowsIntent, KnowsManifest, Uncommitted, At, IntentAt, Pending,
         TypeOK
<1>11. /\ RowStep(k)
       /\ \A j \in Key \ {k} : RowKept(j)
  BY <1>1, <1>2
     DEF FinishStaging, RowStep, RowKept, IntentStep, IntentKept, FilesStep, FilesKept,
         Restages, AnswerStep, TypeOK
<1> QED
  BY <1>1, <1>7, <1>8, <1>10, <1>11, OwnRow

LEMMA BeginCommitStep ==
    ASSUME PublishingInvariant, NEW p \in Publisher, BeginCommit(p)
    PROVE  CallStep(p)
<1> TypeOK /\ CallsKnow
  BY DEF PublishingInvariant
<1> PICK k : k = KeyAt(p)
  OBVIOUS
<1> PICK m : m = publishers[p].manifest
  OBVIOUS
<1>0. publishers[p].pc = "committing"
  BY DEF BeginCommit, At
<1>1. /\ k \in Key /\ HoldsLock(p, k) /\ CommandOf(p) \in Command
      /\ publishers[p] \in Call /\ intents[k] \in Intent /\ m \in Manifest
  BY <1>0, CallTypes DEF HoldsLock, IntentAt
<1>2. /\ intents[k].status \in Pending /\ intents[k].command = CommandOf(p)
      /\ staging[k] = m /\ m # None
  BY <1>0 DEF CallsKnow, KnowsIntent, KnowsManifest, IntentAt, Pending, Uncommitted
<1>3. CASE /\ ~task.deleting /\ ~Denies(publishers[p].generation, intents[k].generation)
           /\ ~CommitRefused(CommandOf(p))
           /\ intents' = [intents EXCEPT ![k].status = "committing", ![k].manifest = m]
           /\ Goes(p, "renaming")
  <2>1. /\ Turn(p) /\ publishers'[p].pc = "renaming" /\ publishers'[p].manifest = m
        /\ CommandOf(p)' = CommandOf(p) /\ KeyAt(p)' = k
    BY <1>0, <1>3, GoesTurn DEF Pc
  <2>2. /\ intents'[k] = [intents[k] EXCEPT !.status = "committing", !.manifest = m]
        /\ \A j \in Key \ {k} : intents'[j] = intents[j]
    BY <1>1, <1>3 DEF TypeOK
  <2>3. /\ intents'[k].status = "committing" /\ intents'[k].manifest = m
        /\ intents'[k].command = intents[k].command
        /\ intents'[k].generation = intents[k].generation
    BY <1>1, <2>2 DEF Intent
  <2>4. intents'[k] \in Intent
    BY <1>1, <2>2 DEF Intent, Status
  <2>5. intents' \in [Key -> Intent]
    BY <1>3, <2>2, <2>4 DEF TypeOK
  <2>6. Steady /\ pause' = pause /\ TypeOK'
    BY <2>1, <2>5 DEF BeginCommit, Steady, env, files, Turn, TypeOK
  <2>7. Knows(p)'
    BY <1>1, <1>2, <2>1, <2>3
       DEF BeginCommit, files, Knows, KnowsIntent, KnowsManifest, Uncommitted, At, IntentAt
  <2>8. Commits(k)
    <3>1. Backed(k)
      BY <1>3 DEF Denies, Backed
    <3>2. intents'[k].command \in Explicit => RevOf[intents'[k].command] = task.revision
      BY <1>2, <1>3, <2>3 DEF CommitRefused
    <3> QED
      BY <1>1, <1>2, <2>3, <3>1, <3>2 DEF BeginCommit, Commits
  <2>9. /\ RowStep(k)
        /\ \A j \in Key \ {k} : RowKept(j)
    BY <2>2, <2>8
       DEF BeginCommit, files, RowStep, RowKept, IntentStep, IntentKept, FilesStep, FilesKept,
           AnswerStep
  <2> QED
    BY <1>1, <2>1, <2>6, <2>7, <2>9, OwnRow
<1>4. CASE \E denied \in BOOLEAN :
              /\ publishers' = [publishers EXCEPT ![p].pc = "failing", ![p].denied = denied]
              /\ UNCHANGED intents
  <2>1. PICK denied \in BOOLEAN :
            publishers' = [publishers EXCEPT ![p].pc = "failing", ![p].denied = denied]
    BY <1>4
  <2>2. /\ publishers'[p] = [publishers[p] EXCEPT !.pc = "failing", !.denied = denied]
        /\ \A q \in Publisher \ {p} : publishers'[q] = publishers[q]
    BY <2>1 DEF TypeOK
  <2>3. /\ publishers'[p].pc = "failing"
        /\ CommandOf(p)' = CommandOf(p) /\ KeyAt(p)' = k
    BY <1>1, <2>2 DEF Call, CommandOf, KeyAt
  <2>4. publishers'[p] \in Call
    BY <1>1, <2>2 DEF Call, Pc
  <2>5. publishers' \in [Publisher -> Call]
    BY <2>1, <2>4, <2>2 DEF TypeOK
  <2>6. Turn(p)
    BY <1>1, <2>2, <2>3, <2>5 DEF Turn, HoldsLock
  <2>7. Knows(p)'
    BY <1>1, <1>2, <1>4, <2>3
       DEF Knows, KnowsIntent, KnowsManifest, Uncommitted, At, IntentAt, Pending
  <2>8. Steady
    BY DEF BeginCommit, Steady, env
  <2> QED
    BY <1>4, <2>6, <2>7, <2>8, QuietCall DEF BeginCommit, env, TypeOK
<1> QED
  BY <1>3, <1>4 DEF BeginCommit, IntentAt

LEMMA RenameStep ==
    ASSUME PublishingInvariant, NEW p \in Publisher, Rename(p)
    PROVE  CallStep(p)
<1> TypeOK /\ CallsKnow
  BY DEF PublishingInvariant
<1> PICK k : k = KeyAt(p)
  OBVIOUS
<1>0. publishers[p].pc = "renaming"
  BY DEF Rename, At
<1>1. /\ k \in Key /\ HoldsLock(p, k) /\ CommandOf(p) \in Command
  BY <1>0, CallTypes DEF HoldsLock
<1>2. /\ intents[k].status = "committing" /\ intents[k].command = CommandOf(p)
      /\ staging[k] = publishers[p].manifest /\ intents[k].manifest = publishers[p].manifest
      /\ publishers[p].manifest # None /\ publishers[p].manifest \in Manifest
  BY <1>0, CallTypes DEF CallsKnow, KnowsIntent, KnowsManifest, IntentAt, Uncommitted
<1>3. CASE /\ final[k] = None /\ Goes(p, "delivering")
           /\ final' = [final EXCEPT ![k] = staging[k]]
           /\ staging' = [staging EXCEPT ![k] = None]
  <2>1. /\ Turn(p) /\ publishers'[p].pc = "delivering"
        /\ publishers'[p].manifest = publishers[p].manifest
        /\ CommandOf(p)' = CommandOf(p) /\ KeyAt(p)' = k
    BY <1>0, <1>3, GoesTurn DEF Pc
  <2>2. Steady /\ pause' = pause /\ TypeOK'
    BY <1>1, <1>2, <1>3, <2>1 DEF Rename, Steady, env, Turn, TypeOK
  <2>3. Knows(p)'
    BY <1>1, <1>2, <1>3, <2>1
       DEF Rename, Knows, KnowsIntent, KnowsManifest, Uncommitted, At, IntentAt, TypeOK
  <2>4. /\ RowStep(k)
        /\ \A j \in Key \ {k} : RowKept(j)
    BY <1>1, <1>2, <1>3
       DEF Rename, RowStep, RowKept, IntentStep, IntentKept, FilesStep, FilesKept, Moves,
           AnswerStep, TypeOK
  <2> QED
    BY <1>1, <2>1, <2>2, <2>3, <2>4, OwnRow
<1>4. CASE Ends(p) /\ UNCHANGED files
  BY <1>4, QuietEnd DEF Rename
<1> QED
  BY <1>3, <1>4 DEF Rename

LEMMA CommitDeliveryStep ==
    ASSUME PublishingInvariant, NEW p \in Publisher, CommitDelivery(p)
    PROVE  CallStep(p)
<1> TypeOK /\ CallsKnow /\ DeliveredIsFrozen
  BY DEF PublishingInvariant
<1> PICK k : k = KeyAt(p)
  OBVIOUS
<1> PICK m : m = publishers[p].manifest
  OBVIOUS
<1>0. publishers[p].pc = "delivering"
  BY DEF CommitDelivery, At
<1>1. /\ k \in Key /\ HoldsLock(p, k) /\ CommandOf(p) \in Command
      /\ intents[k] \in Intent /\ m \in Manifest
  BY <1>0, CallTypes DEF HoldsLock, IntentAt
<1>2. /\ intents[k].status = "committing" /\ intents[k].command = CommandOf(p)
      /\ intents[k].manifest = m /\ final[k] = m /\ m # None
  BY <1>0 DEF CallsKnow, KnowsIntent, KnowsManifest, IntentAt, Uncommitted, At
<1>3. formal[k] = None
  BY <1>1, <1>2 DEF DeliveredIsFrozen
<1>4. CASE /\ ~task.deleting /\ ~Denies(publishers[p].generation, intents[k].generation)
           /\ formal' = [formal EXCEPT ![k] = m]
           /\ intents' = [intents EXCEPT ![k].status = "published", ![k].manifest = m]
           /\ Answered(k, m) /\ Goes(p, "completing")
  <2>1. /\ Turn(p) /\ publishers'[p].pc = "completing" /\ CommandOf(p)' = CommandOf(p)
    BY <1>0, <1>4, GoesTurn DEF Pc
  <2>2. /\ intents'[k] = [intents[k] EXCEPT !.status = "published", !.manifest = m]
        /\ \A j \in Key \ {k} : intents'[j] = intents[j]
    BY <1>1, <1>4 DEF TypeOK
  <2>3. /\ intents'[k].status = "published" /\ intents'[k].manifest = m
        /\ intents'[k].generation = intents[k].generation
    BY <1>1, <2>2 DEF Intent
  <2>4. intents'[k] \in Intent
    BY <1>1, <2>2 DEF Intent, Status
  <2>5. intents' \in [Key -> Intent]
    BY <1>4, <2>2, <2>4 DEF TypeOK
  <2>6. Steady /\ pause' = pause /\ TypeOK'
    BY <1>1, <1>4, <2>1, <2>5 DEF CommitDelivery, Answered, Steady, env, files, Turn, TypeOK
  <2>7. Knows(p)'
    BY <1>1, <2>1 DEF Knows, KnowsIntent, KnowsManifest, Uncommitted, At
  <2>8. Delivers(k)
    <3>1. Backed(k)
      BY <1>4 DEF Denies, Backed
    <3> QED
      BY <1>1, <1>2, <1>4, <2>3, <3>1 DEF Delivers, TypeOK
  <2>9. /\ RowStep(k)
        /\ \A j \in Key \ {k} : RowKept(j)
    BY <1>1, <1>2, <1>4, <2>2, <2>8
       DEF CommitDelivery, Answered, files, RowStep, RowKept, IntentStep, IntentKept,
           FilesStep, FilesKept, AnswerStep, TypeOK
  <2> QED
    BY <1>1, <2>1, <2>6, <2>7, <2>9, OwnRow
<1>5. CASE (Goes(p, "denied") \/ Ends(p)) /\ UNCHANGED <<intents, formal, answers>>
  BY <1>0, <1>5, QuietEnd, QuietGoes DEF CommitDelivery, Unknowing
<1> QED
  BY <1>2, <1>3, <1>4, <1>5 DEF CommitDelivery, IntentAt

LEMMA CompleteStep ==
    ASSUME PublishingInvariant, NEW p \in Publisher, Complete(p)
    PROVE  CallStep(p)
<1> TypeOK
  BY DEF PublishingInvariant
<1>1. task' \in [revision : Revision, cancelled : BOOLEAN, paused : BOOLEAN,
                 p0 : BOOLEAN, deleting : BOOLEAN]
  BY DEF Complete, TypeOK
<1>2. Steady
  BY DEF Complete, Steady, TypeOK
<1> QED
  BY <1>1, <1>2, EndTurn, QuietCall DEF Complete

LEMMA FailureSteps ==
    ASSUME PublishingInvariant, NEW p \in Publisher, MarkFailed(p) \/ Sweep(p)
    PROVE  CallStep(p)
<1> TypeOK /\ CallsKnow
  BY DEF PublishingInvariant
<1> PICK k : k = KeyAt(p)
  OBVIOUS
<1>1. CASE MarkFailed(p)
  <2>1. publishers[p].pc = "failing"
    BY <1>1 DEF MarkFailed, At
  <2>2. CASE SetStatus(k, "failed") /\ Goes(p, "sweeping")
    BY <1>1, <2>1, <2>2, Marking DEF MarkFailed, Uncommitted
  <2>3. CASE UNCHANGED intents /\ (Goes(p, "denied") \/ Ends(p))
    BY <1>1, <2>1, <2>3, QuietEnd, QuietGoes DEF MarkFailed, Unknowing
  <2> QED
    BY <1>1, <2>2, <2>3 DEF MarkFailed
<1>2. CASE Sweep(p)
  <2>1. publishers[p].pc = "sweeping"
    BY <1>2 DEF Sweep, At
  <2>2. k \in Key /\ HoldsLock(p, k) /\ CommandOf(p) \in Command
    BY <2>1, CallTypes DEF HoldsLock
  <2>3. intents[k].status \in Pending
    BY <2>1 DEF CallsKnow, KnowsIntent, IntentAt, Pending, Uncommitted
  <2>4. Turn(p) /\ Knows(p)'
    <3>1. CASE Ends(p)
      BY <3>1, EndTurn
    <3>2. CASE Goes(p, "denied")
      <4>1. Turn(p) /\ publishers'[p].pc = "denied" /\ CommandOf(p)' = CommandOf(p)
        BY <2>1, <3>2, GoesTurn DEF Pc
      <4> QED
        BY <2>2, <4>1 DEF Knows, KnowsIntent, KnowsManifest, Uncommitted, At
    <3> QED
      BY <1>2, <3>1, <3>2 DEF Sweep
  <2>5. Steady /\ pause' = pause /\ TypeOK'
    BY <1>2, <2>2, <2>4 DEF Sweep, Steady, env, Turn, TypeOK
  <2>6. /\ RowStep(k)
        /\ \A j \in Key \ {k} : RowKept(j)
    BY <1>2, <2>2, <2>3
       DEF Sweep, RowStep, RowKept, IntentStep, IntentKept, FilesStep, FilesKept, Restages,
           AnswerStep, TypeOK
  <2> QED
    BY <2>2, <2>4, <2>5, <2>6, OwnRow
<1> QED
  BY <1>1, <1>2

LEMMA AbortRevokedStep ==
    ASSUME PublishingInvariant, NEW p \in Publisher, AbortRevoked(p)
    PROVE  CallStep(p)
<1> TypeOK /\ CallsKnow /\ Leftovers
  BY DEF PublishingInvariant
<1> PICK k : k = KeyAt(p)
  OBVIOUS
<1>0. publishers[p].pc = "denied"
  BY DEF AbortRevoked, At
<1>1. /\ k \in Key /\ HoldsLock(p, k) /\ CommandOf(p) \in Command /\ intents[k] \in Intent
  BY <1>0, CallTypes DEF HoldsLock, IntentAt
<1>2. CASE /\ intents[k].command = CommandOf(p)
           /\ formal[k] = None /\ ~BindingUsable(intents[k].generation)
           /\ SetStatus(k, "aborted")
  <2>1. intents[k].status # "absent"
    BY <1>1, <1>2, CommandAssumption DEF Leftovers
  <2>2. /\ intents' \in [Key -> Intent]
        /\ intents'[k] = [intents[k] EXCEPT !.status = "aborted"]
        /\ \A j \in Key \ {k} : intents'[j] = intents[j]
    BY <1>1, <1>2, StatusType DEF Status
  <2>3. intents'[k].status = "aborted" /\ intents'[k].generation = intents[k].generation
    BY <1>1, <2>2 DEF Intent
  <2>4. Turn(p) /\ Knows(p)'
    BY EndTurn DEF AbortRevoked
  <2>5. Steady /\ pause' = pause /\ TypeOK'
    BY <2>2, <2>4 DEF AbortRevoked, Steady, env, files, Turn, TypeOK
  <2>6. Revokes(k)
    BY <1>2, <2>1, <2>3 DEF AbortRevoked, Revokes, Backed
  <2>7. /\ RowStep(k)
        /\ \A j \in Key \ {k} : RowKept(j)
    BY <2>2, <2>6
       DEF AbortRevoked, files, RowStep, RowKept, IntentStep, IntentKept, FilesStep, FilesKept,
           AnswerStep
  <2> QED
    BY <1>1, <2>4, <2>5, <2>7, OwnRow
<1>3. CASE UNCHANGED intents
  BY <1>3, QuietEnd DEF AbortRevoked
<1> QED
  BY <1>2, <1>3 DEF AbortRevoked, IntentAt

LEMMA CallEffects ==
    ASSUME PublishingInvariant, NEW p \in Publisher, Calls(p)
    PROVE  CallStep(p)
BY RequestStep, StopStep, QuietSteps, ClaimStep, AnswerStepOf, RecoverStep, GateSteps,
   StagingSteps, FinishStagingStep, BeginCommitStep, RenameStep, CommitDeliveryStep,
   CompleteStep, FailureSteps, AbortRevokedStep
   DEF Calls, Publishes
-------------------------------------------------------------------------------
(* Deletion and reconciliation: a step on one key whose lock is free *)

LoneStep(k) ==
    /\ Steady /\ UNCHANGED publishers /\ RowStep(k)
    /\ RowKept(k) \/ LockFree(k)
    /\ \A j \in Key \ {k} : RowKept(j)

LEMMA CleanEffects ==
    ASSUME PublishingInvariant, NEW k \in Key, NEW recorded \in BOOLEAN,
           CleanPublication(k, recorded)
    PROVE  LoneStep(k)
<1> TypeOK
  BY DEF PublishingInvariant
<1>1. intents[k] \in Intent
  BY DEF TypeOK
<1>2. \A j \in Key \ {k} : RowKept(j)
  BY DEF CleanPublication, RowKept, IntentKept, FilesKept, TypeOK
<1>3. IntentKept(k) \/ Revokes(k)
  <2>1. CASE recorded
    <3>1. intents'[k] = [intents[k] EXCEPT !.status = "aborted", !.manifest = None]
      BY <2>1 DEF CleanPublication, TypeOK
    <3>2. intents'[k].status = "aborted" /\ intents'[k].generation = intents[k].generation
      BY <1>1, <3>1 DEF Intent
    <3> QED
      BY <3>2 DEF CleanPublication, Revokes, Backed
  <2>2. CASE ~recorded
    BY <2>2 DEF CleanPublication, IntentKept
  <2> QED
    BY <2>1, <2>2
<1>4. Cleans(k)
  BY <1>3 DEF CleanPublication, Cleans, TypeOK
<1>5. RowStep(k)
  BY <1>3, <1>4 DEF CleanPublication, RowStep, IntentStep, FilesStep, AnswerStep
<1>6. Steady
  BY DEF CleanPublication, Steady, env
<1> QED
  BY <1>2, <1>5, <1>6 DEF CleanPublication, LoneStep

LEMMA AbortEffects ==
    ASSUME PublishingInvariant, NEW k \in Key, AbortPending(k)
    PROVE  /\ LoneStep(k)
           /\ pause'.active = pause.active /\ pause'.todo = pause.todo \ {k}
           /\ pause'.complete =>
                 pause.complete /\ intents'[k].status \notin {"staging", "committing"}
<1> TypeOK /\ DeliveredIsFrozen /\ Settling
  BY DEF PublishingInvariant
<1> PICK row : row = intents[k]
  OBVIOUS
<1>1. row \in Intent /\ pause \in [active : BOOLEAN, todo : SUBSET Key, complete : BOOLEAN]
  BY DEF TypeOK
<1> DEFINE settled == row.status \in {"published", "aborted"} \/ formal[k] # None
           aborts == LockFree(k) /\ ~settled /\ ~Authorized(row.generation)
<1>2. /\ \A j \in Key \ {k} : RowKept(j)
      /\ formal'[k] = formal[k] /\ FilesKept(k) /\ answers'[k] = answers[k]
  BY DEF AbortPending, SetStatus, RowKept, IntentKept, FilesKept, files, TypeOK
<1>3. Steady
  BY DEF AbortPending, Steady, env
<1>4. /\ pause'.active = pause.active /\ pause'.todo = pause.todo \ {k}
      /\ pause'.complete =>
            pause.complete /\ LockFree(k) /\ (settled \/ ~Authorized(row.generation))
  BY <1>1 DEF AbortPending
<1>5. CASE aborts
  <2>1. intents'[k] = [row EXCEPT !.status = "aborted"]
    BY <1>5, StatusType DEF AbortPending, Status
  <2>2. intents'[k].status = "aborted" /\ intents'[k].generation = row.generation
    BY <1>1, <2>1 DEF Intent
  <2>3. row.status # "absent"
    BY DEF AbortPending, Settling
  <2>4. Revokes(k)
    BY <1>2, <1>5, <2>2, <2>3 DEF Revokes, Backed, BindingUsable
  <2>5. LoneStep(k)
    BY <1>2, <1>3, <1>5, <2>4
       DEF AbortPending, LoneStep, RowStep, IntentStep, FilesStep, AnswerStep
  <2> QED
    BY <1>4, <2>2, <2>5
<1>6. CASE ~aborts
  <2>1. IntentKept(k)
    BY <1>2, <1>6 DEF AbortPending, IntentKept
  <2>2. settled => row.status \notin {"staging", "committing"}
    BY DEF DeliveredIsFrozen
  <2>3. LoneStep(k)
    BY <1>2, <1>3, <2>1
       DEF AbortPending, LoneStep, RowStep, RowKept, IntentStep, FilesStep, AnswerStep
  <2>4. pause'.complete => settled
    BY <1>4, <1>6
  <2> QED
    BY <1>4, <2>1, <2>2, <2>3, <2>4 DEF IntentKept
<1> QED
  BY <1>5, <1>6
-------------------------------------------------------------------------------
(* The invariant after a step on the rows *)

RowsEffect ==
    /\ TypeOK' /\ Exclusion' /\ CallsKnow' /\ RowsStep
    /\ \/ pause' = pause
       \/ \E k \in Key :
             /\ pause'.active = pause.active /\ pause'.todo = pause.todo \ {k}
             /\ pause'.complete =>
                   pause.complete /\ intents'[k].status \notin {"staging", "committing"}

LEMMA KeptRow == ASSUME NEW k \in Key, RowKept(k) PROVE RowStep(k)
BY DEF RowKept, RowStep, IntentStep, FilesStep, AnswerStep

LEMMA KnowsKept ==
    ASSUME CallsKnow, NEW q \in Publisher, publishers'[q] = publishers[q],
           \A k \in Key : HoldsLock(q, k) => RowKept(k)
    PROVE  Knows(q)'
<1>1. KnowsIntent(q) /\ KnowsManifest(q)
  BY DEF CallsKnow
<1>2. CommandOf(q)' = CommandOf(q) /\ KeyAt(q)' = KeyAt(q)
  BY DEF CommandOf, KeyAt
<1>3. CASE publishers[q].pc \in {"down", "idle", "waiting", "completing"}
  BY <1>1, <1>2, <1>3 DEF Knows, KnowsIntent, KnowsManifest, Uncommitted, At
<1>4. CASE publishers[q].pc \notin {"down", "idle", "waiting", "completing"}
  <2>1. CommandOf(q) \in Command
    BY <1>1, <1>4 DEF KnowsIntent
  <2>2. RowKept(KeyAt(q))
    BY <1>4, <2>1, CommandAssumption DEF HoldsLock, KeyAt
  <2>3. IntentAt(q)' = IntentAt(q)
    BY <1>2, <2>2 DEF IntentAt, RowKept, IntentKept
  <2>4. staging[KeyAt(q)]' = staging[KeyAt(q)] /\ final[KeyAt(q)]' = final[KeyAt(q)]
    BY <1>2, <2>2 DEF RowKept, FilesKept
  <2> QED
    BY <1>1, <1>2, <2>3, <2>4 DEF Knows, KnowsIntent, KnowsManifest, At
<1> QED
  BY <1>3, <1>4

LEMMA CallRows ==
    ASSUME PublishingInvariant, NEW p \in Publisher, CallStep(p)
    PROVE  RowsEffect
<1> Exclusion /\ CallsKnow
  BY DEF PublishingInvariant
<1>1. \A q \in Publisher \ {p}, k \in Key : HoldsLock(q, k)' <=> HoldsLock(q, k)
  BY DEF CallStep, Turn, HoldsLock, KeyAt, CommandOf
<1>2. \A k \in Key : HoldsLock(p, k)' => HoldsLock(p, k) \/ LockFree(k)
  BY DEF CallStep, Turn
<1>3. Exclusion'
  BY <1>1, <1>2 DEF Exclusion, LockFree
<1>4. ASSUME NEW q \in Publisher \ {p} PROVE Knows(q)'
  <2>1. \A k \in Key : HoldsLock(q, k) => RowKept(k)
    BY DEF CallStep, Exclusion
  <2> QED
    BY <2>1, KnowsKept DEF CallStep, Turn
<1>5. CallsKnow'
  BY <1>4 DEF CallStep, CallsKnow, Knows
<1>6. OneKey
  BY DEF CallStep, OneKey, HoldsLock
<1>7. \A k \in Key : RowStep(k)
  BY KeptRow DEF CallStep
<1> QED
  BY <1>3, <1>5, <1>6, <1>7 DEF CallStep, RowsEffect, RowsStep

LEMMA LoneRows ==
    ASSUME PublishingInvariant, TypeOK', NEW k \in Key, LoneStep(k)
    PROVE  Exclusion' /\ CallsKnow' /\ RowsStep
<1> Exclusion /\ CallsKnow
  BY DEF PublishingInvariant
<1>1. Exclusion'
  BY DEF LoneStep, Exclusion, HoldsLock, KeyAt, CommandOf
<1>2. ASSUME NEW q \in Publisher PROVE Knows(q)'
  <2>1. \A j \in Key : HoldsLock(q, j) => RowKept(j)
    BY DEF LoneStep, LockFree
  <2> QED
    BY <2>1, KnowsKept DEF LoneStep
<1>3. CallsKnow'
  BY <1>2 DEF CallsKnow, Knows
<1>4. OneKey
  BY DEF LoneStep, OneKey
<1>5. \A j \in Key : RowStep(j)
  BY KeptRow DEF LoneStep
<1> QED
  BY <1>1, <1>3, <1>4, <1>5 DEF LoneStep, RowsStep

\* Outputs go without the publication lock: nobody who holds it relies on them.
LEMMA RemoveRows ==
    ASSUME PublishingInvariant, NEW k \in Key, RemoveOutputs(k)
    PROVE  Exclusion' /\ CallsKnow' /\ RowsStep
<1> TypeOK /\ Exclusion /\ CallsKnow /\ DeliveredIsFrozen
  BY DEF PublishingInvariant
<1>1. \A j \in Key \ {k} : RowKept(j)
  BY DEF RemoveOutputs, RowKept, IntentKept, FilesKept, TypeOK
<1>2. RowStep(k) /\ Steady
  BY DEF RemoveOutputs, RowStep, IntentStep, IntentKept, FilesStep, Removes, AnswerStep, Steady,
     env, TypeOK
<1>3. Exclusion'
  BY DEF RemoveOutputs, Exclusion, HoldsLock, KeyAt, CommandOf
<1>4. ASSUME NEW q \in Publisher PROVE Knows(q)'
  <2>1. KnowsIntent(q) /\ KnowsManifest(q)
    BY DEF CallsKnow
  <2>2. At(q, "delivering") => KeyAt(q) \in Key \ {k}
    <3>1. At(q, "delivering") => KeyAt(q) \in Key /\ IntentAt(q).status = "committing"
      BY <2>1, CallTypes DEF At, KnowsIntent
    <3> QED
      BY <3>1 DEF RemoveOutputs, DeliveredIsFrozen, IntentAt
  <2>3. UNCHANGED <<intents, staging, publishers>> /\ \A j \in Key \ {k} : final'[j] = final[j]
    BY DEF RemoveOutputs, TypeOK
  <2> QED
    BY <2>1, <2>2, <2>3
       DEF Knows, KnowsIntent, KnowsManifest, At, IntentAt, KeyAt, CommandOf
<1>5. CallsKnow'
  BY <1>4 DEF CallsKnow, Knows
<1>6. OneKey
  BY <1>1 DEF OneKey
<1>7. \A j \in Key : RowStep(j)
  BY <1>1, <1>2, KeptRow
<1> QED
  BY <1>2, <1>3, <1>5, <1>6, <1>7 DEF RowsStep

LEMMA RowsEffects ==
    ASSUME PublishingInvariant,
           CleanStep \/ RemoveStep \/ AbortStep \/ \E p \in Publisher : Calls(p)
    PROVE  RowsEffect
<1> TypeOK
  BY DEF PublishingInvariant
<1>1. CASE CleanStep
  <2>1. TypeOK'
    BY <1>1, OtherTypes
  <2>2. Exclusion' /\ CallsKnow' /\ RowsStep
    BY <1>1, <2>1, CleanEffects, LoneRows DEF CleanStep
  <2>3. pause' = pause
    BY <1>1 DEF CleanStep, CleanPublication
  <2> QED
    BY <2>1, <2>2, <2>3 DEF RowsEffect
<1>2. CASE AbortStep
  <2>1. TypeOK'
    BY <1>2, OtherTypes
  <2>2. PICK k \in Key : AbortPending(k)
    BY <1>2 DEF AbortStep
  <2>3. Exclusion' /\ CallsKnow' /\ RowsStep
    BY <2>1, <2>2, AbortEffects, LoneRows
  <2> QED
    BY <2>1, <2>2, <2>3, AbortEffects DEF RowsEffect
<1>3. CASE \E p \in Publisher : Calls(p)
  BY <1>3, CallEffects, CallRows
<1>4. CASE RemoveStep
  <2>1. TypeOK'
    BY <1>4, OtherTypes
  <2>2. Exclusion' /\ CallsKnow' /\ RowsStep
    BY <1>4, RemoveRows DEF RemoveStep
  <2>3. pause' = pause
    BY <1>4 DEF RemoveStep, RemoveOutputs
  <2> QED
    BY <2>1, <2>2, <2>3 DEF RowsEffect
<1> QED
  BY <1>1, <1>2, <1>3, <1>4

\* A present intent stays present, and its authority never comes back.
LEMMA AuthorityOnlyEnds ==
    ASSUME TypeOK, Aged, TypeOK', RowsStep, NEW k \in Key, intents[k].status # "absent"
    PROVE  /\ intents'[k].status # "absent"
           /\ intents'[k].generation = intents[k].generation
           /\ Backed(k)' <=> Backed(k)
<1>1. /\ intents'[k].status # "absent"
      /\ intents'[k].generation = intents[k].generation
  BY DEF RowsStep, RowStep, IntentStep, IntentKept, Claims, Fails, Revokes, Commits, Delivers
<1>2. account' = account /\ binding' = binding /\ task'.deleting = task.deleting
  BY DEF RowsStep, Steady
<1> QED
  BY <1>1, <1>2 DEF Backed, BindingUsable, Authorized

LEMMA RowsAged == ASSUME PublishingInvariant, RowsEffect PROVE Aged'
<1> TypeOK /\ TypeOK' /\ Aged /\ RowsStep
  BY DEF PublishingInvariant, RowsEffect
<1>1. pause'.active = pause.active
  BY DEF RowsEffect
<1>2. ASSUME NEW k \in Key, intents'[k].status # "absent"
      PROVE  intents'[k].generation <= binding.generation
  <2>1. CASE intents[k].status # "absent"
    BY <2>1, AuthorityOnlyEnds DEF Aged
  <2>2. CASE intents[k].status = "absent"
    <3>1. Claims(k)
      BY <1>2, <2>2
         DEF RowsStep, RowStep, IntentStep, IntentKept, Fails, Revokes, Commits, Delivers, Pending
    <3>2. intents'[k].generation \in Generation
      BY DEF TypeOK, Intent
    <3> QED
      BY <3>1, <3>2, UsableIsUnpaused DEF Claims, TypeOK, Generation
  <2> QED
    BY <2>1, <2>2
<1> QED
  BY <1>1, <1>2 DEF Aged, RowsStep, Steady

LEMMA RowsLeftovers == ASSUME PublishingInvariant, RowsEffect PROVE Leftovers'
<1> TypeOK /\ TypeOK' /\ Aged /\ Leftovers /\ DeliveredIsFrozen /\ RowsStep
  BY DEF PublishingInvariant, RowsEffect
<1> SUFFICES ASSUME NEW k \in Key
             PROVE  /\ intents'[k].status = "absent" => final'[k] = None /\ intents'[k].command = None
                    /\ final'[k] # None /\ intents'[k].status \notin {"committing", "published"} =>
                          ~Backed(k)'
  BY DEF Leftovers
<1>1. IntentStep(k) /\ FilesStep(k)
  BY DEF RowsStep, RowStep
<1>2. CASE intents[k].status = "absent"
  <2>1. final'[k] = None
    BY <1>1, <1>2
       DEF FilesStep, FilesKept, Restages, Moves, Cleans, Removes, Leftovers, DeliveredIsFrozen, Pending
  <2>2. intents'[k].status = "absent" => intents'[k] = intents[k]
    BY <1>1 DEF IntentStep, IntentKept, Claims, Fails, Revokes, Commits, Delivers
  <2> QED
    BY <1>2, <2>1, <2>2 DEF Leftovers
<1>3. CASE intents[k].status # "absent"
  <2>1. intents'[k].status # "absent" /\ (Backed(k)' <=> Backed(k))
    BY <1>3, AuthorityOnlyEnds
  <2>2. ASSUME final'[k] # None, intents'[k].status \notin {"committing", "published"}
        PROVE  ~Backed(k)
    <3>1. CASE Revokes(k)
      BY <3>1 DEF Revokes
    <3>2. CASE IntentKept(k) \/ Fails(k)
      <4>1. /\ intents[k].status \notin {"committing", "published"}
            /\ final'[k] = final[k]
        BY <1>1, <2>2, <3>2
           DEF IntentKept, Fails, FilesStep, FilesKept, Restages, Moves, Cleans, Removes,
               DeliveredIsFrozen, Pending
      <4> QED
        BY <2>2, <4>1 DEF Leftovers
    <3>3. CASE Claims(k) \/ Commits(k) \/ Delivers(k)
      BY <1>3, <2>2, <3>3 DEF Claims, Commits, Delivers
    <3> QED
      BY <1>1, <3>1, <3>2, <3>3 DEF IntentStep
  <2> QED
    BY <2>1, <2>2
<1> QED
  BY <1>2, <1>3

\* A row that becomes pending does so under a live authority that is not being
\* paused.
LEMMA RowsPending ==
    ASSUME PublishingInvariant, RowsEffect, NEW k \in Key, pause.active \/ task.paused,
           intents'[k].status \in {"staging", "committing"}
    PROVE  intents'[k] = intents[k]
<1> TypeOK /\ TypeOK' /\ Aged /\ RowsStep
  BY DEF PublishingInvariant, RowsEffect
<1>1. ~Claims(k)
  BY UsableIsUnpaused DEF Claims, TypeOK, Intent
<1>2. ~Commits(k)
  BY UsableIsUnpaused DEF Commits, Backed, TypeOK, Intent
<1> QED
  BY <1>1, <1>2 DEF RowsStep, RowStep, IntentStep, IntentKept, Fails, Revokes, Delivers

LEMMA RowsSettling ==
    ASSUME PublishingInvariant, RowsEffect
    PROVE  Settling' /\ PausedHasNoPending'
<1> TypeOK /\ TypeOK' /\ Aged /\ Settling /\ PausedHasNoPending /\ RowsStep
  BY DEF PublishingInvariant, RowsEffect
<1>1. ASSUME NEW k \in pause'.todo PROVE intents'[k].status # "absent"
  <2>1. k \in pause.todo /\ k \in Key
    BY DEF RowsEffect, TypeOK
  <2> QED
    BY <2>1, AuthorityOnlyEnds DEF Settling
<1>2. ASSUME pause'.active, pause'.complete, NEW k \in Key,
             intents'[k].status \in {"staging", "committing"}
      PROVE  k \in pause'.todo
  <2>1. pause.active /\ pause.complete
    BY <1>2 DEF RowsEffect
  <2>2. intents'[k] = intents[k]
    BY <1>2, <2>1, RowsPending
  <2>3. k \in pause.todo
    BY <1>2, <2>1, <2>2 DEF Settling
  <2> QED
    BY <1>2, <2>3 DEF RowsEffect
<1>3. PausedHasNoPending'
  BY RowsPending DEF PausedHasNoPending, RowsStep, Steady
<1> QED
  BY <1>1, <1>2, <1>3 DEF Settling

LEMMA RowsDelivered ==
    ASSUME PublishingInvariant, RowsEffect
    PROVE  DeliveredIsFrozen' /\ OneAnswer'
<1> TypeOK /\ DeliveredIsFrozen /\ OneAnswer /\ RowsStep
  BY DEF PublishingInvariant, RowsEffect
<1> SUFFICES ASSUME NEW k \in Key
             PROVE  /\ formal'[k] # None => /\ intents'[k].status = "published"
                                           /\ intents'[k].manifest = formal'[k]
                                           /\ final'[k] \in {formal'[k], Partial}
                    /\ answers'[k] \subseteq {formal'[k]} \ {None}
  BY DEF DeliveredIsFrozen, OneAnswer
<1>1. IntentStep(k) /\ FilesStep(k) /\ AnswerStep(k)
  BY DEF RowsStep, RowStep
<1>2. CASE formal[k] # None
  <2>1. /\ intents[k].status = "published" /\ intents[k].manifest = formal[k]
        /\ final[k] \in {formal[k], Partial}
    BY <1>2 DEF DeliveredIsFrozen
  <2>2. IntentKept(k)
    BY <1>1, <1>2, <2>1 DEF IntentStep, Claims, Fails, Revokes, Commits, Delivers, Pending
  <2>3. final'[k] \in {final[k], Partial}
    BY <1>1, <1>2, <2>1 DEF FilesStep, FilesKept, Restages, Moves, Cleans, Removes
  <2> QED
    BY <1>1, <1>2, <2>1, <2>2, <2>3 DEF IntentKept, AnswerStep, OneAnswer
<1>3. CASE formal[k] = None
  <2>1. answers[k] = {}
    BY <1>3 DEF OneAnswer
  <2>2. CASE Delivers(k)
    <3>1. final'[k] = final[k]
      BY <1>1, <2>2
         DEF FilesStep, FilesKept, Restages, Moves, Cleans, Removes, Delivers, IntentKept, Revokes,
             Pending
    <3>2. intents[k].manifest # None
      BY <2>2, CommandAssumption DEF Delivers
    <3> QED
      BY <1>1, <2>1, <2>2, <3>1, <3>2 DEF Delivers, AnswerStep
  <2>3. CASE ~Delivers(k)
    <3>1. formal'[k] = None
      BY <1>1, <1>3, <2>3 DEF IntentStep, IntentKept, Claims, Fails, Revokes, Commits
    <3> QED
      BY <1>1, <2>1, <3>1 DEF AnswerStep
  <2> QED
    BY <2>2, <2>3
<1> QED
  BY <1>2, <1>3

LEMMA RowsCommitted ==
    ASSUME PublishingInvariant, RowsEffect
    PROVE  FrozenEvidence' /\ CommittedIsCurrent'
<1> /\ TypeOK /\ TypeOK' /\ Aged /\ Leftovers /\ FrozenEvidence /\ CommittedIsCurrent
    /\ DeliveredIsFrozen /\ RowsStep
  BY DEF PublishingInvariant, RowsEffect
<1> SUFFICES ASSUME NEW k \in Key, intents'[k].status = "committing"
             PROVE  /\ Backed(k)' => \/ final'[k] = intents'[k].manifest
                                     \/ final'[k] = None /\ staging'[k] = intents'[k].manifest
                    /\ intents'[k].command \in Explicit =>
                          RevOf[intents'[k].command] = task.revision
  BY DEF FrozenEvidence, CommittedIsCurrent, RowsStep, Steady
<1>1. IntentStep(k) /\ FilesStep(k)
  BY DEF RowsStep, RowStep
<1>2. CASE IntentKept(k)
  <2>1. intents[k].status = "committing"
    BY <1>2 DEF IntentKept
  <2>2. Backed(k)' <=> Backed(k)
    BY <2>1, AuthorityOnlyEnds
  <2>3. Backed(k) => FilesKept(k) \/ Moves(k)
    BY <1>1, <2>1 DEF FilesStep, Restages, Cleans, Removes, DeliveredIsFrozen, Backed, Pending
  <2>4. CASE FilesKept(k)
    BY <1>2, <2>1, <2>2, <2>4 DEF IntentKept, FilesKept, FrozenEvidence, CommittedIsCurrent
  <2>5. CASE Moves(k)
    BY <1>2, <2>1, <2>5 DEF IntentKept, Moves, CommittedIsCurrent
  <2>6. CASE ~Backed(k)
    BY <1>2, <2>1, <2>2, <2>6 DEF IntentKept, CommittedIsCurrent
  <2> QED
    BY <2>3, <2>4, <2>5, <2>6
<1>3. CASE Commits(k)
  <2>1. final[k] = None
    BY <1>3 DEF Commits, Leftovers, Pending
  <2>2. FilesKept(k)
    BY <1>1, <1>3
       DEF FilesStep, Restages, Moves, Cleans, Removes, DeliveredIsFrozen, Commits, IntentKept,
           Revokes, Backed, Pending
  <2> QED
    BY <1>3, <2>1, <2>2 DEF Commits, FilesKept
<1> QED
  BY <1>1, <1>2, <1>3 DEF IntentStep, Claims, Fails, Revokes, Delivers

LEMMA RowsInvariant == ASSUME PublishingInvariant, RowsEffect PROVE PublishingInvariant'
BY RowsAged, RowsLeftovers, RowsSettling, RowsDelivered, RowsCommitted
   DEF PublishingInvariant, RowsEffect
-------------------------------------------------------------------------------
(* The invariant after a step of the account, the task or a deletion *)

\* The rows stay, authority only ends, and no revision leaves a committed explicit
\* publication behind.
EnvEffect ==
    /\ UNCHANGED <<intents, formal, files, publishers, answers>>
    /\ account'.generation >= account.generation
    /\ task.deleting => task'.deleting
    /\ task'.revision # task.revision => ~CommittingRevision

LEMMA EnvEffects ==
    ASSUME PublishingInvariant, EnvStep
    PROVE  EnvEffect /\ TypeOK' /\ Aged' /\ Settling' /\ PausedHasNoPending'
<1> TypeOK /\ Aged /\ Settling /\ PausedHasNoPending
  BY DEF PublishingInvariant
<1>0. TypeOK'
  BY EnvTypes
<1> USE <1>0 DEF TypeOK, env, files, rows, Generation
<1>1. EnvEffect
  <2>1. CASE Cancel \/ SwitchP0 \/ OpenDeletion \/ Hold \/ Reenable \/ StartPause \/ PauseCrash
    BY <2>1 DEF Cancel, SwitchP0, OpenDeletion, Hold, Reenable, StartPause, PauseCrash, EnvEffect
  <2>2. CASE AdvanceRevision
    BY <2>2 DEF AdvanceRevision, EnvEffect
  <2>3. ASSUME NEW c \in Command, Supersede(c) PROVE EnvEffect
    BY <2>3 DEF Supersede, EnvEffect
  <2>4. ASSUME NEW stopped \in BOOLEAN, FinishPause(stopped) PROVE EnvEffect
    BY <2>4 DEF FinishPause, EnvEffect
  <2>5. ASSUME NEW advance \in BOOLEAN, Resume(advance) PROVE EnvEffect
    BY <2>5 DEF Resume, EnvEffect
  <2> QED
    BY <2>1, <2>2, <2>3, <2>4, <2>5 DEF EnvStep
<1>2. CASE Cancel \/ SwitchP0 \/ OpenDeletion \/ AdvanceRevision \/ \E c \in Command : Supersede(c)
  <2>1. /\ UNCHANGED <<account, binding, intents, pause>> /\ task'.paused = task.paused
    BY <1>2 DEF Cancel, SwitchP0, OpenDeletion, AdvanceRevision, Supersede
  <2> QED
    BY <1>1, <2>1 DEF Aged, Settling, PausedHasNoPending
<1>3. CASE Hold
  BY <1>1, <1>3 DEF Hold, Aged, Settling, PausedHasNoPending
<1>4. CASE Reenable
  BY <1>1, <1>4 DEF Reenable, Aged, Settling, PausedHasNoPending
<1>5. CASE StartPause
  <2>0. binding.generation \in Nat /\ account.generation \in Nat
    BY BoundAssumption
  <2>1. binding.generation < account.generation
    BY ONLY <1>5, <2>0, Aged DEF StartPause, BindingUsable, Authorized, Aged
  <2>2. Aged'
    BY <1>5, <2>1 DEF StartPause, Aged
  <2>3. Settling'
    BY <1>5 DEF StartPause, PendingIntents, Settling, Aged
  <2> QED
    BY <1>1, <1>5, <2>2, <2>3 DEF StartPause, PausedHasNoPending
<1>6. CASE PauseCrash
  BY <1>1, <1>6 DEF PauseCrash, Aged, Settling, PausedHasNoPending
<1>7. ASSUME NEW stopped \in BOOLEAN, FinishPause(stopped)
      PROVE  Aged' /\ Settling' /\ PausedHasNoPending'
  <2>1. binding.generation < account.generation
    BY <1>7 DEF FinishPause, Aged
  <2>2. binding'.generation = binding.generation
    BY <1>7 DEF FinishPause
  <2>3. task'.paused => binding'.paused
    BY <1>7 DEF FinishPause, Aged
  <2>4. Aged'
    BY <1>7, <2>1, <2>2, <2>3 DEF FinishPause, Aged
  <2>5. Settling'
    BY <1>7 DEF FinishPause, Settling
  <2>6. PausedHasNoPending'
    BY <1>7, <2>2 DEF FinishPause, Settling, PausedHasNoPending
  <2> QED
    BY <2>4, <2>5, <2>6
<1>8. ASSUME NEW advance \in BOOLEAN, Resume(advance)
      PROVE  Aged' /\ Settling' /\ PausedHasNoPending'
  <2>1. /\ binding' = [generation |-> account.generation, paused |-> FALSE]
        /\ ~task'.paused /\ ~account.held /\ ~pause.active
        /\ UNCHANGED <<account, intents, pause>>
    BY <1>8 DEF Resume, WorkspaceFree
  <2>2. Aged'
    BY <2>1 DEF Aged, Intent
  <2>3. Settling'
    BY <2>1 DEF Settling
  <2> QED
    BY <2>1, <2>2, <2>3 DEF PausedHasNoPending
<1> QED
  BY <1>0, <1>1, <1>2, <1>3, <1>4, <1>5, <1>6, <1>7, <1>8 DEF EnvStep

\* A present intent that still has its authority after the step had it before.
LEMMA EnvBacked ==
    ASSUME TypeOK, TypeOK', Aged, Aged', EnvEffect, NEW k \in Key,
           intents[k].status # "absent", Backed(k)'
    PROVE  Backed(k)
<1> DEFINE gen == intents[k].generation
<1>1. intents' = intents /\ gen \in Generation
  BY DEF EnvEffect, TypeOK, Intent
<1>2. gen <= binding.generation /\ gen <= binding'.generation
  BY <1>1 DEF Aged
<1>3. gen = account'.generation
  BY <1>1, <1>2 DEF Backed, BindingUsable, Authorized
<1>4. account.generation <= account'.generation /\ binding.generation <= account.generation
  BY DEF EnvEffect, Aged
<1>5. gen = account.generation
  BY <1>1, <1>2, <1>3, <1>4 DEF TypeOK, Generation
<1>6. BindingUsable(gen)
  BY <1>1, <1>2, <1>5, UsableIsCurrent
<1>7. ~task.deleting
  BY DEF Backed, EnvEffect, TypeOK
<1> QED
  BY <1>6, <1>7 DEF Backed

LEMMA EnvInvariant == ASSUME PublishingInvariant, EnvStep PROVE PublishingInvariant'
<1> /\ TypeOK /\ Exclusion /\ CallsKnow /\ Aged /\ Leftovers /\ CommittedIsCurrent
    /\ DeliveredIsFrozen /\ FrozenEvidence /\ OneAnswer
  BY DEF PublishingInvariant
<1>1. EnvEffect /\ TypeOK' /\ Aged' /\ Settling' /\ PausedHasNoPending'
  BY EnvEffects
<1>2. UNCHANGED <<intents, formal, staging, final, publishers, answers>>
  BY <1>1 DEF EnvEffect, files
<1>3. Exclusion'
  BY <1>2 DEF Exclusion, HoldsLock, KeyAt, CommandOf
<1>4. CallsKnow'
  BY <1>2 DEF CallsKnow, KnowsIntent, KnowsManifest, IntentAt, KeyAt, CommandOf, At, Uncommitted
<1>5. DeliveredIsFrozen' /\ OneAnswer'
  BY <1>2 DEF DeliveredIsFrozen, OneAnswer
<1>6. \A k \in Key : intents[k].status # "absent" /\ Backed(k)' => Backed(k)
  BY <1>1, EnvBacked
<1>7. Leftovers'
  BY <1>2, <1>6 DEF Leftovers
<1>8. FrozenEvidence'
  BY <1>2, <1>6 DEF FrozenEvidence
<1>9. CommittedIsCurrent'
  BY <1>1, <1>2 DEF EnvEffect, CommittingRevision, CommittedIsCurrent
<1> QED
  BY <1>1, <1>3, <1>4, <1>5, <1>7, <1>8, <1>9 DEF PublishingInvariant

LEMMA InitInvariant == ASSUME Init PROVE PublishingInvariant
<1> USE BoundAssumption, CommandAssumption DEF Init
<1>1. 0 \in Generation /\ \A p \in Publisher : publishers[p] = Idle
  BY DEF Generation
<1>2. \A k \in Key : /\ intents[k].status = "absent" /\ intents[k].command = None
                     /\ intents[k].generation = 0 /\ intents[k] \in Intent
  BY <1>1 DEF Intent, Status
<1>3. TypeOK
  <2>1. intents \in [Key -> Intent]
    BY <1>1 DEF Intent, Status
  <2>2. publishers \in [Publisher -> Call]
    BY IdleType
  <2> QED
    BY <1>1, <2>1, <2>2 DEF TypeOK, Revision
<1>4. Exclusion /\ CallsKnow
  BY <1>1 DEF Exclusion, CallsKnow, HoldsLock, KnowsIntent, KnowsManifest, Idle, At, Uncommitted
<1>5. Aged /\ Settling /\ PausedHasNoPending
  BY <1>2 DEF Aged, Settling, PausedHasNoPending
<1>6. Leftovers /\ CommittedIsCurrent /\ DeliveredIsFrozen /\ FrozenEvidence /\ OneAnswer
  BY <1>2 DEF Leftovers, CommittedIsCurrent, DeliveredIsFrozen, FrozenEvidence, OneAnswer
<1> QED
  BY <1>3, <1>4, <1>5, <1>6 DEF PublishingInvariant

LEMMA StutterInvariant == ASSUME PublishingInvariant, UNCHANGED vars PROVE PublishingInvariant'
<1> USE DEF vars, env, files
<1>1. TypeOK' /\ Exclusion' /\ Settling'
  BY DEF PublishingInvariant, TypeOK, Exclusion, HoldsLock, KeyAt, CommandOf, Settling
<1>2. CallsKnow'
  BY DEF PublishingInvariant, CallsKnow, KnowsIntent, KnowsManifest, IntentAt, KeyAt, CommandOf, At
<1>3. Aged' /\ Leftovers' /\ CommittedIsCurrent'
  BY DEF PublishingInvariant, Aged, Leftovers, CommittedIsCurrent, Backed, BindingUsable, Authorized
<1>4. DeliveredIsFrozen' /\ FrozenEvidence' /\ OneAnswer' /\ PausedHasNoPending'
  BY DEF PublishingInvariant, DeliveredIsFrozen, FrozenEvidence, OneAnswer, PausedHasNoPending,
         Backed, BindingUsable, Authorized
<1> QED
  BY <1>1, <1>2, <1>3, <1>4 DEF PublishingInvariant
-------------------------------------------------------------------------------
(* Theorems *)

\* At every moment of every execution the lock of a key excludes, calls know what
\* they rely on, authorities only age, and the evidence of a publication is whole.
\* Code: DeliveryPublisher._publish_locked, reconcile_account_publications,
\* _cleanup_runtime_copies.
THEOREM PublishingIsSafe == Spec => []PublishingInvariant
<1>1. Init => PublishingInvariant
  BY InitInvariant
<1>2. PublishingInvariant /\ [Next]_vars => PublishingInvariant'
  BY NextCases, StutterInvariant, EnvInvariant, RowsEffects, RowsInvariant
<1> QED
  BY <1>1, <1>2, PTL DEF Spec

\* The state variables keep their types for any keys, calls, commands and bounds.
\* Code: the tables and directories of delivery_publishing.
THEOREM PublishingTypes == Spec => []TypeOK
BY PublishingIsSafe, PTL DEF PublishingInvariant

\* A formal row and its intent tell one manifest for ever, and its directory is
\* never replaced or cleared, though a source deletion may remove the outputs.
\* Code: commit_delivery, _recover_commit, _cleanup_runtime_copies, _remove_object.
THEOREM DeliveriesAreFrozen == Spec => []DeliveredIsFrozen
BY PublishingIsSafe, PTL DEF PublishingInvariant

\* After any crash a publication past the commit point whose authority holds
\* finds its frozen manifest complete.  Code: begin_commit, _recover_commit.
THEOREM EvidenceIsWhole == Spec => []FrozenEvidence
BY PublishingIsSafe, PTL DEF PublishingInvariant

\* All successful calls for a key answer the manifest that is delivered.
\* Code: DeliveryPublisher.publish, commit_delivery.
THEOREM AnswersAgree == Spec => []OneAnswer
BY PublishingIsSafe, PTL DEF PublishingInvariant

\* A paused task has no pending publication of its old generation.
\* Code: reconcile_account_publications, _finish_account_pause.
THEOREM PausedIsSettled == Spec => []PausedHasNoPending
BY PublishingIsSafe, PTL DEF PublishingInvariant

\* No two calls are inside the lock of one key.  Code: DeliveryPublisher.publish.
THEOREM LocksExclude == Spec => []Exclusion
BY PublishingIsSafe, PTL DEF PublishingInvariant

LEMMA RowStepCases ==
    ASSUME PublishingInvariant, [Next]_vars, NEW k \in Key
    PROVE  IntentKept(k) \/ (RowsEffect /\ IntentStep(k))
<1>1. CASE UNCHANGED vars
  BY <1>1 DEF vars, IntentKept
<1>2. CASE EnvStep
  BY <1>2, EnvEffects DEF EnvEffect, IntentKept
<1>3. CASE CleanStep \/ RemoveStep \/ AbortStep \/ \E p \in Publisher : Calls(p)
  <2>1. RowsEffect
    BY <1>3, RowsEffects
  <2> QED
    BY <2>1 DEF RowsEffect, RowsStep, RowStep
<1> QED
  BY <1>1, <1>2, <1>3, NextCases

\* From the commit point a publication goes only to the delivery of the frozen
\* manifest, or is aborted when its authority is gone.
\* Code: begin_commit, mark_failed, abort_revoked_intent, _recover_commit.
THEOREM CommitPointHolds == Spec => CommitPointIsFinal
<1>1. ASSUME PublishingInvariant, [Next]_vars, NEW k \in Key,
             intents[k].status = "committing", intents'[k] # intents[k]
      PROVE  \/ /\ intents'[k].status = "published"
                /\ intents'[k].manifest = intents[k].manifest
                /\ formal'[k] = intents[k].manifest
             \/ intents'[k].status = "aborted" /\ ~Backed(k)
  BY <1>1, RowStepCases
     DEF IntentStep, IntentKept, Claims, Fails, Revokes, Commits, Delivers, Pending
<1> DEFINE Final == \A k \in Key : intents[k].status = "committing" /\ intents'[k] # intents[k] =>
               \/ /\ intents'[k].status = "published"
                  /\ intents'[k].manifest = intents[k].manifest
                  /\ formal'[k] = intents[k].manifest
               \/ intents'[k].status = "aborted" /\ ~Backed(k)
<1>2. PublishingInvariant /\ [Next]_vars => [Final]_vars
  BY <1>1
<1> QED
  BY <1>2, PublishingIsSafe, PTL DEF Spec, CommitPointIsFinal

\* An explicit publication is delivered only while its revision is active.
\* Code: create_semantic_workspace_revision, begin_commit, commit_delivery.
THEOREM DeliveriesAreCurrent == Spec => DeliveredWhileCurrent
<1>1. ASSUME PublishingInvariant, [Next]_vars, NEW k \in Key,
             formal'[k] # formal[k], intents[k].command \in Explicit
      PROVE  RevOf[intents[k].command] = task.revision
  <2>1. intents[k].status = "committing"
    BY <1>1, RowStepCases DEF IntentStep, IntentKept, Claims, Fails, Revokes, Commits, Delivers
  <2> QED
    BY <1>1, <2>1 DEF PublishingInvariant, CommittedIsCurrent
<1> DEFINE Current == \A k \in Key : formal'[k] # formal[k] /\ intents[k].command \in Explicit =>
               RevOf[intents[k].command] = task.revision
<1>2. PublishingInvariant /\ [Next]_vars => [Current]_vars
  BY <1>1
<1> QED
  BY <1>2, PublishingIsSafe, PTL DEF Spec, DeliveredWhileCurrent
-------------------------------------------------------------------------------
(* Publishing implements DeliveryPromise *)

PromiseOf(k) == IF intents[k].status = "committing" /\ Backed(k) THEN intents[k].manifest ELSE None
Promised == [k \in Key |-> PromiseOf(k)]

\* A step on the rows promises, delivers or leaves promises alone.
LEMMA RowsPromise ==
    ASSUME PublishingInvariant, RowsEffect
    PROVE  \/ Promised' = Promised /\ formal' = formal
           \/ \E k \in Key, m \in Manifest :
                 /\ Promised[k] = None /\ formal[k] = None /\ formal' = formal
                 /\ Promised' = [Promised EXCEPT ![k] = m]
           \/ \E k \in Key :
                 /\ Promised[k] # None
                 /\ formal' = [formal EXCEPT ![k] = Promised[k]]
                 /\ Promised' = [Promised EXCEPT ![k] = None]
<1> TypeOK /\ TypeOK' /\ Aged /\ DeliveredIsFrozen /\ RowsStep
  BY DEF PublishingInvariant, RowsEffect
<1>1. /\ formal \in [Key -> Manifest \union {None}]
      /\ formal' \in [Key -> Manifest \union {None}]
  BY DEF TypeOK
<1>2. \A k \in Key : intents[k].status # "absent" => (Backed(k)' <=> Backed(k))
  BY AuthorityOnlyEnds
<1>3. ASSUME NEW k \in Key, IntentKept(k) PROVE PromiseOf(k)' = PromiseOf(k)
  BY <1>2, <1>3 DEF IntentKept, PromiseOf
<1>4. CASE \A k \in Key : RowKept(k)
  <2>1. formal' = formal
    BY <1>1, <1>4 DEF RowKept, IntentKept
  <2>2. Promised' = Promised
    BY <1>3, <1>4 DEF RowKept, Promised
  <2> QED
    BY <2>1, <2>2
<1>5. ASSUME NEW k \in Key, ~RowKept(k)
      PROVE  \/ Promised' = Promised /\ formal' = formal
             \/ \E m \in Manifest :
                   /\ Promised[k] = None /\ formal[k] = None /\ formal' = formal
                   /\ Promised' = [Promised EXCEPT ![k] = m]
             \/ /\ Promised[k] # None
                /\ formal' = [formal EXCEPT ![k] = Promised[k]]
                /\ Promised' = [Promised EXCEPT ![k] = None]
  <2>1. \A j \in Key \ {k} : IntentKept(j) /\ formal'[j] = formal[j] /\ PromiseOf(j)' = PromiseOf(j)
    BY <1>3, <1>5 DEF RowsStep, OneKey, RowKept, IntentKept
  <2>2. IntentStep(k)
    BY DEF RowsStep, RowStep
  <2>3. CASE IntentKept(k) \/ Claims(k) \/ Fails(k) \/ Revokes(k)
    <3>1. formal'[k] = formal[k] /\ PromiseOf(k)' = PromiseOf(k)
      BY <1>3, <2>3 DEF IntentKept, Claims, Fails, Revokes, PromiseOf, Pending
    <3>2. formal' = formal
      BY <1>1, <2>1, <3>1
    <3>3. Promised' = Promised
      BY <2>1, <3>1 DEF Promised
    <3> QED
      BY <3>2, <3>3
  <2>4. CASE Commits(k)
    <3>1. /\ formal'[k] = formal[k] /\ formal[k] = None /\ PromiseOf(k) = None
          /\ staging[k] \in Manifest
      BY <2>4 DEF Commits, Pending, PromiseOf, DeliveredIsFrozen
    <3>2. PromiseOf(k)' = staging[k]
      BY <1>2, <2>4 DEF Commits, Pending, PromiseOf
    <3>3. formal' = formal
      BY <1>1, <2>1, <3>1
    <3>4. Promised' = [Promised EXCEPT ![k] = staging[k]]
      BY <2>1, <3>2 DEF Promised
    <3> QED
      BY <3>1, <3>3, <3>4 DEF Promised
  <2>5. CASE Delivers(k)
    <3>1. /\ PromiseOf(k) = intents[k].manifest /\ PromiseOf(k) # None
          /\ formal'[k] = intents[k].manifest /\ PromiseOf(k)' = None
      BY <2>5, CommandAssumption DEF Delivers, PromiseOf
    <3>2. formal' = [formal EXCEPT ![k] = PromiseOf(k)]
      BY <1>1, <2>1, <3>1
    <3>3. Promised' = [Promised EXCEPT ![k] = None]
      BY <2>1, <3>1 DEF Promised
    <3> QED
      BY <3>1, <3>2, <3>3 DEF Promised
  <2> QED
    BY <2>2, <2>3, <2>4, <2>5 DEF IntentStep
<1> QED
  BY <1>4, <1>5

\* A step of the account or the task leaves promises alone or withdraws them all.
LEMMA EnvPromise ==
    ASSUME PublishingInvariant, EnvStep
    PROVE  /\ formal' = formal
           /\ Promised' = Promised \/ Promised' = [k \in Key |-> None]
<1> TypeOK /\ Aged
  BY DEF PublishingInvariant
<1>1. EnvEffect /\ TypeOK' /\ Aged'
  BY EnvEffects
<1>2. intents' = intents /\ formal' = formal
  BY <1>1 DEF EnvEffect
<1> DEFINE Committed(k) == intents[k].status = "committing"
<1>3. \A k \in Key : Committed(k) /\ Backed(k)' => Backed(k)
  BY <1>1, EnvBacked
<1>4. ASSUME NEW j \in Key, NEW k \in Key, Committed(j), Committed(k), Backed(j)', Backed(k)
      PROVE  Backed(k)'
  <2>1. Backed(j)
    BY <1>3, <1>4
  <2>2. intents[j].generation = intents[k].generation
    BY <1>4, <2>1 DEF Backed, BindingUsable, Authorized
  <2> QED
    BY <1>2, <1>4, <2>2 DEF Backed, BindingUsable, Authorized
<1>5. CASE \E j \in Key : Committed(j) /\ Backed(j)'
  <2>1. \A k \in Key : Committed(k) => (Backed(k)' <=> Backed(k))
    BY <1>3, <1>4, <1>5
  <2>2. \A k \in Key : PromiseOf(k)' = PromiseOf(k)
    BY <1>2, <2>1 DEF PromiseOf
  <2> QED
    BY <1>2, <2>2 DEF Promised
<1>6. CASE ~\E j \in Key : Committed(j) /\ Backed(j)'
  <2>1. \A k \in Key : PromiseOf(k)' = None
    BY <1>2, <1>6 DEF PromiseOf
  <2> QED
    BY <1>2, <2>1 DEF Promised
<1> QED
  BY <1>5, <1>6

LEMMA PromiseStep ==
    ASSUME PublishingInvariant, [Next]_vars
    PROVE  [Promises!Next]_(Promises!vars)
<1> USE DEF Promises!Next, Promises!vars, Promises!Promise, Promises!Deliver, Promises!Withdraw
<1>1. CASE UNCHANGED vars
  BY <1>1 DEF vars, Backed, BindingUsable, Authorized
<1>2. CASE EnvStep
  BY <1>2, EnvPromise DEF Promised, PromiseOf
<1>3. CASE CleanStep \/ RemoveStep \/ AbortStep \/ \E p \in Publisher : Calls(p)
  <2>1. RowsEffect
    BY <1>3, RowsEffects
  <2> QED
    BY <2>1, RowsPromise DEF Promised, PromiseOf
<1> QED
  BY <1>1, <1>2, <1>3, NextCases

\* Publishing implements DeliveryPromise for any keys, calls and commands: every
\* step promises, delivers what was promised, withdraws all promises at a hold or
\* a deletion, or does none of these.
\* Code: begin_commit, commit_delivery, abort_revoked_intent, _recover_commit.
THEOREM PromisesAreKept == Spec => KeepsPromises
<1>1. Init => Promises!Init
  BY DEF Init, Promises!Init
<1>2. PublishingInvariant /\ [Next]_vars => [Promises!Next]_(Promises!vars)
  BY PromiseStep
<1> QED
  BY <1>1, <1>2, PublishingIsSafe, PTL DEF Spec, KeepsPromises, Promises!Spec
===============================================================================
