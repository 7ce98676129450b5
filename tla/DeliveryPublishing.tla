-------------------------- MODULE DeliveryPublishing --------------------------
(***************************************************************************)
(* Formal publication of the candidates of one workspace task: the publish *)
(* intent in SQLite, the staging and final directories on disk, the formal *)
(* delivery rows, the publishers that move a publication through them, and *)
(* what runs beside them: cancellation, new revisions, the P0 gate, newer  *)
(* verification attempts, account holds with their reconciliation, source  *)
(* deletion, and crashes between any two steps.                            *)
(*                                                                         *)
(* A publisher holds the file lock of its publication key from Acquire to  *)
(* the step that ends it; one action is one transaction, one gate reading  *)
(* or one directory operation.                                             *)
(***************************************************************************)
EXTENDS Naturals, FiniteSets

CONSTANTS
    Publisher,      \* calls of DeliveryPublisher.publish, of any process
    Key,            \* publication keys
    Command,        \* frozen publish commands
    KeyOf,          \* their publication key: commands may share one
    RevOf,          \* their task revision
    Automatic,      \* commands of the queue worker, without an attempt id
    Manifest,       \* delivery manifests; a new one is unlike all in use
    Events,         \* bound: what may happen beside the publishers
    MaxGeneration,  \* bound: account holds in a behaviour
    MaxRevision     \* bound: task revisions in a behaviour

None == "none"
Partial == "partial"      \* a directory without all files of its manifest
Explicit == Command \ Automatic
Generation == 0 .. MaxGeneration
Revision == 1 .. MaxRevision

ASSUME CommandAssumption ==
    /\ KeyOf \in [Command -> Key]
    /\ RevOf \in [Command -> Revision]
    /\ Automatic \subseteq Command
    /\ None \notin Command \union Manifest
    /\ Partial \notin Manifest
ASSUME BoundAssumption ==
    /\ MaxGeneration \in Nat /\ MaxRevision \in Nat \ {0}
    /\ Events \subseteq {"cancel", "revise", "p0", "supersede", "hold", "delete", "crash"}

VARIABLES
    account,     \* execution generation of the owner, and whether it is held
    binding,     \* workspace binding: its generation, and whether it is paused
    task,        \* the task row: revision, cancel_requested, paused, P0, deletion
    superseded,  \* explicit commands whose attempt is no longer the latest
    intents,     \* delivery_publish_intents
    formal,      \* formal_delivery_runs, by publication key
    staging,     \* staging directories
    final,       \* final directories
    publishers,  \* publish calls in progress
    pause,       \* the reconciliation that pauses the task, if any
    answers      \* manifests returned by publish, by key

env == <<account, binding, task, superseded>>
files == <<staging, final>>
vars == <<account, binding, task, superseded, intents, formal, staging, final,
          publishers, pause, answers>>
-------------------------------------------------------------------------------
Status == {"absent", "staging", "committing", "published", "aborted", "failed"}
Pc == {"down", "idle", "waiting", "claiming", "answering", "recovering", "gating", "staging",
       "copying", "checking", "closing", "committing", "renaming", "delivering",
       "failing", "sweeping", "denied", "completing"}

Intent == [status : Status, command : Command \union {None},
           generation : Generation, manifest : Manifest \union {None}]
Call == [pc : Pc, command : Command \union {None}, generation : Generation,
         manifest : Manifest \union {None}, crossed : BOOLEAN, denied : BOOLEAN]

Idle == [pc |-> "idle", command |-> None, generation |-> 0,
         manifest |-> None, crossed |-> FALSE, denied |-> FALSE]

TypeOK ==
    /\ account \in [generation : Generation, held : BOOLEAN]
    /\ binding \in [generation : Generation, paused : BOOLEAN]
    /\ task \in [revision : Revision, cancelled : BOOLEAN, paused : BOOLEAN,
                 p0 : BOOLEAN, deleting : BOOLEAN]
    /\ superseded \subseteq Explicit
    /\ intents \in [Key -> Intent]
    /\ formal \in [Key -> Manifest \union {None}]
    /\ staging \in [Key -> Manifest \union {None, Partial}]
    /\ final \in [Key -> Manifest \union {None, Partial}]
    /\ publishers \in [Publisher -> Call]
    /\ pause \in [active : BOOLEAN, todo : SUBSET Key, complete : BOOLEAN]
    /\ answers \in [Key -> SUBSET Manifest]

\* A bound task of a live account, with candidates and nothing published.
Init ==
    /\ account = [generation |-> 0, held |-> FALSE]
    /\ binding = [generation |-> 0, paused |-> FALSE]
    /\ task = [revision |-> 1, cancelled |-> FALSE, paused |-> FALSE,
               p0 |-> FALSE, deleting |-> FALSE]
    /\ superseded = {}
    /\ intents = [k \in Key |-> [status |-> "absent", command |-> None,
                                 generation |-> 0, manifest |-> None]]
    /\ formal = [k \in Key |-> None]
    /\ staging = [k \in Key |-> None]
    /\ final = [k \in Key |-> None]
    /\ publishers = [p \in Publisher |-> Idle]
    /\ pause = [active |-> FALSE, todo |-> {}, complete |-> FALSE]
    /\ answers = [k \in Key |-> {}]
-------------------------------------------------------------------------------
(* Authority and gates *)

Authorized(gen) == ~account.held /\ gen = account.generation
BindingUsable(gen) == Authorized(gen) /\ gen = binding.generation /\ ~binding.paused

At(p, pc) == publishers[p].pc = pc
CommandOf(p) == publishers[p].command
KeyAt(p) == KeyOf[CommandOf(p)]
IntentAt(p) == intents[KeyAt(p)]

\* Whoever is past Acquire holds the lock of its publication key, until publish
\* returns.
HoldsLock(p, k) == publishers[p].pc \notin {"down", "idle", "waiting", "completing"} /\ KeyAt(p) = k
\* Defective: the lock file is not waited for.
DefectLockFree(k) == k \in Key

LockFree(k) == \A p \in Publisher : ~HoldsLock(p, k)

\* The workspace lock: the queue worker that publishes automatically, or the
\* reconciliation that pauses the task.
WorkspaceFree == ~pause.active /\ \A p \in Publisher : CommandOf(p) \notin Automatic

\* Defective: the generation frozen in the intent is not compared.
DefectDenies(gen, intentGen) == ~BindingUsable(gen) \/ intentGen > gen

\* _require_publish: an open deletion refuses with a ValueError, a lost
\* authority with ExecutionDenied.
Denies(gen, intentGen) == ~BindingUsable(gen) \/ intentGen # gen

\* The business gate as the two callers read it: only an explicit publication
\* compares the revision.
GateOpen(c) ==
    /\ ~task.cancelled
    /\ ~task.p0
    /\ c \in Explicit => RevOf[c] = task.revision

\* prepare_publication runs inside the gate of an explicit publication, unless
\* the intent had passed the commit point when the request arrived.
GateRaises(p) == CommandOf(p) \in superseded /\ ~publishers[p].crossed

\* The same conditions inside the transaction of begin_commit, which knows them
\* only for a command that names an attempt.
CommitRefused(c) ==
    c \in Explicit /\ (task.cancelled \/ task.p0 \/ RevOf[c] # task.revision \/ c \in superseded)

Goes(p, pc) == publishers' = [publishers EXCEPT ![p].pc = pc]
Ends(p) == publishers' = [publishers EXCEPT ![p] = Idle]
SetStatus(k, status) == intents' = [intents EXCEPT ![k].status = status]
Answered(k, m) == answers' = [answers EXCEPT ![k] = @ \union {m}]
-------------------------------------------------------------------------------
(* publish: the call, the lock and the claim *)

\* A publication is asked for the active revision: by the owner at any time, by
\* the worker for a task that is not cancelled, under the workspace lock.
Request(p, c) ==
    /\ At(p, "idle")
    /\ ~account.held
    /\ RevOf[c] = task.revision
    /\ c \in Automatic => /\ BindingUsable(account.generation)
                          /\ ~task.cancelled
                          /\ WorkspaceFree
    /\ LET crossed == intents[KeyOf[c]].status \in {"committing", "published"} IN
       /\ c \in superseded => crossed
       /\ publishers' = [publishers EXCEPT ![p] =
              [pc |-> "waiting", command |-> c, generation |-> account.generation,
               manifest |-> None, crossed |-> crossed, denied |-> FALSE]]
    /\ UNCHANGED <<env, intents, formal, files, pause, answers>>

Acquire(p) ==
    /\ At(p, "waiting")
    /\ LockFree(KeyAt(p))
    /\ Goes(p, "claiming")
    /\ UNCHANGED <<env, intents, formal, files, pause, answers>>

\* Defective: a publication found past the commit point starts again.
DefectAfterClaim(status) == IF status = "published" THEN "answering" ELSE "gating"

\* What publish does with the status it finds.
AfterClaim(status) ==
    CASE status = "published" -> "answering"
      [] status = "committing" -> "recovering"
      [] OTHER -> "gating"

\* claim_intent: one row per key, bound to the command and the generation that
\* created it.  A published row is only read.
Claim(p) ==
    LET k == KeyAt(p)
        row == intents[k]
        gen == publishers[p].generation
        claimed == IF row.status = "absent"
                   THEN [status |-> "staging", command |-> CommandOf(p),
                         generation |-> gen, manifest |-> None]
                   ELSE row
    IN  /\ At(p, "claiming")
        /\ row.status # "absent" => row.command = CommandOf(p)
        /\ row.status # "published" => ~task.deleting /\ ~Denies(gen, claimed.generation)
        /\ intents' = [intents EXCEPT ![k] = claimed]
        /\ Goes(p, AfterClaim(row.status))
        /\ UNCHANGED <<env, formal, files, pause, answers>>

\* The key belongs to another frozen input, or a deletion is open.
ClaimRefused(p) ==
    /\ At(p, "claiming")
    /\ \/ IntentAt(p).status # "absent" /\ IntentAt(p).command # CommandOf(p)
       \/ IntentAt(p).status # "published" /\ task.deleting
    /\ Ends(p)
    /\ UNCHANGED <<env, intents, formal, files, pause, answers>>

ClaimDenied(p) ==
    LET row == IntentAt(p)
        gen == publishers[p].generation
    IN  /\ At(p, "claiming")
        /\ row.status # "absent" => row.command = CommandOf(p)
        /\ row.status # "published" /\ ~task.deleting
        /\ Denies(gen, IF row.status = "absent" THEN gen ELSE row.generation)
        /\ Goes(p, "denied")
        /\ UNCHANGED <<env, intents, formal, files, pause, answers>>

\* A published row: the delivery is read back and its files are verified.
Answer(p) ==
    LET k == KeyAt(p) IN
    /\ At(p, "answering")
    /\ IF formal[k] # None /\ final[k] = formal[k]
       THEN Answered(k, formal[k]) /\ Goes(p, "completing")
       ELSE UNCHANGED answers /\ Ends(p)
    /\ UNCHANGED <<env, intents, formal, files, pause>>
-------------------------------------------------------------------------------
(* publish: recovery of a publication that already passed the commit point *)

\* final or, failing that, staging holds exactly the frozen manifest.
Recover(p) ==
    LET k == KeyAt(p)
        frozen == IntentAt(p).manifest
        found == IF final[k] # None THEN final[k] ELSE staging[k]
    IN  /\ At(p, "recovering")
        /\ IF frozen # None /\ found = frozen
           THEN /\ publishers' = [publishers EXCEPT ![p].pc = "delivering",
                                                    ![p].manifest = frozen]
                /\ final' = [final EXCEPT ![k] = frozen]
                /\ staging' = IF final[k] = None THEN [staging EXCEPT ![k] = None] ELSE staging
           ELSE Ends(p) /\ UNCHANGED files
        /\ UNCHANGED <<env, intents, formal, pause, answers>>
-------------------------------------------------------------------------------
(* publish: staging, checks and the commit point *)

\* First gate reading.  An exception of the gate or of the candidate resolver
\* leaves the intent as it is.
FirstGate(p) ==
    LET k == KeyAt(p) IN
    /\ At(p, "gating")
    /\ \/ /\ GateOpen(CommandOf(p)) /\ ~GateRaises(p)
          /\ Goes(p, "staging")
          /\ UNCHANGED intents
       \/ /\ ~GateOpen(CommandOf(p)) /\ ~GateRaises(p)
          /\ SetStatus(k, "aborted")
          /\ Ends(p)
       \/ /\ Ends(p)
          /\ UNCHANGED intents
    /\ UNCHANGED <<env, formal, files, pause, answers>>

\* What an earlier attempt left in staging is thrown away.
BeginStaging(p) ==
    /\ At(p, "staging")
    /\ staging' = [staging EXCEPT ![KeyAt(p)] = Partial]
    /\ Goes(p, "copying")
    /\ UNCHANGED <<env, intents, formal, final, pause, answers>>

\* Every manifest carries identifiers of its own.
Fresh(m) ==
    /\ \A k \in Key : /\ m \notin {intents[k].manifest, formal[k], staging[k], final[k]}
                      /\ m \notin answers[k]
    /\ \A p \in Publisher : publishers[p].manifest # m

\* Candidates are copied, reopened and hashed, and a new manifest is written.
FinishStaging(p, m) ==
    /\ At(p, "copying")
    /\ Fresh(m)
    /\ staging' = [staging EXCEPT ![KeyAt(p)] = m]
    /\ publishers' = [publishers EXCEPT ![p].pc = "checking", ![p].manifest = m]
    /\ UNCHANGED <<env, intents, formal, final, pause, answers>>

StagingFails(p) ==
    /\ At(p, "copying")
    /\ Goes(p, "failing")
    /\ UNCHANGED <<env, intents, formal, files, pause, answers>>

\* Last gate reading before the commit point; a closed gate clears staging
\* first and marks the intent next.
SecondGate(p) ==
    LET k == KeyAt(p) IN
    /\ At(p, "checking")
    /\ \/ /\ GateRaises(p)
          /\ Goes(p, "failing")
          /\ UNCHANGED staging
       \/ /\ ~GateRaises(p) /\ GateOpen(CommandOf(p))
          /\ Goes(p, "committing")
          /\ UNCHANGED staging
       \/ /\ ~GateRaises(p) /\ ~GateOpen(CommandOf(p))
          /\ staging' = [staging EXCEPT ![k] = None]
          /\ Goes(p, "closing")
    /\ UNCHANGED <<env, intents, formal, final, pause, answers>>

MarkAborted(p) ==
    /\ At(p, "closing")
    /\ SetStatus(KeyAt(p), "aborted")
    /\ Ends(p)
    /\ UNCHANGED <<env, formal, files, pause, answers>>

\* begin_commit: the last checks and the manifest are frozen in one transaction.
BeginCommit(p) ==
    LET k == KeyAt(p)
        denied == Denies(publishers[p].generation, IntentAt(p).generation)
    IN  /\ At(p, "committing")
        /\ IF task.deleting \/ denied \/ CommitRefused(CommandOf(p))
           THEN /\ publishers' = [publishers EXCEPT ![p].pc = "failing",
                                                    ![p].denied = ~task.deleting /\ denied]
                /\ UNCHANGED intents
           ELSE /\ intents' = [intents EXCEPT ![k].status = "committing",
                                              ![k].manifest = publishers[p].manifest]
                /\ Goes(p, "renaming")
        /\ UNCHANGED <<env, formal, files, pause, answers>>
-------------------------------------------------------------------------------
(* publish: after the commit point *)

\* Defective: the caller is answered as soon as the files are in place.
DefectRename(p) ==
    LET k == KeyAt(p) IN
    /\ At(p, "renaming") /\ final[k] = None
    /\ final' = [final EXCEPT ![k] = staging[k]]
    /\ staging' = [staging EXCEPT ![k] = None]
    /\ Answered(k, staging[k])
    /\ Goes(p, "delivering")
    /\ UNCHANGED <<env, intents, formal, pause>>

\* A final directory left by an earlier publication is never overwritten.
Rename(p) ==
    LET k == KeyAt(p) IN
    /\ At(p, "renaming")
    /\ IF final[k] # None
       THEN Ends(p) /\ UNCHANGED files
       ELSE /\ final' = [final EXCEPT ![k] = staging[k]]
            /\ staging' = [staging EXCEPT ![k] = None]
            /\ Goes(p, "delivering")
    /\ UNCHANGED <<env, intents, formal, pause, answers>>

\* commit_delivery: the formal row and the published intent in one transaction;
\* an existing row is the answer.
CommitDelivery(p) ==
    LET k == KeyAt(p)
        row == IntentAt(p)
        denied == Denies(publishers[p].generation, row.generation)
        stale == row.status # "committing" \/ row.command # CommandOf(p)
        m == IF formal[k] # None THEN formal[k] ELSE publishers[p].manifest
    IN  /\ At(p, "delivering")
        /\ IF formal[k] = None /\ (task.deleting \/ denied \/ stale)
           THEN /\ IF ~task.deleting /\ denied THEN Goes(p, "denied") ELSE Ends(p)
                /\ UNCHANGED <<intents, formal, answers>>
           ELSE /\ formal' = [formal EXCEPT ![k] = m]
                /\ intents' = IF formal[k] # None THEN intents
                              ELSE [intents EXCEPT ![k].status = "published", ![k].manifest = m]
                /\ Answered(k, m)
                /\ Goes(p, "completing")
        /\ UNCHANGED <<env, files, pause>>

\* The caller marks the task completed, which clears a cancellation; an explicit
\* publication does so only for its own revision and a task not yet completed, and
\* a cancellation that stops the worker's job stops it here as well.
Complete(p) ==
    /\ At(p, "completing")
    /\ \/ /\ CommandOf(p) \in Automatic \/ RevOf[CommandOf(p)] = task.revision
          /\ task' = [task EXCEPT !.cancelled = FALSE]
       \/ /\ CommandOf(p) \in Explicit \/ task.cancelled
          /\ UNCHANGED task
    /\ Ends(p)
    /\ UNCHANGED <<account, binding, superseded, intents, formal, files, pause, answers>>

\* The exception handler: before the commit point the intent is marked failed
\* and then staging is removed; later both stay for the recovery.
MarkFailed(p) ==
    LET before == IntentAt(p).status \notin {"committing", "published", "aborted"} IN
    /\ At(p, "failing")
    /\ IF before
       THEN SetStatus(KeyAt(p), "failed") /\ Goes(p, "sweeping")
       ELSE /\ UNCHANGED intents
            /\ IF publishers[p].denied THEN Goes(p, "denied") ELSE Ends(p)
    /\ UNCHANGED <<env, formal, files, pause, answers>>

Sweep(p) ==
    /\ At(p, "sweeping")
    /\ staging' = [staging EXCEPT ![KeyAt(p)] = None]
    /\ IF publishers[p].denied THEN Goes(p, "denied") ELSE Ends(p)
    /\ UNCHANGED <<env, intents, formal, final, pause, answers>>

\* abort_revoked_intent, for the intent of this very command.
AbortRevoked(p) ==
    LET row == IntentAt(p) IN
    /\ At(p, "denied")
    /\ IF /\ row.command = CommandOf(p) /\ row.status # "published"
          /\ formal[KeyAt(p)] = None
          /\ ~BindingUsable(row.generation)
       THEN SetStatus(KeyAt(p), "aborted")
       ELSE UNCHANGED intents
    /\ Ends(p)
    /\ UNCHANGED <<env, formal, files, pause, answers>>

\* The lock is waited for during 30 seconds.
LockTimeout(p) ==
    /\ At(p, "waiting")
    /\ ~LockFree(KeyAt(p))
    /\ Ends(p)
    /\ UNCHANGED <<env, intents, formal, files, pause, answers>>

\* The process of a publisher dies; the operating system drops its lock.
Crash(p) ==
    /\ "crash" \in Events
    /\ publishers[p].pc \notin {"down", "idle"}
    /\ publishers' = [publishers EXCEPT ![p] = [Idle EXCEPT !.pc = "down"]]
    /\ UNCHANGED <<env, intents, formal, files, pause, answers>>

Restart(p) ==
    /\ At(p, "down")
    /\ Ends(p)
    /\ UNCHANGED <<env, intents, formal, files, pause, answers>>
-------------------------------------------------------------------------------
(* The task: cancellation, revisions, the P0 gate, verification attempts *)

rows == <<intents, formal, files, publishers, pause, answers>>

Cancel ==
    /\ "cancel" \in Events
    /\ task' = [task EXCEPT !.cancelled = TRUE]
    /\ UNCHANGED <<account, binding, superseded, rows>>

\* Defective: publications in progress are not looked at.
DefectCommittingRevision == task.revision > MaxRevision

\* create_semantic_workspace_revision refuses while the active revision has an
\* intent past the commit point.
CommittingRevision ==
    \E k \in Key : /\ intents[k].status = "committing"
                   /\ RevOf[intents[k].command] = task.revision

\* A new revision of a live task; a running worker has been stopped before.
AdvanceRevision ==
    /\ "revise" \in Events
    /\ task.revision < MaxRevision
    /\ BindingUsable(account.generation)
    /\ ~CommittingRevision
    /\ \A p \in Publisher : CommandOf(p) \notin Automatic
    /\ task' = [task EXCEPT !.revision = @ + 1, !.cancelled = FALSE]
    /\ UNCHANGED <<account, binding, superseded, rows>>

SwitchP0 ==
    /\ "p0" \in Events
    /\ task' = [task EXCEPT !.p0 = ~@]
    /\ UNCHANGED <<account, binding, superseded, rows>>

\* A newer verification attempt of the same candidate set is requested.
Supersede(c) ==
    /\ "supersede" \in Events
    /\ c \in Explicit \ superseded
    /\ superseded' = superseded \union {c}
    /\ UNCHANGED <<account, binding, task, rows>>
-------------------------------------------------------------------------------
(* Source deletion *)

\* begin_operation by the owner of a live account; the operation stays open while
\* the cleanup is retried.
OpenDeletion ==
    /\ "delete" \in Events
    /\ ~account.held
    /\ task' = [task EXCEPT !.deleting = TRUE]
    /\ UNCHANGED <<account, binding, superseded, rows>>

\* Defective: publications with a formal row are cleaned like the others.
DefectCleanPublication(k, recorded) ==
    /\ task.deleting /\ recorded
    /\ LockFree(k)
    /\ intents[k].status # "absent"
    /\ staging' = [staging EXCEPT ![k] = None]
    /\ final' = [final EXCEPT ![k] = None]
    /\ intents' = [intents EXCEPT ![k].status = "aborted", ![k].manifest = None]
    /\ UNCHANGED <<env, formal, publishers, pause, answers>>

\* _cleanup_runtime_copies: under the publication lock the directories of a
\* publication without a formal row go first, then its intent is aborted.  The
\* formal ones are passed over: of them only the outputs go, one by one.
CleanPublication(k, recorded) ==
    /\ task.deleting
    /\ LockFree(k)
    /\ intents[k].status # "absent"
    /\ formal[k] = None
    /\ staging' = [staging EXCEPT ![k] = None]
    /\ final' = [final EXCEPT ![k] = None]
    /\ intents' = IF recorded
                  THEN [intents EXCEPT ![k].status = "aborted", ![k].manifest = None]
                  ELSE intents
    /\ UNCHANGED <<env, formal, publishers, pause, answers>>

\* _remove_object for the outputs of a delivery, which a deletion of its own task
\* lists among its objects, and one of a task that used them as a source may:
\* each file is verified and unlinked, without the publication lock.  The row,
\* the intent and the directory stay.
RemoveOutputs(k) ==
    /\ "delete" \in Events
    /\ formal[k] # None /\ final[k] = formal[k]
    /\ final' = [final EXCEPT ![k] = Partial]
    /\ UNCHANGED <<env, intents, formal, staging, publishers, pause, answers>>
-------------------------------------------------------------------------------
(* Account hold, reconciliation of its publications, resume *)

Hold ==
    /\ "hold" \in Events
    /\ account.generation < MaxGeneration
    /\ account' = [generation |-> account.generation + 1, held |-> TRUE]
    /\ UNCHANGED <<binding, task, superseded, rows>>

Reenable ==
    /\ account.held
    /\ account' = [account EXCEPT !.held = FALSE]
    /\ UNCHANGED <<binding, task, superseded, rows>>

\* Defective: a publication past the commit point is left to its publisher.
DefectPendingIntents(gen) ==
    {k \in Key : intents[k].status = "staging" /\ intents[k].generation <= gen}

\* account_pending_intents
PendingIntents(gen) ==
    {k \in Key : intents[k].status \in {"staging", "committing"} /\ intents[k].generation <= gen}

\* _finish_account_pause under the workspace lock: the pending intents of the
\* old generation are listed first.
StartPause ==
    /\ ~BindingUsable(binding.generation)
    /\ WorkspaceFree
    /\ ~binding.paused
    /\ pause' = [active |-> TRUE, complete |-> TRUE,
                 todo |-> PendingIntents(binding.generation)]
    /\ UNCHANGED <<env, intents, formal, files, publishers, answers>>

\* One pending publication: its lock is not waited for.
AbortPending(k) ==
    LET row == intents[k]
        settled == row.status \in {"published", "aborted"} \/ formal[k] # None
    IN  /\ pause.active /\ k \in pause.todo
        /\ IF LockFree(k) /\ ~settled /\ ~Authorized(row.generation)
           THEN SetStatus(k, "aborted")
           ELSE UNCHANGED intents
        /\ pause' = [pause EXCEPT !.todo = @ \ {k},
               !.complete = @ /\ LockFree(k) /\ (settled \/ ~Authorized(row.generation))]
        /\ UNCHANGED <<env, formal, files, publishers, answers>>

\* Pausing is confirmed when every publication is settled and the runtime says
\* that it stopped.
FinishPause(stopped) ==
    /\ pause.active /\ pause.todo = {}
    /\ IF pause.complete /\ stopped
       THEN /\ binding' = [binding EXCEPT !.paused = TRUE]
            /\ task' = [task EXCEPT !.paused = TRUE]
       ELSE UNCHANGED <<binding, task>>
    /\ pause' = [active |-> FALSE, todo |-> {}, complete |-> FALSE]
    /\ UNCHANGED <<account, superseded, intents, formal, files, publishers, answers>>

\* A crash before the last step; one at that step is a runtime that did not
\* confirm.
PauseCrash ==
    /\ "crash" \in Events
    /\ pause.active /\ pause.todo # {}
    /\ pause' = [active |-> FALSE, todo |-> {}, complete |-> FALSE]
    /\ UNCHANGED <<env, intents, formal, files, publishers, answers>>

\* The owner resumes a paused task, on its revision or on a new one.
Resume(advance) ==
    /\ task.paused /\ binding.paused
    /\ ~account.held
    /\ WorkspaceFree
    /\ advance => task.revision < MaxRevision /\ ~CommittingRevision
    /\ binding' = [generation |-> account.generation, paused |-> FALSE]
    /\ task' = IF advance
               THEN [task EXCEPT !.paused = FALSE, !.cancelled = FALSE, !.revision = @ + 1]
               ELSE [task EXCEPT !.paused = FALSE]
    /\ UNCHANGED <<account, superseded, rows>>
-------------------------------------------------------------------------------
Publishes(p) ==
    \/ Acquire(p) \/ Claim(p) \/ ClaimRefused(p) \/ ClaimDenied(p) \/ Answer(p)
    \/ Recover(p) \/ FirstGate(p) \/ BeginStaging(p) \/ StagingFails(p)
    \/ \E m \in Manifest : FinishStaging(p, m)
    \/ SecondGate(p) \/ MarkAborted(p) \/ BeginCommit(p) \/ Rename(p)
    \/ CommitDelivery(p) \/ Complete(p) \/ MarkFailed(p) \/ Sweep(p) \/ AbortRevoked(p)

Pauses ==
    \/ StartPause
    \/ \E k \in Key : AbortPending(k)
    \/ \E stopped \in BOOLEAN : FinishPause(stopped)

Next ==
    \/ \E p \in Publisher : (\E c \in Command : Request(p, c)) \/ Publishes(p)
                            \/ LockTimeout(p) \/ Crash(p) \/ Restart(p)
    \/ Cancel \/ AdvanceRevision \/ SwitchP0 \/ \E c \in Command : Supersede(c)
    \/ OpenDeletion
    \/ \E k \in Key, recorded \in BOOLEAN : CleanPublication(k, recorded)
    \/ \E k \in Key : RemoveOutputs(k)
    \/ Hold \/ Reenable \/ Pauses \/ PauseCrash
    \/ \E advance \in BOOLEAN : Resume(advance)

Spec == Init /\ [][Next]_vars
-------------------------------------------------------------------------------
(* Properties *)

\* The authority a publication passed the commit point with still holds.
Backed(k) == BindingUsable(intents[k].generation) /\ ~task.deleting

\* A formal row and its intent tell one manifest for ever, and the final
\* directory is the one of that manifest: whatever is retried, cleaned, revoked or
\* crashes afterwards, it is never replaced, and never cleared for another
\* publication of the key.  All it may lose are the outputs, to a source deletion.
\* Code: claim_intent, commit_delivery, _cleanup_runtime_copies, _remove_object.
DeliveredIsFrozen ==
    \A k \in Key : formal[k] # None =>
        /\ intents[k].status = "published"
        /\ intents[k].manifest = formal[k]
        /\ final[k] \in {formal[k], Partial}

\* A publication past the commit point whose authority still holds can always be
\* completed: the frozen manifest is in the final directory, or there is none and
\* it is still complete in staging, so _recover_commit finds what it verifies.
FrozenEvidence ==
    \A k \in Key : intents[k].status = "committing" /\ Backed(k) =>
        \/ final[k] = intents[k].manifest
        \/ final[k] = None /\ staging[k] = intents[k].manifest

\* Every successful call for one key answers the one manifest that is delivered,
\* across concurrent calls, retries and crashes between commit and answer.
OneAnswer == \A k \in Key : answers[k] \subseteq {formal[k]} \ {None}

\* Once a task is confirmed paused none of its old publications is pending, so a
\* resumed task never meets a half-finished publication of an older generation.
PausedHasNoPending ==
    task.paused => \A k \in Key : intents[k].status \in {"staging", "committing"} =>
                                      intents[k].generation > binding.generation

\* No two calls are inside the lock of one publication key.
Exclusion ==
    \A p, q \in Publisher, k \in Key : HoldsLock(p, k) /\ HoldsLock(q, k) => p = q

\* What a call knows about its key at each of its steps.
Uncommitted == {"gating", "staging", "copying", "checking", "closing", "committing",
                "failing", "sweeping"}
KnowsIntent(p) ==
    /\ publishers[p].pc \notin {"down", "idle"} => CommandOf(p) \in Command
    /\ publishers[p].pc \in Uncommitted =>
          IntentAt(p).status \in {"staging", "aborted", "failed"}
    /\ publishers[p].pc \in {"recovering", "renaming", "delivering"} =>
          IntentAt(p).status = "committing"
    /\ publishers[p].pc \in Uncommitted \union {"recovering", "renaming", "delivering"} =>
          IntentAt(p).command = CommandOf(p)
KnowsManifest(p) ==
    LET m == publishers[p].manifest IN
    /\ publishers[p].pc \in {"checking", "committing", "renaming"} =>
          m # None /\ staging[KeyAt(p)] = m
    /\ publishers[p].pc \in {"renaming", "delivering"} =>
          m # None /\ IntentAt(p).manifest = m
    /\ At(p, "delivering") => final[KeyAt(p)] = m
CallsKnow == \A p \in Publisher : KnowsIntent(p) /\ KnowsManifest(p)

\* Intents are never ahead of the binding, nor the binding of the account, and
\* a task is only paused, or being paused, after a hold.
Aged ==
    /\ binding.generation <= account.generation
    /\ account.held \/ binding.paused \/ pause.active => binding.generation < account.generation
    /\ task.paused => binding.paused
    /\ \A k \in Key : intents[k].status # "absent" => intents[k].generation <= binding.generation

\* A final directory without a commit point belongs to an authority that ended.
Leftovers ==
    \A k \in Key :
        /\ intents[k].status = "absent" => final[k] = None /\ intents[k].command = None
        /\ final[k] # None /\ intents[k].status \notin {"committing", "published"} => ~Backed(k)

\* A pause that still finds everything settled has the rest on its list.
Settling ==
    /\ \A k \in pause.todo : intents[k].status # "absent"
    /\ pause.active /\ pause.complete =>
          \A k \in Key : intents[k].status \in {"staging", "committing"} => k \in pause.todo

\* An explicit publication past the commit point is one of the active revision.
CommittedIsCurrent ==
    \A k \in Key : intents[k].status = "committing" /\ intents[k].command \in Explicit =>
        RevOf[intents[k].command] = task.revision

\* What the safety of publishing rests on, step by step: the lock of the key,
\* what each call knows while it holds it, the age of authorities, and what a
\* revoked publication or a pause leaves behind.
\* Code: DeliveryPublisher._publish_locked, reconcile_account_publications.
PublishingInvariant ==
    /\ TypeOK /\ Exclusion /\ CallsKnow /\ Aged /\ Leftovers /\ Settling
    /\ CommittedIsCurrent /\ DeliveredIsFrozen /\ FrozenEvidence /\ OneAnswer
    /\ PausedHasNoPending

\* The commit point is final: from committing a publication goes only to the
\* delivery of the manifest frozen there, or is aborted because its account
\* authority or its sources are gone; no failure, retry or gate takes it back.
CommitPointIsFinal ==
    [][\A k \in Key : intents[k].status = "committing" /\ intents'[k] # intents[k] =>
           \/ /\ intents'[k].status = "published"
              /\ intents'[k].manifest = intents[k].manifest
              /\ formal'[k] = intents[k].manifest
           \/ intents'[k].status = "aborted" /\ ~Backed(k)]_vars

\* An explicit publication is delivered only while its revision is the active
\* one: although commit_delivery does not look at the revision again, no new
\* revision slips in between the commit point and the delivery, not even when
\* the publication is finished by another call after a crash.
DeliveredWhileCurrent ==
    [][\A k \in Key : formal'[k] # formal[k] /\ intents[k].command \in Explicit =>
           RevOf[intents[k].command] = task.revision]_vars

Promises == INSTANCE DeliveryPromise
    WITH promise <- [k \in Key |-> IF intents[k].status = "committing" /\ Backed(k)
                                   THEN intents[k].manifest ELSE None],
         delivered <- formal

\* Publishing implements DeliveryPromise: a promise is the commit point under a
\* live authority, a delivery is the formal row.
KeepsPromises == Promises!Spec
-------------------------------------------------------------------------------
(* Fairness: a call that runs is scheduled, the queue worker asks again for a *)
(* publication that is due, a busy lock is released, holds and deletions are  *)
(* retried until they are done, and crashes stop at some time.                *)

FairSpec ==
    /\ Spec
    /\ \A p \in Publisher : WF_vars(Publishes(p)) /\ WF_vars(Restart(p))
    /\ \A c \in Automatic : WF_vars(\E p \in Publisher : Request(p, c))
    /\ WF_vars(Pauses)
    /\ SF_vars(FinishPause(TRUE))
    /\ \A k \in Key : SF_vars(CleanPublication(k, TRUE))
    /\ <>[][~PauseCrash /\ \A p \in Publisher : ~Crash(p)]_vars

\* A publication of the queue worker that passed the commit point is delivered or
\* loses its authority, after any crash.
CommitSettles ==
    \A c \in Automatic :
        intents[KeyOf[c]].status = "committing" ~> intents[KeyOf[c]].status # "committing"
===============================================================================
