----------------------------- MODULE RolloutPromise -----------------------------
(***************************************************************************)
(* What the rollout of the new runtime promises to administrators and      *)
(* owners, as if nobody ever acted on an old reading: an approval moves    *)
(* the mode once, on the qualified snapshot that is active at that moment; *)
(* a revision gets a runtime that the mode of that moment allows, and a    *)
(* task that left the new runtime never returns to it.                     *)
(***************************************************************************)
EXTENDS Naturals, Sequences

CONSTANTS Snapshot, ChecksOf, PassedOf, Approval, Task, Genesis

VARIABLES
    mode,        \* rollout mode
    active,      \* snapshot it stands on
    recorded,    \* snapshots recorded so far
    approvals,   \* the target and the snapshot of every approval
    spent,       \* approvals that have moved the mode
    bound        \* runtimes of the revisions of every task, and what bound them

vars == <<mode, active, recorded, approvals, spent, bound>>

\* A snapshot passes every gate that it, or any recorded one, ever checked.
Clean(s) == s \in Snapshot /\ \A t \in recorded \union {s} : ChecksOf[t] \subseteq PassedOf[s]

Unapproved == [target |-> "none", snapshot |-> Genesis]

Init ==
    /\ mode \in {"admin_gray", "explicit_opt_in"} /\ active = Genesis
    /\ recorded = {}
    /\ approvals = [a \in Approval |-> Unapproved]
    /\ spent = {}
    /\ bound = [t \in Task |-> <<>>]

Record(s) ==
    /\ s \notin recorded
    /\ recorded' = recorded \union {s} /\ active' = s
    /\ mode' = IF Clean(s) THEN mode ELSE "legacy_rollback"
    /\ UNCHANGED <<approvals, spent, bound>>

Approve(a, target, s) ==
    /\ approvals[a] = Unapproved
    /\ approvals' = [approvals EXCEPT ![a] = [target |-> target, snapshot |-> s]]
    /\ UNCHANGED <<mode, active, recorded, spent, bound>>

\* One stage at a time.
Follows == [admin_gray |-> {"explicit_opt_in", "legacy_rollback"}, vnext_default |-> {"admin_gray"}]

Move(a) ==
    /\ a \notin spent /\ approvals[a] # Unapproved
    /\ approvals[a].snapshot = active /\ Clean(active)
    /\ mode \in Follows[approvals[a].target]
    /\ mode' = approvals[a].target
    /\ spent' = spent \union {a}
    /\ UNCHANGED <<active, recorded, approvals, bound>>

\* The new runtime only while the mode is open and for a task that never left it;
\* the old one for new tasks, for tasks that are on it, and for every task until
\* the new one is the default.
Left(t) == \E i \in 1 .. Len(bound[t]) : bound[t][i].runtime = "legacy"
MayRun(t, runtime) ==
    \/ runtime = "pi" /\ mode \in {"admin_gray", "vnext_default"} /\ ~Left(t)
    \/ runtime = "legacy" /\ (bound[t] = <<>> \/ Left(t) \/ mode # "vnext_default")

BindRevision(t, runtime) ==
    /\ MayRun(t, runtime)
    /\ bound' = [bound EXCEPT ![t] =
                    Append(@, [runtime |-> runtime, mode |-> mode, snapshot |-> active])]
    /\ UNCHANGED <<mode, active, recorded, approvals, spent>>

Next ==
    \/ \E s \in Snapshot : Record(s)
    \/ \E a \in Approval : Move(a)
    \/ \E a \in Approval, s \in Snapshot, target \in DOMAIN Follows : Approve(a, target, s)
    \/ \E t \in Task, runtime \in {"pi", "legacy"} : BindRevision(t, runtime)

Spec == Init /\ [][Next]_vars
===============================================================================
