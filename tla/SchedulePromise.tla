----------------------------- MODULE SchedulePromise -----------------------------
(***************************************************************************)
(* What the scheduler promises, as if the state of a plan were one cell    *)
(* that everybody reads and writes at once: a plan is run by one run at a  *)
(* time, when it is due or its owner runs it; work starts only under the   *)
(* authority of that moment; a plan is free again only after its work has  *)
(* ended, a run whose end nobody saw is lost and its plan is never run     *)
(* again; a reported stop is true.                                         *)
(***************************************************************************)
EXTENDS Naturals

CONSTANTS Plan

VARIABLES
    account,   \* generation and whether it is enabled
    clock,
    schedule,  \* status and time of every plan
    job,       \* none, free, polled, manual, stopped or lost
    bound,     \* generation it belongs to
    work,      \* workers alive
    reported   \* generation whose start is reported as a stop of everything older

vars == <<account, clock, schedule, job, bound, work, reported>>

Init ==
    /\ account = [gen |-> 0, enabled |-> TRUE] /\ clock = 0
    /\ schedule = [p \in Plan |-> [status |-> "none", due |-> 0]]
    /\ job = [p \in Plan |-> "none"]
    /\ bound = [p \in Plan |-> 0]
    /\ work = [p \in Plan |-> 0]
    /\ reported = 0

Authorized(p) == account.enabled /\ bound[p] = account.gen
Runs(p) == job[p] \in {"polled", "manual"}
-------------------------------------------------------------------------------
(* Runs *)

Claim(p, kind) ==
    /\ job[p] = "free" /\ Authorized(p)
    /\ \/ kind = "polled" /\ schedule[p].status = "active" /\ schedule[p].due <= clock
       \/ kind = "manual" /\ schedule[p].status \in {"active", "paused"}
    /\ job' = [job EXCEPT ![p] = kind]
    /\ UNCHANGED <<account, clock, schedule, bound, work, reported>>

WorkBegins(p) ==
    /\ Runs(p) /\ Authorized(p) /\ work[p] = 0
    /\ work' = [work EXCEPT ![p] = 1]
    /\ UNCHANGED <<account, clock, schedule, job, bound, reported>>

WorkEnds(p) ==
    /\ work[p] = 1
    /\ work' = [work EXCEPT ![p] = 0]
    /\ UNCHANGED <<account, clock, schedule, job, bound, reported>>

Reschedules(p) == schedule' = [schedule EXCEPT ![p] = schedule'[p]]

\* Only a polled run that did its work moves the schedule, and only of a plan
\* that is still active.
Advance(p) ==
    /\ job[p] = "polled" /\ Authorized(p) /\ work[p] = 0
    /\ schedule[p].status = "active"
    /\ Reschedules(p)
    /\ \/ schedule'[p].status = "active"
       \/ schedule'[p] = [schedule[p] EXCEPT !.status = "done"]
    /\ UNCHANGED <<account, clock, job, bound, work, reported>>

End(p) ==
    /\ Runs(p)
    /\ \/ work[p] = 0 /\ job' = [job EXCEPT ![p] = IF Authorized(p) THEN "free" ELSE "stopped"]
       \/ job' = [job EXCEPT ![p] = "lost"]
    /\ UNCHANGED <<account, clock, schedule, bound, work, reported>>

\* The process dies: its workers die with it, and how far they came is unknown.
Dies ==
    /\ job' = [p \in Plan |-> IF Runs(p) THEN "lost" ELSE job[p]]
    /\ work' = [p \in Plan |-> 0]
    /\ UNCHANGED bound
-------------------------------------------------------------------------------
(* Owner and account *)

\* An owner changes a schedule, but never makes a plan due at once; a plan that
\* is new, or stopped, may be given to the account of now.
Control(p) ==
    /\ Reschedules(p)
    /\ schedule'[p].status \in {"active", "paused", "cancelled"} \union {schedule[p].status}
    /\ schedule'[p].due = schedule[p].due \/ schedule'[p].due > clock
    /\ \/ UNCHANGED <<job, bound, work>>
       \/ /\ account.enabled /\ job[p] \in {"none", "stopped"}
          /\ job' = [job EXCEPT ![p] = "free"]
          /\ bound' = [bound EXCEPT ![p] = account.gen]
          /\ UNCHANGED work
       \/ Dies
    /\ UNCHANGED <<account, clock, reported>>

Hold ==
    /\ account.enabled
    /\ account' = [gen |-> account.gen + 1, enabled |-> FALSE]
    /\ job' = [p \in Plan |-> IF job[p] = "free" THEN "stopped" ELSE job[p]]
    /\ UNCHANGED <<clock, schedule, bound, work, reported>>

Enable ==
    /\ account' = [account EXCEPT !.enabled = TRUE]
    /\ UNCHANGED <<clock, schedule, job, bound, work, reported>>

\* A stop is reported when every plan that may run is accounted for, and nothing
\* of an older generation runs, works or is lost.
Older(p) == job[p] # "none" /\ bound[p] < account.gen
Reconcile ==
    /\ job' = [p \in Plan |-> IF Older(p) /\ job[p] = "free" THEN "stopped" ELSE job[p]]
    /\ schedule' = [p \in Plan |-> IF Older(p) /\ schedule[p].status = "active"
                                   THEN [schedule[p] EXCEPT !.status = "paused"]
                                   ELSE schedule[p]]
    /\ \/ UNCHANGED reported
       \/ /\ \A p \in Plan :
                /\ schedule[p].status \in {"active", "paused"} => job[p] # "none"
                /\ Older(p) => job'[p] = "stopped" /\ work[p] = 0
          /\ reported' = account.gen
    /\ UNCHANGED <<account, clock, bound, work>>
-------------------------------------------------------------------------------
\* Nothing that an owner can see.
Rests == UNCHANGED vars

Next ==
    \/ Rests
    \/ clock' = clock + 1 /\ UNCHANGED <<account, schedule, job, bound, work, reported>>
    \/ \E p \in Plan :
        \/ WorkBegins(p) \/ WorkEnds(p) \/ Advance(p) \/ End(p) \/ Control(p)
        \/ \E kind \in {"polled", "manual"} : Claim(p, kind)
    \/ Hold \/ Enable \/ Reconcile
    \/ Dies /\ UNCHANGED <<account, clock, schedule, reported>>

Spec == Init /\ [][Next]_vars
===============================================================================
