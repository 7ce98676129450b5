-------------------------- MODULE VerificationPromise --------------------------
(***************************************************************************)
(* What verifying one candidate set promises to its owner, as a record of  *)
(* attempts that everybody reads and writes at once: one attempt is open   *)
(* at a time; one worker is in the verifier, under the account of the      *)
(* moment it entered, and a requested attempt is entered once; a verdict   *)
(* comes from the worker inside and is never written over; what is proved  *)
(* silent has ended with an answer; no verdict follows the delivery.       *)
(***************************************************************************)
EXTENDS Naturals, Sequences

CONSTANTS Attempt, first, Worker, None

VARIABLES
    account,    \* generation of the owner, and whether it is held
    order,      \* attempts in the order they were opened
    bound,      \* generation each belongs to
    basis,      \* the attempt each repeats
    outcome,    \* absent, open, or how it ended
    inside,     \* the attempt a worker is inside the verifier for
    paid,       \* attempts somebody ever entered the verifier for
    silent,     \* attempts proved to have stopped for a hold
    shown,      \* attempt whose report the owner sees
    published   \* formal publication of the candidate set

vars == <<account, order, bound, basis, outcome, inside, paid, silent, shown, published>>

Verdict == {"passed", "failed", "inconclusive"}
Reported == {a \in Attempt : outcome[a] \in Verdict \union {"error"}}
Authorized(a) == ~account.held /\ bound[a] = account.generation
Outside(a) == \A w \in Worker : inside[w] # a

Init ==
    /\ account = [generation |-> 0, held |-> FALSE]
    /\ order = <<>> /\ shown = None /\ published = "none"
    /\ bound = [a \in Attempt |-> 0]
    /\ basis = [a \in Attempt |-> None]
    /\ outcome = [a \in Attempt |-> "absent"]
    /\ inside = [w \in Worker |-> None]
    /\ paid = {} /\ silent = {}
-------------------------------------------------------------------------------
\* A report may be repeated, an unknown outcome only by the next attempt.
Repeatable(b) ==
    \/ b \in Reported
    \/ outcome[b] = "outcome_unknown" /\ order # <<>> /\ b = order[Len(order)]

Opens(a, b) ==
    /\ ~account.held
    /\ outcome[a] = "absent" /\ \A c \in Attempt : outcome[c] # "open"
    /\ IF a = first THEN order = <<>> /\ b = None ELSE b \in Attempt /\ Repeatable(b)
    /\ outcome' = [outcome EXCEPT ![a] = "open"]
    /\ order' = Append(order, a)
    /\ bound' = [bound EXCEPT ![a] = account.generation]
    /\ basis' = [basis EXCEPT ![a] = b]
    /\ UNCHANGED <<account, inside, paid, silent, shown, published>>

Enters(w, a) ==
    /\ Authorized(a) /\ outcome[a] = "open"
    /\ \A v \in Worker : inside[v] = None
    /\ a = first \/ a \notin paid
    /\ inside' = [inside EXCEPT ![w] = a]
    /\ paid' = paid \union {a}
    /\ UNCHANGED <<account, order, bound, basis, outcome, silent, shown, published>>

Leaves(w) ==
    /\ inside[w] # None
    /\ inside' = [inside EXCEPT ![w] = None]
    /\ UNCHANGED <<account, order, bound, basis, outcome, paid, silent, shown, published>>

\* The worker inside answers, for an owner who is not held and has not got the delivery.
Answers(w, verdict) ==
    LET a == inside[w] IN
    /\ a # None /\ Authorized(a) /\ outcome[a] = "open" /\ published # "delivered"
    /\ outcome' = [outcome EXCEPT ![a] = verdict]
    /\ inside' = [inside EXCEPT ![w] = None]
    /\ shown' = a
    /\ UNCHANGED <<account, order, bound, basis, paid, silent, published>>

\* With nobody inside an attempt ends without an answer: on an error, which may be
\* shown, cancelled, which is silence at once, or unknown.
Fails(a) ==
    /\ Authorized(a) /\ outcome[a] = "open" /\ Outside(a)
    /\ outcome' = [outcome EXCEPT ![a] = "error"]
    /\ shown' \in {shown, a}
    /\ UNCHANGED <<account, order, bound, basis, inside, paid, silent, published>>

Cancels(a) ==
    /\ outcome[a] = "open" /\ Outside(a)
    /\ outcome' = [outcome EXCEPT ![a] = "cancelled"]
    /\ silent' = silent \union {a}
    /\ UNCHANGED <<account, order, bound, basis, inside, paid, shown, published>>

Loses(a) ==
    /\ outcome[a] = "open" /\ Outside(a)
    /\ outcome' = [outcome EXCEPT ![a] = "outcome_unknown"]
    /\ UNCHANGED <<account, order, bound, basis, inside, paid, silent, shown, published>>
-------------------------------------------------------------------------------
\* A hold finds every reported attempt silent, and so may anybody later.
Holds ==
    /\ ~account.held
    /\ account' = [generation |-> account.generation + 1, held |-> TRUE]
    /\ silent' = silent \union Reported
    /\ UNCHANGED <<order, bound, basis, outcome, inside, paid, shown, published>>

Silences(a) ==
    /\ a \in Reported /\ silent' = silent \union {a}
    /\ UNCHANGED <<account, order, bound, basis, outcome, inside, paid, shown, published>>

Releases ==
    /\ account.held /\ account' = [account EXCEPT !.held = FALSE]
    /\ UNCHANGED <<order, bound, basis, outcome, inside, paid, silent, shown, published>>

\* The candidates are published if they passed, on the last verdict or on the first.
Commits ==
    /\ published = "none" /\ ~account.held
    /\ order # <<>> /\ "passed" \in {outcome[first], outcome[order[Len(order)]]}
    /\ published' = "committing"
    /\ UNCHANGED <<account, order, bound, basis, outcome, inside, paid, silent, shown>>

Delivers ==
    /\ published = "committing" /\ ~account.held
    /\ published' = "delivered"
    /\ UNCHANGED <<account, order, bound, basis, outcome, inside, paid, silent, shown>>
-------------------------------------------------------------------------------
\* Nothing that the owner can see.
Rests == UNCHANGED vars

Next ==
    \/ Rests
    \/ \E a \in Attempt :
        \/ Fails(a) \/ Cancels(a) \/ Loses(a) \/ Silences(a)
        \/ \E b \in Attempt \union {None} : Opens(a, b)
    \/ \E w \in Worker :
        \/ Leaves(w)
        \/ (\E a \in Attempt : Enters(w, a)) \/ (\E verdict \in Verdict : Answers(w, verdict))
    \/ Holds \/ Releases \/ Commits \/ Delivers

Spec == Init /\ [][Next]_vars
===============================================================================
