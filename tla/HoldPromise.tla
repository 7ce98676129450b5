------------------------------- MODULE HoldPromise -------------------------------
(***************************************************************************)
(* What holding an account promises, as if everything were one table that  *)
(* everybody reads and writes at once: work begins only under the account  *)
(* of that moment, a stop proof is given only for what does not work, only *)
(* what is proved stopped is given to a later generation, and a hold is    *)
(* reported completed only when nothing older works.  What works is left   *)
(* to stop in its own time.                                                *)
(***************************************************************************)
EXTENDS Naturals

CONSTANTS Resource

VARIABLES
    account,  \* generation, and whether it is held
    known,    \* resources that are bound
    bound,    \* generation each belongs to
    working,  \* resources with an executor
    proved,   \* resources with a stop proof that a resume accepts
    outside,  \* resources in quarantine
    over      \* holds reported completed

vars == <<account, known, bound, working, proved, outside, over>>

Init ==
    /\ account = [held |-> FALSE, generation |-> 0]
    /\ known = {}
    /\ bound = [r \in Resource |-> 0]
    /\ working = {} /\ proved = {} /\ outside = {} /\ over = {}
-------------------------------------------------------------------------------
\* The account is held: what does not work may be proved stopped at once.
Holds ==
    /\ ~account.held
    /\ account' = [held |-> TRUE, generation |-> account.generation + 1]
    /\ proved \subseteq proved'
    /\ proved' \subseteq proved \union (known \ (working \union outside))
    /\ UNCHANGED <<known, bound, working, outside, over>>

Releases ==
    /\ account.held /\ account' = [held |-> FALSE, generation |-> account.generation]
    /\ UNCHANGED <<known, bound, working, proved, outside, over>>

\* What is in quarantine stays there.
Quarantines(targets) ==
    /\ outside' = outside \union targets
    /\ UNCHANGED <<account, known, bound, working, proved, over>>

Binds(r) ==
    /\ ~account.held /\ r \notin known \union outside
    /\ known' = known \union {r}
    /\ bound' = [bound EXCEPT ![r] = account.generation]
    /\ UNCHANGED <<account, working, proved, outside, over>>

\* Work begins where there is none, under the account of this moment.
Begins(r) ==
    /\ ~account.held
    /\ r \in known \ (working \union proved \union outside)
    /\ bound[r] = account.generation
    /\ working' = working \union {r}
    /\ UNCHANGED <<account, known, bound, proved, outside, over>>

\* Work ends, whether or not its end is proved; a proof may also be given later
\* or be taken back.
Stops(r) ==
    /\ working' \in {working, working \ {r}}
    /\ \/ proved' \in {proved, proved \ {r}}
       \/ r \in known \ (working' \union outside) /\ proved' = proved \union {r}
    /\ UNCHANGED <<account, known, bound, outside, over>>

Resumes(resumed) ==
    /\ ~account.held
    /\ resumed \subseteq proved \ (working \union outside)
    /\ bound' = [r \in Resource |-> IF r \in resumed THEN account.generation ELSE bound[r]]
    /\ proved' = proved \ resumed
    /\ UNCHANGED <<account, known, working, outside, over>>

Reports(g) ==
    /\ g <= account.generation
    /\ \A r \in known \ outside : bound[r] < g => r \notin working
    /\ over' = over \union {g}
    /\ UNCHANGED <<account, known, bound, working, proved, outside>>

\* A round of another manager, begun before, finds the hold incomplete.
Withdraws(g) ==
    /\ over' = over \ {g}
    /\ UNCHANGED <<account, known, bound, working, proved, outside>>
-------------------------------------------------------------------------------
Next ==
    \/ \E r \in Resource : Stops(r) \/ Begins(r) \/ Binds(r)
    \/ Holds \/ Releases
    \/ \E targets \in SUBSET Resource : Quarantines(targets) \/ Resumes(targets)
    \/ \E g \in 0 .. account.generation : Reports(g) \/ Withdraws(g)

Spec == Init /\ [][Next]_vars
===============================================================================
