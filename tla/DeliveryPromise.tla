---------------------------- MODULE DeliveryPromise ----------------------------
(***************************************************************************)
(* What publishing promises, seen by the owner of a task: a publication    *)
(* key is open, then one manifest is promised for it, then exactly that    *)
(* manifest is delivered and stays delivered.  A promise may be withdrawn  *)
(* only when the authority behind it ends: an account hold, or the         *)
(* deletion of the sources, withdraws every promise at once.               *)
(***************************************************************************)
CONSTANTS Key, Manifest, None

VARIABLES promise, delivered

vars == <<promise, delivered>>

Init ==
    /\ promise = [k \in Key |-> None]
    /\ delivered = [k \in Key |-> None]

Promise(k, m) ==
    /\ promise[k] = None /\ delivered[k] = None
    /\ promise' = [promise EXCEPT ![k] = m]
    /\ UNCHANGED delivered

Deliver(k) ==
    /\ promise[k] # None
    /\ delivered' = [delivered EXCEPT ![k] = promise[k]]
    /\ promise' = [promise EXCEPT ![k] = None]

Withdraw ==
    /\ promise' = [k \in Key |-> None]
    /\ UNCHANGED delivered

Next ==
    \/ \E k \in Key : (\E m \in Manifest : Promise(k, m)) \/ Deliver(k)
    \/ Withdraw

Spec == Init /\ [][Next]_vars
===============================================================================
