------------------------- MODULE MCDeliveryPublishing --------------------------
(* Instances of DeliveryPublishing for TLC: one key shared by two explicit     *)
(* commands of revision 1, one key of the queue worker for the same revision.  *)
EXTENDS DeliveryPublishing, TLC

CONSTANTS k1, k2, c1, c2, c3

KeyOfCommand == [c \in Command |-> IF c = c3 THEN k2 ELSE k1]
RevOfCommand == [c \in Command |-> 1]

\* Calls and manifests are interchangeable.
Interchangeable == Permutations(Publisher) \union Permutations(Manifest)
===============================================================================
