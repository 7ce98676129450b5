-------------------------- MODULE MCAccountExecution --------------------------
(* Instances of AccountExecution for TLC. *)
EXTENDS AccountExecution, TLC

\* Executors are interchangeable, and so are managers.
Interchangeable == Permutations(Worker) \union Permutations(Manager)
===============================================================================
