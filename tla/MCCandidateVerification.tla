------------------------ MODULE MCCandidateVerification ------------------------
(* Instances of CandidateVerification for TLC. *)
EXTENDS CandidateVerification, TLC

CONSTANTS a0, a1, a2, w1, w2

\* Idempotency keys of owner requests are interchangeable, and so are workers.
Interchangeable == Permutations(Attempt \ {first}) \union Permutations(Worker)
===============================================================================
