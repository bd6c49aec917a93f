----------------------------- MODULE MCThreadPool -----------------------------
(* Instances of the pool with its linked job queue for TLC. *)
EXTENDS JobQueue, TLC

Symmetry == Permutations(Workers) \cup Permutations(Jobs)
===============================================================================
