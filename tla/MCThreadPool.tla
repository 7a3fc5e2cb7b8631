---------------------------- MODULE MCThreadPool ----------------------------
(* ThreadPool on small instances. *)
EXTENDS ThreadPool, TLC

\* The workers are interchangeable, and so are the jobs.
Symmetry == Permutations(Workers) \cup Permutations(Jobs)
=============================================================================
