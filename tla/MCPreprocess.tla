----------------------------- MODULE MCPreprocess -----------------------------
(* Preprocess on small instances. *)
EXTENDS Preprocess

CONSTANTS s, f, g, q1, q2

\* A log s that recalled, a failed log f of the same request, and a failed log
\* g of another request with the same query.
Request == [m \in Records |-> IF m = g THEN q2 ELSE q1]
OneQuery == [m \in Records |-> q1]
AllOld == [m \in Records |-> "old"]

\* f comes from the new topic.
NewF == [m \in Records |-> IF m = f THEN "new" ELSE "old"]
===============================================================================
