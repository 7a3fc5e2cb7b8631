------------------------------- MODULE MCIntake -------------------------------
(* Intake on two nodes, of which the first is fed. *)
EXTENDS Intake, TLC

CONSTANTS a, b, m1, m2, junk

\* One puller, fed two records, or those with one between that does not pass the
\* filter.
OldAtA == {<<a, "old">>}
TwoFeed == (<<a, "old">> :> <<m1, m2>>)
OldFeed == (<<a, "old">> :> <<m1, junk, m2>>)

\* A puller of each topic at the node.
BothAtA == {<<a, "old">>, <<a, "new">>}
TwoTopics == (<<a, "old">> :> <<m1>>) @@ (<<a, "new">> :> <<m2>>)
===============================================================================
