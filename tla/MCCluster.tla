------------------------------- MODULE MCCluster ------------------------------
(* Cluster: one node is fed a failed log and the log that hides it; a second *)
(* one is there to relieve it.                                               *)
EXTENDS Cluster, TLC

CONSTANTS a, b, s, f, q

FedAtA == {<<a, "old">>}
FedFirst == <<a, "old">> :> <<s, f>>
Same == [m \in Records |-> q]

\* Bound: the ttl that no constructor sets is the same at both nodes.
AlikeInit == Init /\ ttl[a] = ttl[b]
AlikeSpec == AlikeInit /\ [][Next]_vars
===============================================================================
