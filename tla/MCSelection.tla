----------------------------- MODULE MCSelection ------------------------------
(* Selection on two records that differ in their type and their query. *)
EXTENDS Selection, TLC

Log(q)   == ("query" :> q) @@ ("type" :> q)
Logs2    == {Log(1), Log(2)}
ByType   == {[kind \in CondKinds |-> IF kind = "type" THEN <<[cond |-> "Equal", value |-> 1]>> ELSE <<>>]}
Same     == {<<1, 1>>, <<2, 2>>}
===============================================================================
