----------------------------- MODULE MCNodeConfig -----------------------------
(* The parts of the nodes that share nothing but the threads that call them, *)
(* on small instances: the field rules, the filter and the counts, the data  *)
(* structures of common/, the selection a slave makes from its records, and, *)
(* for its liveness, Preprocess.  Each behaviour exercises one of them.      *)
EXTENDS FieldRules, PvStat, LockFreeQueue, SkipList, ConsistentHash, Selection, TLC

CONSTANTS old, s1, n1, n2, n3, s, f, g, q1, q2

VARIABLE part

\* The ring: two servers at first, whose virtual nodes alternate but for the
\* first two, and a third that has a hash in common with one of them.
FirstTwo  == <<n1, n2>>
HashOfAll == (n1 :> <<1, 2, 5>>) @@ (n2 :> <<3, 4>>) @@ (n3 :> <<4, 6>>)

\* The selection from three records, two of which have a result number.
Log(q) == "query" :> q
Logs3  == {Log(1) @@ ("resno" :> 5), Log(2) @@ ("resno" :> 0), Log(3)}
\* Texts 1 and 2, of which the first begins with the second, and 3.
On(kind, cond, v) == kind :> <<[cond |-> cond, value |-> v]>>
NoConds == [kind \in CondKinds |-> <<>>]
Conds3  == {NoConds, On("seword", "In", 2) @@ NoConds,
            On("seword", "IsFront", 2) @@ On("resno", "NotEqual", 0) @@ NoConds,
            On("seword", "NotIn", 2) @@ On("resno", "Equal", 0) @@ NoConds}
Contained == {<<1, 1>>, <<2, 2>>, <<3, 3>>, <<1, 2>>}
InFront   == {<<1, 2>>}

\* Preprocess on one node: a log s that recalled, a failed log f of the same
\* request, and a log g without a type of another request with the same query.
VARIABLES queue, taken, up, agentNew, line, inHand, keys, connected, ttl, alive, received,
          redundant, ignored, diedAtWork, lostReceipts
agentVars == <<queue, taken, up, agentNew, line, inHand, keys, connected, ttl, alive, received,
               redundant, ignored, diedAtWork, lostReceipts>>
AgentLogs == {s, f, g}
Pre == INSTANCE Preprocess WITH
  Nodes <- {n1}, Mortal <- {n1}, Workers <- {n1}, Records <- AgentLogs, Failed <- {f}, Typed <- {s, f},
  Topic <- [m \in AgentLogs |-> "old"], Qid <- [m \in AgentLogs |-> IF m = g THEN q2 ELSE q1],
  Query <- [m \in AgentLogs |-> q1], Cut <- {n1}, Restless <- {q1}, QueueLen <- 1,
  MaxOffers <- 1, MaxLostReplies <- 0, job <- inHand

\* s1 is in the configuration file.
TypeS1 == s1 :> old

Init ==
  /\ part \in {"rules", "counts", "queue", "skip list", "ring", "selection", "agents"}
  /\ RulesInit /\ (part # "rules" => regexes = [a \in Loaded |-> {}])
  /\ PvInit /\ QueueInit /\ SkipInit /\ RingInit /\ SelectionInit
  /\ Pre!Init /\ (part # "agents" => ttl[n1] = "none")

\* All parts but the one that is exercised stand still.
Still(p, hers) == part # p => UNCHANGED hers

Next ==
  /\ UNCHANGED part
  /\ \/ part = "rules" /\ RulesNext
     \/ part = "counts" /\ PvNext
     \/ part = "queue" /\ QueueNext
     \/ part = "skip list" /\ SkipNext
     \/ part = "ring" /\ RingNext
     \/ part = "selection" /\ SelectionNext
     \/ part = "agents" /\ Pre!Next
  /\ Still("rules", ruleVars) /\ Still("counts", pvVars) /\ Still("queue", queueVars)
  /\ Still("skip list", skipVars) /\ Still("ring", ringVars) /\ Still("selection", db)
  /\ Still("agents", agentVars)

Spec ==
  /\ Init /\ [][Next]_<<part, ruleVars, pvVars, queueVars, skipVars, ringVars, db, agentVars>>
  /\ \A p \in Producers : WF_queueVars(part = "queue" /\ Producer(p))
  /\ \A c \in Consumers : WF_queueVars(part = "queue" /\ Consumer(c))
  /\ []<>(part = "agents") => Pre!Fairness

\* Every part has values of its types.
TypeOK ==
  /\ RulesTypeOK /\ PvTypeOK /\ QueueTypeOK /\ SkipTypeOK /\ RingTypeOK
  /\ SelectionTypeOK
  /\ part = "agents" => Pre!TypeOK

\* What the module of the instance states.
OldDealtWith == Pre!OldDealtWith
===============================================================================
