------------------------------- MODULE Cluster --------------------------------
(***************************************************************************)
(* The master nodes as a whole: Intake fills the lock-free queues and      *)
(* Preprocess empties them.                                                *)
(***************************************************************************)
EXTENDS Integers, Sequences, FiniteSets, Functions

CONSTANTS
  Nodes, Mortal, Pressed, Pullers, Switched, Records, Feed, Passing, QueueLen,
  Breaking, Cut, Restless, Resenders, Workers, Failed, Typed, Qid, Query, None,
  MaxLostReplies,   \* bound: replies to Retransmit that are lost
  MaxLostReceipts   \* bound: replies to Transmit that are lost

\* What both parts share: the queues, how often each record left one, and the
\* nodes that are alive.
VARIABLES queue, taken, up

VARIABLES produced, session, served, pc, status, package, rec, pullswitch, health, report,
          backlog, sending, counted, got, skipped, resent, lost, diedQueued, lostReplies

VARIABLES agentNew, line, job, keys, connected, ttl, alive, received, redundant, ignored,
          diedAtWork, lostReceipts

intake == <<produced, session, served, pc, status, package, rec, pullswitch, health, report,
            backlog, sending, counted, got, skipped, resent, lost, diedQueued, lostReplies>>
preprocess == <<agentNew, line, job, keys, connected, ttl, alive, received, redundant,
                ignored, diedAtWork, lostReceipts>>
vars == <<queue, taken, up, intake, preprocess>>

In == INSTANCE Intake

\* Feed says which node pulls a record, and from which topic.
Source(m) == CHOOSE p \in Pullers : m \in Range(Feed[p])
Home(m)   == Source(m)[1]
Topic     == [m \in Records |-> Source(m)[2]]
Pre == INSTANCE Preprocess WITH MaxOffers <- 0, MaxLostReplies <- MaxLostReceipts

ASSUME ClusterAssumption ==
  /\ IsFiniteSet(Nodes) /\ IsFiniteSet(Resenders) /\ IsFiniteSet(Workers)
  /\ Pullers \subseteq Nodes \X In!Kinds /\ Switched \cup Breaking \subseteq Pullers
  /\ Mortal \cup Pressed \cup Cut \subseteq Nodes
  /\ Passing \cup Failed \cup Typed \subseteq Records
  /\ Feed \in [Pullers -> Seq(Records)] /\ \A p \in Pullers : IsInjective(Feed[p])
  /\ \A p, q \in Pullers : p # q => Range(Feed[p]) \cap Range(Feed[q]) = {}
  /\ \A m \in Records : \E p \in Pullers : m \in Range(Feed[p])
  /\ DOMAIN Qid = Records /\ DOMAIN Query = Records /\ Restless \subseteq Range(Query)
  /\ QueueLen \in Nat \ {0} /\ MaxLostReplies \in Nat /\ MaxLostReceipts \in Nat
  /\ None \notin Nodes \cup Records \cup In!Errand \cup Pre!Job

Init == In!Init /\ Pre!Init

\* A node that dies is gone from both parts; redis and the slaves go on.
Next ==
  \/ In!IntakeNext /\ UNCHANGED preprocess
  \/ \E n \in Nodes : In!Die(n) /\ Pre!Die(n)
  \/ (\E n \in Nodes : Pre!NodeStep(n)) /\ UNCHANGED intake
  \/ (\E n \in up \cap Cut : Pre!Disconnect(n)) /\ UNCHANGED intake
  \/ (\E key \in Pre!Keys : Pre!Expire(key)) /\ UNCHANGED intake
  \/ (\E q \in Restless : Pre!SlaveChanges(q)) /\ UNCHANGED intake

Spec == Init /\ [][Next]_vars

-------------------------------------------------------------------------------
(* Properties. *)

InFlight(m) ==
  \/ In!InHand(m) \/ In!Queued(m) \/ In!Waiting(m) \/ In!Sent(m)
  \/ Pre!InLine(m) + Pre!AtWork(m) > 0

Ended(m) == Pre!Receipts(m) + redundant[m] + ignored[m] > 0

\* The records that were in the memory of a node when it died.
Died == diedQueued \cup diedAtWork

\* A record that pv-stat has counted is still on its way at a living node, or has
\* reached a slave, or was hidden or ignored by a worker, or was lost being sent on,
\* or died with a node; and nothing else is ever on its way.
EndToEnd ==
  /\ \A m \in Records : counted[m] = 1 <=> InFlight(m) \/ Ended(m) \/ m \in lost \cup Died
  /\ \A n \in Nodes \ up, m \in Records : ~(In!IsAt(n, m) \/ Pre!InPool(n, m))

Seen    == {m \in Records : counted[m] > 0}
Promise == INSTANCE Delivery WITH
  seen <- Seen, sentOn <- resent, missing <- lost, perished <- Died,
  delivered <- {m \in Records : Pre!Receipts(m) > 0},
  hidden <- {m \in Records : redundant[m] > 0}, Related <- Pre!Related, Home <- Home

\* The nodes keep the promise they make about the records they take in.
ImplementsDelivery == Promise!Spec
===============================================================================
