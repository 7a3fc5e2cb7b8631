------------------------------- MODULE Delivery -------------------------------
(***************************************************************************)
(* What the master nodes promise about the records they take in: a record  *)
(* is taken in once, at its home while that is alive, only a record that   *)
(* was taken in reaches a slave, only a failed log is hidden, and only     *)
(* behind a log of the same request or query that recalled something, only *)
(* a record that was sent on to another node is lost on the way, and when  *)
(* a node dies, only what it took in itself or what was sent on perishes.  *)
(***************************************************************************)
CONSTANTS Nodes, Records, Failed, Related(_), Home(_)

VARIABLES up, seen, sentOn, delivered, hidden, missing, perished

deliveryVars == <<up, seen, sentOn, delivered, hidden, missing, perished>>

Init ==
  /\ up = Nodes /\ seen = {} /\ sentOn = {} /\ delivered = {} /\ hidden = {}
  /\ missing = {} /\ perished = {}

See(m) ==
  /\ Home(m) \in up /\ m \notin seen /\ seen' = seen \cup {m}
  /\ sentOn' \in {sentOn, sentOn \cup {m}}
  /\ UNCHANGED <<up, delivered, hidden, missing, perished>>

Deliver(m) ==
  /\ m \in seen /\ delivered' = delivered \cup {m}
  /\ UNCHANGED <<up, seen, sentOn, hidden, missing, perished>>

Hide(m) ==
  /\ m \in seen \cap Failed /\ Related(m) \cap (seen \ Failed) # {}
  /\ hidden' = hidden \cup {m}
  /\ UNCHANGED <<up, seen, sentOn, delivered, missing, perished>>

Miss(m) ==
  /\ m \in sentOn /\ missing' = missing \cup {m}
  /\ UNCHANGED <<up, seen, sentOn, delivered, hidden, perished>>

AtRisk(n) == {m \in seen : Home(m) = n \/ m \in sentOn}

Die(n) ==
  /\ n \in up /\ up' = up \ {n}
  /\ \E M \in SUBSET AtRisk(n) : perished' = perished \cup M
  /\ UNCHANGED <<seen, sentOn, delivered, hidden, missing>>

Next ==
  \/ \E m \in Records : See(m) \/ Deliver(m) \/ Hide(m) \/ Miss(m)
  \/ \E n \in Nodes : Die(n)

Spec == Init /\ [][Next]_deliveryVars
===============================================================================
