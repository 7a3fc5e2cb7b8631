SPECIFICATION Spec
CONSTANTS
  s = s
  f = f
  g = g
  q1 = q1
  q2 = q2
  Nodes = {n1, n2}
  Mortal = {n1, n2}
  Workers = {w1}
  Records = {s, f, g}
  Failed = {f, g}
  Typed = {s, f, g}
  Topic <- NewF
  Qid <- Request
  Query <- OneQuery
  Cut = {n1, n2}
  Restless = {q1}
  QueueLen = 2
  MaxOffers = 1
  MaxLostReplies = 1
  None = None
INVARIANTS NothingLost RedundantHasSuccess
CHECK_DEADLOCK FALSE
