SPECIFICATION FairSpec
CONSTANTS
  s = s
  f = f
  g = g
  q1 = q1
  q2 = q2
  Nodes = {n1}
  Mortal = {}
  Workers = {w1}
  Records = {s, f}
  Failed = {f}
  Typed = {s, f}
  Topic <- NewF
  Qid <- Request
  Query <- OneQuery
  Cut = {n1}
  Restless = {q1}
  QueueLen = 1
  MaxOffers = 1
  MaxLostReplies = 0
  None = None
PROPERTIES NewConsumed
CHECK_DEADLOCK FALSE
