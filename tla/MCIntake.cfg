SPECIFICATION Spec
CONSTANTS
  a = a
  b = b
  m1 = m1
  m2 = m2
  junk = junk
  Nodes = {a, b}
  Mortal = {a, b}
  Pressed = {a, b}
  Pullers <- OldAtA
  Breaking <- OldAtA
  Switched <- OldAtA
  Records = {m1, m2, junk}
  Feed <- OldFeed
  Passing = {m1, m2}
  QueueLen = 2
  Resenders = {r1}
  MaxLostReplies = 1
  None = None
INVARIANTS TypeOK EachRecordOnce Accounted
CHECK_DEADLOCK FALSE
