SPECIFICATION FairSpec
CONSTANTS
  a = a
  b = b
  m1 = m1
  m2 = m2
  junk = junk
  Nodes = {a, b}
  Mortal = {b}
  Pressed = {a, b}
  Pullers <- OldAtA
  Breaking <- OldAtA
  Switched = {}
  Records = {m1, m2}
  Feed <- TwoFeed
  Passing = {m1, m2}
  QueueLen = 1
  Resenders = {r1}
  MaxLostReplies = 1
  None = None
PROPERTIES EveryRecordHandled
CHECK_DEADLOCK FALSE
