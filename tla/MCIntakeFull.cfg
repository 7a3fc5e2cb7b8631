SPECIFICATION Spec
CONSTANTS
  a = a
  b = b
  m1 = m1
  m2 = m2
  junk = junk
  Nodes = {a, b}
  Mortal = {}
  Pressed = {a, b}
  Pullers <- OldAtA
  Breaking <- OldAtA
  Switched = {}
  Records = {m1, m2, junk}
  Feed <- OldFeed
  Passing = {m1, m2}
  QueueLen = 1
  Resenders = {r1}
  MaxLostReplies = 0
  None = None
PROPERTIES AnsweredIsQueued
CHECK_DEADLOCK FALSE
