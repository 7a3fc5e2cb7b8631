SPECIFICATION AlikeSpec
CONSTANTS
  a = a
  b = b
  s = s
  f = f
  q = q
  Nodes = {a, b}
  Mortal = {a, b}
  Pressed = {a}
  Pullers <- FedAtA
  Switched = {}
  Records = {s, f}
  Feed <- FedFirst
  Passing = {s, f}
  QueueLen = 1
  Breaking = {}
  Cut = {b}
  Restless = {q}
  Resenders = {r1}
  Workers = {w1}
  Failed = {f}
  Typed = {s, f}
  Qid <- Same
  Query <- Same
  None = None
  MaxLostReplies = 0
  MaxLostReceipts = 0
INVARIANTS EndToEnd
PROPERTIES ImplementsDelivery
CHECK_DEADLOCK FALSE
