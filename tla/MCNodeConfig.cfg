SPECIFICATION Spec
CONSTANTS
  old = old
  s1 = s1
  n1 = n1
  n2 = n2
  n3 = n3
  s = s
  f = f
  g = g
  q1 = q1
  q2 = q2
  Loaded = {old}
  New = {new}
  Fields = {query, city}
  Needed = {query}
  Srcids = {s1, s2}
  Type <- TypeS1
  Pullers = {p1, p2}
  Workers = {w1}
  MaxRecords = 2
  Seconds = {1, 2}
  Producers = {push1, push2}
  Consumers = {pop1, pop2}
  Capacity = 3
  PushesEach = 2
  KeySet = {1, 2, 3}
  Vals = {7, 8}
  Bounds = {0, 2, 3}
  MaxLevel = 3
  Servers = {n1, n2, n3}
  Initial <- FirstTwo
  Hashes = {0, 1, 2, 3, 4, 5, 6, 7}
  Hash <- HashOfAll
  MaxServers = 3
  NoServer = NoServer
  Timestamps = {1, 2}
  Logs <- Logs3
  Conds <- Conds3
  Readable <- Logs3
  Many = 1
  MaxStored = 5
  NoText = NoText
  Includes <- Contained
  Begins <- InFront
  Ends = {}
  None = None
  Nothing = Nothing
INVARIANTS TypeOK MapsAgree SendsWhatIsConfigured CountsExact OnlyNeededMove DeletedLeavesFirst PageIsSlice SelectedIfAlarming
PROPERTIES ReadsOneMoment RefusalsAreTrue ImplementsQueue EveryClaimPopped ImplementsMap OldDealtWith
CHECK_DEADLOCK FALSE
