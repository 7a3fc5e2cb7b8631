SPECIFICATION MCSpec
CONSTANTS
  s1 = s1
  s2 = s2
  alarm = alarm
  miss = miss
  expand = expand
  q = q
  rain = rain
  sun = sun
  Slaves = {s1, s2}
  Senders = {t1}
  Records <- MCRecords
  Home <- MCHome
  Hashes = {q}
  Hash <- MCHash
  Weather = {alarm, expand}
  Empty = {miss, expand}
  Rules = {rain, sun}
  Texts = {"a", "b"}
  Catches <- MCCatches
  First <- MCFirst
  Tools = {c1, c2}
  Requests <- MCRequests
  Posts = {p1, p2}
  MaxTries = 1
  MaxCalls <- MCMaxCalls
  MaxDeaths = 1
  None = None
INVARIANTS TypeOK NoDuplicateItems ListsAgree AnsweredIsStored TriesBounded
  MailHasMiss NoLineLost
PROPERTIES MailWhenKnown AlarmsEnd
CHECK_DEADLOCK FALSE
