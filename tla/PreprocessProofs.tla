---------------------------- MODULE PreprocessProofs ----------------------------
(* Proofs about Preprocess for any nodes, workers, records, qids and queries. *)
EXTENDS Preprocess, LinesProofs

\* The preprocessing with queues that whoever fills them may fill at any time: what is
\* proved of it holds of Spec, and of the cluster, whose intake fills the queues.
OpenNext ==
  \/ \E n \in Nodes : NodeStep(n) \/ Die(n)
  \/ \E n \in up \cap Cut : Disconnect(n)
  \/ \E key \in Keys : Expire(key)
  \/ \E q \in Restless : SlaveChanges(q)
  \/ \E n \in Nodes, k \in Kinds, m \in Records : Fill(n, k, m)
OpenSpec == Init /\ [][OpenNext]_vars

\* Offer fills the queue of the record's topic.
LEMMA SpecIsOpen == Spec => OpenSpec
<1>1. ASSUME NEW n \in Nodes, NEW m \in Records, Offer(n, m)
      PROVE  \E k \in Kinds : Fill(n, k, m)
  <2>1. Topic[m] \in Kinds BY PreprocessAssumption
  <2> QED BY <1>1, <2>1 DEF Offer
<1>2. [Next]_vars => [OpenNext]_vars BY <1>1 DEF Next, OpenNext
<1> QED BY <1>2, PTL DEF Spec, OpenSpec

-------------------------------------------------------------------------------
(* What the jobs and the keys of redis tell about logs that recalled.        *)

Steps == {"exists qid", "exists query", "set query", "set qid", "transmit"}

\* A count that has grown by one is a count.
LEMMA CountsUp == \A k \in Nat : k + 1 \in Nat OBVIOUS

\* The types of what the theorem is about.
PreTypes ==
  /\ queue \in [Nodes -> [Kinds -> Seq(Records)]] /\ line \in [Nodes -> Seq(Records)]
  /\ job \in [Nodes -> [Workers -> Job \cup {None}]]
  /\ keys \in [Keys -> {"absent", "kept", "expiring"}]
  /\ received \in [Records -> [Kinds -> Nat]] /\ redundant \in [Records -> Nat]

Handles(n, w, m) == job[n][w] # None /\ job[n][w].body = m

\* The log has reached its slave, or is in a worker's hands, or died there.
OnItsWay(m) ==
  \/ Receipts(m) > 0 \/ m \in diedAtWork
  \/ \E n \in Nodes, w \in Workers : Handles(n, w, m)

Successful == Records \ Failed

\* Only failed logs are asked about, and only the others set keys.
Branches ==
  \A n \in Nodes, w \in Workers : job[n][w] # None =>
    /\ job[n][w].at \in {"exists qid", "exists query"} => job[n][w].body \in Failed
    /\ job[n][w].at \in {"set query", "set qid"} => job[n][w].body \in Successful

\* Whoever set a key is on its way, however long ago that was.
KeysHaveSetters ==
  /\ \A m \in Records : keys[QidKey(m)] # "absent" =>
       \E s \in Successful : Qid[s] = Qid[m] /\ OnItsWay(s)
  /\ \A m \in Records : keys[QueryKey(m)] # "absent" =>
       \E s \in Successful : Query[s] = Query[m] /\ OnItsWay(s)

RedundantHasSetter ==
  \A m \in Records : redundant[m] > 0 =>
    m \in Failed /\ \E s \in Related(m) : OnItsWay(s)

RedundantInv == PreTypes /\ Branches /\ KeysHaveSetters /\ RedundantHasSetter

\* The keys of a record are keys, and the two kinds differ.
LEMMA KeysOf ==
  ASSUME NEW m \in Records
  PROVE  /\ QidKey(m) \in Keys /\ QueryKey(m) \in Keys
         /\ \A x \in Records : QidKey(m) # QueryKey(x)
         /\ \A x \in Records : QidKey(m) = QidKey(x) <=> Qid[m] = Qid[x]
         /\ \A x \in Records : QueryKey(m) = QueryKey(x) <=> Query[m] = Query[x]
<1>1. Qid[m] \in Range(Qid) /\ Query[m] \in Range(Query)
  BY PreprocessAssumption DEF Range
<1> QED BY <1>1 DEF Keys, QidKey, QueryKey

\* The invariant holds at first: nothing is asked and no key is set.
LEMMA RedundantInit == Init => RedundantInv
<1> SUFFICES ASSUME Init PROVE RedundantInv OBVIOUS
<1>1. PreTypes BY DEF Init, PreTypes, Kinds
<1>2. Branches BY DEF Init, Branches
<1>3. KeysHaveSetters BY KeysOf DEF Init, KeysHaveSetters
<1>4. RedundantHasSetter BY DEF Init, RedundantHasSetter
<1> QED BY <1>1, <1>2, <1>3, <1>4 DEF RedundantInv

-------------------------------------------------------------------------------
(* The three updates of a worker's job. *)

JobSet(n, w, value) ==
  /\ job' \in [Nodes -> [Workers -> Job \cup {None}]]
  /\ \A x \in Nodes, y \in Workers :
       job'[x][y] = IF x = n /\ y = w THEN value ELSE job[x][y]

\* BeginJob takes the first record of the line.
LEMMA JobBegins ==
  ASSUME PreTypes, NEW n \in Nodes, NEW w \in Workers, NEW m \in Records, NEW at \in Steps,
         job' = [job EXCEPT ![n][w] = [body |-> m, at |-> at]]
  PROVE  JobSet(n, w, [body |-> m, at |-> at]) /\ [body |-> m, at |-> at] \in Job
<1> DEFINE j == [body |-> m, at |-> at]
<1>1. j \in Job BY DEF Job, Steps
<1>2. job' = [job EXCEPT ![n][w] = j] OBVIOUS
<1> HIDE DEF j
<1>3. JobSet(n, w, j) BY <1>1, <1>2 DEF PreTypes, JobSet
<1> QED BY <1>1, <1>3 DEF j

\* PreProcess goes on to another step with the same record.
LEMMA JobGoesOn ==
  ASSUME PreTypes, NEW n \in Nodes, NEW w \in Workers, job[n][w] # None, NEW at \in Steps,
         GoOn(n, w, at)
  PROVE  /\ job[n][w].body \in Records /\ [body |-> job[n][w].body, at |-> at] \in Job
         /\ JobSet(n, w, [body |-> job[n][w].body, at |-> at])
<1>1. job[n][w] \in Job BY DEF PreTypes
<1> DEFINE j == [body |-> job[n][w].body, at |-> at]
<1>2. job[n][w].body \in Records /\ j \in Job BY <1>1 DEF Job, Steps
<1>3. [job[n][w] EXCEPT !.at = at] = j
  <2>1. PICK b \in Records, a \in Steps : job[n][w] = [body |-> b, at |-> a]
    BY <1>1 DEF Job, Steps
  <2>2. job[n][w].body = b BY <2>1
  <2>3. [[body |-> b, at |-> a] EXCEPT !.at = at] = [body |-> b, at |-> at]
    OBVIOUS
  <2> QED BY <2>1, <2>2, <2>3
<1>4. job' = [job EXCEPT ![n] = [job[n] EXCEPT ![w] = [job[n][w] EXCEPT !.at = at]]]
  BY DEF GoOn
<1>5. job' = [job EXCEPT ![n] = [job[n] EXCEPT ![w] = j]] BY <1>3, <1>4
<1> HIDE DEF j
<1>6. JobSet(n, w, j) BY <1>2, <1>5 DEF PreTypes, JobSet
<1> QED BY <1>2, <1>6 DEF j

\* PreProcess returns.
LEMMA JobEnds ==
  ASSUME PreTypes, NEW n \in Nodes, NEW w \in Workers, EndJob(n, w)
  PROVE  JobSet(n, w, None)
BY DEF PreTypes, JobSet, EndJob

-------------------------------------------------------------------------------
(* Once on its way, always on its way. *)

\* A key that a step does not set keeps its setter.
LEMMA KeysKept ==
  ASSUME RedundantInv, \A s \in Successful : OnItsWay(s) => OnItsWay(s)',
         \A key \in Keys : keys'[key] # "absent" => keys[key] # "absent"
  PROVE  KeysHaveSetters'
<1>1. ASSUME NEW m \in Records, keys'[QidKey(m)] # "absent"
      PROVE  \E s \in Successful : Qid[s] = Qid[m] /\ OnItsWay(s)'
  <2>1. keys[QidKey(m)] # "absent" BY <1>1, KeysOf
  <2>2. PICK s \in Successful : Qid[s] = Qid[m] /\ OnItsWay(s)
    BY <2>1 DEF RedundantInv, KeysHaveSetters
  <2> QED BY <2>2
<1>2. ASSUME NEW m \in Records, keys'[QueryKey(m)] # "absent"
      PROVE  \E s \in Successful : Query[s] = Query[m] /\ OnItsWay(s)'
  <2>1. keys[QueryKey(m)] # "absent" BY <1>2, KeysOf
  <2>2. PICK s \in Successful : Query[s] = Query[m] /\ OnItsWay(s)
    BY <2>1 DEF RedundantInv, KeysHaveSetters
  <2> QED BY <2>2
<1> QED BY <1>1, <1>2 DEF KeysHaveSetters, QidKey, QueryKey, Successful

\* A log that was taken for redundant stays so with reason.
LEMMA ReasonKept ==
  ASSUME RedundantInv, \A s \in Successful : OnItsWay(s) => OnItsWay(s)',
         NEW m \in Records, redundant[m] > 0
  PROVE  m \in Failed /\ \E s \in Related(m) : OnItsWay(s)'
<1>1. PICK s \in Related(m) : m \in Failed /\ OnItsWay(s)
  BY DEF RedundantInv, RedundantHasSetter
<1>2. s \in Successful BY DEF Related, Successful
<1> QED BY <1>1, <1>2

\* A step that keeps every successful log on its way, sets no key and takes no log
\* for redundant.
LEMMA WayKept ==
  ASSUME RedundantInv, PreTypes', Branches',
         \A s \in Successful : OnItsWay(s) => OnItsWay(s)',
         redundant' = redundant,
         \A key \in Keys : keys'[key] # "absent" => keys[key] # "absent"
  PROVE  RedundantInv'
<1>1. KeysHaveSetters' BY KeysKept
<1>2. RedundantHasSetter' BY ReasonKept DEF RedundantHasSetter, Related
<1> QED BY <1>1, <1>2 DEF RedundantInv

\* A log stays on its way when its worker keeps it or its slave has it.
LEMMA WayByJob ==
  ASSUME NEW n \in Nodes, NEW w \in Workers, NEW value, JobSet(n, w, value),
         NEW s \in Successful, OnItsWay(s), diedAtWork \subseteq diedAtWork',
         Receipts(s) > 0 => Receipts(s)' > 0,
         Handles(n, w, s) => Receipts(s)' > 0 \/ (value # None /\ value.body = s)
  PROVE  OnItsWay(s)'
<1>1. CASE Receipts(s) > 0 \/ s \in diedAtWork BY <1>1 DEF OnItsWay
<1>2. CASE \E x \in Nodes, y \in Workers : Handles(x, y, s)
  <2>1. PICK x \in Nodes, y \in Workers : Handles(x, y, s) BY <1>2
  <2>2. CASE x = n /\ y = w BY <2>1, <2>2 DEF OnItsWay, Handles, JobSet
  <2>3. CASE ~(x = n /\ y = w)
    <3>1. job'[x][y] = job[x][y] BY <2>3 DEF JobSet
    <3>2. Handles(x, y, s)' BY <2>1, <3>1 DEF Handles
    <3> QED BY <3>2 DEF OnItsWay
  <2> QED BY <2>2, <2>3
<1> QED BY <1>1, <1>2 DEF OnItsWay

\* The branches of PreProcess, where one worker's job is set.
LEMMA BranchesByJob ==
  ASSUME Branches, NEW n \in Nodes, NEW w \in Workers, NEW value, JobSet(n, w, value),
         value # None =>
           /\ value.at \in {"exists qid", "exists query"} => value.body \in Failed
           /\ value.at \in {"set query", "set qid"} => value.body \in Successful
  PROVE  Branches'
BY DEF Branches, JobSet

-------------------------------------------------------------------------------
(* The steps. *)

\* A question to redis: a log is taken for redundant only if the key is there.
LEMMA AskStep ==
  ASSUME RedundantInv, NEW n \in Nodes, NEW w \in Workers,
         NEW at \in {"exists qid", "exists query"}, NEW next \in {"exists query", "transmit"},
         NEW key, Ask(n, w, at, key, next),
         keys[key] # "absent" => \E s \in Related(job[n][w].body) : OnItsWay(s)
  PROVE  RedundantInv'
<1>1. /\ job[n][w] # None /\ job[n][w].at = at
      /\ UNCHANGED <<queue, line, keys, received, diedAtWork>>
  BY DEF Ask, AtStep, redis, atNode
<1>0. job[n][w].body \in Failed BY <1>1 DEF RedundantInv, Branches
<1>m. PICK m \in Failed : m = job[n][w].body BY <1>0
<1>2. m \in Failed /\ m \in Records BY PreprocessAssumption
<1>3. PreTypes BY DEF RedundantInv
<1>4. \A s \in Successful : ~Handles(n, w, s) /\ Receipts(s)' = Receipts(s)
  BY <1>1, <1>2, <1>m DEF Handles, Successful, Receipts
<1>5. CASE Exists(n, key)
  <2>1. EndJob(n, w) /\ redundant' = [redundant EXCEPT ![m] = redundant[m] + 1]
    BY <1>5, <1>m DEF Ask
  <2>2. JobSet(n, w, None) BY <1>3, <2>1, JobEnds
  <2>3. \A s \in Successful : OnItsWay(s) => OnItsWay(s)'
    BY <1>1, <1>4, <2>2, WayByJob
  <2>4. Branches' BY <2>2, BranchesByJob DEF RedundantInv
  <2>5. redundant' \in [Records -> Nat]
    <3>1. redundant \in [Records -> Nat] BY <1>3 DEF PreTypes
    <3>2. redundant[m] \in Nat BY ONLY <1>2, <3>1
    <3>3. redundant[m] + 1 \in Nat BY <3>2, CountsUp
    <3> QED BY <1>2, <2>1, <3>1, <3>3
  <2>6. PreTypes' BY <1>1, <1>3, <2>2, <2>5 DEF PreTypes, JobSet
  <2>7. KeysHaveSetters' BY <1>1, <2>3, KeysKept
  <2>8. RedundantHasSetter'
    <3>1. \E s \in Related(m) : OnItsWay(s) BY <1>5, <1>m DEF Exists
    <3>2. PICK s \in Related(m) : OnItsWay(s)' BY <2>3, <3>1 DEF Related, Successful
    <3>3. ASSUME NEW x \in Records, redundant'[x] > 0
          PROVE  x \in Failed /\ \E y \in Related(x) : OnItsWay(y)'
      <4>1. CASE x = m BY <1>2, <3>2, <4>1
      <4>2. CASE x # m
        <5>1. redundant[x] > 0 BY <1>3, <2>1, <3>3, <4>2 DEF PreTypes
        <5> QED BY <2>3, <5>1, ReasonKept
      <4> QED BY <4>1, <4>2
    <3> QED BY <3>3 DEF RedundantHasSetter, Related
  <2> QED BY <2>4, <2>6, <2>7, <2>8 DEF RedundantInv
<1>6. CASE ~Exists(n, key)
  <2>1. GoOn(n, w, next) /\ redundant' = redundant BY <1>6 DEF Ask
  <2>2. /\ JobSet(n, w, [body |-> m, at |-> next])
    BY <1>1, <1>3, <1>m, <2>1, JobGoesOn DEF Steps
  <2>3. \A s \in Successful : OnItsWay(s) => OnItsWay(s)'
    BY <1>1, <1>4, <2>2, WayByJob
  <2>4. Branches' BY <1>2, <2>2, BranchesByJob DEF RedundantInv
  <2>5. PreTypes' BY <1>1, <1>3, <2>1, <2>2 DEF PreTypes, JobSet
  <2> QED BY <1>1, <2>1, <2>3, <2>4, <2>5, WayKept
<1> QED BY <1>5, <1>6

\* A command that sets a key: who sets it is on its way.
LEMMA PutStep ==
  ASSUME RedundantInv, NEW n \in Nodes, NEW w \in Workers,
         NEW at \in {"set query", "set qid"}, NEW next \in {"set qid", "transmit"},
         NEW key \in {QidKey(job[n][w].body), QueryKey(job[n][w].body)},
         NEW own \in BOOLEAN, Put(n, w, at, key, own, next)
  PROVE  RedundantInv'
<1>1. /\ job[n][w] # None /\ job[n][w].at = at /\ GoOn(n, w, next)
      /\ UNCHANGED <<queue, line, received, redundant, diedAtWork>>
  BY DEF Put, AtStep, ends, atNode
<1>0. job[n][w].body \in Successful
  BY <1>1 DEF RedundantInv, Branches
<1>m. PICK m \in Successful : m = job[n][w].body BY <1>0
<1>2. m \in Successful /\ m \in Records
  BY DEF Successful
<1>3. PreTypes BY DEF RedundantInv
<1>4. JobSet(n, w, [body |-> m, at |-> next]) /\ [body |-> m, at |-> next] \in Job
  BY <1>1, <1>3, <1>m, JobGoesOn DEF Steps
<1>5. [body |-> m, at |-> next] # None BY <1>4, PreprocessAssumption
<1>6. /\ keys' \in [Keys -> {"absent", "kept", "expiring"}]
      /\ \A x \in Keys : x # key => keys'[x] = keys[x]
  <2>1. \/ keys' = keys \/ \E v \in {"kept", "expiring"} : keys' = [keys EXCEPT ![key] = v]
    BY DEF Put
  <2> QED BY <1>3, <2>1 DEF PreTypes
<1>k. key \in {QidKey(m), QueryKey(m)} BY <1>m
<1>7. PreTypes' BY <1>1, <1>3, <1>4, <1>6 DEF PreTypes, JobSet
<1>8. Branches' BY <1>2, <1>4, BranchesByJob DEF RedundantInv
<1>9. \A s \in Successful : OnItsWay(s) => OnItsWay(s)'
  <2>1. \A s \in Successful : Receipts(s)' = Receipts(s) BY <1>1 DEF Receipts
  <2>2. \A s \in Successful : Handles(n, w, s) => s = m BY <1>m DEF Handles
  <2>3. [body |-> m, at |-> next].body = m OBVIOUS
  <2> QED BY <1>1, <1>4, <1>5, <2>1, <2>2, <2>3, WayByJob
<1>10. OnItsWay(m)'
  <2>1. job'[n][w] = [body |-> m, at |-> next] BY <1>4 DEF JobSet
  <2>2. [body |-> m, at |-> next].body = m OBVIOUS
  <2>3. job'[n][w].body = m BY ONLY <2>1, <2>2
  <2>4. job'[n][w] # None BY ONLY <1>5, <2>1
  <2>5. Handles(n, w, m)' BY <2>3, <2>4 DEF Handles
  <2> QED BY <2>5 DEF OnItsWay
<1>11. KeysHaveSetters'
  <2>1. ASSUME NEW x \in Records, keys'[QidKey(x)] # "absent"
        PROVE  \E s \in Successful : Qid[s] = Qid[x] /\ OnItsWay(s)'
    <3>1. CASE QidKey(x) = key
      <4>1. Qid[x] = Qid[m] BY <1>2, <1>k, <3>1, KeysOf
      <4> QED BY <1>2, <1>10, <4>1
    <3>2. CASE QidKey(x) # key
      <4>1. keys[QidKey(x)] # "absent" BY <1>6, <2>1, <3>2, KeysOf
      <4>2. PICK s \in Successful : Qid[s] = Qid[x] /\ OnItsWay(s)
        BY <4>1 DEF RedundantInv, KeysHaveSetters
      <4> QED BY <1>9, <4>2
    <3> QED BY <3>1, <3>2
  <2>2. ASSUME NEW x \in Records, keys'[QueryKey(x)] # "absent"
        PROVE  \E s \in Successful : Query[s] = Query[x] /\ OnItsWay(s)'
    <3>1. CASE QueryKey(x) = key
      <4>1. Query[x] = Query[m] BY <1>2, <1>k, <3>1, KeysOf
      <4> QED BY <1>2, <1>10, <4>1
    <3>2. CASE QueryKey(x) # key
      <4>1. keys[QueryKey(x)] # "absent" BY <1>6, <2>2, <3>2, KeysOf
      <4>2. PICK s \in Successful : Query[s] = Query[x] /\ OnItsWay(s)
        BY <4>1 DEF RedundantInv, KeysHaveSetters
      <4> QED BY <1>9, <4>2
    <3> QED BY <3>1, <3>2
  <2> QED BY <2>1, <2>2 DEF KeysHaveSetters, QidKey, QueryKey, Successful
<1>12. RedundantHasSetter'
  BY <1>1, <1>9, ReasonKept DEF RedundantHasSetter, Related
<1> QED BY <1>7, <1>8, <1>11, <1>12 DEF RedundantInv

\* A slave receives a record once more.
LEMMA ReceivedAgain ==
  ASSUME PreTypes, NEW m \in Records, Receive(m)
  PROVE  /\ received' \in [Records -> [Kinds -> Nat]]
         /\ Receipts(m) \in Nat /\ Receipts(m)' = Receipts(m) + 1
         /\ \A s \in Records : s # m => Receipts(s)' = Receipts(s)
<1>0. received' = [received EXCEPT ![m]["old"] = received[m]["old"] + 1] BY DEF Receive
<1>1. received[m] \in [Kinds -> Nat] /\ "old" \in Kinds /\ "new" \in Kinds
  BY DEF PreTypes, Kinds
<1>2. received[m]["old"] \in Nat /\ received[m]["new"] \in Nat BY <1>1
<1>c. received[m]["old"] + 1 \in Nat BY ONLY <1>2
<1>r. PICK row \in [Kinds -> Nat] :
        row = [received[m] EXCEPT !["old"] = received[m]["old"] + 1]
  BY ONLY <1>1, <1>c
<1>e. received' = [received EXCEPT ![m] = row] BY <1>0, <1>r
<1>3. received' \in [Records -> [Kinds -> Nat]]
  BY <1>e DEF PreTypes
<1>4. received'[m]["old"] = received[m]["old"] + 1 /\ received'[m]["new"] = received[m]["new"]
  <2>1. received'[m] = row BY <1>e DEF PreTypes
  <2> QED BY ONLY <1>1, <1>r, <2>1
<1>5. \A s \in Records : s # m => received'[s] = received[s]
  BY <1>0 DEF PreTypes
<1>6. Receipts(m) \in Nat /\ Receipts(m)' = Receipts(m) + 1 BY <1>2, <1>4 DEF Receipts
<1> QED BY <1>3, <1>5, <1>6 DEF Receipts

\* A node that dies has nothing in its queues, its line and its workers' hands any more.
LEMMA DieTypes ==
  ASSUME PreTypes, NEW n \in Nodes, Die(n)
  PROVE  /\ PreTypes' /\ line' = [line EXCEPT ![n] = <<>>]
         /\ \A x \in Nodes, y \in Workers : job'[x][y] = IF x = n THEN None ELSE job[x][y]
<1>1. /\ queue' = [queue EXCEPT ![n] = [k \in Kinds |-> <<>>]]
      /\ line' = [line EXCEPT ![n] = <<>>]
      /\ job' = [job EXCEPT ![n] = [w \in Workers |-> None]]
      /\ UNCHANGED <<keys, received, redundant>>
  BY DEF Die, redis, ends
<1>2. queue' \in [Nodes -> [Kinds -> Seq(Records)]]
  <2>1. [k \in Kinds |-> <<>>] \in [Kinds -> Seq(Records)] OBVIOUS
  <2>2. queue \in [Nodes -> [Kinds -> Seq(Records)]] BY DEF PreTypes
  <2> QED BY ONLY <1>1, <2>1, <2>2
<1>3. line' \in [Nodes -> Seq(Records)] BY <1>1 DEF PreTypes
<1>4. job' \in [Nodes -> [Workers -> Job \cup {None}]] BY <1>1 DEF PreTypes
<1>5. \A x \in Nodes, y \in Workers : job'[x][y] = IF x = n THEN None ELSE job[x][y]
  BY <1>1 DEF PreTypes
<1> QED BY <1>1, <1>2, <1>3, <1>4, <1>5 DEF PreTypes

\* Every step of the agents, workers, redis and slaves, and a death, keeps the invariant.
LEMMA RedundantStep == RedundantInv /\ [OpenNext]_vars => RedundantInv'
<1> SUFFICES ASSUME RedundantInv, [OpenNext]_vars PROVE RedundantInv' OBVIOUS
<1>0. PreTypes BY DEF RedundantInv
\* A step that leaves jobs, keys and receipts alone.
<1>f. ASSUME UNCHANGED <<job, received, redundant, diedAtWork>>, PreTypes',
             \A key \in Keys : keys'[key] # "absent" => keys[key] # "absent"
      PROVE  RedundantInv'
  <2>1. \A s \in Successful : OnItsWay(s) => OnItsWay(s)'
    BY <1>f DEF OnItsWay, Receipts, Handles
  <2>2. Branches' BY <1>f DEF RedundantInv, Branches
  <2> QED BY <1>f, <2>1, <2>2, WayKept
<1>p. ASSUME NEW n \in Nodes, NEW k \in Kinds, queue[n][k] # <<>>, Pop(n, k),
             UNCHANGED <<job, keys, received, redundant>>
      PROVE  PreTypes'
  <2>1. queue[n][k] \in Seq(Records) /\ line[n] \in Seq(Records) BY <1>0 DEF PreTypes
  <2>2. Head(queue[n][k]) \in Records /\ Tail(queue[n][k]) \in Seq(Records) BY <1>p, <2>1
  <2>3. Append(line[n], Head(queue[n][k])) \in Seq(Records) BY <2>1, <2>2
  <2>4. /\ queue' = [queue EXCEPT ![n][k] = Tail(queue[n][k])]
        /\ line' = [line EXCEPT ![n] = Append(line[n], Head(queue[n][k]))]
    BY <1>p DEF Pop
  <2>5. line' \in [Nodes -> Seq(Records)] BY <1>0, <2>3, <2>4 DEF PreTypes
  <2>6. queue' \in [Nodes -> [Kinds -> Seq(Records)]] BY <1>0, <2>2, <2>4 DEF PreTypes
  <2> QED BY <1>0, <1>p, <2>5, <2>6 DEF PreTypes
<1>1. ASSUME NEW n \in Nodes, Agent(n) \/ AgentNewTest(n) \/ AgentNewPop(n)
      PROVE  RedundantInv'
  <2>1. UNCHANGED <<job, keys, received, redundant, diedAtWork>>
    BY <1>1 DEF Agent, AgentNewTest, AgentNewPop, redis, ends
  <2>2. \/ UNCHANGED <<queue, line>>
        \/ \E k \in Kinds : queue[n][k] # <<>> /\ Pop(n, k)
    BY <1>1 DEF Agent, AgentNewTest, AgentNewPop, Kinds
  <2>3. PreTypes' BY <1>0, <1>p, <2>1, <2>2 DEF PreTypes
  <2> QED BY <1>f, <2>1, <2>3
<1>2. ASSUME NEW n \in Nodes, NEW w \in Workers, BeginJob(n, w) PROVE RedundantInv'
  <2>1. /\ line[n] # <<>> /\ job[n][w] = None /\ line' = [line EXCEPT ![n] = Tail(line[n])]
        /\ UNCHANGED <<queue, keys, received, redundant, diedAtWork>>
    BY <1>2 DEF BeginJob, redis
  <2>2. line[n] \in Seq(Records) BY <1>0 DEF PreTypes
  <2>3. Head(line[n]) \in Records /\ Tail(line[n]) \in Seq(Records) BY <2>1, <2>2
  <2>4. line' \in [Nodes -> Seq(Records)] BY <1>0, <2>1, <2>3 DEF PreTypes
  <2>5. CASE UNCHANGED job
    <3>1. PreTypes' BY <1>0, <2>1, <2>4, <2>5 DEF PreTypes
    <3> QED BY <1>f, <2>1, <2>5, <3>1
  <2>6. CASE job' # job
    <3>1. PICK m \in Records : m = Head(line[n]) BY <2>3
    <3>2. job' = [job EXCEPT ![n][w] = [body |-> m, at |-> FirstStep(m)]]
      BY <1>2, <2>6, <3>1 DEF BeginJob
    <3>3. FirstStep(m) \in Steps BY DEF FirstStep, Steps
    <3>4. JobSet(n, w, [body |-> m, at |-> FirstStep(m)])
      BY <1>0, <3>2, <3>3, JobBegins
    <3>5. Branches'
      BY <3>4, BranchesByJob DEF RedundantInv, FirstStep, Successful
    <3>6. PreTypes' BY <1>0, <2>1, <2>4, <3>4 DEF PreTypes, JobSet
    <3>7. \A s \in Successful : Receipts(s)' = Receipts(s) /\ ~Handles(n, w, s)
      BY <2>1 DEF Receipts, Handles
    <3>8. \A s \in Successful : OnItsWay(s) => OnItsWay(s)'
      BY <2>1, <3>4, <3>7, WayByJob
    <3> QED BY <2>1, <3>5, <3>6, <3>8, WayKept
  <2> QED BY <2>5, <2>6
<1>b. ASSUME NEW n \in Nodes, NEW w \in Workers, job[n][w] # None
      PROVE  job[n][w].body \in Records
  <2>1. job[n][w] \in Job \cup {None} BY <1>0 DEF PreTypes
  <2>2. job[n][w] \in Job BY <1>b, <2>1
  <2> QED BY ONLY <2>2 DEF Job
<1>3. ASSUME NEW n \in Nodes, NEW w \in Workers, AskQid(n, w) PROVE RedundantInv'
  <2>1. job[n][w] # None BY <1>3 DEF AskQid, Ask, AtStep
  <2>2. keys[QidKey(job[n][w].body)] # "absent" =>
          \E s \in Related(job[n][w].body) : OnItsWay(s)
    BY <1>b, <2>1 DEF RedundantInv, KeysHaveSetters, Related, Successful
  <2> QED BY <1>3, <2>2, AskStep DEF AskQid
<1>4. ASSUME NEW n \in Nodes, NEW w \in Workers, AskQuery(n, w) PROVE RedundantInv'
  <2>1. job[n][w] # None BY <1>4 DEF AskQuery, Ask, AtStep
  <2>2. keys[QueryKey(job[n][w].body)] # "absent" =>
          \E s \in Related(job[n][w].body) : OnItsWay(s)
    BY <1>b, <2>1 DEF RedundantInv, KeysHaveSetters, Related, Successful
  <2> QED BY <1>4, <2>2, AskStep DEF AskQuery
<1>5. ASSUME NEW n \in Nodes, NEW w \in Workers, SetQuery(n, w) \/ SetQid(n, w)
      PROVE  RedundantInv'
  <2>1. CASE SetQuery(n, w)
    <3>1. \E own \in BOOLEAN :
            Put(n, w, "set query", QueryKey(job[n][w].body), own, "set qid")
      BY <2>1 DEF SetQuery
    <3> QED BY <3>1, PutStep
  <2>2. CASE SetQid(n, w)
    <3>1. \E own \in BOOLEAN :
            Put(n, w, "set qid", QidKey(job[n][w].body), own, "transmit")
      BY <2>2 DEF SetQid
    <3> QED BY <3>1, PutStep
  <2> QED BY <1>5, <2>1, <2>2
<1>6. ASSUME NEW n \in Nodes, NEW w \in Workers, Transmit(n, w) \/ TransmitReplyLost(n, w)
      PROVE  RedundantInv'
  <2>1. /\ job[n][w] # None /\ UNCHANGED <<queue, line, keys, redundant, diedAtWork>>
        /\ Receive(job[n][w].body) /\ (EndJob(n, w) \/ UNCHANGED job)
    BY <1>6 DEF Transmit, TransmitReplyLost, AtStep, redis, stages, atNode
  <2>2. PICK m \in Records : m = job[n][w].body BY <1>b, <2>1
  <2>4. /\ received' \in [Records -> [Kinds -> Nat]] /\ Receipts(m)' > 0
        /\ \A s \in Records : s # m => Receipts(s)' = Receipts(s)
    <3>1. Receive(m) BY <2>1, <2>2
    <3>2. /\ received' \in [Records -> [Kinds -> Nat]]
          /\ Receipts(m) \in Nat /\ Receipts(m)' = Receipts(m) + 1
          /\ \A s \in Records : s # m => Receipts(s)' = Receipts(s)
      BY ONLY <1>0, <3>1, ReceivedAgain
    <3> HIDE DEF Receipts
    <3> QED BY <3>2
  <2>5. JobSet(n, w, None) \/ UNCHANGED job BY <1>0, <2>1, JobEnds
  <2>6. PreTypes' BY <1>0, <2>1, <2>4, <2>5 DEF PreTypes, JobSet
  <2>7. Branches'
    <3>1. CASE JobSet(n, w, None) BY <3>1, BranchesByJob DEF RedundantInv
    <3>2. CASE UNCHANGED job BY <3>2 DEF RedundantInv, Branches
    <3> QED BY <2>5, <3>1, <3>2
  <2>8. ASSUME NEW s \in Successful, OnItsWay(s) PROVE OnItsWay(s)'
    <3>1. CASE s = m BY <2>4, <3>1 DEF OnItsWay
    <3>2. CASE s # m
      <4>1. Receipts(s)' = Receipts(s) /\ ~Handles(n, w, s)
        BY <2>2, <2>4, <3>2 DEF Handles, Successful
      <4>2. CASE JobSet(n, w, None) BY <2>1, <2>8, <4>1, <4>2, WayByJob
      <4>3. CASE UNCHANGED job BY <2>1, <2>8, <4>1, <4>3 DEF OnItsWay, Handles
      <4> QED BY <2>5, <4>2, <4>3
    <3> QED BY <3>1, <3>2
  <2> QED BY <2>1, <2>6, <2>7, <2>8, WayKept
<1>7. ASSUME NEW key \in Keys, Expire(key) PROVE RedundantInv'
  <2>1. /\ keys' = [keys EXCEPT ![key] = "absent"]
        /\ UNCHANGED <<queue, line, job, received, redundant, diedAtWork>>
    BY <1>7 DEF Expire, stages, ends
  <2>2. PreTypes' BY <1>0, <2>1 DEF PreTypes
  <2>3. \A x \in Keys : keys'[x] # "absent" => keys[x] # "absent"
    BY <1>0, <2>1 DEF PreTypes
  <2> QED BY <1>f, <2>1, <2>2, <2>3
<1>8. ASSUME NEW n \in Nodes, NEW k \in Kinds, NEW m \in Records, Fill(n, k, m)
      PROVE  RedundantInv'
  <2>1. /\ queue' = [queue EXCEPT ![n][k] = Append(queue[n][k], m)]
        /\ UNCHANGED <<line, keys, job, received, redundant, diedAtWork>>
    BY <1>8 DEF Fill, stages, redis, ends
  <2>2. Append(queue[n][k], m) \in Seq(Records)
    <3>1. queue[n][k] \in Seq(Records) BY <1>0 DEF PreTypes
    <3> QED BY <3>1
  <2>3. queue' \in [Nodes -> [Kinds -> Seq(Records)]]
    BY <1>0, <2>1, <2>2 DEF PreTypes
  <2>4. PreTypes' BY <1>0, <2>1, <2>3 DEF PreTypes
  <2> QED BY <1>f, <2>1, <2>4
<1>9. ASSUME \/ \E n \in up \cap Cut : Disconnect(n)
             \/ \E q \in Restless : SlaveChanges(q)
             \/ UNCHANGED vars
      PROVE  RedundantInv'
  <2>1. UNCHANGED <<queue, line, job, keys, received, redundant, diedAtWork>>
    BY <1>9 DEF Disconnect, SlaveChanges, vars, stages, redis, ends
  <2>2. PreTypes' BY <1>0, <2>1 DEF PreTypes
  <2> QED BY <1>f, <2>1, <2>2
<1>10. ASSUME NEW n \in Nodes, Die(n) PROVE RedundantInv'
  <2>1. PreTypes' BY <1>0, <1>10, DieTypes
  <2>2. /\ diedAtWork' = diedAtWork \cup {m \in Records : InPool(n, m)}
        /\ UNCHANGED <<keys, received, redundant>>
    BY <1>10 DEF Die, redis, ends
  <2>3. \A x \in Nodes, y \in Workers : job'[x][y] = IF x = n THEN None ELSE job[x][y]
    BY <1>0, <1>10, DieTypes
  <2>4. Branches' BY <2>3 DEF RedundantInv, Branches
  <2>5. ASSUME NEW s \in Successful, OnItsWay(s) PROVE OnItsWay(s)'
    <3>1. s \in Records BY DEF Successful
    <3>2. CASE Receipts(s) > 0 \/ s \in diedAtWork
      <4>1. Receipts(s)' = Receipts(s) BY <2>2 DEF Receipts
      <4> QED BY <2>2, <3>2, <4>1 DEF OnItsWay
    <3>3. ASSUME NEW x \in Nodes, NEW y \in Workers, Handles(x, y, s) PROVE OnItsWay(s)'
      <4>1. CASE x = n
        <5>1. InPool(n, s) BY <3>3, <4>1 DEF InPool, Handles
        <5> QED BY <2>2, <3>1, <5>1 DEF OnItsWay
      <4>2. CASE x # n
        <5>1. Handles(x, y, s)' BY <2>3, <3>3, <4>2 DEF Handles
        <5> QED BY <5>1 DEF OnItsWay
      <4> QED BY <4>1, <4>2
    <3> QED BY <2>5, <3>2, <3>3 DEF OnItsWay
  <2> QED BY <2>1, <2>2, <2>4, <2>5, WayKept
<1> QED
  BY <1>1, <1>2, <1>3, <1>4, <1>5, <1>6, <1>7, <1>8, <1>9, <1>10
     DEF OpenNext, NodeStep, PreProcess

\* A record comes into a node's pool only from one of that node's queues.
LEMMA PoolFilled ==
  ASSUME PreTypes, NEW n \in Nodes, NodeStep(n), NEW x \in Nodes, NEW m \in Records,
         InPool(x, m)'
  PROVE  InPool(x, m) \/ (x = n /\ \E k \in Kinds : m \in Range(queue[n][k]))
<1> DEFINE Filled == InPool(x, m) \/ (x = n /\ \E k \in Kinds : m \in Range(queue[n][k]))
<1>0. /\ line \in [Nodes -> Seq(Records)] /\ queue \in [Nodes -> [Kinds -> Seq(Records)]]
      /\ job \in [Nodes -> [Workers -> Job \cup {None}]]
  BY DEF PreTypes
<1>1. ASSUME UNCHANGED <<line, job>> PROVE Filled BY <1>1 DEF InPool
<1>2. ASSUME NEW k \in Kinds, queue[n][k] # <<>>, Pop(n, k), UNCHANGED job PROVE Filled
  <2>1. line' = [line EXCEPT ![n] = Append(line[n], Head(queue[n][k]))] BY <1>2 DEF Pop
  <2>2. queue[n][k] \in Seq(Records) /\ line[n] \in Seq(Records) BY <1>0
  <2>3. Head(queue[n][k]) \in Range(queue[n][k])
    <3>1. 1 \in DOMAIN queue[n][k] /\ Head(queue[n][k]) = queue[n][k][1] BY <1>2, <2>2
    <3> QED BY <3>1 DEF Range
  <2>4. CASE m \in Range(line'[x])
    <3>1. CASE x = n
      <4>1. Range(Append(line[n], Head(queue[n][k]))) =
              Range(line[n]) \cup {Head(queue[n][k])}
        <5>1. PICK s \in Seq(Records), h \in Records : s = line[n] /\ h = Head(queue[n][k])
          BY <1>2, <2>2
        <5>2. Range(Append(s, h)) = Range(s) \cup {h} BY ONLY <5>1, RangeOfAppend
        <5> QED BY ONLY <5>1, <5>2
      <4>2. line'[n] = Append(line[n], Head(queue[n][k])) BY <1>0, <2>1
      <4>3. m \in Range(line[n]) \/ m = Head(queue[n][k]) BY ONLY <2>4, <3>1, <4>1, <4>2
      <4> QED BY <2>3, <3>1, <4>3 DEF InPool
    <3>2. CASE x # n
      <4>1. line'[x] = line[x] BY <1>0, <2>1, <3>2
      <4> QED BY <2>4, <4>1 DEF InPool
    <3> QED BY <3>1, <3>2
  <2>5. CASE \E w \in Workers : job'[x][w] # None /\ job'[x][w].body = m
    BY <1>2, <2>5 DEF InPool
  <2> QED BY <2>4, <2>5 DEF InPool
<1>3. ASSUME NEW w \in Workers, NEW value, UNCHANGED line, JobSet(n, w, value),
             value # None => job[n][w] # None /\ value.body = job[n][w].body
      PROVE  Filled
  <2>1. \A y \in Workers : job'[x][y] # None =>
          job[x][y] # None /\ job'[x][y].body = job[x][y].body
    BY <1>3 DEF JobSet
  <2> QED BY <1>3, <2>1 DEF InPool
<1>4. ASSUME NEW w \in Workers, job[n][w] # None, UNCHANGED line, NEW at \in Steps, GoOn(n, w, at)
      PROVE  Filled
  <2>1. JobSet(n, w, [body |-> job[n][w].body, at |-> at]) BY <1>4, JobGoesOn
  <2>2. [body |-> job[n][w].body, at |-> at].body = job[n][w].body OBVIOUS
  <2> QED BY <1>3, <1>4, <2>1, <2>2
<1>5. ASSUME NEW w \in Workers, UNCHANGED line, EndJob(n, w) PROVE Filled
  <2>1. JobSet(n, w, None) BY <1>5, JobEnds
  <2> QED BY <1>3, <1>5, <2>1
<1>6. ASSUME NEW w \in Workers, BeginJob(n, w) PROVE Filled
  <2>1. line[n] # <<>> /\ line' = [line EXCEPT ![n] = Tail(line[n])] BY <1>6 DEF BeginJob
  <2>2. line[n] \in Seq(Records) BY <1>0
  <2>3. /\ Range(line'[x]) \subseteq Range(line[x])
        /\ Head(line[n]) \in Range(line[n]) /\ Head(line[n]) \in Records
    <3>1. line'[n] = Tail(line[n]) /\ (x # n => line'[x] = line[x]) BY <1>0, <2>1
    <3>2. PICK s \in Seq(Records) : s = line[n] /\ s # <<>> BY <2>1, <2>2
    <3>3. Range(Tail(s)) \subseteq Range(s) /\ Head(s) \in Range(s) /\ Head(s) \in Records
      <4>1. \A i \in DOMAIN Tail(s) : i + 1 \in DOMAIN s /\ Tail(s)[i] = s[i + 1] BY ONLY <3>2
      <4>2. 1 \in DOMAIN s /\ Head(s) = s[1] /\ s[1] \in Records BY ONLY <3>2
      <4> QED BY ONLY <4>1, <4>2 DEF Range
    <3> QED BY ONLY <3>1, <3>2, <3>3
  <2>4. CASE UNCHANGED job BY <2>3, <2>4 DEF InPool
  <2>5. CASE job' # job
    <3>1. PICK r \in Records : r = Head(line[n]) BY <2>3
    <3>2. job' = [job EXCEPT ![n][w] = [body |-> r, at |-> FirstStep(r)]]
      BY <1>6, <2>5, <3>1 DEF BeginJob
    <3>3. FirstStep(r) \in Steps BY DEF FirstStep, Steps
    <3>4. JobSet(n, w, [body |-> r, at |-> FirstStep(r)]) BY <3>2, <3>3, JobBegins
    <3>5. [body |-> r, at |-> FirstStep(r)].body = r OBVIOUS
    <3>6. ASSUME NEW y \in Workers, job'[x][y] # None, job'[x][y].body = m PROVE Filled
      <4>1. CASE x = n /\ y = w
        <5>1. m = r BY <3>4, <3>5, <3>6, <4>1 DEF JobSet
        <5> QED BY <2>3, <3>1, <4>1, <5>1 DEF InPool
      <4>2. CASE ~(x = n /\ y = w)
        <5>1. job'[x][y] = job[x][y] BY <3>4, <4>2 DEF JobSet
        <5> QED BY <3>6, <5>1 DEF InPool
      <4> QED BY <4>1, <4>2
    <3> QED BY <2>3, <3>6 DEF InPool
  <2> QED BY <2>4, <2>5
<1>7. ASSUME NEW w \in Workers, PreProcess(n, w) PROVE Filled
  <2>1. /\ job[n][w] # None /\ UNCHANGED line
        /\ UNCHANGED job \/ EndJob(n, w) \/ \E at \in Steps : GoOn(n, w, at)
    BY <1>7 DEF PreProcess, AskQid, AskQuery, Ask, SetQid, SetQuery, Put, AtStep, Transmit,
       TransmitReplyLost, stages, atNode, Steps
  <2> QED BY <1>1, <1>4, <1>5, <2>1
<1>8. ASSUME Agent(n) \/ AgentNewTest(n) \/ AgentNewPop(n) PROVE Filled
  <2>1. UNCHANGED job BY <1>8 DEF Agent, AgentNewTest, AgentNewPop
  <2>2. UNCHANGED line \/ \E k \in Kinds : queue[n][k] # <<>> /\ Pop(n, k)
    BY <1>8 DEF Agent, AgentNewTest, AgentNewPop, Kinds
  <2> QED BY <1>1, <1>2, <2>1, <2>2
<1> QED BY <1>6, <1>7, <1>8 DEF NodeStep

-------------------------------------------------------------------------------
\* A log in somebody's hands is counted among those at work.
LEMMA HandledIsAtWork ==
  ASSUME NEW n \in Nodes, NEW w \in Workers, NEW m \in Records, Handles(n, w, m)
  PROVE  AtWork(m) > 0
<1> DEFINE places == {place \in Nodes \X Workers :
              LET held == job[place[1]][place[2]] IN held # None /\ held.body = m}
<1>1. IsFiniteSet(Nodes \X Workers) BY PreprocessAssumption, FS_Product
<1>2. IsFiniteSet(places) BY <1>1, FS_Subset
<1>3. <<n, w>> \in places BY DEF Handles
<1>4. Cardinality(places) \in Nat BY <1>2, FS_CardinalityType
<1>5. places # {} BY <1>3
<1>6. Cardinality(places) # 0 BY <1>2, <1>5, FS_EmptySet
<1>7. Cardinality(places) > 0 BY <1>4, <1>6
<1> QED BY <1>7 DEF AtWork

\* However redis, its connections, expiry and the workers interleave, a failed log is
\* taken for redundant only when a log of the same request or query that recalled
\* something has reached its slave, or is on its way there, or died at work with its
\* node: for any nodes and records, whichever nodes die.
THEOREM RedundantHasReason ==
  /\ OpenSpec => []RedundantHasSuccess
  /\ Spec => []RedundantHasSuccess
<1>1. RedundantInv => RedundantHasSuccess
  <2> SUFFICES ASSUME RedundantInv, NEW m \in Records, redundant[m] > 0
               PROVE  /\ m \in Failed
                      /\ \E s \in Related(m) : \/ Receipts(s) > 0 \/ AtWork(s) > 0
                                               \/ s \in diedAtWork
    BY DEF RedundantHasSuccess
  <2>1. PICK s \in Related(m) : m \in Failed /\ OnItsWay(s)
    BY DEF RedundantInv, RedundantHasSetter
  <2>2. s \in Records BY DEF Related
  <2> QED BY <2>1, <2>2, HandledIsAtWork DEF OnItsWay
<1>2. OpenSpec => []RedundantHasSuccess
  BY <1>1, RedundantInit, RedundantStep, PTL DEF OpenSpec
<1> QED BY <1>2, SpecIsOpen, PTL

-------------------------------------------------------------------------------
(* Where a record is that has been popped from a queue. *)

CountTypes ==
  /\ taken \in [Records -> Nat] /\ ignored \in [Records -> Nat] /\ lostReceipts \in Nat

Elsewhere(m) == InLine(m) + AtWork(m) + ignored[m] + redundant[m] + Receipts(m)

\* A record is somewhere as often as it was popped, or died with its node, and more
\* often only by a lost reply.
Kept(m) ==
  /\ m \notin diedAtWork => taken[m] <= Elsewhere(m)
  /\ Elsewhere(m) <= taken[m] + lostReceipts
  /\ Elsewhere(m) > 0 \/ m \in diedAtWork => taken[m] > 0

KeptInv == CountTypes /\ \A m \in Records : Kept(m)

\* What is added up is a number.
LEMMA CountsAreNat ==
  ASSUME PreTypes, CountTypes, NEW m \in Records
  PROVE  /\ taken[m] \in Nat /\ InLine(m) \in Nat /\ AtWork(m) \in Nat /\ ignored[m] \in Nat
         /\ redundant[m] \in Nat /\ Receipts(m) \in Nat /\ Elsewhere(m) \in Nat
<1>1. InLine(m) \in Nat BY PreprocessAssumption, TimesType DEF PreTypes, InLine
<1>2. AtWork(m) \in Nat
  <2>1. IsFiniteSet(Nodes \X Workers) BY PreprocessAssumption, FS_Product
  <2>2. IsFiniteSet({place \in Nodes \X Workers :
            LET held == job[place[1]][place[2]] IN held # None /\ held.body = m})
    BY <2>1, FS_Subset
  <2> QED BY <2>2, FS_CardinalityType DEF AtWork
<1>3. taken[m] \in Nat /\ ignored[m] \in Nat /\ redundant[m] \in Nat
  BY DEF PreTypes, CountTypes
<1>4. Receipts(m) \in Nat
  <2>1. received[m] \in [Kinds -> Nat] /\ "old" \in Kinds /\ "new" \in Kinds
    BY DEF PreTypes, Kinds
  <2>2. received[m]["old"] \in Nat /\ received[m]["new"] \in Nat BY ONLY <2>1
  <2> QED BY <2>2 DEF Receipts
<1> HIDE DEF InLine, AtWork
<1> QED BY <1>1, <1>2, <1>3, <1>4 DEF Elsewhere

\* What setting one worker's job does to how many workers have a record.
LEMMA AtWorkSet ==
  ASSUME NEW n \in Nodes, NEW w \in Workers, NEW value, JobSet(n, w, value), NEW m \in Records
  PROVE  LET before == Handles(n, w, m)
             after  == value # None /\ value.body = m
         IN /\ AtWork(m) \in Nat /\ AtWork(m)' \in Nat
            /\ before /\ ~after => AtWork(m) = AtWork(m)' + 1
            /\ ~before /\ after => AtWork(m)' = AtWork(m) + 1
            /\ (before <=> after) => AtWork(m) = AtWork(m)'
<1> DEFINE I == Nodes \X Workers
           A == {place \in I : LET held == job[place[1]][place[2]]
                               IN  held # None /\ held.body = m}
           B == {place \in I : LET held == job'[place[1]][place[2]]
                               IN  held # None /\ held.body = m}
<1>1. IsFiniteSet(I) BY PreprocessAssumption, FS_Product
<1>2. AtWork(m) = Cardinality(A) /\ AtWork(m)' = Cardinality(B) BY DEF AtWork
<1>3. <<n, w>> \in I /\ A \in SUBSET I /\ B \in SUBSET I OBVIOUS
<1>4. <<n, w>> \in A <=> Handles(n, w, m) BY DEF Handles
<1>5. <<n, w>> \in B <=> value # None /\ value.body = m BY DEF JobSet
<1>6. ASSUME NEW y \in I, y # <<n, w>> PROVE y \in A <=> y \in B
  <2>1. y[1] \in Nodes /\ y[2] \in Workers /\ ~(y[1] = n /\ y[2] = w) BY <1>6
  <2>2. job'[y[1]][y[2]] = job[y[1]][y[2]] BY <2>1 DEF JobSet
  <2> QED BY <2>2
<1> HIDE DEF I, A, B
<1> QED BY <1>1, <1>2, <1>3, <1>4, <1>5, <1>6, OnePlaceChanges

\* A record of which nothing changes is still kept.
LEMMA KeptAlone ==
  ASSUME PreTypes, CountTypes, NEW m \in Records, Kept(m),
         taken'[m] = taken[m], Elsewhere(m)' = Elsewhere(m), UNCHANGED diedAtWork,
         lostReceipts' \in Nat, lostReceipts <= lostReceipts'
  PROVE  Kept(m)'
<1>1. taken[m] \in Nat /\ Elsewhere(m) \in Nat /\ lostReceipts \in Nat
  BY CountsAreNat DEF CountTypes
<1> HIDE DEF Elsewhere
<1> QED BY <1>1 DEF Kept

\* A record that is popped is kept.
LEMMA KeptPopped ==
  ASSUME PreTypes, CountTypes, NEW m \in Records, Kept(m), UNCHANGED <<lostReceipts, diedAtWork>>,
         taken'[m] = taken[m] + 1, Elsewhere(m)' = Elsewhere(m) + 1
  PROVE  Kept(m)'
<1>1. taken[m] \in Nat /\ Elsewhere(m) \in Nat /\ lostReceipts \in Nat
  BY CountsAreNat DEF CountTypes
<1> HIDE DEF Elsewhere
<1> QED BY <1>1 DEF Kept

\* A record whose slave received it once more, because a reply was lost, is kept.
LEMMA KeptTwice ==
  ASSUME PreTypes, CountTypes, NEW m \in Records, Kept(m), AtWork(m) > 0,
         lostReceipts' = lostReceipts + 1, UNCHANGED diedAtWork,
         taken'[m] = taken[m], Elsewhere(m)' = Elsewhere(m) + 1
  PROVE  Kept(m)'
<1>1. /\ taken[m] \in Nat /\ Elsewhere(m) \in Nat /\ lostReceipts \in Nat
      /\ Elsewhere(m) > 0
  <2>1. /\ taken[m] \in Nat /\ InLine(m) \in Nat /\ AtWork(m) \in Nat /\ ignored[m] \in Nat
        /\ redundant[m] \in Nat /\ Receipts(m) \in Nat /\ Elsewhere(m) \in Nat
    BY CountsAreNat
  <2> HIDE DEF InLine, AtWork, Receipts
  <2> QED BY <2>1 DEF Elsewhere, CountTypes
<1> HIDE DEF Elsewhere
<1> QED BY <1>1 DEF Kept

\* A count that is raised by one at one record.
LEMMA RaisedAt ==
  ASSUME NEW f \in [Records -> Nat], NEW x \in Records, NEW g, g = [f EXCEPT ![x] = f[x] + 1]
  PROVE  /\ g \in [Records -> Nat]
         /\ \A m \in Records : g[m] = IF m = x THEN f[m] + 1 ELSE f[m]
<1>1. f[x] + 1 \in Nat OBVIOUS
<1> QED BY <1>1

\* An agent moves the first record of a queue to the end of the line.
LEMMA KeptByPop ==
  ASSUME PreTypes, KeptInv, NEW n \in Nodes, NEW k \in Kinds, queue[n][k] # <<>>, Pop(n, k),
         UNCHANGED <<job, ends, diedAtWork>>
  PROVE  KeptInv'
<1>1. PICK x \in Records : x = Head(queue[n][k])
  <2>1. queue[n][k] \in Seq(Records) BY DEF PreTypes
  <2>2. Head(queue[n][k]) \in Records BY <2>1
  <2> QED BY <2>2
<1>2. /\ taken' = [taken EXCEPT ![x] = taken[x] + 1]
      /\ line' = [line EXCEPT ![n] = Append(line[n], x)]
  BY <1>1 DEF Pop
<1>3. CountTypes BY DEF KeptInv
<1>4. /\ taken' \in [Records -> Nat]
      /\ \A m \in Records : taken'[m] = IF m = x THEN taken[m] + 1 ELSE taken[m]
  BY <1>2, <1>3, RaisedAt DEF CountTypes
<1>5. CountTypes' BY <1>3, <1>4 DEF CountTypes, ends
<1>6. ASSUME NEW m \in Records PROVE Kept(m)'
  <2>1. InLine(m)' = IF m = x THEN InLine(m) + 1 ELSE InLine(m)
    <3>1. AreLines(line, Nodes, Records) /\ IsFiniteSet(Nodes)
      BY PreprocessAssumption DEF PreTypes, AreLines
    <3>j. Joins(line, line', n, x) BY <1>2 DEF Joins
    <3>2. Times(line', m) = IF m = x THEN Times(line, m) + 1 ELSE Times(line, m)
      BY ONLY <3>1, <3>j, TimesJoin
    <3> QED BY <3>2 DEF InLine
  <2>2. /\ AtWork(m)' = AtWork(m) /\ ignored'[m] = ignored[m] /\ redundant'[m] = redundant[m]
        /\ Receipts(m)' = Receipts(m)
    BY DEF AtWork, Receipts, ends
  <2>3. /\ InLine(m) \in Nat /\ AtWork(m) \in Nat /\ ignored[m] \in Nat
        /\ redundant[m] \in Nat /\ Receipts(m) \in Nat
    BY <1>3, CountsAreNat
  <2>4. Elsewhere(m)' = IF m = x THEN Elsewhere(m) + 1 ELSE Elsewhere(m)
    <3> HIDE DEF InLine, AtWork, Receipts
    <3> QED BY <2>1, <2>2, <2>3 DEF Elsewhere
  <2>5. Kept(m) /\ lostReceipts \in Nat /\ UNCHANGED lostReceipts
    BY <1>3 DEF KeptInv, CountTypes, ends
  <2>6. CASE m = x BY <1>3, <1>4, <2>4, <2>5, <2>6, KeptPopped
  <2>7. CASE m # x BY <1>3, <1>4, <2>4, <2>5, <2>7, KeptAlone
  <2> QED BY <2>6, <2>7
<1> QED BY <1>5, <1>6 DEF KeptInv

\* A worker takes the first record of the line, or ignores it.
LEMMA KeptByBegin ==
  ASSUME PreTypes, KeptInv, NEW n \in Nodes, NEW w \in Workers, BeginJob(n, w)
  PROVE  KeptInv'
<1>0. /\ line[n] # <<>> /\ job[n][w] = None /\ line' = [line EXCEPT ![n] = Tail(line[n])]
      /\ UNCHANGED <<taken, received, redundant, lostReceipts, diedAtWork>>
  BY DEF BeginJob
<1>1. PICK x \in Records : x = Head(line[n])
  <2>1. line[n] \in Seq(Records) BY DEF PreTypes
  <2>2. Head(line[n]) \in Records BY <1>0, <2>1
  <2> QED BY <2>2
<1>2. \/ job' = [job EXCEPT ![n][w] = [body |-> x, at |-> FirstStep(x)]] /\ UNCHANGED ignored
      \/ ignored' = [ignored EXCEPT ![x] = ignored[x] + 1] /\ UNCHANGED job
  BY <1>1 DEF BeginJob
<1>3. CountTypes BY DEF KeptInv
<1>4. \A m \in Records :
        /\ AtWork(m) \in Nat /\ AtWork(m)' \in Nat /\ ignored[m] \in Nat /\ ignored'[m] \in Nat
        /\ AtWork(m)' + ignored'[m] =
             IF m = x THEN AtWork(m) + ignored[m] + 1 ELSE AtWork(m) + ignored[m]
  <2> TAKE m \in Records
  <2>1. CASE job' = [job EXCEPT ![n][w] = [body |-> x, at |-> FirstStep(x)]] /\ UNCHANGED ignored
    <3>1. FirstStep(x) \in Steps BY DEF FirstStep, Steps
    <3>2. PICK j \in Job : j = [body |-> x, at |-> FirstStep(x)] /\ JobSet(n, w, j)
      BY <2>1, <3>1, JobBegins
    <3>3. j # None /\ j.body = x BY <3>2, PreprocessAssumption
    <3>4. ~Handles(n, w, m) BY <1>0 DEF Handles
    <3>5. /\ AtWork(m) \in Nat /\ AtWork(m)' \in Nat
          /\ m = x => AtWork(m)' = AtWork(m) + 1
          /\ m # x => AtWork(m)' = AtWork(m)
      BY <3>2, <3>3, <3>4, AtWorkSet
    <3>6. ignored[m] \in Nat /\ ignored'[m] = ignored[m] BY <1>3, <2>1 DEF CountTypes
    <3> HIDE DEF AtWork
    <3> QED BY <3>5, <3>6
  <2>2. CASE ignored' = [ignored EXCEPT ![x] = ignored[x] + 1] /\ UNCHANGED job
    <3>1. AtWork(m)' = AtWork(m) BY <2>2 DEF AtWork
    <3>2. AtWork(m) \in Nat /\ ignored[m] \in Nat BY <1>3, CountsAreNat
    <3>3. ignored' \in [Records -> Nat]
          /\ ignored'[m] = IF m = x THEN ignored[m] + 1 ELSE ignored[m]
      BY <1>3, <2>2, RaisedAt DEF CountTypes
    <3> HIDE DEF AtWork
    <3> QED BY <3>1, <3>2, <3>3
  <2> QED BY <1>2, <2>1, <2>2
<1>5. CountTypes'
  <2>1. ignored' \in [Records -> Nat]
    <3>1. CASE UNCHANGED ignored BY <1>3, <3>1 DEF CountTypes
    <3>2. CASE ignored' = [ignored EXCEPT ![x] = ignored[x] + 1]
      BY <1>3, <3>2, RaisedAt DEF CountTypes
    <3> QED BY <1>2, <3>1, <3>2
  <2> QED BY <1>0, <1>3, <2>1 DEF CountTypes
<1>6. ASSUME NEW m \in Records PROVE Kept(m)'
  <2>1. InLine(m) = IF m = x THEN InLine(m)' + 1 ELSE InLine(m)'
    <3>1. AreLines(line, Nodes, Records) /\ IsFiniteSet(Nodes)
      BY PreprocessAssumption DEF PreTypes, AreLines
    <3>l. Leaves(line, line', n) BY <1>0 DEF Leaves
    <3>2. Times(line, m) = IF m = Head(line[n]) THEN Times(line', m) + 1 ELSE Times(line', m)
      BY ONLY <3>1, <3>l, TimesLeave
    <3> QED BY <1>1, <3>2 DEF InLine
  <2>2. redundant'[m] = redundant[m] /\ Receipts(m)' = Receipts(m) BY <1>0 DEF Receipts
  <2>3. InLine(m) \in Nat /\ redundant[m] \in Nat /\ Receipts(m) \in Nat
    BY <1>3, CountsAreNat
  <2>4. InLine(m)' \in Nat
    <3>1. line' \in [Nodes -> Seq(Records)]
      BY <1>0, PreprocessAssumption, TimesLeave DEF PreTypes
    <3> QED BY <3>1, PreprocessAssumption, TimesType DEF InLine
  <2>5. Elsewhere(m)' = Elsewhere(m)
    <3> HIDE DEF InLine, AtWork, Receipts
    <3> QED BY <1>4, <2>1, <2>2, <2>3, <2>4 DEF Elsewhere
  <2> QED BY <1>0, <1>3, <2>5, KeptAlone DEF KeptInv, CountTypes
<1> QED BY <1>5, <1>6 DEF KeptInv

\* Whoever ends a job has one record less at work.
LEMMA AtWorkLess ==
  ASSUME PreTypes, NEW n \in Nodes, NEW w \in Workers, NEW m \in Records, Handles(n, w, m),
         EndJob(n, w), NEW x \in Records
  PROVE  /\ AtWork(x) \in Nat /\ AtWork(x)' \in Nat
         /\ AtWork(x) = IF x = m THEN AtWork(x)' + 1 ELSE AtWork(x)'
<1>1. JobSet(n, w, None) BY JobEnds
<1>2. Handles(n, w, x) <=> x = m BY DEF Handles
<1>3. /\ AtWork(x) \in Nat /\ AtWork(x)' \in Nat
      /\ Handles(n, w, x) => AtWork(x) = AtWork(x)' + 1
      /\ ~Handles(n, w, x) => AtWork(x)' = AtWork(x)
  BY <1>1, AtWorkSet
<1> HIDE DEF AtWork
<1> QED BY <1>2, <1>3

\* Whoever goes on has the same record at work.
LEMMA AtWorkSame ==
  ASSUME PreTypes, NEW n \in Nodes, NEW w \in Workers, job[n][w] # None, NEW at \in Steps,
         GoOn(n, w, at), NEW x \in Records
  PROVE  AtWork(x)' = AtWork(x)
<1>1. PICK m \in Records : m = job[n][w].body BY JobGoesOn
<1>2. PICK j \in Job : j = [body |-> m, at |-> at] /\ JobSet(n, w, j) BY <1>1, JobGoesOn
<1>3. Handles(n, w, x) <=> x = m BY <1>1 DEF Handles
<1>4. j # None /\ (j.body = x <=> x = m) BY <1>2, PreprocessAssumption
<1>5. AtWork(x) \in Nat /\ AtWork(x)' \in Nat
      /\ ((Handles(n, w, x) <=> j # None /\ j.body = x) => AtWork(x) = AtWork(x)')
  BY <1>2, AtWorkSet
<1> QED BY <1>3, <1>4, <1>5

\* A step that only goes on, or touches no record, keeps every record.
LEMMA KeptByOthers ==
  ASSUME PreTypes, KeptInv, UNCHANGED <<taken, line, ends, diedAtWork>>,
         \A m \in Records : AtWork(m)' = AtWork(m)
  PROVE  KeptInv'
<1>1. CountTypes /\ CountTypes' BY DEF KeptInv, CountTypes, ends
<1>2. ASSUME NEW m \in Records PROVE Kept(m)'
  <2>1. InLine(m)' = InLine(m) /\ Receipts(m)' = Receipts(m) /\ redundant'[m] = redundant[m]
        /\ ignored'[m] = ignored[m]
    BY DEF InLine, Receipts, ends
  <2>2. AtWork(m)' = AtWork(m) OBVIOUS
  <2>3. Elsewhere(m)' = Elsewhere(m)
    <3> HIDE DEF InLine, AtWork, Receipts
    <3> QED BY <2>1, <2>2 DEF Elsewhere
  <2>4. lostReceipts \in Nat /\ lostReceipts' = lostReceipts /\ taken' = taken
    BY <1>1 DEF CountTypes, ends
  <2> QED BY <1>1, <2>3, <2>4, KeptAlone DEF KeptInv
<1> QED BY <1>1, <1>2 DEF KeptInv

\* A worker finds its record redundant, or goes on.
LEMMA KeptByAsk ==
  ASSUME PreTypes, KeptInv, NEW n \in Nodes, NEW w \in Workers, NEW at, NEW key,
         NEW next \in Steps, Ask(n, w, at, key, next)
  PROVE  KeptInv'
<1>1. job[n][w] # None /\ UNCHANGED <<taken, line, received, ignored, lostReceipts, diedAtWork>>
  BY DEF Ask, AtStep, atNode
<1>2. PICK m \in Records : m = job[n][w].body
  <2>1. job[n][w] \in Job BY <1>1 DEF PreTypes
  <2> QED BY <2>1 DEF Job
<1>3. Handles(n, w, m) BY <1>1, <1>2 DEF Handles
<1>4. CountTypes BY DEF KeptInv
<1>5. CASE GoOn(n, w, next) /\ UNCHANGED redundant
  <2>1. \A x \in Records : AtWork(x)' = AtWork(x) BY <1>1, <1>5, AtWorkSame
  <2> QED BY <1>1, <1>5, <2>1, KeptByOthers DEF ends
<1>6. CASE EndJob(n, w) /\ redundant' = [redundant EXCEPT ![m] = redundant[m] + 1]
  <2>1. redundant \in [Records -> Nat] BY DEF PreTypes
  <2>2. \A x \in Records : redundant'[x] = IF x = m THEN redundant[x] + 1 ELSE redundant[x]
    BY <1>6, <2>1, RaisedAt
  <2>3. CountTypes' BY <1>1, <1>4 DEF CountTypes
  <2>4. ASSUME NEW x \in Records PROVE Kept(x)'
    <3>1. /\ AtWork(x) \in Nat /\ AtWork(x)' \in Nat
          /\ AtWork(x) = IF x = m THEN AtWork(x)' + 1 ELSE AtWork(x)'
      BY <1>3, <1>6, AtWorkLess
    <3>2. /\ InLine(x)' = InLine(x) /\ Receipts(x)' = Receipts(x)
          /\ ignored'[x] = ignored[x] /\ taken'[x] = taken[x]
      BY <1>1 DEF InLine, Receipts
    <3>3. redundant[x] \in Nat /\ redundant'[x] = IF x = m THEN redundant[x] + 1 ELSE redundant[x]
      BY <2>1, <2>2
    <3>4. InLine(x) \in Nat /\ ignored[x] \in Nat /\ Receipts(x) \in Nat
      BY <1>4, CountsAreNat
    <3>5. Elsewhere(x)' = Elsewhere(x)
      <4> HIDE DEF InLine, AtWork, Receipts
      <4> QED BY <3>1, <3>2, <3>3, <3>4 DEF Elsewhere
    <3>6. Kept(x) /\ lostReceipts \in Nat /\ lostReceipts' = lostReceipts
      BY <1>1 DEF KeptInv, CountTypes
    <3> QED BY <1>1, <1>4, <3>2, <3>5, <3>6, KeptAlone
  <2> QED BY <2>3, <2>4 DEF KeptInv
<1>7. \/ GoOn(n, w, next) /\ UNCHANGED redundant
      \/ EndJob(n, w) /\ redundant' = [redundant EXCEPT ![m] = redundant[m] + 1]
  BY <1>2 DEF Ask
<1> QED BY <1>5, <1>6, <1>7

\* A slave receives the record a worker has, and the reply arrives or is lost.
LEMMA KeptByTransmit ==
  ASSUME PreTypes, KeptInv, NEW n \in Nodes, NEW w \in Workers,
         Transmit(n, w) \/ TransmitReplyLost(n, w)
  PROVE  KeptInv'
<1>1. job[n][w] # None /\ UNCHANGED <<taken, line, ignored, redundant, diedAtWork>>
  BY DEF Transmit, TransmitReplyLost, AtStep, stages, atNode
<1>2. PICK m \in Records : m = job[n][w].body
  <2>1. job[n][w] \in Job BY <1>1 DEF PreTypes
  <2> QED BY <2>1 DEF Job
<1>3. Handles(n, w, m) BY <1>1, <1>2 DEF Handles
<1>4. CountTypes /\ lostReceipts \in Nat BY DEF KeptInv, CountTypes
<1>5. /\ Receipts(m) \in Nat /\ Receipts(m)' = Receipts(m) + 1
      /\ \A s \in Records : s # m => Receipts(s)' = Receipts(s)
  <2>1. Receive(m) BY <1>2 DEF Transmit, TransmitReplyLost
  <2> QED BY ONLY PreTypes, <2>1, ReceivedAgain
<1>6. \/ EndJob(n, w) /\ lostReceipts' = lostReceipts
      \/ UNCHANGED job /\ lostReceipts' = lostReceipts + 1
  BY DEF Transmit, TransmitReplyLost, stages
<1>7. CountTypes' BY <1>1, <1>4, <1>6 DEF CountTypes
<1>8. ASSUME NEW x \in Records PROVE Kept(x)'
  <2>1. /\ InLine(x) \in Nat /\ ignored[x] \in Nat /\ Receipts(x) \in Nat /\ redundant[x] \in Nat
        /\ AtWork(x) \in Nat
    BY <1>4, CountsAreNat
  <2>2. /\ InLine(x)' = InLine(x) /\ redundant'[x] = redundant[x]
        /\ ignored'[x] = ignored[x] /\ taken'[x] = taken[x]
    BY <1>1 DEF InLine
  <2>3. Receipts(x)' = IF x = m THEN Receipts(x) + 1 ELSE Receipts(x) BY <1>5
  <2>4. Kept(x) BY DEF KeptInv
  <2>5. CASE EndJob(n, w) /\ lostReceipts' = lostReceipts
    <3>1. /\ AtWork(x) \in Nat /\ AtWork(x)' \in Nat
          /\ AtWork(x) = IF x = m THEN AtWork(x)' + 1 ELSE AtWork(x)'
      BY <1>3, <2>5, AtWorkLess
    <3>2. Elsewhere(x)' = Elsewhere(x)
      <4> HIDE DEF InLine, AtWork, Receipts
      <4> QED BY <2>1, <2>2, <2>3, <3>1 DEF Elsewhere
    <3> QED BY <1>1, <1>4, <2>2, <2>4, <2>5, <3>2, KeptAlone
  <2>6. CASE UNCHANGED job /\ lostReceipts' = lostReceipts + 1
    <3>1. AtWork(x)' = AtWork(x) BY <2>6 DEF AtWork
    <3>2. Elsewhere(x)' = IF x = m THEN Elsewhere(x) + 1 ELSE Elsewhere(x)
      <4> HIDE DEF InLine, AtWork, Receipts
      <4>1. x = m => Receipts(x)' = Receipts(x) + 1 BY <2>3
      <4>2. x # m => Receipts(x)' = Receipts(x) BY <2>3
      <4>3. x = m => Elsewhere(x)' = Elsewhere(x) + 1
        <5>1. ASSUME x = m PROVE Elsewhere(x)' = InLine(x) + AtWork(x) + ignored[x]
                                   + redundant[x] + (Receipts(x) + 1)
          BY ONLY <2>2, <3>1, <4>1, <5>1 DEF Elsewhere
        <5>2. InLine(x) + AtWork(x) + ignored[x] + redundant[x] + (Receipts(x) + 1)
                = (InLine(x) + AtWork(x) + ignored[x] + redundant[x] + Receipts(x)) + 1
          BY ONLY <2>1
        <5> QED BY ONLY <5>1, <5>2 DEF Elsewhere
      <4>4. x # m => Elsewhere(x)' = Elsewhere(x)
        BY ONLY <2>1, <2>2, <3>1, <4>2 DEF Elsewhere
      <4> QED BY <4>3, <4>4
    <3>3. x = m => AtWork(x) > 0 BY <1>3, HandledIsAtWork
    <3>4. CASE x = m BY <1>1, <1>4, <2>2, <2>4, <2>6, <3>2, <3>3, <3>4, KeptTwice
    <3>5. CASE x # m
      <4>1. lostReceipts' \in Nat /\ lostReceipts <= lostReceipts' BY <1>4, <2>6
      <4> QED BY <1>1, <1>4, <2>2, <2>4, <3>2, <3>5, <4>1, KeptAlone
    <3> QED BY <3>4, <3>5
  <2> QED BY <1>6, <2>5, <2>6
<1> QED BY <1>7, <1>8 DEF KeptInv

\* What is in a node's pool is counted there.
LEMMA PoolCounts ==
  ASSUME PreTypes, CountTypes, NEW n \in Nodes, NEW m \in Records, InPool(n, m)
  PROVE  InLine(m) + AtWork(m) > 0
<1>1. AreLines(line, Nodes, Records) /\ IsFiniteSet(Nodes)
  BY PreprocessAssumption DEF PreTypes, AreLines
<1>2. InLine(m) \in Nat /\ AtWork(m) \in Nat BY CountsAreNat
<1>3. ASSUME NEW w \in Workers, job[n][w] # None, job[n][w].body = m PROVE AtWork(m) > 0
  <2>1. Handles(n, w, m) BY <1>3 DEF Handles
  <2> QED BY ONLY <2>1, HandledIsAtWork
<1>4. ASSUME m \in Range(line[n]) PROVE InLine(m) > 0
  <2>1. line[n] \in Seq(Records) BY DEF PreTypes
  <2>2. PICK k \in Nat : k \in 1..Len(line[n]) /\ line[n][k] = m
    BY <1>4, <2>1 DEF Range
  <2> QED BY <1>1, <2>2, TimesOf DEF InLine
<1>5. InLine(m) > 0 \/ AtWork(m) > 0 BY <1>3, <1>4 DEF InPool
<1> HIDE DEF InLine, AtWork
<1> QED BY ONLY <1>2, <1>5

\* What a node has in its line and its workers' hands vanishes with it, and nothing else.
LEMMA DeathTakes ==
  ASSUME PreTypes, CountTypes, NEW n \in Nodes, Die(n), NEW m \in Records
  PROVE  /\ InLine(m) \in Nat /\ InLine(m)' \in Nat /\ InLine(m)' <= InLine(m)
         /\ AtWork(m) \in Nat /\ AtWork(m)' \in Nat /\ AtWork(m)' <= AtWork(m)
         /\ ~InPool(n, m) => InLine(m)' = InLine(m) /\ AtWork(m)' = AtWork(m)
         /\ InPool(n, m) => InLine(m) + AtWork(m) > 0
<1>0. /\ line' = [line EXCEPT ![n] = <<>>]
      /\ \A x \in Nodes, y \in Workers : job'[x][y] = IF x = n THEN None ELSE job[x][y]
  BY DieTypes
<1>1. AreLines(line, Nodes, Records) /\ IsFiniteSet(Nodes)
  BY PreprocessAssumption DEF PreTypes, AreLines
<1>2. /\ InLine(m) \in Nat /\ InLine(m)' \in Nat /\ InLine(m)' <= InLine(m)
      /\ NoneIn(line, Nodes \cap {n}, m) => InLine(m)' = InLine(m)
  <2>1. Clears(line, line', {n}) BY <1>0, <1>1 DEF AreLines, Clears
  <2>2. /\ Times(line, m) \in Nat /\ Times(line', m) \in Nat /\ Times(line', m) <= Times(line, m)
        /\ NoneIn(line, Nodes \cap {n}, m) => Times(line', m) = Times(line, m)
    BY ONLY <1>1, <2>1, TimesCleared
  <2> QED BY <2>2 DEF InLine
<1>3. ~InPool(n, m) => NoneIn(line, Nodes \cap {n}, m) BY DEF InPool, NoneIn
<1> DEFINE I == Nodes \X Workers
           A == {place \in I : LET held == job[place[1]][place[2]]
                               IN  held # None /\ held.body = m}
           B == {place \in I : LET held == job'[place[1]][place[2]]
                               IN  held # None /\ held.body = m}
<1>4. IsFiniteSet(I) BY PreprocessAssumption, FS_Product
<1>5. AtWork(m) = Cardinality(A) /\ AtWork(m)' = Cardinality(B) BY DEF AtWork
<1>6. A \in SUBSET I /\ B \in SUBSET A BY <1>0
<1>7. ~InPool(n, m) => A = B BY <1>0 DEF InPool
<1>8. InPool(n, m) => InLine(m) + AtWork(m) > 0 BY PoolCounts
<1> HIDE DEF A, B, I, InLine, AtWork
<1>9. /\ AtWork(m) \in Nat /\ AtWork(m)' \in Nat /\ AtWork(m)' <= AtWork(m)
      /\ ~InPool(n, m) => AtWork(m)' = AtWork(m)
  <2>1. Cardinality(A) \in Nat /\ Cardinality(B) \in Nat /\ Cardinality(B) <= Cardinality(A)
    BY ONLY <1>4, <1>6, FewerPlaces
  <2> QED BY ONLY <1>5, <1>7, <2>1
<1> QED BY ONLY <1>2, <1>3, <1>8, <1>9

\* A node dies: what was at work there counts as dead, and all else is kept.
LEMMA KeptByDeath ==
  ASSUME PreTypes, KeptInv, NEW n \in Nodes, Die(n)
  PROVE  KeptInv'
<1>1. /\ diedAtWork' = diedAtWork \cup {m \in Records : InPool(n, m)}
      /\ UNCHANGED <<taken, received, redundant, ignored, lostReceipts>>
  BY DEF Die, ends
<1>2. CountTypes /\ CountTypes' BY <1>1 DEF KeptInv, CountTypes
<1>3. ASSUME NEW m \in Records PROVE Kept(m)'
  <2>1. /\ InLine(m) \in Nat /\ InLine(m)' \in Nat /\ InLine(m)' <= InLine(m)
        /\ AtWork(m) \in Nat /\ AtWork(m)' \in Nat /\ AtWork(m)' <= AtWork(m)
        /\ ~InPool(n, m) => InLine(m)' = InLine(m) /\ AtWork(m)' = AtWork(m)
        /\ InPool(n, m) => InLine(m) + AtWork(m) > 0
    BY <1>2, DeathTakes
  <2>2. /\ taken[m] \in Nat /\ ignored[m] \in Nat /\ redundant[m] \in Nat
        /\ Receipts(m) \in Nat /\ lostReceipts \in Nat
    BY <1>2, CountsAreNat DEF CountTypes
  <2>3. /\ Receipts(m)' = Receipts(m) /\ ignored'[m] = ignored[m]
        /\ redundant'[m] = redundant[m] /\ taken'[m] = taken[m] /\ lostReceipts' = lostReceipts
    BY <1>1 DEF Receipts
  <2>4. m \in diedAtWork' <=> m \in diedAtWork \/ InPool(n, m) BY <1>1
  <2>5. Kept(m) BY DEF KeptInv
  <2> HIDE DEF InLine, AtWork, Receipts, InPool
  <2>6. /\ Elsewhere(m) \in Nat /\ Elsewhere(m)' \in Nat /\ Elsewhere(m)' <= Elsewhere(m)
        /\ ~InPool(n, m) => Elsewhere(m)' = Elsewhere(m)
        /\ InPool(n, m) => Elsewhere(m) > 0
    BY ONLY <2>1, <2>2, <2>3 DEF Elsewhere
  <2> HIDE DEF Elsewhere
  <2> QED BY ONLY <2>2, <2>3, <2>4, <2>5, <2>6 DEF Kept
<1> QED BY <1>2, <1>3 DEF KeptInv

\* Every step of the agents, workers, redis and slaves, and a death, keeps every record.
LEMMA KeptStep == RedundantInv /\ KeptInv /\ [OpenNext]_vars => KeptInv'
<1> SUFFICES ASSUME RedundantInv, KeptInv, [OpenNext]_vars PROVE KeptInv' OBVIOUS
<1>0. PreTypes BY DEF RedundantInv
\* A step that leaves the lines, the jobs and the counts alone.
<1>f. ASSUME UNCHANGED <<taken, line, job, ends, diedAtWork>> PROVE KeptInv'
  <2>1. \A m \in Records : AtWork(m)' = AtWork(m) BY <1>f DEF AtWork
  <2> QED BY <1>0, <1>f, <2>1, KeptByOthers
<1>1. ASSUME NEW n \in Nodes, Agent(n) \/ AgentNewTest(n) \/ AgentNewPop(n) PROVE KeptInv'
  <2>1. UNCHANGED <<job, ends, diedAtWork>>
    BY <1>1 DEF Agent, AgentNewTest, AgentNewPop, ends
  <2>2. \/ UNCHANGED <<taken, line>>
        \/ \E k \in Kinds : queue[n][k] # <<>> /\ Pop(n, k)
    BY <1>1 DEF Agent, AgentNewTest, AgentNewPop, Kinds
  <2> QED BY <1>0, <1>f, <2>1, <2>2, KeptByPop
<1>2. ASSUME NEW n \in Nodes, NEW w \in Workers, BeginJob(n, w) PROVE KeptInv'
  BY <1>0, <1>2, KeptByBegin
<1>3. ASSUME NEW n \in Nodes, NEW w \in Workers, AskQid(n, w) \/ AskQuery(n, w) PROVE KeptInv'
  <2>1. \E at, key, next : next \in Steps /\ Ask(n, w, at, key, next)
    BY <1>3 DEF AskQid, AskQuery, Steps
  <2> QED BY <1>0, <2>1, KeptByAsk
<1>4. ASSUME NEW n \in Nodes, NEW w \in Workers, SetQuery(n, w) \/ SetQid(n, w) PROVE KeptInv'
  <2>1. /\ job[n][w] # None /\ UNCHANGED <<taken, line, ends, diedAtWork>>
        /\ \E next \in Steps : GoOn(n, w, next)
    BY <1>4 DEF SetQuery, SetQid, Put, AtStep, Steps, atNode
  <2>2. \A m \in Records : AtWork(m)' = AtWork(m) BY <1>0, <2>1, AtWorkSame
  <2> QED BY <1>0, <2>1, <2>2, KeptByOthers
<1>5. ASSUME NEW n \in Nodes, NEW w \in Workers, Transmit(n, w) \/ TransmitReplyLost(n, w)
      PROVE  KeptInv'
  BY <1>0, <1>5, KeptByTransmit
<1>6. ASSUME \/ \E n \in up \cap Cut : Disconnect(n)
             \/ \E key \in Keys : Expire(key)
             \/ \E q \in Restless : SlaveChanges(q)
             \/ \E n \in Nodes, k \in Kinds, m \in Records : Fill(n, k, m)
             \/ UNCHANGED vars
      PROVE  KeptInv'
  BY <1>6, <1>f DEF Disconnect, Expire, SlaveChanges, Fill, vars, stages, redis, ends
<1>7. ASSUME NEW n \in Nodes, Die(n) PROVE KeptInv' BY <1>0, <1>7, KeptByDeath
<1> QED
  BY <1>1, <1>2, <1>3, <1>4, <1>5, <1>6, <1>7 DEF OpenNext, NodeStep, PreProcess

\* At first nothing was popped and nothing is anywhere.
LEMMA KeptInit == Init => KeptInv
<1> SUFFICES ASSUME Init PROVE KeptInv OBVIOUS
<1>1. CountTypes BY DEF Init, CountTypes
<1>2. PreTypes BY RedundantInit DEF RedundantInv
<1>3. ASSUME NEW m \in Records PROVE Kept(m)
  <2>1. AtWork(m) = 0
    <3>1. {place \in Nodes \X Workers :
             LET held == job[place[1]][place[2]] IN held # None /\ held.body = m} = {}
      BY DEF Init
    <3> QED BY <3>1, FS_EmptySet DEF AtWork
  <2>2. InLine(m) = 0
    <3>1. AreLines(line, Nodes, Records) /\ IsFiniteSet(Nodes)
      BY <1>2, PreprocessAssumption DEF PreTypes, AreLines
    <3>2. \A n \in Nodes : line[n] = <<>> BY DEF Init
    <3>3. /\ InLine(m) \in Nat
          /\ InLine(m) > 0 => \E n \in Nodes, k \in Nat : k \in 1..Len(line[n]) /\ line[n][k] = m
      BY ONLY <3>1, TimesOf DEF InLine
    <3>4. \A n \in Nodes : Len(line[n]) = 0 BY <3>2
    <3> HIDE DEF InLine
    <3> QED BY <3>3, <3>4
  <2>3. /\ Receipts(m) = 0 /\ ignored[m] = 0 /\ redundant[m] = 0 /\ taken[m] = 0
        /\ lostReceipts = 0 /\ diedAtWork = {}
    BY DEF Init, Receipts, Kinds
  <2>4. Elsewhere(m) = 0
    <3> HIDE DEF InLine, AtWork, Receipts
    <3> QED BY <2>1, <2>2, <2>3 DEF Elsewhere
  <2> QED BY <2>3, <2>4 DEF Kept
<1> QED BY <1>1, <1>3 DEF KeptInv

\* Both parts of the inductive invariant, with queues that others fill.
LEMMA PreprocessInvariant == OpenSpec => [](RedundantInv /\ KeptInv)
BY RedundantInit, RedundantStep, KeptInit, KeptStep, PTL DEF OpenSpec

\* How many records wait and are worked on is a number.
PlacesCount == \A m \in Records : InLine(m) \in Nat /\ AtWork(m) \in Nat

\* They are counted over finitely many nodes and workers.
LEMMA PlacesAreCounted == OpenSpec => []PlacesCount
<1>1. RedundantInv /\ KeptInv => PlacesCount
  BY CountsAreNat DEF RedundantInv, KeptInv, PlacesCount
<1> QED BY <1>1, PreprocessInvariant, PTL

\* A record is somewhere, or died with its node, exactly when it was popped.
PoppedIsSomewhere ==
  \A m \in Records :
    taken[m] > 0 <=> \/ InLine(m) + AtWork(m) > 0 \/ Receipts(m) + redundant[m] + ignored[m] > 0
                     \/ m \in diedAtWork

\* Whatever the agents, workers, redis and slaves do, whichever replies are lost and
\* whichever nodes die, a record popped from a queue is in the line, in a worker's hands,
\* ignored, redundant or with its slave as often as it was popped, unless it died in the
\* pool of its node, and more often only as replies were lost; and none is anywhere that
\* was not popped: for any nodes, workers and records.
THEOREM PoppedIsKept ==
  /\ OpenSpec => [](NothingLost /\ PoppedIsSomewhere)
  /\ Spec => [](NothingLost /\ PoppedIsSomewhere)
<1>1. RedundantInv /\ KeptInv => NothingLost /\ PoppedIsSomewhere
  <2> SUFFICES ASSUME RedundantInv, KeptInv PROVE NothingLost /\ PoppedIsSomewhere OBVIOUS
  <2>0. PreTypes /\ CountTypes BY DEF RedundantInv, KeptInv
  <2>k. ASSUME NEW m \in Records
        PROVE  /\ Kept(m) /\ Elsewhere(m) = InLine(m) + AtWork(m) + ignored[m] + redundant[m]
                                              + Receipts(m)
               /\ taken[m] \in Nat /\ InLine(m) \in Nat /\ AtWork(m) \in Nat
               /\ ignored[m] \in Nat /\ redundant[m] \in Nat /\ Receipts(m) \in Nat
    BY <2>0, CountsAreNat DEF KeptInv, Elsewhere
  <2>1. ASSUME NEW m \in Records
        PROVE  LET elsewhere == InLine(m) + AtWork(m) + ignored[m] + redundant[m] IN
                 /\ m \notin diedAtWork => taken[m] <= elsewhere + Receipts(m)
                 /\ elsewhere + Receipts(m) <= taken[m] + lostReceipts
    BY <2>k DEF Kept, Elsewhere
  <2>2. ASSUME NEW m \in Records
        PROVE  taken[m] > 0 <=>
                 \/ InLine(m) + AtWork(m) > 0 \/ Receipts(m) + redundant[m] + ignored[m] > 0
                 \/ m \in diedAtWork
    <3>1. Elsewhere(m) > 0 <=>
            InLine(m) + AtWork(m) > 0 \/ Receipts(m) + redundant[m] + ignored[m] > 0
      BY ONLY <2>k
    <3>2. /\ m \notin diedAtWork => taken[m] <= Elsewhere(m)
          /\ Elsewhere(m) > 0 \/ m \in diedAtWork => taken[m] > 0
      BY <2>k DEF Kept
    <3>3. taken[m] \in Nat /\ Elsewhere(m) \in Nat BY ONLY <2>k
    <3> QED BY ONLY <3>1, <3>2, <3>3
  <2> QED BY <2>1, <2>2 DEF NothingLost, PoppedIsSomewhere
<1>2. OpenSpec => [](NothingLost /\ PoppedIsSomewhere) BY <1>1, PreprocessInvariant, PTL
<1> QED BY <1>2, SpecIsOpen, PTL

-------------------------------------------------------------------------------
\* The types of what the counting of records does not need.
RestTypes ==
  /\ agentNew \in [Nodes -> {"test", "pop"}]
  /\ connected \in [Nodes -> BOOLEAN] /\ ttl \in [Nodes -> {"none", "positive"}]
  /\ up \subseteq Nodes /\ diedAtWork \subseteq Records
  /\ alive \in [Range(Query) -> BOOLEAN] /\ lostReceipts \in 0..MaxLostReplies

\* They change by single switches, and no more replies are lost than the bound.
LEMMA RestStep == RestTypes /\ [OpenNext]_vars => RestTypes'
<1> SUFFICES ASSUME RestTypes, [OpenNext]_vars PROVE RestTypes' OBVIOUS
<1>0. MaxLostReplies \in Nat /\ Cut \subseteq Nodes /\ Restless \subseteq Range(Query)
  BY PreprocessAssumption
<1>1. ASSUME NEW n \in Nodes, Agent(n) \/ AgentNewTest(n) \/ AgentNewPop(n) PROVE RestTypes'
  BY <1>1 DEF Agent, AgentNewTest, AgentNewPop, redis, ends, RestTypes
<1>2. ASSUME NEW n \in Nodes, NEW w \in Workers,
             BeginJob(n, w) \/ AskQid(n, w) \/ AskQuery(n, w) \/ Transmit(n, w)
      PROVE  RestTypes'
  BY <1>2 DEF BeginJob, AskQid, AskQuery, Ask, Transmit, redis, atNode, RestTypes
<1>3. ASSUME NEW n \in Nodes, NEW w \in Workers, SetQuery(n, w) \/ SetQid(n, w) PROVE RestTypes'
  <2>1. /\ UNCHANGED <<agentNew, ttl, alive, lostReceipts, up, diedAtWork>>
        /\ connected' = connected \/ connected' = [connected EXCEPT ![n] = FALSE]
    BY <1>3 DEF SetQuery, SetQid, Put, ends, atNode
  <2> QED BY <2>1 DEF RestTypes
<1>4. ASSUME NEW n \in Nodes, NEW w \in Workers, TransmitReplyLost(n, w) PROVE RestTypes'
  <2>1. /\ UNCHANGED <<agentNew, connected, ttl, alive, up, diedAtWork>>
        /\ lostReceipts < MaxLostReplies /\ lostReceipts' = lostReceipts + 1
    BY <1>4 DEF TransmitReplyLost, stages, redis
  <2>2. lostReceipts' \in 0..MaxLostReplies BY <1>0, <2>1 DEF RestTypes
  <2> QED BY <2>1, <2>2 DEF RestTypes
<1>5. ASSUME NEW n \in up \cap Cut, Disconnect(n) PROVE RestTypes'
  BY <1>0, <1>5 DEF Disconnect, stages, ends, RestTypes
<1>6. ASSUME NEW q \in Restless, SlaveChanges(q) PROVE RestTypes'
  BY <1>0, <1>6 DEF SlaveChanges, stages, redis, ends, RestTypes
<1>7. ASSUME \/ \E key \in Keys : Expire(key)
             \/ \E n \in Nodes, k \in Kinds, m \in Records : Fill(n, k, m)
             \/ UNCHANGED vars
      PROVE  RestTypes'
  BY <1>7 DEF Expire, Fill, vars, stages, redis, ends, RestTypes
<1>8. ASSUME NEW n \in Nodes, Die(n) PROVE RestTypes'
  BY <1>8 DEF Die, redis, ends, RestTypes
<1> QED
  BY <1>1, <1>2, <1>3, <1>4, <1>5, <1>6, <1>7, <1>8 DEF OpenNext, NodeStep, PreProcess

\* Agents, workers, redis, slaves and whoever fills the queues keep the types of all they
\* share: what is in a queue, a line or a hand is a record, and a job is at a step.
THEOREM PreprocessTypesHold ==
  /\ OpenSpec => []TypeOK
  /\ Spec => []TypeOK
<1>1. Init => RestTypes
  BY PreprocessAssumption DEF Init, RestTypes
<1>2. OpenSpec => []RestTypes BY <1>1, RestStep, PTL DEF OpenSpec
<1>3. RedundantInv /\ KeptInv /\ RestTypes => TypeOK
  BY DEF RedundantInv, PreTypes, KeptInv, CountTypes, RestTypes, TypeOK
<1>4. OpenSpec => []TypeOK BY <1>2, <1>3, PreprocessInvariant, PTL
<1> QED BY <1>4, SpecIsOpen, PTL
===============================================================================
