--------------------------- MODULE ThreadPoolProofs ---------------------------
(* Proofs about ThreadPool for every number of workers and tasks. *)
EXTENDS ThreadPool, TLAPS, FiniteSetTheorems

-------------------------------------------------------------------------------
(* The queue as a sequence: what the three updates of it do to its members. *)

\* AddTask: the members of the queue with an element at its end.
LEMMA AppendMembers ==
  ASSUME NEW S, NEW q \in Seq(S), NEW x \in S
  PROVE  /\ Append(q, x) \in Seq(S) /\ Len(Append(q, x)) = Len(q) + 1
         /\ Range(Append(q, x)) = Range(q) \cup {x}
         /\ IsInjective(q) /\ x \notin Range(q) => IsInjective(Append(q, x))
<1> DEFINE r == Append(q, x)
<1>1. r \in Seq(S) /\ Len(r) = Len(q) + 1 /\ DOMAIN r = 1..Len(q) + 1
  OBVIOUS
<1>2. \A i \in DOMAIN r : r[i] = IF i = Len(q) + 1 THEN x ELSE q[i]
  OBVIOUS
<1>3. DOMAIN q = 1..Len(q)  OBVIOUS
<1>4. \A i \in DOMAIN q : i \in DOMAIN r /\ r[i] = q[i] BY <1>1, <1>2, <1>3
<1>5. r[Len(q) + 1] = x /\ Len(q) + 1 \in DOMAIN r BY <1>1, <1>2
<1>6. Range(r) = Range(q) \cup {x}
  BY <1>1, <1>2, <1>3, <1>4, <1>5 DEF Range
<1>7. IsInjective(q) /\ x \notin Range(q) => IsInjective(r)
  BY <1>1, <1>2, <1>3 DEF Range, IsInjective
<1> QED BY <1>1, <1>6, <1>7

\* AddPriorityTask: the members of the queue with an element at its front.
LEMMA PrependMembers ==
  ASSUME NEW S, NEW q \in Seq(S), NEW x \in S
  PROVE  /\ <<x>> \o q \in Seq(S) /\ Len(<<x>> \o q) = Len(q) + 1
         /\ Range(<<x>> \o q) = Range(q) \cup {x}
         /\ IsInjective(q) /\ x \notin Range(q) => IsInjective(<<x>> \o q)
<1> DEFINE r == <<x>> \o q
<1>1. r \in Seq(S) /\ Len(r) = Len(q) + 1 /\ DOMAIN r = 1..Len(q) + 1
  OBVIOUS
<1>2. \A i \in DOMAIN r : r[i] = IF i = 1 THEN x ELSE q[i - 1]
  OBVIOUS
<1>3. DOMAIN q = 1..Len(q) /\ Len(q) \in Nat  OBVIOUS
<1>4. \A i \in DOMAIN q : i + 1 \in DOMAIN r /\ r[i + 1] = q[i]
  BY <1>1, <1>2, <1>3
<1>5. r[1] = x /\ 1 \in DOMAIN r BY <1>1, <1>2, <1>3
<1>6. \A i \in DOMAIN r : i = 1 \/ i - 1 \in DOMAIN q BY <1>1, <1>3
<1>7. Range(r) = Range(q) \cup {x}
  <2>1. ASSUME NEW i \in DOMAIN r PROVE r[i] \in Range(q) \cup {x}
    BY <1>2, <1>6 DEF Range
  <2>2. ASSUME NEW i \in DOMAIN q PROVE q[i] \in Range(r)
    BY <1>4 DEF Range
  <2>3. x \in Range(r) BY <1>5 DEF Range
  <2> QED BY <2>1, <2>2, <2>3 DEF Range
<1>8. IsInjective(q) /\ x \notin Range(q) => IsInjective(r)
  BY <1>1, <1>2, <1>3, <1>6 DEF Range, IsInjective
<1> QED BY <1>1, <1>7, <1>8

\* process: the members of the queue without its front.
LEMMA TailMembers ==
  ASSUME NEW S, NEW q \in Seq(S), q # <<>>
  PROVE  /\ Tail(q) \in Seq(S) /\ Len(Tail(q)) = Len(q) - 1 /\ Head(q) \in S
         /\ Range(q) = Range(Tail(q)) \cup {Head(q)}
         /\ IsInjective(q) => IsInjective(Tail(q)) /\ Head(q) \notin Range(Tail(q))
<1> DEFINE r == Tail(q)
<1>1. Len(q) \in Nat \ {0} /\ DOMAIN q = 1..Len(q) /\ Head(q) = q[1] OBVIOUS
<1>2. r \in Seq(S) /\ Len(r) = Len(q) - 1 /\ DOMAIN r = 1..Len(q) - 1 BY <1>1
<1>3. \A i \in DOMAIN r : i + 1 \in DOMAIN q /\ r[i] = q[i + 1] BY <1>1, <1>2
<1>4. \A i \in DOMAIN q : i = 1 \/ (i - 1 \in DOMAIN r /\ r[i - 1] = q[i])
  BY <1>1, <1>2, <1>3
<1>5. 1 \in DOMAIN q /\ Head(q) \in S BY <1>1
<1>6. Range(q) = Range(r) \cup {Head(q)}
  <2>1. ASSUME NEW i \in DOMAIN r PROVE r[i] \in Range(q)
    BY <1>3 DEF Range
  <2>2. ASSUME NEW i \in DOMAIN q PROVE q[i] \in Range(r) \cup {Head(q)}
    BY <1>1, <1>4 DEF Range
  <2>3. Head(q) \in Range(q) BY <1>1, <1>5 DEF Range
  <2> QED BY <2>1, <2>2, <2>3 DEF Range
<1>7. IsInjective(q) => IsInjective(r) /\ Head(q) \notin Range(r)
  BY <1>1, <1>2, <1>3, <1>5 DEF Range, IsInjective
<1> QED BY <1>2, <1>5, <1>6, <1>7

-------------------------------------------------------------------------------
(* Type correctness. *)

\* The constructor leaves every variable in its type.
LEMMA TypeInit == Init => TypeOK
<1> SUFFICES ASSUME Init PROVE TypeOK OBVIOUS
<1> USE PoolAssumption DEF Init, TypeOK, Unarmed
<1>1. /\ pc \in [Workers -> {"enter", "parking", "waiting", "picking", "timer",
                         "job", "exited"}]
  /\ hand \in [Workers -> Tasks \cup {Nobody}]
  /\ mutex \in Workers \cup {Nobody} OBVIOUS
<1>2. queue \in Seq(Jobs) OBVIOUS
<1>3. timers \in [Timed -> Nat \cup {Unarmed}] OBVIOUS
<1>4. stop \in BOOLEAN OBVIOUS
<1>5. now \in 0..MaxTime /\ fired \in Nat /\ pending \in Int /\ running \in Int OBVIOUS
<1> QED BY <1>1, <1>2, <1>3, <1>4, <1>5

PcType == {"enter", "parking", "waiting", "picking", "timer", "job", "exited"}

\* Taking the front of the queue keeps the types.
LEMMA TakeFrontType ==
  ASSUME TypeOK, Hands, NEW w \in Workers, NEW n \in Int, TakeFront(w, n)
  PROVE  /\ pc' \in [Workers -> PcType]
         /\ hand' \in [Workers -> Tasks \cup {Nobody}]
         /\ queue' \in Seq(Jobs)
         /\ pending' \in Int /\ running' \in Int
         /\ late' \subseteq Workers
         /\ Hands'
<1> USE DEF TypeOK, TakeFront, Tasks, Hands, PcType
<1>1. CASE queue = <<>>
  BY <1>1
<1>2. CASE queue # <<>>
  <2>1. Tail(queue) \in Seq(Jobs) /\ Head(queue) \in Jobs
    BY <1>2, TailMembers
  <2>2. pc' \in [Workers -> PcType] /\ pending' \in Int /\ running' \in Int
    BY <1>2
  <2>3. hand' \in [Workers -> Tasks \cup {Nobody}]
    BY <1>2, <2>1
  <2>4. queue' \in Seq(Jobs)
    BY <1>2, <2>1
  <2>5. late' \subseteq Workers
    BY <1>2
  <2>6. Hands'
    BY <1>2, <2>1
  <2> QED BY <2>2, <2>3, <2>4, <2>5, <2>6
<1> QED BY <1>1, <1>2

\* Every step of the pool keeps the types, and what each worker may hold.
LEMMA TypeStep == TypeOK /\ Hands /\ [Next]_vars => TypeOK' /\ Hands'
<1> SUFFICES ASSUME TypeOK, Hands, [Next]_vars PROVE TypeOK' /\ Hands'
  OBVIOUS
<1>1. ASSUME NEW j \in Jobs, AddTask(j) \/ AddPriorityTask(j) PROVE TypeOK' /\ Hands'
  <2>1. Append(queue, j) \in Seq(Jobs) /\ <<j>> \o queue \in Seq(Jobs)
    BY AppendMembers, PrependMembers DEF TypeOK
  <2>2. queue' \in Seq(Jobs)
    BY <1>1, <2>1 DEF AddTask, AddPriorityTask, Submit
  <2>3. pending' \in Int /\ added' \subseteq Tasks /\ sealed' \subseteq added'
    BY <1>1 DEF AddTask, AddPriorityTask, Submit, TypeOK, Tasks
  <2>4. pc' \in [Workers -> PcType] /\ Hands'
    BY <1>1 DEF AddTask, AddPriorityTask, Submit, NotifyOne, Waiting, TypeOK, Hands, PcType
  <2> QED BY <1>1, <2>2, <2>3, <2>4 DEF AddTask, AddPriorityTask, Submit, TypeOK, PcType
<1>2. ASSUME NEW t \in Timed, Arm(t) PROVE TypeOK' /\ Hands'
  <2>1. now + Interval \in Nat BY PoolAssumption DEF TypeOK
  <2>2. pc' \in [Workers -> PcType] /\ Hands'
    BY <1>2 DEF Arm, NotifyOne, Waiting, TypeOK, Hands, PcType
  <2> QED BY <1>2, <2>1, <2>2 DEF Arm, TypeOK, PcType, Tasks
<1>3. CASE Tick
  BY <1>3, PoolAssumption DEF Tick, TypeOK, Hands, work, history
<1>4. CASE Owner
  <2>1. CASE StopNow \/ StopGracefully \/ SeeDrained \/ SetStop \/ StopAgain
    BY <1>4, <2>1 DEF Call, StopNow, StopGracefully, SeeDrained, SetStop, StopAgain,
                      TypeOK, Hands, work, history
  <2>2. CASE NotifyAll
    <3>1. pc' \in [Workers -> PcType] /\ Hands'
      BY <2>2 DEF NotifyAll, TypeOK, Hands, PcType
    <3> QED BY <2>2, <3>1 DEF NotifyAll, Call, TypeOK, PcType, work, history
  <2>3. CASE Join
    BY <2>3 DEF Join, Call, TypeOK, Hands, history
  <2> QED BY <1>4, <2>1, <2>2, <2>3 DEF Owner
<1>5. ASSUME NEW w \in Workers,
             FindNothing(w) \/ Park(w) \/ SpuriousWakeup(w) \/ Leave(w) \/ FindWork(w)
      PROVE  TypeOK' /\ Hands'
  BY <1>5 DEF FindNothing, Park, SpuriousWakeup, Leave, FindWork, Goto,
              TypeOK, Hands, work, history
<1>6. ASSUME NEW w \in Workers, NEW t \in Timed, TakeTimer(w, t)
      PROVE  TypeOK' /\ Hands'
  <2>1. now + Interval \in Nat BY PoolAssumption DEF TypeOK
  <2>2. timers' \in [Timed -> Nat \cup {Unarmed}]
    BY <1>6, <2>1 DEF TakeTimer, TypeOK
  <2>3. pc' \in [Workers -> PcType] /\ hand' \in [Workers -> Tasks \cup {Nobody}] /\ Hands'
    BY <1>6 DEF TakeTimer, Goto, Tasks, TypeOK, Hands, PcType
  <2> QED BY <1>6, <2>2, <2>3 DEF TakeTimer, TypeOK, PcType
<1>7. ASSUME NEW w \in Workers, SkipTimer(w) \/ TimerReturns(w) PROVE TypeOK' /\ Hands'
  <2>1. PICK n \in Int : TakeFront(w, n)
    BY <1>7 DEF SkipTimer, TimerReturns, TypeOK
  <2> QED BY <1>7, <2>1, TakeFrontType DEF SkipTimer, TimerReturns, TypeOK, PcType
<1>8. ASSUME NEW w \in Workers, JobReturns(w) PROVE TypeOK' /\ Hands'
  BY <1>8 DEF JobReturns, Goto, TypeOK, Hands
<1>9. CASE UNCHANGED vars
  BY <1>9 DEF vars, TypeOK, Hands, work, history
<1> QED
  BY <1>1, <1>2, <1>3, <1>4, <1>5, <1>6, <1>7, <1>8, <1>9
  DEF Next, Caller, AddDelayTask, AddTimerTask, Worker

-------------------------------------------------------------------------------
(* No job is lost and none is run twice. *)

\* What a worker holds once it has gone on to the queue.
LEMMA InHandOfOne ==
  ASSUME TypeOK, NEW w \in Workers, NEW x \in Tasks \cup {Nobody},
         hand' = [hand EXCEPT ![w] = x], hand[w] \notin Jobs
  PROVE  InHand' = InHand \cup ({x} \cap Jobs)
<1>1. Nobody \notin Jobs
  BY PoolAssumption DEF Tasks
<1>2. InHand = {hand[v] : v \in Workers} \cap Jobs
  BY <1>1 DEF InHand, Busy
<1>3. InHand' = {hand'[v] : v \in Workers} \cap Jobs
  BY <1>1 DEF InHand, Busy
<1>4. hand'[w] = x /\ \A v \in Workers : v # w => hand'[v] = hand[v]
  BY DEF TypeOK
<1>5. ASSUME NEW j \in Jobs PROVE j \in InHand' <=> j \in InHand \/ j = x
  BY <1>2, <1>3, <1>4
<1> QED BY <1>2, <1>3, <1>5

\* A task that has not been added is in nobody's hands.
LEMMA NotHeldYet ==
  ASSUME TypeOK, Hands, NEW w \in Workers, pc[w] # "job"
  PROVE  hand[w] \notin Jobs
  BY PoolAssumption DEF Hands, TypeOK, Tasks

\* Taking the front of the queue moves one job from the queue to a hand.
LEMMA TakeFrontOnePlace ==
  ASSUME TypeOK, Hands, OnePlace, NEW w \in Workers, NEW n \in Int,
         TakeFront(w, n), pc[w] # "job", UNCHANGED <<added, done>>
  PROVE  OnePlace'
<1>1. hand[w] \notin Jobs BY NotHeldYet
<1>2. CASE queue = <<>>
  <2>1. InHand' = InHand
    BY <1>1, <1>2, InHandOfOne, PoolAssumption DEF TakeFront, Tasks
  <2>2. \A u, v \in Workers : hand'[u] = hand'[v] /\ hand'[u] \in Jobs => u = v
    BY <1>2, PoolAssumption DEF TakeFront, OnePlace, TypeOK, Tasks
  <2> QED BY <1>2, <2>1, <2>2 DEF TakeFront, OnePlace
<1>3. CASE queue # <<>>
  <2> DEFINE j == Head(queue)
  <2>1. /\ j \in Jobs
        /\ Range(queue) = Range(queue') \cup {j}
        /\ IsInjective(queue') /\ j \notin Range(queue')
    <3>1. queue \in Seq(Jobs) /\ IsInjective(queue) BY DEF TypeOK, OnePlace
    <3>2. queue' = Tail(queue) BY <1>3 DEF TakeFront
    <3> QED BY <1>3, <3>1, <3>2, TailMembers
  <2>2. j \notin InHand /\ j \notin done
    BY <2>1 DEF OnePlace
  <2>3. hand' = [hand EXCEPT ![w] = j]
    BY <1>3 DEF TakeFront
  <2>4. InHand' = InHand \cup {j}
    BY <1>1, <2>1, <2>3, InHandOfOne DEF Tasks
  <2>5. \A v \in Workers : hand[v] # j
    BY <2>1, <2>2, PoolAssumption DEF InHand, Busy, Tasks
  <2>6. \A u, v \in Workers : hand'[u] = hand'[v] /\ hand'[u] \in Jobs => u = v
    BY <2>3, <2>5 DEF OnePlace, TypeOK
  <2> QED BY <2>1, <2>2, <2>4, <2>6 DEF OnePlace
<1> QED BY <1>2, <1>3

\* A job that ends is in nobody's hands afterwards.
LEMMA JobLeavesHand ==
  ASSUME TypeOK, Hands, OnePlace, NEW w \in Workers, JobReturns(w)
  PROVE  /\ hand[w] \in Jobs /\ hand[w] \in InHand
         /\ InHand' = InHand \ {hand[w]}
<1>1. hand[w] \in Jobs /\ hand[w] \in InHand
  BY PoolAssumption DEF JobReturns, Goto, Hands, InHand, Busy, Tasks
<1>2. hand' = [hand EXCEPT ![w] = Nobody]
  BY DEF JobReturns
<1>3. InHand' = InHand \ {hand[w]}
  BY <1>1, <1>2, PoolAssumption DEF InHand, Busy, OnePlace, TypeOK, Tasks
<1> QED BY <1>1, <1>3

\* Every step of the pool keeps each job in one place.
LEMMA OnePlaceStep == TypeOK /\ Hands /\ OnePlace /\ [Next]_vars => OnePlace'
<1> SUFFICES ASSUME TypeOK, Hands, OnePlace, [Next]_vars PROVE OnePlace'
  OBVIOUS
<1>1. ASSUME NEW j \in Jobs, AddTask(j) \/ AddPriorityTask(j) PROVE OnePlace'
  <2>1. j \notin Range(queue) /\ j \notin InHand /\ j \notin done
    BY <1>1 DEF AddTask, AddPriorityTask, Submit, OnePlace
  <2>2. Range(queue') = Range(queue) \cup {j} /\ IsInjective(queue')
    <3>1. queue \in Seq(Jobs) /\ IsInjective(queue) BY DEF TypeOK, OnePlace
    <3>2. queue' = Append(queue, j) \/ queue' = <<j>> \o queue
      BY <1>1 DEF AddTask, AddPriorityTask, Submit
    <3>3. CASE queue' = Append(queue, j)
      BY <2>1, <3>1, <3>3, AppendMembers
    <3>4. CASE queue' = <<j>> \o queue
      BY <2>1, <3>1, <3>4, PrependMembers
    <3> QED BY <3>2, <3>3, <3>4
  <2>3. added' = added \cup {j} /\ UNCHANGED <<hand, done>>
    BY <1>1 DEF AddTask, AddPriorityTask, Submit
  <2> QED BY <2>1, <2>2, <2>3 DEF OnePlace, InHand, Busy
<1>2. ASSUME NEW t \in Timed, Arm(t) PROVE OnePlace'
  BY <1>2, PoolAssumption DEF Arm, OnePlace, InHand, Busy
<1>3. ASSUME NEW w \in Workers, NEW t \in Timed, TakeTimer(w, t) PROVE OnePlace'
  <2>1. hand' = [hand EXCEPT ![w] = t] /\ t \notin Jobs /\ t \in Tasks
    BY <1>3, PoolAssumption DEF TakeTimer, Tasks
  <2>2. InHand' = InHand
    <3>1. hand[w] \notin Jobs
      BY <1>3, NotHeldYet DEF TakeTimer, Goto
    <3> QED BY <2>1, <3>1, InHandOfOne
  <2>3. \A u, v \in Workers : hand'[u] = hand'[v] /\ hand'[u] \in Jobs => u = v
    BY <2>1 DEF OnePlace, TypeOK
  <2> QED BY <1>3, <2>2, <2>3 DEF TakeTimer, OnePlace
<1>4. ASSUME NEW w \in Workers, SkipTimer(w) \/ TimerReturns(w) PROVE OnePlace'
  <2>1. PICK n \in Int : TakeFront(w, n)
    BY <1>4 DEF SkipTimer, TimerReturns, TypeOK
  <2> QED BY <1>4, <2>1, TakeFrontOnePlace DEF SkipTimer, TimerReturns
<1>5. ASSUME NEW w \in Workers, JobReturns(w) PROVE OnePlace'
  <2> DEFINE j == hand[w]
  <2>1. done' = done \cup {j} /\ UNCHANGED <<queue, added>>
    BY <1>5 DEF JobReturns
  <2>2. hand' = [hand EXCEPT ![w] = Nobody]
    BY <1>5 DEF JobReturns
  <2>3. j \in Jobs /\ j \in InHand /\ InHand' = InHand \ {j}
    BY <1>5, JobLeavesHand
  <2>4. \A u, v \in Workers : hand'[u] = hand'[v] /\ hand'[u] \in Jobs => u = v
    BY <2>2, PoolAssumption DEF OnePlace, TypeOK, Tasks
  <2> QED BY <2>1, <2>3, <2>4 DEF OnePlace
<1>6. CASE UNCHANGED <<hand, queue, added, done>>
  BY <1>6 DEF OnePlace, InHand, Busy
<1> QED
  BY <1>1, <1>2, <1>3, <1>4, <1>5, <1>6
  DEF Next, Caller, AddDelayTask, AddTimerTask, Worker, Owner, Tick, vars, work, history,
      FindNothing, Park, SpuriousWakeup, Leave, FindWork, StopNow, StopGracefully,
      SeeDrained, SetStop, NotifyAll, Join, StopAgain

-------------------------------------------------------------------------------
(* What the counters count. *)

\* The number of busy workers when one worker changes hands.
LEMMA BusyOfOne ==
  ASSUME TypeOK, NEW w \in Workers, NEW x \in Tasks \cup {Nobody},
         hand' = [hand EXCEPT ![w] = x]
  PROVE  /\ x # Nobody /\ hand[w] = Nobody => Cardinality(Busy') = Cardinality(Busy) + 1
         /\ x = Nobody /\ hand[w] # Nobody => Cardinality(Busy') = Cardinality(Busy) - 1
         /\ (x = Nobody <=> hand[w] = Nobody) => Cardinality(Busy') = Cardinality(Busy)
<1>1. IsFiniteSet(Busy) /\ Cardinality(Busy) \in Nat
  BY PoolAssumption, FS_Subset, FS_CardinalityType DEF Busy
<1>2. Cardinality(Busy \cup {w}) = IF w \in Busy THEN Cardinality(Busy) ELSE Cardinality(Busy) + 1
  BY <1>1, FS_AddElement
<1>3. Cardinality(Busy \ {w}) = IF w \in Busy THEN Cardinality(Busy) - 1 ELSE Cardinality(Busy)
  BY <1>1, FS_RemoveElement
<1>4. Busy' = IF x # Nobody THEN Busy \cup {w} ELSE Busy \ {w}
  BY DEF Busy, TypeOK
<1>5. w \in Busy <=> hand[w] # Nobody
  BY DEF Busy
<1> QED BY <1>1, <1>2, <1>3, <1>4, <1>5

\* An empty-handed worker, or one that has just counted its timer out, goes on
\* to the queue.
LEMMA TakeFrontCounters ==
  ASSUME TypeOK, NEW w \in Workers, NEW n \in Int, TakeFront(w, n),
         pending = Len(queue) - fired,
         n + (IF hand[w] # Nobody THEN 1 ELSE 0) = Cardinality(Busy),
         UNCHANGED fired
  PROVE  pending' = Len(queue') - fired' /\ running' = Cardinality(Busy')
<1>0. IsFiniteSet(Busy) /\ Cardinality(Busy) \in Nat
  BY PoolAssumption, FS_Subset, FS_CardinalityType DEF Busy
<1>1. CASE queue = <<>>
  <2>1. hand' = [hand EXCEPT ![w] = Nobody] /\ running' = n /\ UNCHANGED <<queue, pending>>
    BY <1>1 DEF TakeFront
  <2>2. /\ hand[w] = Nobody => Cardinality(Busy') = Cardinality(Busy)
        /\ hand[w] # Nobody => Cardinality(Busy') = Cardinality(Busy) - 1
    BY <2>1, BusyOfOne
  <2> QED BY <1>0, <2>1, <2>2
<1>2. CASE queue # <<>>
  <2>1. Head(queue) \in Jobs /\ Len(Tail(queue)) = Len(queue) - 1
    BY <1>2, TailMembers DEF TypeOK
  <2>2. /\ hand' = [hand EXCEPT ![w] = Head(queue)] /\ queue' = Tail(queue)
        /\ running' = n + 1 /\ pending' = pending - 1
    BY <1>2 DEF TakeFront
  <2>3. /\ hand[w] = Nobody => Cardinality(Busy') = Cardinality(Busy) + 1
        /\ hand[w] # Nobody => Cardinality(Busy') = Cardinality(Busy)
    <3>1. Head(queue) \in Tasks /\ Head(queue) # Nobody
      BY <2>1, PoolAssumption DEF Tasks
    <3> QED BY <2>2, <3>1, BusyOfOne
  <2>4. Len(queue) \in Nat /\ fired \in Nat
    BY DEF TypeOK
  <2> QED BY <1>0, <2>1, <2>2, <2>3, <2>4
<1> QED BY <1>1, <1>2

\* Every step of the pool keeps what the two counters count.
LEMMA CountersStep == TypeOK /\ Hands /\ Counters /\ [Next]_vars => Counters'
<1> SUFFICES ASSUME TypeOK, Hands, Counters, [Next]_vars,
                    owner' \notin {"down", "aborted"}
             PROVE  pending' = Len(queue') - fired' /\ running' = Cardinality(Busy')
  BY DEF Counters
<1> DEFINE Goal == pending' = Len(queue') - fired' /\ running' = Cardinality(Busy')
<1>0. pending = Len(queue) - fired /\ running = Cardinality(Busy)
  BY DEF Counters, TypeOK, Next, Caller, AddTask, AddPriorityTask, AddDelayTask,
         AddTimerTask, Submit, Arm, Worker, FindNothing, Park, SpuriousWakeup, Leave,
         FindWork, TakeTimer, SkipTimer, TimerReturns, JobReturns, Tick, Owner, Call,
         StopNow, StopGracefully, SeeDrained, SetStop, NotifyAll, Join, StopAgain, vars
<1>00. /\ Len(queue) \in Nat /\ fired \in Nat
       /\ IsFiniteSet(Busy) /\ Cardinality(Busy) \in Nat
  BY PoolAssumption, FS_Subset, FS_CardinalityType DEF Busy, TypeOK
<1>1. ASSUME NEW j \in Jobs, AddTask(j) \/ AddPriorityTask(j) PROVE Goal
  <2>1. Len(queue') = Len(queue) + 1
    BY <1>1, AppendMembers, PrependMembers DEF AddTask, AddPriorityTask, Submit, TypeOK
  <2>2. pending' = pending + 1 /\ UNCHANGED <<hand, fired, running>>
    BY <1>1 DEF AddTask, AddPriorityTask, Submit
  <2> QED BY <1>0, <1>00, <2>1, <2>2 DEF Busy
<1>2. ASSUME NEW w \in Workers, NEW t \in Timed, TakeTimer(w, t) PROVE Goal
  <2>1. hand[w] = Nobody /\ t # Nobody /\ t \in Tasks
    BY <1>2, PoolAssumption DEF TakeTimer, Goto, Hands, Tasks
  <2>2. /\ hand' = [hand EXCEPT ![w] = t] /\ UNCHANGED queue
        /\ running' = running + 1 /\ pending' = pending - 1 /\ fired' = fired + 1
    BY <1>2 DEF TakeTimer
  <2>3. Cardinality(Busy') = Cardinality(Busy) + 1
    BY <2>1, <2>2, BusyOfOne
  <2> QED BY <1>0, <1>00, <2>2, <2>3
<1>3. ASSUME NEW w \in Workers, SkipTimer(w) PROVE Goal
  <2>1. hand[w] = Nobody BY <1>3 DEF SkipTimer, Hands
  <2>2. running + 0 = Cardinality(Busy) BY <1>0, <1>00
  <2> QED BY <1>0, <1>3, <2>1, <2>2, TakeFrontCounters DEF SkipTimer, TypeOK
<1>4. ASSUME NEW w \in Workers, TimerReturns(w) PROVE Goal
  <2>1. hand[w] # Nobody
    BY <1>4, PoolAssumption DEF TimerReturns, Hands, Tasks
  <2>2. running - 1 \in Int /\ (running - 1) + 1 = Cardinality(Busy) BY <1>0, <1>00
  <2> QED BY <1>0, <1>4, <2>1, <2>2, TakeFrontCounters DEF TimerReturns
<1>5. ASSUME NEW w \in Workers, JobReturns(w) PROVE Goal
  <2>1. hand[w] # Nobody
    BY <1>5, PoolAssumption DEF JobReturns, Goto, Hands, Tasks
  <2>2. /\ hand' = [hand EXCEPT ![w] = Nobody] /\ running' = running - 1
        /\ UNCHANGED <<queue, pending, fired>>
    BY <1>5 DEF JobReturns
  <2>3. Cardinality(Busy') = Cardinality(Busy) - 1
    BY <2>1, <2>2, BusyOfOne
  <2> QED BY <1>0, <1>00, <2>2, <2>3
<1>6. CASE UNCHANGED <<hand, queue, pending, running, fired>>
  BY <1>0, <1>6 DEF Busy
<1>7. ~Join /\ ~StopAgain
  BY DEF Join, StopAgain, Call
<1> QED
  BY <1>1, <1>2, <1>3, <1>4, <1>5, <1>6, <1>7
  DEF Next, Caller, AddDelayTask, AddTimerTask, Arm, Worker, Owner, Tick, vars, work, history,
      FindNothing, Park, SpuriousWakeup, Leave, FindWork, StopNow, StopGracefully,
      SeeDrained, SetStop, NotifyAll

-------------------------------------------------------------------------------
(* The mutex, and what sleeping workers leave behind. *)

\* Every step of the pool keeps the mutex with at most one thread.
LEMMA HeldStep == TypeOK /\ Held /\ [Next]_vars => Held'
<1> SUFFICES ASSUME TypeOK, Held, [Next]_vars PROVE Held'
  OBVIOUS
<1>0. Nobody \notin Workers
  BY PoolAssumption
<1>1. ASSUME mutex = Nobody, UNCHANGED mutex, NEW v \in Workers,
             pc'[v] \notin {"parking", "picking"},
             \A w \in Workers : w # v => pc'[w] = pc[w]
      PROVE  Held'
  BY <1>0, <1>1 DEF Held
<1>2. CASE UNCHANGED <<pc, mutex, queue, timers>>
  BY <1>2 DEF Held, NoWork, Armed
<1>3. ASSUME mutex = Nobody, UNCHANGED mutex, NotifyOne PROVE Held'
  BY <1>0, <1>3 DEF Held, NotifyOne, Waiting, TypeOK
<1>4. ASSUME NEW w \in Workers, FindNothing(w) PROVE Held'
  BY <1>0, <1>4 DEF FindNothing, Goto, Held, NoWork, Armed, TypeOK, work
<1>5. ASSUME NEW w \in Workers, Park(w) \/ SpuriousWakeup(w) PROVE Held'
  BY <1>0, <1>5 DEF Park, SpuriousWakeup, Goto, Held, NoWork, Armed, TypeOK, work
<1>6. ASSUME NEW w \in Workers, FindWork(w) PROVE Held'
  BY <1>0, <1>6 DEF FindWork, Goto, Held, TypeOK
<1>7. ASSUME NEW w \in Workers, NEW t \in Timed, TakeTimer(w, t) PROVE Held'
  BY <1>0, <1>7 DEF TakeTimer, Goto, Held, TypeOK
<1>8. ASSUME NEW w \in Workers, NEW n, TakeFront(w, n)
      PROVE  /\ pc'[w] \in {"enter", "job"}
             /\ \A v \in Workers : v # w => pc'[v] = pc[v]
  BY <1>8 DEF TakeFront, TypeOK
<1>9. ASSUME NEW w \in Workers, SkipTimer(w) PROVE Held'
  <2>1. mutex = w /\ mutex' = Nobody
    BY <1>9 DEF SkipTimer, Held
  <2> QED BY <1>0, <1>8, <1>9, <2>1 DEF SkipTimer, Held
<1>10. ASSUME NEW w \in Workers, TimerReturns(w) PROVE Held'
  BY <1>1, <1>8, <1>10 DEF TimerReturns
<1>11. ASSUME NEW w \in Workers, Leave(w) \/ JobReturns(w) PROVE Held'
  BY <1>1, <1>11 DEF Leave, JobReturns, Goto, TypeOK
<1>12. CASE NotifyAll
  BY <1>12 DEF NotifyAll, Held, NoWork, Armed, TypeOK, work
<1>13. CASE Owner /\ ~NotifyAll
  BY <1>2, <1>13 DEF Owner, StopNow, StopGracefully, SeeDrained, SetStop, Join, StopAgain, work
<1> QED
  BY <1>2, <1>3, <1>4, <1>5, <1>6, <1>7, <1>9, <1>10, <1>11, <1>12, <1>13
  DEF Next, Caller, AddTask, AddPriorityTask, AddDelayTask, AddTimerTask, Submit, Arm,
      Worker, Tick, vars, work

\* No step of the pool puts the last waking worker to sleep beside a task.
LEMMA SleepStep ==
  TypeOK /\ Held /\ NoSleepWithWork /\ [Next]_vars => NoSleepWithWork'
<1> SUFFICES ASSUME TypeOK, Held, NoSleepWithWork, [Next]_vars, Waiting' = Workers
             PROVE  NoWork'
  BY DEF NoSleepWithWork
<1>1. \A w \in Workers : pc'[w] = "waiting"
  BY DEF Waiting
<1>2. ASSUME NEW w \in Workers, Worker(w) PROVE Park(w)
  BY <1>1, <1>2 DEF Worker, FindNothing, Leave, FindWork, TakeTimer, SkipTimer,
                    TimerReturns, JobReturns, TakeFront, Goto, TypeOK
<1>3. ASSUME NEW w \in Workers, Park(w) PROVE NoWork'
  BY <1>3 DEF Park, Goto, Held, NoWork, Armed, work
<1>4. ~Caller
  <2>1. PICK w \in Workers : TRUE BY PoolAssumption
  <2>2. ASSUME NotifyOne PROVE FALSE
    BY <1>1, <2>1, <2>2 DEF NotifyOne, Waiting, TypeOK
  <2> QED BY <2>2 DEF Caller, AddTask, AddPriorityTask, AddDelayTask, AddTimerTask, Submit, Arm
<1>5. ASSUME NEW w \in Workers PROVE ~SpuriousWakeup(w)
  BY <1>1, <1>5 DEF SpuriousWakeup, Goto, TypeOK
<1>6. CASE UNCHANGED <<pc, queue, timers>>
  BY <1>1, <1>6 DEF NoSleepWithWork, Waiting, NoWork, Armed
<1>7. CASE NotifyAll
  <2>1. PICK w \in Workers : TRUE BY PoolAssumption
  <2> QED BY <1>1, <1>7, <2>1 DEF NotifyAll
<1> QED
  BY <1>2, <1>3, <1>4, <1>5, <1>6, <1>7
  DEF Next, Tick, Owner, StopNow, StopGracefully, SeeDrained, SetStop, Join, StopAgain, vars, work

-------------------------------------------------------------------------------
(* Stop. *)

\* No step of the pool drops a job that a graceful Stop had waited for.
LEMMA GracefulStep ==
  TypeOK /\ OnePlace /\ Counters /\ GracefulKeepsJobs /\ [Next]_vars => GracefulKeepsJobs'
<1> SUFFICES ASSUME TypeOK, OnePlace, Counters, GracefulKeepsJobs, [Next]_vars, fired' = 0
             PROVE  sealed' \cap Range(queue') = {}
  BY DEF GracefulKeepsJobs
<1>1. ASSUME NEW w \in Workers, NEW t \in Timed PROVE ~TakeTimer(w, t)
  BY DEF TakeTimer, TypeOK
<1>2. fired = 0
  BY <1>1 DEF Next, Caller, AddTask, AddPriorityTask, AddDelayTask, AddTimerTask, Submit, Arm,
         Worker, FindNothing, Park, SpuriousWakeup, Leave, FindWork, SkipTimer, TimerReturns,
         JobReturns, Tick, Owner, StopNow, StopGracefully, SeeDrained, SetStop, NotifyAll,
         Join, StopAgain, vars, work, history
<1>3. sealed \cap Range(queue) = {}
  BY <1>2 DEF GracefulKeepsJobs
<1>4. ASSUME NEW j \in Jobs, AddTask(j) \/ AddPriorityTask(j)
      PROVE  sealed' \cap Range(queue') = {}
  <2>1. queue \in Seq(Jobs) BY DEF TypeOK
  <2>2. CASE AddTask(j)
    <3>1. Range(queue') = Range(queue) \cup {j}
      BY <2>1, <2>2, AppendMembers DEF AddTask, Submit
    <3> QED BY <1>3, <2>2, <3>1 DEF AddTask, Submit, TypeOK
  <2>3. CASE AddPriorityTask(j)
    <3>1. Range(queue') = Range(queue) \cup {j}
      BY <2>1, <2>3, PrependMembers DEF AddPriorityTask, Submit
    <3> QED BY <1>3, <2>3, <3>1 DEF AddPriorityTask, Submit, TypeOK
  <2> QED BY <1>4, <2>2, <2>3
<1>5. ASSUME NEW w \in Workers, SkipTimer(w) \/ TimerReturns(w)
      PROVE  sealed' \cap Range(queue') = {}
  <2>1. PICK n : TakeFront(w, n) BY <1>5 DEF SkipTimer, TimerReturns
  <2>2. queue # <<>> => Range(queue) = Range(Tail(queue)) \cup {Head(queue)}
    BY TailMembers DEF TypeOK
  <2>3. Range(queue') \subseteq Range(queue)
    BY <2>1, <2>2 DEF TakeFront
  <2> QED BY <1>3, <1>5, <2>3 DEF SkipTimer, TimerReturns
<1>6. CASE SeeDrained
  <2>1. Len(queue) = 0
    BY <1>2, <1>6 DEF SeeDrained, Call, Counters, TypeOK
  <2>2. queue' = <<>>
    BY <1>6, <2>1 DEF SeeDrained, TypeOK, work
  <2> QED BY <2>2 DEF Range
<1>7. CASE UNCHANGED <<queue, sealed>>
  BY <1>3, <1>7
<1> QED
  BY <1>1, <1>4, <1>5, <1>6, <1>7
  DEF Next, Caller, AddDelayTask, AddTimerTask, Arm, Worker, FindNothing, Park,
      SpuriousWakeup, Leave, FindWork, JobReturns, Tick, Owner, StopNow, StopGracefully,
      SetStop, NotifyAll, Join, StopAgain, vars, work, history

\* A worker that took a job after stop_ was set leaves process() with it.
LEMMA LateStep == TypeOK /\ LateLeaves /\ [Next]_vars => LateLeaves'
<1> SUFFICES ASSUME TypeOK, LateLeaves, [Next]_vars PROVE LateLeaves'
  OBVIOUS
<1>1. stop => stop'
  BY DEF Next, Caller, AddTask, AddPriorityTask, AddDelayTask, AddTimerTask, Submit, Arm,
         Worker, FindNothing, Park, SpuriousWakeup, Leave, FindWork, SkipTimer, TimerReturns,
         TakeTimer, JobReturns, Tick, Owner, StopNow, StopGracefully, SeeDrained, SetStop,
         NotifyAll, Join, StopAgain, vars
<1>2. ASSUME late' = late, NotifyOne \/ NotifyAll \/ UNCHANGED pc PROVE LateLeaves'
  BY <1>1, <1>2 DEF LateLeaves, NotifyOne, NotifyAll, Waiting, TypeOK
<1>3. ASSUME NEW w \in Workers,
             FindNothing(w) \/ Park(w) \/ SpuriousWakeup(w) \/ Leave(w) \/ FindWork(w)
      PROVE  LateLeaves'
  BY <1>1, <1>3 DEF FindNothing, Park, SpuriousWakeup, Leave, FindWork, Goto, LateLeaves,
                    TypeOK, history
<1>4. ASSUME NEW w \in Workers, NEW t \in Timed, TakeTimer(w, t) PROVE LateLeaves'
  BY <1>1, <1>4 DEF TakeTimer, Goto, LateLeaves, TypeOK
<1>5. ASSUME NEW w \in Workers, SkipTimer(w) \/ TimerReturns(w) PROVE LateLeaves'
  <2>1. PICK n : TakeFront(w, n) BY <1>5 DEF SkipTimer, TimerReturns
  <2>2. late' \subseteq late \cup {w} /\ (late' # late => stop /\ pc'[w] = "job")
    BY <2>1 DEF TakeFront, TypeOK
  <2>3. w \notin late /\ \A v \in Workers : v # w => pc'[v] = pc[v]
    BY <1>5, <2>1 DEF SkipTimer, TimerReturns, TakeFront, LateLeaves, TypeOK
  <2> QED BY <1>1, <2>2, <2>3 DEF LateLeaves, TypeOK
<1>6. ASSUME NEW w \in Workers, JobReturns(w) PROVE LateLeaves'
  BY <1>1, <1>6 DEF JobReturns, Goto, LateLeaves, TypeOK
<1> QED
  BY <1>2, <1>3, <1>4, <1>5, <1>6
  DEF Next, Caller, AddTask, AddPriorityTask, AddDelayTask, AddTimerTask, Submit, Arm, Worker,
      Tick, Owner, StopNow, StopGracefully, SeeDrained, SetStop, NotifyAll, Join, StopAgain,
      vars, history
-------------------------------------------------------------------------------
(* The theorems. *)

\* The inductive invariant holds of the pool as it is constructed.
LEMMA IInvInit == Init => IInv
<1> SUFFICES ASSUME Init PROVE IInv  OBVIOUS
<1>1. TypeOK BY TypeInit
<1>2. Hands /\ Held /\ LateLeaves
  BY PoolAssumption DEF Init, Hands, Held, LateLeaves, NoWork, Armed
<1>3. Range(queue) = {} /\ IsInjective(queue) /\ Len(queue) = 0
  BY DEF Init, Range, IsInjective
<1>4. Busy = {} /\ InHand = {}
  BY DEF Init, Busy, InHand
<1>5. OnePlace
  BY <1>3, <1>4, PoolAssumption DEF Init, OnePlace, Tasks
<1>6. Counters
  BY <1>3, <1>4, FS_EmptySet DEF Init, Counters
<1>7. NoSleepWithWork
  BY PoolAssumption DEF Init, NoSleepWithWork, NoWork, Waiting, Armed
<1>8. GracefulKeepsJobs BY DEF Init, GracefulKeepsJobs
<1> QED BY <1>1, <1>2, <1>5, <1>6, <1>7, <1>8 DEF IInv

\* Every step of the pool keeps the inductive invariant.
LEMMA IInvStep == IInv /\ [Next]_vars => IInv'
  BY TypeStep, HeldStep, LateStep, OnePlaceStep, CountersStep, SleepStep, GracefulStep DEF IInv

\* The inductive invariant of process, the Add calls and Stop holds always.
THEOREM Invariant == Spec => []IInv
  BY IInvInit, IInvStep, PTL DEF Spec

\* Every variable of the pool keeps its type, whatever the number of threads.
THEOREM TypeCorrect == Spec => []TypeOK
<1>1. IInv => TypeOK  BY DEF IInv
<1> QED BY Invariant, <1>1, PTL

\* No schedule of AddTask, process and Stop loses a job or runs it twice.
THEOREM NoJobLostOrTwice == Spec => []OnePlace
<1>1. IInv => OnePlace  BY DEF IInv
<1> QED BY Invariant, <1>1, PTL

\* pending_num_ is the length of queue_ less the timed executions so far.
THEOREM CountersCorrect == Spec => []Counters
<1>1. IInv => Counters  BY DEF IInv
<1> QED BY Invariant, <1>1, PTL

\* The workers never all sleep while a task is queued or armed.
THEOREM NoLostNotify == Spec => []NoSleepWithWork
<1>1. IInv => NoSleepWithWork  BY DEF IInv
<1> QED BY Invariant, <1>1, PTL

\* Stop(true) leaves in queue_ no job added before it saw nothing pending,
\* unless a timed task ran.
THEOREM GracefulStopKeeps == Spec => []GracefulKeepsJobs
<1>1. IInv => GracefulKeepsJobs  BY DEF IInv
<1> QED BY Invariant, <1>1, PTL

\* A worker that has taken a job since stop_ was set is not back at queue_.
LEMMA LateOnceStep ==
  IInv /\ [Next]_vars =>
    \A w \in Workers : stop /\ pc[w] # "job" /\ pc'[w] = "job" => w \notin late
<1> SUFFICES ASSUME IInv, [Next]_vars, NEW w \in Workers, stop, pc[w] # "job",
                    pc'[w] = "job", w \in late
             PROVE  FALSE
  OBVIOUS
<1>1. pc[w] \in {"enter", "exited"} /\ TypeOK
  BY DEF IInv, LateLeaves
<1>2. ASSUME NEW v \in Workers, Worker(v) PROVE FALSE
  BY <1>1, <1>2 DEF TypeOK, Worker, FindNothing, Park, Leave, FindWork, TakeTimer, SkipTimer,
                    TimerReturns, JobReturns, TakeFront, Goto
<1> QED
  BY <1>1, <1>2 DEF TypeOK, Next, Caller, AddTask, AddPriorityTask, AddDelayTask, AddTimerTask,
         Submit, Arm, NotifyOne, SpuriousWakeup, Goto, Tick, Owner, StopNow, StopGracefully,
         SeeDrained, SetStop, NotifyAll, Join, StopAgain, vars

\* After stop_ is set each worker takes at most one more job.
THEOREM AtMostOneLateJob == Spec => LateOnce
<1>1. IInv /\ [Next]_vars =>
        [\A w \in Workers : stop /\ pc[w] # "job" /\ pc'[w] = "job" => w \notin late]_vars
  BY LateOnceStep
<1> QED BY Invariant, <1>1, PTL DEF Spec, LateOnce
-------------------------------------------------------------------------------
(* The pool implements TaskExecutor. *)

\* The job that each worker is executing, as TaskExecutor sees it.
Active == [w \in Workers |-> JobOf(w)]

\* One worker that changes hands changes one slot of the executor.
LEMMA ActiveOfOne ==
  ASSUME TypeOK, NEW w \in Workers, NEW x, hand' = [hand EXCEPT ![w] = x]
  PROVE  Active' = [Active EXCEPT ![w] = IF x \in Jobs THEN x ELSE Nobody]
  BY DEF Active, JobOf, TypeOK

\* Taking the front of the queue is the executor's beginning of a job.
LEMMA TakeFrontExecutes ==
  ASSUME IInv, NEW w \in Workers, NEW n \in Int, TakeFront(w, n), pc[w] # "job",
         w \notin late, UNCHANGED <<done, stop>>
  PROVE  Executor!Begin(w) \/ UNCHANGED Executor!execVars
<1>0. TypeOK /\ Hands /\ hand[w] \notin Jobs /\ Active[w] = Nobody
  BY NotHeldYet DEF IInv, Active, JobOf
<1>1. CASE queue = <<>>
  <2>1. hand' = [hand EXCEPT ![w] = Nobody] /\ UNCHANGED <<queue, late>>
    BY <1>1 DEF TakeFront
  <2>2. Active' = [Active EXCEPT ![w] = Nobody]
    BY <1>0, <2>1, ActiveOfOne
  <2>3. Active' = Active
    BY <1>0, <2>2 DEF Active
  <2> QED BY <2>1, <2>3 DEF Executor!execVars, Active
<1>2. CASE queue # <<>>
  <2>1. /\ hand' = [hand EXCEPT ![w] = Head(queue)] /\ queue' = Tail(queue)
        /\ late' = IF stop THEN late \cup {w} ELSE late
    BY <1>2 DEF TakeFront
  <2>2. Head(queue) \in Jobs
    BY <1>0, <1>2, TailMembers DEF TypeOK
  <2>3. Active' = [Active EXCEPT ![w] = Head(queue)]
    BY <1>0, <2>1, <2>2, ActiveOfOne
  <2> QED BY <1>0, <1>2, <2>1, <2>3 DEF Executor!Begin, Active
<1> QED BY <1>1, <1>2

\* The pool as constructed is an executor as it begins.
LEMMA ExecutorInit == Init => Executor!Init
  BY PoolAssumption DEF Init, Executor!Init, JobOf, Tasks

\* Every step of the pool is a step of the executor or none.
LEMMA ExecutorStep == IInv /\ [Next]_vars => [Executor!Next]_(Executor!execVars)
<1> SUFFICES ASSUME IInv, [Next]_vars PROVE [Executor!Next]_(Executor!execVars)
  OBVIOUS
<1>0. TypeOK /\ Hands /\ OnePlace /\ LateLeaves
  BY DEF IInv
<1>1. ASSUME NEW j \in Jobs, AddTask(j) \/ AddPriorityTask(j) PROVE Executor!Accept(j)
  <2>1. j \notin added /\ j # Nobody
    BY <1>1, PoolAssumption DEF AddTask, AddPriorityTask, Submit, Tasks
  <2>2. \A w \in Workers : Active[w] # j
    BY <1>0, <2>1, PoolAssumption DEF Active, JobOf, OnePlace, InHand, Busy, Tasks
  <2>3. j \notin Executor!Known
    BY <1>0, <2>1, <2>2 DEF OnePlace, Executor!Known, Range, Active
  <2>4. queue' \in {Append(queue, j), <<j>> \o queue} /\ UNCHANGED <<hand, done, stop, late>>
    BY <1>1 DEF AddTask, AddPriorityTask, Submit
  <2> QED BY <2>3, <2>4 DEF Executor!Accept, JobOf
<1>2. ASSUME NEW w \in Workers, NEW t \in Timed, TakeTimer(w, t)
      PROVE  UNCHANGED Executor!execVars
  <2>1. hand[w] \notin Jobs /\ t \notin Jobs
    BY <1>0, <1>2, NotHeldYet, PoolAssumption DEF TakeTimer, Goto
  <2>2. Active' = [Active EXCEPT ![w] = Nobody] /\ Active[w] = Nobody
    BY <1>0, <1>2, <2>1, ActiveOfOne DEF TakeTimer, Active, JobOf
  <2>3. Active' = Active
    BY <2>2 DEF Active
  <2> QED BY <1>2, <2>3 DEF TakeTimer, Executor!execVars, Active
<1>3. ASSUME NEW w \in Workers, SkipTimer(w) \/ TimerReturns(w)
      PROVE  Executor!Begin(w) \/ UNCHANGED Executor!execVars
  <2>1. PICK n \in Int : TakeFront(w, n)
    BY <1>0, <1>3 DEF SkipTimer, TimerReturns, TypeOK
  <2>2. pc[w] # "job" /\ w \notin late /\ UNCHANGED <<done, stop>>
    BY <1>0, <1>3 DEF SkipTimer, TimerReturns, LateLeaves
  <2> QED BY <2>1, <2>2, TakeFrontExecutes
<1>4. ASSUME NEW w \in Workers, JobReturns(w) PROVE Executor!End(w)
  <2>1. hand[w] \in Jobs /\ Active[w] = hand[w] /\ hand[w] # Nobody
    BY <1>0, <1>4, JobLeavesHand, PoolAssumption DEF Active, JobOf, Tasks
  <2>2. hand' = [hand EXCEPT ![w] = Nobody]
    BY <1>4 DEF JobReturns
  <2>3. Active' = [Active EXCEPT ![w] = Nobody]
    BY <1>0, <2>2, ActiveOfOne
  <2> QED BY <1>4, <2>1, <2>3 DEF JobReturns, Executor!End, Active
<1>5. ASSUME SetStop PROVE Executor!Close \/ UNCHANGED Executor!execVars
  BY <1>0, <1>5 DEF SetStop, JobOf, work, history, Executor!Close, Executor!execVars, TypeOK
<1>6. CASE UNCHANGED <<queue, hand, done, stop, late>>
  BY <1>6 DEF Executor!execVars, JobOf
<1> QED
  BY <1>1, <1>2, <1>3, <1>4, <1>5, <1>6
  DEF Executor!Next, Next, Caller, AddDelayTask, AddTimerTask, Arm, Worker, FindNothing, Park,
      SpuriousWakeup, Leave, FindWork, Tick, Owner, StopNow, StopGracefully, SeeDrained,
      NotifyAll, Join, StopAgain, vars, work, history

\* The pool, timers and Stop included, is an executor that begins each job at
\* most once, from the front of the line, on one of its threads, and that
\* begins at most one job a thread once it is closed.
THEOREM PoolIsExecutor == Spec => ImplementsExecutor
  BY Invariant, ExecutorInit, ExecutorStep, PTL DEF Spec, ImplementsExecutor, Executor!Spec
===============================================================================
