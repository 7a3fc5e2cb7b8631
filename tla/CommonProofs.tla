----------------------------- MODULE CommonProofs -----------------------------
(* Proofs about the data structures of common/.  LockFreeQueue: for every     *)
(* capacity and every number of producers and of consumers.  SkipList: for    *)
(* all keys, bounds and MaxLevel.  ConsistentHash: for all servers and hash   *)
(* functions.                                                                 *)
EXTENDS LockFreeQueue, SkipList, ConsistentHash, LinesProofs

-------------------------------------------------------------------------------
(* The two counters. *)

\* A producer has begun a push from its reading of tail on.
Begun == \A p \in Producers : pc[p] # "call" => pushes[p] < PushesEach

\* What a thread has read is never ahead of its counter, and the counters are
\* less than Capacity apart; and what it saw of the other counter when it went on
\* to claim a position still holds, for that one has only grown.
Counters ==
  /\ head <= tail /\ tail < head + Capacity
  /\ \A p \in Producers : /\ spot[p] <= tail
                          /\ pc[p] = "claim" => spot[p] + 1 < head + Capacity
  /\ \A c \in Consumers : /\ spot[c] <= head
                          /\ pc[c] = "claim" => spot[c] < tail

\* A slot is never emptied of its value, so there is one wherever one is read.
Filled ==
  /\ \A i \in 0..(Capacity - 1) : readable[i] => value[i] # Nothing
  /\ \A p \in Producers : pc[p] = "flag" => value[Slot(spot[p])] # Nothing
  /\ \A c \in Consumers : pc[c] = "access" => value[Slot(spot[c])] # Nothing

CounterInv == QueueTypeOK /\ Begun /\ Counters /\ Filled

USE DEF Threads, Slot, Values, Pushing, queueVars, shared

PcValues == {"call", "other", "claim", "wait", "access", "flag"}

\* CounterInv is inductive.
LEMMA CountersInit == QueueInit => CounterInv
<1> SUFFICES ASSUME QueueInit PROVE CounterInv OBVIOUS
<1>1. QueueTypeOK
  <2>1. lapped \in BOOLEAN BY DEF QueueInit
  <2>2. /\ head \in Nat /\ tail \in Nat
        /\ readable \in [0..(Capacity - 1) -> BOOLEAN]
        /\ value \in [0..(Capacity - 1) -> Values \cup {Nothing}]
        /\ pc \in [Threads -> PcValues] /\ spot \in [Threads -> Nat]
    BY DEF QueueInit, PcValues
  <2>3. /\ pushes \in [Producers -> 0..PushesEach] /\ claims \in Seq(Values)
        /\ Len(claims) = tail /\ popped \in [Consumers -> Seq(Values)]
    BY QueueAssumption DEF QueueInit
  <2> QED BY <2>1, <2>2, <2>3 DEF QueueTypeOK, PcValues
<1>2. Begun /\ Counters /\ Filled
  BY QueueAssumption DEF QueueInit, Begun, Counters, Filled
<1> QED BY <1>1, <1>2 DEF CounterInv

\* Every position has a slot.
LEMMA SlotIn == ASSUME NEW n \in Nat PROVE n % Capacity \in 0..(Capacity - 1)
BY QueueAssumption, SMT

\* What is pushed is a value.
LEMMA PushingIn ==
  ASSUME QueueTypeOK, Begun, NEW p \in Producers, pc[p] # "call"
  PROVE  Pushing(p) \in Values /\ pushes[p] + 1 \in 0..PushesEach /\ Pushing(p) # Nothing
<1>1. pushes[p] \in 0..PushesEach /\ pushes[p] < PushesEach /\ PushesEach \in Nat
  BY QueueAssumption DEF QueueTypeOK, Begun
<1>2. pushes[p] + 1 \in 1..PushesEach /\ pushes[p] + 1 \in 0..PushesEach BY ONLY <1>1
<1> QED BY <1>2, NothingAssumption

LEMMA CountersStep == CounterInv /\ [QueueNext]_queueVars => CounterInv'
<1> SUFFICES ASSUME CounterInv, [QueueNext]_queueVars PROVE CounterInv' OBVIOUS
<1> USE QueueAssumption DEF CounterInv, Goto, Return, Claim
<1>0. /\ head \in Nat /\ tail \in Nat /\ pc \in [Threads -> PcValues]
      /\ spot \in [Threads -> Nat]
  BY DEF QueueTypeOK, PcValues
<1>1. ASSUME NEW p \in Producers, PushReadTail(p) PROVE CounterInv'
  <2>1. QueueTypeOK' BY <1>1 DEF PushReadTail, QueueTypeOK
  <2>2. Begun' BY <1>1 DEF PushReadTail, QueueTypeOK, Begun
  <2>3. Counters' BY <1>1 DEF PushReadTail, QueueTypeOK, Counters
  <2>4. Filled' BY <1>0, <1>1, SlotIn DEF PushReadTail, QueueTypeOK, Filled
  <2> QED BY <2>1, <2>2, <2>3, <2>4
<1>2. ASSUME NEW p \in Producers, PushReadHead(p) PROVE CounterInv'
  <2>1. QueueTypeOK'
    <3>1. pc' \in [Threads -> PcValues] /\ spot' \in [Threads -> Nat]
      BY <1>0, <1>2 DEF PushReadHead, PcValues
    <3> QED BY <3>1, <1>2 DEF PushReadHead, QueueTypeOK, PcValues
  <2>2. Begun' BY <1>2 DEF PushReadHead, QueueTypeOK, Begun
  <2>3. Counters'
    <3>1. /\ head' = head /\ tail' = tail
          /\ \/ /\ pc' = [pc EXCEPT ![p] = "call"] /\ spot' = [spot EXCEPT ![p] = 0]
             \/ /\ pc' = [pc EXCEPT ![p] = "claim"] /\ spot' = spot
                /\ ~(spot[p] + 1 >= head + Capacity)
      BY <1>2 DEF PushReadHead, IsFull
    <3> QED BY ONLY <3>1, <1>0, QueueAssumption, Counters, p \in Producers DEF Counters, Threads
  <2>4. Filled' BY <1>0, <1>2, SlotIn DEF PushReadHead, QueueTypeOK, Filled
  <2> QED BY <2>1, <2>2, <2>3, <2>4
<1>3. ASSUME NEW p \in Producers, PushClaim(p) PROVE CounterInv'
  <2>1. QueueTypeOK'
    <3>1. Pushing(p) \in Values BY <1>3, PushingIn DEF PushClaim
    <3>2. claims' \in Seq(Values) /\ Len(claims') = tail'
      BY <3>1, <1>3 DEF PushClaim, QueueTypeOK
    <3> QED BY <3>2, <1>3 DEF PushClaim, QueueTypeOK
  <2>2. Begun' BY <1>3 DEF PushClaim, QueueTypeOK, Begun
  <2>3. Counters' BY <1>3 DEF PushClaim, QueueTypeOK, Counters
  <2>4. Filled' BY <1>0, <1>3, SlotIn DEF PushClaim, QueueTypeOK, Filled
  <2> QED BY <2>1, <2>2, <2>3, <2>4
<1>4. ASSUME NEW p \in Producers, PushWait(p) PROVE CounterInv'
  <2>1. QueueTypeOK' BY <1>4 DEF PushWait, QueueTypeOK
  <2>2. Begun' BY <1>4 DEF PushWait, QueueTypeOK, Begun
  <2>3. Counters' BY <1>4 DEF PushWait, QueueTypeOK, Counters
  <2>4. Filled' BY <1>0, <1>4, SlotIn DEF PushWait, QueueTypeOK, Filled
  <2> QED BY <2>1, <2>2, <2>3, <2>4
<1>5. ASSUME NEW p \in Producers, PushWrite(p) PROVE CounterInv'
  <2>1. QueueTypeOK'
    <3>1. Pushing(p) \in Values BY <1>5, PushingIn DEF PushWrite
    <3>2. value' \in [0..(Capacity - 1) -> Values \cup {Nothing}]
      BY <3>1, <1>5 DEF PushWrite, QueueTypeOK
    <3> QED BY <3>2, <1>5 DEF PushWrite, QueueTypeOK
  <2>2. Begun' BY <1>5 DEF PushWrite, QueueTypeOK, Begun
  <2>3. Counters' BY <1>5 DEF PushWrite, QueueTypeOK, Counters
  <2>4. Filled'
    <3>1. Pushing(p) # Nothing BY <1>5, PushingIn DEF PushWrite
    <3>2. \A i \in 0..(Capacity - 1) :
            value'[i] = IF i = Slot(spot[p]) THEN Pushing(p) ELSE value[i]
      BY <1>5 DEF PushWrite, QueueTypeOK
    <3>3. \A t \in Threads : Slot(spot[t]) \in 0..(Capacity - 1)
      BY <1>0, SlotIn
    <3> HIDE DEF Slot, Pushing
    <3> QED BY <1>0, <1>5, <3>1, <3>2, <3>3 DEF PushWrite, Filled
  <2> QED BY <2>1, <2>2, <2>3, <2>4
<1>6. ASSUME NEW p \in Producers, PushPublish(p) PROVE CounterInv'
  <2>1. QueueTypeOK'
    <3>1. pushes[p] + 1 \in 0..PushesEach BY <1>6, PushingIn DEF PushPublish
    <3>2. pushes' \in [Producers -> 0..PushesEach]
      BY <3>1, <1>6 DEF PushPublish, QueueTypeOK
    <3>3. readable' \in [0..(Capacity - 1) -> BOOLEAN]
      BY <1>6 DEF PushPublish, QueueTypeOK
    <3> QED BY <3>2, <3>3, <1>6 DEF PushPublish, QueueTypeOK
  <2>2. Begun' BY <1>6 DEF PushPublish, QueueTypeOK, Begun
  <2>3. Counters' BY <1>6 DEF PushPublish, QueueTypeOK, Counters
  <2>4. Filled' BY <1>0, <1>6, SlotIn DEF PushPublish, QueueTypeOK, Filled
  <2> QED BY <2>1, <2>2, <2>3, <2>4
<1>7. ASSUME NEW c \in Consumers, PopReadHead(c) PROVE CounterInv'
  <2>1. QueueTypeOK' BY <1>7 DEF PopReadHead, QueueTypeOK
  <2>2. Begun' BY <1>7 DEF PopReadHead, QueueTypeOK, Begun
  <2>3. Counters' BY <1>7 DEF PopReadHead, QueueTypeOK, Counters
  <2>4. Filled' BY <1>0, <1>7, SlotIn DEF PopReadHead, QueueTypeOK, Filled
  <2> QED BY <2>1, <2>2, <2>3, <2>4
<1>8. ASSUME NEW c \in Consumers, PopReadTail(c) PROVE CounterInv'
  <2>1. QueueTypeOK'
    <3>1. pc' \in [Threads -> PcValues] /\ spot' \in [Threads -> Nat]
      BY <1>0, <1>8 DEF PopReadTail, PcValues
    <3> QED BY <3>1, <1>8 DEF PopReadTail, QueueTypeOK, PcValues
  <2>2. Begun' BY <1>8 DEF PopReadTail, QueueTypeOK, Begun
  <2>3. Counters'
    <3>1. /\ head' = head /\ tail' = tail
          /\ \/ /\ pc' = [pc EXCEPT ![c] = "call"] /\ spot' = [spot EXCEPT ![c] = 0]
             \/ /\ pc' = [pc EXCEPT ![c] = "claim"] /\ spot' = spot /\ spot[c] # tail
      BY <1>8 DEF PopReadTail
    <3> QED BY ONLY <3>1, <1>0, QueueAssumption, Counters, c \in Consumers DEF Counters, Threads
  <2>4. Filled' BY <1>0, <1>8, SlotIn DEF PopReadTail, QueueTypeOK, Filled
  <2> QED BY <2>1, <2>2, <2>3, <2>4
<1>9. ASSUME NEW c \in Consumers, PopClaim(c) PROVE CounterInv'
  <2>1. QueueTypeOK'
    <3>1. head' \in Nat /\ pc' \in [Threads -> PcValues]
      BY <1>0, <1>9 DEF PopClaim, PcValues
    <3> QED BY <3>1, <1>9 DEF PopClaim, QueueTypeOK, PcValues
  <2>2. Begun' BY <1>9 DEF PopClaim, QueueTypeOK, Begun
  <2>3. Counters'
    <3>1. /\ head' = head + 1 /\ head = spot[c] /\ pc[c] = "claim"
          /\ tail' = tail /\ spot' = spot
          /\ pc' = [pc EXCEPT ![c] = "wait"]
      BY <1>9 DEF PopClaim
    <3> QED BY ONLY <3>1, <1>0, QueueAssumption, Counters, c \in Consumers DEF Counters, Threads
  <2>4. Filled' BY <1>0, <1>9, SlotIn DEF PopClaim, QueueTypeOK, Filled
  <2> QED BY <2>1, <2>2, <2>3, <2>4
<1>10. ASSUME NEW c \in Consumers, PopWait(c) PROVE CounterInv'
  <2>1. QueueTypeOK' BY <1>10 DEF PopWait, QueueTypeOK
  <2>2. Begun' BY <1>10 DEF PopWait, QueueTypeOK, Begun
  <2>3. Counters' BY <1>10 DEF PopWait, QueueTypeOK, Counters
  <2>4. Filled' BY <1>0, <1>10, SlotIn DEF PopWait, QueueTypeOK, Filled
  <2> QED BY <2>1, <2>2, <2>3, <2>4
<1>11. ASSUME NEW c \in Consumers, PopRead(c) PROVE CounterInv'
  <2>1. QueueTypeOK'
    <3>1. value[Slot(spot[c])] \in Values
      BY <1>0, <1>11, SlotIn DEF PopRead, QueueTypeOK, Filled
    <3>2. Append(popped[c], value[Slot(spot[c])]) \in Seq(Values)
      BY <3>1, <1>11 DEF QueueTypeOK
    <3>3. popped' \in [Consumers -> Seq(Values)]
      BY <3>2, <1>11 DEF PopRead, QueueTypeOK
    <3> QED BY <3>3, <1>11 DEF PopRead, QueueTypeOK
  <2>2. Begun' BY <1>11 DEF PopRead, QueueTypeOK, Begun
  <2>3. Counters' BY <1>11 DEF PopRead, QueueTypeOK, Counters
  <2>4. Filled' BY <1>0, <1>11, SlotIn DEF PopRead, QueueTypeOK, Filled
  <2> QED BY <2>1, <2>2, <2>3, <2>4
<1>12. ASSUME NEW c \in Consumers, PopClear(c) PROVE CounterInv'
  <2>1. QueueTypeOK' BY <1>12 DEF PopClear, QueueTypeOK
  <2>2. Begun' BY <1>12 DEF PopClear, QueueTypeOK, Begun
  <2>3. Counters' BY <1>12 DEF PopClear, QueueTypeOK, Counters
  <2>4. Filled' BY <1>0, <1>12, SlotIn DEF PopClear, QueueTypeOK, Filled
  <2> QED BY <2>1, <2>2, <2>3, <2>4
<1>13. ASSUME NEW t \in Threads, ClaimFails(t) PROVE CounterInv'
  <2>1. QueueTypeOK' BY <1>13 DEF ClaimFails, QueueTypeOK
  <2>2. Begun' BY <1>13 DEF ClaimFails, QueueTypeOK, Begun
  <2>3. Counters' BY <1>13 DEF ClaimFails, QueueTypeOK, Counters
  <2>4. Filled' BY <1>0, <1>13, SlotIn DEF ClaimFails, QueueTypeOK, Filled
  <2> QED BY <2>1, <2>2, <2>3, <2>4
<1>14. CASE UNCHANGED queueVars
  <2>1. QueueTypeOK' BY <1>14 DEF QueueTypeOK
  <2>2. Begun' BY <1>14 DEF Begun
  <2>3. Counters' BY <1>14 DEF Counters
  <2>4. Filled' BY <1>14 DEF Filled
  <2> QED BY <2>1, <2>2, <2>3, <2>4
<1> QED
  BY <1>1, <1>2, <1>3, <1>4, <1>5, <1>6, <1>7, <1>8, <1>9, <1>10, <1>11, <1>12,
     <1>13, <1>14 DEF QueueNext, Producer, Consumer
\* The types of the ring and of its threads; so no consumer returns a slot's
\* initial value.
THEOREM QueueTypeCorrect == QueueSpec => []QueueTypeOK
<1>1. QueueInit => CounterInv BY CountersInit
<1>2. CounterInv /\ [QueueNext]_queueVars => CounterInv' BY CountersStep
<1>3. CounterInv => QueueTypeOK BY DEF CounterInv
<1> QED BY <1>1, <1>2, <1>3, PTL DEF QueueSpec

\* A thread whose call is refused saw, and so still sees, a full or an empty queue.
LEMMA RefusedStep ==
  CounterInv /\ [QueueNext]_queueVars =>
    /\ \A p \in Producers : pc[p] = "other" /\ pc'[p] = "call" => tail = head + Capacity - 1
    /\ \A c \in Consumers : pc[c] = "other" /\ pc'[c] = "call" => head = tail
<1> SUFFICES ASSUME CounterInv, [QueueNext]_queueVars
             PROVE  /\ \A p \in Producers :
                         pc[p] = "other" /\ pc'[p] = "call" => tail = head + Capacity - 1
                    /\ \A c \in Consumers :
                         pc[c] = "other" /\ pc'[c] = "call" => head = tail
  OBVIOUS
<1>0. /\ head \in Nat /\ tail \in Nat /\ pc \in [Threads -> PcValues]
      /\ spot \in [Threads -> Nat]
  BY DEF CounterInv, QueueTypeOK, PcValues
<1>1. ASSUME NEW t \in Threads, pc[t] = "other", pc'[t] = "call"
      PROVE  (t \in Producers /\ PushReadHead(t)) \/ (t \in Consumers /\ PopReadTail(t))
  <2>1. pc' # pc BY <1>1
  <2>2. ASSUME NEW p \in Producers, Producer(p)
        PROVE  t \in Producers /\ PushReadHead(t)
    <3>1. \E where \in PcValues : pc' = [pc EXCEPT ![p] = where]
      BY <2>2 DEF Producer, Goto, Return, Claim, PcValues, PushReadTail, PushReadHead, PushClaim,
         ClaimFails, PushWait, PushWrite, PushPublish
    <3>2. t = p BY <1>0, <1>1, <3>1
    <3> QED
      BY <1>1, <2>2, <3>2 DEF Producer, PushReadTail, PushClaim, Claim, ClaimFails,
         PushWait, PushWrite, PushPublish
  <2>3. ASSUME NEW c \in Consumers, Consumer(c)
        PROVE  t \in Consumers /\ PopReadTail(t)
    <3>1. \E where \in PcValues : pc' = [pc EXCEPT ![c] = where]
      BY <2>3 DEF Consumer, Goto, Return, Claim, PcValues, PopReadHead, PopReadTail, PopClaim,
         ClaimFails, PopWait, PopRead, PopClear
    <3>2. t = c BY <1>0, <1>1, <3>1
    <3> QED
      BY <1>1, <2>3, <3>2 DEF Consumer, PopReadHead, PopClaim, Claim, ClaimFails,
         PopWait, PopRead, PopClear
  <2>4. QueueNext BY <2>1
  <2>5. (\E p \in Producers : Producer(p)) \/ (\E c \in Consumers : Consumer(c))
    BY <2>4 DEF QueueNext
  <2> QED BY ONLY <2>2, <2>3, <2>5
<1>2. ASSUME NEW p \in Producers, pc[p] = "other", pc'[p] = "call"
      PROVE  tail = head + Capacity - 1
  <2>1. PushReadHead(p) BY <1>1, <1>2, QueueAssumption
  <2>2. spot[p] + 1 >= head + Capacity
    BY <1>0, <1>2, <2>1 DEF PushReadHead, Return, Goto, IsFull
  <2> QED
    BY <1>0, <2>2, QueueAssumption DEF CounterInv, Counters
<1>3. ASSUME NEW c \in Consumers, pc[c] = "other", pc'[c] = "call"
      PROVE  head = tail
  <2>1. PopReadTail(c) BY <1>1, <1>3, QueueAssumption
  <2>2. spot[c] = tail
    BY <1>0, <1>3, <2>1 DEF PopReadTail, Return, Goto
  <2> QED
    BY <1>0, <2>2, QueueAssumption DEF CounterInv, Counters
<1> QED BY <1>2, <1>3

\* However old the first of the two counters is that a call compares, it is refused
\* only while the queue is full, or empty: for every number of threads.
THEOREM RefusalsCorrect == QueueSpec => RefusalsAreTrue
<1>1. QueueInit => CounterInv BY CountersInit
<1>2. CounterInv /\ [QueueNext]_queueVars => CounterInv' BY CountersStep
<1> QED BY <1>1, <1>2, RefusedStep, PTL DEF QueueSpec, RefusalsAreTrue
-------------------------------------------------------------------------------
(* Until a claim laps another, each slot has at most one push and one pop at  *)
(* work on it, and the push of the next turn waits for the pop of this one.   *)

\* The values of these positions are still to be returned, or cleared away.
Live(pos) ==
  \/ head <= pos /\ pos < tail
  \/ \E c \in Consumers : Active(c) /\ spot[c] = pos

Filling(pos) == \E p \in Producers : Active(p) /\ spot[p] = pos

OneEach ==
  /\ \A p, q \in Producers :
       Active(p) /\ Active(q) /\ Slot(spot[p]) = Slot(spot[q]) => p = q
  /\ \A c, d \in Consumers :
       Active(c) /\ Active(d) /\ Slot(spot[c]) = Slot(spot[d]) => c = d

\* A push at work fills a live position of its own.
PushesAtWork ==
  \A p \in Producers :
    /\ Active(p) => /\ spot[p] < tail /\ claims[spot[p] + 1] = Pushing(p)
                    /\ Live(spot[p])
    /\ pc[p] \in {"access", "flag"} => ~readable[Slot(spot[p])]
    /\ pc[p] = "flag" => value[Slot(spot[p])] = Pushing(p)

\* A pop at work reads a position that has been filled.
PopsAtWork ==
  \A c \in Consumers :
    /\ Active(c) => spot[c] < head
    /\ pc[c] \in {"access", "flag"} => ~Filling(spot[c])

\* What is filled stays as it is until it is cleared.
FilledIsReadable ==
  \A pos \in Nat : Live(pos) /\ ~Filling(pos) =>
    readable[Slot(pos)] /\ value[Slot(pos)] = claims[pos + 1]

ReadableIsFilled ==
  \A i \in 0..(Capacity - 1) : readable[i] =>
    \E pos \in Nat : Live(pos) /\ ~Filling(pos) /\ Slot(pos) = i

\* The push of a later turn waits while a pop is at work on the slot.
TurnsWait ==
  \A c \in Consumers, pos \in Nat :
    Active(c) /\ spot[c] < pos /\ pos < tail /\ Slot(pos) = Slot(spot[c]) =>
      \E p \in Producers : pc[p] = "wait" /\ spot[p] = pos

SlotInv ==
  /\ OneEach /\ PushesAtWork /\ PopsAtWork
  /\ FilledIsReadable /\ ReadableIsFilled /\ TurnsWait

\* Two positions of one slot are a whole turn of the ring apart.
LEMMA SlotsDiffer ==
  ASSUME NEW a \in Nat, NEW b \in Nat, a % Capacity = b % Capacity, a < b
  PROVE  a + Capacity <= b
<1> DEFINE x == a \div Capacity
          y == b \div Capacity
<1>0. Capacity \in Nat \ {0} BY QueueAssumption
<1>1. a = Capacity * x + (a % Capacity) BY <1>0, SMT
<1>2. b = Capacity * y + (b % Capacity) BY <1>0, SMT
<1>3. x \in Int /\ y \in Int BY <1>0, SMT
<1> HIDE DEF x, y
<1>4. b - a = Capacity * y - Capacity * x BY <1>0, <1>1, <1>2, <1>3, SMT
<1>5. Capacity * y - Capacity * x = Capacity * (y - x) BY <1>0, <1>3, SMT
<1>6. y - x >= 1 => Capacity * (y - x) >= Capacity BY <1>0, <1>3, SMT
<1>7. y - x <= 0 => Capacity * (y - x) <= 0 BY <1>0, <1>3, SMT
<1> QED BY <1>0, <1>3, <1>4, <1>5, <1>6, <1>7, SMT

LEMMA SlotInit == QueueInit => SlotInv
<1> SUFFICES ASSUME QueueInit PROVE SlotInv OBVIOUS
<1>1. head = 0 /\ tail = 0 /\ \A t \in Threads : pc[t] = "call" BY DEF QueueInit
<1>2. \A i \in 0..(Capacity - 1) : ~readable[i] BY DEF QueueInit
<1>3. \A t \in Threads : ~Active(t) BY <1>1 DEF Active
<1>4. \A pos \in Nat : ~Live(pos) BY <1>1, <1>3 DEF Live
<1> QED
  BY <1>1, <1>2, <1>3, <1>4 DEF SlotInv, OneEach, PushesAtWork, PopsAtWork,
     FilledIsReadable, ReadableIsFilled, TurnsWait

\* A step that leaves the shared memory, and begins no work and ends none.
LEMMA SlotFrame ==
  ASSUME SlotInv, UNCHANGED <<head, tail, readable, value, pushes, claims>>,
         \A t \in Threads : (Active(t)' <=> Active(t)) /\ (Active(t) => spot'[t] = spot[t]),
         \A p \in Producers : pc'[p] \in {"access", "flag"} => ~readable[Slot(spot[p])],
         \A p \in Producers : pc'[p] = "flag" => pc[p] = "flag",
         \A c \in Consumers : pc'[c] \in {"access", "flag"} => ~Filling(spot[c]),
         TurnsWait'
  PROVE  SlotInv'
<1>0. \A t \in Threads : pc'[t] \in {"access", "flag"} => Active(t) /\ spot'[t] = spot[t]
  BY DEF Active
<1>1. \A pos : Live(pos)' <=> Live(pos) BY DEF Live
<1>2. \A pos : Filling(pos)' <=> Filling(pos) BY DEF Filling
<1>3. OneEach' BY DEF SlotInv, OneEach
<1>4. PushesAtWork'
  <2> SUFFICES ASSUME NEW p \in Producers
               PROVE  /\ Active(p)' => /\ spot'[p] < tail /\ claims[spot'[p] + 1] = Pushing(p)
                                       /\ Live(spot[p])'
                      /\ pc'[p] \in {"access", "flag"} => ~readable[Slot(spot'[p])]
                      /\ pc'[p] = "flag" => value[Slot(spot'[p])] = Pushing(p)
    BY DEF PushesAtWork
  <2>1. Active(p)' => Active(p) /\ spot'[p] = spot[p] OBVIOUS
  <2>2. Active(p) => /\ spot[p] < tail /\ claims[spot[p] + 1] = Pushing(p)
                     /\ Live(spot[p])
    BY DEF SlotInv, PushesAtWork
  <2>3. pc'[p] = "flag" => value[Slot(spot[p])] = Pushing(p)
    BY DEF SlotInv, PushesAtWork
  <2>4. spot'[p] = spot[p] => (Live(spot[p])' <=> Live(spot[p]))
    BY DEF Live
  <2> HIDE DEF Slot, Pushing
  <2> QED BY <1>0, <2>1, <2>2, <2>3, <2>4
<1>5. PopsAtWork'
  <2> SUFFICES ASSUME NEW c \in Consumers
               PROVE  /\ Active(c)' => spot'[c] < head
                      /\ pc'[c] \in {"access", "flag"} => ~Filling(spot[c])'
    BY DEF PopsAtWork
  <2>1. Active(c)' => spot'[c] = spot[c] /\ spot[c] < head BY DEF SlotInv, PopsAtWork
  <2>2. spot'[c] = spot[c] => (Filling(spot[c])' <=> Filling(spot[c])) BY DEF Filling
  <2> QED BY <1>0, <2>1, <2>2
<1>6. FilledIsReadable' BY <1>1, <1>2 DEF SlotInv, FilledIsReadable
<1>7. ReadableIsFilled' BY <1>1, <1>2 DEF SlotInv, ReadableIsFilled
<1> QED BY <1>3, <1>4, <1>5, <1>6, <1>7 DEF SlotInv

\* Steps that reach no claim, no slot and no return leave the work as it is.
LEMMA IdleStep ==
  ASSUME SlotInv, UNCHANGED <<head, tail, readable, value, pushes, claims>>,
         NEW t \in Threads, ~Active(t), ~Active(t)',
         \A u \in Threads : u # t => pc'[u] = pc[u] /\ spot'[u] = spot[u]
  PROVE  SlotInv'
<1>1. \A u \in Threads : (Active(u)' <=> Active(u)) /\ (Active(u) => spot'[u] = spot[u])
  BY DEF Active
<1>2. \A u \in Threads : pc'[u] \in {"wait", "access", "flag"} => pc'[u] = pc[u]
  BY DEF Active
<1>3. \A u \in Threads : pc[u] = "wait" => pc'[u] = "wait" /\ spot'[u] = spot[u]
  BY DEF Active
<1>4. TurnsWait'
  <2> SUFFICES ASSUME NEW c \in Consumers, NEW pos \in Nat, Active(c)', spot'[c] < pos,
                      pos < tail, Slot(pos) = Slot(spot'[c])
               PROVE  \E p \in Producers : pc'[p] = "wait" /\ spot'[p] = pos
    BY DEF TurnsWait
  <2>1. Active(c) /\ spot'[c] = spot[c] BY <1>1
  <2>2. PICK p \in Producers : pc[p] = "wait" /\ spot[p] = pos
    BY <2>1 DEF SlotInv, TurnsWait
  <2> QED BY <1>3, <2>2
<1>5. \A p \in Producers : pc'[p] \in {"access", "flag"} => ~readable[Slot(spot[p])]
  BY <1>2 DEF SlotInv, PushesAtWork
<1>6. \A c \in Consumers : pc'[c] \in {"access", "flag"} => ~Filling(spot[c])
  BY <1>2 DEF SlotInv, PopsAtWork
<1> QED BY <1>1, <1>2, <1>4, <1>5, <1>6, SlotFrame

Numbers ==
  /\ head \in Nat /\ tail \in Nat /\ Capacity \in Nat \ {0, 1}
  /\ head <= tail /\ tail < head + Capacity
  /\ pc \in [Threads -> PcValues] /\ spot \in [Threads -> Nat]
  /\ claims \in Seq(Values) /\ Len(claims) = tail
  /\ readable \in [0..(Capacity - 1) -> BOOLEAN]
  /\ value \in [0..(Capacity - 1) -> Values \cup {Nothing}]
  /\ pushes \in [Producers -> 0..PushesEach]
  /\ popped \in [Consumers -> Seq(Values)]
  /\ Producers \cap Consumers = {}
  /\ \A t \in Threads : Slot(spot[t]) \in 0..(Capacity - 1)

LEMMA NumbersHold == CounterInv => Numbers
BY QueueAssumption, SlotIn DEF CounterInv, QueueTypeOK, Counters, Numbers, PcValues

\* A claim of a push: unless another push is at work on the slot, the ring is in order.
LEMMA SlotPushClaim ==
  ASSUME CounterInv, SlotInv, ~lapped', NEW p \in Producers, PushClaim(p) PROVE SlotInv'
<1>0. Numbers BY NumbersHold
<1>1. /\ tail' = tail + 1 /\ spot[p] = tail /\ pc[p] = "claim"
      /\ UNCHANGED <<head, readable, value, spot, pushes>>
      /\ pc' = [pc EXCEPT ![p] = "wait"] /\ claims' = Append(claims, Pushing(p))
      /\ \A q \in Producers : Active(q) => Slot(spot[q]) # Slot(tail)
  BY DEF PushClaim, Claim, Goto
<1>2. /\ pc'[p] = "wait" /\ \A t \in Threads : t # p => pc'[t] = pc[t]
      /\ p \in Threads /\ \A t \in Consumers : t # p
  BY <1>0, <1>1 DEF Numbers
<1>3. /\ Active(p)' /\ ~Active(p)
      /\ \A t \in Threads : t # p => (Active(t)' <=> Active(t))
  BY <1>1, <1>2 DEF Active
<1>4. /\ claims'[tail + 1] = Pushing(p)
      /\ \A i \in Nat : i < tail => claims'[i + 1] = claims[i + 1]
  <2>1. Pushing(p) \in Values BY <1>1, PushingIn DEF CounterInv
  <2> HIDE DEF Pushing, Values
  <2> QED BY <1>0, <1>1, <2>1 DEF Numbers
<1>5. \A t \in Threads : spot[t] \in Nat BY <1>0 DEF Numbers
<1>6. \A pos \in Nat : Live(pos)' <=> Live(pos) \/ pos = tail
  <2>1. /\ head \in Nat /\ tail \in Nat /\ head <= tail
        /\ head' = head /\ tail' = tail + 1 /\ spot' = spot
        /\ \A c \in Consumers : Active(c)' <=> Active(c)
    BY <1>0, <1>1, <1>2, <1>3 DEF Numbers
  <2> QED BY ONLY <2>1 DEF Live
<1>7. \A pos : Filling(pos)' <=> Filling(pos) \/ pos = tail
  BY <1>1, <1>2, <1>3 DEF Filling
<1>a. \A pos \in Nat : Live(pos) => pos < tail
  <2> TAKE pos \in Nat
  <2>1. \A c \in Consumers : Active(c) => spot[c] < head /\ spot[c] \in Nat
    BY <1>5 DEF SlotInv, PopsAtWork
  <2> QED BY <1>0, <2>1 DEF Live, Numbers
<1>8. OneEach'
  <2>1. ASSUME NEW q \in Producers, NEW r \in Producers, Active(q)', Active(r)',
               Slot(spot[q]) = Slot(spot[r])
        PROVE  q = r
    <3>1. CASE q # p /\ r # p BY <1>3, <2>1, <3>1 DEF SlotInv, OneEach
    <3>2. CASE q = p /\ r # p BY <1>1, <1>3, <2>1, <3>2
    <3>3. CASE q # p /\ r = p BY <1>1, <1>3, <2>1, <3>3
    <3> QED BY <3>1, <3>2, <3>3
  <2>2. ASSUME NEW c \in Consumers, NEW d \in Consumers, Active(c)', Active(d)',
               Slot(spot[c]) = Slot(spot[d])
        PROVE  c = d
    BY <1>2, <1>3, <2>2 DEF SlotInv, OneEach
  <2> QED BY <1>1, <2>1, <2>2 DEF OneEach
<1>9. PushesAtWork'
  <2> SUFFICES ASSUME NEW q \in Producers
               PROVE  /\ Active(q)' => /\ spot[q] < tail + 1
                                       /\ claims'[spot[q] + 1] = Pushing(q)
                                       /\ Live(spot[q])'
                      /\ pc'[q] \in {"access", "flag"} => ~readable[Slot(spot[q])]
                      /\ pc'[q] = "flag" => value[Slot(spot[q])] = Pushing(q)
    BY <1>1 DEF PushesAtWork, Live
  <2> HIDE DEF Slot, Pushing
  <2>a. Live(spot[q])' <=> Live(spot[q]) \/ spot[q] = tail
    <3>1. /\ head \in Nat /\ tail \in Nat /\ head <= tail /\ spot[q] \in Nat
          /\ head' = head /\ tail' = tail + 1 /\ spot' = spot
          /\ \A c \in Consumers : Active(c)' <=> Active(c)
      BY <1>0, <1>1, <1>2, <1>3, <1>5 DEF Numbers
    <3> QED BY ONLY <3>1 DEF Live
  <2>1. CASE q = p BY <1>0, <1>1, <1>2, <1>4, <2>a, <2>1 DEF Numbers
  <2>2. CASE q # p
    <3>1. Active(q)' => Active(q) /\ pc'[q] = pc[q] BY <1>2, <1>3, <2>2
    <3>2. Active(q) => spot[q] < tail /\ claims[spot[q] + 1] = Pushing(q) /\ Live(spot[q])
      BY DEF SlotInv, PushesAtWork
    <3>3. Active(q) => spot[q] < tail + 1 /\ claims'[spot[q] + 1] = Pushing(q) /\ Live(spot[q])'
      <4>1. tail \in Nat /\ spot[q] \in Nat BY <1>0, <1>5 DEF Numbers
      <4> QED BY ONLY <1>4, <2>a, <3>2, <4>1
    <3>4. pc'[q] = pc[q] BY <1>2, <2>2
    <3> QED BY <3>1, <3>3, <3>4 DEF SlotInv, PushesAtWork
  <2> QED BY <2>1, <2>2
<1>10. PopsAtWork'
  <2> SUFFICES ASSUME NEW c \in Consumers
               PROVE  /\ Active(c)' => spot[c] < head
                      /\ pc'[c] \in {"access", "flag"} => ~Filling(spot[c])'
    BY <1>1 DEF PopsAtWork, Filling
  <2>1. (Active(c)' <=> Active(c)) /\ pc'[c] = pc[c] BY <1>2, <1>3
  <2>2. Active(c) => spot[c] < head BY DEF SlotInv, PopsAtWork
  <2>3. Active(c) => spot[c] # tail BY <1>0, <1>5, <2>2 DEF Numbers
  <2>4. pc[c] \in {"access", "flag"} => Active(c) BY DEF Active
  <2>5. Filling(spot[c])' <=> Filling(spot[c]) \/ spot[c] = tail
    BY <1>1, <1>2, <1>3 DEF Filling
  <2> QED BY <2>1, <2>2, <2>3, <2>4, <2>5 DEF SlotInv, PopsAtWork
<1>11. FilledIsReadable'
  <2> SUFFICES ASSUME NEW pos \in Nat, Live(pos)', ~Filling(pos)'
               PROVE  readable[Slot(pos)] /\ value[Slot(pos)] = claims'[pos + 1]
    BY <1>1 DEF FilledIsReadable
  <2>1. Live(pos) /\ ~Filling(pos) BY <1>6, <1>7
  <2>2. pos < tail BY <1>a, <2>1
  <2> QED BY <1>4, <2>1, <2>2 DEF SlotInv, FilledIsReadable
<1>12. ReadableIsFilled'
  <2> SUFFICES ASSUME NEW i \in 0..(Capacity - 1), readable[i]
               PROVE  \E pos \in Nat : Live(pos)' /\ ~Filling(pos)' /\ Slot(pos) = i
    BY <1>1 DEF ReadableIsFilled
  <2>1. PICK pos \in Nat : Live(pos) /\ ~Filling(pos) /\ Slot(pos) = i
    BY DEF SlotInv, ReadableIsFilled
  <2>2. pos # tail BY <1>0, <1>a, <2>1 DEF Numbers
  <2> QED BY <1>6, <1>7, <2>1, <2>2
<1>13. TurnsWait'
  <2> SUFFICES ASSUME NEW c \in Consumers, NEW pos \in Nat, Active(c)', spot[c] < pos,
                      pos < tail + 1, Slot(pos) = Slot(spot[c])
               PROVE  \E q \in Producers : pc'[q] = "wait" /\ spot[q] = pos
    BY <1>1 DEF TurnsWait
  <2>1. CASE pos = tail BY <1>1, <1>2, <2>1
  <2>2. CASE pos # tail
    <3>1. Active(c) /\ pos < tail BY <1>0, <1>2, <1>3, <2>2 DEF Numbers
    <3>2. PICK q \in Producers : pc[q] = "wait" /\ spot[q] = pos
      BY <3>1 DEF SlotInv, TurnsWait
    <3>3. q # p BY <1>1, <3>2
    <3> QED BY <1>2, <3>2, <3>3
  <2> QED BY <2>1, <2>2
<1> QED BY <1>8, <1>9, <1>10, <1>11, <1>12, <1>13 DEF SlotInv

\* The push of a later turn goes on when the pop of this one has cleared the slot.
LEMMA SlotPushWait ==
  ASSUME CounterInv, SlotInv, NEW p \in Producers, PushWait(p) PROVE SlotInv'
<1>0. Numbers BY NumbersHold
<1>1. /\ UNCHANGED <<head, tail, readable, value, pushes, claims, spot>>
      /\ pc[p] = "wait" /\ pc' = [pc EXCEPT ![p] = "access"] /\ ~readable[Slot(spot[p])]
  BY DEF PushWait, Goto
<1>2. /\ pc'[p] = "access" /\ \A t \in Threads : t # p => pc'[t] = pc[t]
      /\ p \in Threads /\ \A t \in Consumers : t # p /\ t \in Threads
  BY <1>0, <1>1 DEF Numbers
<1>3. Active(p) /\ \A t \in Threads : Active(t)' <=> Active(t)
  BY <1>1, <1>2 DEF Active
<1>4. TurnsWait'
  <2> SUFFICES ASSUME NEW c \in Consumers, NEW pos \in Nat, Active(c), spot[c] < pos,
                      pos < tail, Slot(pos) = Slot(spot[c])
               PROVE  \E q \in Producers : pc'[q] = "wait" /\ spot[q] = pos
    BY <1>1, <1>2, <1>3 DEF TurnsWait
  <2>1. PICK q \in Producers : pc[q] = "wait" /\ spot[q] = pos BY DEF SlotInv, TurnsWait
  <2>2. ASSUME q = p PROVE FALSE
    <3>1. Live(spot[c]) /\ spot[c] \in Nat BY <1>0, <1>2 DEF Live, Numbers
    <3>2. ~readable[Slot(spot[c])] BY <1>1, <2>1, <2>2
    <3>3. Filling(spot[c]) BY <3>1, <3>2 DEF SlotInv, FilledIsReadable
    <3>4. PICK r \in Producers : Active(r) /\ spot[r] = spot[c] BY <3>3 DEF Filling
    <3>5. Slot(spot[r]) = Slot(spot[p]) BY <2>1, <2>2, <3>4
    <3>6. r = p BY <1>3, <3>4, <3>5 DEF SlotInv, OneEach
    <3> QED BY <1>0, <2>1, <2>2, <3>1, <3>4, <3>6
  <2> QED BY <1>2, <2>1, <2>2
<1>5. \A q \in Producers : pc'[q] \in {"access", "flag"} => ~readable[Slot(spot[q])]
  BY <1>1, <1>2 DEF SlotInv, PushesAtWork
<1>6. \A c \in Consumers : pc'[c] \in {"access", "flag"} => ~Filling(spot[c])
  BY <1>2 DEF SlotInv, PopsAtWork
<1>7. \A q \in Producers : pc'[q] = "flag" => pc[q] = "flag" BY <1>2
<1> QED BY <1>1, <1>3, <1>4, <1>5, <1>6, <1>7, SlotFrame

\* Only a push at work on a slot writes to it, and while it is not readable.
LEMMA SlotPushWrite ==
  ASSUME CounterInv, SlotInv, NEW p \in Producers, PushWrite(p) PROVE SlotInv'
<1>0. Numbers BY NumbersHold
<1>1. /\ UNCHANGED <<head, tail, readable, pushes, claims, spot>>
      /\ pc[p] = "access" /\ pc' = [pc EXCEPT ![p] = "flag"]
      /\ value' = [value EXCEPT ![Slot(spot[p])] = Pushing(p)]
  BY DEF PushWrite, Goto
<1>2. /\ pc'[p] = "flag" /\ \A t \in Threads : t # p => pc'[t] = pc[t]
      /\ p \in Threads /\ \A t \in Consumers : t # p /\ t \in Threads
  BY <1>0, <1>1 DEF Numbers
<1>3. Active(p) /\ \A t \in Threads : Active(t)' <=> Active(t)
  BY <1>1, <1>2 DEF Active
<1>4. ~readable[Slot(spot[p])] BY <1>1 DEF SlotInv, PushesAtWork
<1>5. \A i \in 0..(Capacity - 1) : readable[i] => value'[i] = value[i]
  BY <1>0, <1>1, <1>2, <1>4 DEF Numbers
<1>6. value'[Slot(spot[p])] = Pushing(p) BY <1>0, <1>1, <1>2 DEF Numbers
<1>7. \A i \in 0..(Capacity - 1) : i # Slot(spot[p]) => value'[i] = value[i]
  BY <1>0, <1>1 DEF Numbers
<1> HIDE DEF Slot, Pushing
<1>a. \A t \in Threads : Slot(spot[t]) \in 0..(Capacity - 1) BY <1>0 DEF Numbers
<1>b. \A pos : Live(pos)' <=> Live(pos) BY <1>1, <1>3 DEF Live
<1>c. \A pos : Filling(pos)' <=> Filling(pos) BY <1>1, <1>3 DEF Filling
<1>8. OneEach' BY <1>1, <1>3 DEF SlotInv, OneEach, Slot
<1>9. PushesAtWork'
  <2> SUFFICES ASSUME NEW q \in Producers
               PROVE  /\ Active(q)' => /\ spot[q] < tail /\ claims[spot[q] + 1] = Pushing(q)
                                       /\ Live(spot[q])'
                      /\ pc'[q] \in {"access", "flag"} => ~readable[Slot(spot[q])]
                      /\ pc'[q] = "flag" => value'[Slot(spot[q])] = Pushing(q)
    BY <1>1 DEF PushesAtWork, Slot, Pushing, Live
  <2>1. Active(q)' => /\ spot[q] < tail /\ claims[spot[q] + 1] = Pushing(q) /\ Live(spot[q])
    BY <1>3 DEF SlotInv, PushesAtWork
  <2>2. Live(spot[q])' <=> Live(spot[q]) BY <1>1, <1>3 DEF Live
  <2>3. pc'[q] \in {"access", "flag"} => ~readable[Slot(spot[q])]
    BY <1>2, <1>4 DEF SlotInv, PushesAtWork
  <2>4. pc'[q] = "flag" => value'[Slot(spot[q])] = Pushing(q)
    <3>1. CASE q = p BY <1>6, <3>1
    <3>2. CASE q # p
      <4> SUFFICES ASSUME pc'[q] = "flag" PROVE value'[Slot(spot[q])] = Pushing(q) OBVIOUS
      <4>1. pc[q] = "flag" /\ Active(q) BY <1>2, <3>2 DEF Active
      <4>2. Slot(spot[q]) # Slot(spot[p]) BY <1>3, <3>2, <4>1 DEF SlotInv, OneEach
      <4>3. value'[Slot(spot[q])] = value[Slot(spot[q])] BY <1>7, <1>a, <4>2
      <4> QED BY <4>1, <4>3 DEF SlotInv, PushesAtWork
    <3> QED BY <3>1, <3>2
  <2> QED BY <2>1, <2>2, <2>3, <2>4
<1>10. PopsAtWork'
  <2> SUFFICES ASSUME NEW c \in Consumers
               PROVE  /\ Active(c)' => spot[c] < head
                      /\ pc'[c] \in {"access", "flag"} => ~Filling(spot[c])'
    BY <1>1 DEF PopsAtWork, Filling
  <2>1. Filling(spot[c])' <=> Filling(spot[c]) BY <1>1, <1>3 DEF Filling
  <2> QED BY <1>2, <1>3, <2>1 DEF SlotInv, PopsAtWork
<1>11. FilledIsReadable'
  <2> SUFFICES ASSUME NEW pos \in Nat, Live(pos)', ~Filling(pos)'
               PROVE  readable[Slot(pos)] /\ value'[Slot(pos)] = claims[pos + 1]
    BY <1>1 DEF FilledIsReadable, Slot
  <2>1. readable[Slot(pos)] /\ value[Slot(pos)] = claims[pos + 1]
    BY <1>b, <1>c DEF SlotInv, FilledIsReadable
  <2>2. Slot(pos) \in 0..(Capacity - 1) BY SlotIn DEF Slot
  <2> QED BY <1>5, <2>1, <2>2
<1>12. ReadableIsFilled'
  <2>1. readable' = readable /\ \A pos : Slot(pos)' = Slot(pos) BY <1>1 DEF Slot
  <2> QED BY <1>b, <1>c, <2>1 DEF SlotInv, ReadableIsFilled
<1>13. TurnsWait'
  <2> SUFFICES ASSUME NEW c \in Consumers, NEW pos \in Nat, Active(c), spot[c] < pos,
                      pos < tail, Slot(pos) = Slot(spot[c])
               PROVE  \E q \in Producers : pc'[q] = "wait" /\ spot[q] = pos
    BY <1>1, <1>3 DEF TurnsWait, Slot
  <2>1. PICK q \in Producers : pc[q] = "wait" /\ spot[q] = pos BY DEF SlotInv, TurnsWait
  <2> QED BY <1>1, <1>2, <2>1
<1> QED BY <1>8, <1>9, <1>10, <1>11, <1>12, <1>13 DEF SlotInv

\* A push that ends leaves its position filled.
LEMMA SlotPushPublish ==
  ASSUME CounterInv, SlotInv, NEW p \in Producers, PushPublish(p) PROVE SlotInv'
<1>0. Numbers BY NumbersHold
<1>1. /\ UNCHANGED <<head, tail, value, claims>>
      /\ pc[p] = "flag" /\ pc' = [pc EXCEPT ![p] = "call"] /\ spot' = [spot EXCEPT ![p] = 0]
      /\ readable' = [readable EXCEPT ![Slot(spot[p])] = TRUE]
      /\ pushes' = [pushes EXCEPT ![p] = pushes[p] + 1]
  BY DEF PushPublish, Goto, Return
<1>2. /\ pc'[p] = "call" /\ p \in Threads /\ \A t \in Consumers : t # p /\ t \in Threads
      /\ \A t \in Threads : t # p => pc'[t] = pc[t] /\ spot'[t] = spot[t]
  BY <1>0, <1>1 DEF Numbers
<1>3. /\ Active(p) /\ ~Active(p)'
      /\ \A t \in Threads : t # p => (Active(t)' <=> Active(t))
  BY <1>1, <1>2 DEF Active
<1>4. \A q \in Producers : q # p => Pushing(q)' = Pushing(q) BY <1>0, <1>1 DEF Numbers
<1>5. /\ readable'[Slot(spot[p])]
      /\ \A i \in 0..(Capacity - 1) : readable[i] => readable'[i]
      /\ \A i \in 0..(Capacity - 1) : i # Slot(spot[p]) => readable'[i] = readable[i]
  <2>1. Slot(spot[p]) \in 0..(Capacity - 1) BY <1>0, <1>2 DEF Numbers
  <2>2. readable \in [0..(Capacity - 1) -> BOOLEAN] BY <1>0 DEF Numbers
  <2> HIDE DEF Slot
  <2> QED BY ONLY <1>1, <2>1, <2>2
<1>6. value[Slot(spot[p])] = claims[spot[p] + 1] /\ Live(spot[p])
  BY <1>1, <1>3 DEF SlotInv, PushesAtWork
<1> HIDE DEF Slot, Pushing
<1>a. \A t \in Threads : Slot(spot[t]) \in 0..(Capacity - 1) /\ spot[t] \in Nat
  BY <1>0 DEF Numbers
<1>b. \A pos : Live(pos)' <=> Live(pos) BY <1>1, <1>2, <1>3 DEF Live
<1>c. \A pos : Filling(pos)' => Filling(pos) /\ pos # spot[p]
  <2> SUFFICES ASSUME NEW pos, Filling(pos)' PROVE Filling(pos) /\ pos # spot[p] OBVIOUS
  <2>1. PICK q \in Producers : Active(q)' /\ spot'[q] = pos BY DEF Filling
  <2>2. q # p /\ Active(q) /\ spot[q] = pos BY <1>2, <1>3, <2>1
  <2>3. spot[q] # spot[p] BY <1>3, <2>2 DEF SlotInv, OneEach
  <2> QED BY <2>2, <2>3 DEF Filling
<1>d. \A pos : Filling(pos) /\ pos # spot[p] => Filling(pos)'
  BY <1>2, <1>3 DEF Filling
<1>8. OneEach'
  <2>1. ASSUME NEW q \in Producers, NEW r \in Producers, Active(q)', Active(r)',
               Slot(spot'[q]) = Slot(spot'[r])
        PROVE  q = r
    BY <1>2, <1>3, <2>1 DEF SlotInv, OneEach
  <2>2. ASSUME NEW c \in Consumers, NEW d \in Consumers, Active(c)', Active(d)',
               Slot(spot'[c]) = Slot(spot'[d])
        PROVE  c = d
    BY <1>2, <1>3, <2>2 DEF SlotInv, OneEach
  <2> QED BY <2>1, <2>2 DEF OneEach, Slot
<1>9. PushesAtWork'
  <2> SUFFICES ASSUME NEW q \in Producers
               PROVE  /\ Active(q)' => /\ spot'[q] < tail /\ claims[spot'[q] + 1] = Pushing(q)'
                                       /\ Live(spot[q])'
                      /\ pc'[q] \in {"access", "flag"} => ~readable'[Slot(spot'[q])]
                      /\ pc'[q] = "flag" => value[Slot(spot'[q])] = Pushing(q)'
    BY <1>1 DEF PushesAtWork, Slot, Pushing, Live
  <2>1. CASE q = p BY <1>2, <1>3, <2>1
  <2>2. CASE q # p
    <3>1. /\ pc'[q] = pc[q] /\ spot'[q] = spot[q] /\ Pushing(q)' = Pushing(q)
          /\ (Active(q)' <=> Active(q))
      BY <1>2, <1>3, <1>4, <2>2
    <3>2. Live(spot[q])' <=> Live(spot[q]) BY <1>1, <1>2, <1>3, <2>2 DEF Live
    <3>3. pc[q] \in {"access", "flag"} => ~readable'[Slot(spot[q])]
      <4> SUFFICES ASSUME pc[q] \in {"access", "flag"} PROVE ~readable'[Slot(spot[q])] OBVIOUS
      <4>1. Active(q) /\ ~readable[Slot(spot[q])] BY DEF Active, SlotInv, PushesAtWork
      <4>2. Slot(spot[q]) # Slot(spot[p]) BY <1>3, <2>2, <4>1 DEF SlotInv, OneEach
      <4> QED BY <1>5, <1>a, <4>1, <4>2
    <3> QED BY <3>1, <3>2, <3>3 DEF SlotInv, PushesAtWork
  <2> QED BY <2>1, <2>2
<1>10. PopsAtWork'
  <2> SUFFICES ASSUME NEW c \in Consumers
               PROVE  /\ Active(c) => spot[c] < head
                      /\ pc[c] \in {"access", "flag"} => ~Filling(spot[c])'
    BY <1>1, <1>2, <1>3 DEF PopsAtWork, Filling
  <2>1. Filling(spot[c])' => Filling(spot[c]) BY <1>2, <1>3 DEF Filling
  <2> QED BY <2>1 DEF SlotInv, PopsAtWork
<1>11. FilledIsReadable'
  <2> SUFFICES ASSUME NEW pos \in Nat, Live(pos)', ~Filling(pos)'
               PROVE  readable'[Slot(pos)] /\ value[Slot(pos)] = claims[pos + 1]
    BY <1>1 DEF FilledIsReadable, Slot
  <2>1. CASE pos = spot[p] BY <1>5, <1>6, <2>1
  <2>2. CASE pos # spot[p]
    <3>1. readable[Slot(pos)] /\ value[Slot(pos)] = claims[pos + 1]
      BY <1>b, <1>d, <2>2 DEF SlotInv, FilledIsReadable
    <3>2. Slot(pos) \in 0..(Capacity - 1) BY SlotIn DEF Slot
    <3> QED BY <1>5, <3>1, <3>2
  <2> QED BY <2>1, <2>2
<1>12. ReadableIsFilled'
  <2> SUFFICES ASSUME NEW i \in 0..(Capacity - 1), readable'[i]
               PROVE  \E pos \in Nat : Live(pos)' /\ ~Filling(pos)' /\ Slot(pos) = i
    BY <1>1 DEF ReadableIsFilled, Slot
  <2>1. CASE i = Slot(spot[p])
    BY <1>2, <1>6, <1>a, <1>b, <1>c, <2>1
  <2>2. CASE i # Slot(spot[p])
    <3>1. readable[i] BY <1>5, <2>2
    <3>2. PICK pos \in Nat : Live(pos) /\ ~Filling(pos) /\ Slot(pos) = i
      BY <3>1 DEF SlotInv, ReadableIsFilled
    <3> QED BY <1>b, <1>c, <3>2
  <2> QED BY <2>1, <2>2
<1>13. TurnsWait'
  <2> SUFFICES ASSUME NEW c \in Consumers, NEW pos \in Nat, Active(c), spot[c] < pos,
                      pos < tail, Slot(pos) = Slot(spot[c])
               PROVE  \E q \in Producers : pc'[q] = "wait" /\ spot'[q] = pos
    BY <1>1, <1>2, <1>3 DEF TurnsWait, Slot
  <2>1. PICK q \in Producers : pc[q] = "wait" /\ spot[q] = pos BY DEF SlotInv, TurnsWait
  <2>2. q # p BY <1>1, <2>1
  <2> QED BY <1>2, <2>1, <2>2
<1> QED BY <1>8, <1>9, <1>10, <1>11, <1>12, <1>13 DEF SlotInv

\* A claim of a pop: unless another pop is at work on the slot, the ring is in order.
LEMMA SlotPopClaim ==
  ASSUME CounterInv, SlotInv, ~lapped', NEW c \in Consumers, PopClaim(c) PROVE SlotInv'
<1>0. Numbers BY NumbersHold
<1>1. /\ head' = head + 1 /\ spot[c] = head /\ pc[c] = "claim" /\ head < tail
      /\ UNCHANGED <<tail, readable, value, spot, pushes, claims>>
      /\ pc' = [pc EXCEPT ![c] = "wait"]
      /\ \A d \in Consumers : Active(d) => Slot(spot[d]) # Slot(head)
  BY DEF PopClaim, Claim, Goto, CounterInv, Counters
<1>2. /\ pc'[c] = "wait" /\ \A t \in Threads : t # c => pc'[t] = pc[t]
      /\ c \in Threads /\ \A t \in Producers : t # c
  BY <1>0, <1>1 DEF Numbers
<1>3. /\ Active(c)' /\ ~Active(c)
      /\ \A t \in Threads : t # c => (Active(t)' <=> Active(t))
  BY <1>1, <1>2 DEF Active
<1>4. \A t \in Threads : spot[t] \in Nat BY <1>0 DEF Numbers
<1>5. \A d \in Consumers : Active(d)' <=> Active(d) \/ d = c BY <1>3
<1>6. head \in Nat /\ tail \in Nat BY <1>0 DEF Numbers
<1> HIDE DEF Slot, Pushing
<1>a. \A pos \in Nat : Live(pos)' <=> Live(pos)
  BY ONLY <1>1, <1>5, <1>6 DEF Live
<1>b. \A pos : Filling(pos)' <=> Filling(pos) BY <1>1, <1>2, <1>3 DEF Filling
<1>8. OneEach'
  <2>1. ASSUME NEW q \in Producers, NEW r \in Producers, Active(q)', Active(r)',
               Slot(spot[q]) = Slot(spot[r])
        PROVE  q = r
    BY <1>2, <1>3, <2>1 DEF SlotInv, OneEach
  <2>2. ASSUME NEW d \in Consumers, NEW e \in Consumers, Active(d)', Active(e)',
               Slot(spot[d]) = Slot(spot[e])
        PROVE  d = e
    <3>1. CASE d # c /\ e # c BY <1>3, <2>2, <3>1 DEF SlotInv, OneEach
    <3>2. CASE d = c /\ e # c BY <1>1, <1>3, <2>2, <3>2
    <3>3. CASE d # c /\ e = c BY <1>1, <1>3, <2>2, <3>3
    <3> QED BY <3>1, <3>2, <3>3
  <2> QED BY <1>1, <2>1, <2>2 DEF OneEach, Slot
<1>9. PushesAtWork'
  <2> SUFFICES ASSUME NEW q \in Producers
               PROVE  /\ Active(q)' => /\ spot[q] < tail /\ claims[spot[q] + 1] = Pushing(q)
                                       /\ Live(spot[q])'
                      /\ pc'[q] \in {"access", "flag"} => ~readable[Slot(spot[q])]
                      /\ pc'[q] = "flag" => value[Slot(spot[q])] = Pushing(q)
    BY <1>1 DEF PushesAtWork, Slot, Pushing, Live
  <2>1. Live(spot[q])' <=> Live(spot[q])
    <3>1. spot[q] \in Nat BY <1>4
    <3> QED BY ONLY <1>1, <1>5, <1>6, <3>1 DEF Live
  <2>2. pc'[q] = pc[q] /\ (Active(q)' <=> Active(q)) BY <1>2, <1>3
  <2> QED BY <2>1, <2>2 DEF SlotInv, PushesAtWork
<1>10. PopsAtWork'
  <2> SUFFICES ASSUME NEW d \in Consumers
               PROVE  /\ Active(d)' => spot[d] < head + 1
                      /\ pc'[d] \in {"access", "flag"} => ~Filling(spot[d])'
    BY <1>1 DEF PopsAtWork, Filling
  <2>1. Filling(spot[d])' <=> Filling(spot[d]) BY <1>1, <1>2, <1>3 DEF Filling
  <2>2. spot[d] \in Nat BY <1>4
  <2>3. CASE d = c BY <1>1, <1>2, <1>6, <2>3
  <2>4. CASE d # c BY <1>2, <1>3, <1>6, <2>1, <2>2, <2>4 DEF SlotInv, PopsAtWork
  <2> QED BY <2>3, <2>4
<1>11. FilledIsReadable'
  <2>1. UNCHANGED <<readable, value, claims>> /\ \A pos : Slot(pos)' = Slot(pos)
    BY <1>1 DEF Slot
  <2> QED BY <1>a, <1>b, <2>1 DEF SlotInv, FilledIsReadable
<1>12. ReadableIsFilled'
  <2>1. readable' = readable /\ \A pos : Slot(pos)' = Slot(pos) BY <1>1 DEF Slot
  <2> QED BY <1>a, <1>b, <2>1 DEF SlotInv, ReadableIsFilled
<1>13. TurnsWait'
  <2> SUFFICES ASSUME NEW d \in Consumers, NEW pos \in Nat, Active(d)', spot[d] < pos,
                      pos < tail, Slot(pos) = Slot(spot[d])
               PROVE  \E q \in Producers : pc'[q] = "wait" /\ spot[q] = pos
    BY <1>1 DEF TurnsWait, Slot
  <2>1. d # c
    <3>1. head < pos /\ Slot(pos) = Slot(head) => head + Capacity <= pos
      BY <1>6, SlotsDiffer DEF Slot
    <3>2. tail < head + Capacity /\ Capacity \in Nat BY <1>0 DEF Numbers
    <3> QED BY <1>1, <1>6, <3>1, <3>2
  <2>2. Active(d) BY <1>3, <2>1
  <2>3. PICK q \in Producers : pc[q] = "wait" /\ spot[q] = pos
    BY <2>2 DEF SlotInv, TurnsWait
  <2> QED BY <1>2, <2>3
<1> QED BY <1>8, <1>9, <1>10, <1>11, <1>12, <1>13 DEF SlotInv

\* A pop that finds its slot readable finds its own position filled, and reads it.
LEMMA SlotPopReads ==
  ASSUME CounterInv, SlotInv, NEW c \in Consumers, PopWait(c) \/ PopRead(c) PROVE SlotInv'
<1>0. Numbers BY NumbersHold
<1>1. /\ UNCHANGED <<head, tail, readable, value, pushes, claims, spot>>
      /\ pc[c] \in {"wait", "access"}
      /\ pc[c] = "wait" => readable[Slot(spot[c])]
      /\ \E where \in {"access", "flag"} : pc' = [pc EXCEPT ![c] = where]
  BY DEF PopWait, PopRead, Goto
<1>2. /\ pc'[c] \in {"access", "flag"} /\ \A t \in Threads : t # c => pc'[t] = pc[t]
      /\ c \in Threads /\ \A t \in Producers : t # c
  BY <1>0, <1>1 DEF Numbers
<1>3. Active(c) /\ \A t \in Threads : Active(t)' <=> Active(t)
  BY <1>1, <1>2 DEF Active
<1>4. spot[c] \in Nat /\ Slot(spot[c]) \in 0..(Capacity - 1) /\ head \in Nat
  BY <1>0, <1>2 DEF Numbers
<1> HIDE DEF Slot, Pushing
<1>5. ~Filling(spot[c])
  <2>1. CASE pc[c] = "access" BY <2>1 DEF SlotInv, PopsAtWork
  <2>2. CASE pc[c] = "wait"
    <3>1. PICK pos \in Nat : Live(pos) /\ ~Filling(pos) /\ Slot(pos) = Slot(spot[c])
      BY <1>1, <1>4, <2>2 DEF SlotInv, ReadableIsFilled
    <3>2. CASE head <= pos /\ pos < tail
      <4>1. spot[c] < pos BY <1>3, <1>4, <3>2 DEF SlotInv, PopsAtWork
      <4>2. PICK p \in Producers : pc[p] = "wait" /\ spot[p] = pos
        BY <1>3, <3>1, <3>2, <4>1 DEF SlotInv, TurnsWait
      <4> QED BY <3>1, <4>2 DEF Filling, Active
    <3>3. CASE ~(head <= pos /\ pos < tail)
      <4>1. PICK d \in Consumers : Active(d) /\ spot[d] = pos BY <3>1, <3>3 DEF Live
      <4>2. d = c BY <1>3, <3>1, <4>1 DEF SlotInv, OneEach
      <4> QED BY <3>1, <4>1, <4>2
    <3> QED BY <3>2, <3>3
  <2> QED BY <1>1, <2>1, <2>2
<1>6. TurnsWait'
  <2> SUFFICES ASSUME NEW d \in Consumers, NEW pos \in Nat, Active(d), spot[d] < pos,
                      pos < tail, Slot(pos) = Slot(spot[d])
               PROVE  \E q \in Producers : pc'[q] = "wait" /\ spot[q] = pos
    BY <1>1, <1>3 DEF TurnsWait, Slot
  <2>1. PICK q \in Producers : pc[q] = "wait" /\ spot[q] = pos BY DEF SlotInv, TurnsWait
  <2> QED BY <1>2, <2>1
<1>7. \A q \in Producers : pc'[q] \in {"access", "flag"} => ~readable[Slot(spot[q])]
  BY <1>2 DEF SlotInv, PushesAtWork
<1>8. \A q \in Producers : pc'[q] = "flag" => pc[q] = "flag" BY <1>2
<1>9. \A d \in Consumers : pc'[d] \in {"access", "flag"} => ~Filling(spot[d])
  BY <1>2, <1>5 DEF SlotInv, PopsAtWork
<1> QED BY <1>1, <1>3, <1>6, <1>7, <1>8, <1>9, SlotFrame

\* A pop clears no slot but its own, in which a push waits or nothing is left.
LEMMA SlotPopClear ==
  ASSUME CounterInv, SlotInv, NEW c \in Consumers, PopClear(c) PROVE SlotInv'
<1>0. Numbers BY NumbersHold
<1>1. /\ UNCHANGED <<head, tail, value, pushes, claims>>
      /\ pc[c] = "flag" /\ pc' = [pc EXCEPT ![c] = "call"] /\ spot' = [spot EXCEPT ![c] = 0]
      /\ readable' = [readable EXCEPT ![Slot(spot[c])] = FALSE]
  BY DEF PopClear, Return, Goto
<1>2. /\ pc'[c] = "call" /\ c \in Threads /\ \A t \in Producers : t # c
      /\ \A t \in Threads : t # c => pc'[t] = pc[t] /\ spot'[t] = spot[t]
  BY <1>0, <1>1 DEF Numbers
<1>3. /\ Active(c) /\ ~Active(c)'
      /\ \A t \in Threads : t # c => (Active(t)' <=> Active(t))
  BY <1>1, <1>2 DEF Active
<1>4. spot[c] \in Nat /\ spot[c] < head /\ head \in Nat
  BY <1>0, <1>2, <1>3 DEF Numbers, SlotInv, PopsAtWork
<1>5. /\ ~readable'[Slot(spot[c])]
      /\ \A i \in 0..(Capacity - 1) : i # Slot(spot[c]) => readable'[i] = readable[i]
  <2>1. Slot(spot[c]) \in 0..(Capacity - 1) BY <1>0, <1>2 DEF Numbers
  <2>2. readable \in [0..(Capacity - 1) -> BOOLEAN] BY <1>0 DEF Numbers
  <2> HIDE DEF Slot
  <2> QED BY ONLY <1>1, <2>1, <2>2
<1>6. ~Filling(spot[c]) BY <1>1 DEF SlotInv, PopsAtWork
<1> HIDE DEF Slot, Pushing
<1>a. \A t \in Threads : Slot(spot[t]) \in 0..(Capacity - 1) /\ spot[t] \in Nat
  BY <1>0 DEF Numbers, Slot
<1>b. \A pos \in Nat : Live(pos)' <=> Live(pos) /\ pos # spot[c]
  <2> SUFFICES ASSUME NEW pos \in Nat PROVE Live(pos)' <=> Live(pos) /\ pos # spot[c] OBVIOUS
  <2>1. CASE head <= pos /\ pos < tail BY <1>1, <1>4, <2>1 DEF Live
  <2>2. CASE ~(head <= pos /\ pos < tail)
    <3>1. Live(pos) <=> \E d \in Consumers : Active(d) /\ spot[d] = pos BY <2>2 DEF Live
    <3>2. Live(pos)' <=> \E d \in Consumers : Active(d)' /\ spot'[d] = pos
      BY <1>1, <2>2 DEF Live
    <3>3. \A d \in Consumers : Active(d) /\ spot[d] = spot[c] => d = c
      BY <1>3 DEF SlotInv, OneEach
    <3>4. \A d \in Consumers :
            Active(d)' /\ spot'[d] = pos <=> d # c /\ Active(d) /\ spot[d] = pos
      BY <1>2, <1>3
    <3> QED BY ONLY <3>1, <3>2, <3>3, <3>4, <1>3, c \in Consumers
  <2> QED BY <2>1, <2>2
<1>c. \A pos : Filling(pos)' <=> Filling(pos) BY <1>2, <1>3 DEF Filling
<1>8. OneEach'
  <2>1. ASSUME NEW q \in Producers, NEW r \in Producers, Active(q)', Active(r)',
               Slot(spot'[q]) = Slot(spot'[r])
        PROVE  q = r
    BY <1>2, <1>3, <2>1 DEF SlotInv, OneEach
  <2>2. ASSUME NEW d \in Consumers, NEW e \in Consumers, Active(d)', Active(e)',
               Slot(spot'[d]) = Slot(spot'[e])
        PROVE  d = e
    BY <1>2, <1>3, <2>2 DEF SlotInv, OneEach
  <2> QED BY <2>1, <2>2 DEF OneEach, Slot
<1>9. PushesAtWork'
  <2> SUFFICES ASSUME NEW q \in Producers
               PROVE  /\ Active(q)' => /\ spot'[q] < tail /\ claims[spot'[q] + 1] = Pushing(q)
                                       /\ Live(spot[q])'
                      /\ pc'[q] \in {"access", "flag"} => ~readable'[Slot(spot'[q])]
                      /\ pc'[q] = "flag" => value[Slot(spot'[q])] = Pushing(q)
    BY <1>1 DEF PushesAtWork, Slot, Pushing, Live
  <2>1. pc'[q] = pc[q] /\ spot'[q] = spot[q] /\ (Active(q)' <=> Active(q)) BY <1>2, <1>3
  <2>2. ASSUME Active(q), Live(spot[q]) PROVE Live(spot[q])'
    <3>1. spot[q] # spot[c] BY <1>6, <2>2 DEF Filling
    <3>2. CASE head <= spot[q] /\ spot[q] < tail BY <1>1, <2>1, <3>2 DEF Live
    <3>3. CASE ~(head <= spot[q] /\ spot[q] < tail)
      <4>1. PICK d \in Consumers : Active(d) /\ spot[d] = spot[q] BY <2>2, <3>3 DEF Live
      <4>2. d # c BY <3>1, <4>1
      <4>3. Active(d)' /\ spot'[d] = spot'[q] BY <1>2, <1>3, <2>1, <4>1, <4>2
      <4> QED BY <4>3 DEF Live
    <3> QED BY <3>2, <3>3
  <2>3. pc[q] \in {"access", "flag"} => ~readable'[Slot(spot[q])]
    BY <1>5, <1>a DEF SlotInv, PushesAtWork
  <2> QED BY <2>1, <2>2, <2>3 DEF SlotInv, PushesAtWork
<1>10. PopsAtWork'
  <2> SUFFICES ASSUME NEW d \in Consumers
               PROVE  /\ Active(d)' => spot'[d] < head
                      /\ pc'[d] \in {"access", "flag"} => ~Filling(spot[d])'
    BY <1>1 DEF PopsAtWork, Filling
  <2>1. CASE d = c BY <1>2, <1>3, <2>1
  <2>2. CASE d # c
    <3>1. pc'[d] = pc[d] /\ spot'[d] = spot[d] /\ (Active(d)' <=> Active(d)) BY <1>2, <1>3, <2>2
    <3>2. Filling(spot[d])' <=> Filling(spot[d]) BY <1>2, <1>3, <3>1 DEF Filling
    <3> QED BY <3>1, <3>2 DEF SlotInv, PopsAtWork
  <2> QED BY <2>1, <2>2
<1>11. FilledIsReadable'
  <2> SUFFICES ASSUME NEW pos \in Nat, Live(pos), pos # spot[c], ~Filling(pos)
               PROVE  readable'[Slot(pos)] /\ value[Slot(pos)] = claims[pos + 1]
    BY <1>1, <1>b, <1>c DEF FilledIsReadable, Slot
  <2>1. readable[Slot(pos)] /\ value[Slot(pos)] = claims[pos + 1]
    BY DEF SlotInv, FilledIsReadable
  <2>2. Slot(pos) # Slot(spot[c])
    <3> SUFFICES ASSUME Slot(pos) = Slot(spot[c]) PROVE FALSE OBVIOUS
    <3>1. CASE head <= pos /\ pos < tail
      <4>1. spot[c] < pos BY <1>4, <3>1
      <4>2. PICK p \in Producers : pc[p] = "wait" /\ spot[p] = pos
        BY <1>3, <3>1, <4>1 DEF SlotInv, TurnsWait
      <4> QED BY <4>2 DEF Filling, Active
    <3>2. CASE ~(head <= pos /\ pos < tail)
      <4>1. PICK d \in Consumers : Active(d) /\ spot[d] = pos BY <3>2 DEF Live
      <4> QED BY <1>3, <4>1 DEF SlotInv, OneEach
    <3> QED BY <3>1, <3>2
  <2>3. Slot(pos) \in 0..(Capacity - 1) BY SlotIn DEF Slot
  <2> QED BY <1>5, <2>1, <2>2, <2>3
<1>12. ReadableIsFilled'
  <2> SUFFICES ASSUME NEW i \in 0..(Capacity - 1), readable'[i]
               PROVE  \E pos \in Nat : Live(pos)' /\ ~Filling(pos)' /\ Slot(pos) = i
    BY <1>1 DEF ReadableIsFilled, Slot
  <2>1. readable[i] /\ i # Slot(spot[c]) BY <1>5
  <2>2. PICK pos \in Nat : Live(pos) /\ ~Filling(pos) /\ Slot(pos) = i
    BY <2>1 DEF SlotInv, ReadableIsFilled
  <2>3. pos # spot[c] BY <2>1, <2>2
  <2> QED BY <1>b, <1>c, <2>2, <2>3
<1>13. TurnsWait'
  <2> SUFFICES ASSUME NEW d \in Consumers, NEW pos \in Nat, Active(d)', spot'[d] < pos,
                      pos < tail, Slot(pos) = Slot(spot'[d])
               PROVE  \E q \in Producers : pc'[q] = "wait" /\ spot'[q] = pos
    BY <1>1 DEF TurnsWait, Slot
  <2>1. d # c /\ Active(d) /\ spot'[d] = spot[d] BY <1>2, <1>3
  <2>2. PICK q \in Producers : pc[q] = "wait" /\ spot[q] = pos
    BY <2>1 DEF SlotInv, TurnsWait
  <2> QED BY <1>2, <2>2
<1> QED BY <1>8, <1>9, <1>10, <1>11, <1>12, <1>13 DEF SlotInv

\* Until a claim laps another the ring stays in order.
LEMMA SlotStep ==
  CounterInv /\ SlotInv /\ [QueueNext]_queueVars /\ ~lapped' => SlotInv'
<1> SUFFICES ASSUME CounterInv, SlotInv, [QueueNext]_queueVars, ~lapped' PROVE SlotInv'
  OBVIOUS
<1>0. Numbers BY NumbersHold
<1>1. ASSUME NEW p \in Producers, PushReadTail(p) \/ PushReadHead(p) \/ ClaimFails(p)
      PROVE  SlotInv'
  <2>1. /\ UNCHANGED <<head, tail, readable, value, pushes, claims>>
        /\ pc[p] \in {"call", "other", "claim"} /\ pc'[p] \in {"call", "other", "claim"}
        /\ \A u \in Threads : u # p => pc'[u] = pc[u] /\ spot'[u] = spot[u]
    BY <1>0, <1>1 DEF PushReadTail, PushReadHead, ClaimFails, Return, Goto, Numbers
  <2>2. ~Active(p) /\ ~Active(p)' /\ p \in Threads BY <2>1 DEF Active
  <2> QED BY <2>1, <2>2, IdleStep
<1>2. ASSUME NEW c \in Consumers, PopReadHead(c) \/ PopReadTail(c) \/ ClaimFails(c)
      PROVE  SlotInv'
  <2>1. /\ UNCHANGED <<head, tail, readable, value, pushes, claims>>
        /\ pc[c] \in {"call", "other", "claim"} /\ pc'[c] \in {"call", "other", "claim"}
        /\ \A u \in Threads : u # c => pc'[u] = pc[u] /\ spot'[u] = spot[u]
    BY <1>0, <1>2 DEF PopReadHead, PopReadTail, ClaimFails, Return, Goto, Numbers
  <2>2. ~Active(c) /\ ~Active(c)' /\ c \in Threads BY <2>1 DEF Active
  <2> QED BY <2>1, <2>2, IdleStep
<1>3. CASE UNCHANGED queueVars
  <2>1. UNCHANGED <<head, tail, readable, value, pushes, claims, pc, spot>> BY <1>3
  <2>2. \A t \in Threads : (Active(t)' <=> Active(t)) /\ spot'[t] = spot[t]
    BY <2>1 DEF Active
  <2>3. TurnsWait' BY <2>1, <2>2 DEF SlotInv, TurnsWait
  <2>4. \A p \in Producers : pc'[p] \in {"access", "flag"} => ~readable[Slot(spot[p])]
    BY <2>1 DEF SlotInv, PushesAtWork
  <2>5. \A c \in Consumers : pc'[c] \in {"access", "flag"} => ~Filling(spot[c])
    BY <2>1 DEF SlotInv, PopsAtWork
  <2>6. \A p \in Producers : pc'[p] = "flag" => pc[p] = "flag" BY <2>1
  <2> QED BY <2>1, <2>2, <2>3, <2>4, <2>5, <2>6, SlotFrame
<1>4. ASSUME NEW p \in Producers, Producer(p) PROVE SlotInv'
  BY <1>1, <1>4, SlotPushClaim, SlotPushWait, SlotPushWrite, SlotPushPublish DEF Producer
<1>5. ASSUME NEW c \in Consumers, Consumer(c) PROVE SlotInv'
  BY <1>2, <1>5, SlotPopClaim, SlotPopReads, SlotPopClear DEF Consumer
<1> QED BY <1>3, <1>4, <1>5 DEF QueueNext

-------------------------------------------------------------------------------
(* The ring implements a queue of Capacity - 1 values. *)

\* The claimed positions from i on, as a new one is claimed.
LEMMA SubSeqOfAppend ==
  ASSUME NEW S, NEW q \in Seq(S), NEW x \in S, NEW i \in Nat, i <= Len(q)
  PROVE  SubSeq(Append(q, x), i + 1, Len(q) + 1) = Append(SubSeq(q, i + 1, Len(q)), x)
<1> DEFINE a == SubSeq(Append(q, x), i + 1, Len(q) + 1)
          b == Append(SubSeq(q, i + 1, Len(q)), x)
<1>1. a \in Seq(S) /\ Len(a) = Len(q) + 1 - i
  OBVIOUS
<1>2. b \in Seq(S) /\ Len(b) = Len(q) + 1 - i
  OBVIOUS
<1>3. \A k \in 1..(Len(q) + 1 - i) : a[k] = IF k + i <= Len(q) THEN q[k + i] ELSE x
  OBVIOUS
<1>4. \A k \in 1..(Len(q) + 1 - i) : b[k] = IF k + i <= Len(q) THEN q[k + i] ELSE x
  OBVIOUS
<1> HIDE DEF a, b
<1>5. a = b BY <1>1, <1>2, <1>3, <1>4
<1> QED BY <1>5 DEF a, b

\* The claimed positions from i on, as the first of them is taken.
LEMMA SubSeqFrom ==
  ASSUME NEW S, NEW q \in Seq(S), NEW i \in Nat, i < Len(q)
  PROVE  /\ SubSeq(q, i + 1, Len(q)) # <<>>
         /\ Head(SubSeq(q, i + 1, Len(q))) = q[i + 1]
         /\ SubSeq(q, i + 2, Len(q)) = Tail(SubSeq(q, i + 1, Len(q)))
<1> DEFINE a == SubSeq(q, i + 1, Len(q))
          b == SubSeq(q, i + 2, Len(q))
<1>1. a \in Seq(S) /\ Len(a) = Len(q) - i /\ \A k \in 1..(Len(q) - i) : a[k] = q[k + i]
  OBVIOUS
<1>2. b \in Seq(S) /\ Len(b) = Len(q) - i - 1
      /\ \A k \in 1..(Len(q) - i - 1) : b[k] = q[k + i + 1]
  OBVIOUS
<1> HIDE DEF a, b
<1>3. a # <<>> /\ Head(a) = q[i + 1] BY <1>1
<1>4. /\ Tail(a) \in Seq(S) /\ Len(Tail(a)) = Len(q) - i - 1
      /\ \A k \in 1..(Len(q) - i - 1) : Tail(a)[k] = a[k + 1]
  BY <1>1, <1>3
<1>5. ASSUME NEW k \in 1..(Len(q) - i - 1) PROVE Tail(a)[k] = b[k]
  <2>1. Tail(a)[k] = a[k + 1] /\ b[k] = q[k + i + 1] BY <1>2, <1>4
  <2>2. k + 1 \in 1..(Len(q) - i) /\ k + 1 + i = k + i + 1 OBVIOUS
  <2> QED BY <1>1, <2>1, <2>2
<1>6. b = Tail(a) BY <1>2, <1>4, <1>5
<1> QED BY <1>3, <1>6 DEF a, b

AbsQueue == SubSeq(claims, head + 1, tail)
AbsHeld  == [c \in Consumers |-> IF Popping(c) THEN claims[spot[c] + 1] ELSE Nothing]

\* The first state of the ring is one of the queue.
LEMMA QueueInitial == QueueInit => Queue!Init
<1> SUFFICES ASSUME QueueInit PROVE Queue!Init OBVIOUS
<1>1. /\ head = 0 /\ tail = 0 /\ claims = <<>>
      /\ \A t \in Threads : pc[t] = "call"
      /\ popped = [c \in Consumers |-> <<>>]
  BY DEF QueueInit
<1>2. SubSeq(claims, head + 1, tail) = <<>> BY <1>1
<1>3. [c \in Consumers |-> IF Popping(c) THEN claims[spot[c] + 1] ELSE Nothing]
        = [c \in Consumers |-> Nothing]
  BY <1>1 DEF Popping
<1> QED BY <1>1, <1>2, <1>3 DEF Queue!Init

\* A consumer that has claimed a position holds what was pushed there.
LEMMA HeldIs ==
  ASSUME CounterInv, SlotInv, NEW c \in Consumers, Popping(c)
  PROVE  /\ spot[c] \in Nat /\ spot[c] < tail
         /\ claims[spot[c] + 1] \in Values /\ claims[spot[c] + 1] # Nothing
<1>1. Numbers BY NumbersHold
<1>2. spot[c] \in Nat /\ spot[c] < head /\ head \in Nat /\ tail \in Nat /\ head <= tail
  BY <1>1 DEF Numbers, SlotInv, PopsAtWork, Popping, Active
<1>a. claims \in Seq(Values) /\ Len(claims) = tail BY <1>1 DEF Numbers
<1>3. spot[c] + 1 \in 1..Len(claims) /\ claims \in Seq(Values)
  BY ONLY <1>2, <1>a
<1>4. claims[spot[c] + 1] \in Values
  <2> HIDE DEF Values
  <2> QED BY <1>3
<1> QED BY <1>2, <1>4, NothingAssumption

\* A claim by a producer inserts, one by a consumer removes, its reading of the
\* slot returns, and every other step stutters - until a claim laps another.
LEMMA QueueStep ==
  CounterInv /\ SlotInv /\ [QueueNext]_queueVars => lapped' \/ [Queue!Next]_(Queue!queueVars)
<1> SUFFICES ASSUME CounterInv, SlotInv, [QueueNext]_queueVars, ~lapped'
             PROVE  Queue!Next \/ UNCHANGED <<AbsQueue, AbsHeld, popped>>
  BY DEF Queue!queueVars, AbsQueue, AbsHeld
<1>0. Numbers BY NumbersHold
<1>a. /\ claims \in Seq(Values) /\ Len(claims) = tail /\ head \in Nat /\ tail \in Nat
      /\ head <= tail /\ Capacity \in Nat /\ popped \in [Consumers -> Seq(Values)]
  BY <1>0 DEF Numbers
<1>b. Len(SubSeq(claims, head + 1, tail)) = tail - head BY <1>a
<1> HIDE DEF Slot, Pushing, Values
\* What the consumers hold changes only by a claim or a reading of their own.
<1>c. ASSUME \A c \in Consumers : Popping(c)' <=> Popping(c),
             \A c \in Consumers : Popping(c) => spot'[c] = spot[c],
             \A c \in Consumers : Popping(c) => claims'[spot[c] + 1] = claims[spot[c] + 1]
      PROVE  AbsHeld' = AbsHeld
  <2>1. \A c \in Consumers : (IF Popping(c)' THEN claims'[spot'[c] + 1] ELSE Nothing)
                               = (IF Popping(c) THEN claims[spot[c] + 1] ELSE Nothing)
    BY <1>c
  <2> QED BY <2>1 DEF AbsHeld
<1>1. ASSUME NEW p \in Producers, Producer(p), ~PushClaim(p)
      PROVE  UNCHANGED <<AbsQueue, AbsHeld, popped>>
  <2>1. /\ UNCHANGED <<head, tail, claims, popped>>
        /\ \A c \in Consumers : pc'[c] = pc[c] /\ spot'[c] = spot[c]
    BY <1>0, <1>1 DEF Producer, PushReadTail, PushReadHead, ClaimFails, PushWait,
       PushWrite, PushPublish, Goto, Return, Numbers
  <2>2. AbsHeld' = AbsHeld BY <1>c, <2>1 DEF Popping
  <2> QED BY <2>1, <2>2 DEF AbsQueue
<1>2. ASSUME NEW p \in Producers, PushClaim(p) PROVE Queue!Insert
  <2>1. /\ tail' = tail + 1 /\ spot[p] = tail /\ pc[p] = "claim"
        /\ head' = head /\ popped' = popped /\ spot' = spot
        /\ claims' = Append(claims, Pushing(p))
        /\ \A c \in Consumers : pc'[c] = pc[c]
    BY <1>0, <1>2 DEF PushClaim, Claim, Goto, Numbers
  <2>2. Pushing(p) \in Values BY <2>1, PushingIn DEF CounterInv
  <2>3. Len(SubSeq(claims, head + 1, tail)) < Capacity - 1
    <3>1. spot[p] + 1 < head + Capacity BY <2>1 DEF CounterInv, Counters
    <3> QED BY ONLY <1>a, <1>b, <2>1, <3>1
  <2>4. SubSeq(claims', head' + 1, tail') = Append(SubSeq(claims, head + 1, tail), Pushing(p))
    <3>1. head <= Len(claims) BY <1>a
    <3>2. SubSeq(Append(claims, Pushing(p)), head + 1, Len(claims) + 1)
          = Append(SubSeq(claims, head + 1, Len(claims)), Pushing(p))
      BY ONLY <1>a, <2>2, <3>1, SubSeqOfAppend
    <3> QED BY ONLY <1>a, <2>1, <3>2
  <2>5. \A c \in Consumers : Popping(c) => claims'[spot[c] + 1] = claims[spot[c] + 1]
    <3> TAKE c \in Consumers
    <3>1. Popping(c) => spot[c] \in Nat /\ spot[c] < tail BY HeldIs
    <3> QED BY ONLY <1>a, <2>1, <2>2, <3>1
  <2>6. AbsHeld' = AbsHeld BY <1>c, <2>1, <2>5 DEF Popping
  <2> QED BY <2>1, <2>2, <2>3, <2>4, <2>6 DEF Queue!Insert, AbsHeld
<1>3. ASSUME NEW c \in Consumers, Consumer(c), ~PopClaim(c), ~PopRead(c)
      PROVE  UNCHANGED <<AbsQueue, AbsHeld, popped>>
  <2>1. /\ UNCHANGED <<head, tail, claims, popped>>
        /\ \A d \in Consumers : d # c => pc'[d] = pc[d] /\ spot'[d] = spot[d]
        /\ (Popping(c)' <=> Popping(c)) /\ (Popping(c) => spot'[c] = spot[c])
    BY <1>0, <1>3 DEF Consumer, PopReadHead, PopReadTail, ClaimFails, PopWait, PopClear,
       Goto, Return, Popping, Numbers
  <2>2. \A d \in Consumers : /\ Popping(d)' <=> Popping(d)
                             /\ Popping(d) => spot'[d] = spot[d]
    BY <2>1 DEF Popping
  <2>3. AbsHeld' = AbsHeld BY <1>c, <2>1, <2>2
  <2> QED BY <2>1, <2>3 DEF AbsQueue
<1>4. ASSUME NEW c \in Consumers, PopClaim(c) PROVE Queue!Remove(c)
  <2>1. /\ head' = head + 1 /\ spot[c] = head /\ pc[c] = "claim" /\ head < tail
        /\ tail' = tail /\ claims' = claims /\ popped' = popped /\ spot' = spot
        /\ pc'[c] = "wait" /\ \A d \in Consumers : d # c => pc'[d] = pc[d]
    BY <1>0, <1>4 DEF PopClaim, Claim, Goto, Numbers, CounterInv, Counters
  <2>2. /\ SubSeq(claims, head + 1, tail) # <<>>
        /\ Head(SubSeq(claims, head + 1, tail)) = claims[head + 1]
        /\ SubSeq(claims, head + 2, tail) = Tail(SubSeq(claims, head + 1, tail))
    BY <1>a, <2>1, SubSeqFrom
  <2>3. head' + 1 = head + 2 BY <1>a, <2>1
  <2>4. /\ ~Popping(c) /\ Popping(c)'
        /\ \A d \in Consumers : d # c => (Popping(d)' <=> Popping(d))
    BY <2>1 DEF Popping
  <2>5. AbsHeld[c] = Nothing BY <2>4 DEF AbsHeld
  <2>6. AbsHeld' = [AbsHeld EXCEPT ![c] = claims[head + 1]]
    BY <2>1, <2>4 DEF AbsHeld
  <2> QED BY <2>1, <2>2, <2>3, <2>5, <2>6 DEF Queue!Remove, AbsHeld
<1>5. ASSUME NEW c \in Consumers, PopRead(c) PROVE Queue!Return(c)
  <2>1. /\ UNCHANGED <<head, tail, claims, spot>> /\ pc[c] = "access" /\ pc'[c] = "flag"
        /\ popped' = [popped EXCEPT ![c] = Append(popped[c], value[Slot(spot[c])])]
        /\ \A d \in Consumers : d # c => pc'[d] = pc[d]
    BY <1>0, <1>5 DEF PopRead, Goto, Numbers
  <2>2. /\ Popping(c) /\ ~Popping(c)'
        /\ \A d \in Consumers : d # c => (Popping(d)' <=> Popping(d))
    BY <2>1 DEF Popping
  <2>3. value[Slot(spot[c])] = claims[spot[c] + 1]
    <3>1. Live(spot[c]) /\ ~Filling(spot[c]) /\ spot[c] \in Nat
      BY <1>0, <2>1, <2>2, HeldIs DEF Live, Active, SlotInv, PopsAtWork
    <3> QED BY <3>1 DEF SlotInv, FilledIsReadable
  <2>4. AbsHeld[c] = claims[spot[c] + 1] BY <2>2 DEF AbsHeld
  <2>5. AbsHeld[c] # Nothing BY <2>2, <2>4, HeldIs
  <2>6. AbsHeld' = [AbsHeld EXCEPT ![c] = Nothing] BY <2>1, <2>2 DEF AbsHeld
  <2>7. popped' = [popped EXCEPT ![c] = Append(popped[c], AbsHeld[c])] BY <2>1, <2>3, <2>4
  <2> QED BY <2>1, <2>5, <2>6, <2>7 DEF Queue!Return, AbsHeld
<1>6. CASE UNCHANGED queueVars
  BY <1>6 DEF AbsQueue, AbsHeld, Popping
<1>7. QueueNext \/ UNCHANGED queueVars OBVIOUS
<1> QED BY <1>1, <1>2, <1>3, <1>4, <1>5, <1>6, <1>7 DEF QueueNext, Queue!Next

\* A claim that has lapped another is remembered.
LEMMA LappedStays == [QueueNext]_queueVars /\ lapped => lapped'
BY DEF QueueNext, Producer, Consumer, PushReadTail, PushReadHead, PushClaim, Claim, PushWait,
   PushWrite, PushPublish, PopReadHead, PopReadTail, PopClaim, PopWait, PopRead, PopClear,
   ClaimFails

\* For any number of producers and consumers and any capacity the ring is a queue of
\* Capacity - 1 values until a claim laps another: although slots are claimed, filled
\* and emptied in separate steps, the values come out unaltered and are removed in the
\* order of the claims.
THEOREM QueueImplemented == QueueSpec => ImplementsQueue
<1>1. QueueInit => CounterInv BY CountersInit
<1>2. CounterInv /\ [QueueNext]_queueVars => CounterInv' BY CountersStep
<1>3. QueueInit => SlotInv BY SlotInit
<1>4. CounterInv /\ (lapped \/ SlotInv) /\ [QueueNext]_queueVars => (lapped \/ SlotInv)'
  BY SlotStep, LappedStays
<1>5. QueueInit => Queue!Init BY QueueInitial
<1>6. CounterInv /\ (lapped \/ SlotInv) /\ [QueueNext]_queueVars =>
        lapped' \/ [Queue!Next]_(Queue!queueVars)
  BY QueueStep, LappedStays
<1> QED
  BY <1>1, <1>2, <1>3, <1>4, <1>5, <1>6, PTL DEF QueueSpec, ImplementsQueue

\* With one consumer no claim laps another, for a pop never overtakes itself, and
\* a push a turn later has waited for the pop of the position after its own.
AlwaysAtHead == \A c \in Consumers : Active(c) => spot[c] + 1 = head

THEOREM OneConsumerLapsNobody ==
  ASSUME \A c, d \in Consumers : c = d PROVE QueueSpec => []~lapped
<1>1. CounterInv /\ SlotInv /\ AlwaysAtHead /\ ~lapped /\ [QueueNext]_queueVars =>
        AlwaysAtHead' /\ ~lapped'
  <2> SUFFICES ASSUME CounterInv, SlotInv, AlwaysAtHead, ~lapped, [QueueNext]_queueVars
               PROVE  AlwaysAtHead' /\ ~lapped'
    OBVIOUS
  <2>0. Numbers BY NumbersHold
  <2>1. ASSUME NEW p \in Producers, PushClaim(p) PROVE AlwaysAtHead' /\ ~lapped'
    <3>1. /\ spot[p] = tail /\ pc[p] = "claim" /\ head' = head /\ spot' = spot
          /\ lapped' = (lapped \/ \E q \in Producers : Active(q) /\ Slot(spot[q]) = Slot(tail))
          /\ \A c \in Consumers : pc'[c] = pc[c]
      BY <2>0, <2>1 DEF PushClaim, Claim, Goto, Numbers
    <3>2. tail + 1 < head + Capacity BY <3>1 DEF CounterInv, Counters
    <3>3. ASSUME NEW q \in Producers, Active(q), Slot(spot[q]) = Slot(tail) PROVE FALSE
      <4>1. spot[q] \in Nat /\ spot[q] < tail /\ tail \in Nat /\ head \in Nat /\ Live(spot[q])
            /\ Capacity \in Nat
        BY <2>0, <3>3 DEF Numbers, SlotInv, PushesAtWork
      <4>2. spot[q] + Capacity <= tail BY <3>3, <4>1, SlotsDiffer
      <4>3. spot[q] >= head \/ spot[q] + 1 = head
        BY <4>1 DEF Live, AlwaysAtHead
      <4> QED BY ONLY <3>2, <4>1, <4>2, <4>3
    <3>4. AlwaysAtHead' BY <3>1 DEF AlwaysAtHead, Active
    <3> QED BY <3>1, <3>3, <3>4
  <2>2. ASSUME NEW c \in Consumers, PopClaim(c) PROVE AlwaysAtHead' /\ ~lapped'
    <3>1. /\ spot[c] = head /\ pc[c] = "claim" /\ head' = head + 1 /\ spot' = spot
          /\ lapped' = (lapped \/ \E d \in Consumers : Active(d) /\ Slot(spot[d]) = Slot(head))
      BY <2>2 DEF PopClaim, Claim
    <3>2. ~Active(c) /\ \A d \in Consumers : d = c BY <3>1 DEF Active
    <3> QED BY <3>1, <3>2 DEF AlwaysAtHead
  <2>3. ASSUME NEW p \in Producers, Producer(p), ~PushClaim(p) PROVE AlwaysAtHead' /\ ~lapped'
    <3>1. /\ head' = head /\ lapped' = lapped
          /\ \A c \in Consumers : pc'[c] = pc[c] /\ spot'[c] = spot[c]
      BY <2>0, <2>3 DEF Producer, PushReadTail, PushReadHead, ClaimFails, PushWait,
         PushWrite, PushPublish, Goto, Return, Numbers
    <3> QED BY <3>1 DEF AlwaysAtHead, Active
  <2>4. ASSUME NEW c \in Consumers, Consumer(c), ~PopClaim(c) PROVE AlwaysAtHead' /\ ~lapped'
    <3>1. /\ head' = head /\ lapped' = lapped
          /\ Active(c)' => Active(c) /\ spot'[c] = spot[c]
          /\ \A d \in Consumers : d = c
      BY <2>0, <2>4 DEF Consumer, PopReadHead, PopReadTail, ClaimFails, PopWait, PopRead,
         PopClear, Goto, Return, Active, Numbers
    <3> QED BY <3>1 DEF AlwaysAtHead
  <2>5. CASE UNCHANGED queueVars BY <2>5 DEF AlwaysAtHead, Active
  <2> QED BY <2>1, <2>2, <2>3, <2>4, <2>5 DEF QueueNext
<1>2. QueueInit => CounterInv /\ SlotInv /\ AlwaysAtHead /\ ~lapped
  BY CountersInit, SlotInit DEF QueueInit, AlwaysAtHead, Active
<1>3. CounterInv /\ SlotInv /\ AlwaysAtHead /\ ~lapped /\ [QueueNext]_queueVars =>
        (CounterInv /\ SlotInv /\ AlwaysAtHead /\ ~lapped)'
  BY <1>1, CountersStep, SlotStep
<1> QED BY <1>2, <1>3, PTL DEF QueueSpec

-------------------------------------------------------------------------------
\* Numbers have a least one among them, if they are finitely many.
LEMMA LeastOfFinite ==
  ASSUME NEW S \in SUBSET Int, IsFiniteSet(S), S # {} PROVE \E n \in S : \A x \in S : n <= x
<1> DEFINE below(n) == {y \in S : y < n}
           T == {Cardinality(below(n)) : n \in S}
<1>1. ASSUME NEW n \in S
      PROVE  below(n) \in SUBSET S /\ IsFiniteSet(below(n)) /\ Cardinality(below(n)) \in Nat
  <2>1. below(n) \in SUBSET S  OBVIOUS
  <2> HIDE DEF below
  <2> QED BY <2>1, FS_Subset, FS_CardinalityType
<1>2. T \in SUBSET Nat /\ T # {}  BY <1>1
<1> HIDE DEF T
<1>3. PICK c \in T : \A d \in T : c <= d  BY <1>2, LeastOf
<1>4. PICK n \in S : c = Cardinality(below(n))  BY <1>3 DEF T
<1>5. ASSUME NEW m \in S, m < n PROVE FALSE
  <2>0. n \in Int /\ m \in Int /\ \A y \in S : y \in Int  OBVIOUS
  <2>1. below(m) \in SUBSET below(n)
    <3>1. ASSUME NEW y \in S, y < m PROVE y < n  BY <1>5, <2>0, <3>1
    <3> QED BY <3>1
  <2>5. m \in below(n) /\ m \notin below(m)  BY <1>5, <2>0
  <2>2. Cardinality(below(m)) \in T  BY DEF T
  <2> HIDE DEF below
  <2>3. Cardinality(below(m)) <= Cardinality(below(n))
        /\ Cardinality(below(m)) # Cardinality(below(n))
    BY <1>1, <2>1, <2>5, FS_Subset
  <2>4. Cardinality(below(n)) <= Cardinality(below(m))  BY <1>3, <1>4, <2>2
  <2> QED BY <1>1, <2>3, <2>4
<1> QED BY <1>5

\* Numbers have a greatest one among them, if they are finitely many.
LEMMA GreatestOf ==
  ASSUME NEW S \in SUBSET Int, IsFiniteSet(S), S # {} PROVE \E n \in S : \A x \in S : x <= n
<1> DEFINE above(n) == {y \in S : n < y}
           T == {Cardinality(above(n)) : n \in S}
<1>1. ASSUME NEW n \in S
      PROVE  above(n) \in SUBSET S /\ IsFiniteSet(above(n)) /\ Cardinality(above(n)) \in Nat
  <2>1. above(n) \in SUBSET S  OBVIOUS
  <2> HIDE DEF above
  <2> QED BY <2>1, FS_Subset, FS_CardinalityType
<1>2. T \in SUBSET Nat /\ T # {}  BY <1>1
<1> HIDE DEF T
<1>3. PICK c \in T : \A d \in T : c <= d  BY <1>2, LeastOf
<1>4. PICK n \in S : c = Cardinality(above(n))  BY <1>3 DEF T
<1>5. ASSUME NEW m \in S, n < m PROVE FALSE
  <2>0. n \in Int /\ m \in Int /\ \A y \in S : y \in Int  OBVIOUS
  <2>1. above(m) \in SUBSET above(n)
    <3>1. ASSUME NEW y \in S, m < y PROVE n < y  BY <1>5, <2>0, <3>1
    <3> QED BY <3>1
  <2>5. m \in above(n) /\ m \notin above(m)  BY <1>5, <2>0
  <2>2. Cardinality(above(m)) \in T  BY DEF T
  <2> HIDE DEF above
  <2>3. Cardinality(above(m)) <= Cardinality(above(n))
        /\ Cardinality(above(m)) # Cardinality(above(n))
    BY <1>1, <2>1, <2>5, FS_Subset
  <2>4. Cardinality(above(n)) <= Cardinality(above(m))  BY <1>3, <1>4, <2>2
  <2> QED BY <1>1, <2>3, <2>4
<1> QED BY <1>5

-------------------------------------------------------------------------------
(* The skip list. *)

\* m is the next one to n of the nodes in N, or Nil when there is none.
IsNext(m, n, N) ==
  IF m = Nil THEN \A x \in N : x <= n
  ELSE m \in N /\ n < m /\ \A x \in N : x <= n \/ m <= x

\* Each node has a pointer at every level up to its height, and none is taller than level_.
Heights ==
  /\ DOMAIN forward = DOMAIN val \cup {HeadNode}
  /\ DOMAIN val \subseteq KeySet /\ IsFiniteSet(DOMAIN val) /\ val = [k \in DOMAIN val |-> val[k]]
  /\ level \in 0..(MaxLevel - 1) /\ DOMAIN forward[HeadNode] = 0..(MaxLevel - 1)
  /\ \A n \in DOMAIN val : \E h \in 0..level : DOMAIN forward[n] = 0..h

\* Each pointer leads to the next node that is tall enough.
Linked ==
  \A i \in 0..(MaxLevel - 1) : \A n \in OnLevel(i) : IsNext(forward[n][i], n, OnLevel(i))

\* level_ is in use.
TopUsed == level > 0 => forward[HeadNode][level] # Nil

SkipInv == Heights /\ Linked /\ TopUsed

\* The nodes of the levels.
LEMMA NodesOnLevels ==
  ASSUME SkipAssumption, Heights
  PROVE  /\ DOMAIN forward \in SUBSET Int /\ IsFiniteSet(DOMAIN forward)
         /\ \A n \in DOMAIN forward : n >= HeadNode /\ n # Nil
         /\ OnLevel(0) = DOMAIN forward
         /\ \A i \in 0..(MaxLevel - 1) :
              /\ HeadNode \in OnLevel(i) /\ OnLevel(i) \in SUBSET Int /\ IsFiniteSet(OnLevel(i))
              /\ OnLevel(i) \subseteq DOMAIN forward
              /\ i > level => OnLevel(i) = {HeadNode}
              /\ i + 1 <= MaxLevel - 1 => OnLevel(i + 1) \subseteq OnLevel(i)
<1>1. /\ DOMAIN forward \in SUBSET Int /\ IsFiniteSet(DOMAIN forward)
      /\ \A n \in DOMAIN forward : n >= HeadNode /\ n # Nil
  BY FS_AddElement DEF Heights, SkipAssumption, HeadNode, Nil
<1>2. MaxLevel \in Nat \ {0} /\ level \in Nat /\ level <= MaxLevel - 1
  BY DEF SkipAssumption, Heights
<1>3. OnLevel(0) = DOMAIN forward
  <2>1. 0 \in DOMAIN forward[HeadNode]  BY <1>2 DEF Heights
  <2>2. \A n \in DOMAIN val : 0 \in DOMAIN forward[n]  BY <1>2 DEF Heights
  <2> QED BY <2>1, <2>2 DEF OnLevel, Heights
<1>4. ASSUME NEW i \in 0..(MaxLevel - 1)
      PROVE  /\ HeadNode \in OnLevel(i) /\ OnLevel(i) \in SUBSET DOMAIN forward
             /\ i > level => OnLevel(i) = {HeadNode}
             /\ i + 1 <= MaxLevel - 1 => OnLevel(i + 1) \subseteq OnLevel(i)
  <2>1. HeadNode \in OnLevel(i) /\ OnLevel(i) \in SUBSET DOMAIN forward  BY DEF OnLevel, Heights
  <2>2. ASSUME i > level, NEW n \in OnLevel(i) PROVE n = HeadNode
    <3>1. CASE n \in DOMAIN val
      <4>1. PICK h \in 0..level : DOMAIN forward[n] = 0..h  BY <3>1 DEF Heights
      <4> QED BY <1>2, <2>2, <4>1 DEF OnLevel
    <3> QED BY <2>1, <3>1 DEF Heights
  <2>3. ASSUME i + 1 <= MaxLevel - 1, NEW n \in OnLevel(i + 1) PROVE n \in OnLevel(i)
    <3>1. CASE n \in DOMAIN val
      <4>1. PICK h \in 0..level : DOMAIN forward[n] = 0..h  BY <3>1 DEF Heights
      <4> QED BY <1>2, <2>3, <4>1 DEF OnLevel
    <3> QED BY <2>1, <2>3, <3>1 DEF Heights, OnLevel
  <2> QED BY <2>1, <2>2, <2>3
<1> QED BY <1>1, <1>3, <1>4, FS_Subset

-------------------------------------------------------------------------------
(* The descent. *)

\* p is the last node of level i whose key is less than k.
IsPred(p, i, k) == p \in OnLevel(i) /\ p < k /\ \A x \in OnLevel(i) : x < k => x <= p

LEMMA PredExists ==
  ASSUME SkipAssumption, Heights, NEW i \in 0..(MaxLevel - 1), NEW k \in Nat
  PROVE  \E p : IsPred(p, i, k)
<1> DEFINE S == {x \in OnLevel(i) : x < k}
<1>1. HeadNode \in S /\ S \in SUBSET OnLevel(i)  BY NodesOnLevels DEF HeadNode
<1>2. S \in SUBSET Int /\ IsFiniteSet(S)  BY <1>1, NodesOnLevels, FS_Subset
<1> HIDE DEF S
<1>3. PICK p \in S : \A x \in S : x <= p  BY <1>1, <1>2, GreatestOf
<1> QED BY <1>3 DEF S, IsPred

\* The pointer of the last node below k, and of the others below and above.
LEMMA NextOfPred ==
  ASSUME SkipAssumption, Heights, Linked, NEW i \in 0..(MaxLevel - 1), NEW k \in Nat,
         NEW p, IsPred(p, i, k), NEW n \in OnLevel(i)
  PROVE  LET m == forward[n][i] IN
         /\ m = Nil \/ (m \in OnLevel(i) /\ n < m)
         /\ n < k /\ m # Nil /\ m < k => n # p
         /\ n < k /\ ~(m # Nil /\ m < k) => n = p
<1> DEFINE m == forward[n][i]
<1>1. IsNext(m, n, OnLevel(i))  BY DEF Linked
<1>2. p \in Int /\ n \in Int /\ (m = Nil \/ m \in Int)  BY <1>1, NodesOnLevels DEF IsNext, IsPred
<1> HIDE DEF m
<1>3. m = Nil \/ (m \in OnLevel(i) /\ n < m)
  <2>1. CASE m = Nil  BY <2>1
  <2>2. CASE m # Nil  BY <1>1, <2>2 DEF IsNext
  <2> QED BY <2>1, <2>2
<1>4. n < k /\ m # Nil /\ m < k => n # p  BY <1>1, <1>2 DEF IsNext, IsPred
<1>5. n < k /\ ~(m # Nil /\ m < k) => n = p  BY <1>1, <1>2 DEF IsNext, IsPred
<1> QED BY <1>3, <1>4, <1>5 DEF m

\* What the recursive function of LastBelow satisfies.
Walks(g, i, k) ==
  g = [n \in OnLevel(i) |-> IF forward[n][i] # Nil /\ forward[n][i] < k
                            THEN g[forward[n][i]] ELSE n]

LEMMA LastBelowIs ==
  ASSUME NEW i, NEW from, NEW k
  PROVE  LastBelow(i, from, k) = (CHOOSE g : Walks(g, i, k))[from]
BY Zenon DEF LastBelow, Walks

\* A walk ends at the last node below.
LEMMA WalkEnds ==
  ASSUME SkipAssumption, Heights, Linked, NEW i \in 0..(MaxLevel - 1), NEW k \in Nat,
         NEW p, IsPred(p, i, k), NEW from \in OnLevel(i), from < k
  PROVE  LastBelow(i, from, k) = p
<1> DEFINE next(n) == forward[n][i]
           on(n) == next(n) # Nil /\ next(n) < k
<1>1. \E g : Walks(g, i, k)
  <2> DEFINE g == [n \in OnLevel(i) |-> IF n < k THEN p ELSE n]
  <2>1. ASSUME NEW n \in OnLevel(i) PROVE g[n] = IF on(n) THEN g[next(n)] ELSE n
    <3>1. /\ next(n) = Nil \/ (next(n) \in OnLevel(i) /\ n < next(n))
          /\ n < k /\ ~on(n) => n = p
      BY NextOfPred
    <3>2. n \in Int /\ (next(n) = Nil \/ next(n) \in Int)  BY <3>1, NodesOnLevels
    <3> HIDE DEF next
    <3>3. CASE on(n)  BY <3>1, <3>2, <3>3
    <3>4. CASE ~on(n)  BY <3>1, <3>2, <3>4
    <3> QED BY <3>3, <3>4
  <2> HIDE DEF g
  <2>2. g = [n \in OnLevel(i) |-> IF on(n) THEN g[next(n)] ELSE n]  BY <2>1 DEF g
  <2> QED BY <2>2 DEF Walks
<1>2. PICK g : Walks(g, i, k) /\ LastBelow(i, from, k) = g[from]
  <2>1. Walks(CHOOSE g : Walks(g, i, k), i, k)  BY <1>1
  <2> QED BY <2>1, LastBelowIs
<1>3. \A n \in OnLevel(i) : g[n] = IF on(n) THEN g[next(n)] ELSE n  BY <1>2 DEF Walks
<1> DEFINE Bad == {n \in OnLevel(i) : n < k /\ g[n] # p}
<1>4. Bad = {}
  <2> SUFFICES ASSUME Bad # {} PROVE FALSE  OBVIOUS
  <2>1. Bad \in SUBSET OnLevel(i)  OBVIOUS
  <2>2. Bad \in SUBSET Int /\ IsFiniteSet(Bad)  BY <2>1, NodesOnLevels, FS_Subset
  <2>3. PICK n \in Bad : \A x \in Bad : x <= n
    <3> HIDE DEF Bad
    <3> QED BY <2>2, GreatestOf
  <2>4. n \in OnLevel(i) /\ n < k /\ g[n] # p  OBVIOUS
  <2>5. /\ next(n) = Nil \/ (next(n) \in OnLevel(i) /\ n < next(n))
        /\ n < k /\ ~on(n) => n = p
    BY <2>4, NextOfPred
  <2>6. n \in Int /\ (next(n) = Nil \/ next(n) \in Int)  BY <2>4, <2>5, NodesOnLevels
  <2>7. on(n) /\ next(n) \in OnLevel(i) /\ n < next(n) /\ next(n) < k  BY <1>3, <2>4, <2>5
  <2>8. next(n) \notin Bad  BY <2>3, <2>6, <2>7
  <2> QED BY <1>3, <2>4, <2>7, <2>8
<1> QED BY <1>2, <1>4

\* What the recursive function of Before satisfies.
Descends(g, k) ==
  g = [i \in 0..level |-> LastBelow(i, IF i = level THEN HeadNode ELSE g[i + 1], k)]

LEMMA BeforeIs == ASSUME NEW k PROVE Before(k) = CHOOSE g : Descends(g, k)
BY Zenon DEF Before, Descends

\* The descent finds the last node below at each level, whichever way it takes.
LEMMA DescentFinds ==
  ASSUME SkipAssumption, Heights, Linked, NEW k \in Nat
  PROVE  \A i \in 0..level : IsPred(Before(k)[i], i, k)
<1> DEFINE at(i) == CHOOSE p : IsPred(p, i, k)
<1>0. level \in Nat /\ MaxLevel \in Nat /\ level <= MaxLevel - 1
      /\ \A i \in 0..level : i \in 0..(MaxLevel - 1)
  BY DEF Heights, SkipAssumption
<1>1. \A i \in 0..level : IsPred(at(i), i, k)  BY <1>0, PredExists
<1> HIDE DEF at
<1>2. LastBelow(level, HeadNode, k) = at(level)
  <2>1. HeadNode \in OnLevel(level) /\ HeadNode < k  BY <1>0, NodesOnLevels DEF HeadNode
  <2>2. level \in 0..level  BY <1>0
  <2> QED BY <1>0, <1>1, <2>1, <2>2, WalkEnds
<1>7. ASSUME NEW i \in 0..level, i # level, NEW from, IsPred(from, i + 1, k)
      PROVE  LastBelow(i, from, k) = at(i)
  <2>1. i + 1 \in 0..level  BY <1>0, <1>7
  <2>2. from \in OnLevel(i) /\ from < k  BY <1>0, <1>7, <2>1, NodesOnLevels DEF IsPred
  <2> QED BY <1>0, <1>1, <2>2, WalkEnds
<1>3. \E g : Descends(g, k)
  <2> DEFINE g == [i \in 0..level |-> at(i)]
  <2>1. ASSUME NEW i \in 0..level
        PROVE  g[i] = LastBelow(i, IF i = level THEN HeadNode ELSE g[i + 1], k)
    <3>1. CASE i = level  BY <1>2, <3>1
    <3>2. CASE i # level
      <4>1. i + 1 \in 0..level  BY <1>0, <3>2
      <4>2. IsPred(g[i + 1], i + 1, k)  BY <1>1, <4>1
      <4> QED BY <1>7, <3>2, <4>2
    <3> QED BY <3>1, <3>2
  <2> HIDE DEF g
  <2>2. g = [i \in 0..level |-> LastBelow(i, IF i = level THEN HeadNode ELSE g[i + 1], k)]
    BY <2>1 DEF g
  <2> QED BY <2>2 DEF Descends
<1>4. PICK g : Descends(g, k) /\ g = Before(k)
  <2>1. Descends(CHOOSE g : Descends(g, k), k)  BY <1>3
  <2> QED BY <2>1, BeforeIs
<1>5. \A i \in 0..level : g[i] = LastBelow(i, IF i = level THEN HeadNode ELSE g[i + 1], k)
  BY <1>4 DEF Descends
<1> DEFINE Bad == {i \in 0..level : g[i] # at(i)}
<1>6. Bad = {}
  <2> SUFFICES ASSUME Bad # {} PROVE FALSE  OBVIOUS
  <2>1. Bad \in SUBSET (0..level) /\ 0..level \in SUBSET Int /\ IsFiniteSet(0..level)
    BY <1>0, FS_Interval
  <2>2. PICK i \in Bad : \A j \in Bad : j <= i
    <3> HIDE DEF Bad
    <3> QED BY <2>1, FS_Subset, GreatestOf
  <2>3. i \in 0..level /\ g[i] # at(i)  OBVIOUS
  <2>4. CASE i = level  BY <1>2, <1>5, <2>3, <2>4
  <2>5. CASE i # level
    <3>1. i + 1 \in 0..level /\ ~(i + 1 <= i)  BY <1>0, <2>3, <2>5
    <3>2. g[i + 1] = at(i + 1)  BY <2>2, <3>1
    <3>3. IsPred(g[i + 1], i + 1, k)  BY <1>1, <3>1, <3>2
    <3> QED BY <1>5, <1>7, <2>3, <2>5, <3>3
  <2> QED BY <2>4, <2>5
<1> QED BY <1>1, <1>4, <1>6

\* The first node at or after k, if there is one.
LEMMA AtOrAfterIs ==
  ASSUME SkipAssumption, Heights, Linked, NEW k \in Nat
  PROVE  \/ AtOrAfter(k) = Nil /\ \A x \in DOMAIN val : x < k
         \/ /\ AtOrAfter(k) \in DOMAIN val /\ k <= AtOrAfter(k)
            /\ \A x \in DOMAIN val : x < k \/ AtOrAfter(k) <= x
<1> DEFINE p == Before(k)[0]
           m == forward[p][0]
<1>1. AtOrAfter(k) = m  BY DEF AtOrAfter
<1>2. 0 \in 0..level /\ 0 \in 0..(MaxLevel - 1)  BY DEF Heights, SkipAssumption
<1>3. IsPred(p, 0, k)  BY <1>2, DescentFinds
<1>4. IsNext(m, p, OnLevel(0))  BY <1>2, <1>3 DEF Linked, IsPred
<1>5. DOMAIN val \subseteq OnLevel(0) /\ OnLevel(0) = DOMAIN val \cup {HeadNode}
      /\ \A x \in OnLevel(0) : x \in Int /\ x >= HeadNode
  BY NodesOnLevels DEF Heights
<1>6. p \in Int /\ p < k /\ p >= HeadNode /\ \A x \in OnLevel(0) : x < k => x <= p
  BY <1>3, <1>5 DEF IsPred
<1> HIDE DEF p, m
<1>7. CASE m = Nil
  <2>1. \A x \in OnLevel(0) : x <= p  BY <1>4, <1>7 DEF IsNext
  <2>2. \A x \in DOMAIN val : x < k  BY <1>5, <1>6, <2>1
  <2> QED BY <1>1, <1>7, <2>2
<1>8. CASE m # Nil
  <2>1. m \in OnLevel(0) /\ p < m /\ \A x \in OnLevel(0) : x <= p \/ m <= x
    BY <1>4, <1>8 DEF IsNext
  <2>2. m \in DOMAIN val /\ k <= m  BY <1>5, <1>6, <2>1
  <2>3. \A x \in DOMAIN val : x < k \/ m <= x  BY <1>5, <1>6, <2>1
  <2> QED BY <1>1, <2>2, <2>3
<1> QED BY <1>7, <1>8

\* A key is found if it is there.
LEMMA FoundIfThere ==
  ASSUME SkipAssumption, Heights, Linked, NEW k \in KeySet
  PROVE  AtOrAfter(k) = k <=> k \in DOMAIN val
<1>1. k \in Nat /\ k # Nil  BY DEF SkipAssumption, Nil
<1>2. \A x \in DOMAIN val : x \in Int  BY DEF Heights, SkipAssumption
<1> QED BY <1>1, <1>2, AtOrAfterIs

-------------------------------------------------------------------------------
(* Nodes that come and go. *)

\* A new node is put behind the last one below it.
LEMMA NextAfterAdding ==
  ASSUME NEW N \in SUBSET Int, Nil \notin N, NEW k \in Int \ N, k # Nil,
         NEW p \in N, p < k, \A x \in N : x < k => x <= p,
         NEW n \in N \cup {k}, NEW m, IsNext(m, IF n = k THEN p ELSE n, N)
  PROVE  IsNext(IF n = p THEN k ELSE m, n, N \cup {k})
<1>1. CASE n = p
  <2>1. IsNext(k, p, N \cup {k})  BY DEF IsNext
  <2> QED BY <1>1, <2>1
<1>2. CASE n = k
  <2>1. IsNext(m, p, N) /\ n # p  BY <1>2
  <2>2. CASE m = Nil
    <3>1. \A x \in N : x <= p  BY <2>1, <2>2 DEF IsNext
    <3>2. \A x \in N \cup {k} : x <= k  BY <3>1
    <3> QED BY <1>2, <2>1, <2>2, <3>2 DEF IsNext
  <2>3. CASE m # Nil
    <3>1. m \in N /\ p < m /\ \A x \in N : x <= p \/ m <= x  BY <2>1, <2>3 DEF IsNext
    <3>2. k < m /\ \A x \in N \cup {k} : x <= k \/ m <= x  BY <3>1
    <3> QED BY <1>2, <2>1, <2>3, <3>1, <3>2 DEF IsNext
  <2> QED BY <2>2, <2>3
<1>3. CASE n # p /\ n # k
  <2>1. n \in N /\ IsNext(m, n, N)  BY <1>3
  <2>2. CASE m = Nil
    <3>1. \A x \in N : x <= n  BY <2>1, <2>2 DEF IsNext
    <3>2. \A x \in N \cup {k} : x <= n  BY <1>3, <2>1, <3>1
    <3> QED BY <1>3, <2>2, <3>2 DEF IsNext
  <2>3. CASE m # Nil
    <3>1. m \in N /\ n < m /\ \A x \in N : x <= n \/ m <= x  BY <2>1, <2>3 DEF IsNext
    <3>2. k <= n \/ m <= k  BY <1>3, <2>1, <3>1
    <3> QED BY <1>3, <2>3, <3>1, <3>2 DEF IsNext
  <2> QED BY <2>2, <2>3
<1> QED BY <1>1, <1>2, <1>3

\* Where a node was, the pointer to it leads to the one behind it.
LEMMA NextAfterRemoving ==
  ASSUME NEW N \in SUBSET Int, Nil \notin N, NEW k \in N,
         NEW p \in N, p < k, \A x \in N : x < k => x <= p,
         NEW n \in N \ {k}, NEW m, IsNext(m, IF n = p THEN k ELSE n, N)
  PROVE  IsNext(m, n, N \ {k})
<1>0. \A x \in N : x \in Int  OBVIOUS
<1>1. CASE n = p
  <2>1. IsNext(m, k, N)  BY <1>1
  <2>2. CASE m = Nil
    <3>1. \A x \in N : x <= k  BY <2>1, <2>2 DEF IsNext
    <3>2. \A x \in N \ {k} : x <= n  BY <1>0, <1>1, <3>1
    <3> QED BY <2>2, <3>2 DEF IsNext
  <2>3. CASE m # Nil
    <3>1. m \in N /\ k < m /\ \A x \in N : x <= k \/ m <= x  BY <2>1, <2>3 DEF IsNext
    <3>2. m \in N \ {k} /\ n < m  BY <1>0, <1>1, <3>1
    <3>3. \A x \in N \ {k} : x <= n \/ m <= x  BY <1>0, <1>1, <3>1
    <3> QED BY <2>3, <3>2, <3>3 DEF IsNext
  <2> QED BY <2>2, <2>3
<1>2. CASE n # p
  <2>1. IsNext(m, n, N)  BY <1>2
  <2>2. CASE m = Nil  BY <2>1, <2>2 DEF IsNext
  <2>3. CASE m # Nil
    <3>1. m \in N /\ n < m /\ \A x \in N : x <= n \/ m <= x  BY <2>1, <2>3 DEF IsNext
    <3>2. m # k  BY <1>0, <1>2, <3>1
    <3> QED BY <2>3, <3>1, <3>2 DEF IsNext
  <2> QED BY <2>2, <2>3
<1> QED BY <1>1, <1>2

\* Max is the greatest.
LEMMA MaxIs ==
  ASSUME NEW S \in SUBSET Int, IsFiniteSet(S), S # {}
  PROVE  Max(S) \in S /\ \A x \in S : x <= Max(S)
<1>1. PICK n \in S : \A x \in S : x <= n  BY GreatestOf
<1>2. \A x \in S : n >= x  BY <1>1
<1> QED BY <1>2 DEF Max

\* A new node is linked.
LEMMA InsertKeeps ==
  ASSUME SkipAssumption, SkipInv, NEW k \in KeySet, k \notin DOMAIN val, NEW h \in 0..(MaxLevel - 1),
         NEW v, forward' = Link(k, h), level' = Max({level, h}),
         val' = [n \in DOMAIN val \cup {k} |-> IF n = k THEN v ELSE val[n]]
  PROVE  SkipInv'
<1> USE DEF SkipInv
<1>0. /\ k \in Nat /\ k # Nil /\ k # HeadNode /\ k \notin DOMAIN forward
      /\ MaxLevel \in Nat \ {0} /\ level \in 0..(MaxLevel - 1) /\ 0..level \subseteq 0..(MaxLevel - 1)
  BY DEF SkipAssumption, Heights, Nil, HeadNode
<1> DEFINE at(i) == IF i <= level THEN Before(k)[i] ELSE HeadNode
<1>1. ASSUME NEW i \in 0..(MaxLevel - 1) PROVE IsPred(at(i), i, k)
  <2>1. CASE i <= level
    <3>1. i \in 0..level  BY <1>0, <2>1
    <3> QED BY <1>0, <2>1, <3>1, DescentFinds
  <2>2. CASE ~(i <= level)
    <3>1. OnLevel(i) = {HeadNode}  BY <1>0, <2>2, NodesOnLevels
    <3> QED BY <1>0, <2>2, <3>1 DEF IsPred, HeadNode
  <2> QED BY <2>1, <2>2
<1>2. /\ DOMAIN forward' = DOMAIN forward \cup {k}
      /\ DOMAIN forward'[k] = 0..h /\ \A i \in 0..h : forward'[k][i] = forward[at(i)][i]
      /\ \A n \in DOMAIN forward :
           /\ DOMAIN forward'[n] = DOMAIN forward[n]
           /\ \A i \in DOMAIN forward[n] :
                forward'[n][i] = IF i <= h /\ at(i) = n THEN k ELSE forward[n][i]
  BY <1>0 DEF Link
<1> HIDE DEF at
<1>3. ASSUME NEW i \in 0..(MaxLevel - 1)
      PROVE  OnLevel(i)' = IF i <= h THEN OnLevel(i) \cup {k} ELSE OnLevel(i)
  <2>1. i \in 0..h <=> i <= h  OBVIOUS
  <2> QED BY <1>0, <1>2, <2>1 DEF OnLevel
<1>4. Linked'
  <2> SUFFICES ASSUME NEW i \in 0..(MaxLevel - 1), NEW n \in OnLevel(i)'
               PROVE  IsNext(forward'[n][i], n, OnLevel(i)')
    BY DEF Linked
  <2>1. /\ OnLevel(i) \in SUBSET Int /\ Nil \notin OnLevel(i) /\ k \notin OnLevel(i)
        /\ OnLevel(i) \subseteq DOMAIN forward
    BY <1>0, NodesOnLevels
  <2>2. at(i) \in OnLevel(i) /\ at(i) < k /\ \A x \in OnLevel(i) : x < k => x <= at(i)
    BY <1>1 DEF IsPred
  <2>3. \A x \in OnLevel(i) : IsNext(forward[x][i], x, OnLevel(i)) /\ i \in DOMAIN forward[x]
    BY DEF Linked, OnLevel
  <2>4. CASE i <= h
    <3>1. n \in OnLevel(i) \cup {k}  BY <1>3, <2>4
    <3> DEFINE m == forward[IF n = k THEN at(i) ELSE n][i]
    <3>2. forward'[n][i] = IF n = at(i) THEN k ELSE m
      <4>1. CASE n = k  BY <1>2, <2>1, <2>2, <2>4, <4>1
      <4>2. CASE n # k  BY <1>2, <2>1, <2>3, <2>4, <3>1, <4>2
      <4> QED BY <4>1, <4>2
    <3>3. IsNext(m, IF n = k THEN at(i) ELSE n, OnLevel(i))  BY <2>2, <2>3, <3>1
    <3> HIDE DEF m
    <3>4. IsNext(IF n = at(i) THEN k ELSE m, n, OnLevel(i) \cup {k})
      <4>1. PICK p, N : p = at(i) /\ N = OnLevel(i)  OBVIOUS
      <4>2. /\ N \in SUBSET Int /\ Nil \notin N /\ k \in Int \ N
            /\ p \in N /\ p < k /\ \A x \in N : x < k => x <= p
            /\ n \in N \cup {k} /\ IsNext(m, IF n = k THEN p ELSE n, N)
        BY <1>0, <2>1, <2>2, <3>1, <3>3, <4>1
      <4>3. IsNext(IF n = p THEN k ELSE m, n, N \cup {k})  BY <1>0, <4>2, NextAfterAdding
      <4> QED BY <4>1, <4>3
    <3> QED BY <1>3, <2>4, <3>2, <3>4
  <2>5. CASE ~(i <= h)
    <3>1. n \in OnLevel(i) /\ OnLevel(i)' = OnLevel(i)  BY <1>3, <2>5
    <3>2. forward'[n][i] = forward[n][i]  BY <1>2, <2>1, <2>3, <2>5, <3>1
    <3> QED BY <2>3, <3>1, <3>2
  <2> QED BY <2>4, <2>5
<1>5. level' = IF h > level THEN h ELSE level
  <2>1. {level, h} \in SUBSET Int /\ IsFiniteSet({level, h})
    <3>1. IsFiniteSet({level}) /\ {level, h} = {level} \cup {h}  BY FS_Singleton
    <3> QED BY <1>0, <3>1, FS_AddElement
  <2>2. Max({level, h}) \in {level, h} /\ \A x \in {level, h} : x <= Max({level, h})
    BY <2>1, MaxIs
  <2>3. level \in Int /\ h \in Int  BY <1>0
  <2> QED BY <2>2, <2>3
<1>6. Heights'
  <2>1. DOMAIN val' = DOMAIN val \cup {k} /\ IsFiniteSet(DOMAIN val')
        /\ val' = [x \in DOMAIN val' |-> val'[x]] /\ DOMAIN val' \subseteq KeySet
    BY FS_AddElement DEF Heights
  <2>2. ASSUME NEW n \in DOMAIN val' PROVE \E g \in 0..level' : DOMAIN forward'[n] = 0..g
    <3>1. CASE n = k
      <4>1. h \in 0..level'  BY <1>0, <1>5
      <4> QED BY <1>2, <3>1, <4>1
    <3>2. CASE n # k
      <4>1. n \in DOMAIN val /\ n \in DOMAIN forward  BY <2>1, <3>2 DEF Heights
      <4>2. PICK g \in 0..level : DOMAIN forward[n] = 0..g  BY <4>1 DEF Heights
      <4>3. g \in 0..level'  BY <1>0, <1>5, <4>2
      <4> QED BY <1>2, <4>1, <4>2, <4>3
    <3> QED BY <3>1, <3>2
  <2>3. level' \in 0..(MaxLevel - 1)  BY <1>0, <1>5
  <2>4. DOMAIN forward'[HeadNode] = 0..(MaxLevel - 1) /\ DOMAIN forward' = DOMAIN val' \cup {HeadNode}
    BY <1>2, <2>1 DEF Heights
  <2> QED BY <2>1, <2>2, <2>3, <2>4 DEF Heights
<1>7. TopUsed'
  <2> SUFFICES ASSUME level' > 0 PROVE forward'[HeadNode][level'] # Nil
    BY DEF TopUsed
  <2>1. CASE h >= level
    <3>1. level' = h /\ k \in OnLevel(h)'  BY <1>0, <1>3, <1>5, <2>1
    <3>2. HeadNode \in OnLevel(h)'  BY <1>3, NodesOnLevels
    <3>3. IsNext(forward'[HeadNode][h], HeadNode, OnLevel(h)')  BY <1>4, <3>2 DEF Linked
    <3>4. ~(k <= HeadNode)  BY <1>0 DEF HeadNode
    <3> QED BY <3>1, <3>3, <3>4 DEF IsNext
  <2>2. CASE ~(h >= level)
    <3>1. level' = level /\ ~(level <= h) /\ level > 0  BY <1>0, <1>5, <2>2
    <3>2. HeadNode \in DOMAIN forward /\ level \in DOMAIN forward[HeadNode]  BY <1>0 DEF Heights
    <3>3. forward'[HeadNode][level] = forward[HeadNode][level]  BY <1>2, <3>1, <3>2
    <3> QED BY <3>1, <3>3 DEF TopUsed
  <2> QED BY <2>1, <2>2
<1> QED BY <1>4, <1>6, <1>7

\* The predecessors of a node point to it at the levels it is tall enough for.
LEMMA UnlinkedIs ==
  ASSUME SkipAssumption, Heights, Linked, NEW k \in DOMAIN val
  PROVE  /\ Unlinked(k) = {i \in 0..level : k \in OnLevel(i)}
         /\ \A i \in 0..level : IsPred(Before(k)[i], i, k)
<1>0. /\ k \in Nat /\ k # Nil /\ k \in DOMAIN forward
      /\ level \in Nat /\ \A i \in 0..level : i \in 0..(MaxLevel - 1)
  BY DEF SkipAssumption, Heights, Nil
<1>1. \A i \in 0..level : IsPred(Before(k)[i], i, k)  BY <1>0, DescentFinds
<1>2. ASSUME NEW i \in 0..level PROVE forward[Before(k)[i]][i] = k <=> k \in OnLevel(i)
  <2> DEFINE p == Before(k)[i]
             m == forward[p][i]
  <2>1. p \in OnLevel(i) /\ p < k /\ \A x \in OnLevel(i) : x < k => x <= p  BY <1>1 DEF IsPred
  <2>2. IsNext(m, p, OnLevel(i))  BY <1>0, <2>1 DEF Linked
  <2>3. \A x \in OnLevel(i) : x \in Int  BY <1>0, NodesOnLevels
  <2> HIDE DEF p, m
  <2>4. m = k => k \in OnLevel(i)  BY <1>0, <2>2 DEF IsNext
  <2>5. ASSUME k \in OnLevel(i) PROVE m = k
    <3>1. m # Nil  BY <1>0, <2>1, <2>2, <2>3, <2>5 DEF IsNext
    <3>2. m \in OnLevel(i) /\ p < m /\ (k <= p \/ m <= k)  BY <2>2, <2>5, <3>1 DEF IsNext
    <3>3. ~(m < k)  BY <2>1, <2>3, <3>2
    <3> QED BY <1>0, <2>1, <2>3, <3>2, <3>3
  <2> QED BY <2>4, <2>5 DEF m, p
<1>3. PICK h \in 0..level : DOMAIN forward[k] = 0..h  BY DEF Heights
<1>4. \A i \in 0..level : k \in OnLevel(i) <=> i <= h  BY <1>0, <1>3 DEF OnLevel
<1>5. \A i \in 0..level : (\A j \in 0..i : forward[Before(k)[j]][j] = k) <=> k \in OnLevel(i)
  <2> SUFFICES ASSUME NEW i \in 0..level
               PROVE  (\A j \in 0..i : forward[Before(k)[j]][j] = k) <=> k \in OnLevel(i)
    OBVIOUS
  <2>1. i \in 0..i /\ \A j \in 0..i : j \in 0..level  BY <1>0
  <2>2. i <= h => \A j \in 0..i : j <= h  BY <1>0
  <2> QED BY <1>2, <1>4, <2>1, <2>2
<1> QED BY <1>1, <1>5 DEF Unlinked

\* A node is unlinked.
LEMMA RemoveKeeps ==
  ASSUME SkipAssumption, SkipInv, NEW k \in DOMAIN val, forward' = Unlink(k),
         level' = Lowered(Unlink(k)[HeadNode]), val' = [n \in DOMAIN val \ {k} |-> val[n]]
  PROVE  SkipInv'
<1> USE DEF SkipInv
<1>0. /\ k \in Nat /\ k # Nil /\ k # HeadNode /\ k \in DOMAIN forward
      /\ MaxLevel \in Nat \ {0} /\ level \in 0..(MaxLevel - 1)
      /\ \A i \in 0..level : i \in 0..(MaxLevel - 1)
  BY DEF SkipAssumption, Heights, Nil, HeadNode
<1>1. /\ DOMAIN forward' = DOMAIN forward \ {k}
      /\ \A n \in DOMAIN forward \ {k} :
           /\ DOMAIN forward'[n] = DOMAIN forward[n]
           /\ \A i \in DOMAIN forward[n] :
                forward'[n][i] = IF i \in Unlinked(k) /\ Before(k)[i] = n THEN forward[k][i]
                                 ELSE forward[n][i]
  BY DEF Unlink
<1>2. ASSUME NEW i \in 0..(MaxLevel - 1) PROVE OnLevel(i)' = OnLevel(i) \ {k}
  BY <1>1 DEF OnLevel
<1>3. Linked'
  <2> SUFFICES ASSUME NEW i \in 0..(MaxLevel - 1), NEW n \in OnLevel(i)'
               PROVE  IsNext(forward'[n][i], n, OnLevel(i)')
    BY DEF Linked
  <2>1. /\ OnLevel(i) \in SUBSET Int /\ Nil \notin OnLevel(i)
        /\ OnLevel(i) \subseteq DOMAIN forward
    BY <1>0, NodesOnLevels
  <2>2. n \in OnLevel(i) \ {k} /\ n \in DOMAIN forward \ {k} /\ i \in DOMAIN forward[n]
    BY <1>2, <2>1 DEF OnLevel
  <2>3. \A x \in OnLevel(i) : IsNext(forward[x][i], x, OnLevel(i))  BY DEF Linked
  <2>4. CASE k \in OnLevel(i)
    <3>1. i \in 0..level
      <4>1. ~(i > level)  BY <1>0, <2>4, NodesOnLevels
      <4> QED BY <1>0, <4>1
    <3>2. i \in Unlinked(k) /\ IsPred(Before(k)[i], i, k)  BY <2>4, <3>1, UnlinkedIs
    <3> DEFINE p == Before(k)[i]
    <3>3. p \in OnLevel(i) /\ p < k /\ \A x \in OnLevel(i) : x < k => x <= p  BY <3>2 DEF IsPred
    <3>4. forward'[n][i] = forward[IF n = p THEN k ELSE n][i]  BY <1>1, <2>2, <3>2
    <3> HIDE DEF p
    <3>5. IsNext(forward'[n][i], IF n = p THEN k ELSE n, OnLevel(i))  BY <2>2, <2>3, <2>4, <3>4
    <3>6. IsNext(forward'[n][i], n, OnLevel(i) \ {k})
      BY <2>1, <2>2, <2>4, <3>3, <3>5, NextAfterRemoving
    <3> QED BY <1>2, <3>6
  <2>5. CASE k \notin OnLevel(i)
    <3>1. i \notin Unlinked(k)  BY <2>5, UnlinkedIs
    <3>2. forward'[n][i] = forward[n][i]  BY <1>1, <2>2, <3>1
    <3>3. OnLevel(i)' = OnLevel(i)  BY <1>2, <2>5
    <3> QED BY <2>2, <2>3, <3>2, <3>3
  <2> QED BY <2>4, <2>5
<1> DEFINE S == {0} \cup {i \in 0..level : forward'[HeadNode][i] # Nil}
<1>4. level' = Max(S)  BY DEF Lowered
<1>5. S \in SUBSET (0..level) /\ Max(S) \in S /\ \A x \in S : x <= Max(S)
  <2>1. S \in SUBSET (0..level) /\ 0 \in S  BY <1>0
  <2> HIDE DEF S
  <2>2. IsFiniteSet(0..level) /\ 0..level \in SUBSET Int  BY <1>0, FS_Interval
  <2>3. IsFiniteSet(S) /\ S \in SUBSET Int  BY <2>1, <2>2, FS_Subset
  <2> QED BY <2>1, <2>3, MaxIs
<1>6. level' \in 0..level /\ level' \in S /\ \A x \in S : x <= level'
  <2> HIDE DEF S
  <2> QED BY <1>4, <1>5
<1>7. DOMAIN val' = DOMAIN val \ {k} /\ HeadNode \in DOMAIN forward \ {k}
  BY <1>0 DEF Heights
<1>8. ASSUME NEW n \in DOMAIN val' PROVE \E h \in 0..level' : DOMAIN forward'[n] = 0..h
  <2>1. n \in DOMAIN val /\ n \in DOMAIN forward \ {k} /\ n \in Nat
    BY <1>7 DEF Heights, SkipAssumption
  <2>2. PICK h \in 0..level : DOMAIN forward[n] = 0..h  BY <2>1 DEF Heights
  <2>3. h \in 0..(MaxLevel - 1) /\ n \in OnLevel(h)' /\ HeadNode \in OnLevel(h)'
    <3>1. h \in 0..(MaxLevel - 1) /\ h \in 0..h  BY <1>0
    <3>2. n \in OnLevel(h) /\ HeadNode \in OnLevel(h)  BY <2>1, <2>2, <3>1, NodesOnLevels DEF OnLevel
    <3> QED BY <1>0, <1>2, <2>1, <3>1, <3>2
  <2>4. IsNext(forward'[HeadNode][h], HeadNode, OnLevel(h)')  BY <1>3, <2>3 DEF Linked
  <2>5. ~(n <= HeadNode)  BY <2>1 DEF HeadNode
  <2>6. forward'[HeadNode][h] # Nil  BY <2>3, <2>4, <2>5 DEF IsNext
  <2>7. h \in S  BY <2>6
  <2>8. h \in 0..level'  BY <1>0, <1>6, <2>7
  <2> QED BY <1>1, <2>1, <2>2, <2>8
<1>9. Heights'
  <2>1. IsFiniteSet(DOMAIN val') /\ val' = [x \in DOMAIN val' |-> val'[x]] /\ DOMAIN val' \subseteq KeySet
    BY <1>7, FS_RemoveElement DEF Heights
  <2>2. level' \in 0..(MaxLevel - 1)  BY <1>0, <1>6
  <2>3. DOMAIN forward'[HeadNode] = 0..(MaxLevel - 1) /\ DOMAIN forward' = DOMAIN val' \cup {HeadNode}
    BY <1>1, <1>7 DEF Heights
  <2> QED BY <1>8, <2>1, <2>2, <2>3 DEF Heights
<1>10. TopUsed'
  <2> SUFFICES ASSUME level' > 0 PROVE forward'[HeadNode][level'] # Nil
    BY DEF TopUsed
  <2> QED BY <1>6
<1> QED BY <1>3, <1>9, <1>10

LEMMA SkipInitially == ASSUME SkipAssumption, SkipInit PROVE SkipInv
<1>1. /\ DOMAIN val = {} /\ DOMAIN forward = {HeadNode} /\ level = 0 /\ MaxLevel \in Nat \ {0}
      /\ DOMAIN forward[HeadNode] = 0..(MaxLevel - 1)
      /\ \A i \in 0..(MaxLevel - 1) : forward[HeadNode][i] = Nil
  BY DEF SkipInit, SkipAssumption
<1>2. Heights
  <2>1. IsFiniteSet(DOMAIN val) /\ DOMAIN val \subseteq KeySet  BY <1>1, FS_EmptySet
  <2>2. val = [k \in DOMAIN val |-> val[k]]  BY DEF SkipInit
  <2>3. level \in 0..(MaxLevel - 1)  BY <1>1
  <2> QED BY <1>1, <2>1, <2>2, <2>3 DEF Heights
<1>3. Linked
  <2> SUFFICES ASSUME NEW i \in 0..(MaxLevel - 1), NEW n \in OnLevel(i)
               PROVE  IsNext(forward[n][i], n, OnLevel(i))
    BY DEF Linked
  <2>1. n = HeadNode /\ \A x \in OnLevel(i) : x = HeadNode  BY <1>1 DEF OnLevel
  <2> QED BY <1>1, <2>1 DEF IsNext, HeadNode
<1>4. TopUsed  BY <1>1 DEF TopUsed
<1> QED BY <1>2, <1>3, <1>4 DEF SkipInv

\* Every call keeps the list.
LEMMA SkipStep == ASSUME SkipAssumption, SkipInv, [SkipNext]_skipVars PROVE SkipInv'
<1>1. ASSUME UNCHANGED <<forward, level>>, DOMAIN val' = DOMAIN val,
             val' = [k \in DOMAIN val' |-> val'[k]]
      PROVE  SkipInv'
  <2>1. forward' = forward /\ level' = level  BY <1>1
  <2>2. \A i : OnLevel(i)' = OnLevel(i)  BY <2>1 DEF OnLevel
  <2>3. Linked'  BY <2>1, <2>2 DEF SkipInv, Linked
  <2>4. Heights'  BY <1>1, <2>1 DEF SkipInv, Heights
  <2>5. TopUsed'  BY <2>1 DEF SkipInv, TopUsed
  <2> QED BY <2>3, <2>4, <2>5 DEF SkipInv
<1>2. ASSUME UNCHANGED <<forward, val, level>> PROVE SkipInv'
  BY <1>1, <1>2 DEF SkipInv, Heights
<1>3. ASSUME NEW k \in KeySet, NEW v \in Vals, Update(k, v) PROVE SkipInv'
  BY <1>1, <1>3 DEF Update, SkipInv, Heights
<1>4. ASSUME NEW k \in KeySet, NEW v \in Vals, Insert(k, v) PROVE SkipInv'
  <2>1. k \notin DOMAIN val  BY <1>4, FoundIfThere DEF Insert, SkipInv
  <2>2. PICK h \in 0..(MaxLevel - 1) : forward' = Link(k, h) /\ level' = Max({level, h})
    BY <1>4 DEF Insert
  <2>3. val' = [n \in DOMAIN val \cup {k} |-> IF n = k THEN v ELSE val[n]]  BY <1>4 DEF Insert
  <2> QED BY <2>1, <2>2, <2>3, InsertKeeps
<1>5. ASSUME NEW k \in KeySet, Remove(k) PROVE SkipInv'
  <2>1. CASE AtOrAfter(k) = k
    <3>1. k \in DOMAIN val  BY <2>1, FoundIfThere DEF SkipInv
    <3> QED BY <1>5, <2>1, <3>1, RemoveKeeps DEF Remove
  <2>2. CASE AtOrAfter(k) # k  BY <1>2, <1>5, <2>2 DEF Remove
  <2> QED BY <2>1, <2>2
<1>6. CASE SkipNext
  <2>1. CASE \E k \in KeySet : (\E v \in Vals : Modify(k, v)) \/ Remove(k) \/ Search(k)
    BY <1>2, <1>3, <1>4, <1>5, <2>1 DEF Modify, Search
  <2>2. CASE \E st, ed \in Bounds : RangeGet(st, ed) \/ RangeCount(st, ed)
    BY <1>2, <2>2 DEF RangeGet, RangeCount
  <2> QED BY <1>6, <2>1, <2>2 DEF SkipNext
<1>7. CASE UNCHANGED skipVars  BY <1>2, <1>7 DEF skipVars
<1> QED BY <1>6, <1>7

\* The list is linked throughout.
LEMMA SkipInvHolds == ASSUME SkipAssumption PROVE SkipSpec => []SkipInv
<1>1. SkipInit => SkipInv  BY SkipInitially
<1>2. SkipInv /\ [SkipNext]_skipVars => SkipInv'  BY SkipStep
<1> QED BY <1>1, <1>2, PTL DEF SkipSpec

-------------------------------------------------------------------------------
(* The walks along a level. *)

AtLeast(N, x) == {y \in N : x <= y}

\* From a node on, there is the node and what there is from the next one on.
LEMMA LevelPeels ==
  ASSUME NEW N \in SUBSET Int, Nil \notin N, NEW x \in N, NEW m, IsNext(m, x, N)
  PROVE  /\ m \in N \cup {Nil}
         /\ AtLeast(N, x) = {x} \cup (IF m = Nil THEN {} ELSE AtLeast(N, m))
<1>1. CASE m = Nil
  <2>1. \A y \in N : y <= x  BY <1>1 DEF IsNext
  <2>2. \A y \in N : x <= y <=> y = x  BY <2>1
  <2> QED BY <1>1, <2>2 DEF AtLeast
<1>2. CASE m # Nil
  <2>1. m \in N /\ x < m /\ \A y \in N : y <= x \/ m <= y  BY <1>2 DEF IsNext
  <2>2. \A y \in N : x <= y <=> (y = x \/ m <= y)  BY <2>1
  <2> QED BY <1>2, <2>1, <2>2 DEF AtLeast
<1> QED BY <1>1, <1>2

\* What the recursive function of Level satisfies.
Gathers(g, i) ==
  g = [x \in OnLevel(i) \cup {Nil} |-> IF x = Nil THEN {} ELSE {x} \cup g[forward[x][i]]]

LEMMA LevelChosen ==
  ASSUME NEW i PROVE Level(i) = (CHOOSE g : Gathers(g, i))[forward[HeadNode][i]]
BY Zenon DEF Level, Gathers

\* Along a level come the nodes that are tall enough for it.
LEMMA LevelIs ==
  ASSUME SkipAssumption, SkipInv, NEW i \in 0..(MaxLevel - 1)
  PROVE  Level(i) = OnLevel(i) \ {HeadNode}
<1> DEFINE N == OnLevel(i)
           next(x) == forward[x][i]
<1>0. /\ N \in SUBSET Int /\ Nil \notin N /\ HeadNode \in N /\ IsFiniteSet(N)
      /\ \A x \in N : x >= HeadNode
  BY NodesOnLevels DEF SkipInv
<1>1. \A x \in N : IsNext(next(x), x, N)  BY DEF SkipInv, Linked
<1> HIDE DEF N, next
<1> DEFINE rest(x) == IF x = Nil THEN {} ELSE AtLeast(N, x)
<1>2. \A x \in N : next(x) \in N \cup {Nil} /\ rest(x) = {x} \cup rest(next(x))
  BY <1>0, <1>1, LevelPeels
<1> HIDE DEF rest
<1>3. \E g : Gathers(g, i)
  <2> DEFINE g == [x \in N \cup {Nil} |-> rest(x)]
  <2>1. \A x \in N \cup {Nil} : g[x] = IF x = Nil THEN {} ELSE {x} \cup g[next(x)]
    BY <1>2 DEF rest
  <2> HIDE DEF g
  <2>2. g = [x \in N \cup {Nil} |-> IF x = Nil THEN {} ELSE {x} \cup g[next(x)]]
    BY <2>1 DEF g
  <2> QED BY <2>2 DEF Gathers, N, next
<1>4. PICK g : Gathers(g, i) /\ Level(i) = g[next(HeadNode)]
  <2>1. Gathers(CHOOSE g : Gathers(g, i), i)  BY <1>3
  <2> QED BY <2>1, LevelChosen DEF next
<1>5. \A x \in N \cup {Nil} : g[x] = IF x = Nil THEN {} ELSE {x} \cup g[next(x)]
  BY <1>4 DEF Gathers, N, next
<1> DEFINE Bad == {x \in N : g[x] # rest(x)}
<1>6. Bad = {}
  <2> SUFFICES ASSUME Bad # {} PROVE FALSE  OBVIOUS
  <2>1. Bad \in SUBSET N  OBVIOUS
  <2>2. PICK x \in Bad : \A y \in Bad : y <= x
    <3> HIDE DEF Bad
    <3> QED BY <1>0, <2>1, FS_Subset, GreatestOf
  <2>3. x \in N /\ g[x] # rest(x)  OBVIOUS
  <2>4. next(x) = Nil \/ (next(x) \in N /\ x < next(x))  BY <1>1, <2>3 DEF IsNext
  <2>5. g[next(x)] = rest(next(x))
    <3>1. CASE next(x) = Nil  BY <1>5, <3>1 DEF rest
    <3>2. CASE next(x) # Nil
      <4>1. PICK m : m = next(x) /\ m \in N /\ x < m  BY <2>4, <3>2
      <4>2. m \in Int /\ x \in Int  BY <1>0, <2>3, <4>1
      <4>3. m \notin Bad
        <5> HIDE DEF Bad
        <5> QED BY <2>2, <4>1, <4>2
      <4> QED BY <4>1, <4>3
    <3> QED BY <3>1, <3>2
  <2>6. x # Nil  BY <1>0, <2>3
  <2> QED BY <1>2, <1>5, <2>3, <2>5, <2>6
<1>7. Level(i) = rest(next(HeadNode))
  <2>1. next(HeadNode) \in N \cup {Nil}  BY <1>0, <1>2
  <2> QED BY <1>4, <1>5, <1>6, <2>1 DEF rest
<1>8. rest(HeadNode) = {HeadNode} \cup rest(next(HeadNode)) /\ rest(HeadNode) = N
  <2>1. HeadNode # Nil  BY DEF HeadNode, Nil
  <2>2. \A x \in N : HeadNode <= x  BY <1>0 DEF HeadNode
  <2> QED BY <1>0, <1>2, <2>1, <2>2 DEF rest, AtLeast
<1>9. HeadNode \notin rest(next(HeadNode))
  <2>1. CASE next(HeadNode) = Nil  BY <2>1 DEF rest
  <2>2. CASE next(HeadNode) # Nil
    <3>1. next(HeadNode) \in Int /\ HeadNode < next(HeadNode)  BY <1>0, <1>1, <2>2 DEF IsNext
    <3>2. ~(next(HeadNode) <= HeadNode)  BY <3>1 DEF HeadNode
    <3> QED BY <2>2, <3>2 DEF rest, AtLeast
  <2> QED BY <2>1, <2>2
<1> QED BY <1>7, <1>8, <1>9 DEF N

\* The invariant says what the run checks.
LEMMA SkipInvTypes == ASSUME SkipAssumption, SkipInv PROVE SkipTypeOK
<1>1. ASSUME NEW n \in DOMAIN forward, NEW i \in 0..(MaxLevel - 1), i \in DOMAIN forward[n]
      PROVE  forward[n][i] = Nil \/ forward[n][i] > n
  <2>1. n \in OnLevel(i) /\ OnLevel(i) \in SUBSET Int  BY <1>1, NodesOnLevels DEF OnLevel, SkipInv
  <2>2. IsNext(forward[n][i], n, OnLevel(i))  BY <2>1 DEF SkipInv, Linked
  <2> QED BY <2>1, <2>2 DEF IsNext
<1>2. ASSUME NEW i \in 0..(MaxLevel - 1), forward[HeadNode][i] # Nil PROVE i <= level
  <2> SUFFICES ASSUME ~(i <= level) PROVE FALSE  OBVIOUS
  <2>1. level \in Int /\ i > level  BY DEF SkipInv, Heights
  <2>2. OnLevel(i) = {HeadNode}  BY <2>1, NodesOnLevels DEF SkipInv
  <2>3. IsNext(forward[HeadNode][i], HeadNode, OnLevel(i))  BY <2>2 DEF SkipInv, Linked
  <2> QED BY <1>2, <2>2, <2>3 DEF IsNext, HeadNode
<1>3. \A i \in 0..(MaxLevel - 1) : Level(i) = OnLevel(i) \ {HeadNode}  BY LevelIs
<1> QED BY <1>1, <1>2, <1>3 DEF SkipTypeOK, SkipInv, Heights, TopUsed

\* Whatever heights the nodes drew, each level of the list is in ascending order and
\* holds the nodes that are tall enough for it, and level_ is the highest in use.
THEOREM SkipTypesHold == ASSUME SkipAssumption PROVE SkipSpec => []SkipTypeOK
<1>1. SkipInv => SkipTypeOK  BY SkipInvTypes
<1> QED BY <1>1, SkipInvHolds, PTL

-------------------------------------------------------------------------------
(* The list is an ordered map. *)

\* A set of keys in ascending order.
Ascending(T) == [i \in 1..Cardinality(T) |-> Map!KeyAt(T, i)]

\* The map counts as the list does.
LEMMA SameCount == ASSUME NEW S PROVE Map!Cardinality(S) = Cardinality(S)
BY Zenon DEF Map!Cardinality, Cardinality

\* The least key comes first, and then the others.
LEMMA LeastFirst ==
  ASSUME NEW T \in SUBSET Int, IsFiniteSet(T), NEW x \in T, \A y \in T : x <= y
  PROVE  Ascending(T) = <<x>> \o Ascending(T \ {x})
<1> DEFINE U == T \ {x}
           c == Cardinality(U)
           below(S, k) == {y \in S : y < k}
<1>1. IsFiniteSet(U) /\ c \in Nat /\ Cardinality(T) = c + 1
  <2>1. IsFiniteSet(U) /\ Cardinality(U) = Cardinality(T) - 1  BY FS_RemoveElement
  <2>2. Cardinality(T) \in Nat /\ Cardinality(U) \in Nat  BY <2>1, FS_CardinalityType
  <2> QED BY <2>1, <2>2
<1>2. Cardinality(below(T, x)) = 0
  <2>1. \A y \in T : y \in Int /\ ~(y < x)  OBVIOUS
  <2>2. below(T, x) = {}  BY <2>1
  <2> QED BY <2>2, FS_EmptySet
<1>3. ASSUME NEW k \in U
      PROVE  /\ Cardinality(below(T, k)) = Cardinality(below(U, k)) + 1
             /\ Cardinality(below(U, k)) \in Nat
  <2>1. x < k /\ below(T, k) = below(U, k) \cup {x} /\ x \notin below(U, k)
    <3>1. x < k /\ x \in T  OBVIOUS
    <3> QED BY <3>1
  <2>2. IsFiniteSet(below(U, k))
    <3>1. below(U, k) \in SUBSET U  OBVIOUS
    <3> HIDE DEF below, U
    <3> QED BY <1>1, <3>1, FS_Subset
  <2> HIDE DEF below
  <2> QED BY <2>1, <2>2, FS_AddElement, FS_CardinalityType
<1> DEFINE at(S, i) == {k \in S : Cardinality(below(S, k)) = i - 1}
<1>12. \A S, i : Map!Ranked(S, i) = at(S, i)  BY SameCount DEF Map!Ranked
<1> HIDE DEF below
<1>4. at(T, 1) = {x}
  <2>1. ASSUME NEW k \in T, k # x PROVE Cardinality(below(T, k)) # 0
    <3>1. k \in U  BY <2>1
    <3> QED BY <1>3, <3>1
  <2>2. \A k \in T : Cardinality(below(T, k)) = 1 - 1 <=> k = x  BY <1>2, <2>1
  <2> QED BY <2>2
<1>5. ASSUME NEW i \in 1..c PROVE at(T, i + 1) = at(U, i)
  <2>1. \A k \in U : Cardinality(below(T, k)) = (i + 1) - 1 <=> Cardinality(below(U, k)) = i - 1
    <3> HIDE DEF U, c
    <3> QED BY <1>1, <1>3
  <2>2. Cardinality(below(T, x)) # (i + 1) - 1  BY <1>1, <1>2
  <2>3. T = U \cup {x}  OBVIOUS
  <2> HIDE DEF U
  <2> QED BY <2>1, <2>2, <2>3
<1> HIDE DEF at
<1>6. Map!KeyAt(T, 1) = x  BY <1>4, <1>12 DEF Map!KeyAt
<1>7. \A i \in 1..c : Map!KeyAt(T, i + 1) = Map!KeyAt(U, i)  BY <1>5, <1>12 DEF Map!KeyAt
<1> DEFINE a == Ascending(T)
           b == Ascending(U)
<1>8. /\ DOMAIN a = 1..(c + 1) /\ a = [i \in 1..(c + 1) |-> a[i]]
      /\ a[1] = x
      /\ DOMAIN b = 1..c /\ b = [i \in 1..c |-> b[i]]
      /\ \A i \in 1..c : a[i + 1] = b[i]
  <2>1. a = [i \in 1..(c + 1) |-> Map!KeyAt(T, i)]  BY <1>1 DEF Ascending
  <2>2. b = [i \in 1..c |-> Map!KeyAt(U, i)]  BY DEF Ascending
  <2> HIDE DEF a, b, c, U
  <2>3. 1 \in 1..(c + 1) /\ \A i \in 1..c : i + 1 \in 1..(c + 1)  BY <1>1
  <2> QED BY <1>6, <1>7, <2>1, <2>2, <2>3
<1>9. ASSUME NEW i \in 1..(c + 1) PROVE a[i] = (<<x>> \o b)[i]
  <2> HIDE DEF a, b, c
  <2>0. c \in Nat  BY <1>1
  <2>1. b \in Seq({b[j] : j \in 1..c}) /\ Len(b) = c  BY <1>8, <2>0
  <2>2. CASE i = 1  BY <1>8, <2>0, <2>1, <2>2
  <2>3. CASE i # 1
    <3>1. i - 1 \in 1..c /\ (i - 1) + 1 = i  BY <2>0, <2>3
    <3>2. a[i] = b[i - 1]  BY <1>8, <3>1
    <3>3. (<<x>> \o b)[i] = b[i - 1]  BY <2>0, <2>1, <2>3, <3>1
    <3> QED BY <3>2, <3>3
  <2> QED BY <2>2, <2>3
<1>10. DOMAIN (<<x>> \o b) = 1..(c + 1) /\ (<<x>> \o b) = [i \in 1..(c + 1) |-> (<<x>> \o b)[i]]
  <2> HIDE DEF a, b, c
  <2>0. c \in Nat  BY <1>1
  <2>1. b \in Seq({b[j] : j \in 1..c}) /\ Len(b) = c  BY <1>8, <2>0
  <2>2. PICK W : b \in Seq(W) /\ x \in W
    <3>1. b \in Seq({b[j] : j \in 1..c} \cup {x})  BY <1>8, <2>0
    <3> QED BY <3>1
  <2>3. <<x>> \o b \in Seq(W) /\ Len(<<x>> \o b) = c + 1  BY <2>0, <2>1, <2>2
  <2> QED BY <2>0, <2>3
<1> HIDE DEF a, b
<1>11. a = <<x>> \o b  BY <1>8, <1>9, <1>10
<1> QED BY <1>11 DEF a, b

LEMMA NoneAscending == Ascending({}) = <<>>
<1>1. Cardinality({}) = 0  BY FS_EmptySet
<1>2. 1..0 = {}  OBVIOUS
<1> QED BY <1>1, <1>2 DEF Ascending

\* What the recursive function of UpTo satisfies.
Lists(g, ed) ==
  g = [x \in DOMAIN val \cup {Nil} |->
         IF x = Nil \/ x > ed THEN <<>> ELSE <<x>> \o g[forward[x][0]]]

LEMMA UpToChosen ==
  ASSUME NEW n, NEW ed PROVE UpTo(n, ed) = (CHOOSE g : Lists(g, ed))[n]
BY Zenon DEF UpTo, Lists

\* A walk along level 0 lists the keys of the range in ascending order.
LEMMA UpToIs ==
  ASSUME SkipAssumption, SkipInv, NEW st \in Nat, NEW ed \in Nat
  PROVE  UpTo(AtOrAfter(st), ed) = Ascending({y \in DOMAIN val : st <= y /\ y <= ed})
<1> DEFINE N == DOMAIN val
           next(x) == forward[x][0]
           rest(x) == {y \in AtLeast(N, x) : y <= ed}
           listed(x) == IF x = Nil THEN <<>> ELSE Ascending(rest(x))
           on(x) == x # Nil /\ ~(x > ed)
<1>0. /\ N \in SUBSET Int /\ Nil \notin N /\ IsFiniteSet(N) /\ \A x \in N : x \in Nat
      /\ OnLevel(0) = N \cup {HeadNode} /\ 0 \in 0..(MaxLevel - 1)
  BY NodesOnLevels DEF SkipInv, Heights, SkipAssumption, Nil
<1>1. ASSUME NEW x \in N PROVE IsNext(next(x), x, N)
  <2>1. IsNext(next(x), x, OnLevel(0))  BY <1>0 DEF SkipInv, Linked
  <2>2. x # HeadNode /\ ~(x < HeadNode)  BY <1>0 DEF HeadNode
  <2> HIDE DEF N, next
  <2> QED BY <1>0, <2>1, <2>2 DEF IsNext
<1> HIDE DEF N, next
<1>2. ASSUME NEW x \in N
      PROVE  /\ next(x) = Nil \/ (next(x) \in N /\ x < next(x))
             /\ AtLeast(N, x) = {x} \cup (IF next(x) = Nil THEN {} ELSE AtLeast(N, next(x)))
  BY <1>0, <1>1, LevelPeels DEF IsNext
<1>3. ASSUME NEW x \in N PROVE listed(x) = IF on(x) THEN <<x>> \o listed(next(x)) ELSE <<>>
  <2>1. x \in Int /\ x # Nil  BY <1>0
  <2>2. rest(x) \in SUBSET N /\ rest(x) \in SUBSET Int  BY <1>0 DEF AtLeast
  <2>3. IsFiniteSet(rest(x))
    <3> HIDE DEF rest
    <3> QED BY <1>0, <2>2, FS_Subset
  <2>4. \A y \in rest(x) : x <= y /\ y <= ed  BY DEF AtLeast
  <2>5. CASE on(x)
    <3>1. x \in rest(x)  BY <1>0, <2>1, <2>5 DEF AtLeast
    <3>2. Ascending(rest(x)) = <<x>> \o Ascending(rest(x) \ {x})
      <4> HIDE DEF rest
      <4> QED BY <2>2, <2>3, <2>4, <3>1, LeastFirst
    <3>3. rest(x) \ {x} = IF next(x) = Nil THEN {} ELSE rest(next(x))
      <4>1. CASE next(x) = Nil  BY <1>2, <4>1
      <4>2. CASE next(x) # Nil
        <5>1. x < next(x) /\ next(x) \in Int  BY <1>0, <1>2, <4>2
        <5>2. x \notin AtLeast(N, next(x))  BY <2>1, <5>1 DEF AtLeast
        <5>3. AtLeast(N, x) = {x} \cup AtLeast(N, next(x))  BY <1>2, <4>2
        <5> QED BY <4>2, <5>2, <5>3
      <4> QED BY <4>1, <4>2
    <3>4. Ascending(rest(x) \ {x}) = listed(next(x))
      <4> HIDE DEF rest
      <4> QED BY <3>3, NoneAscending
    <3> HIDE DEF rest
    <3> QED BY <2>1, <2>5, <3>2, <3>4
  <2>6. CASE ~on(x)
    <3>1. rest(x) = {}
      <4> SUFFICES ASSUME NEW y \in rest(x) PROVE FALSE  OBVIOUS
      <4>1. x <= y /\ y <= ed /\ y \in Int  BY <2>2, <2>4
      <4> QED BY <2>1, <2>6, <4>1
    <3> HIDE DEF rest
    <3> QED BY <2>1, <2>6, <3>1, NoneAscending
  <2> QED BY <2>5, <2>6
<1> HIDE DEF rest
<1>4. listed(Nil) = <<>> /\ ~on(Nil)  OBVIOUS
<1> HIDE DEF listed
<1>5. \E g : Lists(g, ed)
  <2> DEFINE g == [x \in N \cup {Nil} |-> listed(x)]
  <2>1. \A x \in N \cup {Nil} : g[x] = IF on(x) THEN <<x>> \o g[next(x)] ELSE <<>>
    <3>1. ASSUME NEW x \in N PROVE next(x) \in N \cup {Nil}  BY <1>2
    <3> QED BY <1>3, <1>4, <3>1
  <2> HIDE DEF g
  <2>2. g = [x \in N \cup {Nil} |-> IF on(x) THEN <<x>> \o g[next(x)] ELSE <<>>]
    BY <2>1 DEF g
  <2>3. g = [x \in N \cup {Nil} |-> IF x = Nil \/ x > ed THEN <<>> ELSE <<x>> \o g[next(x)]]
    BY <2>2
  <2> QED BY <2>3 DEF Lists, N, next
<1>6. PICK g : Lists(g, ed) /\ \A n : UpTo(n, ed) = g[n]
  <2>1. Lists(CHOOSE g : Lists(g, ed), ed)  BY <1>5
  <2> QED BY <2>1, UpToChosen
<1>7. \A x \in N \cup {Nil} : g[x] = IF on(x) THEN <<x>> \o g[next(x)] ELSE <<>>
  <2>1. g = [x \in N \cup {Nil} |-> IF x = Nil \/ x > ed THEN <<>> ELSE <<x>> \o g[next(x)]]
    BY <1>6 DEF Lists, N, next
  <2> QED BY <2>1
<1> DEFINE Bad == {x \in N : g[x] # listed(x)}
<1>8. Bad = {}
  <2> SUFFICES ASSUME Bad # {} PROVE FALSE  OBVIOUS
  <2>1. Bad \in SUBSET N  OBVIOUS
  <2>2. PICK x \in Bad : \A y \in Bad : y <= x
    <3> HIDE DEF Bad
    <3> QED BY <1>0, <2>1, FS_Subset, GreatestOf
  <2>3. x \in N /\ g[x] # listed(x)  OBVIOUS
  <2>4. on(x) /\ g[next(x)] # listed(next(x))
    <3> HIDE DEF on, Bad
    <3> QED BY <1>3, <1>7, <2>3
  <2>5. next(x) # Nil  BY <1>4, <1>7, <2>4
  <2>6. PICK m : m = next(x) /\ m \in N /\ x < m  BY <1>2, <2>3, <2>5
  <2>7. m \in Bad  BY <2>4, <2>6
  <2>8. m \in Int /\ x \in Int  BY <1>0, <2>3, <2>6
  <2> HIDE DEF Bad
  <2> QED BY <2>2, <2>6, <2>7, <2>8
<1> DEFINE m == AtOrAfter(st)
           T == {y \in N : st <= y /\ y <= ed}
<1>9. m \in N \cup {Nil} /\ listed(m) = Ascending(T)
  <2>1. \/ m = Nil /\ \A x \in N : x < st
        \/ m \in N /\ st <= m /\ \A x \in N : x < st \/ m <= x
    BY AtOrAfterIs DEF SkipInv, N
  <2> HIDE DEF m
  <2>2. CASE m = Nil
    <3>1. \A x \in N : x < st /\ x \in Int  BY <1>0, <2>1, <2>2
    <3>2. T = {}  BY <3>1
    <3> QED BY <1>4, <2>2, <3>2, NoneAscending
  <2>3. CASE m # Nil
    <3>1. ASSUME NEW x \in N PROVE (st <= x) <=> (m <= x)
      <4>1. m \in N /\ st <= m /\ (x < st \/ m <= x)  BY <2>1, <2>3
      <4>2. m \in Nat /\ x \in Nat  BY <1>0, <4>1
      <4> QED BY <4>1, <4>2
    <3>2. rest(m) = T  BY <3>1 DEF rest, AtLeast
    <3> QED BY <2>1, <2>3, <3>2 DEF listed
  <2> QED BY <2>2, <2>3
<1>10. g[m] = listed(m)
  <2> HIDE DEF m, T, on
  <2>1. CASE m = Nil  BY <1>4, <1>7, <2>1
  <2>2. CASE m # Nil  BY <1>8, <1>9, <2>2
  <2> QED BY <2>1, <2>2
<1> QED BY <1>6, <1>9, <1>10 DEF N

-------------------------------------------------------------------------------
(* The refinement. *)

\* Level 0 holds every node, so the map is what val tells.
MapIsVal == Level(0) = DOMAIN val /\ [k \in Level(0) |-> val[k]] = val

LEMMA SkipInvMaps == ASSUME SkipAssumption, SkipInv PROVE MapIsVal
<1>1. 0 \in 0..(MaxLevel - 1)  BY DEF SkipAssumption
<1>2. Level(0) = OnLevel(0) \ {HeadNode} /\ OnLevel(0) = DOMAIN val \cup {HeadNode}
  BY <1>1, LevelIs, NodesOnLevels DEF SkipInv, Heights
<1>3. HeadNode \notin DOMAIN val  BY DEF SkipInv, Heights, SkipAssumption, HeadNode
<1>4. Level(0) = DOMAIN val  BY <1>2, <1>3
<1> QED BY <1>4 DEF MapIsVal, SkipInv, Heights

\* Each call is a call of the map, and answers what the map answers.
LEMMA SkipCalls ==
  ASSUME SkipAssumption, SkipInv, MapIsVal, MapIsVal', SkipNext
  PROVE  Map!Next
<1> DEFINE map == [k \in Level(0) |-> val[k]]
<1>0. map = val /\ map' = val'  BY DEF MapIsVal
<1> HIDE DEF map
<1>1. ASSUME NEW k \in KeySet, NEW v \in Vals, Modify(k, v) PROVE Map!Put(k, v)
  <2>1. val' = [x \in DOMAIN val \cup {k} |-> IF x = k THEN v ELSE val[x]]
    <3>1. CASE Update(k, v)
      <4>1. k \in DOMAIN val  BY <3>1, FoundIfThere DEF Update, SkipInv
      <4> QED BY <3>1, <4>1 DEF Update
    <3>2. CASE Insert(k, v)  BY <3>2 DEF Insert
    <3> QED BY <1>1, <3>1, <3>2 DEF Modify
  <2>2. map' = [x \in DOMAIN map \cup {k} |-> IF x = k THEN v ELSE map[x]]  BY <1>0, <2>1
  <2> QED BY <1>1, <2>2 DEF Map!Put, Map!Answers, Modify, Answer, map
<1>2. ASSUME NEW k \in KeySet, Remove(k) PROVE Map!Drop(k)
  <2>1. val' = [x \in DOMAIN val \ {k} |-> val[x]]
    <3>1. CASE AtOrAfter(k) = k  BY <1>2, <3>1 DEF Remove
    <3>2. CASE AtOrAfter(k) # k
      <4>1. k \notin DOMAIN val  BY <3>2, FoundIfThere DEF SkipInv
      <4>2. val' = val  BY <1>2, <3>2 DEF Remove
      <4> QED BY <4>1, <4>2 DEF SkipInv, Heights
    <3> QED BY <3>1, <3>2
  <2>2. map' = [x \in DOMAIN map \ {k} |-> map[x]]  BY <1>0, <2>1
  <2> QED BY <1>2, <2>2 DEF Map!Drop, Map!Answers, Remove, Answer, map
<1>3. ASSUME NEW k \in KeySet, Search(k) PROVE Map!Get(k)
  <2>1. reply' = <<<<"search", k>>, IF k \in DOMAIN val THEN <<val[k]>> ELSE <<>>>> /\ val' = val
    BY <1>3, FoundIfThere DEF Search, Answer, SkipInv
  <2>2. reply' = <<<<"search", k>>, IF k \in DOMAIN map THEN <<map[k]>> ELSE <<>>>> /\ map' = map
    BY <1>0, <2>1
  <2> QED BY <2>2 DEF Map!Get, Map!Answers, map
<1> DEFINE range(st, ed) == {k \in DOMAIN val : st <= k /\ k <= ed}
<1>4. ASSUME NEW st \in Bounds, NEW ed \in Bounds
      PROVE  /\ UpTo(AtOrAfter(st), ed) = Ascending(range(st, ed))
             /\ Map!Between(st, ed) = range(st, ed)
             /\ Cardinality(range(st, ed)) \in Nat
  <2>1. st \in Nat /\ ed \in Nat  BY DEF SkipAssumption
  <2>2. IsFiniteSet(DOMAIN val) /\ range(st, ed) \in SUBSET DOMAIN val
    BY DEF SkipInv, Heights
  <2>3. Cardinality(range(st, ed)) \in Nat
    <3> HIDE DEF range
    <3> QED BY <2>2, FS_Subset, FS_CardinalityType
  <2>4. Map!Between(st, ed) = range(st, ed)  BY <1>0 DEF Map!Between, map
  <2> QED BY <2>1, <2>3, <2>4, UpToIs
<1>5. ASSUME NEW st \in Bounds, NEW ed \in Bounds, RangeGet(st, ed) PROVE Map!GetRange(st, ed)
  <2> DEFINE T == range(st, ed)
  <2>1. /\ reply' = <<<<"range", st, ed>>,
                      [i \in DOMAIN Ascending(T) |-> val[Ascending(T)[i]]]>>
        /\ val' = val
    BY <1>4, <1>5 DEF RangeGet, Answer
  <2>2. [i \in DOMAIN Ascending(T) |-> val[Ascending(T)[i]]]
          = [i \in 1..Cardinality(T) |-> map[Map!KeyAt(T, i)]]
    <3> HIDE DEF T
    <3> QED BY <1>0 DEF Ascending
  <2>3. Map!Between(st, ed) = T /\ Map!Cardinality(T) = Cardinality(T)  BY <1>4, SameCount
  <2>4. map' = map  BY <1>0, <2>1
  <2> HIDE DEF T
  <2>5. reply' = <<<<"range", st, ed>>,
                   [i \in 1..Map!Cardinality(Map!Between(st, ed)) |->
                      map[Map!KeyAt(Map!Between(st, ed), i)]]>>
    BY <2>1, <2>2, <2>3
  <2> QED BY <2>4, <2>5 DEF Map!GetRange, Map!Answers, map
<1>6. ASSUME NEW st \in Bounds, NEW ed \in Bounds, RangeCount(st, ed) PROVE Map!CountRange(st, ed)
  <2> DEFINE T == range(st, ed)
  <2>1. reply' = <<<<"count", st, ed>>, <<Len(Ascending(T))>>>> /\ val' = val
    BY <1>4, <1>6 DEF RangeCount, Answer
  <2>2. Len(Ascending(T)) = Cardinality(T)
    <3>1. Cardinality(T) \in Nat  BY <1>4
    <3> HIDE DEF T
    <3> QED BY <3>1 DEF Ascending
  <2>3. Map!Between(st, ed) = T /\ Map!Cardinality(T) = Cardinality(T)  BY <1>4, SameCount
  <2>4. map' = map  BY <1>0, <2>1
  <2> HIDE DEF T
  <2> QED BY <2>1, <2>2, <2>3, <2>4 DEF Map!CountRange, Map!Answers, map
<1>7. CASE \E k \in KeySet : (\E v \in Vals : Modify(k, v)) \/ Remove(k) \/ Search(k)
  BY <1>1, <1>2, <1>3, <1>7 DEF Map!Next
<1>8. CASE \E st, ed \in Bounds : RangeGet(st, ed) \/ RangeCount(st, ed)
  BY <1>5, <1>6, <1>8 DEF Map!Next
<1> QED BY <1>7, <1>8 DEF SkipNext

\* Whatever heights the nodes drew, and in whatever order keys are inserted and
\* removed, every call of the list answers what an ordered map answers.
THEOREM SkipListIsMap == ASSUME SkipAssumption PROVE SkipSpec => ImplementsMap
<1>1. SkipInv => MapIsVal  BY SkipInvMaps
<1>2. SkipInit => Map!Init
  <2> SUFFICES ASSUME SkipInit PROVE Map!Init  OBVIOUS
  <2>1. MapIsVal  BY SkipInitially, SkipInvMaps
  <2> QED BY <2>1 DEF SkipInit, MapIsVal, Map!Init
<1>3. ASSUME SkipInv, MapIsVal, MapIsVal', [SkipNext]_skipVars
      PROVE  [Map!Next]_<<[k \in Level(0) |-> val[k]], reply>>
  <2>1. CASE SkipNext  BY <1>3, <2>1, SkipCalls
  <2>2. CASE UNCHANGED skipVars  BY <1>3, <2>2 DEF skipVars, MapIsVal
  <2> QED BY <1>3, <2>1, <2>2
<1>4. SkipSpec => []SkipInv  BY SkipInvHolds
<1> QED BY <1>1, <1>2, <1>3, <1>4, PTL DEF SkipSpec, ImplementsMap, Map!Spec

-------------------------------------------------------------------------------
(* The ring of servers. *)

\* Min is the least.
LEMMA MinIs ==
  ASSUME RingAssumption, NEW S \in SUBSET Hashes, S # {}
  PROVE  Min(S) \in S /\ \A x \in S : Min(S) <= x
<1>1. S \in SUBSET Int /\ IsFiniteSet(S)  BY FS_Subset DEF RingAssumption
<1>2. PICK n \in S : \A x \in S : n <= x  BY <1>1, LeastOfFinite
<1> QED BY <1>2 DEF Min

\* GetServerNode, for the virtual nodes and the servers that are given.
ServerAt(r, all, h) ==
  LET after == {x \in DOMAIN r : x >= h} IN IF after = {} THEN all ELSE {r[Min(after)]}

\* m is the first virtual node at or after the hash.
IsFirst(r, h, m) == m \in DOMAIN r /\ m >= h /\ \A x \in DOMAIN r : x < h \/ m <= x

LEMMA ServerIs ==
  ASSUME RingAssumption, NEW r, DOMAIN r \subseteq Hashes, NEW all, NEW h \in Hashes
  PROVE  \/ (\A x \in DOMAIN r : x < h) /\ ServerAt(r, all, h) = all
         \/ \E m : IsFirst(r, h, m) /\ ServerAt(r, all, h) = {r[m]}
<1> DEFINE after == {x \in DOMAIN r : x >= h}
<1>0. h \in Int /\ \A x \in DOMAIN r : x \in Int  BY DEF RingAssumption
<1>1. CASE after = {}
  <2>1. \A x \in DOMAIN r : x < h  BY <1>0, <1>1
  <2> QED BY <1>1, <2>1 DEF ServerAt
<1>2. CASE after # {}
  <2>1. after \in SUBSET Hashes  OBVIOUS
  <2>2. PICK m : m = Min(after)  OBVIOUS
  <2>3. m \in after /\ \A x \in after : m <= x
    <3> HIDE DEF after
    <3> QED BY <1>2, <2>1, <2>2, MinIs
  <2>4. IsFirst(r, h, m)  BY <1>0, <2>3 DEF IsFirst
  <2>5. ServerAt(r, all, h) = {r[m]}  BY <1>2, <2>2 DEF ServerAt
  <2> QED BY <2>4, <2>5
<1> QED BY <1>1, <1>2

\* There is one first node, and then the answer is its server.
LEMMA ServerOfFirst ==
  ASSUME RingAssumption, NEW r, DOMAIN r \subseteq Hashes, NEW all, NEW h \in Hashes,
         NEW m, IsFirst(r, h, m)
  PROVE  ServerAt(r, all, h) = {r[m]}
<1>0. h \in Int /\ \A x \in DOMAIN r : x \in Int  BY DEF RingAssumption
<1>1. m \in DOMAIN r /\ m >= h /\ m \in Int  BY <1>0 DEF IsFirst
<1>2. ~(\A x \in DOMAIN r : x < h)  BY <1>0, <1>1
<1>3. PICK n : IsFirst(r, h, n) /\ ServerAt(r, all, h) = {r[n]}  BY <1>2, ServerIs
<1>4. n = m  BY <1>0, <1>1, <1>3 DEF IsFirst
<1> QED BY <1>3, <1>4

\* The virtual nodes of a new server move hashes to it only.
LEMMA AddingMoves ==
  ASSUME RingAssumption, NEW r, DOMAIN r \subseteq Hashes, NEW all, NEW s \in Servers,
         NEW h \in Hashes
  PROVE  ServerAt(AddVnodes(r, s), all \cup {s}, h) \subseteq ServerAt(r, all, h) \cup {s}
<1> DEFINE q == AddVnodes(r, s)
<1>1. DOMAIN q = DOMAIN r \cup Range(Hash[s]) /\ DOMAIN q \subseteq Hashes
      /\ \A x \in DOMAIN q : q[x] = IF x \in Range(Hash[s]) THEN s ELSE r[x]
  BY DEF AddVnodes, Range, RingAssumption
<1> HIDE DEF q
<1> SUFFICES ServerAt(q, all \cup {s}, h) \subseteq ServerAt(r, all, h) \cup {s}
  BY DEF q
<1>2. CASE (\A x \in DOMAIN q : x < h) /\ ServerAt(q, all \cup {s}, h) = all \cup {s}
  <2>1. \A x \in DOMAIN r : x < h  BY <1>1, <1>2
  <2>2. ServerAt(r, all, h) = all
    <3>1. h \in Int /\ \A x \in DOMAIN r : x \in Int  BY DEF RingAssumption
    <3>2. {x \in DOMAIN r : x >= h} = {}  BY <2>1, <3>1
    <3> QED BY <3>2 DEF ServerAt
  <2> QED BY <1>2, <2>2
<1>3. ASSUME NEW m, IsFirst(q, h, m), ServerAt(q, all \cup {s}, h) = {q[m]}
      PROVE  ServerAt(q, all \cup {s}, h) \subseteq ServerAt(r, all, h) \cup {s}
  <2>1. CASE q[m] = s  BY <1>3, <2>1
  <2>2. CASE q[m] # s
    <3>1. m \in DOMAIN r /\ q[m] = r[m] /\ IsFirst(r, h, m)  BY <1>1, <1>3, <2>2 DEF IsFirst
    <3>2. ServerAt(r, all, h) = {r[m]}  BY <3>1, ServerOfFirst
    <3> QED BY <1>3, <3>1, <3>2
  <2> QED BY <2>1, <2>2
<1>4. DOMAIN q \subseteq Hashes  BY <1>1
<1>5. \/ (\A x \in DOMAIN q : x < h) /\ ServerAt(q, all \cup {s}, h) = all \cup {s}
      \/ \E m : IsFirst(q, h, m) /\ ServerAt(q, all \cup {s}, h) = {q[m]}
  BY <1>4, ServerIs
<1> QED BY <1>2, <1>3, <1>5

\* Where another server answers, erasing a virtual node changes nothing.
LEMMA ErasingMoves ==
  ASSUME RingAssumption, NEW r, DOMAIN r \subseteq Hashes, NEW all, NEW k \in DOMAIN r,
         NEW h \in Hashes, r[k] \notin ServerAt(r, all, h)
  PROVE  ServerAt(Restrict(r, DOMAIN r \ {k}), all, h) = ServerAt(r, all, h)
<1> DEFINE q == Restrict(r, DOMAIN r \ {k})
<1>1. DOMAIN q = DOMAIN r \ {k} /\ \A x \in DOMAIN q : q[x] = r[x]  BY DEF Restrict
<1> HIDE DEF q
<1>2. CASE (\A x \in DOMAIN r : x < h) /\ ServerAt(r, all, h) = all
  <2>1. h \in Int /\ \A x \in DOMAIN q : x \in Int /\ x < h  BY <1>1, <1>2 DEF RingAssumption
  <2>2. {x \in DOMAIN q : x >= h} = {}  BY <2>1
  <2> QED BY <1>2, <2>2 DEF ServerAt, q
<1>3. ASSUME NEW m, IsFirst(r, h, m), ServerAt(r, all, h) = {r[m]}
      PROVE  ServerAt(q, all, h) = ServerAt(r, all, h)
  <2>1. m # k  BY <1>3
  <2>2. IsFirst(q, h, m) /\ q[m] = r[m]  BY <1>1, <1>3, <2>1 DEF IsFirst
  <2>3. ServerAt(q, all, h) = {q[m]}  BY <1>1, <2>2, ServerOfFirst
  <2> QED BY <1>3, <2>2, <2>3
<1> QED BY <1>2, <1>3, ServerIs DEF q

-------------------------------------------------------------------------------
(* The walk of the iterator. *)

LEMMA FirstIs ==
  ASSUME RingAssumption, NEW r, DOMAIN r \subseteq Hashes
  PROVE  \/ DOMAIN r = {} /\ First(r) = End
         \/ First(r) \in DOMAIN r /\ \A x \in DOMAIN r : First(r) <= x
<1>1. CASE DOMAIN r = {}  BY <1>1 DEF First
<1>2. CASE DOMAIN r # {}
  <2>1. First(r) = Min(DOMAIN r)  BY <1>2 DEF First
  <2> QED BY <1>2, <2>1, MinIs
<1> QED BY <1>1, <1>2

LEMMA SuccessorIs ==
  ASSUME RingAssumption, NEW r, DOMAIN r \subseteq Hashes, NEW h \in Hashes
  PROVE  \/ Successor(r, h) = End /\ \A x \in DOMAIN r : x <= h
         \/ /\ Successor(r, h) \in DOMAIN r /\ h < Successor(r, h)
            /\ \A x \in DOMAIN r : x <= h \/ Successor(r, h) <= x
<1> DEFINE after == {x \in DOMAIN r : x > h}
<1>0. h \in Int /\ h # End /\ \A x \in DOMAIN r : x \in Int  BY DEF RingAssumption
<1>1. CASE after = {}
  <2>1. Successor(r, h) = End  BY <1>0, <1>1 DEF Successor
  <2> QED BY <1>0, <1>1, <2>1
<1>2. CASE after # {}
  <2>1. after \in SUBSET Hashes  OBVIOUS
  <2>2. PICK m : m = Min(after)  OBVIOUS
  <2>3. m \in after /\ \A x \in after : m <= x
    <3> HIDE DEF after
    <3> QED BY <1>2, <2>1, <2>2, MinIs
  <2>4. Successor(r, h) = m  BY <1>0, <1>2, <2>2 DEF Successor
  <2>5. m \in DOMAIN r /\ h < m /\ \A x \in DOMAIN r : x <= h \/ m <= x  BY <1>0, <2>3
  <2> QED BY <2>4, <2>5
<1> QED BY <1>1, <1>2


\* The other servers are left.
LEMMA WithoutIs ==
  ASSUME NEW V, NEW all \in Seq(V), NEW s
  PROVE  Without(s, all) \in Seq(V) /\ Range(Without(s, all)) = Range(all) \ {s}
<1>1. Range(all) \cap (Range(all) \ {s}) = Range(all) \ {s}  OBVIOUS
<1> QED BY <1>1, OnlyIs DEF Without

-------------------------------------------------------------------------------
(* The inductive invariant. *)

\* While a server is deleted, the hashes that others answered for keep their
\* answers, and of its virtual nodes the iterator has passed the first of the ring
\* at most.
WalkSafe ==
  ~Idle =>
    /\ \A h \in Hashes : deleting \notin before[h] => GetServerNode(h) = before[h]
    /\ \A x \in DOMAIN ring : ring[x] = deleting /\ (it = End \/ x < it) => x = First(ring)

RingInv ==
  /\ RingTypeOK /\ WalkSafe /\ OnlyNeededMove /\ DeletedLeavesFirst
  /\ Idle => it = End

LEMMA GetServerIs ==
  ASSUME NEW h PROVE GetServerNode(h) = ServerAt(ring, Range(servers), h)
BY DEF GetServerNode, ServerAt

LEMMA AnswersAreServers ==
  ASSUME RingAssumption, ring \in [DOMAIN ring -> Servers], DOMAIN ring \subseteq Hashes,
         servers \in Seq(Servers)
  PROVE  Answers \in [Hashes -> SUBSET Servers]
<1> SUFFICES ASSUME NEW h \in Hashes PROVE GetServerNode(h) \subseteq Servers  BY DEF Answers
<1>1. Range(servers) \subseteq Servers  BY DEF Range
<1>2. \A m : IsFirst(ring, h, m) => ring[m] \in Servers  BY DEF IsFirst
<1>3. GetServerNode(h) = ServerAt(ring, Range(servers), h)  BY GetServerIs
<1>4. \/ ServerAt(ring, Range(servers), h) = Range(servers)
      \/ \E m : IsFirst(ring, h, m) /\ ServerAt(ring, Range(servers), h) = {ring[m]}
  BY ServerIs
<1>5. CASE \E m : IsFirst(ring, h, m) /\ ServerAt(ring, Range(servers), h) = {ring[m]}
  <2>1. PICK m : ring[m] \in Servers /\ ServerAt(ring, Range(servers), h) = {ring[m]}
    BY <1>2, <1>5
  <2> QED BY <1>3, <2>1
<1> QED BY <1>1, <1>3, <1>4, <1>5

LEMMA RingInitially == ASSUME RingAssumption, RingInit PROVE RingInv
<1>1. \A s \in Servers : Range(Hash[s]) \subseteq Hashes  BY DEF RingAssumption, Range
<1>2. Range(Initial) \subseteq Servers  BY DEF RingAssumption, Range
<1>3. DOMAIN ring \subseteq Hashes  BY <1>1, <1>2 DEF RingInit
<1>4. ASSUME NEW h \in DOMAIN ring PROVE ring[h] \in Servers
  <2> DEFINE S == {i \in DOMAIN Initial : h \in Range(Hash[Initial[i]])}
  <2>1. PICK s \in Range(Initial) : h \in Range(Hash[s])  BY DEF RingInit
  <2>2. S # {}  BY <2>1 DEF Range
  <2>3. S \in SUBSET (1..Len(Initial)) /\ Len(Initial) \in Nat  BY DEF RingAssumption
  <2> HIDE DEF S
  <2>4. S \in SUBSET Int /\ IsFiniteSet(S)
    <3>1. IsFiniteSet(1..Len(Initial)) /\ 1..Len(Initial) \in SUBSET Int  BY <2>3, FS_Interval
    <3> QED BY <2>3, <3>1, FS_Subset
  <2>5. Max(S) \in S  BY <2>2, <2>4, MaxIs
  <2>6. Initial[Max(S)] \in Servers
    <3>1. Initial \in Seq(Servers) /\ Max(S) \in 1..Len(Initial)  BY <2>3, <2>5 DEF RingAssumption
    <3> QED BY <3>1
  <2> QED BY <2>6 DEF RingInit, LastPut, S
<1>5. ring \in [DOMAIN ring -> Servers]
  <2>1. ring = [h \in DOMAIN ring |-> ring[h]]  BY DEF RingInit
  <2> QED BY <1>4, <2>1
<1>6. servers \in Seq(Servers)  BY DEF RingInit, RingAssumption
<1>7. RingTypeOK  BY <1>3, <1>5, <1>6, AnswersAreServers DEF RingInit, RingTypeOK
<1>8. End # Nowhere  BY DEF End, Nowhere
<1> QED BY <1>7, <1>8 DEF RingInit, RingInv, WalkSafe, Idle, OnlyNeededMove, DeletedLeavesFirst

LEMMA AddingKeeps ==
  ASSUME RingAssumption, RingInv, NEW s \in Servers, AddServerNode(s) PROVE RingInv'
<1> USE DEF AddServerNode
<1>0. RingTypeOK /\ it = End /\ Idle /\ Idle'  BY DEF RingInv, Idle
<1>1. /\ DOMAIN ring' = DOMAIN ring \cup Range(Hash[s])
      /\ ring' \in [DOMAIN ring' -> Servers] /\ DOMAIN ring' \subseteq Hashes
  <2>1. Range(Hash[s]) \subseteq Hashes  BY DEF RingAssumption, Range
  <2> QED BY <1>0, <2>1 DEF AddVnodes, RingTypeOK
<1>2. servers' \in Seq(Servers) /\ Range(servers') = Range(servers) \cup {s}
  <2>1. servers \in Seq(Servers) /\ servers' = Append(servers, s)  BY <1>0 DEF RingTypeOK
  <2> QED BY <2>1, RangeOfAppend
<1>3. change' = [op |-> "add", server |-> s] /\ change'.op = "add" /\ change'.server = s
  OBVIOUS
<1>4. before' \in [Hashes -> SUBSET Servers]  BY <1>0, AnswersAreServers DEF RingTypeOK
<1>5. RingTypeOK'  BY <1>0, <1>1, <1>2, <1>3, <1>4 DEF RingTypeOK
<1>6. ASSUME NEW h \in Hashes PROVE GetServerNode(h)' \subseteq before'[h] \cup {s}
  <2>1. before'[h] = ServerAt(ring, Range(servers), h)  BY GetServerIs DEF Answers
  <2>2. GetServerNode(h)' = ServerAt(ring', Range(servers'), h)  BY DEF GetServerNode, ServerAt
  <2>3. DOMAIN ring \subseteq Hashes  BY <1>0 DEF RingTypeOK
  <2>4. ring' = AddVnodes(ring, s) /\ Range(servers') = Range(servers) \cup {s}  BY <1>2
  <2>5. ServerAt(AddVnodes(ring, s), Range(servers) \cup {s}, h)
          \subseteq ServerAt(ring, Range(servers), h) \cup {s}
    BY <2>3, AddingMoves
  <2>6. GetServerNode(h)' = ServerAt(AddVnodes(ring, s), Range(servers) \cup {s}, h)
    BY <2>2, <2>4
  <2> QED BY <2>1, <2>5, <2>6
<1>7. OnlyNeededMove'  BY <1>3, <1>6 DEF OnlyNeededMove
<1>8. DeletedLeavesFirst'
  <2>1. it' = End /\ End # Nowhere  BY <1>0 DEF End, Nowhere
  <2> QED BY <1>3, <2>1 DEF DeletedLeavesFirst
<1> QED BY <1>0, <1>5, <1>7, <1>8 DEF RingInv, WalkSafe

LEMMA BeginningKeeps ==
  ASSUME RingAssumption, RingInv, NEW s \in Servers, DeleteServerNode(s) PROVE RingInv'
<1> USE DEF DeleteServerNode
<1>0. RingTypeOK /\ ~Idle'  BY DEF RingInv, Idle, RingAssumption
<1>1. \/ DOMAIN ring = {} /\ it' = End
      \/ it' \in DOMAIN ring /\ \A x \in DOMAIN ring : it' <= x
  BY <1>0, FirstIs DEF RingTypeOK
<1>2. before' \in [Hashes -> SUBSET Servers]  BY <1>0, AnswersAreServers DEF RingTypeOK
<1>3. RingTypeOK'  BY <1>0, <1>1, <1>2 DEF RingTypeOK
<1>4. \A h \in Hashes : GetServerNode(h)' = before'[h]  BY DEF Answers, GetServerNode
<1>5. ASSUME NEW x \in DOMAIN ring, it' = End \/ x < it' PROVE FALSE
  <2>1. DOMAIN ring \subseteq Int /\ End \notin DOMAIN ring  BY <1>0 DEF RingTypeOK, RingAssumption
  <2> QED BY <1>1, <1>5, <2>1
<1>6. WalkSafe'  BY <1>4, <1>5 DEF WalkSafe
<1>7. it' # Nowhere  BY <1>0, <1>1 DEF RingTypeOK, RingAssumption, End, Nowhere
<1> QED BY <1>0, <1>3, <1>6, <1>7 DEF RingInv, OnlyNeededMove, DeletedLeavesFirst

LEMMA WalkKeeps == ASSUME RingAssumption, RingInv, DeleteVnode PROVE RingInv'
<1> USE DEF DeleteVnode
<1>0. /\ RingTypeOK /\ ~Idle /\ ~Idle' /\ it \in DOMAIN ring /\ DOMAIN ring \subseteq Hashes
      /\ \A x \in DOMAIN ring : x \in Int /\ x # End /\ x # Nowhere
  BY DEF RingInv, Idle, RingTypeOK, RingAssumption
<1>7. UNCHANGED <<servers, deleting, change, before>>  OBVIOUS
<1> DEFINE safe(r, i) ==
      \A x \in DOMAIN r : r[x] = deleting /\ (i = End \/ x < i) => x = First(r)
<1>8. safe(ring, it) /\ \A h \in Hashes : deleting \notin before[h] => GetServerNode(h) = before[h]
  BY <1>0 DEF RingInv, WalkSafe
<1>9. ASSUME /\ ring' \in [DOMAIN ring' -> Servers] /\ DOMAIN ring' \subseteq DOMAIN ring
             /\ it' \in DOMAIN ring' \/ it' = End \/ (it' = Nowhere /\ DOMAIN ring' = {})
             /\ \A h \in Hashes : deleting \notin before[h] => GetServerNode(h)' = before[h]
             /\ safe(ring', it')
      PROVE  RingInv'
  <2>1. RingTypeOK'  BY <1>0, <1>7, <1>9 DEF RingTypeOK
  <2>2. WalkSafe'  BY <1>7, <1>9 DEF WalkSafe
  <2>3. OnlyNeededMove'  BY <1>0 DEF OnlyNeededMove
  <2>4. it' = Nowhere => DOMAIN ring' = {}  BY <1>0, <1>9 DEF End, Nowhere
  <2>5. DeletedLeavesFirst'  BY <1>0, <2>4 DEF DeletedLeavesFirst
  <2> QED BY <1>0, <2>1, <2>2, <2>3, <2>5 DEF RingInv
<1>1. CASE ring[it] = deleting
  <2> DEFINE rest == Restrict(ring, DOMAIN ring \ {it})
  <2>1. ring' = rest /\ it' = Successor(rest, First(rest))  BY <1>1 DEF Erase
  <2>2. DOMAIN rest = DOMAIN ring \ {it} /\ rest \in [DOMAIN rest -> Servers]
    BY <1>0 DEF Restrict, RingTypeOK
  <2>3. ASSUME NEW h \in Hashes, deleting \notin before[h] PROVE GetServerNode(h)' = before[h]
    <3>1. ServerAt(ring, Range(servers), h) = before[h]  BY <1>8, <2>3, GetServerIs
    <3>2. ServerAt(rest, Range(servers), h) = before[h]
      BY <1>0, <1>1, <2>3, <3>1, ErasingMoves
    <3>3. GetServerNode(h)' = ServerAt(ring', Range(servers'), h)  BY DEF GetServerNode, ServerAt
    <3> HIDE DEF rest
    <3> QED BY <1>7, <2>1, <3>2, <3>3
  <2> HIDE DEF rest
  <2>4. \/ DOMAIN rest = {} /\ First(rest) = End
        \/ First(rest) \in DOMAIN rest /\ \A x \in DOMAIN rest : First(rest) <= x
    BY <1>0, <2>2, FirstIs
  <2>5. CASE DOMAIN rest = {}
    <3>1. it' = Nowhere  BY <2>1, <2>4, <2>5 DEF Successor
    <3> QED BY <1>9, <2>1, <2>2, <2>3, <2>5, <3>1
  <2>6. CASE DOMAIN rest # {}
    <3>1. First(rest) \in Hashes /\ First(rest) \in Int  BY <1>0, <2>2, <2>4, <2>6
    <3>2. \/ it' = End /\ \A x \in DOMAIN rest : x <= First(rest)
          \/ /\ it' \in DOMAIN rest /\ First(rest) < it'
             /\ \A x \in DOMAIN rest : x <= First(rest) \/ it' <= x
      BY <1>0, <2>1, <2>2, <3>1, SuccessorIs
    <3>3. ASSUME NEW x \in DOMAIN rest, it' = End \/ x < it' PROVE x = First(rest)
      <4>1. x \in Int /\ First(rest) <= x  BY <1>0, <2>2, <2>4, <2>6
      <4>2. \A y \in DOMAIN rest : y \in Int /\ y # End  BY <1>0, <2>2
      <4> QED BY <3>1, <3>2, <3>3, <4>1, <4>2
    <3>4. safe(rest, it')  BY <3>3
    <3> HIDE DEF safe
    <3> QED BY <1>9, <2>1, <2>2, <2>3, <3>2, <3>4
  <2> QED BY <2>5, <2>6
<1>2. CASE ring[it] # deleting
  <2>1. ring' = ring /\ it' = Successor(ring, it)  BY <1>2
  <2>2. ASSUME NEW h \in Hashes PROVE GetServerNode(h)' = GetServerNode(h)
    BY <1>7, <2>1 DEF GetServerNode
  <2>3. \/ it' = End /\ \A x \in DOMAIN ring : x <= it
        \/ it' \in DOMAIN ring /\ it < it' /\ \A x \in DOMAIN ring : x <= it \/ it' <= x
    BY <1>0, <2>1, SuccessorIs
  <2>4. ASSUME NEW x \in DOMAIN ring, ring[x] = deleting, it' = End \/ x < it'
        PROVE  x = First(ring)
    <3>1. x \in Int /\ it \in Int /\ it # End /\ x # it  BY <1>0, <1>2, <2>4
    <3>2. \A y \in DOMAIN ring : y \in Int /\ y # End  BY <1>0
    <3>3. x < it  BY <2>3, <2>4, <3>1, <3>2
    <3> QED BY <1>8, <2>4, <3>3
  <2>5. safe(ring, it')  BY <2>4
  <2> HIDE DEF safe
  <2> QED BY <1>0, <1>8, <1>9, <2>1, <2>2, <2>3, <2>5 DEF RingTypeOK
<1> QED BY <1>1, <1>2

LEMMA EndingKeeps == ASSUME RingAssumption, RingInv, DeleteServer PROVE RingInv'
<1> USE DEF DeleteServer
<1>0. RingTypeOK /\ ~Idle /\ Idle' /\ it' = End /\ it = End /\ deleting \in Servers
  BY DEF RingInv, Idle, RingTypeOK
<1>1. servers' \in Seq(Servers) /\ Range(servers') = Range(servers) \ {deleting}
  BY <1>0, WithoutIs DEF RingTypeOK
<1>2. change' = [op |-> "delete", server |-> deleting] /\ change'.op = "delete"
      /\ change'.server = deleting
  OBVIOUS
<1>3. RingTypeOK'
  <2>1. change' \in [op : {"add", "delete"}, server : Servers] /\ deleting' = NoServer
    BY <1>0, <1>2
  <2> QED BY <1>0, <1>1, <2>1 DEF RingTypeOK
<1>4. ASSUME NEW h \in Hashes, deleting \notin before[h] PROVE GetServerNode(h)' = before[h]
  <2>1. GetServerNode(h) = before[h]  BY <1>0, <1>4 DEF RingInv, WalkSafe
  <2> DEFINE after == {x \in DOMAIN ring : x >= h}
  <2>2. GetServerNode(h) = IF after = {} THEN Range(servers) ELSE {ring[Min(after)]}
    BY DEF GetServerNode
  <2>3. GetServerNode(h)' = IF after = {} THEN Range(servers') ELSE {ring[Min(after)]}
    BY DEF GetServerNode
  <2> HIDE DEF after
  <2> QED BY <1>1, <1>4, <2>1, <2>2, <2>3
<1>5. OnlyNeededMove'  BY <1>2, <1>4 DEF OnlyNeededMove
<1>6. \A x \in DOMAIN ring : ring[x] = deleting => x = First(ring)
  BY <1>0 DEF RingInv, WalkSafe
<1>7. DeletedLeavesFirst'
  <2>1. it' # Nowhere  BY <1>0 DEF End, Nowhere
  <2> QED BY <1>2, <1>6, <2>1 DEF DeletedLeavesFirst
<1> QED BY <1>0, <1>3, <1>5, <1>7 DEF RingInv, WalkSafe

LEMMA RingStep == ASSUME RingAssumption, RingInv, [RingNext]_ringVars PROVE RingInv'
<1>1. ASSUME UNCHANGED ringVars PROVE RingInv'
  <2> USE <1>1 DEF ringVars
  <2>1. RingTypeOK'  BY DEF RingInv, RingTypeOK
  <2>2. WalkSafe'  BY DEF RingInv, WalkSafe, Idle, GetServerNode
  <2>3. OnlyNeededMove'  BY DEF RingInv, OnlyNeededMove, Idle, GetServerNode
  <2>4. DeletedLeavesFirst'  BY DEF RingInv, DeletedLeavesFirst, Idle
  <2> QED BY <2>1, <2>2, <2>3, <2>4 DEF RingInv, Idle
<1>2. CASE \E s \in Servers : AddServerNode(s) \/ DeleteServerNode(s)
  BY <1>2, AddingKeeps, BeginningKeeps
<1>3. CASE DeleteVnode  BY <1>3, WalkKeeps
<1>4. CASE DeleteServer  BY <1>4, EndingKeeps
<1>5. CASE Spin  BY <1>1, <1>5 DEF Spin
<1> QED BY <1>1, <1>2, <1>3, <1>4, <1>5 DEF RingNext

LEMMA RingInvHolds == ASSUME RingAssumption PROVE RingSpec => []RingInv
<1>1. RingInit => RingInv  BY RingInitially
<1>2. RingInv /\ [RingNext]_ringVars => RingInv'  BY RingStep
<1> QED BY <1>1, <1>2, PTL DEF RingSpec

\* The ring has values of its types.
THEOREM RingTypesHold == ASSUME RingAssumption PROVE RingSpec => []RingTypeOK
<1>1. RingInv => RingTypeOK  BY DEF RingInv
<1> QED BY <1>1, RingInvHolds, PTL

\* For any servers and hashes, a change of the servers moves only the keys it must.
THEOREM OnlyNeededMoves == ASSUME RingAssumption PROVE RingSpec => []OnlyNeededMove
<1>1. RingInv => OnlyNeededMove  BY DEF RingInv
<1> QED BY <1>1, RingInvHolds, PTL

\* For any servers and hashes, at most the first virtual node of the ring outlives its
\* server, and a deletion that does not end has emptied the ring.
THEOREM OneVnodeIsLeft == ASSUME RingAssumption PROVE RingSpec => []DeletedLeavesFirst
<1>1. RingInv => DeletedLeavesFirst  BY DEF RingInv
<1> QED BY <1>1, RingInvHolds, PTL
===============================================================================
