---------------------------- MODULE ClusterProofs -----------------------------
(* Proofs about Cluster, from what is proved of its two parts. *)
EXTENDS Cluster, TLAPS

\* The two parts again, with the theorems about them.
InP  == INSTANCE IntakeProofs
PreP == INSTANCE PreprocessProofs WITH MaxOffers <- 0, MaxLostReplies <- MaxLostReceipts

-------------------------------------------------------------------------------
(* The assumptions of the parts. *)

\* What the cluster assumes is what the intake assumes.
LEMMA InAssumption == InP!IntakeAssumption
BY ClusterAssumption DEF InP!IntakeAssumption, In!Kinds, InP!Kinds, In!Errand, InP!Errand,
   In!Copy, InP!Copy, Range, InP!Range, IsInjective, InP!IsInjective, IsFiniteSet, InP!IsFiniteSet

\* Every record is fed to one of the loops, whose kind is its topic.
LEMMA PreAssumption == PreP!PreprocessAssumption
<1>1. Topic \in [Records -> PreP!Kinds]
  <2> SUFFICES ASSUME NEW m \in Records PROVE Topic[m] \in PreP!Kinds BY DEF Topic
  <2>1. \E p \in Pullers : m \in Range(Feed[p]) BY ClusterAssumption
  <2>2. (CHOOSE p \in Pullers : m \in Range(Feed[p])) \in Pullers BY <2>1
  <2>3. \A p \in Pullers : p[2] \in PreP!Kinds
    BY ClusterAssumption DEF In!Kinds, PreP!Kinds
  <2> QED BY <2>2, <2>3 DEF Topic, Source
<1>2. Pre!Job = PreP!Job BY DEF Pre!Job, PreP!Job
<1> QED BY <1>1, <1>2, ClusterAssumption DEF PreP!PreprocessAssumption, IsFiniteSet, PreP!IsFiniteSet, Range, PreP!Range

-------------------------------------------------------------------------------
(* What the two parts do, seen from each other. *)

\* The intake's steps are those the proofs are about.
LEMMA InSame == In!IntakeNext <=> InP!IntakeNext
BY Zenon DEF In!IntakeNext, InP!IntakeNext, In!Produce, InP!Produce, In!Break, InP!Break,
  In!Subscribe, InP!Subscribe, In!SubscribeFails, InP!SubscribeFails,
  In!PullSwitchConfig, InP!PullSwitchConfig, In!UpdateHealth, InP!UpdateHealth,
  In!SubmitHealthInfo, InP!SubmitHealthInfo, In!Resend, InP!Resend,
  In!SubscribeRefused, InP!SubscribeRefused, In!SubscribeNoData, InP!SubscribeNoData,
  In!SubscribeSucceeds, InP!SubscribeSucceeds, In!InitMinosPipe, InP!InitMinosPipe,
  In!FilterOut, InP!FilterOut, In!HandToResender, InP!HandToResender, In!Keep, InP!Keep,
  In!Push, InP!Push, In!NoRelaxingNode, InP!NoRelaxingNode, In!FindRelaxingNode,
  InP!FindRelaxingNode, In!CallRetransmit, InP!CallRetransmit, In!RetransmitReplyLost,
  InP!RetransmitReplyLost, In!Retransmit, InP!Retransmit, In!Full, InP!Full, In!Enqueue, InP!Enqueue,
  In!Begin, InP!Begin, In!Resender, InP!Resender, In!Relaxing, InP!Relaxing, In!Reporting, InP!Reporting,
  In!Count, InP!Count, In!Body, InP!Body, In!FinishPackage, InP!FinishPackage, In!At, InP!At,
  In!Goto, InP!Goto, In!Refused, InP!Refused, In!Answer, InP!Answer, In!Resubscribe, InP!Resubscribe,
  In!broker, InP!broker, In!puller, InP!puller, In!load, InP!load, In!resend, InP!resend,
  In!past, InP!past, In!Kinds, InP!Kinds, In!Range, InP!Range

\* So is a node's death, and what is at a node.
LEMMA InDies ==
  \A n : /\ In!Die(n) <=> InP!Die(n)
         /\ \A m : (In!IsAt(n, m) <=> InP!IsAt(n, m)) /\ (In!PulledBy(n, m) <=> InP!PulledBy(n, m))
BY Zenon DEF In!Die, InP!Die, In!IsAt, InP!IsAt, In!StandsIn, InP!StandsIn, In!Holds, InP!Holds,
  In!Awaits, InP!Awaits, In!Sends, InP!Sends, In!Body, InP!Body, In!PulledBy, InP!PulledBy,
  In!broker, InP!broker, In!load, InP!load, In!Kinds, InP!Kinds, In!Range, InP!Range

LEMMA PreDies ==
  \A n : (Pre!Die(n) <=> PreP!Die(n)) /\ \A m : Pre!InPool(n, m) <=> PreP!InPool(n, m)
BY Zenon DEF Pre!Die, PreP!Die, Pre!InPool, PreP!InPool, Pre!Kinds, PreP!Kinds, Pre!redis,
  PreP!redis, Pre!ends, PreP!ends, Pre!Range, PreP!Range

\* So are the steps of a node's preprocessing.
LEMMA PreSame == \A n : Pre!NodeStep(n) <=> PreP!NodeStep(n)
BY Zenon DEF Pre!NodeStep, PreP!NodeStep, Pre!Agent, PreP!Agent, Pre!AgentNewTest, PreP!AgentNewTest,
  Pre!AgentNewPop, PreP!AgentNewPop, Pre!Pop, PreP!Pop, Pre!BeginJob, PreP!BeginJob, Pre!FirstStep, PreP!FirstStep,
  Pre!PreProcess, PreP!PreProcess, Pre!AskQid, PreP!AskQid, Pre!AskQuery, PreP!AskQuery, Pre!Ask, PreP!Ask,
  Pre!SetQid, PreP!SetQid, Pre!SetQuery, PreP!SetQuery, Pre!Put, PreP!Put, Pre!AtStep, PreP!AtStep,
  Pre!GoOn, PreP!GoOn, Pre!EndJob, PreP!EndJob, Pre!Exists, PreP!Exists, Pre!QidKey, PreP!QidKey,
  Pre!QueryKey, PreP!QueryKey, Pre!Transmit, PreP!Transmit, Pre!TransmitReplyLost, PreP!TransmitReplyLost,
  Pre!Receive, PreP!Receive, Pre!stages, PreP!stages, Pre!redis, PreP!redis, Pre!ends, PreP!ends, Pre!atNode, PreP!atNode

\* The intake never pops a record, and fills a queue by push() or by Retransmit.
LEMMA InMoves ==
  ASSUME InP!IntakeNext
  PROVE  /\ UNCHANGED <<up, taken>>
         /\ \/ UNCHANGED queue
            \/ \E p \in Pullers : InP!Push(p)
            \/ \E p \in Pullers, r \in Resenders :
                 /\ sending[p][r] # None /\ sending[p][r].to \in up
                 /\ InP!Retransmit(sending[p][r].to, sending[p][r].task)
<1> DEFINE Moves == /\ UNCHANGED <<up, taken>>
                    /\ \/ UNCHANGED queue
                       \/ \E p \in Pullers : InP!Push(p)
                       \/ \E p \in Pullers, r \in Resenders :
                            /\ sending[p][r] # None /\ sending[p][r].to \in up
                            /\ InP!Retransmit(sending[p][r].to, sending[p][r].task)
<1> USE DEF InP!broker, InP!puller, InP!load, InP!resend, InP!past
<1>1. ASSUME NEW p \in Pullers, InP!Push(p) PROVE Moves
  BY <1>1 DEF InP!Push
<1>2. ASSUME NEW p \in Pullers, InP!Produce(p) \/ InP!Break(p) \/ InP!SubscribeFails(p)
      PROVE  Moves
  BY <1>2 DEF InP!Produce, InP!Break, InP!SubscribeFails
<1>3. ASSUME NEW p \in Pullers,
             InP!SubscribeRefused(p) \/ InP!SubscribeNoData(p) \/ InP!SubscribeSucceeds(p)
             \/ InP!InitMinosPipe(p)
      PROVE  Moves
  BY <1>3 DEF InP!SubscribeRefused, InP!SubscribeNoData, InP!SubscribeSucceeds, InP!InitMinosPipe
<1>4. ASSUME NEW p \in Pullers,
             InP!FilterOut(p) \/ InP!HandToResender(p) \/ InP!Keep(p)
      PROVE  Moves
  BY <1>4 DEF InP!FilterOut, InP!HandToResender, InP!Keep
<1>5. ASSUME NEW n, NEW level, NEW op, NEW p,
             InP!PullSwitchConfig(p, op) \/ InP!UpdateHealth(n, level)
             \/ InP!SubmitHealthInfo(n)
      PROVE  Moves
  BY <1>5 DEF InP!PullSwitchConfig, InP!UpdateHealth, InP!SubmitHealthInfo
<1>6. ASSUME NEW p \in Pullers, NEW r \in Resenders,
             InP!NoRelaxingNode(p, r) \/ InP!FindRelaxingNode(p, r)
      PROVE  Moves
  BY <1>6 DEF InP!NoRelaxingNode, InP!FindRelaxingNode, InP!Resender
<1>7. ASSUME NEW p \in Pullers, NEW r \in Resenders,
             InP!CallRetransmit(p, r) \/ InP!RetransmitReplyLost(p, r)
      PROVE  Moves
  BY <1>7 DEF InP!CallRetransmit, InP!RetransmitReplyLost, InP!Resender
<1> QED
  BY <1>1, <1>2, <1>3, <1>4, <1>5, <1>6, <1>7
     DEF InP!IntakeNext, InP!Subscribe, InP!Resend

\* The preprocessing of a node changes the queues only by popping one of that node's.
LEMMA PreMoves ==
  ASSUME NEW n, PreP!NodeStep(n)
  PROVE  /\ UNCHANGED up
         /\ \/ UNCHANGED <<queue, taken>>
            \/ \E k \in InP!Kinds : queue[n][k] # <<>> /\ PreP!Pop(n, k)
<1> USE DEF PreP!stages, PreP!redis, PreP!ends, PreP!atNode
<1>1. ASSUME PreP!Agent(n)
      PROVE  UNCHANGED up /\ \E k \in InP!Kinds : queue[n][k] # <<>> /\ PreP!Pop(n, k)
  BY <1>1 DEF PreP!Agent, InP!Kinds
<1>2. ASSUME PreP!AgentNewTest(n) \/ PreP!AgentNewPop(n)
      PROVE  /\ UNCHANGED up
             /\ \/ UNCHANGED <<queue, taken>>
                \/ \E k \in InP!Kinds : queue[n][k] # <<>> /\ PreP!Pop(n, k)
  BY <1>2 DEF PreP!AgentNewTest, PreP!AgentNewPop, InP!Kinds
<1>3. ASSUME NEW w, PreP!BeginJob(n, w) \/ PreP!PreProcess(n, w)
      PROVE  UNCHANGED <<queue, taken, up>>
  BY <1>3 DEF PreP!BeginJob, PreP!PreProcess, PreP!AskQid, PreP!AskQuery, PreP!Ask, PreP!SetQid,
     PreP!SetQuery, PreP!Put, PreP!Transmit, PreP!TransmitReplyLost
<1> QED BY <1>1, <1>2, <1>3 DEF PreP!NodeStep

-------------------------------------------------------------------------------
(* Each part of the cluster is what the proofs about it are about. *)

\* To the intake, the preprocessing is a consumer of the queues.
LEMMA ClusterIsIntake == Spec => InP!Spec
<1>1. Init => InP!Init
  BY DEF Init, In!Init, InP!Init, In!Kinds, InP!Kinds
<1>2. [Next]_vars => [InP!Next]_InP!vars
  <2> SUFFICES ASSUME [Next]_vars PROVE [InP!Next]_InP!vars OBVIOUS
  <2> USE DEF InP!vars, InP!broker, InP!puller, InP!load, InP!resend, InP!past
  <2>1. CASE In!IntakeNext BY <2>1, InSame DEF InP!Next
  <2>2. ASSUME NEW n \in Nodes, Pre!NodeStep(n), UNCHANGED intake PROVE [InP!Next]_InP!vars
    <3>1. /\ UNCHANGED up /\ n \in up
          /\ \/ UNCHANGED <<queue, taken>>
             \/ \E k \in InP!Kinds : queue[n][k] # <<>> /\ PreP!Pop(n, k)
      BY <2>2, PreSame, PreMoves DEF Pre!NodeStep
    <3>2. CASE UNCHANGED <<queue, taken>> BY <2>2, <3>1, <3>2 DEF intake
    <3>3. ASSUME NEW k \in InP!Kinds, queue[n][k] # <<>>, PreP!Pop(n, k) PROVE InP!Consume(n, k)
      BY <2>2, <3>1, <3>3 DEF InP!Consume, PreP!Pop, intake
    <3> QED BY <3>1, <3>2, <3>3 DEF InP!Next
  <2>3. ASSUME UNCHANGED intake, UNCHANGED <<queue, taken, up>> PROVE [InP!Next]_InP!vars
    BY <2>3 DEF intake
  <2>4. ASSUME NEW n, Pre!Disconnect(n) PROVE UNCHANGED <<queue, taken, up>>
    BY <2>4 DEF Pre!Disconnect, Pre!stages
  <2>5. ASSUME NEW key, Pre!Expire(key) PROVE UNCHANGED <<queue, taken, up>>
    BY <2>5 DEF Pre!Expire, Pre!stages
  <2>6. ASSUME NEW q, Pre!SlaveChanges(q) PROVE UNCHANGED <<queue, taken, up>>
    BY <2>6 DEF Pre!SlaveChanges, Pre!stages
  <2>7. ASSUME NEW n \in Nodes, In!Die(n) PROVE InP!Next BY <2>7, InDies DEF InP!Next
  <2>8. CASE UNCHANGED vars BY <2>3, <2>8 DEF vars
  <2> QED BY <2>1, <2>2, <2>3, <2>4, <2>5, <2>6, <2>7, <2>8 DEF Next
<1> QED BY <1>1, <1>2, PTL DEF Spec, InP!Spec

\* So what is proved of the intake holds of the cluster.
LEMMA IntakeHolds == Spec => [](InP!IntakeInv /\ InP!AtNodesInv)
<1>1. InP!Spec => [](InP!IntakeInv /\ InP!AtNodesInv)
  <2>1. InP!Spec => []InP!IntakeInv BY InAssumption, InP!IntakeInvariant
  <2>2. InP!Spec => []InP!AtNodesInv BY InAssumption, InP!AtNodesInvariant
  <2> QED BY <2>1, <2>2, PTL
<1> QED BY <1>1, ClusterIsIntake, PTL

\* To the preprocessing, the intake fills its queues with records.
LEMMA ClusterIsPreprocess == Spec => PreP!OpenSpec
<1>1. Init => PreP!Init
  BY DEF Init, Pre!Init, PreP!Init, Pre!Kinds, PreP!Kinds, Pre!Keys, PreP!Keys, Pre!Range,
     PreP!Range
<1>2. InP!IntakeInv /\ [Next]_vars => [PreP!OpenNext]_PreP!vars
  <2> SUFFICES ASSUME InP!IntakeInv, [Next]_vars PROVE [PreP!OpenNext]_PreP!vars OBVIOUS
  <2> USE DEF PreP!vars, PreP!stages, PreP!redis, PreP!ends
  <2>0. /\ up \subseteq Nodes /\ InP!PullerInv /\ InP!FedInv
        /\ sending \in [Pullers -> [Resenders -> InP!Errand \cup {None}]]
    BY DEF InP!IntakeInv, InP!QuietTypes, InP!LedgerInv, InP!LedgerTypes
  <2>1. ASSUME In!IntakeNext, UNCHANGED preprocess PROVE [PreP!OpenNext]_PreP!vars
    <3>1. ASSUME NEW n \in Nodes, NEW k \in PreP!Kinds, NEW m \in Records, InP!Enqueue(n, k, m)
          PROVE  [PreP!OpenNext]_PreP!vars
      <4>1. UNCHANGED <<up, taken>> BY <2>1, InSame, InMoves
      <4>2. PreP!Fill(n, k, m)
        BY <2>1, <3>1, <4>1 DEF PreP!Fill, InP!Enqueue, preprocess
      <4> QED BY <4>2 DEF PreP!OpenNext
    <3>2. ASSUME UNCHANGED queue PROVE [PreP!OpenNext]_PreP!vars
      BY <2>1, <3>2, InSame, InMoves DEF preprocess
    <3>3. ASSUME NEW p \in Pullers, InP!Push(p) PROVE [PreP!OpenNext]_PreP!vars
      <4>1. InP!Body(p) \in Records
        BY <2>0, <3>3, InP!InHandIs, InAssumption DEF InP!Push, InP!At, InP!Body
      <4>2. p[1] \in Nodes /\ p[2] \in PreP!Kinds
        BY ClusterAssumption DEF In!Kinds, PreP!Kinds
      <4>3. InP!Enqueue(p[1], p[2], InP!Body(p)) BY <3>3 DEF InP!Push
      <4> QED BY <3>1, <4>1, <4>2, <4>3
    <3>4. ASSUME NEW p \in Pullers, NEW r \in Resenders,
                 sending[p][r] # None, sending[p][r].to \in up,
                 InP!Retransmit(sending[p][r].to, sending[p][r].task)
          PROVE  [PreP!OpenNext]_PreP!vars
      <4>1. /\ sending[p][r].to \in Nodes /\ sending[p][r].task.body \in Records
            /\ sending[p][r].task.type \in PreP!Kinds
        BY <2>0, <3>4 DEF InP!Errand, InP!Copy, InP!Kinds, PreP!Kinds
      <4> QED BY <3>1, <3>2, <3>4, <4>1 DEF InP!Retransmit
    <3> QED BY <2>1, <3>2, <3>3, <3>4, InSame, InMoves
  <2>2. ASSUME NEW n \in Nodes, Pre!NodeStep(n) PROVE PreP!OpenNext
    BY <2>2, PreSame DEF PreP!OpenNext
  <2>3. ASSUME NEW n \in up \cap Cut, Pre!Disconnect(n) PROVE PreP!OpenNext
    BY <2>3 DEF Pre!Disconnect, PreP!Disconnect, PreP!OpenNext, Pre!stages,
       Pre!ends
  <2>4. ASSUME NEW key \in Pre!Keys, Pre!Expire(key) PROVE PreP!OpenNext
    BY <2>4 DEF Pre!Expire, PreP!Expire, PreP!OpenNext, Pre!stages,
       Pre!ends, Pre!Keys, PreP!Keys, Pre!Range, PreP!Range
  <2>5. ASSUME NEW q \in Restless, Pre!SlaveChanges(q) PROVE PreP!OpenNext
    BY <2>5 DEF Pre!SlaveChanges, PreP!SlaveChanges, PreP!OpenNext,
       Pre!stages, Pre!redis, Pre!ends
  <2>6. CASE UNCHANGED vars BY <2>6 DEF vars, preprocess
  <2>7. ASSUME NEW n \in Nodes, Pre!Die(n) PROVE PreP!OpenNext
    BY <2>7, PreDies DEF PreP!OpenNext
  <2> QED BY <2>1, <2>2, <2>3, <2>4, <2>5, <2>6, <2>7 DEF Next
<1> QED BY <1>1, <1>2, IntakeHolds, PTL DEF Spec, PreP!OpenSpec

\* So what is proved of the preprocessing with queues that others fill holds of the cluster.
LEMMA PreprocessHolds ==
  Spec => []( /\ PreP!RedundantInv /\ PreP!KeptInv
              /\ PreP!RedundantHasSuccess /\ PreP!PoppedIsSomewhere /\ PreP!PlacesCount)
<1>1. PreP!OpenSpec => [](PreP!RedundantInv /\ PreP!KeptInv)
  BY PreAssumption, PreP!PreprocessInvariant
<1>2. PreP!OpenSpec => []PreP!RedundantHasSuccess BY PreAssumption, PreP!RedundantHasReason
<1>3. PreP!OpenSpec => [](PreP!NothingLost /\ PreP!PoppedIsSomewhere)
  BY PreAssumption, PreP!PoppedIsKept
<1>4. PreP!OpenSpec => []PreP!PlacesCount BY PreAssumption, PreP!PlacesAreCounted
<1> QED BY <1>1, <1>2, <1>3, <1>4, ClusterIsPreprocess, PTL

-------------------------------------------------------------------------------
(* The records of the cluster. *)

\* A step of the intake takes in one record, loses one, or does neither.
LEMMA InCounts ==
  ASSUME InP!IntakeNext
  PROVE  /\ UNCHANGED diedQueued
         /\ \/ UNCHANGED <<counted, resent, lost>>
            \/ \E p \in Pullers :
                 /\ InP!At(p, "route") /\ InP!Count(p) /\ UNCHANGED lost
                 /\ resent' \in {resent, resent \cup {InP!Body(p)}}
            \/ UNCHANGED <<counted, resent>> /\ \E m : lost' = lost \cup {m}
<1> DEFINE Moves == /\ UNCHANGED diedQueued
                    /\ \/ UNCHANGED <<counted, resent, lost>>
                       \/ \E p \in Pullers :
                            /\ InP!At(p, "route") /\ InP!Count(p) /\ UNCHANGED lost
                            /\ resent' \in {resent, resent \cup {InP!Body(p)}}
                       \/ UNCHANGED <<counted, resent>> /\ \E m : lost' = lost \cup {m}
<1> USE DEF InP!broker, InP!puller, InP!load, InP!resend, InP!past
<1>1. ASSUME NEW p \in Pullers,
             InP!Produce(p) \/ InP!Break(p) \/ InP!SubscribeFails(p) \/ InP!SubscribeRefused(p)
      PROVE  Moves
  BY <1>1 DEF InP!Produce, InP!Break, InP!SubscribeFails, InP!SubscribeRefused
<1>2. ASSUME NEW p \in Pullers,
             InP!SubscribeNoData(p) \/ InP!SubscribeSucceeds(p) \/ InP!InitMinosPipe(p)
             \/ InP!FilterOut(p) \/ InP!Push(p)
      PROVE  Moves
  BY <1>2 DEF InP!SubscribeNoData, InP!SubscribeSucceeds, InP!InitMinosPipe, InP!FilterOut,
     InP!Push
<1>3. ASSUME NEW p \in Pullers, InP!HandToResender(p) \/ InP!Keep(p) PROVE Moves
  BY <1>3 DEF InP!HandToResender, InP!Keep
<1>4. ASSUME NEW n, NEW level, NEW op, NEW p,
             InP!PullSwitchConfig(p, op) \/ InP!UpdateHealth(n, level)
             \/ InP!SubmitHealthInfo(n)
      PROVE  Moves
  BY <1>4 DEF InP!PullSwitchConfig, InP!UpdateHealth, InP!SubmitHealthInfo
<1>5. ASSUME NEW p, NEW r, InP!NoRelaxingNode(p, r) \/ InP!FindRelaxingNode(p, r) PROVE Moves
  BY <1>5 DEF InP!NoRelaxingNode, InP!FindRelaxingNode, InP!Resender
<1>6. ASSUME NEW p, NEW r, InP!CallRetransmit(p, r) \/ InP!RetransmitReplyLost(p, r)
      PROVE  Moves
  BY <1>6 DEF InP!CallRetransmit, InP!RetransmitReplyLost, InP!Resender, InP!Retransmit
<1> QED
  BY <1>1, <1>2, <1>3, <1>4, <1>5, <1>6
     DEF InP!IntakeNext, InP!Subscribe, InP!Resend

\* What is in a node's pool was pulled by it or sent on; and a dead node has no pool.
HomeAtWork ==
  \A n \in Nodes, m \in Records : PreP!InPool(n, m) =>
    n \in up /\ (m \in resent \/ InP!PulledBy(n, m))

\* The agents fill a pool from the queues of its node, and a death empties it.
LEMMA HomeStep ==
  ASSUME HomeAtWork, InP!AtNodesInv, PreP!RedundantInv, [Next]_vars
  PROVE  HomeAtWork'
<1>0. /\ line \in [Nodes -> Seq(Records)] /\ PreP!PreTypes
      /\ job \in [Nodes -> [Workers -> PreP!Job \cup {None}]]
  BY DEF PreP!RedundantInv, PreP!PreTypes
<1>h. \A n, m : InP!PulledBy(n, m)' <=> InP!PulledBy(n, m) BY DEF InP!PulledBy
<1>1. ASSUME UNCHANGED <<up, line, job>>, resent \subseteq resent' PROVE HomeAtWork'
  <2>1. ASSUME NEW n \in Nodes, NEW m \in Records, PreP!InPool(n, m)'
        PROVE  n \in up' /\ (m \in resent' \/ InP!PulledBy(n, m))
    <3>1. PreP!InPool(n, m) BY <1>1, <2>1 DEF PreP!InPool
    <3> QED BY <1>1, <3>1 DEF HomeAtWork
  <2> QED BY <1>h, <2>1 DEF HomeAtWork
<1>2. CASE In!IntakeNext /\ UNCHANGED preprocess
  <2>1. UNCHANGED <<up, line, job>> BY <1>2, InSame, InMoves DEF preprocess
  <2>2. resent \subseteq resent' BY <1>2, InSame, InCounts
  <2> QED BY <1>1, <2>1, <2>2
<1>3. ASSUME NEW i \in Nodes, Pre!NodeStep(i), UNCHANGED intake PROVE HomeAtWork'
  <2>1. PreP!NodeStep(i) /\ i \in up /\ up' = up /\ resent' = resent
    BY <1>3, PreSame, PreMoves DEF Pre!NodeStep, intake
  <2>2. ASSUME NEW n \in Nodes, NEW m \in Records, PreP!InPool(n, m)'
        PROVE  n \in up /\ (m \in resent \/ InP!PulledBy(n, m))
    <3>1. \/ PreP!InPool(n, m)
          \/ n = i /\ \E k \in PreP!Kinds : m \in PreP!Range(queue[n][k])
      BY <1>0, <2>1, <2>2, PreAssumption, PreP!PoolFilled
    <3>2. ASSUME NEW k \in PreP!Kinds, m \in PreP!Range(queue[n][k]) PROVE InP!StandsIn(n, m)
      BY <3>2 DEF InP!StandsIn, PreP!Kinds, InP!Kinds, PreP!Range, InP!Range
    <3> QED BY <2>1, <3>1, <3>2 DEF HomeAtWork, InP!AtNodesInv, InP!AtHome
  <2> QED BY <1>h, <2>1, <2>2 DEF HomeAtWork
<1>4. ASSUME NEW i \in Nodes, In!Die(i), Pre!Die(i) PROVE HomeAtWork'
  <2>1. /\ resent' = resent /\ up' = up \ {i} /\ PreP!Die(i)
    BY <1>4, PreDies DEF In!Die, Pre!Die
  <2>2. /\ line' = [line EXCEPT ![i] = <<>>]
        /\ \A x \in Nodes, y \in Workers : job'[x][y] = IF x = i THEN None ELSE job[x][y]
    BY <1>0, <2>1, PreAssumption, PreP!DieTypes
  <2>3. ASSUME NEW n \in Nodes, NEW m \in Records, PreP!InPool(n, m)'
        PROVE  n \in up' /\ (m \in resent \/ InP!PulledBy(n, m))
    <3>1. n # i
      <4>1. SUFFICES ASSUME n = i PROVE FALSE OBVIOUS
      <4>2. line'[n] = <<>> /\ \A w \in Workers : job'[n][w] = None BY <1>0, <2>2, <4>1
      <4>3. m \notin PreP!Range(line'[n]) BY <4>2 DEF PreP!Range
      <4> QED BY <2>3, <4>2, <4>3 DEF PreP!InPool
    <3>2. line'[n] = line[n] /\ \A w \in Workers : job'[n][w] = job[n][w] BY <1>0, <2>2, <3>1
    <3>3. PreP!InPool(n, m) BY <2>3, <3>2 DEF PreP!InPool
    <3> QED BY <2>1, <3>1, <3>3 DEF HomeAtWork
  <2> QED BY <1>h, <2>1, <2>3 DEF HomeAtWork
<1>5. ASSUME UNCHANGED intake, UNCHANGED <<up, line, job>> PROVE HomeAtWork'
  BY <1>1, <1>5 DEF intake
<1>6. ASSUME NEW n, NEW key, NEW q, Pre!Disconnect(n) \/ Pre!Expire(key) \/ Pre!SlaveChanges(q)
      PROVE  UNCHANGED <<up, line, job>>
  BY <1>6 DEF Pre!Disconnect, Pre!Expire, Pre!SlaveChanges, Pre!stages
<1>7. CASE UNCHANGED vars BY <1>5, <1>7 DEF vars, preprocess
<1> QED BY <1>2, <1>3, <1>4, <1>5, <1>6, <1>7 DEF Next

\* What is at work at a node came through that node's intake, or was sent on.
LEMMA HomeHolds == Spec => []HomeAtWork
<1>1. Init => HomeAtWork
  <2> SUFFICES ASSUME Init PROVE HomeAtWork OBVIOUS
  <2>1. ASSUME NEW n \in Nodes, NEW m \in Records PROVE ~PreP!InPool(n, m)
    BY DEF Init, Pre!Init, PreP!InPool, PreP!Range
  <2> QED BY <2>1 DEF HomeAtWork
<1> QED BY <1>1, HomeStep, IntakeHolds, PreprocessHolds, PTL DEF Spec

\* What the intake accounts for as consumed is what the preprocessing has somewhere.
LEMMA AccountsMeet ==
  ASSUME InP!Accounted, PreP!PoppedIsSomewhere, HomeAtWork
  PROVE  EndToEnd
<1>a. ASSUME NEW n \in Nodes \ up, NEW m \in Records PROVE ~(In!IsAt(n, m) \/ Pre!InPool(n, m))
  BY InDies, PreDies DEF InP!Accounted, HomeAtWork
<1> SUFFICES ASSUME NEW m \in Records
             PROVE  counted[m] = 1 <=> InFlight(m) \/ Ended(m) \/ m \in lost \cup Died
  BY <1>a DEF EndToEnd
<1>1. /\ In!InHand(m) <=> InP!InHand(m)
      /\ In!Queued(m) <=> InP!Queued(m)
      /\ In!Waiting(m) <=> InP!Waiting(m)
      /\ In!Sent(m) <=> InP!Sent(m)
  BY Zenon DEF In!InHand, InP!InHand, In!Holds, InP!Holds, In!Body, InP!Body, In!Queued,
     InP!Queued, In!StandsIn, InP!StandsIn, In!Kinds, InP!Kinds, In!Range, InP!Range,
     In!Waiting, InP!Waiting, In!Awaits, InP!Awaits, In!Sent, InP!Sent, In!Sends, InP!Sends
<1>2. /\ Pre!InLine(m) = PreP!InLine(m) /\ Pre!Receipts(m) = PreP!Receipts(m)
      /\ Pre!AtWork(m) = PreP!AtWork(m)
  BY Zenon DEF Pre!InLine, PreP!InLine, Pre!Times, PreP!Times, Pre!Places, PreP!Places,
     Pre!Cardinality, PreP!Cardinality, Pre!Receipts, PreP!Receipts, Pre!AtWork, PreP!AtWork
<1>3. taken[m] > 0 <=> PreP!InLine(m) + PreP!AtWork(m) > 0
                       \/ PreP!Receipts(m) + redundant[m] + ignored[m] > 0
                       \/ m \in diedAtWork
  BY DEF PreP!PoppedIsSomewhere
<1>4. counted[m] = 1 <=> InP!InHand(m) \/ InP!Queued(m) \/ InP!Waiting(m) \/ InP!Sent(m)
                         \/ taken[m] > 0 \/ m \in lost \cup diedQueued
  BY DEF InP!Accounted
<1> QED BY <1>1, <1>2, <1>3, <1>4 DEF InFlight, Ended, Died

\* Whichever nodes die, run short of memory or lose redis, and whichever calls are lost, a
\* record that pv-stat counted is on its way at a living node, or with a slave, hidden,
\* ignored, lost being sent on, or died in the memory of a node; and nothing else is on its
\* way: for any nodes, topics, workers and resenders.
THEOREM RecordsEndToEnd == Spec => []EndToEnd
<1>1. InP!Spec => []InP!Accounted BY InAssumption, InP!RecordsAccounted
<1> QED BY <1>1, ClusterIsIntake, PreprocessHolds, HomeHolds, AccountsMeet, PTL

-------------------------------------------------------------------------------
(* The refinement of Delivery. *)

\* A step of the preprocessing gives a record to a slave, hides one, or does neither.
LEMMA PreEnds ==
  ASSUME NEW n, PreP!NodeStep(n)
  PROVE  /\ UNCHANGED diedAtWork
         /\ \/ UNCHANGED <<received, redundant>>
            \/ /\ UNCHANGED redundant
               /\ \E w \in Workers : job[n][w] # None /\ PreP!Receive(job[n][w].body)
            \/ /\ UNCHANGED received
               /\ \E w \in Workers :
                    /\ job[n][w] # None
                    /\ redundant' = [redundant EXCEPT ![job[n][w].body] = @ + 1]
<1> USE DEF PreP!stages, PreP!redis, PreP!ends, PreP!atNode
<1>1. ASSUME PreP!Agent(n) \/ PreP!AgentNewTest(n) \/ PreP!AgentNewPop(n)
      PROVE  UNCHANGED <<received, redundant, diedAtWork>>
  BY <1>1 DEF PreP!Agent, PreP!AgentNewTest, PreP!AgentNewPop
<1>2. ASSUME NEW w, PreP!BeginJob(n, w) \/ PreP!SetQid(n, w) \/ PreP!SetQuery(n, w)
      PROVE  UNCHANGED <<received, redundant, diedAtWork>>
  BY <1>2 DEF PreP!BeginJob, PreP!SetQid, PreP!SetQuery, PreP!Put
<1>3. ASSUME NEW w, PreP!AskQid(n, w) \/ PreP!AskQuery(n, w)
      PROVE  /\ UNCHANGED <<received, diedAtWork>>
             /\ \/ UNCHANGED redundant
                \/ /\ job[n][w] # None
                   /\ redundant' = [redundant EXCEPT ![job[n][w].body] = @ + 1]
  BY <1>3 DEF PreP!AskQid, PreP!AskQuery, PreP!Ask, PreP!AtStep
<1>4. ASSUME NEW w, PreP!Transmit(n, w) \/ PreP!TransmitReplyLost(n, w)
      PROVE  UNCHANGED <<redundant, diedAtWork>> /\ job[n][w] # None /\ PreP!Receive(job[n][w].body)
  BY <1>4 DEF PreP!Transmit, PreP!TransmitReplyLost, PreP!AtStep
<1> QED BY <1>1, <1>2, <1>3, <1>4 DEF PreP!NodeStep, PreP!PreProcess

\* At first nothing was seen, sent on, delivered, hidden or lost.
LEMMA PromiseInit == Init => Promise!Init
<1> SUFFICES ASSUME Init PROVE Promise!Init OBVIOUS
<1>1. resent = {} /\ lost = {} /\ up = Nodes /\ Died = {}
  BY DEF Init, In!Init, Pre!Init, Died
<1>2. Seen = {} BY DEF Init, In!Init, Seen
<1>3. ASSUME NEW m \in Records PROVE redundant[m] = 0 /\ Pre!Receipts(m) = 0
  BY DEF Init, Pre!Init, Pre!Receipts, Pre!Kinds
<1> QED BY <1>1, <1>2, <1>3 DEF Promise!Init

\* A record has one home: the node whose puller is fed it.
LEMMA HomeIs ==
  ASSUME NEW n \in Nodes, NEW m \in Records, InP!PulledBy(n, m)
  PROVE  Home(m) = n
<1>1. PICK p \in Pullers : p[1] = n /\ m \in Range(Feed[p])
  BY DEF InP!PulledBy, InP!Range, Range
<1>2. Source(m) \in Pullers /\ m \in Range(Feed[Source(m)]) BY <1>1 DEF Source
<1>3. Source(m) = p BY <1>1, <1>2, ClusterAssumption
<1> QED BY <1>1, <1>3 DEF Home

\* What has ended after a step is counted after it.
LEMMA EndedIsSeen ==
  ASSUME EndToEnd', (PreP!RedundantInv /\ PreP!KeptInv)', NEW m \in Records,
         (Pre!Receipts(m) > 0)' \/ (redundant[m] > 0)'
  PROVE  (counted[m] = 1)'
<1>1. redundant'[m] \in Nat /\ ignored'[m] \in Nat
  BY DEF PreP!RedundantInv, PreP!PreTypes, PreP!KeptInv, PreP!CountTypes
<1>2. Pre!Receipts(m)' \in Nat
  <2>1. received'[m]["old"] \in Nat /\ received'[m]["new"] \in Nat
    BY DEF PreP!RedundantInv, PreP!PreTypes, PreP!Kinds
  <2> QED BY <2>1 DEF Pre!Receipts
<1>3. Ended(m)' BY <1>1, <1>2 DEF Ended
<1> QED BY <1>3 DEF EndToEnd

\* A step of the intake takes a record in, loses one that was sent on, or changes nothing
\* that was promised.
LEMMA PromiseByIntake ==
  ASSUME InP!IntakeInv, InP!Accounted', InP!IntakeNext, UNCHANGED preprocess
  PROVE  [Promise!Next]_Promise!deliveryVars
<1>0. InP!PullerInv /\ InP!FedInv /\ counted \in [Records -> Nat] /\ resent \subseteq Records
  BY DEF InP!IntakeInv, InP!LedgerInv, InP!LedgerTypes
<1>1. /\ UNCHANGED {m \in Records : Pre!Receipts(m) > 0}
      /\ UNCHANGED {m \in Records : redundant[m] > 0}
      /\ UNCHANGED <<up, Died>>
  BY InMoves, InCounts DEF preprocess, Pre!Receipts, Died
<1>2. CASE UNCHANGED <<counted, resent, lost>>
  BY <1>1, <1>2 DEF Promise!deliveryVars, Seen
<1>3. ASSUME NEW p \in Pullers, InP!At(p, "route"), InP!Count(p), UNCHANGED lost,
             resent' \in {resent, resent \cup {InP!Body(p)}}
      PROVE  Promise!Next
  <2>0. pc[p] = "route" /\ p[1] \in up BY <1>3 DEF InP!At
  <2>1. InP!Body(p) \in Records /\ rec[p][2] \in DOMAIN Feed[p]
    BY <1>0, <2>0, InP!InHandIs, InAssumption
  <2>2. InP!Counted(InP!Body(p)) BY <2>1 DEF InP!IntakeInv, InP!LedgerInv
  <2>3. counted[InP!Body(p)] = 0 BY <1>0, <2>0, <2>2, InP!CountsOnce, InAssumption
  <2>4. PICK b \in Records : b = InP!Body(p) BY <2>1
  <2>5. counted' = [counted EXCEPT ![b] = @ + 1] BY <1>3, <2>4 DEF InP!Count
  <2>6. Seen' = Seen \cup {b} /\ b \notin Seen BY <1>0, <2>3, <2>4, <2>5 DEF Seen
  <2>7. Home(b) \in up
    <3>1. InP!PulledBy(p[1], b) BY <2>1, <2>4 DEF InP!PulledBy, InP!Body, InP!Range
    <3>2. p[1] \in Nodes BY ClusterAssumption
    <3> QED BY <2>0, <3>1, <3>2, HomeIs
  <2>8. Promise!See(b) BY <1>1, <1>3, <2>4, <2>6, <2>7 DEF Promise!See
  <2> QED BY <2>8 DEF Promise!Next
<1>4. ASSUME UNCHANGED <<counted, resent>>, NEW m, lost' = lost \cup {m} PROVE Promise!Next
  <2>1. m \in resent BY <1>4 DEF InP!Accounted
  <2>2. Promise!Miss(m) BY <1>1, <1>4, <2>1 DEF Promise!Miss, Seen
  <2> QED BY <1>0, <2>1, <2>2 DEF Promise!Next
<1> QED BY <1>2, <1>3, <1>4, InCounts

\* A step of the preprocessing delivers a record that was taken in, hides a failed log
\* behind a related one that was taken in, or changes nothing that was promised.
LEMMA PromiseByPreprocess ==
  ASSUME PreP!RedundantInv, (PreP!RedundantInv /\ PreP!KeptInv)', EndToEnd',
         PreP!RedundantHasSuccess', PreP!PlacesCount', NEW n \in Nodes, PreP!NodeStep(n), UNCHANGED intake
  PROVE  [Promise!Next]_Promise!deliveryVars
<1>0. /\ job \in [Nodes -> [Workers -> PreP!Job \cup {None}]]
      /\ received \in [Records -> [PreP!Kinds -> Nat]] /\ redundant \in [Records -> Nat]
  BY DEF PreP!RedundantInv, PreP!PreTypes
<1>1. UNCHANGED <<Seen, resent, lost, counted, up, Died>>
  <2>1. UNCHANGED <<up, diedAtWork>> BY PreMoves, PreEnds
  <2> QED BY <2>1 DEF intake, Seen, Died
<1>2. CASE UNCHANGED <<received, redundant>>
  BY <1>1, <1>2 DEF Promise!deliveryVars, Pre!Receipts
<1>3. ASSUME UNCHANGED redundant, NEW w \in Workers, job[n][w] # None,
             PreP!Receive(job[n][w].body)
      PROVE  Promise!Next
  <2>1. PICK m \in Records : m = job[n][w].body BY <1>0, <1>3 DEF PreP!Job
  <2>2. received' = [received EXCEPT ![m]["old"] = @ + 1] BY <1>3, <2>1 DEF PreP!Receive
  <2>3. ASSUME NEW o \in Records
        PROVE  Pre!Receipts(o)' = IF o = m THEN Pre!Receipts(o) + 1 ELSE Pre!Receipts(o)
    <3>1. received[o]["old"] \in Nat /\ received[o]["new"] \in Nat BY <1>0 DEF PreP!Kinds
    <3>2. /\ received'[o]["old"] = IF o = m THEN received[o]["old"] + 1 ELSE received[o]["old"]
          /\ received'[o]["new"] = received[o]["new"]
      BY <1>0, <2>2 DEF PreP!Kinds
    <3> QED BY <3>1, <3>2 DEF Pre!Receipts
  <2>4. ASSUME NEW o \in Records PROVE Pre!Receipts(o) \in Nat
    BY <1>0 DEF Pre!Receipts, PreP!Kinds
  <2>5. {o \in Records : Pre!Receipts(o) > 0}'
          = {o \in Records : Pre!Receipts(o) > 0} \cup {m}
    BY <2>3, <2>4
  <2>6. m \in Seen
    <3>1. (Pre!Receipts(m) > 0)' BY <2>3, <2>4
    <3>2. (counted[m] = 1)' BY <3>1, EndedIsSeen
    <3> QED BY <1>1, <3>2 DEF Seen
  <2>7. Promise!Deliver(m) BY <1>1, <1>3, <2>5, <2>6 DEF Promise!Deliver
  <2> QED BY <2>7 DEF Promise!Next
<1>4. ASSUME UNCHANGED received, NEW w \in Workers, job[n][w] # None,
             redundant' = [redundant EXCEPT ![job[n][w].body] = @ + 1]
      PROVE  Promise!Next
  <2>1. PICK m \in Records : m = job[n][w].body BY <1>0, <1>4 DEF PreP!Job
  <2>2. /\ {o \in Records : redundant'[o] > 0} = {o \in Records : redundant[o] > 0} \cup {m}
        /\ redundant'[m] > 0
    BY <1>0, <1>4, <2>1
  <2>3. (redundant[m] > 0)' BY <2>2
  <2>4. (counted[m] = 1)' BY <2>3, EndedIsSeen
  <2>5. PICK s \in PreP!Related(m) :
          m \in Failed /\ (PreP!Receipts(s) > 0 \/ PreP!AtWork(s) > 0 \/ s \in diedAtWork)'
    BY <2>2 DEF PreP!RedundantHasSuccess, PreP!Related
  <2>6. s \in Records \ Failed /\ s \in Pre!Related(m) BY <2>5 DEF PreP!Related, Pre!Related
  <2>7. s \in Seen
    <3>1. Pre!Receipts(s)' = PreP!Receipts(s)' /\ Pre!AtWork(s)' = PreP!AtWork(s)'
      BY Zenon DEF Pre!Receipts, PreP!Receipts, Pre!AtWork, PreP!AtWork, Pre!Cardinality,
         PreP!Cardinality
    <3>2. CASE (Pre!Receipts(s) > 0)'
      <4>1. (counted[s] = 1)' BY <2>6, <3>2, EndedIsSeen
      <4> QED BY <1>1, <2>6, <4>1 DEF Seen
    <3>3. CASE (Pre!AtWork(s) > 0)'
      <4>1. PreP!InLine(s)' \in Nat /\ PreP!AtWork(s)' \in Nat BY <2>6 DEF PreP!PlacesCount
      <4>a. Pre!InLine(s)' = PreP!InLine(s)'
        BY Zenon DEF Pre!InLine, PreP!InLine, Pre!Times, PreP!Times, Pre!Places, PreP!Places,
           Pre!Cardinality, PreP!Cardinality
      <4>2. InFlight(s)' BY <3>1, <3>3, <4>1, <4>a DEF InFlight
      <4>3. (counted[s] = 1)' BY <2>6, <4>2 DEF EndToEnd
      <4> QED BY <1>1, <2>6, <4>3 DEF Seen
    <3>4. CASE s \in diedAtWork'
      <4>1. (counted[s] = 1)' BY <2>6, <3>4 DEF EndToEnd, Died
      <4> QED BY <1>1, <2>6, <4>1 DEF Seen
    <3> QED BY <2>5, <3>1, <3>2, <3>3, <3>4
  <2>8. Promise!Hide(m) BY <1>1, <1>4, <2>2, <2>4, <2>5, <2>6, <2>7 DEF Promise!Hide, Seen, Pre!Receipts
  <2> QED BY <2>8 DEF Promise!Next
<1> QED BY <1>2, <1>3, <1>4, PreEnds

\* What is in the memory of a node was counted, once.
LEMMA DeadIsCounted ==
  ASSUME EndToEnd, PreP!PreTypes, PreP!CountTypes, NEW n \in Nodes, NEW m \in Records,
         InP!IsAt(n, m) \/ PreP!InPool(n, m)
  PROVE  counted[m] = 1
<1>1. CASE InP!IsAt(n, m)
  <2>1. In!Queued(m) \/ In!InHand(m) \/ In!Waiting(m) \/ In!Sent(m)
    <3>1. In!IsAt(n, m) BY <1>1, InDies
    <3> QED BY <3>1 DEF In!IsAt, In!Queued, In!InHand, In!Waiting, In!Sent
  <2> QED BY <2>1 DEF EndToEnd, InFlight
<1>2. CASE PreP!InPool(n, m)
  <2>1. PreP!InLine(m) + PreP!AtWork(m) > 0 BY <1>2, PreAssumption, PreP!PoolCounts
  <2>2. Pre!InLine(m) = PreP!InLine(m) /\ Pre!AtWork(m) = PreP!AtWork(m)
    BY Zenon DEF Pre!InLine, PreP!InLine, Pre!Times, PreP!Times, Pre!Places, PreP!Places,
       Pre!Cardinality, PreP!Cardinality, Pre!AtWork, PreP!AtWork
  <2>3. Pre!InLine(m) + Pre!AtWork(m) > 0 BY ONLY <2>1, <2>2
  <2> QED BY <2>3 DEF EndToEnd, InFlight
<1> QED BY <1>1, <1>2

\* A death takes only what the node took in itself and what was sent on.
LEMMA PromiseByDeath ==
  ASSUME InP!IntakeInv, InP!AtNodesInv, HomeAtWork, EndToEnd, PreP!RedundantInv, PreP!KeptInv,
         NEW n \in Nodes, In!Die(n), Pre!Die(n)
  PROVE  Promise!Next
<1> DEFINE M == {m \in Records : In!IsAt(n, m) \/ Pre!InPool(n, m)}
<1>1. /\ n \in up /\ up' = up \ {n} /\ Died' = Died \cup M
      /\ UNCHANGED <<counted, resent, lost, received, redundant>>
  <2>1. /\ diedQueued' = diedQueued \cup {m \in Records : In!IsAt(n, m)}
        /\ n \in up /\ up' = up \ {n} /\ UNCHANGED <<counted, resent, lost>>
    BY DEF In!Die
  <2>2. /\ diedAtWork' = diedAtWork \cup {m \in Records : Pre!InPool(n, m)}
        /\ UNCHANGED <<received, redundant>>
    BY DEF Pre!Die, Pre!ends
  <2> QED BY <2>1, <2>2 DEF Died
<1>2. ASSUME NEW m \in M PROVE m \in Promise!AtRisk(n)
  <2>1. m \in Records /\ (InP!IsAt(n, m) \/ PreP!InPool(n, m)) BY InDies, PreDies
  <2>2. m \in resent \/ InP!PulledBy(n, m)
    BY <2>1, InAssumption, InP!WhoIsAtHome DEF HomeAtWork
  <2>3. m \in resent \/ Home(m) = n BY <2>1, <2>2, HomeIs
  <2>4. counted[m] = 1
    BY <2>1, DeadIsCounted DEF PreP!RedundantInv, PreP!KeptInv
  <2> QED BY <2>1, <2>3, <2>4 DEF Promise!AtRisk, Seen
<1>3. M \in SUBSET Promise!AtRisk(n) BY <1>2
<1> HIDE DEF M
<1>4. UNCHANGED <<Seen, {m \in Records : Pre!Receipts(m) > 0}, {m \in Records : redundant[m] > 0}>>
  BY <1>1 DEF Seen, Pre!Receipts
<1>5. Promise!Die(n) BY <1>1, <1>3, <1>4 DEF Promise!Die
<1> QED BY <1>5 DEF Promise!Next

\* A step of the cluster is a step of the promise, or keeps everything promised as it is.
LEMMA PromiseStep ==
  ASSUME InP!IntakeInv, InP!AtNodesInv, HomeAtWork, EndToEnd, InP!Accounted',
         PreP!RedundantInv, PreP!KeptInv, (PreP!RedundantInv /\ PreP!KeptInv)', EndToEnd',
         PreP!RedundantHasSuccess', PreP!PlacesCount', [Next]_vars
  PROVE  [Promise!Next]_Promise!deliveryVars
<1>1. CASE In!IntakeNext /\ UNCHANGED preprocess BY <1>1, InSame, PromiseByIntake
<1>2. ASSUME NEW n \in Nodes, Pre!NodeStep(n), UNCHANGED intake
      PROVE  [Promise!Next]_Promise!deliveryVars
  BY <1>2, PreSame, PromiseByPreprocess
<1>3. ASSUME UNCHANGED intake, UNCHANGED <<up, received, redundant, diedAtWork>>
      PROVE  [Promise!Next]_Promise!deliveryVars
  BY <1>3 DEF intake, Promise!deliveryVars, Seen, Died, Pre!Receipts
<1>4. ASSUME NEW n, NEW key, NEW q, Pre!Disconnect(n) \/ Pre!Expire(key) \/ Pre!SlaveChanges(q)
      PROVE  UNCHANGED <<up, received, redundant, diedAtWork>>
  BY <1>4 DEF Pre!Disconnect, Pre!Expire, Pre!SlaveChanges, Pre!stages, Pre!ends
<1>5. ASSUME NEW n \in Nodes, In!Die(n), Pre!Die(n) PROVE Promise!Next
  BY <1>5, PromiseByDeath
<1>6. CASE UNCHANGED vars BY <1>3, <1>6 DEF vars, preprocess
<1> QED BY <1>1, <1>2, <1>3, <1>4, <1>5, <1>6 DEF Next

\* The nodes, with all their threads, queues and retries, keep the promise of Delivery:
\* each step takes in one record once, at its living home, delivers one that was taken in,
\* hides a failed log behind a related one that was taken in, misses one that was sent on,
\* takes down a node with what it took in and what was sent on, or does none of it.
THEOREM DeliveryImplemented == Spec => ImplementsDelivery
<1>1. InP!Spec => []InP!Accounted BY InAssumption, InP!RecordsAccounted
<1>2. Spec => [][Promise!Next]_Promise!deliveryVars
  BY <1>1, ClusterIsIntake, IntakeHolds, PreprocessHolds, HomeHolds, RecordsEndToEnd,
     PromiseStep, PTL
     DEF Spec
<1> QED BY <1>2, PromiseInit, PTL DEF Spec, ImplementsDelivery, Promise!Spec
===============================================================================
