-------------------------------- MODULE Intake --------------------------------
(***************************************************************************)
(* How the master nodes take records in: the Subscribe loop of             *)
(* DataAccesser, one for the old topic and one for the new topic of every  *)
(* node, the pool of resender threads to which each of them hands records  *)
(* while the node is under memory pressure, the Retransmit call by which   *)
(* another node receives them, and the two bounded lock-free queues in     *)
(* which all of them end.                                                  *)
(*                                                                         *)
(* Outside src/, and modelled from how the code uses it: the minos broker, *)
(* which serves one record for each package id and the same record when    *)
(* the id is asked for again.  Parts of a call that other threads cannot   *)
(* see are one step.  A package holds one record, as record_count = 1 in   *)
(* conf/data-access.cfg asks.                                              *)
(***************************************************************************)
EXTENDS Lines, Integers, Functions

CONSTANTS
  Nodes,           \* the master nodes
  Mortal,          \* the nodes that may die
  Pressed,         \* the nodes whose memory may grow high
  Pullers,         \* the Subscribe loops looked at, as <<node, kind>>
  Breaking,        \* the pullers whose subscription may fail
  Switched,        \* the pullers whose switch is operated
  Records,         \* the log records
  Feed,            \* Feed[p]: what the broker has for a puller, in order
  Passing,         \* the records that pass filter()
  QueueLen,        \* queue_len of the configuration
  Resenders,       \* the threads of a puller's resender pool
  MaxLostReplies,  \* bound: replies to Retransmit that are lost
  None             \* no record, no task, no node

Kinds == {"old", "new"}

\* A task of a resender pool, and what a resender thread that runs it has in hand.
Copy   == [body : Records, type : Kinds]
Errand == [task : Copy, to : Nodes \cup {None}]

ASSUME IntakeAssumption ==
  /\ IsFiniteSet(Nodes) /\ IsFiniteSet(Resenders)
  /\ Pullers \subseteq Nodes \X Kinds /\ Switched \cup Breaking \subseteq Pullers
  /\ Mortal \subseteq Nodes /\ Pressed \subseteq Nodes /\ Passing \subseteq Records
  /\ Feed \in [Pullers -> Seq(Records)]
  /\ QueueLen \in Nat \ {0} /\ MaxLostReplies \in Nat
  /\ None \notin Nodes \cup Records \cup Errand
  /\ \A p \in Pullers : IsInjective(Feed[p])
  /\ \A p, q \in Pullers : p # q => Range(Feed[p]) \cap Range(Feed[q]) = {}

VARIABLES
  produced,  \* broker: how many records of Feed it has for each puller
  session,   \* broker: whether the puller's subscription is in order
  served,    \* broker: the package id it served last, and the record's index
  pc,        \* where each puller is
  status,    \* response.status() of each puller, as its last answer left it
  package,   \* default_package_id_ of each puller
  rec,       \* the record in a puller's hands, as <<package id, index>>
  pullswitch,\* switch_old_ and switch_new_
  health,    \* memory of each node, as its main loop last read it
  report,    \* memory of each node, as the platform's redis last heard
  backlog,   \* tasks waiting in the resender pool of each puller
  sending,   \* the task each resender thread runs: record, kind, relaxing node
  queue,     \* lockfreequeue_ and lockfreequeue_new_ of each node
  up,        \* the nodes that are alive
  counted,   \* how often pv-stat has counted each record
  taken,     \* how often each record has been popped from a queue
  got,       \* history: the indices each puller has handled, in order
  skipped,   \* history: the indices passed over when a subscription began
  resent,    \* history: the records handed to a resender
  lost,      \* history: the records dropped on the way to another node
  diedQueued,\* history: the counted records that were at a node when it died
  lostReplies

broker == <<produced, session, served>>
puller == <<pc, status, package, rec>>
load   == <<health, report>>
resend == <<backlog, sending>>
past   == <<counted, got, skipped, resent, lost, diedQueued, lostReplies>>
vars   == <<broker, puller, pullswitch, load, resend, queue, up, taken, past>>

Init ==
  /\ produced = [p \in Pullers |-> 0]
  /\ session = [p \in Pullers |-> FALSE]
  /\ served = [p \in Pullers |-> <<0, 0>>]
  /\ pc = [p \in Pullers |-> "init"]
  /\ status = [p \in Pullers |-> "SUCCEED"]
  /\ package = [p \in Pullers |-> 1]
  /\ rec = [p \in Pullers |-> None]
  /\ pullswitch = [p \in Pullers |-> TRUE]
  /\ health = [n \in Nodes |-> "low"]
  /\ report = [n \in Nodes |-> None]
  /\ backlog = [p \in Pullers |-> <<>>]
  /\ sending = [p \in Pullers |-> [r \in Resenders |-> None]]
  /\ queue = [n \in Nodes |-> [k \in Kinds |-> <<>>]]
  /\ up = Nodes
  /\ counted = [m \in Records |-> 0] /\ taken = [m \in Records |-> 0]
  /\ got = [p \in Pullers |-> <<>>] /\ skipped = [p \in Pullers |-> {}]
  /\ resent = {} /\ lost = {} /\ diedQueued = {} /\ lostReplies = 0

-------------------------------------------------------------------------------
(* The broker. *)

Produce(p) ==
  /\ produced[p] < Len(Feed[p])
  /\ produced' = [produced EXCEPT ![p] = @ + 1]
  /\ UNCHANGED <<session, served, puller, pullswitch, load, resend, queue, up, taken, past>>

\* The subscription fails: the broker refuses every call until the next InitSub.
Break(p) ==
  /\ p \in Breaking /\ session[p]
  /\ session' = [session EXCEPT ![p] = FALSE]
  /\ UNCHANGED <<produced, served, puller, pullswitch, load, resend, queue, up, taken, past>>

\* InitSub asks for NEWEST_RECORD: what was produced before is not served.
Resubscribe(p) ==
  /\ session' = [session EXCEPT ![p] = TRUE]
  /\ served' = [served EXCEPT ![p] = <<0, produced[p]>>]
  /\ skipped' = [skipped EXCEPT ![p] = (1..produced[p]) \ Range(got[p])]

\* The package served when package id is asked for; None when there is no data.
Answer(p, id) ==
  CASE id = served[p][1]           -> served[p]
    [] id # served[p][1] /\ served[p][2] < produced[p] -> <<id, served[p][2] + 1>>
    [] OTHER                       -> None

-------------------------------------------------------------------------------
(* The Subscribe loop.  A switch that is off only makes the loop sleep a     *)
(* second before it asks, so no guard below looks at pullswitch.             *)

At(p, where) == p[1] \in up /\ pc[p] = where
Goto(p, where) == pc' = [pc EXCEPT ![p] = where]

Refused(p) == status[p] \notin {"SUCCEED", "NO_DATA_LEFT"}

\* The call fails, or its answer never comes: response keeps its old status.
SubscribeFails(p) ==
  /\ At(p, "ask")
  /\ \/ UNCHANGED served
     \/ /\ session[p] /\ Answer(p, package[p]) # None
        /\ served' = [served EXCEPT ![p] = Answer(p, package[p])]
  /\ Goto(p, IF Refused(p) THEN "init" ELSE "ask")
  /\ UNCHANGED <<produced, session, status, package, rec, pullswitch, load, resend,
                 queue, up, taken, past>>

\* Mutant of SubscribeRefused: the subscription is not begun again.
SubscribeRefusedAgain(p) ==
  /\ At(p, "ask") /\ ~session[p]
  /\ status' = [status EXCEPT ![p] = "FAILED"]
  /\ UNCHANGED <<broker, pc, package, rec, pullswitch, load, resend, queue, up, taken, past>>

SubscribeRefused(p) ==
  /\ At(p, "ask") /\ ~session[p]
  /\ status' = [status EXCEPT ![p] = "FAILED"]
  /\ Goto(p, "init")
  /\ UNCHANGED <<broker, package, rec, pullswitch, load, resend, queue, up, taken, past>>

SubscribeNoData(p) ==
  /\ At(p, "ask") /\ session[p] /\ Answer(p, package[p]) = None
  /\ status' = [status EXCEPT ![p] = "NO_DATA_LEFT"]
  /\ UNCHANGED <<broker, pc, package, rec, pullswitch, load, resend, queue, up, taken, past>>

SubscribeSucceeds(p) ==
  LET answer == Answer(p, package[p]) IN
  /\ At(p, "ask") /\ session[p] /\ answer # None
  /\ status' = [status EXCEPT ![p] = "SUCCEED"]
  /\ rec' = [rec EXCEPT ![p] = answer]
  /\ served' = [served EXCEPT ![p] = answer]
  /\ Goto(p, "route")
  /\ UNCHANGED <<produced, session, package, pullswitch, load, resend, queue, up, taken, past>>

\* One turn of the loop in InitMinosPipe: the answer may be lost.
InitMinosPipe(p) ==
  /\ At(p, "init")
  /\ Resubscribe(p)
  /\ \/ Goto(p, "ask") \/ UNCHANGED pc
  /\ UNCHANGED <<produced, status, package, rec, pullswitch, load, resend, queue, up, taken,
                 counted, got, resent, lost, diedQueued, lostReplies>>

\* Mutant of FinishPackage: the package id is not moved on.
FinishSamePackage(p) ==
  /\ package' = [package EXCEPT ![p] = rec[p][1]]
  /\ status' = [status EXCEPT ![p] = "SUCCEED"]
  /\ rec' = [rec EXCEPT ![p] = None]
  /\ got' = [got EXCEPT ![p] = Append(@, rec[p][2])]
  /\ Goto(p, "ask")

\* The end of the loop body: the next package id, and a cleared response.
FinishPackage(p) ==
  /\ package' = [package EXCEPT ![p] = rec[p][1] + 1]
  /\ status' = [status EXCEPT ![p] = "SUCCEED"]
  /\ rec' = [rec EXCEPT ![p] = None]
  /\ got' = [got EXCEPT ![p] = Append(@, rec[p][2])]
  /\ Goto(p, "ask")

Body(p) == Feed[p][rec[p][2]]

FilterOut(p) ==
  /\ At(p, "route") /\ Body(p) \notin Passing
  /\ FinishPackage(p)
  /\ UNCHANGED <<broker, pullswitch, load, resend, queue, up, taken,
                 counted, skipped, resent, lost, diedQueued, lostReplies>>

\* The record is counted, then the node's memory decides where it goes.
Count(p) == counted' = [counted EXCEPT ![Body(p)] = @ + 1]

HandToResender(p) ==
  /\ At(p, "route") /\ Body(p) \in Passing /\ health[p[1]] = "high"
  /\ Count(p)
  /\ backlog' = [backlog EXCEPT ![p] = Append(@, [body |-> Body(p), type |-> p[2]])]
  /\ resent' = resent \cup {Body(p)}
  /\ FinishPackage(p)
  /\ UNCHANGED <<broker, pullswitch, load, sending, queue, up, taken, skipped, lost,
                 diedQueued, lostReplies>>

Keep(p) ==
  /\ At(p, "route") /\ Body(p) \in Passing /\ health[p[1]] = "low"
  /\ Count(p)
  /\ Goto(p, "push")
  /\ UNCHANGED <<broker, status, package, rec, pullswitch, load, resend, queue, up, taken,
                 got, skipped, resent, lost, diedQueued, lostReplies>>

\* push() fails while the queue is full, and the puller tries again.
Full(n, k) == Len(queue[n][k]) >= QueueLen
Enqueue(n, k, m) == queue' = [queue EXCEPT ![n][k] = Append(@, m)]

\* Mutant of Push: push() is called once, and its result is not looked at.
PushOnce(p) ==
  /\ At(p, "push")
  /\ IF Full(p[1], p[2]) THEN UNCHANGED queue ELSE Enqueue(p[1], p[2], Body(p))
  /\ FinishPackage(p)
  /\ UNCHANGED <<broker, pullswitch, load, resend, up, taken,
                 counted, skipped, resent, lost, diedQueued, lostReplies>>

Push(p) ==
  /\ At(p, "push") /\ ~Full(p[1], p[2])
  /\ Enqueue(p[1], p[2], Body(p))
  /\ FinishPackage(p)
  /\ UNCHANGED <<broker, pullswitch, load, resend, up, taken,
                 counted, skipped, resent, lost, diedQueued, lostReplies>>

\* PullSwitchConfig.
PullSwitchConfig(p, op) ==
  /\ p[1] \in up /\ pullswitch[p] # op
  /\ pullswitch' = [pullswitch EXCEPT ![p] = op]
  /\ UNCHANGED <<broker, puller, load, resend, queue, up, taken, past>>

-------------------------------------------------------------------------------
(* Load.  The main loop of a node reads its memory, then reports it to the   *)
(* redis of the platform; a report is never withdrawn.                       *)

UpdateHealth(n, level) ==
  /\ n \in up /\ health[n] # level
  /\ health' = [health EXCEPT ![n] = level]
  /\ UNCHANGED <<broker, puller, pullswitch, report, resend, queue, up, taken, past>>

SubmitHealthInfo(n) ==
  /\ n \in up /\ report[n] # health[n]
  /\ report' = [report EXCEPT ![n] = health[n]]
  /\ UNCHANGED <<broker, puller, pullswitch, health, resend, queue, up, taken, past>>

\* The platform names a node with the least reported memory.  A node whose
\* memory is high may be over its limit of ten gigabytes, so that none is named.
Reporting(level) == {n \in Nodes : report[n] = level}
Relaxing == IF Reporting("low") # {} THEN Reporting("low")
            ELSE Reporting("high") \cup {None}

-------------------------------------------------------------------------------
(* The resender threads. *)

Resender(p, r) == p[1] \in up /\ UNCHANGED <<broker, puller, pullswitch, load, up, taken,
                                         counted, got, skipped, resent, diedQueued>>
Begin(p) == backlog[p] # <<>> /\ backlog' = [backlog EXCEPT ![p] = Tail(@)]

\* GetRelaxingNode fails three times and more: the task ends, the record is dropped.
NoRelaxingNode(p, r) ==
  /\ Resender(p, r) /\ sending[p][r] = None
  /\ Begin(p)
  /\ lost' = lost \cup {Head(backlog[p]).body}
  /\ UNCHANGED <<sending, queue, lostReplies>>

FindRelaxingNode(p, r) ==
  /\ Resender(p, r) /\ sending[p][r] = None
  /\ Begin(p)
  /\ \E to \in Relaxing :
       sending' = [sending EXCEPT ![p][r] = [task |-> Head(backlog[p]), to |-> to]]
  /\ UNCHANGED <<queue, lost, lostReplies>>

\* Mutant of Retransmit: the request is queued in place of its package.
RetransmitRequest(to, task) ==
  IF Full(to, task.type)
    THEN lost' = lost \cup {task.body} /\ UNCHANGED queue
    ELSE Enqueue(to, task.type, task) /\ UNCHANGED lost

\* The handler at the other node: the result of push() is not looked at, and
\* the answer is SUCCEED.
Retransmit(to, task) ==
  IF Full(to, task.type)
    THEN lost' = lost \cup {task.body} /\ UNCHANGED queue
    ELSE Enqueue(to, task.type, task.body) /\ UNCHANGED lost

\* Mutant of CallRetransmit: the loop goes on after an answer.
CallRetransmitAgain(p, r) ==
  /\ Resender(p, r) /\ sending[p][r] # None /\ sending[p][r].to \in up
  /\ Retransmit(sending[p][r].to, sending[p][r].task)
  /\ UNCHANGED <<sending, backlog, lostReplies>>

\* The resender calls until it gets an answer, whatever the answer says.
CallRetransmit(p, r) ==
  /\ Resender(p, r) /\ sending[p][r] # None /\ sending[p][r].to \in up
  /\ Retransmit(sending[p][r].to, sending[p][r].task)
  /\ sending' = [sending EXCEPT ![p][r] = None]
  /\ UNCHANGED <<backlog, lostReplies>>

RetransmitReplyLost(p, r) ==
  /\ Resender(p, r) /\ sending[p][r] # None /\ sending[p][r].to \in up
  /\ lostReplies < MaxLostReplies /\ lostReplies' = lostReplies + 1
  /\ Retransmit(sending[p][r].to, sending[p][r].task)
  /\ UNCHANGED resend

-------------------------------------------------------------------------------
(* Where a record is: in the memory of a node, and gone when the node dies.  *)

Holds(p, m)    == pc[p] = "push" /\ Body(p) = m
Awaits(p, m)   == \E i \in DOMAIN backlog[p] : backlog[p][i].body = m
Sends(p, r, m) == sending[p][r] # None /\ sending[p][r].task.body = m
StandsIn(n, m) == \E k \in Kinds : m \in Range(queue[n][k])

IsAt(n, m) ==
  \/ StandsIn(n, m)
  \/ \E p \in Pullers : p[1] = n /\ \/ Holds(p, m) \/ Awaits(p, m)
                                     \/ \E r \in Resenders : Sends(p, r, m)

\* The process ends: its queues, its pool, the errands of its threads and the record
\* in a puller's hands end with it.  The platform keeps the last report.
Die(n) ==
  /\ n \in up \cap Mortal /\ up' = up \ {n}
  /\ pc' = [p \in Pullers |-> IF p[1] = n THEN "init" ELSE pc[p]]
  /\ rec' = [p \in Pullers |-> IF p[1] = n THEN None ELSE rec[p]]
  /\ backlog' = [p \in Pullers |-> IF p[1] = n THEN <<>> ELSE backlog[p]]
  /\ sending' = [p \in Pullers |-> IF p[1] = n THEN [r \in Resenders |-> None] ELSE sending[p]]
  /\ queue' = [queue EXCEPT ![n] = [k \in Kinds |-> <<>>]]
  /\ diedQueued' = diedQueued \cup {m \in Records : IsAt(n, m)}
  /\ UNCHANGED <<broker, status, package, pullswitch, load, taken,
                 counted, got, skipped, resent, lost, lostReplies>>

\* Whoever consumes the queues.
Consume(n, k) ==
  /\ n \in up /\ queue[n][k] # <<>>
  /\ queue' = [queue EXCEPT ![n][k] = Tail(@)]
  /\ taken' = [taken EXCEPT ![Head(queue[n][k])] = @ + 1]
  /\ UNCHANGED <<broker, puller, pullswitch, load, resend, up, past>>

Subscribe(p) ==
  \/ SubscribeRefused(p) \/ SubscribeNoData(p) \/ SubscribeSucceeds(p)
  \/ InitMinosPipe(p) \/ FilterOut(p) \/ HandToResender(p) \/ Keep(p) \/ Push(p)

Resend(p, r) ==
  \/ NoRelaxingNode(p, r) \/ FindRelaxingNode(p, r)
  \/ CallRetransmit(p, r) \/ RetransmitReplyLost(p, r)

\* The steps of a node's intake itself.
IntakeNext ==
  \/ \E p \in Pullers : Produce(p) \/ Break(p) \/ Subscribe(p) \/ SubscribeFails(p)
  \/ \E p \in Switched, op \in BOOLEAN : PullSwitchConfig(p, op)
  \/ \E n \in Pressed, level \in {"low", "high"} : UpdateHealth(n, level)
  \/ \E n \in Nodes : SubmitHealthInfo(n)
  \/ \E p \in Pullers, r \in Resenders : Resend(p, r)

Next ==
  \/ IntakeNext
  \/ \E n \in Nodes : Die(n)
  \/ \E n \in Nodes, k \in Kinds : Consume(n, k)

Spec == Init /\ [][Next]_vars

\* The threads run, calls that are repeated for ever are answered in the end, a
\* node that lives goes on consuming, and a task in the pool gets its thread.
Fairness ==
  /\ \A p \in Pullers : SF_vars(SubscribeSucceeds(p)) /\ WF_vars(Subscribe(p))
                         /\ SF_vars(Push(p)) /\ SF_vars(InitMinosPipe(p) /\ pc' # pc)
  /\ \A p \in Pullers, r \in Resenders :
       SF_vars(CallRetransmit(p, r)) /\ WF_vars(Resend(p, r))
  /\ \A n \in Nodes, k \in Kinds : WF_vars(Consume(n, k))

FairSpec == Spec /\ Fairness

-------------------------------------------------------------------------------
(* Properties. *)

TypeOK ==
  /\ produced \in [Pullers -> Nat] /\ session \in [Pullers -> BOOLEAN]
  /\ served \in [Pullers -> Nat \X Nat]
  /\ pc \in [Pullers -> {"init", "ask", "route", "push"}]
  /\ status \in [Pullers -> {"SUCCEED", "NO_DATA_LEFT", "FAILED"}]
  /\ package \in [Pullers -> Nat] /\ rec \in [Pullers -> (Nat \X Nat) \cup {None}]
  /\ pullswitch \in [Pullers -> BOOLEAN]
  /\ health \in [Nodes -> {"low", "high"}] /\ report \in [Nodes -> {"low", "high", None}]
  /\ backlog \in [Pullers -> Seq(Copy)]
  /\ sending \in [Pullers -> [Resenders -> Errand \cup {None}]]
  /\ queue \in [Nodes -> [Kinds -> Seq(Records)]]
  /\ up \subseteq Nodes /\ Nodes \ up \subseteq Mortal
  /\ counted \in [Records -> Nat] /\ taken \in [Records -> Nat]
  /\ got \in [Pullers -> Seq(Nat)] /\ skipped \in [Pullers -> SUBSET Nat]
  /\ resent \subseteq Records /\ lost \subseteq Records /\ diedQueued \subseteq Records
  /\ lostReplies \in 0..MaxLostReplies

\* Lost answers, refusals and new subscriptions in any order: a puller handles
\* the records of its topic in order, none of them twice, and passes over only
\* those that a new subscription skipped.
EachRecordOnce ==
  \A p \in Pullers :
    /\ \A i, j \in DOMAIN got[p] : i < j => got[p][i] < got[p][j]
    /\ Range(got[p]) \cap skipped[p] = {}
    /\ 1..served[p][2] \subseteq Range(got[p]) \cup skipped[p] \cup {served[p][2]}

InHand(m)  == \E p \in Pullers : Holds(p, m)
Queued(m)  == \E n \in Nodes : StandsIn(n, m)
Waiting(m) == \E p \in Pullers : Awaits(p, m)
Sent(m)    == \E p \in Pullers, r \in Resenders : Sends(p, r, m)

Copies(m)  == taken[m] + Times([at \in Nodes \X Kinds |-> queue[at[1]][at[2]]], m)

\* The node whose puller is fed a record.
PulledBy(n, m) == \E p \in Pullers : p[1] = n /\ m \in Range(Feed[p])

\* pv-stat counts a record once, however often it is sent on; a counted record is in
\* the memory of a living node until it has been consumed, was lost being sent on, or
\* died with a node; it is consumed at most once more than replies were lost; only
\* one sent on is lost, and one that was not sent on dies only with its own node.
Accounted ==
  /\ lost \subseteq resent
  /\ \A m \in diedQueued : \E n \in Nodes \ up : m \in resent \/ PulledBy(n, m)
  /\ \A n \in Nodes \ up, m \in Records : ~IsAt(n, m)
  /\ \A m \in Records :
       /\ counted[m] <= 1 /\ Copies(m) <= 1 + lostReplies
       /\ counted[m] = 1 <=> InHand(m) \/ Queued(m) \/ Waiting(m) \/ Sent(m)
                              \/ taken[m] > 0 \/ m \in lost \cup diedQueued

\* A record the broker has is handled, or a new subscription skips it; and one that
\* is handed to a resender reaches a queue and is consumed, or is lost, or dies with
\* a node, unless a thread of its pool is held by a node that died.
EveryRecordHandled ==
  /\ \A p \in Pullers : \A i \in DOMAIN Feed[p] :
       []<>(produced[p] >= i => p[1] \notin up \/ i \in Range(got[p]) \cup skipped[p])
  /\ \A m \in Records :
       []<>(m \in resent => \/ taken[m] > 0 \/ m \in lost \cup diedQueued
                            \/ \E p \in Pullers, r \in Resenders :
                                 /\ m \in Range(Feed[p])
                                 /\ sending[p][r] # None /\ sending[p][r].to \notin up)

-------------------------------------------------------------------------------
(* What the repository says and the code does not do. *)

\* proto/manage.proto 113: op is "true:enable false disable".  Once the switch
\* of a puller is off, no further record is fetched.
SwitchStopsPull ==
  [][\A p \in Pullers : pc[p] = "ask" /\ pc'[p] = "route" => pullswitch[p]]_vars

\* README 5: records are resent to another master node under pressure.  A record
\* whose Retransmit call was answered is in the queue of the node that answered.
AnsweredIsQueued ==
  [][\A p \in Pullers, r \in Resenders :
       sending[p][r] # None /\ sending'[p][r] = None =>
         sending[p][r].task.body \notin lost' \ lost]_vars

\* data_access.cc 294: a new InitSub is needed when the broker answers neither
\* SUCCEED nor NO_DATA_LEFT.
InitOnlyWhenRefused ==
  [][\A p \in Pullers : pc[p] = "ask" /\ pc'[p] = "init" => ~session[p]]_vars
===============================================================================
