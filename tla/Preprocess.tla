------------------------------ MODULE Preprocess ------------------------------
(***************************************************************************)
(* How the master nodes pass records on: the two agent threads of          *)
(* DataPreProcess::Start that move records from the lock-free queues into  *)
(* the worker pool, PreProcess, which asks redis whether a failed log is   *)
(* redundant, and Transmit, which calls a slave until it answers.          *)
(*                                                                         *)
(* The worker pool is used by its promise (TaskExecutor): jobs are begun   *)
(* in the order they were added.  Outside src/, and modelled from how the  *)
(* code uses it: redis, as a set of keys, and the slaves, as receivers.    *)
(* Stop is not here: main never leaves its loop, so nothing calls it.      *)
(***************************************************************************)
EXTENDS Lines, Integers, Functions

CONSTANTS
  Nodes,           \* the master nodes
  Mortal,          \* the nodes that may die
  Workers,         \* the threads of a node's workers_
  Records,         \* the log records
  Failed,          \* the records with a resno: the request recalled nothing
  Typed,           \* the records whose srcid GetType knows
  Topic,           \* the topic each record comes from
  Qid, Query,      \* the qid and the query of each record
  Cut,             \* the nodes that may lose their connection to redis
  Restless,        \* the queries whose slave goes and comes back
  QueueLen,        \* queue_len of the configuration
  MaxOffers,       \* bound: how often each record is put into a queue
  MaxLostReplies,  \* bound: replies to Transmit that are lost
  None             \* no record

Kinds == {"old", "new"}
Keys  == ({"qid"} \X Range(Qid)) \cup ({"query"} \X Range(Query))

\* A job of the worker pool is the record and the step PreProcess is at.
Job == [body : Records,
        at : {"exists qid", "exists query", "set query", "set qid", "transmit"}]

ASSUME PreprocessAssumption ==
  /\ IsFiniteSet(Nodes) /\ IsFiniteSet(Workers)
  /\ Failed \subseteq Records /\ Typed \subseteq Records
  /\ Topic \in [Records -> Kinds] /\ DOMAIN Qid = Records /\ DOMAIN Query = Records
  /\ Mortal \cup Cut \subseteq Nodes /\ Restless \subseteq Range(Query)
  /\ QueueLen \in Nat \ {0} /\ MaxOffers \in Nat /\ MaxLostReplies \in Nat
  /\ None \notin Records \cup Job

VARIABLES
  queue,      \* lockfreequeue_ and lockfreequeue_new_ of each node
  taken,      \* how often each record has been popped from a queue
  agentNew,   \* agent_new_: about to test for emptiness, or to pop
  line,       \* queue_ of each node's workers_
  job,        \* what each worker has in hand, and how far PreProcess is
  keys,       \* redis: "absent", "kept" or "expiring" for each key
  connected,  \* redis: whether each node's connection still works
  ttl,        \* default_ttl_ of each node, which the constructor leaves unset
  up,         \* the nodes that are alive
  alive,      \* whether the slave of each query answers
  received,   \* how often a slave has received each record, under each type
  redundant,  \* history: how often each record was taken for redundant
  ignored,    \* history: how often each record had no type
  diedAtWork, \* history: the records popped that were at a node when it died
  lostReceipts

stages == <<up, agentNew, line, job, diedAtWork>>
redis  == <<keys, connected, ttl>>
atNode == <<queue, taken, up, agentNew, line, diedAtWork>>
ends   == <<received, redundant, ignored, lostReceipts>>
vars   == <<queue, taken, stages, redis, alive, ends>>

Init ==
  /\ queue = [n \in Nodes |-> [k \in Kinds |-> <<>>]]
  /\ taken = [m \in Records |-> 0]
  /\ agentNew = [n \in Nodes |-> "test"]
  /\ line = [n \in Nodes |-> <<>>]
  /\ job = [n \in Nodes |-> [w \in Workers |-> None]]
  /\ keys = [key \in Keys |-> "absent"]
  /\ connected = [n \in Nodes |-> TRUE]
  /\ ttl \in [Nodes -> {"none", "positive"}]
  /\ alive = [q \in Range(Query) |-> TRUE]
  /\ received = [m \in Records |-> [k \in Kinds |-> 0]]
  /\ redundant = [m \in Records |-> 0] /\ ignored = [m \in Records |-> 0]
  /\ up = Nodes /\ diedAtWork = {} /\ lostReceipts = 0

-------------------------------------------------------------------------------
(* The agents. *)

Pop(n, k) ==
  /\ queue' = [queue EXCEPT ![n][k] = Tail(@)]
  /\ taken' = [taken EXCEPT ![Head(queue[n][k])] = @ + 1]
  /\ line' = [line EXCEPT ![n] = Append(@, Head(queue[n][k]))]

\* Mutant of Agent: it looks at the other queue, as agent_new_ does.
AgentTestsOther(n) ==
  /\ queue[n]["new"] # <<>> /\ queue[n]["old"] # <<>>
  /\ Pop(n, "old")
  /\ UNCHANGED <<up, agentNew, job, diedAtWork, redis, alive, ends>>

Agent(n) ==
  /\ queue[n]["old"] # <<>>
  /\ Pop(n, "old")
  /\ UNCHANGED <<up, agentNew, job, diedAtWork, redis, alive, ends>>

\* agent_new_ looks at the queue of the old topic before it pops its own.
AgentNewTest(n) ==
  /\ agentNew[n] = "test" /\ queue[n]["old"] # <<>>
  /\ agentNew' = [agentNew EXCEPT ![n] = "pop"]
  /\ UNCHANGED <<queue, taken, up, line, job, diedAtWork, redis, alive, ends>>

AgentNewPop(n) ==
  /\ agentNew[n] = "pop"
  /\ agentNew' = [agentNew EXCEPT ![n] = "test"]
  /\ IF queue[n]["new"] = <<>> THEN UNCHANGED <<queue, taken, line>> ELSE Pop(n, "new")
  /\ UNCHANGED <<up, job, diedAtWork, redis, alive, ends>>

-------------------------------------------------------------------------------
(* PreProcess.                                                               *)

QidKey(m)   == <<"qid", Qid[m]>>
QueryKey(m) == <<"query", Query[m]>>

\* Mutant of FirstStep: the test of resno is inverted.
FirstStepInverted(m) == IF m \in Failed THEN "set query" ELSE "exists qid"

FirstStep(m) == IF m \in Failed THEN "exists qid" ELSE "set query"

BeginJob(n, w) ==
  LET m == Head(line[n]) IN
  /\ line[n] # <<>> /\ job[n][w] = None
  /\ line' = [line EXCEPT ![n] = Tail(@)]
  /\ IF m \in Typed
       THEN job' = [job EXCEPT ![n][w] = [body |-> m, at |-> FirstStep(m)]] /\ UNCHANGED ignored
       ELSE ignored' = [ignored EXCEPT ![m] = @ + 1] /\ UNCHANGED job
  /\ UNCHANGED <<queue, taken, up, agentNew, diedAtWork, redis, alive, received, redundant,
                 lostReceipts>>

AtStep(n, w, at) == job[n][w] # None /\ job[n][w].at = at
GoOn(n, w, at)   == job' = [job EXCEPT ![n][w].at = at]
EndJob(n, w)     == job' = [job EXCEPT ![n][w] = None]

\* Exists answers no when redis cannot be reached.
Exists(n, key) == connected[n] /\ keys[key] # "absent"

Ask(n, w, at, key, next) ==
  /\ AtStep(n, w, at)
  /\ IF Exists(n, key)
       THEN /\ EndJob(n, w)
            /\ redundant' = [redundant EXCEPT ![job[n][w].body] = @ + 1]
       ELSE GoOn(n, w, next) /\ UNCHANGED redundant
  /\ UNCHANGED <<atNode, redis, alive, received, ignored, lostReceipts>>

AskQid(n, w)   == Ask(n, w, "exists qid", QidKey(job[n][w].body), "exists query")
\* Mutant of AskQuery: a failed log that is not redundant goes on to set the keys.
AskQueryThenSet(n, w) == Ask(n, w, "exists query", QueryKey(job[n][w].body), "set query")

AskQuery(n, w) == Ask(n, w, "exists query", QueryKey(job[n][w].body), "transmit")

\* Set is two commands, and the second is left out without a positive ttl.  The
\* result is not looked at.  A connection that fails between the two leaves a
\* key that never expires.
Put(n, w, at, key, ownTtl, next) ==
  /\ AtStep(n, w, at)
  /\ GoOn(n, w, next)
  /\ \/ /\ ~connected[n] /\ UNCHANGED <<keys, connected>>
     \/ /\ connected[n] /\ UNCHANGED connected
        /\ keys' = [keys EXCEPT ![key] =
                      IF ownTtl \/ ttl[n] = "positive" THEN "expiring" ELSE "kept"]
     \/ /\ n \in Cut /\ connected[n] /\ connected' = [connected EXCEPT ![n] = FALSE]
        /\ ownTtl \/ ttl[n] = "positive"
        /\ keys' = [keys EXCEPT ![key] = "kept"]
  /\ UNCHANGED <<atNode, ttl, alive, ends>>

SetQuery(n, w) == Put(n, w, "set query", QueryKey(job[n][w].body), FALSE, "set qid")
SetQid(n, w)   == Put(n, w, "set qid", QidKey(job[n][w].body), TRUE, "transmit")

Expire(key) ==
  /\ keys[key] = "expiring"
  /\ keys' = [keys EXCEPT ![key] = "absent"]
  /\ UNCHANGED <<queue, taken, stages, connected, ttl, alive, ends>>

\* hiredis gives no further answer on a connection that failed, and RedisCli
\* never connects again.
Disconnect(n) ==
  /\ connected[n] /\ connected' = [connected EXCEPT ![n] = FALSE]
  /\ UNCHANGED <<queue, taken, stages, keys, ttl, alive, ends>>

-------------------------------------------------------------------------------
(* Transmit.  The slave is chosen once, by the query, and called until it    *)
(* answers.  PreProcess writes the type "old" whatever the topic.            *)

Receive(m) == received' = [received EXCEPT ![m]["old"] = @ + 1]

\* Mutant of Transmit: the slave is called once, whether or not it answers.
TransmitOnce(n, w) ==
  LET m == job[n][w].body IN
  /\ AtStep(n, w, "transmit")
  /\ IF alive[Query[m]] THEN Receive(m) ELSE UNCHANGED received
  /\ EndJob(n, w)
  /\ UNCHANGED <<atNode, redis, alive, redundant, ignored, lostReceipts>>

Transmit(n, w) ==
  LET m == job[n][w].body IN
  /\ AtStep(n, w, "transmit") /\ alive[Query[m]]
  /\ Receive(m)
  /\ EndJob(n, w)
  /\ UNCHANGED <<atNode, redis, alive, redundant, ignored, lostReceipts>>

\* The answer is lost, or comes after the timeout: the worker calls again.
TransmitReplyLost(n, w) ==
  LET m == job[n][w].body IN
  /\ AtStep(n, w, "transmit") /\ alive[Query[m]]
  /\ lostReceipts < MaxLostReplies /\ lostReceipts' = lostReceipts + 1
  /\ Receive(m)
  /\ UNCHANGED <<queue, taken, stages, redis, alive, redundant, ignored>>

SlaveChanges(q) ==
  /\ alive' = [alive EXCEPT ![q] = ~@]
  /\ UNCHANGED <<queue, taken, stages, redis, ends>>

-------------------------------------------------------------------------------
\* How often a record stands in the queues.
QueuedTimes(m) == Times([at \in Nodes \X Kinds |-> queue[at[1]][at[2]]], m)

Fill(n, k, m) ==
  /\ queue' = [queue EXCEPT ![n][k] = Append(@, m)]
  /\ UNCHANGED <<taken, stages, redis, alive, ends>>

\* Whoever fills the queues.
Offer(n, m) ==
  /\ n \in up
  /\ taken[m] + QueuedTimes(m) < MaxOffers
  /\ Len(queue[n][Topic[m]]) < QueueLen
  /\ Fill(n, Topic[m], m)

PreProcess(n, w) ==
  \/ AskQid(n, w) \/ AskQuery(n, w) \/ SetQuery(n, w) \/ SetQid(n, w)
  \/ Transmit(n, w) \/ TransmitReplyLost(n, w)

NodeStep(n) ==
  /\ n \in up
  /\ \/ Agent(n) \/ AgentNewTest(n) \/ AgentNewPop(n)
     \/ \E w \in Workers : BeginJob(n, w) \/ PreProcess(n, w)

\* A record in a node's pool or in the hands of its workers.
InPool(n, m) ==
  \/ m \in Range(line[n])
  \/ \E w \in Workers : job[n][w] # None /\ job[n][w].body = m

\* The process ends: its queues, its pool and its workers' jobs end with it.  What
\* they wrote to redis stays.
Die(n) ==
  /\ n \in up \cap Mortal /\ up' = up \ {n}
  /\ queue' = [queue EXCEPT ![n] = [k \in Kinds |-> <<>>]]
  /\ agentNew' = [agentNew EXCEPT ![n] = "test"]
  /\ line' = [line EXCEPT ![n] = <<>>]
  /\ job' = [job EXCEPT ![n] = [w \in Workers |-> None]]
  /\ diedAtWork' = diedAtWork \cup {m \in Records : InPool(n, m)}
  /\ UNCHANGED <<taken, redis, alive, ends>>

Next ==
  \/ \E n \in Nodes : NodeStep(n) \/ Die(n)
  \/ \E n \in up \cap Cut : Disconnect(n)
  \/ \E key \in Keys : Expire(key)
  \/ \E q \in Restless : SlaveChanges(q)
  \/ \E n \in Nodes, m \in Records : Offer(n, m)

Spec == Init /\ [][Next]_vars

\* The threads run, and a call of a slave that answers again and again is one
\* day made while it does.
Fairness ==
  \A n \in Nodes :
    /\ WF_vars(Agent(n)) /\ SF_vars(AgentNewTest(n)) /\ WF_vars(AgentNewPop(n))
    /\ \A w \in Workers : /\ WF_vars(BeginJob(n, w)) /\ WF_vars(PreProcess(n, w))
                           /\ SF_vars(Transmit(n, w))

FairSpec == Spec /\ Fairness

-------------------------------------------------------------------------------
(* Properties. *)

TypeOK ==
  /\ queue \in [Nodes -> [Kinds -> Seq(Records)]] /\ taken \in [Records -> Nat]
  /\ agentNew \in [Nodes -> {"test", "pop"}] /\ line \in [Nodes -> Seq(Records)]
  /\ job \in [Nodes -> [Workers -> Job \cup {None}]]
  /\ keys \in [Keys -> {"absent", "kept", "expiring"}]
  /\ connected \in [Nodes -> BOOLEAN] /\ ttl \in [Nodes -> {"none", "positive"}]
  /\ up \subseteq Nodes /\ diedAtWork \subseteq Records
  /\ alive \in [Range(Query) -> BOOLEAN]
  /\ received \in [Records -> [Kinds -> Nat]]
  /\ redundant \in [Records -> Nat] /\ ignored \in [Records -> Nat]
  /\ lostReceipts \in 0..MaxLostReplies

Receipts(m) == received[m]["old"] + received[m]["new"]

InLine(m) == Times(line, m)
AtWork(m) == Cardinality({place \in Nodes \X Workers :
               LET held == job[place[1]][place[2]] IN held # None /\ held.body = m})

\* Nothing popped from a queue is lost unless it dies with a node: it waits in the
\* pool, is being worked on, was ignored or taken for redundant, or has reached
\* a slave; and it reaches a slave more often than that only when a reply was lost.
NothingLost ==
  \A m \in Records :
    LET elsewhere == InLine(m) + AtWork(m) + ignored[m] + redundant[m] IN
      /\ m \notin diedAtWork => taken[m] <= elsewhere + Receipts(m)
      /\ elsewhere + Receipts(m) <= taken[m] + lostReceipts

Related(m) == {s \in Records \ Failed : Qid[s] = Qid[m] \/ Query[s] = Query[m]}

\* A failed log is taken for redundant only when a log of the same request or
\* the same query that did recall something has reached its slave, or is in the
\* hands of a worker on its way there, or has died there with its node.
RedundantHasSuccess ==
  \A m \in Records :
    redundant[m] > 0 =>
      /\ m \in Failed
      /\ \E s \in Related(m) : Receipts(s) > 0 \/ AtWork(s) > 0 \/ s \in diedAtWork

\* A record of the old topic that is queued is dealt with, if its slave keeps
\* coming back, or dies with its node.
OldDealtWith ==
  \A m \in Records :
    Topic[m] = "old" /\ []<>alive[Query[m]] =>
      []<>(\/ taken[m] + QueuedTimes(m) = 0
           \/ Receipts(m) + redundant[m] + ignored[m] > 0 \/ m \in diedAtWork)

-------------------------------------------------------------------------------
(* What the repository says and the code does not do. *)

\* README 5: the master node consumes from its lock-free queues.  A record of
\* the new topic that is queued is popped.
NewConsumed ==
  \A m \in Records : Topic[m] = "new" /\ QueuedTimes(m) > 0 ~> taken[m] > 0
===============================================================================
