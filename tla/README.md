# TLA+ verification of logprocess

`logprocess` (`src/data-access`) collects log records of a search service.
About forty *master nodes* pull records from the minos message queue, drop the
irrelevant ones, and pass the others to several hundred *slave nodes*, which
store them, evaluate alarms ("checklists") and keep statistics. A Go *platform*
configures the nodes and queries them.

The models are written from the code. Where the code calls something that is not
in the repository (the minos broker, redis, boost's lock-free queue), the model
has the behaviour the code relies on and `PROJECT.json` marks it external.

## 1. Inventory

Paths below are relative to `src/data-access`.

| Part | Source | State | Operations | What is hard | What makes it correct |
|---|---|---|---|---|---|
| Task pool | `common/thread_pool.*` | deque, timer heap, two counters, `stop_`, one mutex, one condition variable | `AddTask`, `AddPriorityTask`, `AddDelayTask`, `AddTimerTask`, `Stop`, worker loop | lost wake-ups, `Stop` writes without the mutex, counters used as a barrier | no task lost or run twice, no sleeping beside work, `Stop` ends and drops nothing it promised to finish |
| Record intake | `src/preprocess/data_access.cc`, `data_access_mgr.cc` | package id, status of the last answer, pull switch, resender pool | `InitMinosPipe`, `Subscribe`, `GetRelaxingNode`, resending | lost answers, broken subscriptions, full queues, relief by another node that may be full or dead | each record handled once and in order, none vanishes |
| Preprocessing | `src/preprocess/data_preprocess.cc` | two agents, worker pool, redis connection | agents, `PreProcess`, `Transmit` | several workers and nodes share redis keys; retries without end; two queues | nothing lost between queue and slave, only redundant failures hidden |
| Load report and relief | `health.cc`, `preprocess_main.cc`, `src/platform/src/logplatform/controllers/relax.go` | memory level, its report in redis | update, report, choose | stale reports, dead nodes still named | a record sent on ends somewhere |
| Redis client | `common/redis.cc` | connection, `default_ttl_` | `Set`, `Exists` | two commands per `Set`, no reconnection, an uninitialised field | see preprocessing |
| Management service | `src/preprocess/data_access_impl.cc` | none of its own | set and get of rules, switches and counts, `Retransmit` | runs in rpc threads beside the pullers and workers | what it answers is what the node then does |
| Field rules, filter rules | `data_preprocess_action.cc`, `data_access_filter.cc` | two maps per application, a set of srcids | load, update, get | two maps that must agree | the maps have the same fields |
| Pv statistics | `data_access_pv.cc` | skip list per application, srcid and outcome | `Inc`, `Cnt`, `AddSupportType` | concurrent readers and writers | counts what was taken in |
| Slave service | `src/process/process_impl.cc`, `process_chklist*.cc`, `process_check_action.cc`, `process_stat*.cc`, `process_storage.cc` | checklists, statistics, rocksdb | receive, store, check, query, configure | one rpc thread beside two alarm threads; masters that call again; restarts that forget the lists; a platform that goes on with requests nobody waits for | a record that was answered is stored, the slaves have the same checklists, alarms and mails are about what happened |
| Skip list | `common/skiplist2.cc` | forward pointers of the nodes, `level_` | `Modify`, `Remove`, `Search`, `RangeGet`, `RangeCount` | heights drawn by chance, levels linked and unlinked by different loops | behaves as an ordered map |
| Lock-free queue | `common/lockfreequeue_funcs.h` | head, tail, a flag for each slot | `try_push`, `try_pop` | slots claimed, filled and emptied in separate steps | behaves as a bounded queue, refuses only when full or empty |
| Ring of servers | `common/consistent_hash.cc` | virtual nodes, servers | `AddServerNode`, `DeleteServerNode`, `GetServerNode` | a map erased from while it is walked, keys past the last node | a change moves only the keys it must |
| Selection | `src/process/process_impl.cc`, `process_check_action.cc`, `process_sort.cc`, `process_top.cc`, `common/heap_func.h`, `rocksdb.cc` | rocksdb | `Storage`, `GetLogProcessStat` | indices at their ends, a heap of its own, two functions that decide conditions | a page is the slice of the ordered records that meet the conditions |
| Statistics | `process_stat*.cc`, `common/trie.cc` | a trie of query hashes, redis | count, search | restarts | a query without result is counted |
| Platform | `src/platform/*.go` | none that lasts | one goroutine per node, collection of answers | slow or dead nodes | one answer per node |

The master's threads are: the rpc service (started first), the two puller
threads, eight resender threads per puller, the two agents, the twelve workers,
and `main`, which reports memory every ten seconds. They share the two bounded
queues, the rules, the pull switches and the variable `health`.

## 2. Modules

| Module | What it is |
|---|---|
| `ThreadPool` | the task pool, every critical section a step, `Stop` between them |
| `TaskExecutor` | the abstract pool: a line of jobs, slots that take from its front, a door that closes |
| `ThreadPoolProofs` | theorems about `ThreadPool` |
| `Intake` | pullers, broker, resenders, load reports, `Retransmit`, the bounded queues |
| `Preprocess` | agents, worker pool (by its promise), redis keys, `Transmit` |
| `Cluster` | `Intake` and `Preprocess` joined at the queues |
| `Delivery` | the abstract promise about a record, which `Cluster` implements |
| `FieldRules` | the field rules of a node, the calls that change and read them, the workers that read them |
| `PvStat` | the filter of srcids and the counts of records, pullers and calls on them |
| `Sources` | the applications both are about |
| `Slaves` | receipt, storage and statistics of the slaves, their alarm threads, the platform's answers to them, the runs of `chklist.go` |
| `SlavesProofs` | theorems about `Slaves` |
| `NodeConfigProofs` | theorems about `FieldRules`, `PvStat` and `Selection`, and lemmas about sums |
| `Lines` | how often a record stands in lines of records, which `Intake` and `Preprocess` count; what a filter keeps of one |
| `LinesProofs` | lemmas about those counts, what joining and leaving a line does to them, and about recursive functions and the filter |
| `IntakeProofs` | theorems about `Intake` |
| `PreprocessProofs` | theorems about `Preprocess` |
| `ClusterProofs` | theorems about `Cluster`, from those about its two parts |
| `CommonProofs` | theorems about `LockFreeQueue`, `SkipList` and `ConsistentHash` |
| `LockFreeQueue` | the ring of `common/`, every access to shared memory a step |
| `BoundedQueue` | the abstract queue that it implements |
| `SkipList` | the skip list, node by node and level by level |
| `OrderedMap` | the abstract map that it implements |
| `ConsistentHash` | the ring of servers, a turn of the deleting loop a step |
| `Conditions` | the conditions of checklists and selections and the two functions that decide them |
| `Selection` | what a slave stores and selects: reading, filtering, sorting, the top-k heap, the page |
| `MC*` | instances for TLC |

**ThreadPool.** `pc` says where a worker is in `process()`; `mutex` is held across
steps only where an unlocked write of `Stop` can come between: after the wait
predicate was found true and before the thread is in the wait set (`parking`), and
after `stop_` was tested and before a task is taken (`picking`). `pending` is an
integer that may become negative, which stands for the unsigned word having
wrapped; the code only compares it with zero. Timed tasks carry the time at which
they are due; the clock is bounded by `MaxTime`.

**Intake.** One puller per node and topic. `status` is the status field of the
response object, which the code reuses from call to call: a call that fails leaves
it as it was. The broker serves the record after the last one, or the same one again
if the same package id is asked for; a new subscription starts at the newest record.
Memory is `low` or `high`. What a relaxing node is, is what `relax.go` computes from
the reports: reports are never withdrawn, so a dead node can be named; with every
node above its limit no node (the empty string) is named. When a node dies (`Die`), the
record in a puller's hands, its queues, its resender pools and the errands of their threads
are gone: they are memory of the process. `diedQueued` remembers which records were there
(`IsAt`). The node does not come back: a process that is started again begins with new
variables and `InitMinosPipe`, like a node of its own.

**Preprocess.** The worker pool is used as a line of jobs begun in order, which
`ThreadPool` is proved to implement. A worker's steps are its single redis commands
and its call of a slave. `ttl` is the value the constructor leaves in `default_ttl_`:
any of "positive" or not, once for each node. A death takes queues, pool and jobs with it
(`InPool`, `diedAtWork`); what the workers wrote to redis stays.

**Cluster.** `queue` and `taken` are the shared variables. `Intake` by itself has a
`Consume` action and `Preprocess` by itself an `Offer` action for the other side;
`Cluster` uses neither. A node dies in both parts in one step and takes no step afterwards.
`Home` is the node whose puller is fed a record; `Died` is what was in the memory of a node
when it died. `Delivery` promises that only what a node took in itself, or what was sent on to
another, perishes with a node.

**FieldRules.** The maps are functions from applications to what they hold; a regex is
reduced to its presence. `operator[]` of `std::map` inserts, and so do `GetRule` and
`GetIsTrans` (`Lookup`). The rpc server of a node has one thread, so `call` is the only
management call under way; workers read between any two steps of it. `ever` and
`always` are histories of what was to be sent while a worker read the rules.

**PvStat.** The counters of an application, a srcid and an outcome are a map from seconds to
numbers, which is what `SkipList` is shown to be. `Inc` is four steps, because it searches
the map of counters before it takes the mutex, and then reads and writes under it. A search
beside an insertion may miss a counter. `Cnt` changes nothing; it is an operator, and
`CountsExact` says what it tells whenever it can have the mutex.

**LockFreeQueue.** Any number of producers and consumers call until they succeed, as the test
does. `spot` is the local copy by which a call claims its position; a failed
compare-and-exchange begins the call anew. `lapped` remembers whether a claim met another of its
kind still at work on the same slot, a turn of the ring before. The waiting loops are steps that become enabled with the flag: the flag is an
ordinary `bool`, but nothing is built with optimisation (the flags in `CMakeLists.txt` are
set in a variable nobody reads). Positions are integers; the code's `int` would wrap after
2^31 pushes.

**SkipList.** A node is named by its key; the descent that all calls share is `Before`.
The users hold a mutex around a call, so a call is a step; the height of a new node is any
below `MaxLevel`. **ConsistentHash.** `Hash` gives the virtual nodes of each server, and
servers may collide. `it` is the iterator of `DeleteServerNode`, which is set to `begin()`
after an erasure and then moved on. `GetServerNode` gives the set of possible answers.

**Conditions, Selection.** A record is a function from fields to values, a text a value with
the relations "includes", "begins" and "ends" given as constants. `Check` is what raises
alarms, `AllCheck` what selects; `Topk` is the heap of `heap_func.h` as it is, with the
children of i at 2i and 2i + 1. rocksdb holds the sequence of the records of each second.
A loop, and the recursion of `Heap::Adjust`, is a recursive function of the turns that are
done. `std::sort` is given by its result: a row has its place by how many rows are `Ahead`
of it. `Page` is `GetLogProcessStat` from the matching rows on.

**Slaves.** The rpc server of a slave has one thread (`process_adapt.cc:93`;
`thread_pool_` is not used), so `rpc` is the one record a slave is at and how far
`DataReceive` is with it. The alarm pool is used by its promise, as in `Preprocess`. `post`
is what the platform works on: an alarm, for which it asks every slave for the count of
the query and mails if the sum is not 0, or a line for `kuozhao.txt`. A sender gives up
after three seconds and posts again while the platform goes on with the first request.
`tool` are the runs of `chklist.go`: calls that no slave has handled yet (`open`) and
results that are not in (`waiting`); a call may be handled after its caller gave up. A death
loses checklists, counts and alarms, rocksdb stays. A query may have several homes,
because `GetServerNode` picks a random node past the last virtual one. Which record
meets which conditions is a constant there; `Conditions` says what it is.

Definitions that begin with the comment "Mutant of" are not part of a model: each is
the form a definition would take with a plausible bug in the code, and shows that
the property it is listed with in `PROJECT.json` notices it.

## 3. Runs

| Run | What it shows | Bounds, and why they are enough |
|---|---|---|
| `pool` | Nothing lost or repeated, no missed wake-up, what the counters count, what a graceful `Stop` keeps, `LateOnce`, refinement of `TaskExecutor`; every task runs and `Stop` returns in the cases in which it can | two workers (one can sleep while the other works), two jobs (an order, and a pair at the same time), one delayed and one periodic task, clock to 1: every branch of `process()` is taken with `Stop` before, between and after. The proofs cover every other size |
| `intake_safety` | `EachRecordOnce`, `Accounted` | two nodes, both of which may die, one puller whose subscription can break, a record to be filtered between two others, queues of two, one lost `Retransmit` reply: a duplicate needs one lost reply, a dropped record one full queue |
| `intake_liveness` | `EveryRecordHandled` | the same with two records, one lost reply and the death of the relieving node, queues of one, so that pushing has to wait |
| `preprocess_safety` | `NothingLost`, `RedundantHasSuccess` | two nodes with one worker each (the race on redis is between two workers of any nodes), one success and two failed logs, one of the same request and one of the same query, both topics; both nodes may die, each at any step |
| `cluster` | `EndToEnd`, `ImplementsDelivery` | two nodes, one fed, the other to relieve it, a success and a failed log of it; both nodes may die, and the one that relieves may lose redis. `AlikeSpec` bounds the uninitialised `default_ttl_` to be alike at both nodes; `preprocess_safety` has it differ |
| `node_config`, a behaviour for each part | rules: `MapsAgree`, `ReadsOneMoment`, `SendsWhatIsConfigured` | one configured and one new application, two fields of which one is always asked for, one worker (workers do not write what others read) |
| | counts: `CountsExact` | two pullers (one pair can collide), two srcids, two outcomes, two seconds, two records |
| | queue: `RefusalsAreTrue`, `ImplementsQueue`, `EveryClaimPopped` | two producers of two values each and two consumers on three slots, so that two values are in the queue at a time (an order) and the claim of the fourth position can lap that of the first |
| | skip list: `ImplementsMap`, the levels in `TypeOK` | three keys and three levels: a node between two others, taller or lower than either |
| | ring: `OnlyNeededMove`, `DeletedLeavesFirst` | three servers with eight hashes, two and three virtual nodes each, the first two of one server, one shared by two servers, all deletions |
| | selection: `PageIsSlice`, `SelectedIfAlarming` | two seconds, up to five records of three kinds, all pages; the heap works from two rows on (`Many`), where the code has 100000, so that it is built, replaced at the top and sorted |
| | agents: `OldDealtWith` | one node, which may die, records of the old topic, a slave that goes and comes back |
| `slaves` | `NoDuplicateItems`, `ListsAgree`, `AnsweredIsStored`, `TriesBounded`, `MailHasMiss`, `NoLineLost`; `MailWhenKnown`, `AlarmsEnd` | two slaves (one can be other than the other), one sender each and two requests at the platform (a retry beside the request it repeats; two writers of the file), one retry, one death, two runs of `chklist.go` that add equal, other and known items and delete by index. Checklists, alarms and expansions share only the slaves, so a behaviour works on one of them (`part`) |
| `intake_switch`, `intake_full`, `intake_init`, `preprocess_new`, `select_type` | the divergences of section 5 | the least instance that shows each |

The parts of `node_config` share nothing, so one behaviour exercises one of them (`part`)
and the others stand still; a run for each would ask the same questions.

`CHECK_DEADLOCK FALSE` stands where the system may really stop: a pool that was
stopped, a broker with no more records, producers that have pushed all their values, a
database at its bound.

### Fairness

* `ThreadPool`: strong fairness of each worker, because a worker asks for a mutex
  that others take again and again; `Stop` runs once it is called; the clock advances.
  Nobody is obliged to call `Stop`, and a wait need not end without a notification.
* `Intake`: threads run; a call that is repeated for ever is answered one day, which
  is what the code's endless retries assume; queues are consumed. The broker need not
  produce, a node need not report, memory need not change.
* `LockFreeQueue`: every producer and consumer runs. That suffices although the queue only
  promises that some thread gets on: each producer has finitely many values.
* `Preprocess`: threads run; a slave that answers again and again is one day called
  while it does. That a slave keeps coming back is a premise of the property.
* `Slaves`: the alarm threads and the platform's goroutines run, and each of their waits
  ends, with an answer or with the timeout the code sets (3 s for a post, 20 s for a
  query). Masters need not call, slaves need not die or be started again.

## 4. Proofs

Proved with TLAPS for every value of the constants that satisfies the assumptions:

**The task pool** (`ThreadPoolProofs`, under `PoolAssumption`: a finite non-empty set
of workers, disjoint kinds of tasks). None of the properties is inductive by itself.
`IInv` is the conjunction of

* `TypeOK` and `Hands` (what a worker can hold at each place in `process()`),
* `Held` (the mutex has at most one owner, and who is `parking` or `picking` has it),
* `LateLeaves` (who took a job after `stop_` leaves next),
* `OnePlace`, `Counters`, `NoSleepWithWork`, `GracefulKeepsJobs`.

`Hands` is needed for `OnePlace` (a job taken must not be in another hand), `Held`
for `NoSleepWithWork` (a task cannot be added between the test of the predicate and
the wait), `LateLeaves` for `LateOnce` and for the refinement. There is a lemma for
each conjunct and each action that disturbs it. `PoolIsExecutor` maps the deque to
the line of jobs, the jobs in workers' hands to the slots, and `stop_` to the door;
timers, the mutex, sleeping and the counters are stuttering steps.

**The field rules** (`NodeConfigProofs`, under `RulesAssumption`). `MapsAgree` is not
inductive, because a lookup of an unknown name fills one map before the other;
`RulesInv` adds that the configured applications stay (`LoadedKnown`), that what a
half-done management call read is still so (`CallFresh`), and what a worker between
its two lookups can rely on (`JobsKnow`): the rule it has read contains all that was
sent all the time, and the flags it will read contain nothing that never was. From it
follow `RulesAgree`, `WorkersSendConfigured` and `CallReadsOneMoment`.

**The counts** (`NodeConfigProofs`, under `PvAssumption`). `PvInv` has the balance
`CountsExact` stands on: for every counter and second, what is counted, missed and in pullers'
hands is what passed the filter (`Balanced`). A write keeps it because whoever is about to
write holds the mutex and what it read is still so (`CountFresh`), which an insertion cannot
spoil since it holds the mutex too and inserts new counters only (`AddingNew`); a counter of
the configuration file is never lost, so that one is missed only beside an insertion
(`CountersKnown`, `MissedByInsertion`). That a range is told rightly (`InvTellsRanges`) is a
fact about sums: the list has the seconds that were counted, the range all seconds, and
`SumWithoutZeros` says that what is 0 does not matter. Sums are the fold of the community
modules, a recursive function on subsets; induction over it takes the smallest subset of
which the claim does not hold (`SmallestBad`), and leads to `TotalSplits`: whichever member
the fold takes first, the sum is the same. From all this follows `EveryRecordCounted`.

**The slaves** (`SlavesProofs`, under `SlavesAssumption`). `ListsInv` adds to
`NoDuplicateItems` the types of lists and runs; that an index deleted from a list leaves
the others apart is `RemoveKeepsDistinct`. For `MailHasMiss` the chain behind a mail is
needed: a count that is not 0 has a search without result behind it (`CountHasMiss`), and
so has the sum of a request (`SumHasMiss`); both hold across deaths because `missed` is a
history and only grows. `StorageInv` says for `AnsweredIsStored` that a call of
`DataReceive` that is at its statistics has written or failed to.

`ListsAgree` speaks of quiet moments only, so the work is to say what holds while a run is
under way: `AgreeInv` says that it is the only one, that it waits for every slave that has not
handled its call, and that all slaves that have handled it have the list that follows from the
one list of all the others (`Between`, `After`). For `TriesBounded` the posts that may still
come of an alarm are added up (`TriesInv`): those judged, those the platform works on, those a
thread has in hand (`InHand`: one more than the tries left before the post, as many as are left
while it waits) and, for each copy in a line, all of them. Raising an alarm adds to both sides
of the bound, and every other step moves a post from one place to the next or loses it: a post
that times out goes on at the platform, and has left one try less behind. `KnownInv` says for
`MailWhenKnown` that, as long as nothing failed, what a slave had counted before the request
came is in its sum or still to be asked for, on a slave that is up; and `LinesInv` for
`NoLineLost` that, as long as no two wrote at a time, at most one request has its place in the
file, which is the end.

**The intake** (`IntakeProofs`, under `IntakeAssumption`). `RecordsOnce` needs to know when
the broker will serve a record again: `PullerInv` says that a puller is `Open` exactly while
the record served last belongs to the package it asks for, that only then this record is
neither handled nor skipped, and that everything before it is one or the other.

`Accounted` is a matter of bookkeeping that no single step shows. `IntakeInv` adds `FedInv`
(what is served was produced, so the index in a puller's hands is one of `Feed`), the types,
and for each record `Counted` and `Ledger`: a count above 0 has the one puller behind it that
handled the record or is pushing it, so `CountsOnce` follows from `PullerInv` and from the
feeds being disjoint; and `Ledger` says that the copies of a record (consumed, queued, in a
puller's hands, in a pool, in a resender's hands) are at most its count plus the replies lost,
that there are some, or it is lost or died with a node, exactly if it was counted, and that only
what was sent on is lost. Every action adds to one
of these places what it takes from another, or a lost reply pays for it; the sums are
cardinalities of sets of places, and the lemmas of `LinesProofs` say what appending to and
taking from a line does to them. A death moves whatever `IsAt` finds at the node to
`diedQueued` (`DieClears`, `LedgerDie`). Who dies with whom needs `AtNodesInv`, on top of
`IntakeInv`: what stands in a node's queues was pulled there or sent on (`AtHome`), and a dead
node has nothing (`DeadEmpty`). `TypesHold` and `RecordsAccounted` follow.

**The preprocessing** (`PreprocessProofs`, under `PreprocessAssumption`). For
`RedundantHasReason` the answer of redis must be traced to who gave it: `RedundantInv` says
that only failed logs ask and only the others set keys (`Branches`), and that whoever set a
key has reached its slave, is in a worker's hands or died there with its node, however long ago
that was (`KeysHaveSetters`). Expiry only takes keys away, and a question asked without a connection is
answered "no", after which the log is sent. `KeptInv` counts where a record that was popped is:
what is in the line, in workers' hands, ignored, redundant and received is as much as was
popped, and more only by lost replies; it is less only for what was in a pool or in workers'
hands at a death (`KeptByDeath`). From it follows `PoppedIsKept`. The types that neither
needs are `RestTypes`; all together are `PreprocessTypesHold`. All of
this is proved of `OpenSpec`, in which the queues may be filled with any record at any time:
`Spec`, whose `Offer` is bounded, is one such specification, and so is the cluster.

**The cluster** (`ClusterProofs`, under `ClusterAssumption`: what its parts assume, and every
record comes from some feed). The one invariant of its own is `HomeAtWork`: what is in
a node's pool was pulled by it or sent on, and a dead node has no pool. To the intake the
preprocessing is a consumer of the queues, so the cluster satisfies the specification of
`Intake` (`ClusterIsIntake`); with the invariant of the intake, what `push()` and `Retransmit`
put into a queue is a record, so the cluster satisfies `OpenSpec` of the preprocessing
(`ClusterIsPreprocess`). What is proved of the parts then holds of the whole:
`RecordsAccounted` says that a counted record is before its pop or was popped, `PoppedIsKept`
where it is after the pop, and the two meet in `RecordsEndToEnd`. `DeliveryImplemented` maps
each step to the promise of `Delivery`: a record that is counted is seen for the first time by
`CountsOnce`, what is delivered or hidden was seen by `EndToEnd` of the state after the step,
what hides it by `RedundantHasReason`, what is lost was sent on by `Accounted`, and what
perishes with a node was its own or sent on by `WhoIsAtHome` and `HomeAtWork` (`PromiseByDeath`).

**The lock-free queue** (`CommonProofs`, under `QueueAssumption`). For any number of
threads `CounterInv` keeps head and tail less than the capacity apart, by what each thread
had seen when it went on to claim; `QueueTypeCorrect` and `RefusalsCorrect` follow. What a
slot holds is `SlotInv`, which stands for any number of threads until a claim laps another: a
slot has at most one push and one pop at work on it (`OneEach`), a position is `Live` from its
claim by a push until the pop of it has cleared the slot, a live position that nobody fills is
readable and has its value (`FilledIsReadable`), nothing else is readable, and the push of the
next turn waits while the pop of this one is at work (`TurnsWait`). `QueueImplemented` maps the
claimed positions from head on to the queue: a claim inserts or removes, a consumer's reading
of the slot returns, and the rest are stuttering steps. `OneConsumerLapsNobody` says where the
condition is met: a single consumer at work is at the position before head (`AlwaysAtHead`), so
the positions in use are no more than the slots. With two consumers a claim may lap another, and
then both may return the same value.

**The skip list** (`CommonProofs`, under `SkipAssumption`). `SkipInv` says of every level what
`IsNext` says of one pointer: it leads to the next of the nodes that are tall enough (`Linked`);
that nodes have the heights they drew, none above `level_` (`Heights`), and that `level_` is in
use (`TopUsed`). The walks are recursive functions, so a closed form is shown to satisfy their
equation, and to be the only one that does, by the greatest node at which another would
differ. So a walk along a level ends at the last node below a key (`WalkEnds`), the descent
finds that node at each level whatever way it takes (`DescentFinds`), a walk through a level
meets its nodes (`LevelIs`), and one through a range lists its keys in ascending order
(`UpToIs`). An insertion links, at each level up to the height drawn, behind the last
node below (`InsertKeeps`); a removal unlinks exactly where the node was (`UnlinkedIs`,
`RemoveKeeps`). `SkipListIsMap` follows with the map that val and level 0 are, whose keys are
the nodes (`SkipInvMaps`).

**The ring of servers** (`CommonProofs`, under `RingAssumption`: the hashes are finitely many
integers, none of them the two numbers that stand for the ends of the map). Adding virtual
nodes moves a hash to the new server or not at all (`AddingMoves`), and erasing one moves no
hash that another server answers for (`ErasingMoves`). A deletion takes many steps, so
`RingInv` says in `WalkSafe` what holds meanwhile: such hashes keep their answers, and of the
server's virtual nodes the iterator has passed at most the first of the ring, which it steps
over after each erasure. Whatever a walk has erased, it goes on behind the first node,
or at no node if it erased the last one.

**The selection** (`NodeConfigProofs`, under `SelectionAssumption`: the seconds have no gaps, a
field that can be sorted by is a number wherever it is). What is to be shown is the same in every
state in which rocksdb holds sequences of records (`SelectionTypes`), and is an argument about the
code of one call. A loop is a recursive function of the turns that are done, and `LoopExists` says
that it has values, all in a family of states `Inv`, if each turn leads from `Inv[n - 1]` to
`Inv[n]`; every loop below has such a family.

* *Sinking* (`AdjustIs`). The keys form a heap but at one parent (`HeapBut`), and its own
  parent is as large as its children (`GrandOf`); a turn of `Adjust` moves the exception to the
  larger child (`SinkKeys`), or there is none; and every turn but the last moves it further on, so
  the length of the heap is enough turns (`SinkState`).
* *Building* (`HeapifyIs`) from the last parent to the first, *sorting* (`HeapSortIs`) from the
  first row to the last: from m on the keys are in order, and none in front is larger
  (`TailSorted`). Rows are only put in another order, the ones that do not take part left where
  they are (`Rearranged`, by a permutation that is named). The parent of the last element of an
  odd number does not look at it, which is why `HeapSortIs` and what follows ask for an even
  number of rows: the heap's front is then the largest (`TopOf`), and stays so when the sorting goes
  through odd numbers, because the element that is not looked at is known to be smaller
  (`HeapSortTurn`).
* *Selecting* (`TopkIs`). The heap holds the K smallest of the first M rows: an injection of
  the K places into the M, outside of which every row is at least as large (`Smallest`). The first
  K are so, a row larger than the top may be left out (`SmallestWithout`), one that is not takes
  the place of the top (`SmallestWith`).
* *Sorting by the library* (`SortIs`). Who is ahead of a row has fewer ahead (`AheadLess`), of two
  rows one is ahead, so the numbers are a permutation (`PlacedIs`), and the result is the
  `Smallest` of all the rows too.
* *The page* (`LimitIs`). The smallest rows in their order have the first ranks (`RankIs`) and
  occur no more often than among all (`OccursNoMore`), both by counting along the injection.
  `PagesAreSlices` follows.
* *Conditions.* What is read are the readable records of the seconds in the range (`ReadIs`), and
  the filter keeps exactly those that meet the conditions (`OnlyIs`, in `LinesProofs`). A kind of
  conditions that are plain is decided alike by both functions (`KindsAlike`), so
  `SelectedAsAlarming` follows. It is about records without empty fields: a checklist
  takes an empty text for a field the record does not have, a selection takes none.

Model-checked only: liveness and what rests on ENABLED, which are outside the prover's reach
(`EveryTaskRuns` and `StopReturns`, `EveryRecordHandled`, `EveryClaimPopped`, `OldDealtWith`,
`AlarmsEnd`); and `TypeOK` of the module `MCNodeConfig`, which puts the parts of a node side by
side for TLC, and is the conjunction of their type invariants: those are proved for each part.

## 5. Observed divergences

Each is a run that TLC must find violated, and a finding in `PROJECT.json`.

* `SwitchStopsPull`: with the pull switch off, the loop sleeps a second and fetches on.
* `AnsweredIsQueued`: `Retransmit` ignores the result of `push` and answers SUCCEED, so
  a full queue drops the record.
* `InitOnlyWhenRefused`: an rpc that fails leaves the status of an earlier refusal in the
  response, so a network failure begins a new subscription, which skips records.
* `SelectsWhere`: `all_check` counts the conditions on type that do not hold, so a selection
  by a type returns the other types; so with lbs and sid.
* `NewConsumed`: the agent of the new topic tests the other topic's queue for emptiness.

Seen while modelling, without a run:

* Master: `GetLogFieldConfig` answers FAILED when it has found the single field it was
  asked for (`data_access_impl.cc:113`); `Cnt` ends without a value for an unknown
  application (`data_access_pv.cc:88`); a srcid added by `AddLogTransmitStat` gets
  counters but no application, so its records pass the filter and are neither counted nor
  sent (`data_access_impl.cc:153`); records of the new topic are labelled `old`;
  `common::Now` divides nanoseconds by 100 (`common/util.cc:8`).
* Slave: the index of the last checklist is refused, and in that branch the call is never
  answered (`process_impl.cc:526`); the result of a write to rocksdb is ignored; the limit
  of a query is ignored when its end is not below the size, so the last page is all rows
  (`process_impl.cc:665`); `all_check` runs over the sids up to the number of resnos
  (`process_check_action.cc:242`) and reads other field names for a place than the
  checklists do; the comparison "NotExist" looks at the condition and not at the record; `CookieStat::Search` is inverted;
  `Dump` writes no line ends and `Load` has no caller.
* Common: when `curl_easy_init` fails, `Post` returns `false`, which is `CURLE_OK`
  (`curl.cc:8`); the heap takes 2i and 2i+1 for children at zero-based indices,
  so that the last element of an odd number is never compared and the top rows are wrong for
  an even end (`PageIsSlice` is about the odd ones); `Topk` reads beyond the rows when the end
  is not one of them; `DeleteServerNode` steps over the first virtual node after an erasure
  and may leave it (`DeletedLeavesFirst`), and does not end when it erases the last one; a key
  past the last virtual node gets any server.
* Lock-free queue with two consumers, as `test/test_lockfree.cc:10` has: one that has claimed
  position p and one that has claimed p + capacity wait for the same flag, and both may read the
  same value, which line 41 of the test would report as "already exists". `ImplementsQueue` holds
  until such a claim (`lapped`).
* Platform: two requests may write to `kuozhao.txt` at the same place (`torn` in `Slaves`).

## 6. Not modelled

* `DataPreProcess::Stop` and the destructors of the master: `main` never leaves its
  loop. `DataAccesserMgr::Stop` likewise.
* `PreProcess_new` (never bound), the delay pool (its only use is commented out).
* What the lock-free queue does after a claim has lapped another, which `ImplementsQueue` leaves
  open (the model goes on), and the memory order of its plain accesses.
* The restart of a master node: the process begins anew, with nothing of what it had.
* Of a selection: `SingleGet` (a range without an end), records without the field to sort by
  and a heap of more rows than there are (undefined behaviour), the answers from the trie and
  from redis, which change nothing.
* The trie and the hash of queries: `Slaves` has a count for each hash. `Dump` has no effect
  a slave would read back: `Load` has no caller.
* In `Preprocess` the slave of a record is the one of its query throughout; a query past the
  last virtual node of the ring may in the code go to another slave each time it is chosen.
* The text of a record: whether it passes `filter`, has a srcid with a type, and has
  a `resno` are sets given as constants.
* Generated protobuf code, third-party libraries, web views, logging, parsing of
  configuration files.

## 7. Plan

Done: the task pool with its proofs; intake, preprocessing, their composition and the
promise about a record, with their proofs; field rules, filter rules and pv counts by second
and outcome, with their proofs; the slaves with alarms and checklist configuration, and the
proofs of all their properties but liveness; the skip list, the lock-free queue and the ring
of servers, with their proofs; conditions and selection, with the proofs of their properties.

Next: the other fan-out programs of the platform, which have the form of `chklist.go`; the trie
as a refinement of the counts of `Slaves`; the pages whose heap has an odd number of rows, and what
rank their rows have at least.
