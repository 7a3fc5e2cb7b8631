------------------------------ MODULE ThreadPool ------------------------------
(***************************************************************************)
(* The task pool of common/thread_pool.{h,cc}: worker threads that share   *)
(* one mutex, one condition variable, a deque of tasks and a priority      *)
(* queue of timed tasks, and an owner thread that calls Stop.              *)
(*                                                                         *)
(* A critical section is one step, except where the unlocked writes of     *)
(* Stop can fall inside it: between testing the wait predicate and         *)
(* joining the wait set, and between testing stop_ and taking a task.      *)
(* pending_num_ is an unsigned 64-bit word that is only compared with      *)
(* zero, so a negative integer here stands for the value 2^64 above it.    *)
(* task_count_ is written and never read, and is left out.                 *)
(***************************************************************************)
EXTENDS Integers, Sequences, FiniteSets, Functions

CONSTANTS
  Workers,    \* the threads of ths_
  Jobs,       \* calls of AddTask and AddPriorityTask, one member per call
  OneShot,    \* calls of AddDelayTask
  Periodic,   \* calls of AddTimerTask
  Interval,   \* timeval_ of every timed task
  MaxTime,    \* bound on the clock
  Nobody      \* no thread holds the mutex; no task is in a worker's hands

Timed == OneShot \cup Periodic
Tasks == Jobs \cup Timed

ASSUME PoolAssumption ==
  /\ IsFiniteSet(Workers) /\ Workers # {}
  /\ Jobs \cap Timed = {} /\ OneShot \cap Periodic = {}
  /\ Nobody \notin Workers \cup Tasks
  /\ Interval \in Nat /\ MaxTime \in Nat

VARIABLES
  pc,       \* where each worker is in process()
  hand,     \* the task a worker has popped and is running
  mutex,    \* mtx_: the worker that holds it between two steps
  queue,    \* queue_
  timers,   \* timer_queue_: exec_time_ of the armed tasks, Unarmed for others
  pending,  \* pending_num_
  running,  \* running_num_
  stop,     \* stop_
  owner,    \* where the owner is in Stop()
  now,      \* the clock getime_micros reads
  added,    \* history: the tasks handed to the pool
  done,     \* history: the jobs that have returned
  fired,    \* history: how many timed executions have begun
  late,     \* history: the workers that took a job after stop_ was set
  sealed    \* history: what had been added when a graceful Stop saw pending = 0

work    == <<queue, timers, pending, running>>
history == <<added, done, fired, late, sealed>>
vars    == <<pc, hand, mutex, work, stop, owner, now, history>>

Unarmed == -1
Armed   == {t \in Timed : timers[t] # Unarmed}
NoWork  == queue = <<>> /\ Armed = {}
Waiting == {w \in Workers : pc[w] = "waiting"}
Busy    == {w \in Workers : hand[w] # Nobody}

\* timer_queue_.top() is an entry with the least exec_time_.
Top(t) == t \in Armed /\ \A u \in Armed : timers[t] <= timers[u]
Due(t) == Top(t) /\ timers[t] <= now

Init ==
  /\ pc = [w \in Workers |-> "enter"]
  /\ hand = [w \in Workers |-> Nobody]
  /\ mutex = Nobody
  /\ queue = <<>>
  /\ timers = [t \in Timed |-> Unarmed]
  /\ pending = 0 /\ running = 0
  /\ stop = FALSE /\ owner = "up" /\ now = 0
  /\ added = {} /\ done = {} /\ fired = 0 /\ late = {} /\ sealed = {}

-------------------------------------------------------------------------------
(* Callers of the pool. *)

\* Mutant of NotifyOne: the notification is forgotten.
NotifyNobody == UNCHANGED pc

\* notify_one: some waiting thread, if there is one, goes back for the mutex.
NotifyOne ==
  IF Waiting = {} THEN UNCHANGED pc
  ELSE \E w \in Waiting : pc' = [pc EXCEPT ![w] = "enter"]

\* Mutant of Submit: ++pending_num_ is missing.
SubmitUncounted(t, newQueue) ==
  /\ mutex = Nobody /\ owner # "aborted" /\ t \notin added
  /\ queue' = newQueue
  /\ added' = added \cup {t}
  /\ NotifyOne
  /\ UNCHANGED <<hand, mutex, timers, pending, running, stop, owner, now,
                 done, fired, late, sealed>>

Submit(t, newQueue) ==
  /\ mutex = Nobody /\ owner # "aborted" /\ t \notin added
  /\ queue' = newQueue
  /\ pending' = pending + 1
  /\ added' = added \cup {t}
  /\ NotifyOne
  /\ UNCHANGED <<hand, mutex, timers, running, stop, owner, now,
                 done, fired, late, sealed>>

AddTask(j)         == j \in Jobs /\ Submit(j, Append(queue, j))
AddPriorityTask(j) == j \in Jobs /\ Submit(j, <<j>> \o queue)

\* A timed task is not counted in pending_num_ when it is added.
Arm(t) ==
  /\ mutex = Nobody /\ owner # "aborted" /\ t \notin added
  /\ timers' = [timers EXCEPT ![t] = now + Interval]
  /\ added' = added \cup {t}
  /\ NotifyOne
  /\ UNCHANGED <<hand, mutex, queue, pending, running, stop, owner, now,
                 done, fired, late, sealed>>

\* Mutant of AddDelayTask: the task goes to queue_ instead of timer_queue_.
AddDelayTaskAtOnce(t) == t \in OneShot /\ Submit(t, Append(queue, t))

AddDelayTask(t) == t \in OneShot /\ Arm(t)
AddTimerTask(t) == t \in Periodic /\ Arm(t)

-------------------------------------------------------------------------------
(* The worker loop, process(). *)

Goto(w, from, to) == pc[w] = from /\ pc' = [pc EXCEPT ![w] = to]

\* Mutant of FindNothing: the wait predicate does not look at stop_.
FindNothingAfterStop(w) ==
  /\ mutex = Nobody /\ NoWork
  /\ Goto(w, "enter", "parking")
  /\ mutex' = w
  /\ UNCHANGED <<hand, work, stop, owner, now, history>>

\* The wait predicate is true and stop_ is not set: the worker is committed to
\* waiting but has not yet joined the wait set.
FindNothing(w) ==
  /\ mutex = Nobody /\ NoWork /\ ~stop
  /\ Goto(w, "enter", "parking")
  /\ mutex' = w
  /\ UNCHANGED <<hand, work, stop, owner, now, history>>

Park(w) ==
  /\ Goto(w, "parking", "waiting")
  /\ mutex' = Nobody
  /\ UNCHANGED <<hand, work, stop, owner, now, history>>

\* The standard allows a wait to end with no notification.
SpuriousWakeup(w) ==
  /\ Goto(w, "waiting", "enter")
  /\ UNCHANGED <<hand, mutex, work, stop, owner, now, history>>

Leave(w) ==
  /\ mutex = Nobody /\ stop
  /\ Goto(w, "enter", "exited")
  /\ UNCHANGED <<hand, mutex, work, stop, owner, now, history>>

\* Mutant of FindWork: stop_ is not looked at while there is work.
FindWorkAfterStop(w) ==
  /\ mutex = Nobody /\ ~NoWork
  /\ Goto(w, "enter", "picking")
  /\ mutex' = w
  /\ UNCHANGED <<hand, work, stop, owner, now, history>>

FindWork(w) ==
  /\ mutex = Nobody /\ ~NoWork /\ ~stop
  /\ Goto(w, "enter", "picking")
  /\ mutex' = w
  /\ UNCHANGED <<hand, work, stop, owner, now, history>>

\* Mutant of TakeTimer: the timed task runs with the mutex held.
TakeTimerLocked(w, t) ==
  /\ Due(t)
  /\ Goto(w, "picking", "timer")
  /\ hand' = [hand EXCEPT ![w] = t]
  /\ timers' = [timers EXCEPT ![t] =
                  IF t \in Periodic THEN now + Interval ELSE Unarmed]
  /\ running' = running + 1 /\ pending' = pending - 1
  /\ fired' = fired + 1
  /\ UNCHANGED <<mutex, queue, stop, owner, now, added, done, late, sealed>>

\* A timer that is due is popped and, if periodic, pushed again before it runs.
TakeTimer(w, t) ==
  /\ Due(t)
  /\ Goto(w, "picking", "timer")
  /\ hand' = [hand EXCEPT ![w] = t]
  /\ timers' = [timers EXCEPT ![t] =
                  IF t \in Periodic THEN now + Interval ELSE Unarmed]
  /\ running' = running + 1 /\ pending' = pending - 1
  /\ fired' = fired + 1
  /\ mutex' = Nobody
  /\ UNCHANGED <<queue, stop, owner, now, added, done, late, sealed>>

\* Mutants of TakeFront: pop_front() is missing, and pop_back() stands in its
\* place.
TakeJob(w, jobsRunning, j, rest) ==
  /\ pc' = [pc EXCEPT ![w] = IF queue = <<>> THEN "enter" ELSE "job"]
  /\ hand' = [hand EXCEPT ![w] = IF queue = <<>> THEN Nobody ELSE j]
  /\ running' = IF queue = <<>> THEN jobsRunning ELSE jobsRunning + 1
  /\ queue' = IF queue = <<>> THEN queue ELSE rest
  /\ pending' = IF queue = <<>> THEN pending ELSE pending - 1
  /\ late' = IF stop /\ queue # <<>> THEN late \cup {w} ELSE late

CopyFront(w, jobsRunning) == TakeJob(w, jobsRunning, Head(queue), queue)
TakeBack(w, jobsRunning) ==
  TakeJob(w, jobsRunning, queue[Len(queue)], SubSeq(queue, 1, Len(queue) - 1))

\* The second half of the loop body: the front of queue_, if there is one.
TakeFront(w, jobsRunning) ==
  IF queue = <<>>
    THEN /\ pc' = [pc EXCEPT ![w] = "enter"]
         /\ hand' = [hand EXCEPT ![w] = Nobody]
         /\ running' = jobsRunning
         /\ UNCHANGED <<queue, pending, late>>
    ELSE /\ pc' = [pc EXCEPT ![w] = "job"]
         /\ hand' = [hand EXCEPT ![w] = Head(queue)]
         /\ queue' = Tail(queue)
         /\ pending' = pending - 1
         /\ running' = jobsRunning + 1
         /\ late' = IF stop THEN late \cup {w} ELSE late

SkipTimer(w) ==
  /\ pc[w] = "picking" /\ \A t \in Timed : ~Due(t)
  /\ TakeFront(w, running)
  /\ mutex' = Nobody
  /\ UNCHANGED <<timers, stop, owner, now, added, done, fired, sealed>>

\* The timed task returns; the loop goes on to queue_ without looking at stop_.
TimerReturns(w) ==
  /\ pc[w] = "timer" /\ mutex = Nobody
  /\ TakeFront(w, running - 1)
  /\ UNCHANGED <<mutex, timers, stop, owner, now, added, done, fired, sealed>>

JobReturns(w) ==
  /\ mutex = Nobody
  /\ Goto(w, "job", "enter")
  /\ running' = running - 1
  /\ done' = done \cup {hand[w]}
  /\ hand' = [hand EXCEPT ![w] = Nobody]
  /\ UNCHANGED <<mutex, queue, timers, pending, stop, owner, now,
                 added, fired, late, sealed>>

-------------------------------------------------------------------------------
(* The owner: Stop(graceful), which never takes the mutex. *)

Call(from, to) == owner = from /\ owner' = to

StopNow ==
  /\ Call("up", "stopping")
  /\ UNCHANGED <<pc, hand, mutex, work, stop, now, history>>

StopGracefully ==
  /\ Call("up", "draining")
  /\ UNCHANGED <<pc, hand, mutex, work, stop, now, history>>

\* Mutant of SeeDrained: Stop does not wait for pending_num_.
SeeDrainedAtOnce ==
  /\ Call("draining", "stopping")
  /\ sealed' = added
  /\ UNCHANGED <<pc, hand, mutex, work, stop, now, added, done, fired, late>>

SeeDrained ==
  /\ pending = 0
  /\ Call("draining", "stopping")
  /\ sealed' = added
  /\ UNCHANGED <<pc, hand, mutex, work, stop, now, added, done, fired, late>>

SetStop ==
  /\ Call("stopping", "notifying")
  /\ stop' = TRUE
  /\ UNCHANGED <<pc, hand, mutex, work, now, history>>

NotifyAll ==
  /\ Call("notifying", "joining")
  /\ pc' = [w \in Workers |-> IF pc[w] = "waiting" THEN "enter" ELSE pc[w]]
  /\ UNCHANGED <<hand, mutex, work, stop, now, history>>

Join ==
  /\ \A w \in Workers : pc[w] = "exited"
  /\ Call("joining", "down")
  /\ pending' = 0 /\ running' = 0
  /\ UNCHANGED <<pc, hand, mutex, queue, timers, stop, now, history>>

\* A second Stop, which the destructor always makes, joins threads that are no
\* longer joinable: std::thread::join throws and the process is terminated.
StopAgain ==
  /\ Call("down", "aborted")
  /\ UNCHANGED <<pc, hand, mutex, work, stop, now, history>>

Tick ==
  /\ now < MaxTime /\ now' = now + 1
  /\ UNCHANGED <<pc, hand, mutex, work, stop, owner, history>>

-------------------------------------------------------------------------------
Worker(w) ==
  \/ FindNothing(w) \/ Park(w) \/ Leave(w) \/ FindWork(w)
  \/ \E t \in Timed : TakeTimer(w, t)
  \/ SkipTimer(w) \/ TimerReturns(w) \/ JobReturns(w)

Caller ==
  \/ \E j \in Jobs : AddTask(j) \/ AddPriorityTask(j)
  \/ \E t \in Timed : AddDelayTask(t) \/ AddTimerTask(t)

Owner == \/ StopNow \/ StopGracefully \/ SeeDrained \/ SetStop \/ NotifyAll
         \/ Join \/ StopAgain

Next == \/ Caller \/ Owner \/ Tick
        \/ \E w \in Workers : Worker(w) \/ SpuriousWakeup(w)

Spec == Init /\ [][Next]_vars

\* The scheduler runs every thread, tasks return, and a thread that keeps asking
\* for the mutex is not passed over for ever.  Nobody is obliged to call Stop,
\* or to wake a waiting thread without reason.
Fairness ==
  /\ \A w \in Workers : SF_vars(Worker(w))
  /\ WF_vars(SeeDrained) /\ WF_vars(SetStop) /\ WF_vars(NotifyAll) /\ WF_vars(Join)
  /\ WF_vars(Tick)

FairSpec == Spec /\ Fairness

-------------------------------------------------------------------------------
(* Properties. *)

TypeOK ==
  /\ pc \in [Workers -> {"enter", "parking", "waiting", "picking", "timer",
                         "job", "exited"}]
  /\ hand \in [Workers -> Tasks \cup {Nobody}]
  /\ mutex \in Workers \cup {Nobody}
  /\ queue \in Seq(Jobs)
  /\ timers \in [Timed -> Nat \cup {Unarmed}]
  /\ pending \in Int /\ running \in Int
  /\ stop \in BOOLEAN
  /\ owner \in {"up", "draining", "stopping", "notifying", "joining", "down",
                "aborted"}
  /\ now \in 0..MaxTime /\ fired \in Nat
  /\ added \subseteq Tasks /\ done \subseteq Jobs
  /\ late \subseteq Workers /\ sealed \subseteq added

InHand == {hand[w] : w \in Busy} \cap Jobs

\* Every job given to the pool is in exactly one place: once in queue_, in the
\* hands of one worker, or finished.  No schedule of the callers, the workers
\* and Stop loses a job or runs it twice.
OnePlace ==
  /\ added \cap Jobs = Range(queue) \cup InHand \cup done
  /\ Range(queue) \cap InHand = {} /\ (Range(queue) \cup InHand) \cap done = {}
  /\ IsInjective(queue)
  /\ \A v, w \in Workers : hand[v] = hand[w] /\ hand[v] \in Jobs => v = w

\* What the counters that Stop and IsEmpty poll really count while the threads
\* live: running_num_ the tasks being run, and pending_num_ the jobs in queue_
\* less every timed execution so far, because only the worker counts those.
Counters ==
  owner \notin {"down", "aborted"} =>
    /\ pending = Len(queue) - fired
    /\ running = Cardinality(Busy)

\* No wake-up of a caller is lost: the workers never all sleep beside a task.
NoSleepWithWork == Waiting = Workers => NoWork

\* Stop(true) drops no job that had been added when it found nothing pending,
\* as long as no timed task has run (each one hides a queued job from it).
GracefulKeepsJobs == fired = 0 => sealed \cap Range(queue) = {}

\* After stop_ is set a worker takes at most one more job.
LateOnce ==
  [][\A w \in Workers : stop /\ pc[w] # "job" /\ pc'[w] = "job" => w \notin late]_vars

\* The pool implements the abstract executor, whatever the timed tasks do.
JobOf(w) == IF hand[w] \in Jobs THEN hand[w] ELSE Nobody
Executor == INSTANCE TaskExecutor
  WITH Slots <- Workers, Idle <- Nobody, line <- queue,
       active <- [w \in Workers |-> JobOf(w)],
       finished <- done, closed <- stop, overrun <- late
ImplementsExecutor == Executor!Spec

\* A job given to the pool is run, and a timer whose time is within reach fires,
\* unless the pool is stopped first.
EveryTaskRuns ==
  /\ \A j \in Jobs : j \in added ~> (j \in done \/ stop)
  /\ \A t \in Timed : t \in Armed /\ timers[t] <= MaxTime
                       ~> t \notin Armed \/ timers[t] > MaxTime \/ stop

\* Stop(true) finishes waiting if no timed task is ever added.  A worker that has
\* tested the predicate when stop_ is set without the mutex sleeps through
\* notify_all; unless there is one, Stop joins every thread.
StopReturns ==
  /\ [](added \cap Timed = {}) => (owner = "draining" ~> owner # "draining")
  /\ (owner = "joining" /\ \A w \in Workers : pc[w] \notin {"parking", "waiting"})
       ~> owner = "down"
-------------------------------------------------------------------------------
(* What the proofs of the properties need besides them. *)

\* The program counter says what a worker has in its hands.
Hands ==
  \A w \in Workers :
    /\ pc[w] = "job" => hand[w] \in Jobs
    /\ pc[w] = "timer" => hand[w] \in Timed
    /\ pc[w] \notin {"job", "timer"} => hand[w] = Nobody

\* Between steps the mutex is held by a worker that is about to sleep, having
\* found nothing, or by one that is about to take a task.
Held ==
  \A w \in Workers :
    /\ pc[w] \in {"parking", "picking"} <=> mutex = w
    /\ pc[w] = "parking" => NoWork

\* A worker that took a job after stop_ was set leaves as soon as it returns.
LateLeaves == \A w \in late : stop /\ pc[w] \in {"job", "enter", "exited"}

\* The inductive invariant: what one pass of the worker loop relies on between
\* its critical sections, together with what it promises.
IInv ==
  /\ TypeOK /\ Hands /\ Held /\ LateLeaves
  /\ OnePlace /\ Counters /\ NoSleepWithWork /\ GracefulKeepsJobs
===============================================================================
