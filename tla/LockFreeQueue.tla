----------------------------- MODULE LockFreeQueue -----------------------------
(***************************************************************************)
(* LFQ, the ring of common/lockfreequeue_funcs.h: producers that call      *)
(* try_push and consumers that call try_pop until they succeed, as in      *)
(* test/test_lockfree.cc, its only caller, which has two consumers.  Every *)
(* access to shared memory is a step.                                      *)
(*                                                                         *)
(* head and tail only grow; a thread claims a position by moving one of    *)
(* them and then waits for the slot of that position, which it shares with *)
(* every position Capacity further.  The flag of a slot is not atomic, but *)
(* the targets are built without optimisation (the flags of CMakeLists.txt *)
(* go to a variable nobody reads), so each turn of a waiting loop reads it *)
(* anew, and a loop that waits is a step that is not yet enabled.          *)
(***************************************************************************)
EXTENDS Lines, Integers, Sequences, Functions

CONSTANTS
  Producers, Consumers,
  Capacity,    \* _capacity
  PushesEach,  \* bound: the values each producer pushes
  Nothing

ASSUME QueueAssumption ==
  /\ Capacity \in Nat \ {0, 1} /\ PushesEach \in Nat
  /\ Producers \cap Consumers = {}

Values  == Producers \X (1..PushesEach)
Threads == Producers \cup Consumers

ASSUME NothingAssumption == Nothing \notin Values

VARIABLES
  head, tail,  \* the next position to pop and to push
  readable,    \* itemlist[].readable
  value,       \* itemlist[].value
  pc,          \* the access each thread makes next
  spot,        \* tail_ of a push and head_ of a pop: the position it claims
  pushes,      \* the pushes each producer has begun and not been refused
  claims,      \* history: the value of every position claimed by a push
  popped,      \* history: the values each consumer returned
  lapped       \* history: whether a claim has lapped another

shared == <<head, tail, readable, value>>
queueVars   == <<shared, pc, spot, pushes, claims, popped, lapped>>

Slot(pos) == pos % Capacity

QueueInit ==
  /\ head = 0 /\ tail = 0
  /\ readable = [i \in 0..(Capacity - 1) |-> FALSE]
  /\ value = [i \in 0..(Capacity - 1) |-> Nothing]
  /\ pc = [t \in Threads |-> "call"]
  /\ spot = [t \in Threads |-> 0]
  /\ pushes = [p \in Producers |-> 0]
  /\ claims = <<>>
  /\ popped = [c \in Consumers |-> <<>>]
  /\ lapped = FALSE

Goto(t, where) == pc' = [pc EXCEPT ![t] = where]

\* The thread is at work on the position it has claimed.
Active(t) == pc[t] \in {"wait", "access", "flag"}

\* A thread claims a position while another that pushes, or pops, like itself is at
\* work on a position of the same slot, a turn of the ring or more before.
Claim(t, kin, pos) ==
  /\ pc[t] = "claim" /\ spot[t] = pos
  /\ lapped' = (lapped \/ \E k \in kin : Active(k) /\ Slot(spot[k]) = Slot(pos))
  /\ Goto(t, "wait")
  /\ UNCHANGED <<readable, value, spot, pushes, popped>>

\* The call returns, and what it had read is gone.
Return(t) == Goto(t, "call") /\ spot' = [spot EXCEPT ![t] = 0]

-------------------------------------------------------------------------------
(* try_push: tail is read before head. *)

PushReadTail(p) ==
  /\ pc[p] = "call" /\ pushes[p] < PushesEach
  /\ spot' = [spot EXCEPT ![p] = tail] /\ Goto(p, "other")
  /\ UNCHANGED <<shared, pushes, claims, popped, lapped>>

\* Mutants of IsFull: every slot is used, and two are kept empty.
IsFullOfAll(t, h) == t >= h + Capacity
IsFullEarly(t, h) == t + 2 >= h + Capacity

\* new_tail - head_ >= _capacity: one slot always stays empty.
IsFull(t, h) == t + 1 >= h + Capacity

PushReadHead(p) ==
  /\ pc[p] = "other" /\ p \in Producers
  /\ IF IsFull(spot[p], head) THEN Return(p) ELSE Goto(p, "claim") /\ UNCHANGED spot
  /\ UNCHANGED <<shared, pushes, claims, popped, lapped>>

\* The value of a push is known to the producer; here it names the push.
Pushing(p) == <<p, pushes[p] + 1>>

PushClaim(p) ==
  /\ Claim(p, Producers, tail)
  /\ tail' = tail + 1
  /\ claims' = Append(claims, Pushing(p))
  /\ UNCHANGED head

PushWait(p) ==
  /\ pc[p] = "wait" /\ p \in Producers /\ ~readable[Slot(spot[p])]
  /\ Goto(p, "access")
  /\ UNCHANGED <<shared, spot, pushes, claims, popped, lapped>>

PushWrite(p) ==
  /\ pc[p] = "access" /\ p \in Producers
  /\ value' = [value EXCEPT ![Slot(spot[p])] = Pushing(p)]
  /\ Goto(p, "flag")
  /\ UNCHANGED <<head, tail, readable, spot, pushes, claims, popped, lapped>>

PushPublish(p) ==
  /\ pc[p] = "flag" /\ p \in Producers
  /\ readable' = [readable EXCEPT ![Slot(spot[p])] = TRUE]
  /\ pushes' = [pushes EXCEPT ![p] = @ + 1]
  /\ Return(p)
  /\ UNCHANGED <<head, tail, value, claims, popped, lapped>>

-------------------------------------------------------------------------------
(* try_pop: head is read before tail. *)

PopReadHead(c) ==
  /\ pc[c] = "call" /\ c \in Consumers
  /\ spot' = [spot EXCEPT ![c] = head] /\ Goto(c, "other")
  /\ UNCHANGED <<shared, pushes, claims, popped, lapped>>

PopReadTail(c) ==
  /\ pc[c] = "other" /\ c \in Consumers
  /\ IF spot[c] = tail THEN Return(c) ELSE Goto(c, "claim") /\ UNCHANGED spot
  /\ UNCHANGED <<shared, pushes, claims, popped, lapped>>

PopClaim(c) ==
  /\ Claim(c, Consumers, head)
  /\ head' = head + 1
  /\ UNCHANGED <<tail, claims>>

PopWait(c) ==
  /\ pc[c] = "wait" /\ c \in Consumers /\ readable[Slot(spot[c])]
  /\ Goto(c, "access")
  /\ UNCHANGED <<shared, spot, pushes, claims, popped, lapped>>

PopRead(c) ==
  /\ pc[c] = "access" /\ c \in Consumers
  /\ popped' = [popped EXCEPT ![c] = Append(@, value[Slot(spot[c])])]
  /\ Goto(c, "flag")
  /\ UNCHANGED <<shared, spot, pushes, claims, lapped>>

\* Mutant of PopClear: the slot stays readable.
PopClearNot(c) ==
  /\ pc[c] = "flag" /\ c \in Consumers
  /\ Return(c)
  /\ UNCHANGED <<shared, pushes, claims, popped, lapped>>

PopClear(c) ==
  /\ pc[c] = "flag" /\ c \in Consumers
  /\ readable' = [readable EXCEPT ![Slot(spot[c])] = FALSE]
  /\ Return(c)
  /\ UNCHANGED <<head, tail, value, pushes, claims, popped, lapped>>

-------------------------------------------------------------------------------
\* compare_exchange_strong finds another thread was faster: the call begins anew.
ClaimFails(t) ==
  /\ pc[t] = "claim"
  /\ spot[t] # (IF t \in Producers THEN tail ELSE head)
  /\ Return(t)
  /\ UNCHANGED <<shared, pushes, claims, popped, lapped>>

Producer(p) ==
  \/ PushReadTail(p) \/ PushReadHead(p) \/ PushClaim(p) \/ ClaimFails(p)
  \/ PushWait(p) \/ PushWrite(p) \/ PushPublish(p)

Consumer(c) ==
  \/ PopReadHead(c) \/ PopReadTail(c) \/ PopClaim(c) \/ ClaimFails(c)
  \/ PopWait(c) \/ PopRead(c) \/ PopClear(c)

QueueNext == (\E p \in Producers : Producer(p)) \/ (\E c \in Consumers : Consumer(c))

QueueSpec == QueueInit /\ [][QueueNext]_queueVars

\* The operating system runs every thread.
QueueFairness ==
  /\ \A p \in Producers : WF_queueVars(Producer(p))
  /\ \A c \in Consumers : WF_queueVars(Consumer(c))

QueueFairSpec == QueueSpec /\ QueueFairness

-------------------------------------------------------------------------------
(* Properties. *)

QueueTypeOK ==
  /\ head \in Nat /\ tail \in Nat
  /\ readable \in [0..(Capacity - 1) -> BOOLEAN]
  /\ value \in [0..(Capacity - 1) -> Values \cup {Nothing}]
  /\ pc \in [Threads -> {"call", "other", "claim", "wait", "access", "flag"}]
  /\ spot \in [Threads -> Nat] /\ lapped \in BOOLEAN
  /\ pushes \in [Producers -> 0..PushesEach]
  /\ claims \in Seq(Values) /\ Len(claims) = tail
  /\ popped \in [Consumers -> Seq(Values)]

\* A call is refused only while the queue is full, or empty, of claimed
\* positions, however old the first of the two counters is that it compares.
RefusalsAreTrue ==
  [][/\ \A p \in Producers : pc[p] = "other" /\ pc'[p] = "call" => tail = head + Capacity - 1
     /\ \A c \in Consumers : pc[c] = "other" /\ pc'[c] = "call" => head = tail]_queueVars

\* What the ring is as a queue: the values of the positions claimed by a push and by
\* no pop yet, and of the position each consumer has claimed and not read.
Popping(c) == pc[c] \in {"wait", "access"}
Queue == INSTANCE BoundedQueue WITH
  Readers <- Consumers, Bound <- Capacity - 1, Nothing <- Nothing,
  queue <- SubSeq(claims, head + 1, tail),
  held <- [c \in Consumers |-> IF Popping(c) THEN claims[spot[c] + 1] ELSE Nothing],
  returned <- popped

\* However many producers and consumers there are, the ring is a queue of Capacity - 1
\* values: each slot hands out what was pushed at its position, and positions are
\* popped in the order of the pushes, although slots are claimed, filled and emptied
\* in separate steps of different threads - until a claim laps another: a slot does
\* not know its turn, so two pops at work on one slot return the same value.
ImplementsQueue == Queue!Init /\ [][lapped' \/ [Queue!Next]_(Queue!queueVars)]_queueVars

\* Unless a claim laps another, every value whose position was claimed is popped in
\* the end, once, and no other: no producer waits for ever for its slot, nor
\* a consumer for a value, and the consumers have again and again what was pushed.
EveryClaimPopped ==
  []<>(lapped \/ /\ \A c \in Consumers : Range(popped[c]) \subseteq Range(claims)
                 /\ \A v \in Range(claims) : Times(popped, v) = 1)
===============================================================================
