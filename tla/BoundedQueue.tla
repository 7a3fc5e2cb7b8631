----------------------------- MODULE BoundedQueue -----------------------------
(***************************************************************************)
(* What a bounded queue promises: first in, first out, with at most Bound  *)
(* values between their insertion and their removal.  A reader removes     *)
(* a value first and returns it later.                                     *)
(***************************************************************************)
EXTENDS Naturals, Sequences

CONSTANTS
  Readers,
  Bound,    \* how many values the queue has room for
  Values, Nothing

VARIABLES
  queue,    \* the values inserted and not removed, the oldest first
  held,     \* the value each reader has removed and not returned
  returned  \* the values each has returned, in this order

queueVars == <<queue, held, returned>>

Init ==
  /\ queue = <<>>
  /\ held = [r \in Readers |-> Nothing] /\ returned = [r \in Readers |-> <<>>]

Insert ==
  /\ Len(queue) < Bound
  /\ \E v \in Values : queue' = Append(queue, v)
  /\ UNCHANGED <<held, returned>>

Remove(r) ==
  /\ held[r] = Nothing /\ queue # <<>>
  /\ held' = [held EXCEPT ![r] = Head(queue)] /\ queue' = Tail(queue)
  /\ UNCHANGED returned

Return(r) ==
  /\ held[r] # Nothing
  /\ returned' = [returned EXCEPT ![r] = Append(@, held[r])]
  /\ held' = [held EXCEPT ![r] = Nothing]
  /\ UNCHANGED queue

Next == Insert \/ \E r \in Readers : Remove(r) \/ Return(r)

Spec == Init /\ [][Next]_queueVars
===============================================================================
