------------------------------ MODULE OrderedMap ------------------------------
(***************************************************************************)
(* What the skip list promises: a map with ordered keys, which tells the   *)
(* value of a key, and the values and the number of the keys in a range.   *)
(***************************************************************************)
EXTENDS Integers, Sequences, FiniteSets

CONSTANTS KeySet, Vals, Bounds  \* the keys and values inserted, and the ends of ranges

VARIABLES
  map,    \* the value of every key that has one
  answer  \* the last call and what it answered

Init == map = [k \in {} |-> 0] /\ answer = <<>>

Answers(call, values) == answer' = <<call, values>>

Put(k, v) ==
  /\ map' = [x \in DOMAIN map \cup {k} |-> IF x = k THEN v ELSE map[x]]
  /\ Answers(<<"modify", k, v>>, <<>>)

Drop(k) ==
  /\ map' = [x \in DOMAIN map \ {k} |-> map[x]]
  /\ Answers(<<"remove", k>>, <<>>)

Get(k) ==
  /\ Answers(<<"search", k>>, IF k \in DOMAIN map THEN <<map[k]>> ELSE <<>>)
  /\ UNCHANGED map

Between(st, ed) == {k \in DOMAIN map : st <= k /\ k <= ed}

\* The i-th of a set of keys in ascending order: i - 1 are less.
Ranked(keys, i) == {k \in keys : Cardinality({x \in keys : x < k}) = i - 1}
KeyAt(keys, i)  == CHOOSE k \in Ranked(keys, i) : TRUE

GetRange(st, ed) ==
  /\ Answers(<<"range", st, ed>>, [i \in 1..Cardinality(Between(st, ed)) |->
                                     map[KeyAt(Between(st, ed), i)]])
  /\ UNCHANGED map

CountRange(st, ed) ==
  /\ Answers(<<"count", st, ed>>, <<Cardinality(Between(st, ed))>>)
  /\ UNCHANGED map

Next ==
  \/ \E k \in KeySet : (\E v \in Vals : Put(k, v)) \/ Drop(k) \/ Get(k)
  \/ \E st, ed \in Bounds : GetRange(st, ed) \/ CountRange(st, ed)

Spec == Init /\ [][Next]_<<map, answer>>
===============================================================================
