------------------------------- MODULE SkipList -------------------------------
(***************************************************************************)
(* The skip list of common/skiplist2.cc and common/skiplist_funcs.h: one   *)
(* node for each key, with forward pointers at levels 0 to the height the  *)
(* node drew when it was inserted.  Its users hold a mutex around a call,  *)
(* so a call is a step.                                                    *)
(***************************************************************************)
EXTENDS Integers, Sequences, FiniteSets, FiniteSetsExt

CONSTANTS
  KeySet, Vals,  \* what is inserted
  Bounds,      \* the ends of the ranges asked for
  MaxLevel     \* MAX_LEVEL

ASSUME SkipAssumption ==
  KeySet \subseteq Nat /\ Bounds \subseteq Nat /\ MaxLevel \in Nat \ {0}

HeadNode == -1 \* head_, which has no key
Nil      == -2 \* nullptr

VARIABLES
  forward,  \* the forward pointers of head_ and of every node; a node is named by its key
  val,      \* the value of every node
  level,    \* level_
  reply     \* the last call and what it answered

skipVars == <<forward, val, level, reply>>

SkipInit ==
  /\ forward = [n \in {HeadNode} |-> [i \in 0..(MaxLevel - 1) |-> Nil]]
  /\ val = [n \in {} |-> 0] /\ level = 0 /\ reply = <<>>

-------------------------------------------------------------------------------
Answer(call, values) == reply' = <<call, values>>

(* Every call begins with the same descent. *)

\* head_ and the nodes that are tall enough for level i.
OnLevel(i) == {n \in DOMAIN forward : i \in DOMAIN forward[n]}

\* The last node of level i, from a given one on, whose key is less than k.
LastBelow(i, from, k) ==
  LET walk[n \in OnLevel(i)] ==
        IF forward[n][i] # Nil /\ forward[n][i] < k THEN walk[forward[n][i]] ELSE n
  IN walk[from]

\* forward_point_array: the descent goes on, one level down, where it stopped.
Before(k) ==
  LET down[i \in 0..level] == LastBelow(i, IF i = level THEN HeadNode ELSE down[i + 1], k)
  IN down

\* horizontal: the first node whose key is not less than k.
AtOrAfter(k) == forward[Before(k)[0]][0]

-------------------------------------------------------------------------------
\* Mutant of Link: the loop ends before the height of the node.
LinkBelow(k, h) ==
  LET before(i) == IF i <= level THEN Before(k)[i] ELSE HeadNode IN
  [n \in DOMAIN forward \cup {k} |->
     IF n = k THEN [i \in 0..h |-> forward[before(i)][i]]
     ELSE [i \in DOMAIN forward[n] |-> IF i < h /\ before(i) = n THEN k ELSE forward[n][i]]]

\* The new node is put behind its predecessor at every level up to its height;
\* at the levels that were not in use this is head_.
Link(k, h) ==
  LET before(i) == IF i <= level THEN Before(k)[i] ELSE HeadNode IN
  [n \in DOMAIN forward \cup {k} |->
     IF n = k THEN [i \in 0..h |-> forward[before(i)][i]]
     ELSE [i \in DOMAIN forward[n] |-> IF i <= h /\ before(i) = n THEN k ELSE forward[n][i]]]

Update(k, v) ==
  /\ AtOrAfter(k) = k
  /\ val' = [val EXCEPT ![k] = v]
  /\ UNCHANGED <<forward, level>>

\* GetInsertLevel draws any height below MAX_LEVEL.
Insert(k, v) ==
  /\ AtOrAfter(k) # k
  /\ \E h \in 0..(MaxLevel - 1) :
       /\ forward' = Link(k, h)
       /\ level' = Max({level, h})
  /\ val' = [n \in DOMAIN val \cup {k} |-> IF n = k THEN v ELSE val[n]]

Modify(k, v) == (Update(k, v) \/ Insert(k, v)) /\ Answer(<<"modify", k, v>>, <<>>)

\* The levels at which the node is unlinked: from 0 up to the first one whose
\* predecessor points elsewhere.
Unlinked(k) == {i \in 0..level : \A j \in 0..i : forward[Before(k)[j]][j] = k}

Unlink(k) ==
  [n \in DOMAIN forward \ {k} |->
     [i \in DOMAIN forward[n] |->
        IF i \in Unlinked(k) /\ Before(k)[i] = n THEN forward[k][i] ELSE forward[n][i]]]

\* level_ goes down to the highest level that is still in use.
Lowered(first) == Max({0} \cup {i \in 0..level : first[i] # Nil})

Remove(k) ==
  /\ Answer(<<"remove", k>>, <<>>)
  /\ IF AtOrAfter(k) = k
       THEN /\ forward' = Unlink(k)
            /\ val' = [n \in DOMAIN val \ {k} |-> val[n]]
            /\ level' = Lowered(Unlink(k)[HeadNode])
       ELSE UNCHANGED <<forward, val, level>>

Search(k) ==
  /\ Answer(<<"search", k>>, IF AtOrAfter(k) = k THEN <<val[k]>> ELSE <<>>)
  /\ UNCHANGED <<forward, val, level>>

\* The nodes from n on, along level 0, whose keys are at most ed.
UpTo(n, ed) ==
  LET from[x \in DOMAIN val \cup {Nil}] ==
        IF x = Nil \/ x > ed THEN <<>> ELSE <<x>> \o from[forward[x][0]]
  IN from[n]

RangeGet(st, ed) ==
  LET nodes == UpTo(AtOrAfter(st), ed) IN
  /\ Answer(<<"range", st, ed>>, [i \in DOMAIN nodes |-> val[nodes[i]]])
  /\ UNCHANGED <<forward, val, level>>

RangeCount(st, ed) ==
  /\ Answer(<<"count", st, ed>>, <<Len(UpTo(AtOrAfter(st), ed))>>)
  /\ UNCHANGED <<forward, val, level>>

SkipNext ==
  \/ \E k \in KeySet : (\E v \in Vals : Modify(k, v)) \/ Remove(k) \/ Search(k)
  \/ \E st, ed \in Bounds : RangeGet(st, ed) \/ RangeCount(st, ed)

SkipSpec == SkipInit /\ [][SkipNext]_skipVars

-------------------------------------------------------------------------------
(* Properties. *)

\* The keys of a level, in order.
Level(i) ==
  LET from[x \in OnLevel(i) \cup {Nil}] == IF x = Nil THEN {} ELSE {x} \cup from[forward[x][i]]
  IN from[forward[HeadNode][i]]

\* Each level is in ascending order and holds the nodes that are tall enough for
\* it; level_ is the highest one in use.
SkipTypeOK ==
  /\ level \in 0..(MaxLevel - 1)
  /\ DOMAIN forward = DOMAIN val \cup {HeadNode} /\ DOMAIN val \subseteq KeySet
  /\ \A n \in DOMAIN forward, i \in 0..(MaxLevel - 1) :
       i \in DOMAIN forward[n] => forward[n][i] = Nil \/ forward[n][i] > n
  /\ \A i \in 0..(MaxLevel - 1) : Level(i) = OnLevel(i) \ {HeadNode}
  /\ \A i \in 0..(MaxLevel - 1) : forward[HeadNode][i] # Nil => i <= level
  /\ level > 0 => forward[HeadNode][level] # Nil

Map == INSTANCE OrderedMap WITH map <- [k \in Level(0) |-> val[k]], answer <- reply

\* Whatever heights the nodes drew, and in whatever order keys were inserted and
\* removed, every call does to the list, and answers, what it does to an ordered map.
ImplementsMap == Map!Spec
===============================================================================
