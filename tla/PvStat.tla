-------------------------------- MODULE PvStat --------------------------------
(***************************************************************************)
(* The filter of srcids (AccessFilter) and the page-view counts (PvStater) *)
(* of a master node, the management calls that read and write them, and    *)
(* the pullers that use them for every record.                             *)
(*                                                                         *)
(* The counters of an application, a srcid and an outcome are a skip list: *)
(* the ordered map of SkipList, here a function from seconds to counts.    *)
(* Management calls follow one another, on the one thread of the server.   *)
(***************************************************************************)
EXTENDS Sources, Integers, FiniteSets, Functions

CONSTANTS
  Srcids,      \* the sources of records
  Type,        \* srcid_type: the application of each srcid of the configuration file
  Pullers,
  Seconds,     \* the timestamps of records
  MaxRecords   \* bound: records that pass the filter

Outcomes == {"succ", "fail"}
Counters(pairs) == {<<k[1], k[2], o>> : k \in pairs, o \in Outcomes}
Counted  == Counters({<<Type[s], s>> : s \in DOMAIN Type})

\* Where a puller is with its record, in Inc.
Place == [key : Counted, at : {"find", "search", "modify"}, time : Seconds, pv : Nat]

ASSUME PvAssumption ==
  /\ DOMAIN Type \subseteq Srcids /\ Range(Type) \subseteq Loaded
  /\ MaxRecords \in Nat /\ Seconds \subseteq Nat
  /\ IsFiniteSet(Pullers) /\ "rpc" \notin Pullers
  /\ None \notin Apps \cup Srcids \cup Pullers \cup (Apps \X Srcids) \cup Place \cup {"rpc"}

VARIABLES
  filter,   \* useful_srcids
  support,  \* srcidcfg: the srcids counted for each application
  pv,       \* pvstater: the counts of each <<application, srcid, outcome>> that has them
  pvmutex,  \* the thread that holds the mutex of PvStater
  adding,   \* AddLogTransmitStat while it inserts into pvstater
  puller,   \* where each puller is with its record
  seen,     \* history: the records of each counter and second that passed the filter
  missed    \* history: those whose counter was not found

counts == <<support, pv, pvmutex, adding>>
pvVars == <<filter, counts, puller, seen, missed>>

\* UpdateConfig could add to srcid_type, but no caller gives it srcids to add.
GetType(s) == IF s \in DOMAIN Type THEN Type[s] ELSE None

Empty    == [t \in {} |-> 0]

Key      == Apps \X Srcids \X Outcomes
RecordsSeen == SumFunctionOnSet([k \in Counted |-> SumFunction(seen[k])], Counted)
Zero     == [t \in Seconds |-> 0]
Free(th) == pvmutex = None /\ pvmutex' = th

PvInit ==
  /\ filter = DOMAIN Type
  /\ support = [a \in Loaded |-> {s \in DOMAIN Type : Type[s] = a}]
  /\ pv = [k \in Counted |-> Empty]
  /\ pvmutex = None /\ adding = None
  /\ puller = [p \in Pullers |-> None]
  /\ seen = [k \in Counted |-> Zero] /\ missed = [k \in Counted |-> Zero]

-------------------------------------------------------------------------------
(* The management calls, each of which begins when none is under way. *)

SetLogFilterConfig(s, op) ==
  /\ adding = None
  /\ filter' = IF op THEN filter \cup {s} ELSE filter \ {s}
  /\ UNCHANGED <<counts, puller, seen, missed>>

SrcidsOf(a) == IF a \in DOMAIN support THEN support[a] ELSE {}

\* AddSupportType: the pair is noted, then its counters are inserted.
AddLogTransmitStat(a, s) ==
  /\ adding = None /\ Free("rpc")
  /\ s \notin SrcidsOf(a)
  /\ support' = [x \in DOMAIN support \cup {a} |-> SrcidsOf(x) \cup IF x = a THEN {s} ELSE {}]
  /\ adding' = <<a, s>>
  /\ UNCHANGED <<filter, pv, puller, seen, missed>>

InsertCounters ==
  /\ adding # None
  /\ pv' = [k \in DOMAIN pv \cup Counters({adding}) |-> IF k \in DOMAIN pv THEN pv[k] ELSE Empty]
  /\ adding' = None /\ pvmutex' = None
  /\ UNCHANGED <<filter, support, puller, seen, missed>>

\* Skiplist::Search, with 0 where nothing is found, and Skiplist::RangeGet, added up.
CountAt(list, t) == IF t \in DOMAIN list THEN list[t] ELSE 0
SumRange(list, st, ed) == SumFunctionOnSet(list, {t \in DOMAIN list : st <= t /\ t <= ed})

\* GetLogTransmitStat: Cnt looks a single second up and adds a range up, for every
\* counter of an application that is known.  For another one the function ends
\* without a value, and what is answered is undefined.
Cnt(a, st, ed) ==
  [k \in Counters({<<a, s>> : s \in support[a]}) \cap DOMAIN pv |->
     IF st = ed THEN CountAt(pv[k], st) ELSE SumRange(pv[k], st, ed)]

-------------------------------------------------------------------------------
(* The pullers. *)

\* filter and Get_Application: a record that has no application is not counted.
Judge(p, s, o, t) ==
  /\ puller[p] = None /\ s \in filter /\ GetType(s) # None
  /\ RecordsSeen < MaxRecords
  /\ LET key == <<GetType(s), s, o>> IN
       /\ seen' = [seen EXCEPT ![key][t] = @ + 1]
       /\ puller' = [puller EXCEPT ![p] = [key |-> key, at |-> "find", time |-> t, pv |-> 0]]
  /\ UNCHANGED <<filter, counts, missed>>

At(p, where) == puller[p] # None /\ puller[p].at = where

\* Inc looks for the counter without the mutex, and while InsertCounters works
\* on the same map it may not find one that is there.
IncFind(p) ==
  /\ At(p, "find") /\ puller[p].key \in DOMAIN pv
  /\ puller' = [puller EXCEPT ![p].at = "search"]
  /\ UNCHANGED <<filter, counts, seen, missed>>

IncFindNothing(p) ==
  /\ At(p, "find") /\ (puller[p].key \notin DOMAIN pv \/ adding # None)
  /\ puller' = [puller EXCEPT ![p] = None]
  /\ missed' = [missed EXCEPT ![puller[p].key][puller[p].time] = @ + 1]
  /\ UNCHANGED <<filter, counts, seen>>

Searched(p) ==
  [puller EXCEPT ![p].at = "modify", ![p].pv = CountAt(pv[puller[p].key], puller[p].time)]

\* Mutant of IncSearch: the mutex is not taken.
IncSearchUnlocked(p) ==
  /\ At(p, "search")
  /\ puller' = Searched(p)
  /\ UNCHANGED <<filter, counts, seen, missed>>

IncSearch(p) ==
  /\ At(p, "search") /\ Free(p)
  /\ puller' = Searched(p)
  /\ UNCHANGED <<filter, support, pv, adding, seen, missed>>

IncModify(p) ==
  /\ At(p, "modify")
  /\ pv' = [pv EXCEPT ![puller[p].key] =
              [t \in DOMAIN @ \cup {puller[p].time} |->
                 IF t = puller[p].time THEN puller[p].pv + 1 ELSE @[t]]]
  /\ puller' = [puller EXCEPT ![p] = None]
  /\ pvmutex' = None
  /\ UNCHANGED <<filter, support, adding, seen, missed>>

-------------------------------------------------------------------------------
Manage ==
  \/ \E s \in Srcids, op \in BOOLEAN : SetLogFilterConfig(s, op)
  \/ \E a \in Apps, s \in Srcids : AddLogTransmitStat(a, s)
  \/ InsertCounters

Subscribe(p) ==
  \/ \E s \in Srcids, o \in Outcomes, t \in Seconds : Judge(p, s, o, t)
  \/ IncFind(p) \/ IncFindNothing(p) \/ IncSearch(p) \/ IncModify(p)

PvNext == Manage \/ \E p \in Pullers : Subscribe(p)

PvSpec == PvInit /\ [][PvNext]_pvVars

-------------------------------------------------------------------------------
(* Properties. *)

PvTypeOK ==
  /\ filter \subseteq Srcids
  /\ support \in UNION {[d -> SUBSET Srcids] : d \in SUBSET Apps}
  /\ DOMAIN pv \subseteq Key
  /\ \A k \in DOMAIN pv : pv[k] \in [DOMAIN pv[k] -> Nat] /\ DOMAIN pv[k] \subseteq Seconds
  /\ pvmutex \in Pullers \cup {"rpc", None} /\ adding \in (Apps \X Srcids) \cup {None}
  /\ puller \in [Pullers -> Place \cup {None}]
  /\ seen \in [Counted -> [Seconds -> Nat]] /\ missed \in [Counted -> [Seconds -> Nat]]

Under(p, k, t) == puller[p] # None /\ puller[p].key = k /\ puller[p].time = t
Pending(k, t)  == Cardinality({p \in Pullers : Under(p, k, t)})

Done(k, t) == seen[k][t] - missed[k][t] - Pending(k, t)
Sum(k, st, ed) == SumFunctionOnSet([t \in Seconds |-> Done(k, t)],
                                   {t \in Seconds : st <= t /\ t <= ed})

\* However pullers and insertions interleave, a record that passed the filter is
\* counted once, in its second and under its outcome, except when its counter was
\* looked for without the mutex while another was being inserted, and a counter
\* that a management call added counts nothing.
CountsKept ==
  /\ \A k \in Counted, t \in Seconds : CountAt(pv[k], t) = Done(k, t)
  /\ DOMAIN pv = Counted /\ adding = None => \A k \in Counted : missed[k] = Zero
  /\ \A k \in DOMAIN pv \ Counted : pv[k] = Empty

\* Whenever Cnt can have the mutex it tells of every range what has been counted
\* in it.
RangesTold ==
  adding = None /\ pvmutex = None =>
    \A a \in DOMAIN support, st, ed \in Seconds :
      LET told == Cnt(a, st, ed) IN
      \A k \in DOMAIN told : told[k] = IF k \in Counted THEN Sum(k, st, ed) ELSE 0

\* Both: what is told of a range is what passed the filter in it.
CountsExact == CountsKept /\ RangesTold
===============================================================================
