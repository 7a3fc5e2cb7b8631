---------------------------- MODULE ConsistentHash ----------------------------
(***************************************************************************)
(* The ring of common/consistent_hash.cc by which the workers choose the   *)
(* slave of a query.  Its map of virtual nodes is walked by an iterator    *)
(* while it is changed, so a turn of that loop is a step.                  *)
(***************************************************************************)
EXTENDS Lines, Integers, FiniteSetsExt, Functions

CONSTANTS
  Servers, Initial,  \* all servers, and those the ring is made with, in order
  Hashes,            \* the values of the hash function
  Hash,              \* Hash[s]: the hash of each virtual node of s
  MaxServers,        \* bound: the length of servers_
  NoServer

End     == -1        \* end()
Nowhere == -2        \* an iterator moved past end()

\* A hash that is negative is negated, which leaves the least integer as it is.
ASSUME RingAssumption ==
  /\ Hashes \subseteq Int /\ IsFiniteSet(Hashes) /\ End \notin Hashes /\ Nowhere \notin Hashes
  /\ Hash \in [Servers -> Seq(Hashes)] /\ Initial \in Seq(Servers) /\ NoServer \notin Servers

VARIABLES
  ring,      \* server_nodes_vnodes_: the server at each hash that has one
  servers,   \* servers_
  deleting,  \* the server DeleteServerNode was called for
  it,        \* its iterator
  change,    \* history: the last change that was completed
  before     \* history: who answered for each hash before it

ringVars == <<ring, servers, deleting, it, change, before>>

\* The later of two servers whose virtual nodes have the same hash replaces the
\* earlier one.
AddVnodes(r, s) ==
  [h \in DOMAIN r \cup Range(Hash[s]) |-> IF h \in Range(Hash[s]) THEN s ELSE r[h]]

\* The server of the first virtual node at or after the hash.  Past the last one
\* the ring is not closed: any server may be the answer, another every time.
GetServerNode(h) ==
  LET after == {x \in DOMAIN ring : x >= h} IN
  IF after = {} THEN Range(servers) ELSE {ring[Min(after)]}

Answers == [h \in Hashes |-> GetServerNode(h)]

\* The last of the servers the ring is made with that has a virtual node at the hash.
LastPut(h) == Initial[Max({i \in DOMAIN Initial : h \in Range(Hash[Initial[i]])})]

RingInit ==
  /\ ring = [h \in UNION {Range(Hash[s]) : s \in Range(Initial)} |-> LastPut(h)]
  /\ servers = Initial
  /\ deleting = NoServer /\ it = End
  /\ change = NoServer /\ before = Answers

Idle == deleting = NoServer

AddServerNode(s) ==
  /\ Idle /\ Len(servers) < MaxServers
  /\ ring' = AddVnodes(ring, s)
  /\ servers' = Append(servers, s)
  /\ change' = [op |-> "add", server |-> s] /\ before' = Answers
  /\ UNCHANGED <<deleting, it>>

-------------------------------------------------------------------------------
First(r) == IF DOMAIN r = {} THEN End ELSE Min(DOMAIN r)

\* it++.
Successor(r, h) ==
  LET after == {x \in DOMAIN r : x > h} IN
  IF h = End THEN Nowhere ELSE IF after = {} THEN End ELSE Min(after)

DeleteServerNode(s) ==
  /\ Idle
  /\ deleting' = s /\ it' = First(ring) /\ before' = Answers
  /\ UNCHANGED <<ring, servers, change>>

\* Mutants of Erase: the node behind is erased too, and the walk goes on two nodes
\* further.
EraseTwo(h) ==
  LET rest == Restrict(ring, DOMAIN ring \ {h, Successor(ring, h)}) IN
  /\ ring' = rest
  /\ it' = Successor(rest, First(rest))

EraseAndSkip(h) ==
  /\ ring' = Restrict(ring, DOMAIN ring \ {h})
  /\ it' = Successor(ring, Successor(ring, h))

\* After an erasure the iterator is set to begin(), and the loop moves it on.
Erase(h) ==
  LET rest == Restrict(ring, DOMAIN ring \ {h}) IN
  /\ ring' = rest
  /\ it' = Successor(rest, First(rest))

DeleteVnode ==
  /\ ~Idle /\ it \in DOMAIN ring
  /\ IF ring[it] = deleting THEN Erase(it)
     ELSE it' = Successor(ring, it) /\ UNCHANGED ring
  /\ UNCHANGED <<servers, deleting, change, before>>

\* The loop that erases the server from servers_.
Without(s, all) == Only(Range(all) \ {s}, all)

DeleteServer ==
  /\ ~Idle /\ it = End
  /\ servers' = Without(deleting, servers)
  /\ change' = [op |-> "delete", server |-> deleting]
  /\ deleting' = NoServer
  /\ UNCHANGED <<ring, it, before>>

\* The end of an empty map has no successor: the library looks for it for ever.
Spin == ~Idle /\ it = Nowhere /\ UNCHANGED ringVars

RingNext ==
  \/ \E s \in Servers : AddServerNode(s) \/ DeleteServerNode(s)
  \/ DeleteVnode \/ DeleteServer \/ Spin

RingSpec == RingInit /\ [][RingNext]_ringVars

-------------------------------------------------------------------------------
(* Properties. *)

RingTypeOK ==
  /\ ring \in [DOMAIN ring -> Servers] /\ DOMAIN ring \subseteq Hashes
  /\ servers \in Seq(Servers) /\ deleting \in Servers \cup {NoServer}
  /\ it \in Hashes \cup {End, Nowhere}
  /\ change \in [op : {"add", "delete"}, server : Servers] \cup {NoServer}
  /\ before \in [Hashes -> SUBSET Servers]

\* A change of the servers moves only the keys it must: those of the server that
\* is deleted, to others, and some to the server that is added.
OnlyNeededMove ==
  Idle /\ change # NoServer =>
    \A h \in Hashes :
      LET now == GetServerNode(h) IN
      CASE change.op = "add"    -> now \subseteq before[h] \cup {change.server}
        [] change.op = "delete" -> change.server \notin before[h] => now = before[h]

\* When a server has been deleted at most one of its virtual nodes is left, the
\* first of the ring, and a deletion that does not end was of the last server.
DeletedLeavesFirst ==
  /\ Idle /\ change # NoServer /\ change.op = "delete" =>
       \A h \in DOMAIN ring : ring[h] = change.server => h = First(ring)
  /\ it = Nowhere => DOMAIN ring = {}
===============================================================================
