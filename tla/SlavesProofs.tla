----------------------------- MODULE SlavesProofs -----------------------------
(* Theorems about Slaves, for any slaves, senders, records, conditions and      *)
(* requests: what the lists of a slave and of all slaves keep, what is stored   *)
(* of what was answered, and what the alarms, the mails and kuozhao.txt owe to  *)
(* the searches they come from.                                                *)
EXTENDS Slaves, LinesProofs

-------------------------------------------------------------------------------
(* Checklists. *)

Distinct(l) == \A i, j \in DOMAIN l : i # j => l[i].rule # l[j].rule

ListsInv ==
  /\ checklists \in [Slaves -> Seq(Items)]
  /\ tool \in [Tools -> Run \cup {None}]
  /\ NoDuplicateItems

\* An item whose conditions no checklist has is added at the end.
LEMMA AppendKeepsDistinct ==
  ASSUME NEW l \in Seq(Items), NEW item \in Items, Distinct(l),
         \A i \in DOMAIN l : ~SameItem(l[i], item)
  PROVE  Append(l, item) \in Seq(Items) /\ Distinct(Append(l, item))
<1> DEFINE new == Append(l, item)
<1>1. new \in Seq(Items) /\ Len(new) = Len(l) + 1 /\ new[Len(l) + 1] = item
      /\ \A i \in 1..Len(l) : new[i] = l[i]
  OBVIOUS
<1>2. DOMAIN l = 1..Len(l) /\ DOMAIN new = 1..Len(l) + 1 /\ Len(l) \in Nat  BY <1>1
<1>3. ASSUME NEW i \in DOMAIN new, NEW j \in DOMAIN new, i # j
      PROVE  new[i].rule # new[j].rule
  <2> HIDE DEF new
  <2>1. CASE i \in DOMAIN l /\ j \in DOMAIN l  BY <1>1, <1>2, <1>3, <2>1 DEF Distinct
  <2>2. CASE i = Len(l) + 1  BY <1>1, <1>2, <1>3, <2>2 DEF SameItem
  <2>3. CASE j = Len(l) + 1  BY <1>1, <1>2, <1>3, <2>3 DEF SameItem
  <2> QED BY <1>2, <2>1, <2>2, <2>3
<1> QED BY <1>1, <1>3 DEF Distinct

\* What two sequences have, their concatenation has.
LEMMA ConcatMeans ==
  ASSUME NEW S, NEW a \in Seq(S), NEW b \in Seq(S), NEW c, c = a \o b
  PROVE  /\ c \in Seq(S) /\ Len(c) = Len(a) + Len(b)
         /\ \A i \in 1..Len(a) : c[i] = a[i]
         /\ \A i \in 1..Len(b) : c[Len(a) + i] = b[i]
  OBVIOUS

\* The item at an index of the list is taken out, and the others keep their order.
LEMMA RemoveKeepsDistinct ==
  ASSUME NEW l \in Seq(Items), NEW k \in DOMAIN l, Distinct(l)
  PROVE  RemoveAt(l, k) \in Seq(Items) /\ Distinct(RemoveAt(l, k))
<1> DEFINE new    == RemoveAt(l, k)
           before == SubSeq(l, 1, k - 1)
           after  == SubSeq(l, k + 1, Len(l))
           old(i) == IF i < k THEN i ELSE i + 1
<1>1. Len(l) \in Nat /\ DOMAIN l = 1..Len(l) /\ k \in 1..Len(l)  OBVIOUS
<1>2. before \in Seq(Items) /\ Len(before) = k - 1 /\ \A i \in 1..k - 1 : before[i] = l[i]
  BY <1>1
<1>3. after \in Seq(Items) /\ Len(after) = Len(l) - k
      /\ \A i \in 1..Len(l) - k : after[i] = l[k + i]
  BY <1>1
<1>4. new = before \o after  BY DEF RemoveAt
<1> HIDE DEF new, before, after
<1>5. /\ new \in Seq(Items) /\ Len(new) = Len(l) - 1
      /\ \A i \in 1..k - 1 : new[i] = l[i]
      /\ \A i \in 1..Len(l) - k : new[k - 1 + i] = l[k + i]
  <2>1. /\ new \in Seq(Items) /\ Len(new) = Len(before) + Len(after)
        /\ \A i \in 1..Len(before) : new[i] = before[i]
        /\ \A i \in 1..Len(after) : new[Len(before) + i] = after[i]
    <3>1. before \in Seq(Items) /\ after \in Seq(Items)  BY <1>2, <1>3
    <3> QED BY ONLY <1>4, <3>1, ConcatMeans
  <2>2. Len(before) = k - 1 /\ Len(after) = Len(l) - k  BY <1>2, <1>3
  <2>3. ASSUME NEW i \in 1..k - 1 PROVE new[i] = l[i]  BY <1>2, <2>1, <2>2
  <2>4. ASSUME NEW i \in 1..Len(l) - k PROVE new[k - 1 + i] = l[k + i]
    <3>1. new[Len(before) + i] = after[i]  BY ONLY <2>1, <2>2, <2>4
    <3>2. after[i] = l[k + i]  BY <1>3
    <3> QED BY <2>2, <3>1, <3>2
  <2>5. Len(new) = Len(l) - 1  BY <1>1, <2>1, <2>2
  <2> QED BY <2>1, <2>3, <2>4, <2>5
<1>6. DOMAIN new = 1..Len(l) - 1  BY <1>1, <1>5
<1>7. ASSUME NEW i \in DOMAIN new
      PROVE  old(i) \in DOMAIN l /\ new[i] = l[old(i)]
  <2>1. CASE i < k  BY <1>1, <1>5, <1>6, <2>1
  <2>2. CASE i >= k
    <3>1. i - (k - 1) \in 1..Len(l) - k /\ k - 1 + (i - (k - 1)) = i
          /\ k + (i - (k - 1)) = i + 1
      BY <1>1, <1>6, <2>2
    <3>2. new[i] = l[i + 1]  BY <1>5, <3>1
    <3> QED BY <1>1, <1>6, <2>2, <3>2
  <2> QED BY <1>1, <1>6, <2>1, <2>2
<1>8. ASSUME NEW i \in DOMAIN new, NEW j \in DOMAIN new, i # j
      PROVE  new[i].rule # new[j].rule
  <2>1. old(i) # old(j)  BY <1>1, <1>6, <1>8
  <2> HIDE DEF old
  <2> QED BY <1>7, <1>8, <2>1 DEF Distinct
<1>9. new \in Seq(Items) /\ Distinct(new)  BY <1>5, <1>8 DEF Distinct
<1> QED BY <1>9 DEF new

\* No call changes the list of another slave, and this one gets an item that no
\* other of its items equals, or loses one, or stays.
LEMMA SetKeepsDistinct ==
  ASSUME SlavesAssumption, ListsInv, NEW s \in Slaves, NEW r \in Requests,
         SetCheckListConfig(s, r)
  PROVE  checklists' \in [Slaves -> Seq(Items)] /\ NoDuplicateItems'
<1> DEFINE l == checklists[s]
           new == CASE r.op = "add" -> IF \E i \in DOMAIN l : SameItem(l[i], r.item) THEN l
                                       ELSE Append(l, r.item)
                    [] r.op = "del" -> IF r.index \in DOMAIN l THEN RemoveAt(l, r.index) ELSE l
<1>1. checklists' = [checklists EXCEPT ![s] = new]  BY DEF SetCheckListConfig
<1>2. l \in Seq(Items) /\ Distinct(l)  BY DEF ListsInv, NoDuplicateItems, Distinct
<1>3. \/ r.op = "add" /\ r.item \in Items
      \/ r.op = "del" /\ r.index \in Nat
  BY DEF SlavesAssumption
<1> HIDE DEF l
<1>4. new \in Seq(Items) /\ Distinct(new)
  <2>1. CASE r.op = "add" /\ r.item \in Items  BY <1>2, <2>1, AppendKeepsDistinct
  <2>2. CASE r.op = "del" /\ r.index \in Nat  BY <1>2, <2>2, RemoveKeepsDistinct
  <2> QED BY <1>3, <2>1, <2>2
<1> HIDE DEF new
<1>5. checklists' \in [Slaves -> Seq(Items)]  BY <1>1, <1>4 DEF ListsInv
<1>6. ASSUME NEW x \in Slaves PROVE Distinct(checklists'[x])
  <2>1. CASE x = s  BY <1>1, <1>4, <2>1 DEF ListsInv
  <2>2. CASE x # s  BY <1>1, <2>2 DEF ListsInv, NoDuplicateItems, Distinct
  <2> QED BY <2>1, <2>2
<1> QED BY <1>5, <1>6 DEF NoDuplicateItems, Distinct

\* A step that leaves the lists, the runs and the bounds on them alone.
LEMMA ListsUntouched ==
  ASSUME ListsInv, UNCHANGED <<checklists, tool>>
  PROVE  ListsInv'
BY DEF ListsInv, NoDuplicateItems

\* Only Configure and Start touch the checklists.
LEMMA WorkKeepsLists ==
  ASSUME Work PROVE UNCHANGED <<checklists, tool>>
<1>1. ASSUME NEW s \in Slaves, Receipt(s) PROVE UNCHANGED <<checklists, tool>>
  BY <1>1 DEF Receipt, Storage, Stat, Receive, lists
<1>2. ASSUME NEW s \in Slaves, NEW t \in Senders, Sender(s, t)
      PROVE  UNCHANGED <<checklists, tool>>
  BY <1>2 DEF Sender, Take, PostFails, InitFails, PostReturns, Post, lists
<1>3. ASSUME NEW p \in Posts, Handler(p) PROVE UNCHANGED <<checklists, tool>>
  BY <1>3 DEF Handler, AskSlave, AskFails, JudgeQueryTrie, Seek, WriteAt, OpenFails, lists
<1> QED BY <1>1, <1>2, <1>3 DEF Work

\* A result that came in, or a call that was handled, leaves a run what it is.
LEMMA ResultsKeepRuns ==
  ASSUME NEW t \in Tools, NEW s, tool \in [Tools -> Run \cup {None}], tool[t] \in Run,
         \/ tool' = [tool EXCEPT ![t].open = @ \ {s}, ![t].waiting = @ \ {s}]
         \/ tool' = [tool EXCEPT ![t].waiting = @ \ {s}, ![t].open = @ \ {s}]
         \/ tool' = [tool EXCEPT ![t].open = @ \ {s}]
         \/ tool' = [tool EXCEPT ![t].waiting = @ \ {s}]
  PROVE  tool' \in [Tools -> Run \cup {None}]
<1> DEFINE r == tool[t]
<1>1. PICK w \in SUBSET Slaves, o \in SUBSET Slaves :
        tool' = [tool EXCEPT ![t] = [req |-> r.req, waiting |-> w, open |-> o]]
  <2>1. r = [req |-> r.req, waiting |-> r.waiting, open |-> r.open]
        /\ r.waiting \subseteq Slaves /\ r.open \subseteq Slaves
    BY DEF Run
  <2>2. \E w \in {r.waiting, r.waiting \ {s}}, o \in {r.open, r.open \ {s}} :
          tool' = [tool EXCEPT ![t] = [req |-> r.req, waiting |-> w, open |-> o]]
    BY <2>1
  <2> QED BY <2>1, <2>2
<1>2. [req |-> r.req, waiting |-> w, open |-> o] \in Run  BY DEF Run
<1> QED BY <1>1, <1>2

\* Every step keeps the invariant of the checklists.
LEMMA ListsStep ==
  ASSUME SlavesAssumption, ListsInv, [Next]_vars
  PROVE  ListsInv'
<1>1. CASE Work  BY <1>1, WorkKeepsLists, ListsUntouched
<1>2. ASSUME NEW t \in Tools, NEW r \in Requests, MultiSet(t, r) PROVE ListsInv'
  BY <1>2 DEF MultiSet, ListsInv, Run, NoDuplicateItems
<1>3. ASSUME NEW t \in Tools, NEW s \in Slaves, SetReaches(t, s) PROVE ListsInv'
  <2>1. tool[t] \in Run /\ tool[t].req \in Requests
    BY <1>3 DEF SetReaches, ListsInv, Run
  <2>2. checklists' \in [Slaves -> Seq(Items)] /\ NoDuplicateItems'
    BY <1>3, <2>1, SetKeepsDistinct DEF SetReaches
  <2>3. tool' \in [Tools -> Run \cup {None}]
    BY <1>3, <2>1, ResultsKeepRuns DEF SetReaches, ListsInv
  <2> QED BY <2>2, <2>3 DEF ListsInv
<1>4. ASSUME NEW t \in Tools, NEW s \in Slaves, SetFails(t, s) PROVE ListsInv'
  <2>1. tool' \in [Tools -> Run \cup {None}]
    <3>1. tool[t] \in Run  BY <1>4 DEF SetFails, Running, ListsInv
    <3> QED BY <1>4, <3>1, ResultsKeepRuns DEF SetFails, ListsInv
  <2> QED BY <1>4, <2>1 DEF SetFails, ListsInv, NoDuplicateItems
<1>5. ASSUME NEW s \in Slaves, Die(s) PROVE ListsInv'
  BY <1>5, ListsUntouched DEF Die
<1>6. ASSUME NEW s \in Slaves, Start(s) PROVE ListsInv'
  <2>1. <<>> \in Seq(Items) /\ Distinct(<<>>)  BY DEF Distinct
  <2>2. checklists' = [checklists EXCEPT ![s] = <<>>] /\ tool' = tool  BY <1>6 DEF Start
  <2>3. checklists' \in [Slaves -> Seq(Items)]  BY <2>1, <2>2 DEF ListsInv
  <2>4. ASSUME NEW x \in Slaves PROVE Distinct(checklists'[x])
    BY <2>1, <2>2 DEF ListsInv, NoDuplicateItems, Distinct
  <2> QED BY <2>2, <2>3, <2>4 DEF ListsInv, NoDuplicateItems, Distinct
<1>7. CASE UNCHANGED vars  BY <1>7, ListsUntouched DEF vars, lists
<1> QED BY <1>1, <1>2, <1>3, <1>4, <1>5, <1>6, <1>7 DEF Next, Configure

\* Every slave begins with the same checklists, of different conditions.
LEMMA InitLists ==
  ASSUME SlavesAssumption, Init PROVE ListsInv
<1>1. \A s \in Slaves : checklists[s] = First  BY DEF Init
<1>2. NoDuplicateItems  BY <1>1 DEF NoDuplicateItems, SlavesAssumption
<1>3. checklists \in [Slaves -> Seq(Items)] /\ tool \in [Tools -> Run \cup {None}]
  BY DEF Init, SlavesAssumption
<1> QED BY <1>2, <1>3 DEF ListsInv

\* No slave has two checklists with the same conditions, whatever calls meet, fail
\* or are handled after their caller has given up, and whatever slave dies.
THEOREM ChecklistsDistinct == Spec => []NoDuplicateItems
<1>1. Init => ListsInv  BY SlavesAssumption, InitLists
<1>2. ListsInv /\ [Next]_vars => ListsInv'  BY SlavesAssumption, ListsStep
<1>3. ListsInv => NoDuplicateItems  BY DEF ListsInv
<1> QED BY <1>1, <1>2, <1>3, PTL DEF Spec

-------------------------------------------------------------------------------
(* Alarms.  What is counted, added up for a request or told in a mail goes back *)
(* to a search without result.                                                  *)

AlarmTypes ==
  /\ rpc \in [Slaves -> [rec : Records, at : {"store", "stat"}] \cup {None}]
  /\ line \in [Slaves -> Seq(Task)]
  /\ send \in [Slaves -> [Senders -> Sending \cup {None}]]
  /\ post \in [Posts -> Request \cup {None}]
  /\ counts \in [Slaves -> [Hashes -> Nat]]
  /\ mails \in [Records -> Nat]

CountHasMiss == \A s \in Slaves, h \in Hashes : counts[s][h] > 0 => h \in missed

SumHasMiss ==
  \A p \in Posts : post[p] # None /\ post[p].cnt > 0 => Hash[post[p].task.rec] \in missed

\* A post is of a task whose record has a hash, and so is what a thread has in hand.
LEMMA TaskHasHash ==
  ASSUME SlavesAssumption, NEW task \in Task PROVE Hash[task.rec] \in Hashes
BY DEF SlavesAssumption, Task

\* Receive adds tasks about its record.
LEMMA ReceiveTypes ==
  ASSUME ListsInv, AlarmTypes, NEW s \in Slaves, NEW m \in Records, Receive(s, m)
  PROVE  AlarmTypes'
<1> DEFINE met   == {i \in DOMAIN checklists[s] : m \in Catches[checklists[s][i].rule]}
           n     == Cardinality(met)
           tasks == [i \in 1..n |-> [kind |-> "alarm", rec |-> m]]
<1>1. n \in Nat
  <2>1. checklists[s] \in Seq(Items)  BY DEF ListsInv
  <2>2. DOMAIN checklists[s] = 1..Len(checklists[s]) /\ Len(checklists[s]) \in Nat  BY <2>1
  <2>3. IsFiniteSet(1..Len(checklists[s]))  BY <2>2, FS_Interval
  <2>4. met \in SUBSET (1..Len(checklists[s]))  BY <2>2
  <2> QED BY <2>3, <2>4, FS_Subset, FS_CardinalityType
<1>2. line' = [line EXCEPT ![s] = @ \o tasks]  BY DEF Receive, CheckAbnormal
<1> HIDE DEF n
<1>3. tasks \in Seq(Task)  BY <1>1 DEF Task
<1> HIDE DEF tasks
<1>4. line[s] \o tasks \in Seq(Task)  BY <1>3 DEF AlarmTypes
<1>5. line' \in [Slaves -> Seq(Task)]  BY <1>2, <1>4 DEF AlarmTypes
<1>6. rpc' \in [Slaves -> [rec : Records, at : {"store", "stat"}] \cup {None}]
  BY DEF Receive, AlarmTypes
<1> QED BY <1>5, <1>6 DEF Receive, AlarmTypes, alarms, platform

AlarmInv == AlarmTypes /\ CountHasMiss /\ SumHasMiss /\ MailHasMiss

\* A step after which at least the same searches have had no result, and which
\* leaves the counts, the sums and the mails alone.
LEMMA MissesStay ==
  ASSUME AlarmInv, missed \subseteq missed', UNCHANGED <<post, counts, mails>>
  PROVE  CountHasMiss' /\ SumHasMiss' /\ MailHasMiss'
BY DEF AlarmInv, CountHasMiss, SumHasMiss, MailHasMiss

\* DataReceive counts a query when it notes the search without result, or later.
LEMMA ReceiptKeepsAlarms ==
  ASSUME SlavesAssumption, ListsInv, AlarmInv, NEW s \in Slaves, Receipt(s)
  PROVE  AlarmInv'
<1>1. ASSUME NEW m \in Records, Receive(s, m) PROVE AlarmInv'
  <2>1. AlarmTypes'  BY <1>1, ReceiveTypes DEF AlarmInv
  <2>2. UNCHANGED <<missed, post, counts, mails>>  BY <1>1 DEF Receive, platform
  <2> QED BY <2>1, <2>2, MissesStay DEF AlarmInv
<1>2. CASE Storage(s)
  <2>1. UNCHANGED <<missed, post, counts, mails, line, send>>
    BY <1>2 DEF Storage, platform, alarms
  <2>2. rpc' \in [Slaves -> [rec : Records, at : {"store", "stat"}] \cup {None}]
    <3>1. rpc[s] \in [rec : Records, at : {"store", "stat"}]
      BY <1>2 DEF Storage, AtStep, AlarmInv, AlarmTypes
    <3>2. [rpc[s] EXCEPT !.at = "stat"] \in [rec : Records, at : {"store", "stat"}]  BY <3>1
    <3>3. rpc' = [rpc EXCEPT ![s] = [rpc[s] EXCEPT !.at = "stat"]]  BY <1>2 DEF Storage
    <3> QED BY <3>2, <3>3 DEF AlarmInv, AlarmTypes
  <2> QED BY <2>1, <2>2, MissesStay DEF AlarmInv, AlarmTypes
<1>3. CASE Stat(s)
  <2> DEFINE m == rpc[s].rec
  <2>1. m \in Records /\ Hash[m] \in Hashes
    BY <1>3 DEF Stat, AtStep, AlarmInv, AlarmTypes, SlavesAssumption
  <2>2. missed' = IF m \in Empty \ Weather THEN missed \cup {Hash[m]} ELSE missed
    BY <1>3 DEF Stat
  <2>3. counts' = IF m \in Weather \/ m \notin Empty THEN counts
                  ELSE [counts EXCEPT ![s][Hash[m]] = @ + 1]
    BY <1>3 DEF Stat, UpdataQueryFreqStat
  <2>4. UNCHANGED <<post, mails, send>>  BY <1>3 DEF Stat, platform
  <2>5. \/ line' = line
        \/ line' = [line EXCEPT ![s] = Append(@, [kind |-> "kuozhao", rec |-> m])]
    BY <1>3 DEF Stat
  <2>6. rpc' = [rpc EXCEPT ![s] = None]  BY <1>3 DEF Stat
  <2> HIDE DEF m
  <2>7. counts' \in [Slaves -> [Hashes -> Nat]]  BY <2>1, <2>3 DEF AlarmInv, AlarmTypes
  <2>8. line' \in [Slaves -> Seq(Task)]
    <3>1. [kind |-> "kuozhao", rec |-> m] \in Task  BY <2>1 DEF Task
    <3>2. Append(line[s], [kind |-> "kuozhao", rec |-> m]) \in Seq(Task)
      BY <3>1 DEF AlarmInv, AlarmTypes
    <3> QED BY <2>5, <3>2 DEF AlarmInv, AlarmTypes
  <2>9. AlarmTypes'  BY <2>4, <2>6, <2>7, <2>8 DEF AlarmInv, AlarmTypes
  <2>10. SumHasMiss' /\ MailHasMiss'  BY <2>2, <2>4 DEF AlarmInv, SumHasMiss, MailHasMiss
  <2>11. CountHasMiss'
    <3> SUFFICES ASSUME NEW x \in Slaves, NEW h \in Hashes, counts'[x][h] > 0
                 PROVE  h \in missed'
      BY DEF CountHasMiss
    <3>1. CASE counts[x][h] > 0  BY <2>2, <3>1 DEF AlarmInv, CountHasMiss
    <3>2. CASE m \in Empty \ Weather /\ x = s /\ h = Hash[m]  BY <2>2, <3>2
    <3> QED BY <2>1, <2>3, <3>1, <3>2 DEF AlarmInv, AlarmTypes
  <2> QED BY <2>9, <2>10, <2>11 DEF AlarmInv
<1> QED BY <1>1, <1>2, <1>3 DEF Receipt

\* What a thread can have in hand.
LEMMA JobIsSending ==
  ASSUME NEW task \in Task, NEW at \in {"post", "wait", "done"},
         NEW left \in 0..MaxTries, NEW of \in Posts \cup {None}
  PROVE  Job(task, left, at, of) \in Sending
BY DEF Sending, Job

\* A thread has a task and tries left.
LEMMA SendingMeans ==
  ASSUME NEW job \in Sending PROVE job.task \in Task /\ job.left \in 0..MaxTries
BY DEF Sending

\* A step that moves one thread of one slave.
LEMMA OneSenderMoves ==
  ASSUME AlarmInv, NEW s \in Slaves, NEW t \in Senders, NEW job \in Sending \cup {None},
         send' = [send EXCEPT ![s][t] = job]
  PROVE  send' \in [Slaves -> [Senders -> Sending \cup {None}]]
BY DEF AlarmInv, AlarmTypes

\* An alarm thread changes no count, and its request begins with the sum 0.
LEMMA SenderKeepsAlarms ==
  ASSUME SlavesAssumption, AlarmInv, NEW s \in Slaves, NEW t \in Senders, Sender(s, t)
  PROVE  AlarmInv'
<1> DEFINE job == send[s][t]
<1>1. CASE Take(s, t)
  <2> DEFINE new == Job(Head(line[s]), MaxTries, "post", None)
  <2>1. send' = [send EXCEPT ![s][t] = new] /\ line' = [line EXCEPT ![s] = Tail(@)]
    BY <1>1 DEF Take
  <2>2. Head(line[s]) \in Task /\ Tail(line[s]) \in Seq(Task)
    BY <1>1 DEF Take, AlarmInv, AlarmTypes
  <2>3. new \in Sending  BY <2>2, JobIsSending DEF SlavesAssumption
  <2>4. send' \in [Slaves -> [Senders -> Sending \cup {None}]]
    BY <2>1, <2>3, OneSenderMoves
  <2>5. line' \in [Slaves -> Seq(Task)]  BY <2>1, <2>2 DEF AlarmInv, AlarmTypes
  <2>6. UNCHANGED <<rpc, missed, post, counts, mails>>  BY <1>1 DEF Take, receipt, platform
  <2> QED BY <2>4, <2>5, <2>6, MissesStay DEF AlarmInv, AlarmTypes
<1>2. CASE PostFails(s, t)
  <2>1. UNCHANGED <<rpc, line, missed, post, counts, mails>>
    BY <1>2 DEF PostFails, receipt, platform
  <2>2. job \in Sending  BY <1>2 DEF PostFails, Has, AlarmInv, AlarmTypes
  <2>3. PICK new \in Sending \cup {None} : send' = [send EXCEPT ![s][t] = new]
    <3>1. CASE Retries(job)
      <4>1. job.task \in Task /\ job.left - 1 \in 0..MaxTries
        BY <2>2, <3>1, SendingMeans DEF Retries, SlavesAssumption
      <4>2. send' = [send EXCEPT ![s][t] = Job(job.task, job.left - 1, "post", None)]
        BY <1>2, <3>1 DEF PostFails, LessOne
      <4> QED BY <4>1, <4>2, JobIsSending
    <3>2. CASE ~Retries(job)  BY <1>2, <3>2 DEF PostFails
    <3> QED BY <3>1, <3>2
  <2>4. send' \in [Slaves -> [Senders -> Sending \cup {None}]]  BY <2>3, OneSenderMoves
  <2> QED BY <2>1, <2>4, MissesStay DEF AlarmInv, AlarmTypes
<1>3. CASE InitFails(s, t) \/ PostReturns(s, t)
  <2>1. UNCHANGED <<rpc, line, missed, post, counts, mails>>
    BY <1>3 DEF InitFails, PostReturns, receipt, platform
  <2>2. send' \in [Slaves -> [Senders -> Sending \cup {None}]]
    BY <1>3, OneSenderMoves DEF InitFails, PostReturns
  <2> QED BY <2>1, <2>2, MissesStay DEF AlarmInv, AlarmTypes
<1>4. ASSUME NEW p \in Posts, Post(s, t, p) PROVE AlarmInv'
  <2>1. UNCHANGED <<rpc, line, missed, counts, mails>>  BY <1>4 DEF Post, receipt
  <2>2. job \in Sending /\ job.task \in Task
    BY <1>4 DEF Post, Has, AlarmInv, AlarmTypes, Sending
  <2>3. PICK new \in Request : post' = [post EXCEPT ![p] = new] /\ new.cnt = 0
    <3> DEFINE known == \E x \in up : counts[x][Hash[job.task.rec]] > 0
               new   == [task |-> job.task,
                         waiting |-> IF job.task.kind = "alarm" THEN Slaves ELSE {},
                         cnt |-> 0, at |-> -1, known |-> known, broken |-> FALSE]
    <3>1. post' = [post EXCEPT ![p] = new]  BY <1>4 DEF Post
    <3>2. known \in BOOLEAN  OBVIOUS
    <3> HIDE DEF known
    <3>3. new \in Request  BY <2>2, <3>2 DEF Request
    <3> QED BY <3>1, <3>3
  <2>4. send' = [send EXCEPT ![s][t] = Job(job.task, job.left, "wait", p)]
    BY <1>4 DEF Post
  <2>5. send' \in [Slaves -> [Senders -> Sending \cup {None}]]
    BY <2>2, <2>4, SendingMeans, JobIsSending, OneSenderMoves
  <2>6. AlarmTypes'  BY <2>1, <2>3, <2>5 DEF AlarmInv, AlarmTypes
  <2>7. SumHasMiss'
    BY <2>1, <2>3 DEF AlarmInv, AlarmTypes, SumHasMiss
  <2> QED BY <2>1, <2>6, <2>7 DEF AlarmInv, CountHasMiss, MailHasMiss
<1> QED BY <1>1, <1>2, <1>3, <1>4 DEF Sender

\* An answer moves the thread that waits for it, and gives it no other task.
LEMMA AnswerKeepsSends ==
  ASSUME AlarmInv, NEW p \in Posts, Answer(p)
  PROVE  send' \in [Slaves -> [Senders -> Sending \cup {None}]]
<1> SUFFICES ASSUME NEW s \in Slaves, NEW t \in Senders
             PROVE  (IF send[s][t] # None /\ send[s][t].at = "wait" /\ send[s][t].of = p
                       THEN [send[s][t] EXCEPT !.at = "done"] ELSE send[s][t])
                      \in Sending \cup {None}
  BY DEF Answer
<1>1. ASSUME NEW job \in Sending PROVE [job EXCEPT !.at = "done"] \in Sending
  <2>1. job = Job(job.task, job.left, job.at, job.of)  BY DEF Sending, Job
  <2>2. [job EXCEPT !.at = "done"] = Job(job.task, job.left, "done", job.of)
    BY <2>1 DEF Job
  <2> QED BY <2>2, SendingMeans, JobIsSending DEF Sending
<1> QED BY <1>1 DEF AlarmInv, AlarmTypes

\* A request at the end of whose work nothing is left of it.
LEMMA RequestEnds ==
  ASSUME AlarmInv, NEW p \in Posts, post' = [post EXCEPT ![p] = None]
  PROVE  /\ post' \in [Posts -> Request \cup {None}]
         /\ missed' = missed => SumHasMiss'
BY DEF AlarmInv, AlarmTypes, SumHasMiss

\* A request is all that the platform keeps of it.
LEMMA RequestMeans ==
  ASSUME NEW r \in Request
  PROVE  /\ r = [task |-> r.task, waiting |-> r.waiting, cnt |-> r.cnt, at |-> r.at,
                 known |-> r.known, broken |-> r.broken]
         /\ r.task \in Task /\ r.waiting \subseteq Slaves /\ r.cnt \in Nat
         /\ r.at \in Int /\ r.broken \in BOOLEAN
BY DEF Request

\* A request after a step of its handler: the slaves not yet heard of, the sum, the
\* place in the file and whether something failed may be others.
Handled(r, w, c, a, b) ==
  [task |-> r.task, waiting |-> w, cnt |-> c, at |-> a, known |-> r.known, broken |-> b]

LEMMA HandledMeans ==
  ASSUME NEW r \in Request, NEW x, NEW y, NEW lost \in BOOLEAN
  PROVE  /\ [r EXCEPT !.waiting = x, !.cnt = y] = Handled(r, x, y, r.at, r.broken)
         /\ [r EXCEPT !.waiting = x, !.broken = lost] = Handled(r, x, r.cnt, r.at, lost)
         /\ [r EXCEPT !.at = x] = Handled(r, r.waiting, r.cnt, x, r.broken)
<1>1. r = [task |-> r.task, waiting |-> r.waiting, cnt |-> r.cnt, at |-> r.at,
           known |-> r.known, broken |-> r.broken]
  BY RequestMeans
<1> DEFINE r1 == Handled(r, x, r.cnt, r.at, r.broken)
<1>5. [r EXCEPT !.waiting = x] = r1  BY <1>1 DEF Handled
<1>6. [r1 EXCEPT !.cnt = y] = Handled(r, x, y, r.at, r.broken)  BY DEF Handled
<1>7. [r1 EXCEPT !.broken = lost] = Handled(r, x, r.cnt, r.at, lost)  BY DEF Handled
<1> HIDE DEF r1
<1>2. [r EXCEPT !.waiting = x, !.cnt = y] = Handled(r, x, y, r.at, r.broken)
  BY <1>5, <1>6
<1>3. [r EXCEPT !.waiting = x, !.broken = lost] = Handled(r, x, r.cnt, r.at, lost)
  BY <1>5, <1>7
<1>4. [r EXCEPT !.at = x] = Handled(r, r.waiting, r.cnt, x, r.broken)
  BY <1>1 DEF Handled
<1> QED BY <1>2, <1>3, <1>4

\* A handler's sum that is not 0 goes back to a search without result, if it did
\* before the step and what the step adds does.
LEMMA RequestGoesOn ==
  ASSUME AlarmInv, NEW p \in Posts, NEW r \in Request, r = post[p],
         NEW w \in SUBSET Slaves, NEW c \in Nat, NEW a \in Int, NEW b \in BOOLEAN,
         post' = [post EXCEPT ![p] = Handled(r, w, c, a, b)],
         missed' = missed, c > 0 => Hash[r.task.rec] \in missed
  PROVE  post' \in [Posts -> Request \cup {None}] /\ SumHasMiss'
<1> DEFINE new == Handled(r, w, c, a, b)
<1>1. new \in Request /\ new.task = r.task /\ new.cnt = c  BY DEF Request, Handled
<1>2. post' = [post EXCEPT ![p] = new]  OBVIOUS
<1> HIDE DEF new
<1>3. post' \in [Posts -> Request \cup {None}]  BY <1>1, <1>2 DEF AlarmInv, AlarmTypes
<1>4. ASSUME NEW q \in Posts, post'[q] # None, post'[q].cnt > 0
      PROVE  Hash[post'[q].task.rec] \in missed'
  <2>1. CASE q # p  BY <1>2, <1>4, <2>1 DEF AlarmInv, AlarmTypes, SumHasMiss
  <2>2. CASE q = p  BY <1>1, <1>2, <1>4, <2>2 DEF AlarmInv, AlarmTypes
  <2> QED BY <2>1, <2>2
<1> QED BY <1>3, <1>4 DEF SumHasMiss

\* The platform adds what a slave has counted, which a search without result is
\* behind, and mails when the sum is not 0.
LEMMA HandlerKeepsAlarms ==
  ASSUME SlavesAssumption, AlarmInv, file \in Seq(Hashes), NEW p \in Posts, Handler(p)
  PROVE  AlarmInv'
<1> DEFINE r == post[p]
<1>1. ASSUME NEW s \in Slaves, AskSlave(p, s) PROVE AlarmInv'
  <2>1. UNCHANGED <<rpc, line, send, missed, counts, mails>>
    BY <1>1 DEF AskSlave, receipt, alarms
  <2>2. r \in Request /\ r # None  BY <1>1 DEF AskSlave, Serving, AlarmInv, AlarmTypes
  <2> DEFINE n == counts[s][Hash[r.task.rec]]
  <2>3. n \in Nat /\ (n > 0 => Hash[r.task.rec] \in missed)
    <3>1. Hash[r.task.rec] \in Hashes  BY <2>2, RequestMeans, TaskHasHash
    <3> QED BY <3>1 DEF AlarmInv, AlarmTypes, CountHasMiss
  <2>4. post' = [post EXCEPT ![p] = [r EXCEPT !.waiting = @ \ {s}, !.cnt = @ + n]]
    BY <1>1, <2>2 DEF AskSlave, AddCount, AlarmInv, AlarmTypes
  <2>5. post' = [post EXCEPT ![p] = Handled(r, r.waiting \ {s}, r.cnt + n, r.at, r.broken)]
    BY <2>2, <2>4, HandledMeans
  <2>6. post' \in [Posts -> Request \cup {None}] /\ SumHasMiss'
    <3>1. r.waiting \ {s} \in SUBSET Slaves /\ r.at \in Int /\ r.broken \in BOOLEAN
          /\ r.cnt \in Nat
      BY <2>2, RequestMeans
    <3>2. r.cnt > 0 => Hash[r.task.rec] \in missed  BY <2>2 DEF AlarmInv, SumHasMiss
    <3> HIDE DEF n
    <3>3. r.cnt + n \in Nat /\ (r.cnt + n > 0 => Hash[r.task.rec] \in missed)
      BY <2>3, <3>1, <3>2
    <3>4. missed' = missed  BY <2>1
    <3> QED BY <2>2, <2>5, <3>1, <3>3, <3>4, RequestGoesOn
  <2> QED BY <2>1, <2>6 DEF AlarmInv, AlarmTypes, CountHasMiss, MailHasMiss
<1>2. ASSUME NEW s \in Slaves, AskFails(p, s) PROVE AlarmInv'
  <2>1. UNCHANGED <<rpc, line, send, missed, counts, mails>>
    BY <1>2 DEF AskFails, receipt, alarms
  <2>2. r \in Request /\ r # None  BY <1>2 DEF AskFails, Serving, AlarmInv, AlarmTypes
  <2>3. PICK lost \in BOOLEAN :
          post' = [post EXCEPT ![p] = [r EXCEPT !.waiting = @ \ {s}, !.broken = lost]]
    BY <1>2, <2>2 DEF AskFails, AlarmInv, AlarmTypes
  <2>4. post' = [post EXCEPT ![p] = Handled(r, r.waiting \ {s}, r.cnt, r.at, lost)]
    <3>1. [r EXCEPT !.waiting = r.waiting \ {s}, !.broken = lost]
            = Handled(r, r.waiting \ {s}, r.cnt, r.at, lost)
      BY <2>2, HandledMeans
    <3> QED BY <2>3, <3>1
  <2>5. post' \in [Posts -> Request \cup {None}] /\ SumHasMiss'
    <3>1. r.waiting \ {s} \in SUBSET Slaves /\ r.at \in Int /\ r.cnt \in Nat
      BY <2>2, RequestMeans
    <3>2. r.cnt > 0 => Hash[r.task.rec] \in missed  BY <2>2 DEF AlarmInv, SumHasMiss
    <3>3. missed' = missed  BY <2>1
    <3> QED BY <2>2, <2>4, <3>1, <3>2, <3>3, RequestGoesOn
  <2> QED BY <2>1, <2>5 DEF AlarmInv, AlarmTypes, CountHasMiss, MailHasMiss
<1>3. CASE JudgeQueryTrie(p)
  <2>1. UNCHANGED <<rpc, line, missed, counts>>  BY <1>3 DEF JudgeQueryTrie, receipt
  <2>2. post' \in [Posts -> Request \cup {None}] /\ SumHasMiss'
    BY <1>3, <2>1, RequestEnds DEF JudgeQueryTrie
  <2>3. send' \in [Slaves -> [Senders -> Sending \cup {None}]]
    BY <1>3, AnswerKeepsSends DEF JudgeQueryTrie
  <2>4. r # None /\ r.task.rec \in Records
    <3>1. r \in Request /\ r # None
      BY <1>3 DEF JudgeQueryTrie, Serving, AlarmInv, AlarmTypes
    <3> QED BY <3>1, RequestMeans DEF Task
  <2> DEFINE m == r.task.rec
  <2>5. mails' = IF r.cnt > 0 THEN [mails EXCEPT ![m] = @ + 1] ELSE mails
    BY <1>3 DEF JudgeQueryTrie
  <2>6. r.cnt > 0 => Hash[m] \in missed  BY <2>4 DEF AlarmInv, SumHasMiss
  <2> HIDE DEF m
  <2>7. mails' \in [Records -> Nat]
    <3>1. m \in Records  BY <2>4 DEF m
    <3> QED BY <2>5, <3>1 DEF AlarmInv, AlarmTypes
  <2>8. MailHasMiss'
    BY <2>1, <2>5, <2>6 DEF AlarmInv, AlarmTypes, MailHasMiss
  <2> QED BY <2>1, <2>2, <2>3, <2>7, <2>8 DEF AlarmInv, AlarmTypes, CountHasMiss
<1>4. CASE Seek(p)
  <2>1. UNCHANGED <<rpc, line, send, missed, counts, mails>>
    BY <1>4 DEF Seek, receipt, alarms
  <2>2. r \in Request /\ r # None  BY <1>4 DEF Seek, Serving, AlarmInv, AlarmTypes
  <2>3. post' = [post EXCEPT ![p] = [r EXCEPT !.at = Len(file)]]
    BY <1>4, <2>2 DEF Seek, AlarmInv, AlarmTypes
  <2>4. post' = [post EXCEPT ![p] = Handled(r, r.waiting, r.cnt, Len(file), r.broken)]
    BY <2>2, <2>3, HandledMeans
  <2>5. post' \in [Posts -> Request \cup {None}] /\ SumHasMiss'
    <3>1. r.waiting \in SUBSET Slaves /\ r.broken \in BOOLEAN /\ r.cnt \in Nat
          /\ Len(file) \in Int
      BY <2>2, RequestMeans
    <3>2. r.cnt > 0 => Hash[r.task.rec] \in missed  BY <2>2 DEF AlarmInv, SumHasMiss
    <3>3. missed' = missed  BY <2>1
    <3> QED BY <2>2, <2>4, <3>1, <3>2, <3>3, RequestGoesOn
  <2> QED BY <2>1, <2>5 DEF AlarmInv, AlarmTypes, CountHasMiss, MailHasMiss
<1>5. CASE WriteAt(p) \/ OpenFails(p)
  <2>1. UNCHANGED <<rpc, line, missed, counts, mails>>
    BY <1>5 DEF WriteAt, OpenFails, receipt
  <2>2. post' \in [Posts -> Request \cup {None}] /\ SumHasMiss'
    BY <1>5, <2>1, RequestEnds DEF WriteAt, OpenFails
  <2>3. send' \in [Slaves -> [Senders -> Sending \cup {None}]]
    BY <1>5, AnswerKeepsSends DEF WriteAt, OpenFails
  <2> QED BY <2>1, <2>2, <2>3 DEF AlarmInv, AlarmTypes, CountHasMiss, MailHasMiss
<1> QED BY <1>1, <1>2, <1>3, <1>4, <1>5 DEF Handler

\* A line of kuozhao.txt is added or written over.
LEMMA FileStep ==
  ASSUME SlavesAssumption, AlarmInv, file \in Seq(Hashes), [Next]_vars
  PROVE  file' \in Seq(Hashes)
<1>1. ASSUME NEW s \in Slaves, Receipt(s) PROVE file' = file
  BY <1>1 DEF Receipt, Storage, Stat, Receive, platform
<1>2. ASSUME NEW s \in Slaves, NEW t \in Senders, Sender(s, t) PROVE file' = file
  BY <1>2 DEF Sender, Take, PostFails, InitFails, PostReturns, Post, platform
<1>3. ASSUME NEW p \in Posts, Handler(p) PROVE file' \in Seq(Hashes)
  <2>1. CASE WriteAt(p)
    <3> DEFINE h == Hash[post[p].task.rec]  pos == post[p].at + 1
    <3>1. post[p] \in Request /\ post[p].at >= 0
      BY <2>1 DEF WriteAt, Writing, Serving, AlarmInv, AlarmTypes
    <3>2. h \in Hashes /\ pos \in Nat \ {0}  BY <3>1, RequestMeans, TaskHasHash
    <3>3. file' = IF pos > Len(file) THEN Append(file, h) ELSE [file EXCEPT ![pos] = h]
      BY <2>1 DEF WriteAt
    <3> HIDE DEF h, pos
    <3> QED BY <3>2, <3>3
  <2>2. CASE ~WriteAt(p)
    <3>1. file' = file
      BY <1>3, <2>2 DEF Handler, AskSlave, AskFails, JudgeQueryTrie, Seek, OpenFails
    <3> QED BY <3>1
  <2> QED BY <2>1, <2>2
<1>4. ASSUME Configure PROVE file' = file
  BY <1>4 DEF Configure, MultiSet, SetReaches, SetFails, platform
<1>5. ASSUME NEW s \in Slaves, Die(s) \/ Start(s) PROVE file' = file
  BY <1>5 DEF Die, Start, platform
<1>6. CASE UNCHANGED vars  BY <1>6 DEF vars, platform
<1> QED BY <1>1, <1>2, <1>3, <1>4, <1>5, <1>6 DEF Next, Work

\* A death leaves less to do, and a slave that starts has counted nothing.
LEMMA DeathKeepsAlarms ==
  ASSUME SlavesAssumption, AlarmInv, NEW s \in Slaves, Die(s) \/ Start(s)
  PROVE  AlarmInv'
<1>1. CASE Die(s)
  <2>1. UNCHANGED <<missed, counts, mails>>  BY <1>1 DEF Die
  <2>2. post' = [p \in Posts |-> IF post[p] = None THEN None
                                 ELSE [post[p] EXCEPT !.broken = TRUE]]
    BY <1>1 DEF Die
  <2>3. ASSUME NEW p \in Posts, post[p] # None
        PROVE  /\ post'[p] \in Request /\ post'[p].cnt = post[p].cnt
               /\ post'[p].task = post[p].task
    <3>1. post[p] \in Request  BY <2>3 DEF AlarmInv, AlarmTypes
    <3>2. post'[p] = [post[p] EXCEPT !.broken = TRUE]  BY <2>2, <2>3
    <3> QED BY <3>1, <3>2 DEF Request
  <2>4. ASSUME NEW p \in Posts, post[p] = None PROVE post'[p] = None
    BY <2>2, <2>4
  <2>5. post' \in [Posts -> Request \cup {None}]
    <3>1. post' = [p \in Posts |-> post'[p]]  BY <2>2
    <3>2. \A p \in Posts : post'[p] \in Request \cup {None}  BY <2>3, <2>4
    <3> QED BY ONLY <3>1, <3>2
  <2>6. SumHasMiss'  BY <2>1, <2>3, <2>4 DEF AlarmInv, SumHasMiss
  <2>7. /\ rpc' \in [Slaves -> [rec : Records, at : {"store", "stat"}] \cup {None}]
        /\ send' \in [Slaves -> [Senders -> Sending \cup {None}]]
    BY <1>1 DEF Die, AlarmInv, AlarmTypes
  <2>8. line' \in [Slaves -> Seq(Task)]
    <3>1. <<>> \in Seq(Task)  OBVIOUS
    <3> QED BY <1>1, <3>1 DEF Die, AlarmInv, AlarmTypes
  <2> QED BY <2>1, <2>5, <2>6, <2>7, <2>8 DEF AlarmInv, AlarmTypes, CountHasMiss, MailHasMiss
<1>2. CASE Start(s)
  <2>1. UNCHANGED <<rpc, line, send, post, mails, missed>>
    BY <1>2 DEF Start, alarms, platform
  <2>2. counts' = [counts EXCEPT ![s] = [h \in Hashes |-> 0]]  BY <1>2 DEF Start
  <2>3. counts' \in [Slaves -> [Hashes -> Nat]]  BY <2>2 DEF AlarmInv, AlarmTypes
  <2>4. CountHasMiss'  BY <2>1, <2>2 DEF AlarmInv, AlarmTypes, CountHasMiss
  <2> QED BY <2>1, <2>3, <2>4 DEF AlarmInv, AlarmTypes, SumHasMiss, MailHasMiss
<1> QED BY <1>1, <1>2

\* A step that touches nothing alarms are about.
LEMMA AlarmsUntouched ==
  ASSUME AlarmInv, UNCHANGED <<rpc, line, send, post, counts, mails, missed>>
  PROVE  AlarmInv'
<1>1. AlarmTypes'  BY DEF AlarmInv, AlarmTypes
<1> QED BY <1>1, MissesStay DEF AlarmInv

\* What the threads of slaves and platform do.
LEMMA WorkKeepsAlarms ==
  ASSUME SlavesAssumption, ListsInv, AlarmInv, file \in Seq(Hashes), Work
  PROVE  AlarmInv'
<1>1. CASE \E s \in Slaves : Receipt(s)
  <2>1. PICK s \in Slaves : Receipt(s)  BY <1>1
  <2> QED BY <2>1, ReceiptKeepsAlarms
<1>2. CASE \E s \in Slaves, t \in Senders : Sender(s, t)
  <2>1. PICK s \in Slaves, t \in Senders : Sender(s, t)  BY <1>2
  <2> QED BY <2>1, SenderKeepsAlarms
<1>3. CASE \E p \in Posts : Handler(p)
  <2>1. PICK p \in Posts : Handler(p)  BY <1>3
  <2> QED BY <2>1, HandlerKeepsAlarms
<1> QED BY <1>1, <1>2, <1>3 DEF Work

\* Lists, alarms and lines of the file have their types, and every count, sum and mail a
\* search without result behind it.
BaseInv == ListsInv /\ AlarmInv /\ file \in Seq(Hashes)

\* It holds at first, and every step keeps it.
LEMMA BaseInvariant == Spec => []BaseInv
<1>1. Init => BaseInv
  <2> SUFFICES ASSUME Init PROVE BaseInv  BY DEF BaseInv
  <2>1. ListsInv  BY SlavesAssumption, InitLists
  <2>2. AlarmTypes
    <3>1. <<>> \in Seq(Task)  OBVIOUS
    <3> QED BY <3>1 DEF Init, AlarmTypes, NoAlarm
  <2>3. CountHasMiss /\ SumHasMiss /\ MailHasMiss
    BY DEF Init, NoAlarm, CountHasMiss, SumHasMiss, MailHasMiss
  <2>4. file \in Seq(Hashes)  BY DEF Init
  <2> QED BY <2>1, <2>2, <2>3, <2>4 DEF AlarmInv, BaseInv
<1>2. BaseInv /\ [Next]_vars => BaseInv'
  <2> SUFFICES ASSUME ListsInv, AlarmInv, file \in Seq(Hashes), [Next]_vars PROVE BaseInv'
    BY DEF BaseInv
  <2>1. ListsInv' /\ file' \in Seq(Hashes)  BY SlavesAssumption, ListsStep, FileStep
  <2>2. CASE Work  BY SlavesAssumption, <2>1, <2>2, WorkKeepsAlarms DEF BaseInv
  <2>3. CASE Configure
    <3>1. UNCHANGED <<rpc, line, send, post, counts, mails, missed>>
      BY <2>3 DEF Configure, MultiSet, SetReaches, SetFails, receipt, alarms, platform
    <3> QED BY <2>1, <3>1, AlarmsUntouched DEF BaseInv
  <2>4. CASE \E s \in Slaves : Die(s) \/ Start(s)
    BY SlavesAssumption, <2>1, <2>4, DeathKeepsAlarms DEF BaseInv
  <2>5. CASE UNCHANGED vars
    BY <2>1, <2>5, AlarmsUntouched DEF BaseInv, vars, receipt, alarms, platform
  <2>6. AlarmInv'
    BY <2>2, <2>3, <2>4, <2>5 DEF Next, BaseInv
  <2> QED BY <2>1, <2>6 DEF BaseInv
<1> QED BY <1>1, <1>2, PTL DEF Spec

\* No mail is sent about a query of which no slave has received a search without
\* result, whatever slave died and whatever request was posted again.
THEOREM MailsHaveMisses == Spec => []MailHasMiss
<1>1. BaseInv => MailHasMiss  BY DEF BaseInv, AlarmInv
<1> QED BY <1>1, BaseInvariant, PTL

-------------------------------------------------------------------------------
(* Storage.  DataReceive writes a record before it answers for it. *)

StorageInv ==
  /\ rpc \in [Slaves -> [rec : Records, at : {"store", "stat"}] \cup {None}]
  /\ stored \in [Records -> Nat] /\ answered \subseteq Records
  /\ \A s \in Slaves : rpc[s] # None /\ rpc[s].at = "stat" =>
       rpc[s].rec \in notWritten \/ stored[rpc[s].rec] > 0
  /\ AnsweredIsStored

\* A call of DataReceive that gets further, and the writes only add.
LEMMA ReceiptStores ==
  ASSUME StorageInv, NEW s \in Slaves, Receipt(s) PROVE StorageInv'
<1>1. ASSUME NEW m \in Records, Receive(s, m) PROVE StorageInv'
  <2>1. rpc' = [rpc EXCEPT ![s] = [rec |-> m, at |-> "store"]]  BY <1>1 DEF Receive
  <2>2. UNCHANGED <<stored, notWritten, answered>>  BY <1>1 DEF Receive
  <2> QED BY <2>1, <2>2 DEF StorageInv, AnsweredIsStored
<1>2. CASE Storage(s)
  <2> DEFINE m == rpc[s].rec
  <2>1. rpc[s] # None /\ m \in Records  BY <1>2 DEF Storage, AtStep, StorageInv
  <2>2. rpc' = [rpc EXCEPT ![s] = [rec |-> m, at |-> "stat"]]
    <3>1. rpc[s] = [rec |-> m, at |-> "store"]  BY <1>2 DEF Storage, AtStep, StorageInv
    <3>2. [rpc[s] EXCEPT !.at = "stat"] = [rec |-> m, at |-> "stat"]  BY <3>1
    <3> QED BY <1>2, <3>2 DEF Storage, StorageInv
  <2>3. \/ stored' = [stored EXCEPT ![m] = @ + 1] /\ notWritten' = notWritten
        \/ notWritten' = notWritten \cup {m} /\ stored' = stored
    BY <1>2 DEF Storage
  <2>4. answered' = answered  BY <1>2 DEF Storage
  <2> HIDE DEF m
  <2>5. stored' \in [Records -> Nat]  BY <2>1, <2>3 DEF StorageInv
  <2>6. m \in notWritten' \/ stored'[m] > 0  BY <2>1, <2>3 DEF StorageInv
  <2>7. ASSUME NEW x \in Records, x \in notWritten \/ stored[x] > 0
        PROVE  x \in notWritten' \/ stored'[x] > 0
    BY <2>1, <2>3, <2>7 DEF StorageInv
  <2>8. ASSUME NEW x \in Slaves, rpc'[x] # None, rpc'[x].at = "stat"
        PROVE  rpc'[x].rec \in notWritten' \/ stored'[rpc'[x].rec] > 0
    <3>1. CASE x = s  BY <2>2, <2>6, <3>1 DEF StorageInv
    <3>2. CASE x # s
      <4>1. rpc'[x] = rpc[x]  BY <2>2, <3>2 DEF StorageInv
      <4> QED BY <2>7, <2>8, <4>1 DEF StorageInv
    <3> QED BY <3>1, <3>2
  <2>9. AnsweredIsStored'
    BY <2>3, <2>4, <2>7 DEF StorageInv, AnsweredIsStored
  <2>10. rpc' \in [Slaves -> [rec : Records, at : {"store", "stat"}] \cup {None}]
    BY <2>1, <2>2 DEF StorageInv
  <2> QED BY <2>4, <2>5, <2>8, <2>9, <2>10 DEF StorageInv
<1>3. CASE Stat(s)
  <2>1. rpc[s] # None /\ rpc[s].at = "stat"  BY <1>3 DEF Stat, AtStep
  <2>2. rpc' = [rpc EXCEPT ![s] = None] /\ UNCHANGED <<stored, notWritten>>
    BY <1>3 DEF Stat
  <2>3. answered' \subseteq answered \cup {rpc[s].rec}  BY <1>3 DEF Stat
  <2> QED BY <2>1, <2>2, <2>3 DEF StorageInv, AnsweredIsStored
<1> QED BY <1>1, <1>2, <1>3 DEF Receipt

\* It holds at first, and every step keeps it.
LEMMA StorageInvariant == Spec => []StorageInv
<1>1. Init => StorageInv
  BY DEF Init, NoAlarm, StorageInv, AnsweredIsStored
<1>2. ASSUME StorageInv, [Next]_vars PROVE StorageInv'
  <2>1. CASE \E s \in Slaves : Receipt(s)
    <3>1. PICK s \in Slaves : Receipt(s)  BY <2>1
    <3> QED BY <1>2, <3>1, ReceiptStores
  <2>2. CASE UNCHANGED <<rpc, stored, answered, notWritten>>
    BY <1>2, <2>2 DEF StorageInv, AnsweredIsStored
  <2>3. ASSUME NEW s \in Slaves, NEW t \in Senders, Sender(s, t)
        PROVE  UNCHANGED <<rpc, stored, answered, notWritten>>
    BY <2>3 DEF Sender, Take, PostFails, InitFails, PostReturns, Post, receipt
  <2>4. ASSUME NEW p \in Posts, Handler(p)
        PROVE  UNCHANGED <<rpc, stored, answered, notWritten>>
    BY <2>4 DEF Handler, AskSlave, AskFails, JudgeQueryTrie, Seek, WriteAt, OpenFails, receipt
  <2>5. ASSUME Configure PROVE UNCHANGED <<rpc, stored, answered, notWritten>>
    BY <2>5 DEF Configure, MultiSet, SetReaches, SetFails, receipt
  <2>6. ASSUME NEW s \in Slaves, Die(s) PROVE StorageInv'
    <3>1. rpc' = [rpc EXCEPT ![s] = None] /\ UNCHANGED <<stored, answered, notWritten>>
      BY <2>6 DEF Die
    <3> QED BY <1>2, <3>1 DEF StorageInv, AnsweredIsStored
  <2>7. ASSUME NEW s \in Slaves, Start(s)
        PROVE  UNCHANGED <<rpc, stored, answered, notWritten>>
    BY <2>7 DEF Start
  <2>8. ASSUME UNCHANGED vars PROVE UNCHANGED <<rpc, stored, answered, notWritten>>
    BY <2>8 DEF vars, receipt
  <2>9. \/ \E s \in Slaves : Receipt(s)
        \/ \E s \in Slaves, t \in Senders : Sender(s, t)
        \/ \E p \in Posts : Handler(p)
        \/ Configure
        \/ \E s \in Slaves : Die(s) \/ Start(s)
        \/ UNCHANGED vars
    BY <1>2 DEF Next, Work
  <2> QED BY <2>1, <2>2, <2>3, <2>4, <2>5, <2>6, <2>7, <2>8, <2>9
<1> QED BY <1>1, <1>2, PTL DEF Spec

\* A record whose Transmit was answered is in rocksdb or its write failed, whatever
\* slave died since.
THEOREM AnsweredStored == Spec => []AnsweredIsStored
<1>1. StorageInv => AnsweredIsStored  BY DEF StorageInv
<1> QED BY <1>1, StorageInvariant, PTL

-------------------------------------------------------------------------------
(* The types of everything else. *)

HistoryTypes ==
  /\ up \subseteq Slaves /\ deaths \in Nat /\ disturbed \in BOOLEAN
  /\ calls \in [Records -> Nat] /\ notWritten \subseteq Records /\ missed \subseteq Hashes
  /\ written \in Nat /\ torn \in BOOLEAN
  /\ raised \in [Records -> Nat] /\ judged \in [Records -> Nat]

\* A record meets finitely many checklists.
LEMMA MetAreCounted ==
  ASSUME ListsInv, NEW s \in Slaves, NEW m
  PROVE  Cardinality({i \in DOMAIN checklists[s] : m \in Catches[checklists[s][i].rule]}) \in Nat
<1> DEFINE met == {i \in DOMAIN checklists[s] : m \in Catches[checklists[s][i].rule]}
<1>1. checklists[s] \in Seq(Items)  BY DEF ListsInv
<1>2. DOMAIN checklists[s] = 1..Len(checklists[s]) /\ Len(checklists[s]) \in Nat  BY <1>1
<1>3. IsFiniteSet(1..Len(checklists[s]))  BY ONLY <1>2, FS_Interval
<1>4. met \in SUBSET (1..Len(checklists[s]))  BY <1>2
<1> QED BY <1>3, <1>4, FS_Subset, FS_CardinalityType

\* A count of some record that has grown keeps its type.
LEMMA CountGrows ==
  ASSUME NEW f \in [Records -> Nat], NEW m \in Records, NEW n \in Nat
  PROVE  [f EXCEPT ![m] = @ + n] \in [Records -> Nat]
OBVIOUS

\* Every step keeps the types of what is counted and remembered.
LEMMA HistoryStep ==
  ASSUME SlavesAssumption, BaseInv, HistoryTypes, [Next]_vars PROVE HistoryTypes'
<1> USE DEF lists, receipt, alarms, platform
<1>0. ListsInv /\ AlarmTypes  BY DEF BaseInv, AlarmInv
<1>1. ASSUME NEW s \in Slaves, NEW m \in Records, Receive(s, m) PROVE HistoryTypes'
  <2> DEFINE n == Cardinality({i \in DOMAIN checklists[s] :
                                 m \in Catches[checklists[s][i].rule]})
  <2>0. ListsInv  BY <1>0
  <2>1. n \in Nat  BY ONLY <2>0, s \in Slaves, MetAreCounted
  <2>2. raised' = [raised EXCEPT ![m] = @ + n] /\ calls' = [calls EXCEPT ![m] = @ + 1]
    BY <1>1 DEF Receive, CheckAbnormal
  <2> HIDE DEF n
  <2>3. raised' \in [Records -> Nat] /\ calls' \in [Records -> Nat]
    BY <2>1, <2>2, CountGrows DEF HistoryTypes
  <2>4. UNCHANGED <<up, deaths, disturbed, notWritten, missed, written, torn, judged>>
    BY <1>1 DEF Receive
  <2> QED BY <2>3, <2>4 DEF HistoryTypes
<1>2. ASSUME NEW s \in Slaves, Storage(s) PROVE HistoryTypes'
  <2>1. rpc[s].rec \in Records  BY <1>0, <1>2 DEF Storage, AtStep, AlarmTypes
  <2> QED BY <1>2, <2>1 DEF Storage, HistoryTypes
<1>3. ASSUME NEW s \in Slaves, Stat(s) PROVE HistoryTypes'
  <2>1. Hash[rpc[s].rec] \in Hashes
    BY <1>0, <1>3 DEF Stat, AtStep, AlarmTypes, SlavesAssumption
  <2>2. missed' \subseteq missed \cup {Hash[rpc[s].rec]}  BY <1>3 DEF Stat
  <2>3. UNCHANGED <<up, deaths, disturbed, calls, notWritten, written, torn, raised, judged>>
    BY <1>3 DEF Stat
  <2> QED BY <2>1, <2>2, <2>3 DEF HistoryTypes
<1>4. ASSUME NEW s \in Slaves, NEW t \in Senders, Sender(s, t) PROVE HistoryTypes'
  BY <1>4 DEF Sender, Take, PostFails, InitFails, PostReturns, Post, HistoryTypes
<1>5. ASSUME NEW p \in Posts, Handler(p) PROVE HistoryTypes'
  <2>1. CASE JudgeQueryTrie(p)
    <3>1. post[p] \in Request  BY <1>0, <2>1 DEF JudgeQueryTrie, Serving, AlarmTypes
    <3>2. post[p].task.rec \in Records  BY <3>1, RequestMeans DEF Task
    <3>3. judged' \in [Records -> Nat]
      BY <2>1, <3>2, CountGrows DEF JudgeQueryTrie, HistoryTypes
    <3> QED BY <2>1, <3>3 DEF JudgeQueryTrie, HistoryTypes
  <2>2. CASE (\E s \in Slaves : AskSlave(p, s) \/ AskFails(p, s)) \/ OpenFails(p)
    BY <2>2 DEF AskSlave, AskFails, OpenFails, HistoryTypes
  <2>3. CASE Seek(p)
    <3>1. UNCHANGED <<up, deaths, disturbed, calls, notWritten, missed, written, raised, judged>>
      BY <2>3 DEF Seek
    <3>2. torn' \in BOOLEAN  BY <2>3 DEF Seek
    <3> QED BY <3>1, <3>2 DEF HistoryTypes
  <2>4. CASE WriteAt(p)
    <3>1. UNCHANGED <<up, deaths, disturbed, calls, notWritten, missed, torn, raised, judged>>
      BY <2>4 DEF WriteAt
    <3>2. written' = written + 1  BY <2>4 DEF WriteAt
    <3> QED BY <3>1, <3>2 DEF HistoryTypes
  <2> QED BY <1>5, <2>1, <2>2, <2>3, <2>4 DEF Handler
<1>6. CASE Configure
  BY <1>6 DEF Configure, MultiSet, SetReaches, SetFails, HistoryTypes
<1>7. ASSUME NEW s \in Slaves, Die(s) \/ Start(s) PROVE HistoryTypes'
  <2>1. UNCHANGED <<calls, notWritten, missed, written, torn, raised, judged>>
    BY <1>7 DEF Die, Start
  <2>2. up' \subseteq Slaves  BY <1>7 DEF Die, Start, HistoryTypes
  <2>3. \/ deaths' = deaths + 1 /\ disturbed' = TRUE
        \/ deaths' = deaths /\ disturbed' = disturbed
    BY <1>7 DEF Die, Start
  <2>4. deaths' \in Nat /\ disturbed' \in BOOLEAN
    <3>1. deaths \in Nat /\ disturbed \in BOOLEAN  BY DEF HistoryTypes
    <3>2. deaths + 1 \in Nat  BY <3>1
    <3> QED BY ONLY <2>3, <3>1, <3>2, Zenon
  <2> QED BY <2>1, <2>2, <2>4 DEF HistoryTypes
<1>8. CASE UNCHANGED vars  BY <1>8 DEF vars, HistoryTypes
<1> QED BY <1>1, <1>2, <1>3, <1>4, <1>5, <1>6, <1>7, <1>8 DEF Next, Work, Receipt

\* The types hold at first, and every step keeps them.
LEMMA HistoryInvariant == Spec => []HistoryTypes
<1>1. Init => HistoryTypes
  <2> SUFFICES ASSUME Init PROVE HistoryTypes  OBVIOUS
  <2>1. up \subseteq Slaves /\ deaths \in Nat /\ disturbed \in BOOLEAN  BY DEF Init
  <2>2. NoAlarm \in [Records -> Nat]  BY DEF NoAlarm
  <2>3. /\ calls = NoAlarm /\ raised = NoAlarm /\ judged = NoAlarm
        /\ notWritten = {} /\ missed = {} /\ written = 0 /\ torn = FALSE
    BY DEF Init
  <2> QED BY <2>1, <2>2, <2>3 DEF HistoryTypes
<1>2. BaseInv /\ HistoryTypes /\ [Next]_vars => HistoryTypes'
  BY SlavesAssumption, HistoryStep
<1> QED BY <1>1, <1>2, BaseInvariant, PTL DEF Spec

\* Every variable of slaves, platform and runs has its type, whatever slave dies, call
\* fails or request is posted again.
THEOREM TypesHold == Spec => []TypeOK
<1>1. BaseInv /\ StorageInv /\ HistoryTypes => TypeOK
  BY DEF BaseInv, ListsInv, AlarmInv, AlarmTypes, StorageInv, HistoryTypes, TypeOK
<1> QED BY <1>1, BaseInvariant, StorageInvariant, HistoryInvariant, PTL

-------------------------------------------------------------------------------
(* The lines of kuozhao.txt. *)

\* While no two requests have written at a time, the file has a line for each that has
\* written, and the one that is writing is at its end.
LinesInv ==
  ~torn => /\ Len(file) = written
           /\ \A p \in Posts : Writing(p) => post[p].at = Len(file)
           /\ \A p, q \in Posts : Writing(p) /\ Writing(q) => p = q

\* A step that leaves the file alone and lets nobody begin to write.
LEMMA LinesUntouched ==
  ASSUME LinesInv, UNCHANGED <<file, written, torn>>,
         \A p \in Posts : Writing(p)' => Writing(p) /\ post'[p].at = post[p].at
  PROVE  LinesInv'
BY DEF LinesInv

\* A step that changes at most one request, which does not write after it.
LEMMA OneNotWriting ==
  ASSUME LinesInv, UNCHANGED <<file, written, torn>>, NEW p \in Posts, NEW new,
         post \in [Posts -> Request \cup {None}], post' = [post EXCEPT ![p] = new],
         new # None => new.at < 0 \/ new.task.kind # "kuozhao", new \in Request \cup {None}
  PROVE  LinesInv'
<1>1. ~Writing(p)'
  <2>1. post'[p] = new OBVIOUS
  <2>2. new # None => new.at \in Int  BY DEF Request
  <2> QED BY <2>1, <2>2 DEF Writing, Serving
<1>2. ASSUME NEW q \in Posts, Writing(q)' PROVE Writing(q) /\ post'[q].at = post[q].at
  <2>1. q # p  BY <1>1, <1>2
  <2>2. post'[q] = post[q]  BY <2>1
  <2> QED BY <1>2, <2>2 DEF Writing, Serving
<1> QED BY <1>2, LinesUntouched

\* Every step keeps the invariant of the lines.
LEMMA LinesStep ==
  ASSUME SlavesAssumption, BaseInv, HistoryTypes, LinesInv, [Next]_vars PROVE LinesInv'
<1> USE DEF lists, receipt, alarms, platform
<1>0. AlarmInv /\ post \in [Posts -> Request \cup {None}] /\ file \in Seq(Hashes)
      /\ written \in Nat /\ torn \in BOOLEAN
  BY DEF BaseInv, AlarmInv, AlarmTypes, HistoryTypes
<1>1. ASSUME UNCHANGED <<file, written, torn, post>> PROVE LinesInv'
  BY <1>1 DEF LinesInv, Writing, Serving
<1>2. ASSUME NEW s \in Slaves, Receipt(s) PROVE LinesInv'
  BY <1>1, <1>2 DEF Receipt, Storage, Stat, Receive
<1>3. ASSUME NEW s \in Slaves, NEW t \in Senders, Sender(s, t) PROVE LinesInv'
  <2>1. CASE Take(s, t) \/ PostFails(s, t) \/ InitFails(s, t) \/ PostReturns(s, t)
    BY <1>1, <2>1 DEF Take, PostFails, InitFails, PostReturns
  <2>2. ASSUME NEW p \in Posts, Post(s, t, p) PROVE LinesInv'
    <3> DEFINE task  == send[s][t].task
               known == \E x \in up : counts[x][Hash[task.rec]] > 0
               new   == [task |-> task, waiting |-> IF task.kind = "alarm" THEN Slaves ELSE {},
                         cnt |-> 0, at |-> -1, known |-> known, broken |-> FALSE]
    <3>1. post' = [post EXCEPT ![p] = new] /\ UNCHANGED <<file, written, torn>>
      BY <2>2 DEF Post
    <3>2. task \in Task
      BY <2>2 DEF Post, Has, BaseInv, AlarmInv, AlarmTypes, Sending
    <3>3. known \in BOOLEAN  OBVIOUS
    <3> HIDE DEF known, task
    <3>4. new \in Request /\ new.at < 0  BY <3>2, <3>3 DEF Request
    <3> HIDE DEF new
    <3> QED BY <1>0, <3>1, <3>4, OneNotWriting
  <2> QED BY <1>3, <2>1, <2>2 DEF Sender
<1>4. ASSUME NEW p \in Posts, Handler(p) PROVE LinesInv'
  <2>1. ASSUME NEW s \in Slaves, AskSlave(p, s) \/ AskFails(p, s) PROVE LinesInv'
    <3>1. UNCHANGED <<file, written, torn>> /\ post[p] \in Request /\ post[p].task.kind = "alarm"
      BY <1>0, <2>1 DEF AskSlave, AskFails, Serving
    <3>2. ASSUME NEW q \in Posts, Writing(q)' PROVE Writing(q) /\ post'[q].at = post[q].at
      <4>1. CASE q = p
        <5>1. post'[p].task = post[p].task
          BY <1>0, <2>1, <3>1 DEF AskSlave, AskFails, Request
        <5> QED BY <3>1, <3>2, <4>1, <5>1 DEF Writing, Serving
      <4>2. CASE q # p
        <5>1. post'[q] = post[q]  BY <1>0, <2>1, <4>2 DEF AskSlave, AskFails
        <5> QED BY <3>2, <5>1 DEF Writing, Serving
      <4> QED BY <4>1, <4>2
    <3> QED BY <3>1, <3>2, LinesUntouched
  <2>2. CASE JudgeQueryTrie(p) \/ OpenFails(p)
    <3>1. post' = [post EXCEPT ![p] = None] /\ UNCHANGED <<file, written, torn>>
      BY <2>2 DEF JudgeQueryTrie, OpenFails
    <3> QED BY <1>0, <3>1, OneNotWriting
  <2>3. CASE Seek(p)
    <3>1. /\ UNCHANGED <<file, written>> /\ torn' = (torn \/ \E q \in Posts : Writing(q))
          /\ post[p] # None /\ post' = [post EXCEPT ![p] = [post[p] EXCEPT !.at = Len(file)]]
      BY <1>0, <2>3 DEF Seek, Serving
    <3>2. SUFFICES ASSUME ~torn' PROVE LinesInv'  BY DEF LinesInv
    <3>3. ~torn /\ \A q \in Posts : ~Writing(q)  BY <1>0, <3>1, <3>2
    <3>4. post'[p].at = Len(file)  BY <1>0, <3>1 DEF Request
    <3>5. \A q \in Posts : q # p => ~Writing(q)'  BY <1>0, <3>1, <3>3 DEF Writing, Serving
    <3>6. Len(file) = written  BY <3>3 DEF LinesInv
    <3> QED BY <3>1, <3>4, <3>5, <3>6 DEF LinesInv
  <2>4. CASE WriteAt(p)
    <3> DEFINE h == Hash[post[p].task.rec]  pos == post[p].at + 1
    <3>1. /\ UNCHANGED torn /\ written' = written + 1 /\ Writing(p)
          /\ post' = [post EXCEPT ![p] = None]
          /\ file' = IF pos > Len(file) THEN Append(file, h) ELSE [file EXCEPT ![pos] = h]
      BY <2>4 DEF WriteAt
    <3>2. SUFFICES ASSUME ~torn PROVE LinesInv'  BY <3>1 DEF LinesInv
    <3>3. /\ post[p].at = Len(file) /\ Len(file) = written
          /\ \A q \in Posts : q # p => ~Writing(q)
      BY <3>1, <3>2 DEF LinesInv
    <3>4. pos > Len(file)  BY <1>0, <3>3
    <3>5. file' = Append(file, h)  BY <3>1, <3>4
    <3>6. Len(file') = written'  BY <1>0, <3>1, <3>3, <3>5
    <3>7. \A q \in Posts : ~Writing(q)'  BY <1>0, <3>1, <3>3 DEF Writing, Serving
    <3> QED BY <3>6, <3>7 DEF LinesInv
  <2> QED BY <1>4, <2>1, <2>2, <2>3, <2>4 DEF Handler
<1>5. CASE Configure
  BY <1>1, <1>5 DEF Configure, MultiSet, SetReaches, SetFails
<1>6. ASSUME NEW s \in Slaves, Die(s) PROVE LinesInv'
  <2>1. /\ UNCHANGED <<file, written, torn>>
        /\ post' = [p \in Posts |-> IF post[p] = None THEN None
                                    ELSE [post[p] EXCEPT !.broken = TRUE]]
    BY <1>6 DEF Die
  <2>2. ASSUME NEW q \in Posts, Writing(q)' PROVE Writing(q) /\ post'[q].at = post[q].at
    <3>1. post[q] # None /\ post[q] \in Request  BY <1>0, <2>1, <2>2 DEF Writing, Serving
    <3>2. post'[q] = [post[q] EXCEPT !.broken = TRUE]  BY <2>1, <3>1
    <3>3. post'[q].at = post[q].at /\ post'[q].task = post[q].task  BY <3>1, <3>2 DEF Request
    <3> QED BY <2>2, <3>1, <3>3 DEF Writing, Serving
  <2> QED BY <2>1, <2>2, LinesUntouched
<1>7. ASSUME NEW s \in Slaves, Start(s) PROVE LinesInv'
  BY <1>1, <1>7 DEF Start
<1>8. CASE UNCHANGED vars  BY <1>1, <1>8 DEF vars
<1> QED BY <1>2, <1>3, <1>4, <1>5, <1>6, <1>7, <1>8 DEF Next, Work

\* As long as no two requests wrote at a time, every request that wrote has left its line.
THEOREM LinesKept == Spec => []NoLineLost
<1>1. Init => LinesInv
  BY DEF Init, LinesInv, Writing, Serving
<1>2. BaseInv /\ HistoryTypes /\ LinesInv /\ [Next]_vars => LinesInv'
  BY SlavesAssumption, LinesStep
<1>3. LinesInv => NoLineLost  BY DEF LinesInv, NoLineLost
<1> QED BY <1>1, <1>2, <1>3, BaseInvariant, HistoryInvariant, PTL DEF Spec

-------------------------------------------------------------------------------
(* The agreement of the lists. *)

\* A list after a call of chklist.go.
After(l, r) ==
  CASE r.op = "add" -> IF \E i \in DOMAIN l : SameItem(l[i], r.item) THEN l ELSE Append(l, r.item)
    [] r.op = "del" -> IF r.index \in DOMAIN l THEN RemoveAt(l, r.index) ELSE l

\* The slaves that have handled the call of a run have the list that follows from the
\* one the others still have.
Between(t) ==
  \A s, x \in Slaves :
    /\ (s \in tool[t].open <=> x \in tool[t].open) => checklists[s] = checklists[x]
    /\ s \in tool[t].open /\ x \notin tool[t].open =>
         checklists[x] = After(checklists[s], tool[t].req)

\* Undisturbed, at most one run is under way, and it waits for every slave that has not
\* handled its call.
AgreeInv ==
  ~disturbed =>
    /\ up = Slaves
    /\ \A t \in Tools : tool[t] # None => tool[t].open \subseteq tool[t].waiting
    /\ \A t, x \in Tools : Running(t) /\ Running(x) => t = x
    /\ \A t \in Tools : Running(t) => Between(t)
    /\ (\A t \in Tools : ~Running(t)) => \A s, x \in Slaves : checklists[s] = checklists[x]

\* A run is begun when the lists agree.
LEMMA AgreeByMultiSet ==
  ASSUME ListsInv, AgreeInv, NEW t \in Tools, NEW r \in Requests, MultiSet(t, r)
  PROVE  AgreeInv'
<1> SUFFICES ASSUME ~disturbed' PROVE AgreeInv'  BY DEF AgreeInv
<1>1. /\ ~disturbed /\ \A x \in Tools : ~Running(x)
      /\ UNCHANGED <<up, checklists>>
      /\ tool' = [tool EXCEPT ![t] = [req |-> r, waiting |-> Slaves, open |-> Slaves]]
  BY DEF MultiSet
<1>2. up = Slaves /\ \A s, x \in Slaves : checklists[s] = checklists[x]  BY <1>1 DEF AgreeInv
<1>3. /\ tool'[t] = [req |-> r, waiting |-> Slaves, open |-> Slaves]
      /\ \A x \in Tools : x # t => tool'[x] = tool[x]
  BY <1>1 DEF ListsInv
<1>4. \A x \in Tools : Running(x)' => x = t  BY <1>1, <1>3 DEF Running
<1>5. \A x \in Tools : tool'[x] # None => tool'[x].open \subseteq tool'[x].waiting
  BY <1>1, <1>3 DEF AgreeInv
<1>6. Between(t)'  BY <1>1, <1>2, <1>3 DEF Between
<1> QED BY <1>1, <1>2, <1>4, <1>5, <1>6 DEF AgreeInv

\* A slave that handles the call gets the list of those that have.
LEMMA AgreeBySet ==
  ASSUME ListsInv, AgreeInv, NEW t \in Tools, NEW s \in Slaves, SetReaches(t, s)
  PROVE  AgreeInv'
<1> SUFFICES ASSUME ~disturbed' PROVE AgreeInv'  BY DEF AgreeInv
<1> DEFINE r == tool[t]  l == checklists[s]
<1>1. /\ ~disturbed /\ UNCHANGED up /\ r # None /\ r \in Run /\ s \in r.open
      /\ SetCheckListConfig(s, r.req)
  BY DEF SetReaches, ListsInv
<1>2. PICK w \in {r.waiting, r.waiting \ {s}} :
        tool' = [tool EXCEPT ![t] = [req |-> r.req, waiting |-> w, open |-> r.open \ {s}]]
  <2>1. r = [req |-> r.req, waiting |-> r.waiting, open |-> r.open]  BY <1>1 DEF Run
  <2>2. \/ tool' = [tool EXCEPT ![t] = [r EXCEPT !.open = @ \ {s}, !.waiting = @ \ {s}]]
        \/ tool' = [tool EXCEPT ![t] = [r EXCEPT !.open = @ \ {s}]]
    BY DEF SetReaches, ListsInv
  <2> HIDE DEF r
  <2>3. [r EXCEPT !.open = @ \ {s}]
          = [req |-> r.req, waiting |-> r.waiting, open |-> r.open \ {s}]
    BY ONLY <2>1
  <2> DEFINE r1 == [req |-> r.req, waiting |-> r.waiting, open |-> r.open \ {s}]
  <2>4. [r1 EXCEPT !.waiting = r.waiting \ {s}]
          = [req |-> r.req, waiting |-> r.waiting \ {s}, open |-> r.open \ {s}]
    OBVIOUS
  <2>5. [r EXCEPT !.open = r.open \ {s}] = r1  BY ONLY <2>3
  <2> HIDE DEF r1
  <2>6. [r EXCEPT !.open = @ \ {s}, !.waiting = @ \ {s}]
          = [req |-> r.req, waiting |-> r.waiting \ {s}, open |-> r.open \ {s}]
    BY ONLY <2>4, <2>5
  <2> QED BY <2>2, <2>3, <2>6
<1>3. /\ tool'[t] = [req |-> r.req, waiting |-> w, open |-> r.open \ {s}]
      /\ \A x \in Tools : x # t => tool'[x] = tool[x]
  BY <1>2 DEF ListsInv
<1>4. /\ up = Slaves /\ r.open \subseteq r.waiting
      /\ \A x \in Tools : tool[x] # None => tool[x].open \subseteq tool[x].waiting
  BY <1>1 DEF AgreeInv
<1>5. Running(t)  BY <1>1, <1>4 DEF Running
<1>6. Between(t) /\ \A x \in Tools : Running(x) => x = t  BY <1>1, <1>5 DEF AgreeInv
<1>7. checklists' = [checklists EXCEPT ![s] = After(l, r.req)]
  BY <1>1 DEF SetCheckListConfig, After
<1>8. /\ checklists'[s] = After(l, r.req)
      /\ \A x \in Slaves : x # s => checklists'[x] = checklists[x]
  BY <1>7 DEF ListsInv
<1>9. /\ \A x \in r.open \cap Slaves : checklists[x] = l
      /\ \A x \in Slaves \ r.open : checklists[x] = After(l, r.req)
  BY <1>1, <1>6 DEF Between
<1> HIDE DEF r, l
<1>10. /\ \A x \in (r.open \ {s}) \cap Slaves : checklists'[x] = l
       /\ \A x \in Slaves \ (r.open \ {s}) : checklists'[x] = After(l, r.req)
  BY <1>8, <1>9
<1>11. Between(t)'  BY <1>3, <1>10 DEF Between
<1>12. \A x \in Tools : Running(x)' => x = t  BY <1>3, <1>6 DEF Running
<1>13. \A x \in Tools : tool'[x] # None => tool'[x].open \subseteq tool'[x].waiting
  BY <1>2, <1>3, <1>4
<1>14. ASSUME ~Running(t)' PROVE \A y, x \in Slaves : checklists'[y] = checklists'[x]
  <2>1. tool'[t] # None
    <3>1. r.req \in Requests /\ r.waiting \subseteq Slaves /\ r.open \subseteq Slaves
      BY <1>1 DEF Run
    <3>2. tool'[t] \in Run  BY <1>3, <3>1 DEF Run
    <3> QED BY <3>2, SlavesAssumption DEF SlavesAssumption
  <2>2. r.open \ {s} = {}  BY <1>3, <1>13, <1>14, <2>1 DEF Running
  <2> QED BY <1>10, <2>2
<1> QED BY <1>1, <1>4, <1>11, <1>12, <1>13, <1>14 DEF AgreeInv

\* Every step keeps it.
LEMMA AgreeStep ==
  ASSUME ListsInv, AgreeInv, [Next]_vars PROVE AgreeInv'
<1>1. ASSUME UNCHANGED <<up, checklists, tool, disturbed>> PROVE AgreeInv'
  BY <1>1 DEF AgreeInv, Running, Between
<1>2. ASSUME disturbed' PROVE AgreeInv'  BY <1>2 DEF AgreeInv
<1>3. CASE Work
  <2>1. UNCHANGED <<checklists, tool>>  BY <1>3, WorkKeepsLists
  <2>2. ASSUME NEW s \in Slaves, Receipt(s) PROVE UNCHANGED <<up, disturbed>>
    BY <2>2 DEF Receipt, Storage, Stat, Receive, lists
  <2>3. ASSUME NEW s \in Slaves, NEW t \in Senders, Sender(s, t)
        PROVE  UNCHANGED <<up, disturbed>>
    BY <2>3 DEF Sender, Take, PostFails, InitFails, PostReturns, Post, lists
  <2>4. ASSUME NEW p \in Posts, Handler(p) PROVE UNCHANGED <<up, disturbed>>
    BY <2>4 DEF Handler, AskSlave, AskFails, JudgeQueryTrie, Seek, WriteAt, OpenFails, lists
  <2> QED BY <1>1, <1>3, <2>1, <2>2, <2>3, <2>4 DEF Work
<1>4. ASSUME NEW t \in Tools, NEW s \in Slaves, SetFails(t, s) PROVE AgreeInv'
  BY <1>2, <1>4 DEF SetFails
<1>5. ASSUME NEW s \in Slaves, Die(s) PROVE AgreeInv'
  BY <1>2, <1>5 DEF Die
<1>6. ASSUME NEW s \in Slaves, Start(s) PROVE AgreeInv'
  <2>1. s \notin up /\ disturbed' = disturbed  BY <1>6 DEF Start
  <2> QED BY <2>1 DEF AgreeInv
<1>7. CASE UNCHANGED vars  BY <1>1, <1>7 DEF vars, lists
<1> QED BY <1>3, <1>4, <1>5, <1>6, <1>7, AgreeByMultiSet, AgreeBySet DEF Next, Configure

\* When no run is under way, and none met another or had a call fail and no slave died,
\* every slave has the same checklists in the same order, for any slaves and runs.
THEOREM ListsOfSlavesAgree == Spec => []ListsAgree
<1>1. Init => AgreeInv  BY DEF Init, AgreeInv, Running
<1>2. BaseInv /\ AgreeInv /\ [Next]_vars => AgreeInv'  BY AgreeStep DEF BaseInv
<1>3. AgreeInv => ListsAgree  BY DEF AgreeInv, ListsAgree
<1> QED BY <1>1, <1>2, <1>3, BaseInvariant, PTL DEF Spec

-------------------------------------------------------------------------------
(* The mails that must be sent. *)

\* As long as nothing failed since a request came, what a slave had counted before is in
\* its sum or still to be asked for.
KnownInv ==
  \A p \in Posts : Serving(p, "alarm") /\ post[p].known /\ ~post[p].broken =>
    \/ post[p].cnt > 0
    \/ \E x \in post[p].waiting \cap up : counts[x][Hash[post[p].task.rec]] > 0

\* A step that leaves the requests alone and lowers no count of a slave that is up.
LEMMA KnownStays ==
  ASSUME KnownInv, UNCHANGED post, up \subseteq up',
         \A x \in up, h \in Hashes : counts[x][h] > 0 => counts'[x][h] > 0,
         \A p \in Posts : Serving(p, "alarm") => Hash[post[p].task.rec] \in Hashes
  PROVE  KnownInv'
BY DEF KnownInv, Serving

\* A step after which one request, and no other, may have changed.
LEMMA KnownByOne ==
  ASSUME KnownInv, UNCHANGED <<up, counts>>, NEW p \in Posts, NEW new,
         post \in [Posts -> Request \cup {None}], post' = [post EXCEPT ![p] = new],
         new # None /\ new.task.kind = "alarm" /\ new.known /\ ~new.broken =>
           new.cnt > 0 \/ \E x \in new.waiting \cap up : counts[x][Hash[new.task.rec]] > 0
  PROVE  KnownInv'
<1>1. post'[p] = new /\ \A q \in Posts : q # p => post'[q] = post[q]  OBVIOUS
<1> QED BY <1>1 DEF KnownInv, Serving

\* No count grows smaller while a slave is up.
LEMMA CountsGrow ==
  ASSUME SlavesAssumption, AlarmTypes, NEW s \in Slaves, Receipt(s)
  PROVE  \A x \in Slaves, h \in Hashes : counts[x][h] > 0 => counts'[x][h] > 0
<1>1. CASE UNCHANGED counts  BY <1>1
<1>2. CASE Stat(s)
  <2> DEFINE m == rpc[s].rec
  <2>1. Hash[m] \in Hashes  BY <1>2 DEF Stat, AtStep, AlarmTypes, SlavesAssumption
  <2>2. CASE counts' = counts  BY <2>2
  <2>3. CASE counts' = [counts EXCEPT ![s] = [counts[s] EXCEPT ![Hash[m]] = @ + 1]]
    BY <2>1, <2>3 DEF AlarmTypes
  <2>4. counts' = counts \/ counts' = [counts EXCEPT ![s][Hash[m]] = @ + 1]
    BY <1>2 DEF Stat, UpdataQueryFreqStat
  <2> QED BY <2>2, <2>3, <2>4
<1> QED BY <1>1, <1>2 DEF Receipt, Storage, Receive

\* Every step keeps what the sums owe.
LEMMA KnownStep ==
  ASSUME SlavesAssumption, AlarmInv, HistoryTypes, KnownInv, [Next]_vars PROVE KnownInv'
<1> USE DEF lists, receipt, alarms, platform
<1>0. AlarmTypes /\ post \in [Posts -> Request \cup {None}] /\ up \subseteq Slaves
  BY DEF AlarmInv, AlarmTypes, HistoryTypes
<1>h. \A p \in Posts : Serving(p, "alarm") => Hash[post[p].task.rec] \in Hashes
  BY <1>0, RequestMeans, TaskHasHash DEF Serving
<1>1. ASSUME UNCHANGED <<up, counts, post>> PROVE KnownInv'
  BY <1>1 DEF KnownInv, Serving
<1>2. ASSUME NEW s \in Slaves, Receipt(s) PROVE KnownInv'
  <2>1. UNCHANGED <<up, post>>  BY <1>2 DEF Receipt, Storage, Stat, Receive
  <2>2. \A x \in up, h \in Hashes : counts[x][h] > 0 => counts'[x][h] > 0
    BY <1>0, <1>2, CountsGrow
  <2> QED BY <1>h, <2>1, <2>2, KnownStays
<1>3. ASSUME NEW s \in Slaves, NEW t \in Senders, Sender(s, t) PROVE KnownInv'
  <2>1. CASE Take(s, t) \/ PostFails(s, t) \/ InitFails(s, t) \/ PostReturns(s, t)
    BY <1>1, <2>1 DEF Take, PostFails, InitFails, PostReturns
  <2>2. ASSUME NEW p \in Posts, Post(s, t, p) PROVE KnownInv'
    <3> DEFINE task  == send[s][t].task
               known == \E x \in up : counts[x][Hash[task.rec]] > 0
               new   == [task |-> task, waiting |-> IF task.kind = "alarm" THEN Slaves ELSE {},
                         cnt |-> 0, at |-> -1, known |-> known, broken |-> FALSE]
    <3>1. post' = [post EXCEPT ![p] = new] /\ UNCHANGED <<up, counts>>
      BY <2>2 DEF Post
    <3>2. new.task = task /\ new.known = known  OBVIOUS
    <3>3. new.task.kind = "alarm" => new.waiting = Slaves  OBVIOUS
    <3>4. new.known => \E x \in up : counts[x][Hash[new.task.rec]] > 0  OBVIOUS
    <3> HIDE DEF new
    <3>5. new.task.kind = "alarm" /\ new.known =>
            \E x \in new.waiting \cap up : counts[x][Hash[new.task.rec]] > 0
      BY <1>0, <3>3, <3>4
    <3> QED BY <1>0, <3>1, <3>5, KnownByOne
  <2> QED BY <1>3, <2>1, <2>2 DEF Sender
<1>4. ASSUME NEW p \in Posts, Handler(p) PROVE KnownInv'
  <2> DEFINE r == post[p]
  <2>1. ASSUME NEW s \in Slaves, AskSlave(p, s) PROVE KnownInv'
    <3>1. r \in Request /\ r # None /\ Serving(p, "alarm") /\ s \in up
          /\ UNCHANGED <<up, counts>>
      BY <1>0, <2>1 DEF AskSlave, Serving, Free
    <3> DEFINE n   == counts[s][Hash[r.task.rec]]
               new == Handled(r, r.waiting \ {s}, r.cnt + n, r.at, r.broken)
    <3>2. n \in Nat /\ r.cnt \in Nat
      BY <1>0, <1>h, <3>1, RequestMeans DEF AlarmTypes
    <3>3. post' = [post EXCEPT ![p] = [r EXCEPT !.waiting = @ \ {s}, !.cnt = @ + n]]
      BY <1>0, <2>1 DEF AskSlave, AddCount
    <3>4. post' = [post EXCEPT ![p] = new]  BY <3>1, <3>3, HandledMeans
    <3>5. /\ new.task = r.task /\ new.known = r.known /\ new.broken = r.broken
          /\ new.waiting = r.waiting \ {s} /\ new.cnt = r.cnt + n
      BY DEF Handled
    <3> HIDE DEF new, n
    <3>6. r.known /\ ~r.broken =>
            r.cnt > 0 \/ \E x \in r.waiting \cap up : counts[x][Hash[r.task.rec]] > 0
      BY <3>1 DEF KnownInv
    <3>7. ASSUME new.known, ~new.broken
          PROVE  new.cnt > 0 \/ \E x \in new.waiting \cap up : counts[x][Hash[new.task.rec]] > 0
      <4>1. CASE r.cnt > 0  BY <3>2, <3>5, <4>1
      <4>2. CASE n > 0  BY <3>2, <3>5, <4>2
      <4>3. CASE \E x \in (r.waiting \ {s}) \cap up : counts[x][Hash[r.task.rec]] > 0
        BY <3>5, <4>3
      <4>4. ASSUME NEW x \in r.waiting \cap up, counts[x][Hash[r.task.rec]] > 0, x = s
            PROVE  n > 0
        BY <4>4 DEF n
      <4> QED BY <3>5, <3>6, <3>7, <4>1, <4>2, <4>3, <4>4
    <3> QED BY <1>0, <3>1, <3>4, <3>7, KnownByOne
  <2>2. ASSUME NEW s \in Slaves, AskFails(p, s) PROVE KnownInv'
    <3>1. r \in Request /\ UNCHANGED <<up, counts>>
      BY <1>0, <2>2 DEF AskFails, Serving
    <3> DEFINE new == Handled(r, r.waiting \ {s}, r.cnt, r.at, TRUE)
    <3>2. post' = [post EXCEPT ![p] = [r EXCEPT !.waiting = @ \ {s}, !.broken = TRUE]]
      BY <1>0, <2>2 DEF AskFails
    <3>3. [r EXCEPT !.waiting = r.waiting \ {s}, !.broken = TRUE] = new
      BY <3>1, HandledMeans
    <3>4. post' = [post EXCEPT ![p] = new]  BY <3>2, <3>3
    <3>5. new.broken  BY DEF Handled
    <3> HIDE DEF new
    <3> QED BY <1>0, <3>1, <3>4, <3>5, KnownByOne
  <2>3. CASE JudgeQueryTrie(p) \/ WriteAt(p) \/ OpenFails(p)
    <3>1. post' = [post EXCEPT ![p] = None] /\ UNCHANGED <<up, counts>>
      BY <2>3 DEF JudgeQueryTrie, WriteAt, OpenFails
    <3> QED BY <1>0, <3>1, KnownByOne
  <2>4. CASE Seek(p)
    <3>1. r \in Request /\ r.task.kind = "kuozhao" /\ UNCHANGED <<up, counts>>
      BY <1>0, <2>4 DEF Seek, Serving
    <3> DEFINE new == Handled(r, r.waiting, r.cnt, Len(file), r.broken)
    <3>2. post' = [post EXCEPT ![p] = [r EXCEPT !.at = Len(file)]]
      BY <1>0, <2>4 DEF Seek
    <3>3. post' = [post EXCEPT ![p] = new]  BY <3>1, <3>2, HandledMeans
    <3>4. new.task.kind = "kuozhao"  BY <3>1 DEF Handled
    <3> HIDE DEF new
    <3> QED BY <1>0, <3>1, <3>3, <3>4, KnownByOne
  <2> QED BY <1>4, <2>1, <2>2, <2>3, <2>4 DEF Handler
<1>5. CASE Configure
  BY <1>1, <1>5 DEF Configure, MultiSet, SetReaches, SetFails
<1>6. ASSUME NEW s \in Slaves, Die(s) PROVE KnownInv'
  <2>1. post' = [p \in Posts |-> IF post[p] = None THEN None
                                 ELSE [post[p] EXCEPT !.broken = TRUE]]
    BY <1>6 DEF Die
  <2>2. ASSUME NEW p \in Posts, Serving(p, "alarm")' PROVE post'[p].broken
    <3>1. post[p] # None /\ post[p] \in Request  BY <1>0, <2>1, <2>2 DEF Serving
    <3>2. post'[p] = [post[p] EXCEPT !.broken = TRUE]  BY <2>1, <3>1
    <3> QED BY <3>1, <3>2 DEF Request
  <2> QED BY <2>2 DEF KnownInv
<1>7. ASSUME NEW s \in Slaves, Start(s) PROVE KnownInv'
  <2>1. /\ UNCHANGED post /\ up' = up \cup {s} /\ s \notin up
        /\ counts' = [counts EXCEPT ![s] = [h \in Hashes |-> 0]]
    BY <1>7 DEF Start
  <2>2. \A x \in up : counts'[x] = counts[x]  BY <1>0, <2>1 DEF AlarmTypes
  <2> QED BY <1>h, <2>1, <2>2, KnownStays
<1>8. CASE UNCHANGED vars  BY <1>1, <1>8 DEF vars
<1> QED BY <1>2, <1>3, <1>4, <1>5, <1>6, <1>7, <1>8 DEF Next, Work

\* At first there is no request.
LEMMA KnownInvariant == Spec => [](BaseInv /\ HistoryTypes /\ KnownInv)
<1>1. Init => KnownInv  BY DEF Init, KnownInv, Serving
<1>2. BaseInv /\ HistoryTypes /\ KnownInv /\ [Next]_vars => KnownInv'
  BY SlavesAssumption, KnownStep DEF BaseInv
<1> QED BY <1>1, <1>2, BaseInvariant, HistoryInvariant, PTL DEF Spec

\* A request about an alarm is given up only by its judgement.
LEMMA OnlyJudged ==
  ASSUME SlavesAssumption, AlarmInv, [Next]_vars, NEW p \in Posts, Serving(p, "alarm"),
         post'[p] = None
  PROVE  JudgeQueryTrie(p)
<1> USE DEF lists, receipt, alarms, platform
<1>0. post \in [Posts -> Request \cup {None}] /\ post[p] \in Request /\ post[p] # None
      /\ None \notin Request /\ post[p].task.kind = "alarm"
  BY DEF AlarmInv, AlarmTypes, Serving, SlavesAssumption
<1>1. post' # post  BY <1>0
<1>2. ASSUME NEW s \in Slaves, Receipt(s) PROVE FALSE
  BY <1>1, <1>2 DEF Receipt, Storage, Stat, Receive
<1>3. ASSUME NEW s \in Slaves, NEW t \in Senders, Sender(s, t) PROVE FALSE
  <2>1. ASSUME NEW q \in Posts, Post(s, t, q) PROVE post'[p] = post[p]
    BY <1>0, <2>1 DEF Post
  <2> QED BY <1>0, <1>1, <1>3, <2>1 DEF Sender, Take, PostFails, InitFails, PostReturns
<1>4. ASSUME NEW q \in Posts, Handler(q), ~JudgeQueryTrie(p) PROVE FALSE
  <2>1. q = p
    BY <1>0, <1>4 DEF Handler, AskSlave, AskFails, JudgeQueryTrie, Seek, WriteAt, OpenFails
  <2>2. ~Seek(p) /\ ~WriteAt(p) /\ ~OpenFails(p)
    BY <1>0 DEF Seek, WriteAt, OpenFails, Writing, Serving
  <2>3. ASSUME NEW s \in Slaves, AskSlave(p, s) PROVE FALSE
    <3> DEFINE r == post[p]  n == counts[s][Hash[r.task.rec]]
               new == Handled(r, r.waiting \ {s}, r.cnt + n, r.at, r.broken)
    <3>1. post' = [post EXCEPT ![p] = [r EXCEPT !.waiting = @ \ {s}, !.cnt = @ + n]]
      BY <1>0, <2>3 DEF AskSlave, AddCount
    <3>2. post' = [post EXCEPT ![p] = new]  BY <1>0, <3>1, HandledMeans
    <3>3. n \in Nat /\ r.cnt \in Nat
      BY <1>0, RequestMeans, TaskHasHash DEF AlarmInv, AlarmTypes
    <3>4. r.cnt + n \in Nat  BY ONLY <3>3
    <3> HIDE DEF n
    <3>5. new \in Request  BY <1>0, <3>4 DEF Handled, Request
    <3> HIDE DEF new
    <3> QED BY <1>0, <3>2, <3>5
  <2>4. ASSUME NEW s \in Slaves, AskFails(p, s) PROVE FALSE
    <3> DEFINE r == post[p]  new == Handled(r, r.waiting \ {s}, r.cnt, r.at, TRUE)
    <3>1. post' = [post EXCEPT ![p] = [r EXCEPT !.waiting = @ \ {s}, !.broken = TRUE]]
      BY <1>0, <2>4 DEF AskFails
    <3>2. [r EXCEPT !.waiting = r.waiting \ {s}, !.broken = TRUE] = new
      BY <1>0, HandledMeans
    <3>3. post' = [post EXCEPT ![p] = new]  BY <3>1, <3>2
    <3>4. new \in Request  BY <1>0 DEF Handled, Request
    <3> HIDE DEF new
    <3> QED BY <1>0, <3>3, <3>4
  <2> QED BY <1>0, <1>4, <2>1, <2>2, <2>3, <2>4 DEF Handler
<1>5. CASE Configure
  BY <1>1, <1>5 DEF Configure, MultiSet, SetReaches, SetFails
<1>6. ASSUME NEW s \in Slaves, Die(s) PROVE FALSE
  <2> DEFINE r == post[p]
  <2>1. post'[p] = [r EXCEPT !.broken = TRUE]  BY <1>0, <1>6 DEF Die
  <2>2. [r EXCEPT !.broken = TRUE] \in Request  BY <1>0 DEF Request
  <2> QED BY <1>0, <2>1, <2>2
<1>7. ASSUME NEW s \in Slaves, Start(s) PROVE FALSE
  BY <1>1, <1>7 DEF Start
<1>8. CASE UNCHANGED vars  BY <1>1, <1>8 DEF vars
<1> QED BY <1>2, <1>3, <1>4, <1>5, <1>6, <1>7, <1>8 DEF Next, Work

\* The platform sends a mail when a slave had counted the query before the alarm came,
\* every slave was asked and none died, for any slaves, senders and requests.
THEOREM KnownIsMailed == Spec => MailWhenKnown
<1>1. ASSUME SlavesAssumption, AlarmInv, KnownInv, [Next]_vars, NEW p \in Posts,
             Serving(p, "alarm"), post[p].known, ~post[p].broken, post'[p] = None
      PROVE  mails'[post[p].task.rec] = mails[post[p].task.rec] + 1
  <2>1. JudgeQueryTrie(p)  BY <1>1, OnlyJudged
  <2>2. post[p].waiting = {}  BY <2>1 DEF JudgeQueryTrie
  <2>3. post[p].cnt > 0  BY <1>1, <2>2 DEF KnownInv
  <2>4. post[p] \in Request  BY <1>1 DEF AlarmInv, AlarmTypes, Serving
  <2>5. post[p].task.rec \in Records  BY <2>4, RequestMeans DEF Task
  <2>6. mails' = [mails EXCEPT ![post[p].task.rec] = @ + 1]  BY <2>1, <2>3 DEF JudgeQueryTrie
  <2> QED BY <1>1, <2>5, <2>6 DEF AlarmInv, AlarmTypes
<1>2. BaseInv /\ KnownInv /\ [Next]_vars =>
        [\A p \in Posts :
           Serving(p, "alarm") /\ post[p].known /\ ~post[p].broken /\ post'[p] = None
             => mails'[post[p].task.rec] = mails[post[p].task.rec] + 1]_vars
  BY <1>1, SlavesAssumption DEF BaseInv
<1> QED BY <1>2, KnownInvariant, PTL DEF Spec, MailWhenKnown

-------------------------------------------------------------------------------
(* How often the platform judges an alarm. *)

\* The alarm of a record, and the requests the platform works on for it.
AlarmOf(m) == [kind |-> "alarm", rec |-> m]
Posted(m)  == {p \in Posts : post[p] # None /\ post[p].task = AlarmOf(m)}

\* How often a thread that has this in hand may still post the alarm of m.
Left(job, m) ==
  IF job # None /\ job.task = AlarmOf(m)
    THEN IF job.at = "post" THEN job.left + 1 ELSE job.left
    ELSE 0

Hands == Slaves \X Senders
Tries == 1..(MaxTries + 1)

\* The posts of the alarm of m that the threads have in hand.
InHand(m) == {u \in Hands \X Tries : u[2] <= Left(send[u[1][1]][u[1][2]], m)}

\* What was judged, is worked on, is in hand and is in line, in posts: an alarm that
\* stands in a line is good for a post and all that may follow it.
Owed(m) == judged[m] + Cardinality(Posted(m)) + Cardinality(InHand(m))

TriesInv ==
  \A m \in Records :
    Owed(m) + (MaxTries + 1) * Times(line, AlarmOf(m)) <= (MaxTries + 1) * raised[m]

\* A product grows with what is multiplied.
LEMMA Scaled ==
  ASSUME NEW k \in Nat, NEW a \in Nat, NEW d \in Nat
  PROVE  /\ k * (a + d) = k * a + k * d
         /\ k * a \in Nat /\ k * d \in Nat /\ k * 1 = k
OBVIOUS

\* What a thread has in hand is good for no more posts than there are tries.
LEMMA LeftBounded ==
  ASSUME SlavesAssumption, NEW job \in Sending \cup {None}, NEW m
  PROVE  Left(job, m) \in 0..(MaxTries + 1)
BY DEF Left, Sending, SlavesAssumption

\* The counts are numbers.
LEMMA OwedCounts ==
  ASSUME SlavesAssumption, NEW m
  PROVE  /\ IsFiniteSet(Hands \X Tries)
         /\ IsFiniteSet(Posted(m)) /\ Cardinality(Posted(m)) \in Nat
         /\ IsFiniteSet(InHand(m)) /\ Cardinality(InHand(m)) \in Nat
<1>1. IsFiniteSet(Slaves) /\ IsFiniteSet(Senders) /\ IsFiniteSet(Posts) /\ MaxTries \in Nat
  BY DEF SlavesAssumption
<1>2. IsFiniteSet(Tries)  BY <1>1, FS_Interval DEF Tries
<1>3. IsFiniteSet(Hands)  BY <1>1, FS_Product DEF Hands
<1>4. IsFiniteSet(Hands \X Tries)  BY <1>2, <1>3, FS_Product
<1>5. InHand(m) \in SUBSET (Hands \X Tries)  BY DEF InHand
<1>6. Posted(m) \in SUBSET Posts  BY DEF Posted
<1> QED BY <1>1, <1>4, <1>5, <1>6, FS_Subset, FS_CardinalityType

\* A post in hand names a thread and a number of posts that it still has.
LEMMA InHandIs ==
  ASSUME NEW m, NEW s \in Slaves, NEW t \in Senders, NEW i \in Tries
  PROVE  <<<<s, t>>, i>> \in InHand(m) <=> i <= Left(send[s][t], m)
BY DEF InHand, Hands

\* The same after a step.
LEMMA InHandNext ==
  ASSUME NEW m, NEW s \in Slaves, NEW t \in Senders, NEW i \in Tries
  PROVE  <<<<s, t>>, i>> \in InHand(m)' <=> i <= Left(send[s][t], m)'
BY DEF InHand, Hands

\* A place of InHand.
LEMMA InHandMeans ==
  ASSUME NEW u \in Hands \X Tries
  PROVE  \E s \in Slaves, t \in Senders, i \in Tries : u = <<<<s, t>>, i>>
BY DEF Hands

\* When no thread can post more, no more posts are in hand.
LEMMA FewerInHand ==
  ASSUME SlavesAssumption, AlarmTypes, AlarmTypes', NEW m,
         \A s \in Slaves, t \in Senders : Left(send[s][t], m)' <= Left(send[s][t], m)
  PROVE  Cardinality(InHand(m)') <= Cardinality(InHand(m))
<1>1. ASSUME NEW s \in Slaves, NEW t \in Senders
      PROVE  Left(send[s][t], m) \in Nat /\ Left(send[s][t], m)' \in Nat
  <2>1. send[s][t] \in Sending \cup {None} /\ send'[s][t] \in Sending \cup {None}
    BY DEF AlarmTypes
  <2>2. Left(send[s][t], m) \in 0..(MaxTries + 1) /\ Left(send'[s][t], m) \in 0..(MaxTries + 1)
    BY <2>1, LeftBounded
  <2>3. Left(send[s][t], m)' = Left(send'[s][t], m)  BY DEF Left, AlarmOf
  <2> QED BY <2>2, <2>3
<1>2. ASSUME NEW u \in InHand(m)' PROVE u \in InHand(m)
  <2>1. PICK s \in Slaves, t \in Senders, i \in Tries : u = <<<<s, t>>, i>>
    BY <1>2, InHandMeans DEF InHand
  <2>2. i <= Left(send[s][t], m)'  BY <1>2, <2>1, InHandNext
  <2>3. i \in Nat  BY DEF Tries, SlavesAssumption
  <2>4. i <= Left(send[s][t], m)  BY <1>1, <2>2, <2>3
  <2> QED BY <2>1, <2>4, InHandIs
<1>3. IsFiniteSet(InHand(m)) /\ InHand(m)' \in SUBSET InHand(m)  BY <1>2, OwedCounts
<1> QED BY <1>3, FS_Subset

\* The posts in hand before and after one thread goes on, whose job was good for old
\* posts and is good for new ones.
HandGoes(before, after, old, new) ==
  /\ after \in Nat
  /\ new = 0 /\ old = 0            => after = before
  /\ old = new + 1                 => before = after + 1
  /\ old = 0 /\ new = MaxTries + 1 => after = before + (MaxTries + 1)

\* A thread of which nothing is in hand takes an alarm, or a thread posts one.
LEMMA OneHandChanges ==
  ASSUME SlavesAssumption, AlarmTypes, NEW s \in Slaves, NEW t \in Senders,
         NEW job \in Sending \cup {None}, send' = [send EXCEPT ![s][t] = job], NEW m
  PROVE  HandGoes(Cardinality(InHand(m)), Cardinality(InHand(m)'),
                  Left(send[s][t], m), Left(job, m))
<1> DEFINE old == Left(send[s][t], m)  new == Left(job, m)
<1>0. MaxTries \in Nat  BY DEF SlavesAssumption
<1>1. /\ send'[s][t] = job
      /\ \A x \in Slaves, y \in Senders : x # s \/ y # t => send'[x][y] = send[x][y]
  BY DEF AlarmTypes
<1>2. old \in 0..(MaxTries + 1) /\ new \in 0..(MaxTries + 1)
  <2>1. send[s][t] \in Sending \cup {None}  BY DEF AlarmTypes
  <2> QED BY <2>1, LeftBounded
<1>3. ASSUME NEW i \in Tries
      PROVE  /\ <<<<s, t>>, i>> \in InHand(m) <=> i <= old
             /\ <<<<s, t>>, i>> \in InHand(m)' <=> i <= new
  <2>1. Left(send[s][t], m)' = new  BY <1>1 DEF Left, AlarmOf
  <2> QED BY <2>1, InHandIs, InHandNext
<1>4. ASSUME NEW x \in Slaves, NEW y \in Senders, NEW i \in Tries, x # s \/ y # t
      PROVE  <<<<x, y>>, i>> \in InHand(m)' <=> <<<<x, y>>, i>> \in InHand(m)
  <2>1. send'[x][y] = send[x][y]  BY <1>1, <1>4
  <2>2. Left(send[x][y], m)' = Left(send[x][y], m)  BY <2>1 DEF Left, AlarmOf
  <2> QED BY <2>2, InHandIs, InHandNext
<1>5. /\ IsFiniteSet(Hands \X Tries) /\ InHand(m) \in SUBSET (Hands \X Tries)
      /\ InHand(m)' \in SUBSET (Hands \X Tries)
  BY OwedCounts DEF InHand, Hands, Tries
<1>6. /\ IsFiniteSet(InHand(m)) /\ IsFiniteSet(InHand(m)')
      /\ Cardinality(InHand(m)) \in Nat /\ Cardinality(InHand(m)') \in Nat
  BY <1>5, FS_Subset, FS_CardinalityType
<1> HIDE DEF old, new
<1>e. ASSUME NEW u \in Hands \X Tries
      PROVE  \E x \in Slaves, y \in Senders, i \in Tries : u = <<<<x, y>>, i>>
  BY InHandMeans
<1>7. ASSUME new = 0, old = 0 PROVE InHand(m)' = InHand(m)
  <2>1. ASSUME NEW u \in Hands \X Tries PROVE u \in InHand(m)' <=> u \in InHand(m)
    <3>1. PICK x \in Slaves, y \in Senders, i \in Tries : u = <<<<x, y>>, i>>  BY <1>e
    <3>2. CASE x = s /\ y = t  BY <1>3, <1>7, <3>1, <3>2
    <3> QED BY <1>4, <3>1, <3>2
  <2> QED BY <1>5, <2>1
<1>8. ASSUME old = new + 1 PROVE Cardinality(InHand(m)) = Cardinality(InHand(m)') + 1
  <2> DEFINE place == <<<<s, t>>, old>>
  <2>1. old \in Tries  BY <1>0, <1>2, <1>8 DEF Tries
  <2>2. place \in InHand(m) /\ place \notin InHand(m)' /\ place \in Hands \X Tries
    <3>1. old <= old /\ ~(old <= new)  BY <1>2, <1>8
    <3>2. place \in InHand(m) /\ place \notin InHand(m)'  BY <1>3, <2>1, <3>1
    <3> QED BY <1>5, <3>2
  <2>3. ASSUME NEW u \in Hands \X Tries, u # place PROVE u \in InHand(m) <=> u \in InHand(m)'
    <3>1. PICK x \in Slaves, y \in Senders, i \in Tries : u = <<<<x, y>>, i>>  BY <1>e
    <3>2. CASE x = s /\ y = t
      <4>1. i # old  BY <2>3, <3>1, <3>2
      <4>2. i <= old <=> i <= new
        <5>1. i \in Nat  BY <1>0 DEF Tries
        <5> QED BY <1>2, <1>8, <4>1, <5>1
      <4> QED BY <1>3, <3>1, <3>2, <4>2
    <3> QED BY <1>4, <3>1, <3>2
  <2> HIDE DEF place
  <2> DEFINE all == Hands \X Tries  before == InHand(m)  after == InHand(m)'
  <2>4. /\ IsFiniteSet(all) /\ before \in SUBSET all /\ after \in SUBSET all
        /\ place \in all /\ place \in before /\ place \notin after
        /\ \A u \in all : u # place => (u \in before <=> u \in after)
    BY <1>5, <2>2, <2>3
  <2> HIDE DEF all, before, after
  <2>5. Cardinality(before) = Cardinality(after) + 1  BY ONLY <2>4, OnePlaceChanges
  <2> QED BY <2>5 DEF before, after
<1>9. ASSUME old = 0, new = MaxTries + 1
      PROVE  Cardinality(InHand(m)') = Cardinality(InHand(m)) + (MaxTries + 1)
  <2> DEFINE added == {<<s, t>>} \X Tries
  <2>1. ASSUME NEW i \in Tries PROVE <<<<s, t>>, i>> \notin InHand(m) /\ <<<<s, t>>, i>> \in InHand(m)'
    <3>1. ~(i <= 0) /\ i <= MaxTries + 1  BY <1>0 DEF Tries
    <3> QED BY <1>3, <1>9, <3>1
  <2>2. InHand(m)' = InHand(m) \cup added
    <3>1. ASSUME NEW u \in Hands \X Tries PROVE u \in InHand(m)' <=> u \in InHand(m) \cup added
      <4>1. PICK x \in Slaves, y \in Senders, i \in Tries : u = <<<<x, y>>, i>>  BY <1>e
      <4>2. CASE x = s /\ y = t  BY <2>1, <4>1, <4>2
      <4>3. CASE x # s \/ y # t  BY <1>4, <4>1, <4>3
      <4> QED BY <4>2, <4>3
    <3>2. added \subseteq Hands \X Tries  BY DEF Hands
    <3> QED BY <1>5, <3>1, <3>2
  <2>3. InHand(m) \cap added = {}  BY <2>1
  <2>4. IsFiniteSet(added) /\ Cardinality(added) = MaxTries + 1
    <3>1. IsFiniteSet({<<s, t>>}) /\ Cardinality({<<s, t>>}) = 1  BY FS_Singleton
    <3>2. IsFiniteSet(Tries) /\ Cardinality(Tries) = MaxTries + 1
      <4>1. 1 \in Int /\ MaxTries + 1 \in Int  BY <1>0
      <4>2. IsFiniteSet(1..(MaxTries + 1)) /\ Cardinality(1..(MaxTries + 1))
              = IF 1 > MaxTries + 1 THEN 0 ELSE (MaxTries + 1) - 1 + 1
        BY ONLY <4>1, FS_Interval
      <4> QED BY <1>0, <4>2 DEF Tries
    <3>3. IsFiniteSet(added) /\ Cardinality(added) = 1 * (MaxTries + 1)
      BY <3>1, <3>2, FS_Product
    <3> QED BY <1>0, <3>3
  <2> HIDE DEF added
  <2>5. Cardinality(InHand(m) \cup added)
          = Cardinality(InHand(m)) + Cardinality(added) - Cardinality({})
    BY <1>6, <2>3, <2>4, FS_Union
  <2>6. Cardinality({}) = 0  BY FS_EmptySet
  <2> QED BY <1>0, <1>6, <2>2, <2>4, <2>5, <2>6
<1> QED BY <1>6, <1>7, <1>8, <1>9 DEF old, new, HandGoes

\* The tasks of the alarm threads are lines.
LEMMA TaskLines ==
  ASSUME SlavesAssumption, AlarmTypes, NEW m
  PROVE  /\ AreLines(line, Slaves, Task) /\ IsFiniteSet(Slaves)
         /\ Times(line, AlarmOf(m)) \in Nat
<1>1. AreLines(line, Slaves, Task) /\ IsFiniteSet(Slaves)
  BY DEF AlarmTypes, AreLines, SlavesAssumption
<1> QED BY <1>1, TimesOf

\* A request about an alarm is begun or ended, and no other one.
LEMMA OnePostChanges ==
  ASSUME SlavesAssumption, AlarmTypes, NEW p \in Posts, NEW new,
         post' = [post EXCEPT ![p] = new], NEW m
  PROVE  LET is  == post[p] # None /\ post[p].task = AlarmOf(m)
             has == new # None /\ new.task = AlarmOf(m)
         IN /\ Cardinality(Posted(m)') \in Nat
            /\ (is <=> has)  => Cardinality(Posted(m)') = Cardinality(Posted(m))
            /\ ~is /\ has   => Cardinality(Posted(m)') = Cardinality(Posted(m)) + 1
            /\ is /\ ~has   => Cardinality(Posted(m)) = Cardinality(Posted(m)') + 1
<1> DEFINE is     == post[p] # None /\ post[p].task = AlarmOf(m)
           has    == new # None /\ new.task = AlarmOf(m)
           before == Posted(m)
           after  == Posted(m)'
<1>1. post'[p] = new /\ \A q \in Posts : q # p => post'[q] = post[q]  BY DEF AlarmTypes
<1>2. /\ IsFiniteSet(Posts) /\ before \in SUBSET Posts /\ after \in SUBSET Posts
      /\ p \in before <=> is
      /\ p \in after <=> has
      /\ \A q \in Posts : q # p => (q \in before <=> q \in after)
  BY <1>1 DEF Posted, AlarmOf, SlavesAssumption
<1> HIDE DEF is, has, before, after
<1>3. /\ Cardinality(after) \in Nat
      /\ (is <=> has) => Cardinality(before) = Cardinality(after)
      /\ ~is /\ has   => Cardinality(after) = Cardinality(before) + 1
      /\ is /\ ~has   => Cardinality(before) = Cardinality(after) + 1
  BY ONLY <1>2, p \in Posts, OnePlaceChanges
<1> QED BY <1>3 DEF is, has, before, after

\* A step that owes no more posts of an alarm, raises none and lets none into a line.
LEMMA TriesKept ==
  ASSUME NEW k \in Nat, NEW o \in Nat, NEW o1 \in Nat, NEW n \in Nat, NEW n1 \in Nat,
         NEW r \in Nat, o + k * n <= k * r, o1 <= o, n1 <= n
  PROVE  o1 + k * n1 <= k * r
<1>1. n - n1 \in Nat /\ n = n1 + (n - n1)  OBVIOUS
<1>2. k * n = k * n1 + k * (n - n1) /\ k * n1 \in Nat /\ k * (n - n1) \in Nat
  BY <1>1, Scaled
<1>3. k * r \in Nat  BY Scaled
<1> QED BY <1>2, <1>3

\* What is owed is a number.
LEMMA OwedIs ==
  ASSUME SlavesAssumption, HistoryTypes, NEW m \in Records
  PROVE  /\ Owed(m) \in Nat /\ judged[m] \in Nat /\ raised[m] \in Nat
         /\ MaxTries + 1 \in Nat
         /\ Owed(m) = judged[m] + Cardinality(Posted(m)) + Cardinality(InHand(m))
<1>1. MaxTries + 1 \in Nat  BY DEF SlavesAssumption
<1>2. judged[m] \in Nat /\ raised[m] \in Nat  BY DEF HistoryTypes
<1> QED BY <1>1, <1>2, OwedCounts DEF Owed

\* A step that changes nothing of it.
LEMMA TriesUntouched ==
  ASSUME TriesInv, UNCHANGED <<judged, raised, post, send, line>>
  PROVE  TriesInv'
BY DEF TriesInv, Owed, Posted, InHand, Left, Times, Places, AlarmOf, Hands, Tries

\* Receive raises as many alarms as it adds to the line.
LEMMA TriesByReceive ==
  ASSUME SlavesAssumption, ListsInv, AlarmTypes, HistoryTypes, TriesInv,
         NEW s \in Slaves, NEW m \in Records, Receive(s, m)
  PROVE  TriesInv'
<1> DEFINE n == Cardinality({i \in DOMAIN checklists[s] : m \in Catches[checklists[s][i].rule]})
<1>1. n \in Nat  BY ONLY ListsInv, s \in Slaves, MetAreCounted
<1>2. /\ line' = [line EXCEPT ![s] = @ \o [i \in 1..n |-> AlarmOf(m)]]
      /\ raised' = [raised EXCEPT ![m] = @ + n]
      /\ UNCHANGED <<judged, post, send>>
  BY DEF Receive, CheckAbnormal, AlarmOf, platform
<1> HIDE DEF n
<1>3. Extends(line, line', s, AlarmOf(m), n)  BY <1>2 DEF Extends
<1>4. AlarmOf(m) \in Task  BY DEF AlarmOf, Task
<1> SUFFICES ASSUME NEW x \in Records
             PROVE  (Owed(x) + (MaxTries + 1) * Times(line, AlarmOf(x))
                       <= (MaxTries + 1) * raised[x])'
  BY DEF TriesInv
<1> DEFINE k == MaxTries + 1  o == Owed(x)  a == Times(line, AlarmOf(x))  r == raised[x]
           b == Times(line', AlarmOf(x))
<1>5. o + k * a <= k * r  BY DEF TriesInv
<1>6. o \in Nat /\ a \in Nat /\ r \in Nat /\ k \in Nat  BY OwedIs, TaskLines
<1>7. b = IF AlarmOf(x) = AlarmOf(m) THEN a + n ELSE a
  BY <1>1, <1>3, <1>4, TaskLines, TimesExtend
<1>8. AlarmOf(x) = AlarmOf(m) <=> x = m  BY DEF AlarmOf
<1>9. raised'[x] = IF x = m THEN r + n ELSE r  BY <1>2 DEF HistoryTypes
<1>10. Owed(x)' = o
  BY <1>2 DEF Owed, Posted, InHand, Left, AlarmOf, Hands, Tries
<1>11. Times(line, AlarmOf(x))' = b  BY DEF AlarmOf, Times, Places
<1> HIDE DEF k, o, a, r, b
<1>12. k * (a + n) = k * a + k * n /\ k * (r + n) = k * r + k * n
       /\ k * a \in Nat /\ k * n \in Nat /\ k * r \in Nat
  <2>1. k * (a + n) = k * a + k * n /\ k * a \in Nat /\ k * n \in Nat
    BY ONLY <1>1, <1>6, Scaled
  <2>2. k * (r + n) = k * r + k * n /\ k * r \in Nat
    BY ONLY <1>1, <1>6, Scaled
  <2> QED BY <2>1, <2>2
<1>13. o + k * b <= k * raised'[x]
  <2>1. CASE x = m
    <3>1. b = a + n /\ raised'[x] = r + n  BY <1>7, <1>8, <1>9, <2>1
    <3> QED BY <1>5, <1>6, <1>12, <3>1
  <2>2. CASE x # m
    <3>1. b = a /\ raised'[x] = r  BY <1>7, <1>8, <1>9, <2>2
    <3> QED BY <1>5, <3>1
  <2> QED BY <2>1, <2>2
<1> QED BY <1>10, <1>11, <1>13 DEF k

\* A thread that takes an alarm may post it as often as the alarm may be posted.
LEMMA TriesByTake ==
  ASSUME SlavesAssumption, AlarmTypes, HistoryTypes, TriesInv,
         NEW s \in Slaves, NEW t \in Senders, Take(s, t)
  PROVE  TriesInv'
<1> DEFINE task == Head(line[s])
<1>0. line[s] # <<>> /\ task \in Task  BY DEF Take, AlarmTypes
<1>2. PICK job \in Sending : job = Job(task, MaxTries, "post", None)
  <2>1. MaxTries \in 0..MaxTries  BY DEF SlavesAssumption
  <2>2. task \in Task  BY <1>0
  <2> HIDE DEF task
  <2>3. Job(task, MaxTries, "post", None) \in Sending  BY ONLY <2>1, <2>2, JobIsSending
  <2> QED BY <2>3
<1>1. /\ send[s][t] = None /\ send' = [send EXCEPT ![s][t] = job]
      /\ UNCHANGED <<judged, raised, post>>
      /\ Leaves(line, line', s)
  BY <1>2 DEF Take, Leaves, receipt, platform
<1>3. SUFFICES ASSUME NEW x \in Records
               PROVE  (Owed(x) + (MaxTries + 1) * Times(line, AlarmOf(x))
                         <= (MaxTries + 1) * raised[x])'
  BY DEF TriesInv
<1> DEFINE k == MaxTries + 1  o == Owed(x)  a == Times(line, AlarmOf(x))  r == raised[x]
           b == Times(line', AlarmOf(x))  h == Cardinality(InHand(x))
           g == Cardinality(InHand(x)')  l == Left(job, x)
<1>5. o + k * a <= k * r  BY DEF TriesInv
<1>6. o \in Nat /\ a \in Nat /\ r \in Nat /\ k \in Nat /\ h \in Nat
  BY OwedIs, OwedCounts, TaskLines
<1>7. a = IF AlarmOf(x) = task THEN b + 1 ELSE b
  BY <1>1, TaskLines, TimesLeave
<1>8. l = 0 \/ (l = k /\ AlarmOf(x) = task)
  <2>1. job.task = task /\ job.at = "post" /\ job.left = MaxTries  BY <1>2 DEF Job
  <2> QED BY <2>1 DEF Left
<1>9. Left(send[s][t], x) = 0  BY <1>1 DEF Left
<1>10. g \in Nat /\ (l = 0 => g = h) /\ (l = k => g = h + k)
  <2>1. job \in Sending \cup {None} /\ send' = [send EXCEPT ![s][t] = job]  BY <1>1, <1>2
  <2>2. HandGoes(h, g, Left(send[s][t], x), l)  BY <2>1, OneHandChanges
  <2> QED BY ONLY <1>9, <2>2 DEF HandGoes
<1>11. Owed(x)' + h = o + g
  <2>1. Owed(x)' = judged[x] + Cardinality(Posted(x)) + g
    BY <1>1 DEF Owed, Posted, AlarmOf
  <2>2. o = judged[x] + Cardinality(Posted(x)) + h  BY DEF Owed
  <2>3. judged[x] \in Nat /\ Cardinality(Posted(x)) \in Nat  BY OwedIs, OwedCounts
  <2> HIDE DEF o, h, g
  <2> QED BY <1>6, <1>10, <2>1, <2>2, <2>3
<1>12. Times(line, AlarmOf(x))' = b /\ raised'[x] = r  BY <1>1 DEF AlarmOf, Times, Places
<1>13. b \in Nat
  <2>1. AreLines(line', Slaves, Task) /\ IsFiniteSet(Slaves)  BY <1>1, TaskLines, TimesLeave
  <2> QED BY <2>1, TimesOf
<1>14. Owed(x)' \in Nat
  <2>1. judged'[x] \in Nat  BY <1>1, OwedIs
  <2>2. Posted(x)' = Posted(x)  BY <1>1 DEF Posted, AlarmOf
  <2>3. Cardinality(Posted(x)') \in Nat  BY <2>2, OwedCounts
  <2>4. Owed(x)' = judged'[x] + Cardinality(Posted(x)') + g  BY DEF Owed
  <2> HIDE DEF g
  <2> QED BY <1>10, <2>1, <2>3, <2>4
<1> DEFINE o1 == Owed(x)'
<1>16. o1 \in Nat /\ o1 + h = o + g  BY <1>11, <1>14
<1> HIDE DEF k, o, a, r, b, h, g, l, o1, task
<1>17. o1 + k * b <= k * r
  <2>1. k * (b + 1) = k * b + k /\ k * b \in Nat /\ k * r \in Nat
    <3>1. k * (b + 1) = k * b + k * 1 /\ k * b \in Nat /\ k * 1 = k
      BY ONLY <1>6, <1>13, 1 \in Nat, Scaled
    <3>2. k * r \in Nat  BY ONLY <1>6, Scaled
    <3> QED BY <3>1, <3>2
  <2>2. CASE AlarmOf(x) = task
    <3>1. a = b + 1 /\ g <= h + k  BY <1>6, <1>7, <1>8, <1>10, <2>2
    <3>2. o1 <= o + k  BY <1>6, <1>10, <1>16, <3>1
    <3> QED BY <1>5, <1>6, <1>16, <2>1, <3>1, <3>2
  <2>3. CASE AlarmOf(x) # task
    <3>1. a = b /\ g = h  BY <1>7, <1>8, <1>10, <2>3
    <3>2. o1 = o  BY <1>6, <1>10, <1>16, <3>1
    <3> QED BY <1>5, <3>1, <3>2
  <2> QED BY <2>2, <2>3
<1> QED BY <1>12, <1>17 DEF k, o1, b

\* A step after which no more posts are owed, and the lines have no more alarms.
LEMMA TriesFall ==
  ASSUME SlavesAssumption, AlarmTypes, AlarmTypes', HistoryTypes, HistoryTypes', TriesInv,
         raised' = raised,
         \A m \in Records : Owed(m)' <= Owed(m) /\ Owed(m)' \in Nat,
         line' = line \/ \E s \in Slaves : Empties(line, line', s)
  PROVE  TriesInv'
<1> SUFFICES ASSUME NEW m \in Records
             PROVE  (Owed(m) + (MaxTries + 1) * Times(line, AlarmOf(m))
                       <= (MaxTries + 1) * raised[m])'
  BY DEF TriesInv
<1> DEFINE a == Times(line, AlarmOf(m))  b == Times(line', AlarmOf(m))
<1>1. a \in Nat /\ b \in Nat /\ b <= a
  <2>1. CASE line' = line  BY <2>1, TaskLines
  <2>2. ASSUME NEW s \in Slaves, Empties(line, line', s) PROVE a \in Nat /\ b \in Nat /\ b <= a
    <3>1. AreLines(line', Slaves, Task) /\ IsFiniteSet(Slaves) /\ b <= a
      BY <2>2, TaskLines, TimesEmptied
    <3> QED BY <3>1, TaskLines, TimesOf
  <2> QED BY <2>1, <2>2
<1>2. Times(line, AlarmOf(m))' = b  BY DEF AlarmOf, Times, Places
<1>3. /\ Owed(m) \in Nat /\ Owed(m)' \in Nat /\ Owed(m)' <= Owed(m)
      /\ raised[m] \in Nat /\ MaxTries + 1 \in Nat
      /\ Owed(m) + (MaxTries + 1) * a <= (MaxTries + 1) * raised[m]
  BY OwedIs DEF TriesInv
<1> HIDE DEF a, b
<1>4. Owed(m)' + (MaxTries + 1) * b <= (MaxTries + 1) * raised[m]
  BY ONLY <1>1, <1>3, TriesKept
<1> QED BY <1>2, <1>4

\* What is owed after a step, from what each part of it has become.
LEMMA OwedFalls ==
  ASSUME SlavesAssumption, HistoryTypes, HistoryTypes', NEW m \in Records,
         Cardinality(Posted(m)') \in Nat, Cardinality(InHand(m)') \in Nat,
         judged'[m] + Cardinality(Posted(m)') + Cardinality(InHand(m)')
           <= judged[m] + Cardinality(Posted(m)) + Cardinality(InHand(m))
  PROVE  Owed(m)' <= Owed(m) /\ Owed(m)' \in Nat
<1>1. judged'[m] \in Nat  BY DEF HistoryTypes
<1>2. Owed(m)' = judged'[m] + Cardinality(Posted(m)') + Cardinality(InHand(m)')
  BY DEF Owed
<1>3. Owed(m) = judged[m] + Cardinality(Posted(m)) + Cardinality(InHand(m))
  BY DEF Owed
<1> QED BY <1>1, <1>2, <1>3

\* A thread posts its alarm, which leaves it with one post less, and the platform
\* with a request.
LEMMA OwedByPost ==
  ASSUME SlavesAssumption, AlarmTypes, HistoryTypes, HistoryTypes',
         NEW s \in Slaves, NEW t \in Senders, NEW p \in Posts, Post(s, t, p),
         NEW m \in Records
  PROVE  Owed(m)' <= Owed(m) /\ Owed(m)' \in Nat
<1>1. /\ post[p] = None /\ send[s][t] # None /\ send[s][t].at = "post"
      /\ send[s][t] \in Sending /\ judged' = judged
  BY DEF Post, Has, AlarmTypes
<1>2. PICK task \in Task, left \in 0..MaxTries : task = send[s][t].task /\ left = send[s][t].left
  BY <1>1, SendingMeans
<1>3. PICK job \in Sending : job = Job(task, left, "wait", p)
  BY <1>2, JobIsSending
<1>4. PICK new \in Request : post' = [post EXCEPT ![p] = new] /\ new.task = task
  <2> DEFINE known == \E x \in up : counts[x][Hash[task.rec]] > 0
             r     == [task |-> task, waiting |-> IF task.kind = "alarm" THEN Slaves ELSE {},
                       cnt |-> 0, at |-> -1, known |-> known, broken |-> FALSE]
  <2>1. post' = [post EXCEPT ![p] = r]  BY <1>2 DEF Post
  <2>2. known \in BOOLEAN  OBVIOUS
  <2> HIDE DEF known
  <2>3. r \in Request /\ r.task = task  BY <2>2 DEF Request
  <2> HIDE DEF r
  <2> QED BY <2>1, <2>3
<1>5. send' = [send EXCEPT ![s][t] = job]  BY <1>2, <1>3 DEF Post
<1>6. new # None  BY SlavesAssumption DEF SlavesAssumption
<1>7. Left(send[s][t], m) = IF task = AlarmOf(m) THEN left + 1 ELSE 0
  BY <1>1, <1>2 DEF Left
<1>8. Left(job, m) = IF task = AlarmOf(m) THEN left ELSE 0
  <2>1. job # None  BY SlavesAssumption DEF SlavesAssumption
  <2> QED BY <1>3, <2>1 DEF Left, Job
<1> DEFINE h == Cardinality(InHand(m))  g == Cardinality(InHand(m)')
           n == Cardinality(Posted(m))  c == Cardinality(Posted(m)')
<1>9. h \in Nat /\ n \in Nat  BY OwedCounts
<1>10. /\ c \in Nat
       /\ task = AlarmOf(m) => c = n + 1
       /\ task # AlarmOf(m) => c = n
  BY <1>1, <1>4, <1>6, OnePostChanges
<1>11. g \in Nat /\ g <= h /\ (task = AlarmOf(m) => g + 1 <= h)
  <2>1. HandGoes(h, g, Left(send[s][t], m), Left(job, m))  BY <1>3, <1>5, OneHandChanges
  <2> HIDE DEF h, g
  <2>2. CASE task # AlarmOf(m)
    <3>1. Left(send[s][t], m) = 0 /\ Left(job, m) = 0  BY <1>7, <1>8, <2>2
    <3> QED BY ONLY <1>9, <2>1, <2>2, <3>1 DEF HandGoes
  <2>3. CASE task = AlarmOf(m)
    <3>1. Left(send[s][t], m) = Left(job, m) + 1 /\ Left(job, m) \in Nat
      BY <1>2, <1>7, <1>8, <2>3 DEF SlavesAssumption
    <3>2. g \in Nat /\ h = g + 1  BY ONLY <2>1, <3>1 DEF HandGoes
    <3> QED BY ONLY <1>9, <3>2
  <2> QED BY <2>2, <2>3
<1>12. judged[m] \in Nat /\ judged'[m] = judged[m]  BY <1>1 DEF HistoryTypes
<1> HIDE DEF h, g, n, c
<1>13. judged'[m] + c + g <= judged[m] + n + h
  <2>1. c + g <= n + h  BY <1>9, <1>10, <1>11
  <2> QED BY <1>9, <1>10, <1>11, <1>12, <2>1
<1> QED BY <1>10, <1>11, <1>13, OwedFalls DEF h, g, n, c

\* A step that leaves the requests alone, and after which no thread can post more.
LEMMA OwedByFewer ==
  ASSUME SlavesAssumption, AlarmTypes, AlarmTypes', HistoryTypes, HistoryTypes',
         NEW m \in Records, judged' = judged, Posted(m)' = Posted(m),
         \A s \in Slaves, t \in Senders : Left(send[s][t], m)' <= Left(send[s][t], m)
  PROVE  Owed(m)' <= Owed(m) /\ Owed(m)' \in Nat
<1> DEFINE h == Cardinality(InHand(m))  g == Cardinality(InHand(m)')
           n == Cardinality(Posted(m))  c == Cardinality(Posted(m)')
<1>1. h \in Nat /\ n \in Nat /\ c = n  BY OwedCounts
<1>2. g \in Nat
  <2>1. InHand(m)' \in SUBSET (Hands \X Tries)  BY DEF InHand, Hands, Tries
  <2> QED BY <2>1, OwedCounts, FS_Subset, FS_CardinalityType
<1>3. g <= h  BY FewerInHand
<1>4. judged[m] \in Nat /\ judged'[m] = judged[m]  BY DEF HistoryTypes
<1> HIDE DEF h, g, n, c
<1>5. judged'[m] + c + g <= judged[m] + n + h  BY <1>1, <1>2, <1>3, <1>4
<1> QED BY <1>1, <1>2, <1>5, OwedFalls DEF h, g, n, c

\* A thread that moves alone, to a job with no more posts.
LEMMA OwedByOneHand ==
  ASSUME SlavesAssumption, AlarmTypes, AlarmTypes', HistoryTypes, HistoryTypes',
         NEW m \in Records, UNCHANGED <<judged, post>>,
         NEW s \in Slaves, NEW t \in Senders, NEW job \in Sending \cup {None},
         send' = [send EXCEPT ![s][t] = job], Left(job, m) <= Left(send[s][t], m)
  PROVE  Owed(m)' <= Owed(m) /\ Owed(m)' \in Nat
<1>1. ASSUME NEW x \in Slaves, NEW y \in Senders
      PROVE  Left(send[x][y], m)' <= Left(send[x][y], m)
  <2>1. Left(send[x][y], m)' = Left(send'[x][y], m)  BY DEF Left, AlarmOf
  <2>2. CASE x = s /\ y = t
    <3>1. send'[x][y] = job  BY <2>2 DEF AlarmTypes
    <3> QED BY <2>1, <2>2, <3>1
  <2>3. CASE x # s \/ y # t
    <3>1. send'[x][y] = send[x][y]  BY <2>3 DEF AlarmTypes
    <3>2. send[x][y] \in Sending \cup {None}  BY DEF AlarmTypes
    <3>3. Left(send[x][y], m) \in 0..(MaxTries + 1)  BY <3>2, LeftBounded
    <3>4. MaxTries \in Nat  BY DEF SlavesAssumption
    <3>5. Left(send[x][y], m) <= Left(send[x][y], m)  BY <3>3, <3>4
    <3> QED BY <2>1, <3>1, <3>5
  <2> QED BY <2>2, <2>3
<1>2. Posted(m)' = Posted(m)  BY DEF Posted, AlarmOf
<1> QED BY <1>1, <1>2, OwedByFewer

\* An alarm that is posted again has been counted as a try.
LEMMA OwedByRetry ==
  ASSUME SlavesAssumption, AlarmTypes, AlarmTypes', HistoryTypes, HistoryTypes',
         NEW m \in Records, NEW s \in Slaves, NEW t \in Senders,
         PostFails(s, t) \/ InitFails(s, t) \/ PostReturns(s, t)
  PROVE  Owed(m)' <= Owed(m) /\ Owed(m)' \in Nat
<1>1. send[s][t] # None /\ UNCHANGED <<judged, post>>
  BY DEF PostFails, InitFails, PostReturns, Has, platform
<1>2. PICK job \in Sending : job = send[s][t]  BY <1>1 DEF AlarmTypes
<1>3. /\ job # None /\ job.task \in Task /\ job.left \in 0..MaxTries /\ MaxTries \in Nat
  BY <1>1, <1>2, SendingMeans DEF SlavesAssumption
<1>4. Left(job, m) \in Nat
  BY <1>2, <1>3, LeftBounded
<1>5. PICK next \in Sending \cup {None} :
        send' = [send EXCEPT ![s][t] = next] /\ Left(next, m) <= Left(job, m)
  <2>1. Left(None, m) = 0  BY DEF Left
  <2>2. CASE send' = [send EXCEPT ![s][t] = None]
    <3>1. Left(None, m) <= Left(job, m)  BY <1>4, <2>1
    <3>2. None \in Sending \cup {None}  OBVIOUS
    <3> QED BY ONLY <2>2, <3>1, <3>2, Zenon
  <2>3. ASSUME Retries(job), send' = [send EXCEPT ![s][t] = Job(job.task, job.left - 1, "post", None)]
        PROVE  \E next \in Sending \cup {None} :
                 send' = [send EXCEPT ![s][t] = next] /\ Left(next, m) <= Left(job, m)
    <3>1. job.left > 0  BY <2>3 DEF Retries
    <3>2. job.left - 1 \in 0..MaxTries  BY <1>3, <3>1
    <3>3. PICK next \in Sending : next = Job(job.task, job.left - 1, "post", None)
      BY <1>3, <3>2, JobIsSending
    <3>4. Left(next, m) <= Left(job, m)
      <4>1. next.task = job.task /\ next.at = "post" /\ next.left = job.left - 1
        BY <3>3 DEF Job
      <4>2. CASE job.task = AlarmOf(m)
        <5>1. Left(job, m) >= job.left  BY <1>3, <4>2 DEF Left
        <5>2. Left(next, m) <= job.left  BY <1>3, <4>1 DEF Left
        <5> QED BY <1>3, <1>4, <3>3, <5>1, <5>2, LeftBounded
      <4>3. CASE job.task # AlarmOf(m)  BY <4>1, <4>3 DEF Left
      <4> QED BY <4>2, <4>3
    <3> QED BY <2>3, <3>3, <3>4
  <2>4. \/ send' = [send EXCEPT ![s][t] = None]
        \/ Retries(job) /\ send' = [send EXCEPT ![s][t] = Job(job.task, job.left - 1, "post", None)]
    BY <1>2 DEF PostFails, InitFails, PostReturns, LessOne
  <2> QED BY <2>2, <2>3, <2>4
<1> QED BY <1>1, <1>2, <1>5, OwedByOneHand

\* A request whose task stays the same is still one about the same alarm.
LEMMA PostedStays ==
  ASSUME \A p \in Posts : /\ post[p] = None <=> post'[p] = None
                          /\ post[p] # None => post'[p].task = post[p].task,
         NEW m
  PROVE  Posted(m)' = Posted(m)
BY DEF Posted, AlarmOf

\* An answer leaves every thread what it has to post.
LEMMA AnswerKeepsLeft ==
  ASSUME SlavesAssumption, AlarmTypes, NEW p \in Posts, Answer(p), NEW m,
         NEW s \in Slaves, NEW t \in Senders
  PROVE  Left(send[s][t], m)' <= Left(send[s][t], m)
<1> DEFINE job == send[s][t]
<1>1. send'[s][t] = IF job # None /\ job.at = "wait" /\ job.of = p
                      THEN [job EXCEPT !.at = "done"] ELSE job
  BY DEF Answer
<1>2. job \in Sending \cup {None}  BY DEF AlarmTypes
<1>3. Left(job, m) \in 0..(MaxTries + 1) /\ MaxTries \in Nat
  BY <1>2, LeftBounded DEF SlavesAssumption
<1>4. Left(job, m)' = Left(send'[s][t], m)  BY DEF Left, AlarmOf
<1>5. CASE send'[s][t] = job
  <2>1. Left(job, m)' = Left(job, m)  BY ONLY <1>4, <1>5
  <2>2. Left(job, m) <= Left(job, m)  BY <1>3
  <2> QED BY <2>1, <2>2
<1>6. CASE job # None /\ job.at = "wait" /\ send'[s][t] = [job EXCEPT !.at = "done"]
  <2>1. job \in Sending  BY <1>2, <1>6
  <2>2. /\ send'[s][t].task = job.task /\ send'[s][t].left = job.left
        /\ send'[s][t].at = "done"
    BY <1>6, <2>1 DEF Sending
  <2>3. Left(send'[s][t], m) <= Left(job, m)
    <3>1. Left(job, m) = IF job.task = AlarmOf(m) THEN job.left ELSE 0  BY <1>6 DEF Left
    <3>2. job.left \in 0..MaxTries  BY <2>1, SendingMeans
    <3>3. Left(send'[s][t], m) = 0 \/ (job.task = AlarmOf(m) /\ Left(send'[s][t], m) = job.left)
      BY <2>2 DEF Left
    <3> QED BY <1>3, <3>1, <3>2, <3>3
  <2> QED BY <1>4, <2>3
<1> QED BY <1>1, <1>5, <1>6

\* A request that is judged is counted as judged, and what the platform does besides
\* concerns no number of tries.
LEMMA OwedByHandler ==
  ASSUME SlavesAssumption, AlarmTypes, AlarmTypes', HistoryTypes, HistoryTypes',
         file \in Seq(Hashes), NEW p \in Posts, Handler(p), NEW m \in Records
  PROVE  Owed(m)' <= Owed(m) /\ Owed(m)' \in Nat
<1>0. post \in [Posts -> Request \cup {None}] /\ post' \in [Posts -> Request \cup {None}]
      /\ None \notin Request
  BY DEF AlarmTypes, SlavesAssumption
<1>s. ASSUME NEW s \in Slaves, NEW t \in Senders, send' = send
      PROVE  Left(send[s][t], m)' <= Left(send[s][t], m)
  <2>1. send[s][t] \in Sending \cup {None}  BY DEF AlarmTypes
  <2>2. Left(send[s][t], m) \in 0..(MaxTries + 1) /\ MaxTries \in Nat
    BY <2>1, LeftBounded DEF SlavesAssumption
  <2>3. Left(send[s][t], m)' = Left(send[s][t], m)  BY <1>s DEF Left, AlarmOf
  <2> QED BY <2>2, <2>3
<1>1. ASSUME NEW s \in Slaves, AskSlave(p, s) \/ AskFails(p, s) \/ Seek(p)
      PROVE  Owed(m)' <= Owed(m) /\ Owed(m)' \in Nat
  <2>1. UNCHANGED <<send, judged>> /\ post[p] # None /\ post[p] \in Request
    BY <1>0, <1>1 DEF AskSlave, AskFails, Seek, Serving, alarms
  <2>2. /\ \A q \in Posts : q # p => post'[q] = post[q]
        /\ post'[p].task = post[p].task /\ post'[p] # None
    <3> DEFINE r == post[p]
    <3>0. r.waiting \ {s} \in SUBSET Slaves /\ r.waiting \in SUBSET Slaves /\ r.cnt \in Nat
          /\ r.at \in Int /\ r.broken \in BOOLEAN /\ r \in Request
      BY <2>1, RequestMeans
    <3>1. PICK w \in SUBSET Slaves, c \in Nat, a \in Int, b \in BOOLEAN :
            post' = [post EXCEPT ![p] = Handled(r, w, c, a, b)]
      <4>1. CASE AskSlave(p, s)
        <5> DEFINE n == counts[s][Hash[r.task.rec]]
        <5>1. post' = [post EXCEPT ![p] = [r EXCEPT !.waiting = @ \ {s}, !.cnt = @ + n]]
          BY <1>0, <4>1 DEF AskSlave, AddCount
        <5>2. n \in Nat
          <6>1. Hash[r.task.rec] \in Hashes  BY <3>0, RequestMeans, TaskHasHash
          <6>2. counts[s] \in [Hashes -> Nat]  BY DEF AlarmTypes
          <6> QED BY ONLY <6>1, <6>2
        <5> HIDE DEF n, r
        <5>3. [r EXCEPT !.waiting = r.waiting \ {s}, !.cnt = r.cnt + n]
                = Handled(r, r.waiting \ {s}, r.cnt + n, r.at, r.broken)
          BY <3>0, HandledMeans
        <5>4. r.cnt + n \in Nat  BY <3>0, <5>2
        <5>5. post' = [post EXCEPT ![p] = Handled(r, r.waiting \ {s}, r.cnt + n, r.at, r.broken)]
          BY <5>1, <5>3
        <5> QED BY ONLY <3>0, <5>4, <5>5, Zenon
      <4>2. CASE AskFails(p, s)
        <5>1. post' = [post EXCEPT ![p] = [r EXCEPT !.waiting = @ \ {s}, !.broken = TRUE]]
          BY <1>0, <4>2 DEF AskFails
        <5> HIDE DEF r
        <5>2. [r EXCEPT !.waiting = r.waiting \ {s}, !.broken = TRUE]
                = Handled(r, r.waiting \ {s}, r.cnt, r.at, TRUE)
          BY <3>0, HandledMeans
        <5> QED BY <3>0, <5>1, <5>2
      <4>3. CASE Seek(p)
        <5>1. post' = [post EXCEPT ![p] = [r EXCEPT !.at = Len(file)]] /\ Len(file) \in Int
          BY <1>0, <4>3 DEF Seek
        <5> HIDE DEF r
        <5>2. [r EXCEPT !.at = Len(file)] = Handled(r, r.waiting, r.cnt, Len(file), r.broken)
          BY <3>0, HandledMeans
        <5>3. post' = [post EXCEPT ![p] = Handled(r, r.waiting, r.cnt, Len(file), r.broken)]
          BY <5>1, <5>2
        <5> QED BY ONLY <3>0, <5>1, <5>3, Zenon
      <4> QED BY <1>1, <4>1, <4>2, <4>3
    <3>2. post'[p] = Handled(r, w, c, a, b)  BY <1>0, <3>1
    <3>3. post'[p].task = r.task  BY <3>2 DEF Handled
    <3>4. post'[p] \in Request  BY <3>0, <3>2, RequestMeans DEF Handled, Request
    <3> QED BY <1>0, <3>1, <3>3, <3>4
  <2>3. Posted(m)' = Posted(m)  BY <2>1, <2>2, PostedStays
  <2> QED BY <1>s, <2>1, <2>3, OwedByFewer
<1> DEFINE h == Cardinality(InHand(m))  g == Cardinality(InHand(m)')
           n == Cardinality(Posted(m))  c == Cardinality(Posted(m)')
<1>2. CASE JudgeQueryTrie(p)
  <2>1. /\ post[p] # None /\ post[p].task.kind = "alarm" /\ post[p] \in Request
        /\ judged' = [judged EXCEPT ![post[p].task.rec] = @ + 1]
        /\ post' = [post EXCEPT ![p] = None] /\ Answer(p)
    BY <1>0, <1>2 DEF JudgeQueryTrie, Serving
  <2>2. post[p].task \in Task  BY <2>1, RequestMeans
  <2>3. post[p].task = AlarmOf(m) <=> post[p].task.rec = m  BY <2>1, <2>2 DEF Task, AlarmOf
  <2>4. judged[m] \in Nat /\ judged'[m] = IF post[p].task.rec = m THEN judged[m] + 1 ELSE judged[m]
    BY <2>1 DEF HistoryTypes
  <2>5. /\ c \in Nat
        /\ post[p].task = AlarmOf(m) => n = c + 1
        /\ post[p].task # AlarmOf(m) => n = c
    BY <2>1, OnePostChanges
  <2>6. g <= h /\ h \in Nat /\ g \in Nat
    <3>1. g <= h  BY <2>1, AnswerKeepsLeft, FewerInHand
    <3>2. InHand(m)' \in SUBSET (Hands \X Tries)  BY DEF InHand, Hands, Tries
    <3> QED BY <3>1, <3>2, OwedCounts, FS_Subset, FS_CardinalityType
  <2> DEFINE j == judged[m]  k == judged'[m]  is == post[p].task.rec = m
  <2>8. j \in Nat /\ k = IF is THEN j + 1 ELSE j  BY <2>4
  <2>9. (is => n = c + 1) /\ (~is => n = c)  BY <2>3, <2>5
  <2> HIDE DEF h, g, n, c
  <2>7. judged'[m] + c + g <= judged[m] + n + h
    <3>1. c \in Nat  BY <2>5
    <3> HIDE DEF j, k, is
    <3>2. k + c + g <= j + n + h  BY ONLY <2>6, <2>8, <2>9, <3>1
    <3> QED BY <3>2 DEF j, k
  <2> QED BY <2>5, <2>6, <2>7, OwedFalls DEF h, g, n, c
<1>3. CASE WriteAt(p) \/ OpenFails(p)
  <2>1. /\ post[p].task.kind = "kuozhao" /\ judged' = judged
        /\ post' = [post EXCEPT ![p] = None] /\ Answer(p)
    BY <1>3 DEF WriteAt, OpenFails, Writing, Serving
  <2>2. post[p].task # AlarmOf(m)  BY <2>1 DEF AlarmOf
  <2>3. Posted(m)' = Posted(m)
    <3>1. post'[p] = None /\ \A q \in Posts : q # p => post'[q] = post[q]  BY <1>0, <2>1
    <3> QED BY <2>2, <3>1 DEF Posted, AlarmOf
  <2> QED BY <2>1, <2>3, AnswerKeepsLeft, OwedByFewer
<1> QED BY <1>1, <1>2, <1>3 DEF Handler

\* A death leaves less in hand, and the requests as they are.
LEMMA OwedByDeath ==
  ASSUME SlavesAssumption, AlarmTypes, AlarmTypes', HistoryTypes, HistoryTypes',
         NEW x \in Slaves, Die(x), NEW m \in Records
  PROVE  Owed(m)' <= Owed(m) /\ Owed(m)' \in Nat
<1>1. /\ judged' = judged
      /\ post' = [p \in Posts |-> IF post[p] = None THEN None
                                  ELSE [post[p] EXCEPT !.broken = TRUE]]
      /\ send' = [send EXCEPT ![x] = [t \in Senders |-> None]]
  BY DEF Die
<1>2. ASSUME NEW p \in Posts
      PROVE  /\ post[p] = None <=> post'[p] = None
             /\ post[p] # None => post'[p].task = post[p].task
  <2>1. CASE post[p] = None  BY <1>1, <2>1
  <2>2. CASE post[p] # None
    <3>1. post[p] \in Request  BY <2>2 DEF AlarmTypes
    <3>2. post'[p] = [post[p] EXCEPT !.broken = TRUE]  BY <1>1, <2>2
    <3>3. post'[p] \in Request /\ post'[p].task = post[p].task  BY <3>1, <3>2 DEF Request
    <3> QED BY <2>2, <3>3 DEF SlavesAssumption
  <2> QED BY <2>1, <2>2
<1>3. Posted(m)' = Posted(m)  BY <1>2, PostedStays
<1>4. ASSUME NEW s \in Slaves, NEW t \in Senders
      PROVE  Left(send[s][t], m)' <= Left(send[s][t], m)
  <2>1. send'[s][t] = None \/ send'[s][t] = send[s][t]  BY <1>1 DEF AlarmTypes
  <2>2. send[s][t] \in Sending \cup {None}  BY DEF AlarmTypes
  <2>3. Left(send[s][t], m) \in 0..(MaxTries + 1) /\ MaxTries \in Nat
    BY <2>2, LeftBounded DEF SlavesAssumption
  <2>4. Left(send[s][t], m)' = Left(send'[s][t], m)  BY DEF Left, AlarmOf
  <2>5. Left(None, m) = 0  BY DEF Left
  <2>6. Left(send'[s][t], m) <= Left(send[s][t], m)  BY <2>1, <2>3, <2>5
  <2> QED BY <2>4, <2>6
<1> QED BY <1>1, <1>3, <1>4, OwedByFewer

\* A query for kuozhao.txt that joins a line adds no alarm to it.
LEMMA TriesByStat ==
  ASSUME SlavesAssumption, AlarmTypes, HistoryTypes, TriesInv, NEW s \in Slaves, Stat(s)
  PROVE  TriesInv'
<1>1. UNCHANGED <<judged, raised, post, send>>  BY DEF Stat, platform
<1>2. CASE line' = line  BY <1>1, <1>2, TriesUntouched
<1>3. CASE line' # line
  <2> DEFINE task == [kind |-> "kuozhao", rec |-> rpc[s].rec]
  <2>1. line' = [line EXCEPT ![s] = Append(line[s], task)]  BY <1>3 DEF Stat
  <2>2. Joins(line, line', s, task)  BY <2>1 DEF Joins
  <2>3. task \in Task  BY DEF Stat, AtStep, AlarmTypes, Task
  <2>4. ASSUME NEW m PROVE AlarmOf(m) # task  BY DEF AlarmOf
  <2> HIDE DEF task
  <2>5. ASSUME NEW m \in Records PROVE Times(line', AlarmOf(m)) = Times(line, AlarmOf(m))
    BY <2>2, <2>3, <2>4, TaskLines, TimesJoin
  <2>6. ASSUME NEW m \in Records
        PROVE  /\ Times(line, AlarmOf(m))' = Times(line', AlarmOf(m))
               /\ Owed(m)' = Owed(m)
    <3>1. Times(line, AlarmOf(m))' = Times(line', AlarmOf(m))  BY DEF AlarmOf, Times, Places
    <3>2. Owed(m)' = Owed(m)
      BY <1>1 DEF Owed, Posted, InHand, Left, AlarmOf, Hands, Tries
    <3> QED BY <3>1, <3>2
  <2> QED BY <1>1, <2>5, <2>6 DEF TriesInv
<1> QED BY <1>2, <1>3

\* Every step keeps the bound on what may still be judged.
LEMMA TriesStep ==
  ASSUME SlavesAssumption, BaseInv, BaseInv', HistoryTypes, HistoryTypes', TriesInv,
         [Next]_vars
  PROVE  TriesInv'
<1> USE DEF lists, receipt, alarms, platform
<1>0. /\ ListsInv /\ AlarmTypes /\ AlarmTypes' /\ file \in Seq(Hashes)
  BY DEF BaseInv, AlarmInv
<1>1. ASSUME NEW s \in Slaves, Receipt(s) PROVE TriesInv'
  <2>1. CASE Storage(s)  BY <2>1, TriesUntouched DEF Storage
  <2>2. CASE Stat(s)  BY <1>0, <2>2, TriesByStat
  <2>3. ASSUME NEW m \in Records, Receive(s, m) PROVE TriesInv'
    BY <1>0, <2>3, TriesByReceive
  <2> QED BY <1>1, <2>1, <2>2, <2>3 DEF Receipt
<1>2. ASSUME NEW s \in Slaves, NEW t \in Senders, Sender(s, t) PROVE TriesInv'
  <2>1. CASE Take(s, t)  BY <1>0, <2>1, TriesByTake
  <2>2. CASE PostFails(s, t) \/ InitFails(s, t) \/ PostReturns(s, t)
    <3>1. UNCHANGED <<raised, line>>  BY <2>2 DEF PostFails, InitFails, PostReturns
    <3>2. \A m \in Records : Owed(m)' <= Owed(m) /\ Owed(m)' \in Nat
      BY <1>0, <2>2, OwedByRetry
    <3> QED BY <1>0, <3>1, <3>2, TriesFall
  <2>3. ASSUME NEW p \in Posts, Post(s, t, p) PROVE TriesInv'
    <3>1. UNCHANGED <<raised, line>>  BY <2>3 DEF Post
    <3>2. \A m \in Records : Owed(m)' <= Owed(m) /\ Owed(m)' \in Nat
      BY <1>0, <2>3, OwedByPost
    <3> QED BY <1>0, <3>1, <3>2, TriesFall
  <2> QED BY <1>2, <2>1, <2>2, <2>3 DEF Sender
<1>3. ASSUME NEW p \in Posts, Handler(p) PROVE TriesInv'
  <2>1. UNCHANGED <<raised, line>>
    BY <1>3 DEF Handler, AskSlave, AskFails, JudgeQueryTrie, Seek, WriteAt, OpenFails
  <2>2. \A m \in Records : Owed(m)' <= Owed(m) /\ Owed(m)' \in Nat
    BY <1>0, <1>3, OwedByHandler
  <2> QED BY <1>0, <2>1, <2>2, TriesFall
<1>4. CASE Configure
  BY <1>4, TriesUntouched DEF Configure, MultiSet, SetReaches, SetFails
<1>5. ASSUME NEW s \in Slaves, Die(s) PROVE TriesInv'
  <2>1. raised' = raised /\ Empties(line, line', s)  BY <1>5 DEF Die, Empties
  <2>2. \A m \in Records : Owed(m)' <= Owed(m) /\ Owed(m)' \in Nat
    BY <1>0, <1>5, OwedByDeath
  <2> QED BY <1>0, <2>1, <2>2, TriesFall
<1>6. ASSUME NEW s \in Slaves, Start(s) PROVE TriesInv'
  BY <1>6, TriesUntouched DEF Start
<1>7. CASE UNCHANGED vars  BY <1>7, TriesUntouched DEF vars
<1> QED BY <1>1, <1>2, <1>3, <1>4, <1>5, <1>6, <1>7 DEF Next, Work

\* At first nothing is owed and nothing raised.
LEMMA InitTries ==
  ASSUME SlavesAssumption, Init, AlarmTypes PROVE TriesInv
<1> SUFFICES ASSUME NEW m \in Records
             PROVE  Owed(m) + (MaxTries + 1) * Times(line, AlarmOf(m))
                      <= (MaxTries + 1) * raised[m]
  BY DEF TriesInv
<1>1. judged[m] = 0 /\ raised[m] = 0  BY DEF Init, NoAlarm
<1>2. Posted(m) = {}  BY DEF Init, Posted
<1>3. InHand(m) = {}
  <2> SUFFICES ASSUME NEW u \in InHand(m) PROVE FALSE  OBVIOUS
  <2>1. PICK s \in Slaves, t \in Senders, i \in Tries : u = <<<<s, t>>, i>>
    BY InHandMeans DEF InHand
  <2>2. i <= Left(send[s][t], m)  BY <2>1, InHandIs
  <2>3. Left(send[s][t], m) = 0  BY DEF Init, Left
  <2> QED BY <2>2, <2>3 DEF Tries
<1>4. Times(line, AlarmOf(m)) = 0
  <2>1. ~ \E s \in Slaves, k \in Nat : k \in 1..Len(line[s]) /\ line[s][k] = AlarmOf(m)
    BY DEF Init
  <2>2. Times(line, AlarmOf(m)) \in Nat /\ ~(Times(line, AlarmOf(m)) > 0)
    BY <2>1, TaskLines, TimesOf
  <2> QED BY <2>2
<1>5. Cardinality({}) = 0  BY FS_EmptySet
<1>6. MaxTries \in Nat  BY DEF SlavesAssumption
<1>7. Owed(m) = 0  BY <1>1, <1>2, <1>3, <1>5 DEF Owed
<1> QED BY <1>1, <1>4, <1>6, <1>7

\* The platform judges an alarm at most once more than it may be tried again, for any
\* slaves, senders and requests, whatever fails, is answered late or dies.
THEOREM TriesAreBounded == Spec => []TriesBounded
<1>1. Init /\ BaseInv => TriesInv  BY SlavesAssumption, InitTries DEF BaseInv, AlarmInv
<1>2. BaseInv /\ BaseInv' /\ HistoryTypes /\ HistoryTypes' /\ TriesInv /\ [Next]_vars => TriesInv'
  BY SlavesAssumption, TriesStep
<1>3. BaseInv /\ HistoryTypes /\ TriesInv => TriesBounded
  <2> SUFFICES ASSUME BaseInv, HistoryTypes, TriesInv, NEW m \in Records
               PROVE  judged[m] <= (MaxTries + 1) * raised[m]
    BY DEF TriesBounded
  <2> DEFINE k == MaxTries + 1  a == Times(line, AlarmOf(m))  n == Cardinality(Posted(m))
             h == Cardinality(InHand(m))  r == raised[m]
  <2>1. AlarmTypes  BY DEF BaseInv, AlarmInv
  <2>2. /\ a \in Nat /\ n \in Nat /\ h \in Nat /\ k \in Nat /\ r \in Nat /\ judged[m] \in Nat
    BY <2>1, SlavesAssumption, TaskLines, OwedCounts, OwedIs
  <2>3. judged[m] + n + h + k * a <= k * r  BY DEF TriesInv, Owed
  <2> HIDE DEF k, a, n, h, r
  <2>4. k * a \in Nat /\ k * r \in Nat
    <3>1. k * a \in Nat  BY ONLY <2>2, Scaled
    <3>2. k * r \in Nat  BY ONLY <2>2, Scaled
    <3> QED BY <3>1, <3>2
  <2>5. judged[m] <= k * r  BY <2>2, <2>3, <2>4
  <2> QED BY <2>5 DEF k, r
<1> QED BY <1>1, <1>2, <1>3, BaseInvariant, HistoryInvariant, PTL DEF Spec
===============================================================================
