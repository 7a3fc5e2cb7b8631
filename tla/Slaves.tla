-------------------------------- MODULE Slaves --------------------------------
(***************************************************************************)
(* The slave nodes and the parts of the platform that work with them:      *)
(* receipt of records (DataReceive: checklists, storage, statistics), the  *)
(* two alarm threads of a slave, the platform's answers to their posts     *)
(* (AlarmController, KuozhaoController) and the runs of chklist.go, which   *)
(* change the checklists of every slave.                                   *)
(*                                                                         *)
(* The rpc server of a slave has one thread (process_adapt.cc 93), so what *)
(* it handles, it handles one call at a time.  The alarm pool is used by   *)
(* its promise (TaskExecutor).  One application is modelled: the calls on  *)
(* two applications have nothing in common.                                *)
(***************************************************************************)
EXTENDS Integers, Sequences, FiniteSets, SequencesExt

CONSTANTS
  Slaves,      \* the slave nodes
  Senders,     \* the threads of a slave's alarmsender
  Records,     \* the records masters send
  Home,        \* the slave each record is sent to
  Hashes,      \* the values of FNV1_32_HASH
  Hash,        \* the hash of each record's query
  Weather,     \* the records with the srcid 4514
  Empty,       \* the records without a resno
  Rules,       \* the conditions a checklist can have
  Texts,       \* the descriptions a checklist can have
  Catches,     \* the records that meet each condition
  First,       \* the checklists at the beginning, the same on every slave
  Tools,       \* the runs of chklist.go
  Requests,    \* what chklist.go may be run for
  Posts,       \* bound: the requests the platform works on at a time
  MaxTries,    \* try_times
  MaxCalls,    \* bound: the calls of Transmit for each record
  MaxDeaths,   \* bound: the deaths of slaves
  None         \* nothing

Items == [rule : Rules, text : Texts]

\* A task of an alarm pool, what an alarm thread has in hand, a request the platform
\* works on, and a run of chklist.go.
Task    == [kind : {"alarm", "kuozhao"}, rec : Records]
Sending == [task : Task, left : 0..MaxTries, at : {"post", "wait", "done"},
            of : Posts \cup {None}]
Request == [task : Task, waiting : SUBSET Slaves, cnt : Nat, at : Int,
            known : BOOLEAN, broken : BOOLEAN]
Run     == [req : Requests, waiting : SUBSET Slaves, open : SUBSET Slaves]

ASSUME SlavesAssumption ==
  /\ IsFiniteSet(Slaves) /\ IsFiniteSet(Senders) /\ IsFiniteSet(Posts)
  /\ Home \in [Records -> Slaves] /\ Hash \in [Records -> Hashes]
  /\ Weather \subseteq Records /\ Empty \subseteq Records
  /\ Catches \in [Rules -> SUBSET Records]
  /\ First \in Seq(Items) /\ \A i, j \in DOMAIN First : i # j => First[i].rule # First[j].rule
  /\ Requests \subseteq [op : {"add"}, item : Items] \cup [op : {"del"}, index : Nat]
  /\ MaxTries \in Nat /\ MaxCalls \in [Records -> Nat] /\ MaxDeaths \in Nat
  /\ None \notin Records \cup Requests \cup Request \cup Run \cup Sending

VARIABLES
  up,          \* the slaves that run
  checklists,  \* checklists of each slave
  rpc,         \* the record each rpc thread is at, and how far DataReceive is
  stored,      \* rocksdb: how often each record was written
  counts,      \* qftree: the count of each hash
  line,        \* queue_ of each slave's alarmsender
  send,        \* what each alarm thread has in hand
  post,        \* the requests the platform works on
  file,        \* the lines of kuozhao.txt
  tool,        \* the runs of chklist.go
  calls,       \* the calls of Transmit for each record
  answered,    \* the records whose Transmit was answered with SUCCEED
  deaths,      \* how often a slave died
  notWritten,  \* history: the records whose write failed
  missed,      \* history: the hashes some slave has a search without result of
  raised,      \* history: the alarms raised for each record
  judged,      \* history: the alarms of each record the platform has judged
  mails,       \* history: the mails sent about each record
  written,     \* history: the lines written to kuozhao.txt
  torn,        \* history: two requests have written to kuozhao.txt at a time
  disturbed    \* history: a call of chklist.go failed, two runs met, a slave died

lists    == <<checklists, tool, disturbed>>
receipt  == <<rpc, stored, counts, calls, answered, notWritten, missed, raised>>
alarms   == <<line, send>>
platform == <<post, file, judged, mails, written, torn>>
vars     == <<up, deaths, lists, receipt, alarms, platform>>

NoAlarm == [m \in Records |-> 0]

Init ==
  /\ up = Slaves /\ deaths = 0
  /\ checklists = [s \in Slaves |-> First]
  /\ tool = [t \in Tools |-> None] /\ disturbed = FALSE
  /\ rpc = [s \in Slaves |-> None]
  /\ stored = NoAlarm /\ counts = [s \in Slaves |-> [h \in Hashes |-> 0]]
  /\ calls = NoAlarm /\ answered = {} /\ notWritten = {} /\ missed = {}
  /\ line = [s \in Slaves |-> <<>>]
  /\ send = [s \in Slaves |-> [t \in Senders |-> None]]
  /\ post = [p \in Posts |-> None]
  /\ file = <<>> /\ written = 0 /\ torn = FALSE
  /\ raised = NoAlarm /\ judged = NoAlarm /\ mails = NoAlarm

\* The rpc thread of s is free to handle a call.
Free(s) == s \in up /\ rpc[s] = None

-------------------------------------------------------------------------------
(* The rpc thread: DataReceive.                                              *)

\* Mutant of SameItem: the description is compared too.
SameItemAndText(i, j) == i = j

\* The description of a checklist does not count.
SameItem(i, j) == i.rule = j.rule

\* One task for each checklist that the record meets.
CheckAbnormal(s, m) ==
  LET met == {i \in DOMAIN checklists[s] : m \in Catches[checklists[s][i].rule]}
      n   == Cardinality(met)
  IN
  /\ line' = [line EXCEPT ![s] = @ \o [i \in 1..n |-> [kind |-> "alarm", rec |-> m]]]
  /\ raised' = [raised EXCEPT ![m] = @ + n]

\* Mutant of Receive: the record is not stored.
ReceiveSkipsStorage(s, m) ==
  /\ Free(s) /\ Home[m] = s /\ m \notin answered /\ calls[m] < MaxCalls[m]
  /\ calls' = [calls EXCEPT ![m] = @ + 1]
  /\ CheckAbnormal(s, m)
  /\ rpc' = [rpc EXCEPT ![s] = [rec |-> m, at |-> "stat"]]
  /\ UNCHANGED <<up, deaths, lists, stored, counts, answered, notWritten, missed,
                 send, platform>>

\* A master calls until it has an answer.
Receive(s, m) ==
  /\ Free(s) /\ Home[m] = s /\ m \notin answered /\ calls[m] < MaxCalls[m]
  /\ calls' = [calls EXCEPT ![m] = @ + 1]
  /\ CheckAbnormal(s, m)
  /\ rpc' = [rpc EXCEPT ![s] = [rec |-> m, at |-> "store"]]
  /\ UNCHANGED <<up, deaths, lists, stored, counts, answered, notWritten, missed,
                 send, platform>>

AtStep(s, at) == s \in up /\ rpc[s] # None /\ rpc[s].at = at

\* The write may fail, and nothing looks at its result.
Storage(s) ==
  LET m == rpc[s].rec IN
  /\ AtStep(s, "store")
  /\ \/ stored' = [stored EXCEPT ![m] = @ + 1] /\ UNCHANGED notWritten
     \/ notWritten' = notWritten \cup {m} /\ UNCHANGED stored
  /\ rpc' = [rpc EXCEPT ![s].at = "stat"]
  /\ UNCHANGED <<up, deaths, lists, counts, calls, answered, missed, raised, alarms, platform>>

\* Mutant of UpdataQueryFreqStat: every record is counted.
CountsEveryRecord(s, m) == counts' = [counts EXCEPT ![s][Hash[m]] = @ + 1]

UpdataQueryFreqStat(s, m) ==
  counts' = IF m \in Weather \/ m \notin Empty THEN counts
            ELSE [counts EXCEPT ![s][Hash[m]] = @ + 1]

\* The statistics, the task for a query of srcid 4514 that has no count, and the
\* answer, which the master may not get in time.
Stat(s) ==
  LET m == rpc[s].rec IN
  /\ AtStep(s, "stat")
  /\ UpdataQueryFreqStat(s, m)
  /\ missed' = IF m \in Empty \ Weather THEN missed \cup {Hash[m]} ELSE missed
  /\ line' = IF m \in Weather \cap Empty /\ counts'[s][Hash[m]] = 0
               THEN [line EXCEPT ![s] = Append(@, [kind |-> "kuozhao", rec |-> m])]
               ELSE line
  /\ rpc' = [rpc EXCEPT ![s] = None]
  /\ answered' \in {answered, answered \cup {m}}
  /\ UNCHANGED <<up, deaths, lists, stored, calls, notWritten, raised, send, platform>>

-------------------------------------------------------------------------------
(* The alarm threads: Post, and for alarms again until it works.             *)

Has(s, t, at) == s \in up /\ send[s][t] # None /\ send[s][t].at = at

\* A thread posts its task, or waits for the platform to answer request p.
Job(task, left, at, p) == [task |-> task, left |-> left, at |-> at, of |-> p]

\* Mutant of Take: the last task of the queue is not seen.
TakeOneOfTwo(s, t) ==
  /\ s \in up /\ send[s][t] = None /\ Len(line[s]) > 1
  /\ send' = [send EXCEPT ![s][t] = Job(Head(line[s]), MaxTries, "post", None)]
  /\ line' = [line EXCEPT ![s] = Tail(@)]
  /\ UNCHANGED <<up, deaths, lists, receipt, platform>>

Take(s, t) ==
  /\ s \in up /\ send[s][t] = None /\ line[s] # <<>>
  /\ send' = [send EXCEPT ![s][t] = Job(Head(line[s]), MaxTries, "post", None)]
  /\ line' = [line EXCEPT ![s] = Tail(@)]
  /\ UNCHANGED <<up, deaths, lists, receipt, platform>>

\* The platform gets the request.  known and broken are for the properties: a
\* slave has counted the query, and since then a call failed or a slave died.
Post(s, t, p) ==
  LET task == send[s][t].task IN
  /\ Has(s, t, "post") /\ post[p] = None
  /\ post' = [post EXCEPT ![p] =
       [task   |-> task, waiting |-> IF task.kind = "alarm" THEN Slaves ELSE {},
        cnt    |-> 0, at |-> -1,
        known  |-> \E x \in up : counts[x][Hash[task.rec]] > 0, broken |-> FALSE]]
  /\ send' = [send EXCEPT ![s][t] = Job(task, send[s][t].left, "wait", p)]
  /\ UNCHANGED <<up, deaths, lists, receipt, line, file, judged, mails, written, torn>>

\* Mutants of Retries and LessOne: one try too many, and tries that are not counted.
RetriesAtZero(job) == job.task.kind = "alarm" /\ job.left >= 0
AsMany(left)       == left

\* Only alarms are posted again.
Retries(job)  == job.task.kind = "alarm" /\ job.left > 0
LessOne(left) == left - 1

\* There is no connection, or no answer within three seconds.  The platform goes
\* on with a request nobody waits for.
PostFails(s, t) ==
  LET job == send[s][t] IN
  /\ \E at \in {"post", "wait", "done"} : Has(s, t, at)
  /\ send' = [send EXCEPT ![s][t] =
                IF Retries(job) THEN Job(job.task, LessOne(job.left), "post", None) ELSE None]
  /\ UNCHANGED <<up, deaths, lists, receipt, line, platform>>

\* curl_easy_init fails: Post answers false, which its caller takes for CURLE_OK.
InitFails(s, t) ==
  /\ Has(s, t, "post")
  /\ send' = [send EXCEPT ![s][t] = None]
  /\ UNCHANGED <<up, deaths, lists, receipt, line, platform>>

PostReturns(s, t) ==
  /\ Has(s, t, "done")
  /\ send' = [send EXCEPT ![s][t] = None]
  /\ UNCHANGED <<up, deaths, lists, receipt, line, platform>>

Sender(s, t) ==
  \/ Take(s, t) \/ PostFails(s, t) \/ InitFails(s, t) \/ PostReturns(s, t)
  \/ \E p \in Posts : Post(s, t, p)

-------------------------------------------------------------------------------
(* The platform.                                                             *)

Serving(p, kind) == post[p] # None /\ post[p].task.kind = kind

\* Whoever waits for p gets its answer.
Answer(p) ==
  send' = [s \in Slaves |-> [t \in Senders |->
             IF send[s][t] # None /\ send[s][t].at = "wait" /\ send[s][t].of = p
               THEN [send[s][t] EXCEPT !.at = "done"] ELSE send[s][t]]]

\* Mutant of AddCount: the last answer counts.
LastCount(sum, cnt) == cnt

AddCount(sum, cnt) == sum + cnt

\* One goroutine for each slave asks it for the count of the query.
AskSlave(p, s) ==
  /\ Serving(p, "alarm") /\ s \in post[p].waiting /\ Free(s)
  /\ post' = [post EXCEPT ![p].waiting = @ \ {s},
                          ![p].cnt = AddCount(@, counts[s][Hash[post[p].task.rec]])]
  /\ UNCHANGED <<up, deaths, lists, receipt, alarms, file, judged, mails, written, torn>>

\* The call fails or takes more than twenty seconds, and adds nothing.
AskFails(p, s) ==
  /\ Serving(p, "alarm") /\ s \in post[p].waiting
  /\ post' = [post EXCEPT ![p].waiting = @ \ {s}, ![p].broken = TRUE]
  /\ UNCHANGED <<up, deaths, lists, receipt, alarms, file, judged, mails, written, torn>>

JudgeQueryTrie(p) ==
  LET m == post[p].task.rec IN
  /\ Serving(p, "alarm") /\ post[p].waiting = {}
  /\ judged' = [judged EXCEPT ![m] = @ + 1]
  /\ mails' = IF post[p].cnt > 0 THEN [mails EXCEPT ![m] = @ + 1] ELSE mails
  /\ post' = [post EXCEPT ![p] = None]
  /\ Answer(p)
  /\ UNCHANGED <<up, deaths, lists, receipt, line, file, written, torn>>

\* appendToFile seeks to the end and then writes at the offset it was given.
Writing(p) == Serving(p, "kuozhao") /\ post[p].at >= 0

\* Mutant of Seek: the file is not moved to its end.
SeekNowhere(p) ==
  /\ Serving(p, "kuozhao") /\ post[p].at < 0
  /\ post' = [post EXCEPT ![p].at = 0]
  /\ torn' = (torn \/ \E q \in Posts : Writing(q))
  /\ UNCHANGED <<up, deaths, lists, receipt, alarms, file, judged, mails, written>>

Seek(p) ==
  /\ Serving(p, "kuozhao") /\ post[p].at < 0
  /\ post' = [post EXCEPT ![p].at = Len(file)]
  /\ torn' = (torn \/ \E q \in Posts : Writing(q))
  /\ UNCHANGED <<up, deaths, lists, receipt, alarms, file, judged, mails, written>>

WriteAt(p) ==
  LET m == post[p].task.rec  pos == post[p].at + 1 IN
  /\ Writing(p)
  /\ file' = IF pos > Len(file) THEN Append(file, Hash[m]) ELSE [file EXCEPT ![pos] = Hash[m]]
  /\ written' = written + 1
  /\ post' = [post EXCEPT ![p] = None]
  /\ Answer(p)
  /\ UNCHANGED <<up, deaths, lists, receipt, line, judged, mails, torn>>

\* The file is not there: it is never created, and the answer is the same.
OpenFails(p) ==
  /\ Serving(p, "kuozhao") /\ post[p].at < 0
  /\ post' = [post EXCEPT ![p] = None]
  /\ Answer(p)
  /\ UNCHANGED <<up, deaths, lists, receipt, line, file, judged, mails, written, torn>>

Handler(p) ==
  \/ \E s \in Slaves : AskSlave(p, s) \/ AskFails(p, s)
  \/ JudgeQueryTrie(p) \/ Seek(p) \/ WriteAt(p) \/ OpenFails(p)

-------------------------------------------------------------------------------
(* chklist.go: MultiSet calls every slave at once and collects an answer or   *)
(* an error for each.  open holds the calls no slave has handled, waiting the  *)
(* slaves whose result is not in.  A call whose caller has given up may still  *)
(* be handled.                                                                *)

\* Mutant of Running: the last answer is not waited for.
RunningButOne(t) == tool[t] # None /\ Cardinality(tool[t].waiting) > 1

Running(t) == tool[t] # None /\ tool[t].waiting # {}

MultiSet(t, r) ==
  /\ tool[t] = None
  /\ tool' = [tool EXCEPT ![t] = [req |-> r, waiting |-> Slaves, open |-> Slaves]]
  /\ disturbed' = (disturbed \/ \E x \in Tools : Running(x))
  /\ UNCHANGED <<up, deaths, checklists, receipt, alarms, platform>>

\* The item is refused if an equal one is there; an index that is not in the
\* list deletes nothing.
SetCheckListConfig(s, r) ==
  checklists' = [checklists EXCEPT ![s] =
    CASE r.op = "add" -> IF \E i \in DOMAIN @ : SameItem(@[i], r.item) THEN @
                         ELSE Append(@, r.item)
      [] r.op = "del" -> IF r.index \in DOMAIN @ THEN RemoveAt(@, r.index) ELSE @]

\* A slave handles the call, and its answer arrives or does not.
SetReaches(t, s) ==
  /\ tool[t] # None /\ s \in tool[t].open /\ Free(s)
  /\ SetCheckListConfig(s, tool[t].req)
  /\ \/ tool' = [tool EXCEPT ![t].open = @ \ {s}, ![t].waiting = @ \ {s}]
     \/ tool' = [tool EXCEPT ![t].open = @ \ {s}]
  /\ UNCHANGED <<up, deaths, disturbed, receipt, alarms, platform>>

\* The caller gives up; the call is lost, or still on its way.
SetFails(t, s) ==
  /\ Running(t) /\ s \in tool[t].waiting
  /\ \/ tool' = [tool EXCEPT ![t].waiting = @ \ {s}, ![t].open = @ \ {s}]
     \/ tool' = [tool EXCEPT ![t].waiting = @ \ {s}]
  /\ disturbed' = TRUE
  /\ UNCHANGED <<up, deaths, checklists, receipt, alarms, platform>>

-------------------------------------------------------------------------------
\* A slave dies.  What it has in memory is gone; what it posted is not.
Die(s) ==
  /\ s \in up /\ deaths < MaxDeaths
  /\ up' = up \ {s} /\ deaths' = deaths + 1
  /\ disturbed' = TRUE
  /\ post' = [p \in Posts |-> IF post[p] = None THEN None ELSE [post[p] EXCEPT !.broken = TRUE]]
  /\ rpc' = [rpc EXCEPT ![s] = None]
  /\ line' = [line EXCEPT ![s] = <<>>]
  /\ send' = [send EXCEPT ![s] = [t \in Senders |-> None]]
  /\ UNCHANGED <<checklists, counts, stored, calls, answered, notWritten, missed, raised,
                 tool, file, judged, mails, written, torn>>

\* It is started again with no checklist and no count: Load has no caller.
Start(s) ==
  /\ s \notin up /\ up' = up \cup {s}
  /\ checklists' = [checklists EXCEPT ![s] = <<>>]
  /\ counts' = [counts EXCEPT ![s] = [h \in Hashes |-> 0]]
  /\ UNCHANGED <<deaths, tool, disturbed, rpc, stored, calls, answered, notWritten, missed,
                 raised, alarms, platform>>

Receipt(s) == Storage(s) \/ Stat(s) \/ \E m \in Records : Receive(s, m)

Work ==
  \/ \E s \in Slaves : Receipt(s) \/ \E t \in Senders : Sender(s, t)
  \/ \E p \in Posts : Handler(p)

Configure ==
  \E t \in Tools : \/ \E r \in Requests : MultiSet(t, r)
                   \/ \E s \in Slaves : SetReaches(t, s) \/ SetFails(t, s)

Next == Work \/ Configure \/ \E s \in Slaves : Die(s) \/ Start(s)

Spec == Init /\ [][Next]_vars

\* The threads of a slave and the goroutines of the platform run, and every wait
\* of either ends with an answer or with its timeout.
Fairness ==
  /\ \A s \in Slaves, t \in Senders : WF_vars(Sender(s, t))
  /\ \A p \in Posts : WF_vars(Handler(p))
  /\ \A t \in Tools, s \in Slaves : WF_vars(SetFails(t, s))

FairSpec == Spec /\ Fairness

-------------------------------------------------------------------------------
(* Properties.                                                               *)

TypeOK ==
  /\ up \subseteq Slaves /\ deaths \in Nat
  /\ checklists \in [Slaves -> Seq(Items)]
  /\ tool \in [Tools -> Run \cup {None}] /\ disturbed \in BOOLEAN
  /\ rpc \in [Slaves -> [rec : Records, at : {"store", "stat"}] \cup {None}]
  /\ stored \in [Records -> Nat] /\ counts \in [Slaves -> [Hashes -> Nat]]
  /\ calls \in [Records -> Nat] /\ answered \subseteq Records
  /\ notWritten \subseteq Records /\ missed \subseteq Hashes
  /\ line \in [Slaves -> Seq(Task)]
  /\ send \in [Slaves -> [Senders -> Sending \cup {None}]]
  /\ post \in [Posts -> Request \cup {None}]
  /\ file \in Seq(Hashes) /\ written \in Nat /\ torn \in BOOLEAN
  /\ raised \in [Records -> Nat] /\ judged \in [Records -> Nat]
  /\ mails \in [Records -> Nat]

\* No slave has two checklists with the same conditions, whatever runs of
\* chklist.go meet: such a pair would raise every alarm twice.
NoDuplicateItems ==
  \A s \in Slaves : \A i, j \in DOMAIN checklists[s] :
    i # j => checklists[s][i].rule # checklists[s][j].rule

\* When no run is under way, and no run met another or had a call fail and no
\* slave died, every slave has the same checklists in the same order, so that an
\* index means the same one everywhere.
ListsAgree ==
  ~disturbed /\ (\A t \in Tools : ~Running(t)) =>
    \A s, x \in Slaves : checklists[s] = checklists[x]

\* A record whose Transmit was answered is in rocksdb, also after its slave died,
\* unless a write failed.
AnsweredIsStored == \A m \in answered \ notWritten : stored[m] > 0

\* The platform judges one alarm at most once more than it may be tried again.
TriesBounded == \A m \in Records : judged[m] <= (MaxTries + 1) * raised[m]

\* A mail is sent only about a query that a slave has received a search without
\* result of.
MailHasMiss == \A m \in Records : mails[m] > 0 => Hash[m] \in missed

\* The platform sends a mail when a slave had counted the query before the alarm
\* came, every slave was asked, and none died.
MailWhenKnown ==
  [][\A p \in Posts :
       Serving(p, "alarm") /\ post[p].known /\ ~post[p].broken /\ post'[p] = None
         => mails'[post[p].task.rec] = mails[post[p].task.rec] + 1]_vars

\* Every request that wrote a line has left one, unless two wrote at a time.
NoLineLost == ~torn => Len(file) = written

\* The alarm threads of a slave get done with what they have, whatever happens to
\* the platform.
AlarmsEnd ==
  \A s \in Slaves :
    line[s] # <<>> \/ (\E t \in Senders : send[s][t] # None)
      ~> line[s] = <<>> /\ \A t \in Senders : send[s][t] = None
===============================================================================
