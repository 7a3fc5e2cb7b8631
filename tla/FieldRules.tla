------------------------------ MODULE FieldRules ------------------------------
(***************************************************************************)
(* The field rules of a master node (DataFieldRuler), the management calls *)
(* that read and write them, and the workers that read them.               *)
(*                                                                         *)
(* The rules are two maps under one mutex, which is held for one lookup or *)
(* one update: who needs both maps looks twice.  The rpc server has one    *)
(* thread (data_access_adapt.cc, work_thread_num), so a management call    *)
(* ends before the next begins; the workers do not wait for either.        *)
(***************************************************************************)
EXTENDS Sources, Functions

CONSTANTS
  Fields,   \* names of fields
  Needed,   \* the fields PreProcess asks for itself: query, qid and resno
  Workers

Flags == UNION {[d -> BOOLEAN] : d \in SUBSET Fields}
Call  == [app : Apps, rule : SUBSET Fields]
Job   == [at : {"trans", "send"}, app : Loaded, rule : SUBSET Fields, flags : Flags]

ASSUME RulesAssumption == None \notin Call \cup Job

VARIABLES
  regexes,  \* app_field_regexes_: the fields that have a regex, for each application
  istrans,  \* app_field_istrans_: whether each field is transmitted, likewise
  call,     \* GetLogFieldConfig between its two lookups
  job,      \* the rules each worker has read for its record
  ever,     \* history: the fields to be sent at some time since the job read the rules,
  always    \* and those to be sent all the time until it read the flags

ruleVars == <<regexes, istrans, call, job, ever, always>>

\* LoadConfig.  A flag that the file does not give is what the stack held.
RulesInit ==
  /\ \E cfg, yes \in [Loaded -> SUBSET Fields] :
       /\ regexes = cfg
       /\ istrans = [a \in Loaded |-> [f \in cfg[a] |-> f \in yes[a]]]
  /\ call = None /\ job = [w \in Workers |-> None]
  /\ ever = [w \in Workers |-> {}] /\ always = [w \in Workers |-> {}]

\* std::map::operator[]: an application nobody has named before gets no fields.
Lookup(map, a, empty) == [x \in DOMAIN map \cup {a} |-> IF x \in DOMAIN map THEN map[x] ELSE empty]
NoFlags == [f \in {} |-> FALSE]
Set(map, a, val) == [x \in DOMAIN map \cup {a} |-> IF x = a THEN val ELSE map[x]]

\* The fields of an application that are sent under given rules.
ToSend(a, re, tr) == {f \in re[a] \cap DOMAIN tr[a] : tr[a][f]}

Reading(w) == job[w] # None /\ job[w].at = "trans"

\* Mutant of DeleteField: the flag is kept.
DeleteRegex(a, f) ==
  IF a \in DOMAIN regexes /\ f \in regexes[a]
  THEN regexes' = Set(regexes, a, regexes[a] \ {f}) /\ UNCHANGED istrans
  ELSE UNCHANGED <<regexes, istrans>>

DeleteField(a, f) ==
  IF /\ a \in DOMAIN regexes /\ a \in DOMAIN istrans
     /\ f \in regexes[a] /\ f \in DOMAIN istrans[a]
  THEN /\ regexes' = Set(regexes, a, regexes[a] \ {f})
       /\ istrans' = Set(istrans, a, Restrict(istrans[a], DOMAIN istrans[a] \ {f}))
  ELSE UNCHANGED <<regexes, istrans>>

\* Insertion keeps an entry that is there, assignment replaces it.
InsertField(a, f, yes) ==
  LET flags == [x \in {f} |-> yes] IN
  IF a \notin DOMAIN regexes \/ a \notin DOMAIN istrans
  THEN /\ regexes' = Lookup(regexes, a, {f})
       /\ istrans' = Lookup(istrans, a, flags)
  ELSE /\ regexes' = Set(regexes, a, regexes[a] \cup {f})
       /\ istrans' = Set(istrans, a,
            IF f \in regexes[a] THEN Set(istrans[a], f, yes) ELSE Lookup(istrans[a], f, yes))

UpdateConfig(a, f, action, yes) ==
  /\ IF action THEN InsertField(a, f, yes) ELSE DeleteField(a, f)
  /\ ever' = [w \in Workers |->
       IF Reading(w) THEN ever[w] \cup ToSend(job[w].app, regexes', istrans') ELSE ever[w]]
  /\ always' = [w \in Workers |->
       IF Reading(w) THEN always[w] \cap ToSend(job[w].app, regexes', istrans') ELSE always[w]]

\* Mutant of SetLogFieldConfig: the rpc server has a second thread.
SetLogFieldConfigMeanwhile(a, f, op, yes) ==
  /\ UpdateConfig(a, f, op, yes)
  /\ UNCHANGED <<call, job>>

\* A management call begins when none is under way.
SetLogFieldConfig(a, f, op, yes) ==
  /\ call = None
  /\ UpdateConfig(a, f, op, yes)
  /\ UNCHANGED <<call, job>>

\* Mutant of CallGetRule: the names of the applications are returned, not of the fields.
CallGetRules(a) ==
  /\ call = None
  /\ regexes' = Lookup(regexes, a, {})
  /\ call' = [app |-> a, rule |-> DOMAIN regexes']
  /\ UNCHANGED <<istrans, job, ever, always>>

\* GetLogFieldConfig, its two lookups.
CallGetRule(a) ==
  /\ call = None
  /\ regexes' = Lookup(regexes, a, {})
  /\ call' = [app |-> a, rule |-> regexes'[a]]
  /\ UNCHANGED <<istrans, job, ever, always>>

CallGetIsTrans ==
  /\ call # None
  /\ istrans' = Lookup(istrans, call.app, NoFlags)
  /\ call' = None
  /\ UNCHANGED <<regexes, job, ever, always>>

\* PreProcess: the rules of the record's type, which is one of the configuration
\* file, are read in two lookups.
JobGetRule(w, a) ==
  /\ job[w] = None
  /\ regexes' = Lookup(regexes, a, {})
  /\ job' = [job EXCEPT ![w] =
       [at |-> "trans", app |-> a, rule |-> regexes'[a], flags |-> NoFlags]]
  /\ ever' = [ever EXCEPT ![w] = ToSend(a, regexes, istrans)]
  /\ always' = [always EXCEPT ![w] = ToSend(a, regexes, istrans)]
  /\ UNCHANGED <<istrans, call>>

JobGetIsTrans(w) ==
  /\ Reading(w)
  /\ istrans' = Lookup(istrans, job[w].app, NoFlags)
  /\ job' = [job EXCEPT ![w] = [at |-> "send", app |-> job[w].app, rule |-> job[w].rule,
                                flags |-> istrans'[job[w].app]]]
  /\ UNCHANGED <<regexes, call, ever, always>>

\* Mutant of Sent: the flags are not looked at.
SentUnasked(j) == j.rule \cup Needed

\* kv2request: kv has the fields of the rules and those PreProcess asked for.
Sent(j) == {k \in (j.rule \cup Needed) \cap DOMAIN j.flags : j.flags[k]}

Transmit(w) ==
  /\ job[w] # None /\ job[w].at = "send"
  /\ job' = [job EXCEPT ![w] = None]
  /\ UNCHANGED <<regexes, istrans, call, ever, always>>

-------------------------------------------------------------------------------
RulesNext ==
  \/ \E a \in Apps, f \in Fields, op, yes \in BOOLEAN : SetLogFieldConfig(a, f, op, yes)
  \/ (\E a \in Apps : CallGetRule(a)) \/ CallGetIsTrans
  \/ \E w \in Workers :
       (\E a \in Loaded : JobGetRule(w, a)) \/ JobGetIsTrans(w) \/ Transmit(w)

RulesSpec == RulesInit /\ [][RulesNext]_ruleVars

-------------------------------------------------------------------------------
(* Properties. *)

RulesTypeOK ==
  /\ regexes \in UNION {[d -> SUBSET Fields] : d \in SUBSET Apps}
  /\ istrans \in UNION {[d -> Flags] : d \in SUBSET Apps}
  /\ call \in Call \cup {None}
  /\ job \in [Workers -> Job \cup {None}]
  /\ ever \in [Workers -> SUBSET Fields] /\ always \in [Workers -> SUBSET Fields]

\* The two maps of field rules, updated by management calls and filled by every
\* lookup of an application nobody has named, have the same applications and
\* fields, but for the application whose lookups are half done.
MapsAgree ==
  /\ DOMAIN istrans \subseteq DOMAIN regexes
  /\ \A a \in DOMAIN istrans : DOMAIN istrans[a] = regexes[a]
  /\ \A a \in DOMAIN regexes \ DOMAIN istrans :
       regexes[a] = {} /\ call # None /\ call.app = a

\* GetLogFieldConfig, which reads the maps one after the other, answers with the
\* rules of one moment, and never looks up a flag that is not there.
ReadsOneMoment ==
  [][call # None /\ call' = None =>
       call.rule = regexes'[call.app] /\ call.rule = DOMAIN istrans'[call.app]]_ruleVars

\* A worker reads the rules in two lookups while management calls change them: it
\* sends every field that was to be sent all the time, and none that never was.
SendsWhatIsConfigured ==
  \A w \in Workers : job[w] # None /\ job[w].at = "send" =>
    always[w] \subseteq Sent(job[w]) /\ Sent(job[w]) \subseteq ever[w]
===============================================================================
