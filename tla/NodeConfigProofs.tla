--------------------------- MODULE NodeConfigProofs ---------------------------
(* Theorems about what a node keeps of its configuration and of the records   *)
(* it takes in, for any applications, fields, srcids, workers and pullers:     *)
(* the field rules (FieldRules) and the filter and the counts (PvStat) of a    *)
(* master, and what a slave selects from the records it keeps (Selection), for *)
(* any records, conditions and pages.                                          *)
EXTENDS FieldRules, PvStat, Selection, LinesProofs, SequenceTheorems

-------------------------------------------------------------------------------
(* The field rules.  The inductive invariant adds to MapsAgree what a pending  *)
(* call and a job have read and how far the maps can have moved since.         *)

\* The applications of the configuration file are never forgotten.
LoadedKnown == Loaded \subseteq DOMAIN istrans

\* A pending call has read the rules as they still are.
CallFresh == call # None => call.app \in DOMAIN regexes /\ call.rule = regexes[call.app]

\* What a job that has read the rules may take from the flags as they are now.
JobWatched(w) ==
  LET now == ToSend(job[w].app, regexes, istrans) IN
  Reading(w) => always[w] \subseteq job[w].rule \cap now /\ now \subseteq ever[w]

JobFaithful(w) ==
  job[w] # None /\ job[w].at = "send" =>
    always[w] \subseteq Sent(job[w]) /\ Sent(job[w]) \subseteq ever[w]

JobsKnow == \A w \in Workers : JobWatched(w) /\ JobFaithful(w)

RulesInv == RulesTypeOK /\ MapsAgree /\ LoadedKnown /\ CallFresh /\ JobsKnow

--------------------------------------------------------------------------------
(* The maps. *)

IsMap(map, D, S) == map \in UNION {[d -> S] : d \in SUBSET D}

\* A map of the type of the rules, taken apart and put together.
LEMMA IsMapMeans ==
  ASSUME NEW map, NEW D, NEW S
  PROVE  IsMap(map, D, S) <=> /\ map = [x \in DOMAIN map |-> map[x]]
                             /\ DOMAIN map \subseteq D
                             /\ \A x \in DOMAIN map : map[x] \in S
  BY DEF IsMap

\* operator[] adds an application that is not there without changing the others,
\* and changes nothing when it is there.
LEMMA LookupAdds ==
  ASSUME NEW map, NEW D, NEW S, IsMap(map, D, S), NEW a \in D, NEW e \in S, a \notin DOMAIN map
  PROVE  /\ IsMap(Lookup(map, a, e), D, S)
         /\ DOMAIN Lookup(map, a, e) = DOMAIN map \cup {a}
         /\ \A x \in DOMAIN map : Lookup(map, a, e)[x] = map[x]
         /\ Lookup(map, a, e)[a] = e
<1>1. DOMAIN Lookup(map, a, e) = DOMAIN map \cup {a}  BY DEF Lookup
<1>2. \A x \in DOMAIN map \cup {a} :
        Lookup(map, a, e)[x] = IF x \in DOMAIN map THEN map[x] ELSE e
  BY DEF Lookup
<1>3. IsMap(Lookup(map, a, e), D, S)
  <2>1. Lookup(map, a, e) = [x \in DOMAIN map \cup {a} |-> Lookup(map, a, e)[x]]
    BY <1>2 DEF Lookup
  <2>2. DOMAIN map \subseteq D /\ \A x \in DOMAIN map : map[x] \in S  BY IsMapMeans
  <2> QED BY <1>1, <1>2, <2>1, <2>2, IsMapMeans
<1> QED BY <1>1, <1>2, <1>3

\* operator[] changes nothing when the application is there.
LEMMA LookupFinds ==
  ASSUME NEW map, NEW D, NEW S, IsMap(map, D, S), NEW a \in DOMAIN map, NEW e
  PROVE  Lookup(map, a, e) = map
  BY IsMapMeans DEF Lookup

\* Assignment changes one application.
LEMMA SetIs ==
  ASSUME NEW map, NEW D, NEW S, IsMap(map, D, S), NEW a \in D, NEW v \in S
  PROVE  /\ IsMap(Set(map, a, v), D, S)
         /\ DOMAIN Set(map, a, v) = DOMAIN map \cup {a}
         /\ \A x \in DOMAIN map : x # a => Set(map, a, v)[x] = map[x]
         /\ Set(map, a, v)[a] = v
<1>1. DOMAIN Set(map, a, v) = DOMAIN map \cup {a}  BY DEF Set
<1>2. \A x \in DOMAIN map \cup {a} : Set(map, a, v)[x] = IF x = a THEN v ELSE map[x]
  BY DEF Set
<1>3. IsMap(Set(map, a, v), D, S)
  <2>1. Set(map, a, v) = [x \in DOMAIN map \cup {a} |-> Set(map, a, v)[x]]
    BY <1>2 DEF Set
  <2>2. DOMAIN map \subseteq D /\ \A x \in DOMAIN map : map[x] \in S  BY IsMapMeans
  <2> QED BY <1>1, <1>2, <2>1, <2>2, IsMapMeans
<1> QED BY <1>1, <1>2, <1>3

--------------------------------------------------------------------------------
(* Updates. *)

\* The maps have types of their own, and the same applications and fields.
Agree(re, tr) ==
  /\ IsMap(re, Apps, SUBSET Fields) /\ IsMap(tr, Apps, Flags)
  /\ DOMAIN re = DOMAIN tr /\ Loaded \subseteq DOMAIN tr
  /\ \A a \in DOMAIN tr : DOMAIN tr[a] = re[a]

\* The flags of an application are such a map, too.
LEMMA FlagsAreMaps == Flags = UNION {[d -> BOOLEAN] : d \in SUBSET Fields}
  BY DEF Flags

\* Between management calls the two maps agree.
LEMMA AgreeWhenIdle ==
  ASSUME RulesTypeOK, MapsAgree, LoadedKnown, call = None
  PROVE  Agree(regexes, istrans)
  BY DEF RulesTypeOK, MapsAgree, LoadedKnown, Agree, IsMap

\* Deleting a field leaves the maps in agreement.
LEMMA DeleteAgrees ==
  ASSUME Agree(regexes, istrans), NEW a \in Apps, NEW f \in Fields, DeleteField(a, f)
  PROVE  Agree(regexes', istrans')
<1>1. CASE ~(a \in DOMAIN regexes /\ a \in DOMAIN istrans
               /\ f \in regexes[a] /\ f \in DOMAIN istrans[a])
  <2>1. regexes' = regexes /\ istrans' = istrans  BY <1>1 DEF DeleteField
  <2> QED BY <2>1
<1>2. CASE a \in DOMAIN regexes /\ a \in DOMAIN istrans
             /\ f \in regexes[a] /\ f \in DOMAIN istrans[a]
  <2> DEFINE less == Restrict(istrans[a], DOMAIN istrans[a] \ {f})
  <2>1. /\ regexes' = Set(regexes, a, regexes[a] \ {f})
        /\ istrans' = Set(istrans, a, less)
    BY <1>2 DEF DeleteField
  <2>2. istrans[a] \in Flags /\ regexes[a] \in SUBSET Fields
    BY <1>2, IsMapMeans DEF Agree
  <2>3. less \in Flags /\ DOMAIN less = DOMAIN istrans[a] \ {f}
    <3> DEFINE rest == DOMAIN istrans[a] \ {f}
    <3>1. istrans[a] \in [DOMAIN istrans[a] -> BOOLEAN] /\ DOMAIN istrans[a] \subseteq Fields
      BY <2>2 DEF Flags
    <3>2. less \in [rest -> BOOLEAN]  BY <3>1 DEF Restrict
    <3>3. rest \in SUBSET Fields  BY <3>1
    <3> QED BY <3>2, <3>3 DEF Flags
  <2>4. regexes[a] \ {f} \in SUBSET Fields  BY <2>2
  <2> HIDE DEF less
  <2>5. /\ IsMap(istrans', Apps, Flags) /\ DOMAIN istrans' = DOMAIN istrans \cup {a}
        /\ \A x \in DOMAIN istrans : x # a => istrans'[x] = istrans[x]
        /\ istrans'[a] = less
    BY <2>1, <2>3, SetIs DEF Agree
  <2>6. /\ IsMap(regexes', Apps, SUBSET Fields) /\ DOMAIN regexes' = DOMAIN regexes \cup {a}
        /\ \A x \in DOMAIN regexes : x # a => regexes'[x] = regexes[x]
        /\ regexes'[a] = regexes[a] \ {f}
    BY <2>1, <2>4, SetIs DEF Agree
  <2>7. ASSUME NEW x \in DOMAIN istrans' PROVE DOMAIN istrans'[x] = regexes'[x]
    BY <1>2, <2>3, <2>5, <2>6 DEF Agree
  <2> QED BY <1>2, <2>5, <2>6, <2>7 DEF Agree
<1> QED BY <1>1, <1>2

\* Inserting or replacing a field leaves the maps in agreement.
LEMMA InsertAgrees ==
  ASSUME Agree(regexes, istrans), NEW a \in Apps, NEW f \in Fields, NEW yes \in BOOLEAN,
         InsertField(a, f, yes)
  PROVE  Agree(regexes', istrans')
<1> DEFINE flags == [x \in {f} |-> yes]
<1>1. flags \in Flags /\ DOMAIN flags = {f}
  <2>1. flags \in [{f} -> BOOLEAN] /\ {f} \in SUBSET Fields  OBVIOUS
  <2> QED BY <2>1 DEF Flags
<1>2. CASE a \notin DOMAIN regexes
  <2>0. a \notin DOMAIN istrans  BY <1>2 DEF Agree
  <2>1. regexes' = Lookup(regexes, a, {f}) /\ istrans' = Lookup(istrans, a, flags)
    BY <1>2 DEF InsertField
  <2> HIDE DEF flags
  <2>2. /\ IsMap(istrans', Apps, Flags) /\ DOMAIN istrans' = DOMAIN istrans \cup {a}
        /\ \A x \in DOMAIN istrans : istrans'[x] = istrans[x]
        /\ istrans'[a] = flags
    <3>1. IsMap(istrans, Apps, Flags)  BY DEF Agree
    <3> QED BY <1>1, <2>0, <2>1, <3>1, LookupAdds
  <2>3. /\ IsMap(regexes', Apps, SUBSET Fields) /\ DOMAIN regexes' = DOMAIN regexes \cup {a}
        /\ \A x \in DOMAIN regexes : regexes'[x] = regexes[x]
        /\ regexes'[a] = {f}
    <3>1. {f} \in SUBSET Fields  OBVIOUS
    <3> QED BY <1>2, <2>1, <3>1, LookupAdds DEF Agree
  <2>4. ASSUME NEW x \in DOMAIN istrans' PROVE DOMAIN istrans'[x] = regexes'[x]
    BY <1>1, <2>2, <2>3 DEF Agree
  <2> QED BY <2>2, <2>3, <2>4 DEF Agree
<1>3. CASE a \in DOMAIN regexes
  <2>0. a \in DOMAIN istrans  BY <1>3 DEF Agree
  <2> DEFINE more == IF f \in regexes[a] THEN Set(istrans[a], f, yes)
                     ELSE Lookup(istrans[a], f, yes)
  <2>1. regexes' = Set(regexes, a, regexes[a] \cup {f}) /\ istrans' = Set(istrans, a, more)
    BY <1>3, <2>0 DEF InsertField
  <2>2. IsMap(istrans[a], Fields, BOOLEAN) /\ regexes[a] \in SUBSET Fields
    BY <1>3, <2>0, IsMapMeans, FlagsAreMaps DEF Agree, IsMap
  <2>3. IsMap(more, Fields, BOOLEAN) /\ DOMAIN more = DOMAIN istrans[a] \cup {f}
    <3>1. CASE f \in regexes[a]
      <4>1. more = Set(istrans[a], f, yes)  BY <3>1
      <4> HIDE DEF more
      <4> QED BY <2>2, <4>1, SetIs
    <3>2. CASE f \notin regexes[a]
      <4>1. more = Lookup(istrans[a], f, yes)  BY <3>2
      <4>2. f \notin DOMAIN istrans[a]  BY <2>0, <3>2 DEF Agree
      <4> HIDE DEF more
      <4> QED BY <2>2, <4>1, <4>2, LookupAdds
    <3> QED BY <3>1, <3>2
  <2>4. more \in Flags  BY <2>3 DEF IsMap, Flags
  <2> HIDE DEF more
  <2>5. regexes[a] \cup {f} \in SUBSET Fields  BY <2>2
  <2>6. /\ IsMap(istrans', Apps, Flags) /\ DOMAIN istrans' = DOMAIN istrans \cup {a}
        /\ \A x \in DOMAIN istrans : x # a => istrans'[x] = istrans[x]
        /\ istrans'[a] = more
    BY <2>1, <2>4, SetIs DEF Agree
  <2>7. /\ IsMap(regexes', Apps, SUBSET Fields) /\ DOMAIN regexes' = DOMAIN regexes \cup {a}
        /\ \A x \in DOMAIN regexes : x # a => regexes'[x] = regexes[x]
        /\ regexes'[a] = regexes[a] \cup {f}
    BY <2>1, <2>5, SetIs DEF Agree
  <2>8. ASSUME NEW x \in DOMAIN istrans' PROVE DOMAIN istrans'[x] = regexes'[x]
    BY <1>3, <2>0, <2>3, <2>6, <2>7 DEF Agree
  <2> QED BY <1>3, <2>0, <2>6, <2>7, <2>8 DEF Agree
<1> QED BY <1>2, <1>3

\* UpdateConfig leaves the maps in agreement.
LEMMA UpdateAgrees ==
  ASSUME Agree(regexes, istrans), NEW a \in Apps, NEW f \in Fields, NEW op \in BOOLEAN,
         NEW yes \in BOOLEAN, UpdateConfig(a, f, op, yes)
  PROVE  Agree(regexes', istrans')
  BY DeleteAgrees, InsertAgrees DEF UpdateConfig

--------------------------------------------------------------------------------
(* Steps. *)

\* Looking an application of the configuration file up changes nothing.
LEMMA LookupKnown ==
  ASSUME RulesInv, NEW a \in Loaded
  PROVE  /\ Lookup(regexes, a, {}) = regexes /\ Lookup(istrans, a, NoFlags) = istrans
         /\ regexes[a] \in SUBSET Fields /\ istrans[a] \in Flags
         /\ DOMAIN istrans[a] = regexes[a]
<1>1. a \in DOMAIN istrans /\ a \in DOMAIN regexes /\ a \in Apps
  BY DEF RulesInv, LoadedKnown, MapsAgree, Apps
<1>2. IsMap(regexes, Apps, SUBSET Fields) /\ IsMap(istrans, Apps, Flags)
  BY DEF RulesInv, RulesTypeOK, IsMap
<1>4. /\ Lookup(regexes, a, {}) = regexes /\ Lookup(istrans, a, NoFlags) = istrans
  BY <1>1, <1>2, LookupFinds
<1>5. regexes[a] \in SUBSET Fields /\ istrans[a] \in Flags
  BY <1>1, <1>2, IsMapMeans
<1>6. DOMAIN istrans[a] = regexes[a]  BY <1>1 DEF RulesInv, MapsAgree
<1> QED BY <1>4, <1>5, <1>6

\* SetLogFieldConfig keeps the inductive invariant.
LEMMA SetStep ==
  ASSUME RulesInv, NEW a \in Apps, NEW f \in Fields, NEW op \in BOOLEAN, NEW yes \in BOOLEAN,
         SetLogFieldConfig(a, f, op, yes)
  PROVE  RulesInv'
<1>1. Agree(regexes', istrans')
  BY AgreeWhenIdle, UpdateAgrees DEF SetLogFieldConfig, RulesInv
<1>2. call' = call /\ call = None /\ job' = job  BY DEF SetLogFieldConfig
<1> DEFINE now(w) == ToSend(job[w].app, regexes', istrans')
<1>3. /\ ever' = [w \in Workers |-> IF Reading(w) THEN ever[w] \cup now(w) ELSE ever[w]]
      /\ always' = [w \in Workers |-> IF Reading(w) THEN always[w] \cap now(w) ELSE always[w]]
  BY DEF SetLogFieldConfig, UpdateConfig
<1>4. ASSUME NEW w \in Workers, Reading(w)  PROVE now(w) \subseteq Fields
  <2>1. job[w] \in Job  BY <1>4 DEF RulesInv, RulesTypeOK, Reading
  <2>2. job[w].app \in DOMAIN regexes'  BY <1>1, <2>1 DEF Agree, Job
  <2>3. regexes'[job[w].app] \in SUBSET Fields  BY <1>1, <2>2, IsMapMeans DEF Agree
  <2> QED BY <2>3 DEF ToSend
<1>5. ASSUME NEW w \in Workers  PROVE JobWatched(w)' /\ JobFaithful(w)'
  <2>1. JobWatched(w) /\ JobFaithful(w)  BY DEF RulesInv, JobsKnow
  <2>2. CASE Reading(w)
    <3> HIDE DEF now
    <3>1. ever'[w] = ever[w] \cup now(w) /\ always'[w] = always[w] \cap now(w)
      BY <1>3, <2>2
    <3>2. always[w] \subseteq job[w].rule  BY <2>1, <2>2 DEF JobWatched
    <3>3. job'[w] = job[w] /\ job[w].at = "trans"  BY <1>2, <2>2 DEF Reading
    <3>4. now(w) = ToSend(job'[w].app, regexes', istrans')  BY <1>2 DEF now
    <3> QED BY <3>1, <3>2, <3>3, <3>4 DEF JobWatched, JobFaithful
  <2>3. CASE ~Reading(w)
    <3>1. ever'[w] = ever[w] /\ always'[w] = always[w]  BY <1>3, <2>3
    <3>2. ~Reading(w)'  BY <1>2, <2>3 DEF Reading
    <3> QED BY <1>2, <2>1, <3>1, <3>2 DEF JobWatched, JobFaithful, Sent
  <2> QED BY <2>2, <2>3
<1>6. ever' \in [Workers -> SUBSET Fields] /\ always' \in [Workers -> SUBSET Fields]
  <2> HIDE DEF now
  <2> QED BY <1>3, <1>4 DEF RulesInv, RulesTypeOK
<1>7. RulesTypeOK'
  BY <1>1, <1>2, <1>6 DEF Agree, IsMap, RulesInv, RulesTypeOK
<1> QED BY <1>1, <1>2, <1>5, <1>7
        DEF RulesInv, Agree, MapsAgree, LoadedKnown, CallFresh, JobsKnow

\* The first lookup of GetLogFieldConfig keeps the inductive invariant.
LEMMA CallGetRuleStep ==
  ASSUME RulesInv, NEW a \in Apps, CallGetRule(a)
  PROVE  RulesInv'
<1>0. Agree(regexes, istrans)  BY AgreeWhenIdle DEF CallGetRule, RulesInv
<1>1. /\ regexes' = Lookup(regexes, a, {}) /\ call' = [app |-> a, rule |-> regexes'[a]]
      /\ istrans' = istrans /\ job' = job /\ ever' = ever /\ always' = always
  BY DEF CallGetRule
<1>2. /\ IsMap(regexes', Apps, SUBSET Fields) /\ DOMAIN regexes' = DOMAIN regexes \cup {a}
      /\ \A x \in DOMAIN regexes : regexes'[x] = regexes[x]
      /\ a \notin DOMAIN regexes => regexes'[a] = {}
  <2>1. IsMap(regexes, Apps, SUBSET Fields) /\ {} \in SUBSET Fields  BY <1>0 DEF Agree
  <2>2. CASE a \in DOMAIN regexes  BY <1>1, <2>1, <2>2, LookupFinds
  <2>3. CASE a \notin DOMAIN regexes  BY <1>1, <2>1, <2>3, LookupAdds
  <2> QED BY <2>2, <2>3
<1>3. regexes'[a] \in SUBSET Fields  BY <1>2, IsMapMeans
<1>4. call' \in Call  BY <1>1, <1>3 DEF Call
<1>5. RulesTypeOK'
  BY <1>1, <1>2, <1>4 DEF RulesInv, RulesTypeOK, IsMap
<1>6. MapsAgree'
  <2>1. ASSUME NEW x \in DOMAIN istrans  PROVE DOMAIN istrans[x] = regexes'[x]
    BY <1>0, <1>2 DEF Agree
  <2>2. ASSUME NEW x \in DOMAIN regexes' \ DOMAIN istrans
        PROVE  regexes'[x] = {} /\ call' # None /\ call'.app = x
    BY <1>0, <1>1, <1>2, <1>4, <2>2, RulesAssumption DEF Agree
  <2> QED BY <1>0, <1>1, <1>2, <2>1, <2>2 DEF MapsAgree, Agree
<1>7. CallFresh'  BY <1>1, <1>2 DEF CallFresh
<1>8. JobsKnow'
  <2>1. ASSUME NEW w \in Workers, Reading(w)
        PROVE  ToSend(job[w].app, regexes', istrans) = ToSend(job[w].app, regexes, istrans)
    <3>1. job[w].app \in DOMAIN regexes
      BY <2>1, <1>0 DEF RulesInv, RulesTypeOK, Reading, Job, Agree
    <3> QED BY <1>2, <3>1 DEF ToSend
  <2> QED BY <1>1, <2>1 DEF RulesInv, JobsKnow, JobWatched, JobFaithful, Reading, Sent
<1> QED BY <1>0, <1>1, <1>5, <1>6, <1>7, <1>8 DEF RulesInv, LoadedKnown

\* The second lookup keeps it, and sees the rules the first one saw.
LEMMA CallGetIsTransStep ==
  ASSUME RulesInv, CallGetIsTrans
  PROVE  /\ RulesInv'
         /\ call.rule = regexes'[call.app] /\ call.rule = DOMAIN istrans'[call.app]
<1> DEFINE a == call.app
<1>1. /\ istrans' = Lookup(istrans, a, NoFlags) /\ call' = None /\ call # None
      /\ regexes' = regexes /\ job' = job /\ ever' = ever /\ always' = always
  BY DEF CallGetIsTrans
<1>2. a \in Apps /\ a \in DOMAIN regexes /\ call.rule = regexes[a]
  BY <1>1 DEF RulesInv, RulesTypeOK, Call, CallFresh
<1>3. IsMap(istrans, Apps, Flags)  BY DEF RulesInv, RulesTypeOK, IsMap
<1>4. NoFlags \in Flags /\ DOMAIN NoFlags = {}
  <2>1. NoFlags \in [{} -> BOOLEAN] /\ {} \in SUBSET Fields  BY DEF NoFlags
  <2> QED BY <2>1 DEF Flags
<1> HIDE DEF a
<1>5. /\ IsMap(istrans', Apps, Flags) /\ DOMAIN istrans' = DOMAIN istrans \cup {a}
      /\ \A x \in DOMAIN istrans : istrans'[x] = istrans[x]
      /\ a \notin DOMAIN istrans => istrans'[a] = NoFlags
  <2>1. CASE a \in DOMAIN istrans  BY <1>1, <1>3, <2>1, LookupFinds
  <2>2. CASE a \notin DOMAIN istrans
    <3>1. a \in Apps /\ NoFlags \in Flags  BY <1>2, <1>4
    <3>2. LET t == Lookup(istrans, a, NoFlags)
          IN  /\ IsMap(t, Apps, Flags) /\ DOMAIN t = DOMAIN istrans \cup {a}
              /\ t[a] = NoFlags /\ \A x \in DOMAIN istrans : t[x] = istrans[x]
      BY ONLY <1>3, <2>2, <3>1, LookupAdds
    <3> QED BY <1>1, <3>2
  <2> QED BY <2>1, <2>2
<1>6. RulesTypeOK'
  BY <1>1, <1>5 DEF RulesInv, RulesTypeOK, IsMap
<1>7. ASSUME NEW x \in DOMAIN istrans'  PROVE DOMAIN istrans'[x] = regexes[x]
  <2>1. CASE x \in DOMAIN istrans  BY <1>5, <2>1 DEF RulesInv, MapsAgree
  <2>2. CASE x \notin DOMAIN istrans
    <3>1. x = a  BY <1>5, <2>2
    <3>2. regexes[a] = {}  BY <1>2, <2>2, <3>1 DEF RulesInv, MapsAgree
    <3> QED BY <1>4, <1>5, <2>2, <3>1, <3>2
  <2> QED BY <2>1, <2>2
<1>8. DOMAIN regexes = DOMAIN istrans'
  BY <1>2, <1>5 DEF RulesInv, MapsAgree, a
<1>9. MapsAgree'  BY <1>1, <1>7, <1>8 DEF MapsAgree
<1>10. JobsKnow'
  <2>1. ASSUME NEW w \in Workers, Reading(w)
        PROVE  ToSend(job[w].app, regexes, istrans') = ToSend(job[w].app, regexes, istrans)
    <3>1. job[w].app \in DOMAIN istrans
      BY <2>1 DEF RulesInv, RulesTypeOK, Reading, Job, LoadedKnown
    <3> QED BY <1>5, <3>1 DEF ToSend
  <2> QED BY <1>1, <2>1 DEF RulesInv, JobsKnow, JobWatched, JobFaithful, Reading, Sent
<1>11. RulesInv'
  BY <1>1, <1>5, <1>6, <1>9, <1>10 DEF RulesInv, LoadedKnown, CallFresh
<1>12. call.rule = regexes'[a] /\ call.rule = DOMAIN istrans'[a]
  BY <1>1, <1>2, <1>7, <1>8
<1> QED BY <1>11, <1>12 DEF a

\* A worker's first lookup keeps the inductive invariant.
LEMMA JobGetRuleStep ==
  ASSUME RulesInv, NEW w \in Workers, NEW a \in Loaded, JobGetRule(w, a)
  PROVE  RulesInv'
<1> DEFINE new == [at |-> "trans", app |-> a, rule |-> regexes[a], flags |-> NoFlags]
<1>1. regexes' = regexes /\ istrans' = istrans /\ call' = call
  BY LookupKnown DEF JobGetRule
<1>2. regexes[a] \in SUBSET Fields /\ DOMAIN istrans[a] = regexes[a]  BY LookupKnown
<1>3. NoFlags \in Flags
  <2>1. NoFlags \in [{} -> BOOLEAN] /\ {} \in SUBSET Fields  BY DEF NoFlags
  <2> QED BY <2>1 DEF Flags
<1>4. new \in Job  BY <1>2, <1>3 DEF Job
<1>5. /\ job' = [job EXCEPT ![w] = new]
      /\ ever' = [ever EXCEPT ![w] = ToSend(a, regexes, istrans)]
      /\ always' = [always EXCEPT ![w] = ToSend(a, regexes, istrans)]
  BY <1>1 DEF JobGetRule
<1>6. ToSend(a, regexes, istrans) \subseteq regexes[a]  BY DEF ToSend
<1> HIDE DEF new
<1>7. RulesTypeOK'
  <2>1. ToSend(a, regexes, istrans) \in SUBSET Fields  BY <1>2, <1>6
  <2> QED BY <1>1, <1>4, <1>5, <2>1 DEF RulesInv, RulesTypeOK
<1>8. ASSUME NEW v \in Workers  PROVE JobWatched(v)' /\ JobFaithful(v)'
  <2>1. CASE v = w
    <3>1. /\ job'[w] = new /\ ever'[w] = ToSend(a, regexes, istrans)
          /\ always'[w] = ToSend(a, regexes, istrans)
      BY <1>5 DEF RulesInv, RulesTypeOK
    <3>2. new.at = "trans" /\ new.app = a /\ new.rule = regexes[a]  BY DEF new
    <3> QED BY <1>1, <1>6, <2>1, <3>1, <3>2 DEF JobWatched, JobFaithful
  <2>2. CASE v # w
    <3>1. job'[v] = job[v] /\ ever'[v] = ever[v] /\ always'[v] = always[v]
      BY <1>5, <2>2 DEF RulesInv, RulesTypeOK
    <3> QED BY <1>1, <3>1 DEF RulesInv, JobsKnow, JobWatched, JobFaithful, Reading, Sent
  <2> QED BY <2>1, <2>2
<1> QED BY <1>1, <1>7, <1>8 DEF RulesInv, JobsKnow, MapsAgree, LoadedKnown, CallFresh

\* A worker's second lookup keeps the inductive invariant.
LEMMA JobGetIsTransStep ==
  ASSUME RulesInv, NEW w \in Workers, JobGetIsTrans(w)
  PROVE  RulesInv'
<1> DEFINE a == job[w].app
           new == [at |-> "send", app |-> a, rule |-> job[w].rule, flags |-> istrans[a]]
<1>0. job[w] \in Job /\ job[w] # None /\ Reading(w)
  BY DEF RulesInv, RulesTypeOK, JobGetIsTrans, Reading
<1>1. a \in Loaded  BY <1>0 DEF Job
<1>2. istrans' = istrans  BY <1>1, LookupKnown DEF JobGetIsTrans
<1>3. /\ regexes' = regexes /\ call' = call /\ ever' = ever /\ always' = always
      /\ job' = [job EXCEPT ![w] = new]
  BY <1>2 DEF JobGetIsTrans
<1>4. istrans[a] \in Flags /\ DOMAIN istrans[a] = regexes[a]  BY <1>1, LookupKnown
<1>5. new \in Job  BY <1>0, <1>4 DEF Job
<1>6. /\ new.at = "send" /\ new.rule = job[w].rule /\ new.flags = istrans[a]
  OBVIOUS
<1>7. always[w] \subseteq Sent(new) /\ Sent(new) \subseteq ever[w]
  <2>1. /\ always[w] \subseteq job[w].rule \cap ToSend(a, regexes, istrans)
        /\ ToSend(a, regexes, istrans) \subseteq ever[w]
    BY <1>0 DEF RulesInv, JobsKnow, JobWatched
  <2>2. ToSend(a, regexes, istrans) = {f \in DOMAIN istrans[a] : istrans[a][f]}
    BY <1>4 DEF ToSend
  <2>3. Sent(new) = {k \in (job[w].rule \cup Needed) \cap DOMAIN istrans[a] : istrans[a][k]}
    BY <1>6 DEF Sent
  <2> HIDE DEF a, new
  <2> QED BY <2>1, <2>2, <2>3
<1> HIDE DEF new
<1>8. RulesTypeOK'  BY <1>2, <1>3, <1>5 DEF RulesInv, RulesTypeOK
<1>9. ASSUME NEW v \in Workers  PROVE JobWatched(v)' /\ JobFaithful(v)'
  <2>1. CASE v = w
    <3>1. job'[w] = new  BY <1>3 DEF RulesInv, RulesTypeOK
    <3> QED BY <1>3, <1>6, <1>7, <2>1, <3>1 DEF JobWatched, JobFaithful, Reading
  <2>2. CASE v # w
    <3>1. job'[v] = job[v]  BY <1>3, <2>2 DEF RulesInv, RulesTypeOK
    <3> QED BY <1>2, <1>3, <3>1 DEF RulesInv, JobsKnow, JobWatched, JobFaithful, Reading, Sent
  <2> QED BY <2>1, <2>2
<1> QED BY <1>2, <1>3, <1>8, <1>9 DEF RulesInv, JobsKnow, MapsAgree, LoadedKnown, CallFresh

\* Sending a record keeps the inductive invariant.
LEMMA TransmitStep ==
  ASSUME RulesInv, NEW w \in Workers, Transmit(w)
  PROVE  RulesInv'
<1>1. /\ regexes' = regexes /\ istrans' = istrans /\ call' = call /\ ever' = ever
      /\ always' = always /\ job' = [job EXCEPT ![w] = None]
  BY DEF Transmit
<1>2. RulesTypeOK'  BY <1>1 DEF RulesInv, RulesTypeOK
<1>3. ASSUME NEW v \in Workers  PROVE JobWatched(v)' /\ JobFaithful(v)'
  <2>1. job'[v] = job[v] \/ job'[v] = None  BY <1>1 DEF RulesInv, RulesTypeOK
  <2> QED BY <1>1, <2>1 DEF RulesInv, JobsKnow, JobWatched, JobFaithful, Reading, Sent
<1> QED BY <1>1, <1>2, <1>3 DEF RulesInv, JobsKnow, MapsAgree, LoadedKnown, CallFresh

\* Other steps of the program keep the inductive invariant.
LEMMA IdleStep == RulesInv /\ UNCHANGED ruleVars => RulesInv'
  BY DEF ruleVars, RulesInv, RulesTypeOK, MapsAgree, LoadedKnown, CallFresh, JobsKnow,
         JobWatched, JobFaithful, Reading, Sent

\* Every step on the field rules keeps the inductive invariant.
LEMMA RulesInvStep == RulesInv /\ [RulesNext]_ruleVars => RulesInv'
  BY SetStep, CallGetRuleStep, CallGetIsTransStep, JobGetRuleStep, JobGetIsTransStep,
     TransmitStep, IdleStep
  DEF RulesNext

\* LoadConfig establishes the inductive invariant.
LEMMA RulesInvInit == RulesInit => RulesInv
<1> SUFFICES ASSUME NEW cfg \in [Loaded -> SUBSET Fields], NEW yes \in [Loaded -> SUBSET Fields],
                    regexes = cfg,
                    istrans = [a \in Loaded |-> [f \in cfg[a] |-> f \in yes[a]]],
                    call = None, job = [w \in Workers |-> None],
                    ever = [w \in Workers |-> {}], always = [w \in Workers |-> {}]
             PROVE  RulesInv
  BY DEF RulesInit
<1>1. \A a \in Loaded : istrans[a] \in Flags /\ DOMAIN istrans[a] = cfg[a]
  <2> TAKE a \in Loaded
  <2>1. [f \in cfg[a] |-> f \in yes[a]] \in [cfg[a] -> BOOLEAN]  OBVIOUS
  <2>2. cfg[a] \in SUBSET Fields  OBVIOUS
  <2> QED BY <2>1, <2>2 DEF Flags
<1>2. Loaded \in SUBSET Apps  BY DEF Apps
<1>3. istrans \in [Loaded -> Flags]  BY <1>1
<1>4. RulesTypeOK  BY <1>2, <1>3 DEF RulesTypeOK
<1> QED BY <1>1, <1>4 DEF RulesInv, MapsAgree, LoadedKnown, CallFresh, JobsKnow, JobWatched,
                          JobFaithful, Reading

--------------------------------------------------------------------------------
(* The theorems. *)

\* The inductive invariant of the field rules.
THEOREM RulesInvariant == RulesSpec => []RulesInv
  BY RulesInvInit, RulesInvStep, PTL DEF RulesSpec

\* Management calls and lookups keep the two maps in step.
THEOREM RulesAgree == RulesSpec => []MapsAgree
<1>1. RulesInv => MapsAgree  BY DEF RulesInv
<1> QED BY RulesInvariant, <1>1, PTL

\* A worker sends what was configured, although it looks twice.
THEOREM WorkersSendConfigured == RulesSpec => []SendsWhatIsConfigured
<1>1. RulesInv => SendsWhatIsConfigured
  BY DEF RulesInv, JobsKnow, JobFaithful, SendsWhatIsConfigured
<1> QED BY RulesInvariant, <1>1, PTL

\* Only the second lookup ends a GetLogFieldConfig.
LEMMA CallEnds ==
  ASSUME RulesInv, RulesNext, call # None, call' = None
  PROVE  CallGetIsTrans
  BY DEF RulesNext, SetLogFieldConfig, CallGetRule, JobGetRule, JobGetIsTrans, Transmit

\* GetLogFieldConfig answers with the rules of one moment.
THEOREM CallReadsOneMoment == RulesSpec => ReadsOneMoment
<1>1. RulesInv /\ [RulesNext]_ruleVars =>
        [call # None /\ call' = None =>
           call.rule = regexes'[call.app] /\ call.rule = DOMAIN istrans'[call.app]]_ruleVars
  BY CallEnds, CallGetIsTransStep
<1> QED BY RulesInvariant, <1>1, PTL DEF RulesSpec, ReadsOneMoment

-------------------------------------------------------------------------------
(* Sums over finite sets, which the community modules define by recursion over *)
(* the subsets of a set.  What holds of every subset is proved by a smallest   *)
(* one of which it does not hold.                                              *)

Pick(s) == CHOOSE x \in s : TRUE
AddsUp(g, f, D) == g = [s \in D |-> IF s = {} THEN 0 ELSE f[Pick(s)] + g[s \ {Pick(s)}]]

\* What the fold of the community modules is.
LEMMA SumIs ==
  ASSUME NEW f, NEW S
  PROVE  SumFunctionOnSet(f, S) = (CHOOSE g : AddsUp(g, f, SUBSET S))[S]
BY Zenon DEF SumFunctionOnSet, FoldFunctionOnSet, MapThenFoldSet, AddsUp, Pick

\* There is such a function over the subsets of a finite set.
LEMMA SumsExist ==
  ASSUME NEW f, NEW S, IsFiniteSet(S)
  PROVE  \E g : AddsUp(g, f, SUBSET S)
<1> DEFINE Small(n) == {s \in SUBSET S : Cardinality(s) <= n}
           Bad == {n \in Nat : ~ \E g : AddsUp(g, f, Small(n))}
<1>1. ASSUME NEW s \in SUBSET S
      PROVE  /\ IsFiniteSet(s) /\ Cardinality(s) \in Nat
             /\ s # {} => Pick(s) \in s /\ Cardinality(s \ {Pick(s)}) = Cardinality(s) - 1
             /\ Cardinality(s) = 0 <=> s = {}
  <2>1. IsFiniteSet(s) /\ Cardinality(s) \in Nat  BY FS_Subset, FS_CardinalityType
  <2>2. s # {} => Pick(s) \in s  BY DEF Pick
  <2> QED BY <2>1, <2>2, FS_RemoveElement, FS_EmptySet
<1>2. Bad = {}
  <2> SUFFICES ASSUME Bad # {} PROVE FALSE  OBVIOUS
  <2>1. PICK n \in Bad : \A m \in Bad : n <= m  BY LeastOf
  <2>2. CASE n = 0
    <3>1. Small(n) = {{}}
      <4>1. ASSUME NEW s \in Small(n) PROVE s = {}
        <5>1. Cardinality(s) \in Nat /\ Cardinality(s) <= n  BY <1>1
        <5>2. Cardinality(s) = 0  BY <2>2, <5>1
        <5> QED BY <1>1, <5>2
      <4>2. {} \in SUBSET S /\ Cardinality({}) <= n  BY <2>2, FS_EmptySet
      <4> QED BY <4>1, <4>2
    <3> DEFINE g == [s \in Small(n) |-> 0]
    <3>2. AddsUp(g, f, Small(n))  BY <3>1 DEF AddsUp
    <3> QED BY <3>2
  <2>3. CASE n # 0
    <3>1. n - 1 \in Nat /\ n - 1 \notin Bad
      <4> HIDE DEF Small
      <4>1. n \in Nat  OBVIOUS
      <4>2. n - 1 \in Nat /\ ~(n <= n - 1)  BY <2>3, <4>1
      <4> HIDE DEF Bad
      <4> QED BY <2>1, <4>2
    <3>2. PICK h : AddsUp(h, f, Small(n - 1))  BY <3>1
    <3> DEFINE g == [s \in Small(n) |-> IF s = {} THEN 0 ELSE f[Pick(s)] + h[s \ {Pick(s)}]]
    <3>3. ASSUME NEW s \in Small(n), s # {} PROVE g[s \ {Pick(s)}] = h[s \ {Pick(s)}]
      <4>1. s \ {Pick(s)} \in Small(n - 1) /\ s \ {Pick(s)} \in Small(n)
        BY <1>1, <3>1, <3>3
      <4> QED BY <3>2, <4>1 DEF AddsUp
    <3> HIDE DEF Small
    <3>4. AddsUp(g, f, Small(n))  BY <3>3 DEF AddsUp
    <3> QED BY <3>4
  <2> QED BY <2>2, <2>3
<1>3. Cardinality(S) \in Nat /\ Small(Cardinality(S)) = SUBSET S
  BY <1>1, FS_Subset
<1>4. Cardinality(S) \notin Bad  BY <1>2
<1> QED BY <1>3, <1>4

\* The parts of a finite set.
LEMMA PartsOf ==
  ASSUME NEW S, IsFiniteSet(S), NEW s \in SUBSET S
  PROVE  /\ Cardinality(s) \in Nat
         /\ s # {} => Pick(s) \in s
         /\ \A x \in s : s \ {x} \in SUBSET S /\ Cardinality(s \ {x}) < Cardinality(s)
<1>1. IsFiniteSet(s) /\ Cardinality(s) \in Nat  BY FS_Subset, FS_CardinalityType
<1>2. s # {} => Pick(s) \in s  BY DEF Pick
<1>3. ASSUME NEW x \in s PROVE Cardinality(s \ {x}) < Cardinality(s)
  <2>1. Cardinality(s \ {x}) = Cardinality(s) - 1  BY <1>1, FS_RemoveElement
  <2> QED BY <1>1, <2>1
<1> QED BY <1>1, <1>2, <1>3

\* Of the parts that are bad, if there are any, one is smallest.
LEMMA SmallestBad ==
  ASSUME NEW S, IsFiniteSet(S), NEW B \in SUBSET SUBSET S, B # {}
  PROVE  \E s \in B : \A u \in SUBSET S : Cardinality(u) < Cardinality(s) => u \notin B
<1> DEFINE T == {Cardinality(s) : s \in B}
<1>1. T \in SUBSET Nat /\ T # {}  BY PartsOf
<1>2. PICK n \in T : \A m \in T : n <= m  BY <1>1, LeastOf
<1>3. PICK s \in B : n = Cardinality(s)  BY <1>2
<1>4. ASSUME NEW u \in B PROVE ~(Cardinality(u) < Cardinality(s))
  <2>1. Cardinality(s) <= Cardinality(u)  BY <1>2, <1>3
  <2> QED BY <2>1, PartsOf
<1> QED BY <1>3, <1>4

\* g tells of every part of the finite set S what f adds up to over it.
Totals(g, f, S) ==
  IsFiniteSet(S) /\ (\A x \in S : f[x] \in Nat) /\ AddsUp(g, f, SUBSET S)

LEMMA TotalIs ==
  ASSUME NEW g, NEW f, NEW S, Totals(g, f, S), NEW s \in SUBSET S
  PROVE  /\ s = {} => g[s] = 0
         /\ s # {} => g[s] = f[Pick(s)] + g[s \ {Pick(s)}]
BY DEF Totals, AddsUp

\* Totals are numbers.
LEMMA TotalsType ==
  ASSUME NEW g, NEW f, NEW S, Totals(g, f, S)
  PROVE  \A s \in SUBSET S : g[s] \in Nat
<1> DEFINE Bad == {s \in SUBSET S : g[s] \notin Nat}
<1> SUFFICES ASSUME Bad # {} PROVE FALSE  OBVIOUS
<1>0. IsFiniteSet(S) /\ \A x \in S : f[x] \in Nat  BY DEF Totals
<1>1. PICK s \in Bad : \A u \in SUBSET S : Cardinality(u) < Cardinality(s) => u \notin Bad
  <2>1. Bad \in SUBSET SUBSET S  OBVIOUS
  <2> HIDE DEF Bad
  <2> QED BY <1>0, <2>1, SmallestBad
<1>2. s \in SUBSET S /\ s # {}
  <2>1. s \in SUBSET S /\ g[s] \notin Nat  OBVIOUS
  <2>2. {} \in SUBSET S  OBVIOUS
  <2>3. g[{}] = 0  BY <2>2, TotalIs
  <2> QED BY <2>1, <2>3
<1>3. Pick(s) \in s /\ s \ {Pick(s)} \in SUBSET S /\ s \ {Pick(s)} \notin Bad
  BY <1>0, <1>1, <1>2, PartsOf
<1>4. g[s] = f[Pick(s)] + g[s \ {Pick(s)}]  BY <1>2, TotalIs
<1>5. f[Pick(s)] \in Nat /\ g[s \ {Pick(s)}] \in Nat  BY <1>0, <1>2, <1>3
<1> QED BY <1>4, <1>5

\* Any member and the rest add up to the whole.
LEMMA TotalSplits ==
  ASSUME NEW g, NEW f, NEW S, Totals(g, f, S)
  PROVE  \A s \in SUBSET S : \A x \in s : g[s] = f[x] + g[s \ {x}]
<1> DEFINE Bad == {s \in SUBSET S : \E x \in s : g[s] # f[x] + g[s \ {x}]}
<1> SUFFICES ASSUME Bad # {} PROVE FALSE  OBVIOUS
<1>0. IsFiniteSet(S) /\ \A x \in S : f[x] \in Nat  BY DEF Totals
<1>1. PICK s \in Bad : \A u \in SUBSET S : Cardinality(u) < Cardinality(s) => u \notin Bad
  <2>1. Bad \in SUBSET SUBSET S  OBVIOUS
  <2> HIDE DEF Bad
  <2> QED BY <1>0, <2>1, SmallestBad
<1>2. PICK x \in s : g[s] # f[x] + g[s \ {x}]  BY <1>1
<1> DEFINE y == Pick(s)
<1>3. s \in SUBSET S /\ s # {} /\ y \in s /\ g[s] = f[y] + g[s \ {y}]
  <2>1. s \in SUBSET S /\ s # {}  BY <1>2
  <2>2. y \in s  BY <1>0, <2>1, PartsOf
  <2>3. g[s] = f[y] + g[s \ {y}]  BY <2>1, TotalIs
  <2> QED BY <2>1, <2>2, <2>3
<1> HIDE DEF y
<1>4. /\ s \ {x} \in SUBSET S /\ s \ {x} \notin Bad
      /\ s \ {y} \in SUBSET S /\ s \ {y} \notin Bad
  <2>1. \A z \in s : s \ {z} \in SUBSET S /\ Cardinality(s \ {z}) < Cardinality(s)
    BY <1>0, <1>3, PartsOf
  <2> HIDE DEF Bad
  <2> QED BY <1>1, <1>2, <1>3, <2>1
<1>5. x # y /\ x \in s \ {y} /\ y \in s \ {x}  BY <1>2, <1>3
<1>6. g[s \ {y}] = f[x] + g[(s \ {y}) \ {x}] /\ g[s \ {x}] = f[y] + g[(s \ {x}) \ {y}]
  BY <1>4, <1>5
<1>7. PICK r \in SUBSET S : r = (s \ {y}) \ {x} /\ r = (s \ {x}) \ {y}  BY <1>3
<1>8. g[r] \in Nat /\ f[x] \in Nat /\ f[y] \in Nat  BY <1>0, <1>2, <1>3, <1>7, TotalsType
<1> DEFINE a == f[x]  b == f[y]  c == g[r]
<1>9. g[s] = b + (a + c) /\ g[s \ {x}] = b + c  BY <1>3, <1>6, <1>7
<1>10. g[s] # a + g[s \ {x}]  BY <1>2
<1>11. a \in Nat /\ b \in Nat /\ c \in Nat  BY <1>8
<1> HIDE DEF a, b, c
<1> QED BY <1>9, <1>10, <1>11

\* What is nothing does not count: where h is f, and 0 elsewhere, it adds up to as much.
LEMMA ZerosDoNotCount ==
  ASSUME NEW g, NEW f, NEW A, Totals(g, f, A), NEW l, NEW h, NEW B, Totals(l, h, B),
         A \subseteq B, \A x \in B : h[x] = IF x \in A THEN f[x] ELSE 0
  PROVE  \A s \in SUBSET B : l[s] = g[s \cap A]
<1> DEFINE Bad == {s \in SUBSET B : l[s] # g[s \cap A]}
<1> SUFFICES ASSUME Bad # {} PROVE FALSE  OBVIOUS
<1>0. IsFiniteSet(B)  BY DEF Totals
<1>1. PICK s \in Bad : \A u \in SUBSET B : Cardinality(u) < Cardinality(s) => u \notin Bad
  <2>1. Bad \in SUBSET SUBSET B  OBVIOUS
  <2> HIDE DEF Bad
  <2> QED BY <1>0, <2>1, SmallestBad
<1> DEFINE x == Pick(s)
<1>2. s \in SUBSET B /\ s # {}
  <2>1. {} \in SUBSET A /\ {} \in SUBSET B /\ {} \cap A = {}  OBVIOUS
  <2>2. l[{}] = 0 /\ g[{}] = 0  BY <2>1, TotalIs
  <2> QED BY <2>1, <2>2
<1>3. x \in s /\ s \ {x} \in SUBSET B /\ s \ {x} \notin Bad /\ l[s] = h[x] + l[s \ {x}]
  <2>1. x \in s  BY <1>0, <1>2, PartsOf
  <2>2. l[s] = h[x] + l[s \ {x}]  BY <1>2, TotalIs
  <2> HIDE DEF x, Bad
  <2>3. s \ {x} \in SUBSET B /\ Cardinality(s \ {x}) < Cardinality(s)
    BY <1>0, <1>2, <2>1, PartsOf
  <2> QED BY <1>1, <2>1, <2>2, <2>3
<1> HIDE DEF x
<1>4. l[s] = h[x] + g[(s \ {x}) \cap A] /\ s \cap A \in SUBSET A  BY <1>3
<1>5. CASE x \in A
  <2>1. g[s \cap A] = f[x] + g[(s \cap A) \ {x}]  BY <1>3, <1>4, <1>5, TotalSplits
  <2>2. (s \cap A) \ {x} = (s \ {x}) \cap A  OBVIOUS
  <2>3. h[x] = f[x]  BY <1>2, <1>3, <1>5
  <2> QED BY <1>1, <1>4, <2>1, <2>2, <2>3
<1>6. CASE x \notin A
  <2>1. s \cap A = (s \ {x}) \cap A  BY <1>6
  <2>2. h[x] = 0  BY <1>2, <1>3, <1>6
  <2>3. g[s \cap A] \in Nat  BY <1>4, TotalsType
  <2>4. l[s] = 0 + g[s \cap A]  BY <1>4, <2>1, <2>2
  <2> DEFINE a == g[s \cap A]  b == l[s]
  <2>5. b # a  BY <1>1
  <2>6. a \in Nat /\ b = 0 + a  BY <2>3, <2>4
  <2> HIDE DEF a, b
  <2> QED BY <2>5, <2>6
<1> QED BY <1>5, <1>6

\* A sum over a finite set is one of its totals.
LEMMA SumIsTotal ==
  ASSUME NEW f, NEW S, IsFiniteSet(S), \A x \in S : f[x] \in Nat
  PROVE  \E g : Totals(g, f, S) /\ g[S] = SumFunctionOnSet(f, S)
<1> DEFINE g == CHOOSE g : AddsUp(g, f, SUBSET S)
<1>1. AddsUp(g, f, SUBSET S)  BY SumsExist
<1> HIDE DEF g
<1>2. Totals(g, f, S)  BY <1>1 DEF Totals
<1>3. g[S] = SumFunctionOnSet(f, S)  BY SumIs DEF g
<1> QED BY <1>2, <1>3

\* Sums are numbers.
LEMMA SumType ==
  ASSUME NEW f, NEW S, IsFiniteSet(S), \A x \in S : f[x] \in Nat
  PROVE  SumFunctionOnSet(f, S) \in Nat
<1>1. PICK g : Totals(g, f, S) /\ g[S] = SumFunctionOnSet(f, S)  BY SumIsTotal
<1> QED BY <1>1, TotalsType

\* A sum over nothing.
LEMMA SumOfNone == ASSUME NEW f PROVE SumFunctionOnSet(f, {}) = 0
<1>1. PICK g : Totals(g, f, {}) /\ g[{}] = SumFunctionOnSet(f, {})
  BY SumIsTotal, FS_EmptySet
<1>2. {} \in SUBSET {}  OBVIOUS
<1> QED BY <1>1, <1>2, TotalIs

\* A sum over one.
LEMMA SumOfOne ==
  ASSUME NEW f, NEW x, f[x] \in Nat
  PROVE  SumFunctionOnSet(f, {x}) = f[x]
<1>1. IsFiniteSet({x}) /\ {} \in SUBSET {x} /\ {x} \in SUBSET {x} /\ {x} \ {x} = {}
  BY FS_Singleton
<1>2. PICK g : Totals(g, f, {x}) /\ g[{x}] = SumFunctionOnSet(f, {x})  BY <1>1, SumIsTotal
<1>3. g[{x}] = f[x] + g[{x} \ {x}]  BY <1>1, <1>2, TotalSplits
<1>4. g[{}] = 0  BY <1>1, <1>2, TotalIs
<1> QED BY <1>1, <1>2, <1>3, <1>4

\* A sum is the same without what is 0.
LEMMA SumWithoutZeros ==
  ASSUME NEW f, NEW A, NEW h, NEW B, IsFiniteSet(B), A \subseteq B,
         \A x \in A : f[x] \in Nat,
         \A x \in B : h[x] = IF x \in A THEN f[x] ELSE 0
  PROVE  SumFunctionOnSet(f, A) = SumFunctionOnSet(h, B)
<1>1. IsFiniteSet(A) /\ \A x \in B : h[x] \in Nat  BY FS_Subset
<1>2. PICK g : Totals(g, f, A) /\ g[A] = SumFunctionOnSet(f, A)  BY <1>1, SumIsTotal
<1>3. PICK l : Totals(l, h, B) /\ l[B] = SumFunctionOnSet(h, B)  BY <1>1, SumIsTotal
<1>4. B \in SUBSET B /\ B \cap A = A  OBVIOUS
<1>5. l[B] = g[B \cap A]  BY <1>2, <1>3, <1>4, ZerosDoNotCount
<1> QED BY <1>2, <1>3, <1>4, <1>5


-------------------------------------------------------------------------------
(* The counts of PvStat. *)

\* No counter of the configuration file is ever lost, and each is one of its application.
CountersKnown ==
  /\ Counted \subseteq DOMAIN pv
  /\ \A x \in DOMAIN Type : Type[x] \in DOMAIN support /\ x \in support[Type[x]]

\* Who inserts has the mutex, and inserts new counters.
AddingNew == adding # None => pvmutex = "rpc" /\ Counters({adding}) \cap Counted = {}

\* Who is about to write a count has the mutex, and what was read is still so.
CountFresh ==
  \A p \in Pullers : At(p, "modify") =>
    pvmutex = p /\ puller[p].pv = CountAt(pv[puller[p].key], puller[p].time)

\* A record that passed the filter is counted, missed or in a puller's hands.
Balanced ==
  \A k \in Counted, t \in Seconds :
    CountAt(pv[k], t) + missed[k][t] + Pending(k, t) = seen[k][t]

\* A counter is missed only while, and after, another was inserted.
MissedByInsertion ==
  (\E k \in Counted : missed[k] # Zero) => adding # None \/ DOMAIN pv # Counted

AddedEmpty == \A k \in DOMAIN pv \ Counted : pv[k] = Empty

PvInv ==
  /\ PvTypeOK /\ CountersKnown /\ AddingNew /\ CountFresh /\ Balanced
  /\ MissedByInsertion /\ AddedEmpty

\* The counters of the configuration file are those of its srcids.
LEMMA CountedIs ==
  ASSUME PvAssumption
  PROVE  /\ \A x \in DOMAIN Type, o \in Outcomes : <<Type[x], x, o>> \in Counted
         /\ \A k \in Counted : \E x \in DOMAIN Type, o \in Outcomes : k = <<Type[x], x, o>>
         /\ \A x \in DOMAIN Type : x \in Srcids /\ Type[x] \in Loaded /\ Type[x] \in Apps
         /\ Counted \subseteq Key
<1>1. ASSUME NEW x \in DOMAIN Type, NEW o \in Outcomes PROVE <<Type[x], x, o>> \in Counted
  <2> DEFINE pair == <<Type[x], x>>
  <2>1. pair \in {<<Type[y], y>> : y \in DOMAIN Type}  OBVIOUS
  <2>2. pair[1] = Type[x] /\ pair[2] = x  OBVIOUS
  <2> HIDE DEF pair
  <2>3. <<pair[1], pair[2], o>> \in Counted  BY <2>1 DEF Counted, Counters
  <2> QED BY <2>2, <2>3
<1>2. ASSUME NEW k \in Counted
      PROVE  \E x \in DOMAIN Type, o \in Outcomes : k = <<Type[x], x, o>>
  <2>1. PICK pair \in {<<Type[y], y>> : y \in DOMAIN Type}, o \in Outcomes :
          k = <<pair[1], pair[2], o>>
    BY <1>2 DEF Counted, Counters
  <2>2. PICK x \in DOMAIN Type : pair = <<Type[x], x>>  BY <2>1
  <2> QED BY <2>1, <2>2
<1>3. ASSUME NEW x \in DOMAIN Type PROVE x \in Srcids /\ Type[x] \in Loaded /\ Type[x] \in Apps
  BY DEF PvAssumption, Range, Apps
<1>4. Counted \subseteq Key  BY <1>2, <1>3 DEF Key
<1> QED BY <1>1, <1>2, <1>3, <1>4

\* The counters of one pair.
LEMMA CountersOfOne ==
  ASSUME NEW a, NEW x, NEW k
  PROVE  k \in Counters({<<a, x>>}) <=> \E o \in Outcomes : k = <<a, x, o>>
<1>1. ASSUME NEW o PROVE <<(<<a, x>>)[1], (<<a, x>>)[2], o>> = <<a, x, o>>  OBVIOUS
<1>2. k \in Counters({<<a, x>>}) <=>
        \E o \in Outcomes : k = <<(<<a, x>>)[1], (<<a, x>>)[2], o>>
  BY DEF Counters
<1> QED BY <1>1, <1>2

\* What a puller has in hand, with its fields.
LEMMA PlaceIs3 ==
  ASSUME NEW r \in Place
  PROVE  /\ r = [key |-> r.key, at |-> r.at, time |-> r.time, pv |-> r.pv]
         /\ r.key \in Counted /\ r.time \in Seconds /\ r.pv \in Nat
         /\ r.at \in {"find", "search", "modify"}
BY DEF Place

\* One count more.
LEMMA OneMore ==
  ASSUME NEW f \in [Counted -> [Seconds -> Nat]], NEW k \in Counted, NEW t \in Seconds, NEW g,
         g = [f EXCEPT ![k][t] = @ + 1]
  PROVE  /\ g \in [Counted -> [Seconds -> Nat]]
         /\ \A x \in Counted, y \in Seconds :
              g[x][y] = IF x = k /\ y = t THEN f[x][y] + 1 ELSE f[x][y]
<1> DEFINE row == [f[k] EXCEPT ![t] = @ + 1]
<1>1. f[k] \in [Seconds -> Nat]  OBVIOUS
<1>2. row \in [Seconds -> Nat] /\ row[t] = f[k][t] + 1
      /\ \A y \in Seconds : y # t => row[y] = f[k][y]
  BY <1>1
<1>3. g = [f EXCEPT ![k] = row]  OBVIOUS
<1> HIDE DEF row
<1>4. g \in [Counted -> [Seconds -> Nat]] /\ g[k] = row
      /\ \A x \in Counted : x # k => g[x] = f[x]
  BY <1>2, <1>3
<1> QED BY <1>2, <1>4

Has(r, k, t) == r # None /\ r.key = k /\ r.time = t

\* The records in pullers' hands before and after one of them goes on.
HandMoves(before, after, is, has) ==
  /\ before \in Nat /\ after \in Nat
  /\ (is <=> has) => after = before
  /\ ~is /\ has  => after = before + 1
  /\ is /\ ~has  => before = after + 1

\* A puller goes on alone.
LEMMA PendingMoves ==
  ASSUME PvAssumption, PvTypeOK, NEW p \in Pullers, NEW new, puller' = [puller EXCEPT ![p] = new],
         NEW k, NEW t
  PROVE  HandMoves(Pending(k, t), Pending(k, t)', Has(puller[p], k, t), Has(new, k, t))
<1> DEFINE is     == Has(puller[p], k, t)
           has    == Has(new, k, t)
           before == {q \in Pullers : Under(q, k, t)}
           after  == {q \in Pullers : Under(q, k, t)'}
<1>1. puller'[p] = new /\ \A q \in Pullers : q # p => puller'[q] = puller[q]
  BY DEF PvTypeOK
<1>2. /\ IsFiniteSet(Pullers) /\ before \in SUBSET Pullers /\ after \in SUBSET Pullers
      /\ p \in before <=> is
      /\ p \in after <=> has
      /\ \A q \in Pullers : q # p => (q \in before <=> q \in after)
  BY <1>1 DEF Under, Has, PvAssumption
<1>3. Pending(k, t) = Cardinality(before) /\ Pending(k, t)' = Cardinality(after)
  BY DEF Pending
<1> HIDE DEF is, has, before, after
<1>4. /\ Cardinality(before) \in Nat /\ Cardinality(after) \in Nat
      /\ (is <=> has) => Cardinality(before) = Cardinality(after)
      /\ ~is /\ has   => Cardinality(after) = Cardinality(before) + 1
      /\ is /\ ~has   => Cardinality(before) = Cardinality(after) + 1
  BY ONLY <1>2, p \in Pullers, OnePlaceChanges
<1> QED BY <1>3, <1>4 DEF is, has, HandMoves

\* The counts are numbers.
LEMMA CountIs ==
  ASSUME PvTypeOK, NEW k \in DOMAIN pv, NEW t
  PROVE  CountAt(pv[k], t) \in Nat
BY DEF PvTypeOK, CountAt

\* As many records are pending as there are pullers with one.
LEMMA PendingIs ==
  ASSUME PvAssumption, NEW k, NEW t PROVE Pending(k, t) \in Nat
<1>1. {p \in Pullers : Under(p, k, t)} \in SUBSET Pullers  OBVIOUS
<1> QED BY <1>1, FS_Subset, FS_CardinalityType DEF Pending, PvAssumption

\* Nobody is about to write a count when no puller has the mutex.
LEMMA NobodyWrites ==
  ASSUME PvAssumption, CountFresh, pvmutex \notin Pullers, NEW p \in Pullers
  PROVE  ~At(p, "modify")
BY DEF CountFresh

\* A step that changes only the filter.
LEMMA PvUntouched ==
  ASSUME PvInv, UNCHANGED <<support, pv, pvmutex, adding, puller, seen, missed>>,
         filter' \subseteq Srcids
  PROVE  PvInv'
<1>1. PvTypeOK'  BY DEF PvInv, PvTypeOK
<1>2. CountersKnown' /\ AddingNew' /\ CountFresh'
  BY DEF PvInv, CountersKnown, AddingNew, CountFresh, At, CountAt
<1>3. Balanced'
  <2>1. \A k, t : Pending(k, t)' = Pending(k, t)  BY DEF Pending, Under
  <2> QED BY <2>1 DEF PvInv, Balanced, CountAt
<1>4. MissedByInsertion' /\ AddedEmpty'  BY DEF PvInv, MissedByInsertion, AddedEmpty
<1> QED BY <1>1, <1>2, <1>3, <1>4 DEF PvInv

\* A pair is noted that is new to its application.
LEMMA AddStep ==
  ASSUME PvAssumption, PvInv, NEW a \in Apps, NEW x \in Srcids, AddLogTransmitStat(a, x)
  PROVE  PvInv'
<1> USE DEF PvInv
<1>0. /\ adding = None /\ pvmutex = None /\ pvmutex' = "rpc" /\ adding' = <<a, x>>
      /\ x \notin SrcidsOf(a)
      /\ support' = [y \in DOMAIN support \cup {a} |-> SrcidsOf(y) \cup IF y = a THEN {x} ELSE {}]
      /\ UNCHANGED <<filter, pv, puller, seen, missed>>
  BY DEF AddLogTransmitStat, Free
<1>1. adding' # None /\ adding' \in Apps \X Srcids /\ pvmutex \notin Pullers
  BY <1>0 DEF PvAssumption
<1>2. PvTypeOK'
  <2>1. DOMAIN support \subseteq Apps /\ \A y \in DOMAIN support : support[y] \in SUBSET Srcids
    BY DEF PvTypeOK
  <2>2. support' \in [DOMAIN support \cup {a} -> SUBSET Srcids]  BY <1>0, <2>1 DEF SrcidsOf
  <2>3. DOMAIN support \cup {a} \in SUBSET Apps  BY <2>1
  <2>4. support' \in UNION {[d -> SUBSET Srcids] : d \in SUBSET Apps}  BY <2>2, <2>3
  <2> QED BY <1>0, <1>1, <2>4 DEF PvTypeOK
<1>3. CountersKnown'  BY <1>0 DEF CountersKnown, SrcidsOf
<1>4. AddingNew'
  <2> SUFFICES ASSUME NEW k \in Counters({<<a, x>>}), k \in Counted PROVE FALSE
    BY <1>0 DEF AddingNew, Counters, Counted
  <2>1. PICK o \in Outcomes : k = <<a, x, o>>  BY CountersOfOne
  <2>2. PICK y \in DOMAIN Type, u \in Outcomes : k = <<Type[y], y, u>>  BY CountedIs
  <2>3. x = y /\ a = Type[x]  BY <2>1, <2>2
  <2> QED BY <1>0, <2>2, <2>3 DEF CountersKnown, SrcidsOf
<1>5. CountFresh'  BY <1>0, <1>1, NobodyWrites DEF CountFresh, At
<1>6. Balanced'
  <2>1. \A k, t : Pending(k, t)' = Pending(k, t)  BY <1>0 DEF Pending, Under
  <2> QED BY <1>0, <2>1 DEF Balanced, CountAt
<1>7. MissedByInsertion' /\ AddedEmpty'  BY <1>0, <1>1 DEF MissedByInsertion, AddedEmpty
<1> QED BY <1>2, <1>3, <1>4, <1>5, <1>6, <1>7

\* The counters of the new pair are inserted, empty.
LEMMA InsertStep ==
  ASSUME PvAssumption, PvInv, InsertCounters PROVE PvInv'
<1> USE DEF PvInv
<1> DEFINE added == Counters({adding})
<1>0. /\ adding # None /\ adding \in Apps \X Srcids /\ adding' = None /\ pvmutex' = None
      /\ pvmutex = "rpc" /\ pvmutex \notin Pullers /\ added \cap Counted = {}
      /\ pv' = [k \in DOMAIN pv \cup added |-> IF k \in DOMAIN pv THEN pv[k] ELSE Empty]
      /\ UNCHANGED <<filter, support, puller, seen, missed>>
  BY DEF InsertCounters, AddingNew, PvTypeOK, PvAssumption
<1>1. PICK a \in Apps, x \in Srcids : adding = <<a, x>>  BY <1>0
<1>2. added \subseteq Key /\ \E k : k \in added
  <2>1. \A k \in added : \E o \in Outcomes : k = <<a, x, o>>  BY <1>1, CountersOfOne
  <2>2. <<a, x, "succ">> \in added  BY <1>1, CountersOfOne DEF Outcomes
  <2> QED BY <2>1, <2>2 DEF Key
<1> HIDE DEF added
<1>3. /\ DOMAIN pv' = DOMAIN pv \cup added
      /\ \A k \in DOMAIN pv : pv'[k] = pv[k]
      /\ \A k \in DOMAIN pv' \ DOMAIN pv : pv'[k] = Empty
  BY <1>0
<1>4. Empty \in [DOMAIN Empty -> Nat] /\ DOMAIN Empty \subseteq Seconds  BY DEF Empty
<1>5. PvTypeOK'
  <2>1. DOMAIN pv' \subseteq Key  BY <1>2, <1>3 DEF PvTypeOK
  <2>2. ASSUME NEW k \in DOMAIN pv'
        PROVE  pv'[k] \in [DOMAIN pv'[k] -> Nat] /\ DOMAIN pv'[k] \subseteq Seconds
    <3>1. CASE k \in DOMAIN pv  BY <1>3, <3>1 DEF PvTypeOK
    <3>2. CASE k \notin DOMAIN pv  BY <1>3, <1>4, <2>2, <3>2
    <3> QED BY <3>1, <3>2
  <2> QED BY <1>0, <2>1, <2>2 DEF PvTypeOK
<1>6. CountersKnown'  BY <1>0, <1>3 DEF CountersKnown
<1>7. AddingNew'  BY <1>0 DEF AddingNew
<1>8. CountFresh'  BY <1>0, NobodyWrites DEF CountFresh, At
<1>9. Balanced'
  <2>1. \A k, t : Pending(k, t)' = Pending(k, t)  BY <1>0 DEF Pending, Under
  <2>2. \A k \in Counted : pv'[k] = pv[k]  BY <1>3 DEF CountersKnown
  <2> QED BY <1>0, <2>1, <2>2 DEF Balanced, CountAt
<1>10. MissedByInsertion'  BY <1>0, <1>2, <1>3 DEF MissedByInsertion
<1>11. AddedEmpty'  BY <1>3 DEF AddedEmpty
<1> QED BY <1>5, <1>6, <1>7, <1>8, <1>9, <1>10, <1>11

\* A record passes the filter, and its puller has it in hand.
LEMMA JudgeStep ==
  ASSUME PvAssumption, PvInv, NEW p \in Pullers, NEW x \in Srcids, NEW o \in Outcomes,
         NEW t \in Seconds, Judge(p, x, o, t)
  PROVE  PvInv'
<1> USE DEF PvInv
<1> DEFINE key == <<GetType(x), x, o>>
           new == [key |-> key, at |-> "find", time |-> t, pv |-> 0]
<1>0. /\ puller[p] = None /\ GetType(x) # None
      /\ puller' = [puller EXCEPT ![p] = new] /\ seen' = [seen EXCEPT ![key][t] = @ + 1]
      /\ UNCHANGED <<filter, support, pv, pvmutex, adding, missed>>
  BY DEF Judge, counts
<1>1. key \in Counted
  <2>1. x \in DOMAIN Type /\ GetType(x) = Type[x]  BY <1>0 DEF GetType
  <2> QED BY <2>1, CountedIs
<1>2. new \in Place /\ new.at = "find" /\ new.key = key /\ new.time = t
  BY <1>1 DEF Place
<1>3. new # None  BY <1>2 DEF PvAssumption
<1> HIDE DEF key, new
<1>4. puller' \in [Pullers -> Place \cup {None}] /\ puller'[p] = new
      /\ \A q \in Pullers : q # p => puller'[q] = puller[q]
  BY <1>0, <1>2 DEF PvTypeOK
<1>5. /\ seen' \in [Counted -> [Seconds -> Nat]]
      /\ \A k \in Counted, u \in Seconds :
           seen'[k][u] = IF k = key /\ u = t THEN seen[k][u] + 1 ELSE seen[k][u]
  BY <1>0, <1>1, OneMore DEF PvTypeOK
<1>6. PvTypeOK'  BY <1>0, <1>4, <1>5 DEF PvTypeOK
<1>7. CountersKnown' /\ AddingNew'  BY <1>0 DEF CountersKnown, AddingNew
<1>8. CountFresh'
  <2> SUFFICES ASSUME NEW q \in Pullers, At(q, "modify")'
               PROVE  pvmutex' = q /\ puller'[q].pv = CountAt(pv[puller'[q].key], puller'[q].time)
    BY <1>0 DEF CountFresh, CountAt
  <2>1. q # p  BY <1>2, <1>4 DEF At
  <2>2. puller'[q] = puller[q]  BY <1>4, <2>1
  <2> QED BY <1>0, <2>2 DEF CountFresh, At
<1>9. Balanced'
  <2> SUFFICES ASSUME NEW k \in Counted, NEW u \in Seconds
               PROVE  CountAt(pv[k], u) + missed[k][u] + Pending(k, u)' = seen'[k][u]
    BY <1>0 DEF Balanced, CountAt
  <2>1. HandMoves(Pending(k, u), Pending(k, u)', Has(puller[p], k, u), Has(new, k, u))
    BY <1>0, PendingMoves
  <2>2. ~Has(puller[p], k, u) /\ (Has(new, k, u) <=> k = key /\ u = t)
    BY <1>0, <1>2, <1>3 DEF Has
  <2>3. CountAt(pv[k], u) + missed[k][u] + Pending(k, u) = seen[k][u]  BY DEF Balanced
  <2>4. CountAt(pv[k], u) \in Nat /\ missed[k][u] \in Nat /\ seen[k][u] \in Nat
    BY CountIs DEF CountersKnown, PvTypeOK
  <2> DEFINE c == CountAt(pv[k], u)  m == missed[k][u]  n == Pending(k, u)  l == Pending(k, u)'
             e == seen[k][u]  y == seen'[k][u]  is == k = key /\ u = t
  <2>5. y = IF is THEN e + 1 ELSE e  BY <1>5
  <2>6. /\ n \in Nat /\ l \in Nat
        /\ is => l = n + 1
        /\ ~is => l = n
    BY <2>1, <2>2 DEF HandMoves
  <2> HIDE DEF c, m, n, l, e, y, is
  <2>7. c + m + l = y  BY <2>3, <2>4, <2>5, <2>6 DEF c, m, n, e
  <2> QED BY <2>7 DEF c, m, l, y
<1>10. MissedByInsertion' /\ AddedEmpty'  BY <1>0 DEF MissedByInsertion, AddedEmpty
<1> QED BY <1>6, <1>7, <1>8, <1>9, <1>10

\* A puller that goes on with the record it has in hand leaves it in hand.
LEMMA KeepsInHand ==
  ASSUME PvAssumption, PvInv, NEW p \in Pullers, NEW new \in Place, puller[p] # None,
         puller' = [puller EXCEPT ![p] = new], new.key = puller[p].key, new.time = puller[p].time,
         UNCHANGED <<pv, seen, missed>>
  PROVE  Balanced'
<1>1. new # None  BY DEF PvAssumption
<1>2. PvTypeOK  BY DEF PvInv
<1>3. ASSUME NEW k, NEW t PROVE Pending(k, t)' = Pending(k, t)
  <2>1. HandMoves(Pending(k, t), Pending(k, t)', Has(puller[p], k, t), Has(new, k, t))
    BY <1>2, PendingMoves
  <2>2. Has(puller[p], k, t) <=> Has(new, k, t)  BY <1>1 DEF Has
  <2> QED BY <2>1, <2>2 DEF HandMoves
<1> QED BY <1>3 DEF PvInv, Balanced, CountAt

\* A counter is found.
LEMMA FindStep ==
  ASSUME PvAssumption, PvInv, NEW p \in Pullers, IncFind(p) PROVE PvInv'
<1> DEFINE r == puller[p]
<1>0. /\ r # None /\ r \in Place
      /\ puller' = [puller EXCEPT ![p] = [r EXCEPT !.at = "search"]]
      /\ UNCHANGED <<filter, support, pv, pvmutex, adding, seen, missed>>
  BY DEF IncFind, At, counts, PvInv, PvTypeOK
<1>1. PICK new \in Place : /\ puller' = [puller EXCEPT ![p] = new]
                           /\ new.key = r.key /\ new.time = r.time /\ new.at = "search"
  <2>1. [r EXCEPT !.at = "search"] = [key |-> r.key, at |-> "search", time |-> r.time, pv |-> r.pv]
    BY <1>0, PlaceIs3
  <2>2. [key |-> r.key, at |-> "search", time |-> r.time, pv |-> r.pv] \in Place
    BY <1>0, PlaceIs3 DEF Place
  <2> QED BY <1>0, <2>1, <2>2
<1>2. puller' \in [Pullers -> Place \cup {None}] /\ puller'[p] = new
      /\ \A q \in Pullers : q # p => puller'[q] = puller[q]
  BY <1>1 DEF PvInv, PvTypeOK
<1>3. PvTypeOK'  BY <1>0, <1>2 DEF PvInv, PvTypeOK
<1>4. CountersKnown' /\ AddingNew'  BY <1>0 DEF PvInv, CountersKnown, AddingNew
<1>5. CountFresh'
  <2> SUFFICES ASSUME NEW q \in Pullers, At(q, "modify")'
               PROVE  pvmutex' = q /\ puller'[q].pv = CountAt(pv[puller'[q].key], puller'[q].time)
    BY <1>0 DEF CountFresh, CountAt
  <2>1. q # p  BY <1>1, <1>2 DEF At
  <2>2. puller'[q] = puller[q]  BY <1>2, <2>1
  <2> QED BY <1>0, <2>2 DEF PvInv, CountFresh, At
<1>6. Balanced'  BY <1>0, <1>1, KeepsInHand
<1>7. MissedByInsertion' /\ AddedEmpty'  BY <1>0 DEF PvInv, MissedByInsertion, AddedEmpty
<1> QED BY <1>3, <1>4, <1>5, <1>6, <1>7 DEF PvInv

\* A puller that has a record in hand, and what it has.
LEMMA InHand ==
  ASSUME PvTypeOK, NEW p \in Pullers, puller[p] # None
  PROVE  puller[p] \in Place /\ puller[p].key \in Counted /\ puller[p].time \in Seconds
BY DEF PvTypeOK, Place

\* No counter is found, because another is being inserted.
LEMMA FindNothingStep ==
  ASSUME PvAssumption, PvInv, NEW p \in Pullers, IncFindNothing(p) PROVE PvInv'
<1> USE DEF PvInv
<1>1. PICK key \in Counted, time \in Seconds :
        puller[p] # None /\ puller[p].key = key /\ puller[p].time = time
  BY InHand DEF IncFindNothing, At
<1>0. /\ adding # None
      /\ puller' = [puller EXCEPT ![p] = None] /\ missed' = [missed EXCEPT ![key][time] = @ + 1]
      /\ UNCHANGED <<filter, support, pv, pvmutex, adding, seen>>
  BY <1>1 DEF IncFindNothing, counts, CountersKnown
<1>2. puller' \in [Pullers -> Place \cup {None}] /\ puller'[p] = None
      /\ \A q \in Pullers : q # p => puller'[q] = puller[q]
  BY <1>0 DEF PvTypeOK
<1>3. /\ missed' \in [Counted -> [Seconds -> Nat]]
      /\ \A k \in Counted, u \in Seconds :
           missed'[k][u] = IF k = key /\ u = time THEN missed[k][u] + 1 ELSE missed[k][u]
  BY <1>0, OneMore DEF PvTypeOK
<1>4. PvTypeOK'  BY <1>0, <1>2, <1>3 DEF PvTypeOK
<1>5. CountersKnown' /\ AddingNew'  BY <1>0 DEF CountersKnown, AddingNew
<1>6. CountFresh'
  <2> SUFFICES ASSUME NEW q \in Pullers, At(q, "modify")'
               PROVE  pvmutex' = q /\ puller'[q].pv = CountAt(pv[puller'[q].key], puller'[q].time)
    BY <1>0 DEF CountFresh, CountAt
  <2>1. q # p  BY <1>2 DEF At
  <2>2. puller'[q] = puller[q]  BY <1>2, <2>1
  <2> QED BY <1>0, <2>2 DEF CountFresh, At
<1>7. Balanced'
  <2> SUFFICES ASSUME NEW k \in Counted, NEW u \in Seconds
               PROVE  CountAt(pv[k], u) + missed'[k][u] + Pending(k, u)' = seen[k][u]
    BY <1>0 DEF Balanced, CountAt
  <2>1. HandMoves(Pending(k, u), Pending(k, u)', Has(puller[p], k, u), Has(None, k, u))
    BY <1>0, PendingMoves
  <2>2. ~Has(None, k, u) /\ (Has(puller[p], k, u) <=> k = key /\ u = time)
    BY <1>1 DEF Has
  <2>3. CountAt(pv[k], u) + missed[k][u] + Pending(k, u) = seen[k][u]  BY DEF Balanced
  <2>4. CountAt(pv[k], u) \in Nat /\ missed[k][u] \in Nat /\ seen[k][u] \in Nat
    BY CountIs DEF CountersKnown, PvTypeOK
  <2> DEFINE c == CountAt(pv[k], u)  m == missed[k][u]  n == Pending(k, u)  l == Pending(k, u)'
             e == seen[k][u]  y == missed'[k][u]  is == k = key /\ u = time
  <2>5. y = IF is THEN m + 1 ELSE m  BY <1>3
  <2>6. /\ n \in Nat /\ l \in Nat
        /\ is => n = l + 1
        /\ ~is => l = n
    BY <2>1, <2>2 DEF HandMoves
  <2> HIDE DEF c, m, n, l, e, y, is
  <2>7. c + y + l = e  BY <2>3, <2>4, <2>5, <2>6 DEF c, m, n, e
  <2> QED BY <2>7 DEF c, e, l, y
<1>8. MissedByInsertion' /\ AddedEmpty'  BY <1>0 DEF MissedByInsertion, AddedEmpty
<1> QED BY <1>4, <1>5, <1>6, <1>7, <1>8

\* A place with the mutex and the count that was read, which the prover finds in two stages.
LEMMA ReadyToModify ==
  ASSUME NEW r \in Place, NEW n
  PROVE  [r EXCEPT !.at = "modify", !.pv = n]
           = [key |-> r.key, at |-> "modify", time |-> r.time, pv |-> n]
<1>1. PICK mid \in Place :
        /\ mid = [r EXCEPT !.at = "modify"]
        /\ mid = [key |-> r.key, at |-> "modify", time |-> r.time, pv |-> r.pv]
  <2>1. [r EXCEPT !.at = "modify"]
          = [key |-> r.key, at |-> "modify", time |-> r.time, pv |-> r.pv]
    BY PlaceIs3
  <2>2. [key |-> r.key, at |-> "modify", time |-> r.time, pv |-> r.pv] \in Place
    BY PlaceIs3 DEF Place
  <2> QED BY <2>1, <2>2
<1>2. [r EXCEPT !.at = "modify", !.pv = n] = [mid EXCEPT !.pv = n]  BY <1>1, PlaceIs3
<1>3. [mid EXCEPT !.pv = n] = [key |-> mid.key, at |-> mid.at, time |-> mid.time, pv |-> n]
  BY PlaceIs3
<1>4. mid.key = r.key /\ mid.at = "modify" /\ mid.time = r.time  BY <1>1
<1> QED BY <1>2, <1>3, <1>4

\* The mutex is taken, and the count read.
LEMMA SearchStep ==
  ASSUME PvAssumption, PvInv, NEW p \in Pullers, IncSearch(p) PROVE PvInv'
<1> DEFINE r == puller[p]
<1>0. /\ r # None /\ r \in Place /\ pvmutex = None /\ pvmutex' = p
      /\ puller' = [puller EXCEPT ![p] = [r EXCEPT !.at = "modify", !.pv = CountAt(pv[r.key], r.time)]]
      /\ UNCHANGED <<filter, support, pv, adding, seen, missed>>
  BY DEF IncSearch, Searched, Free, At, PvInv, PvTypeOK
<1>1. PICK new \in Place : /\ puller' = [puller EXCEPT ![p] = new]
                           /\ new.key = r.key /\ new.time = r.time
                           /\ new.pv = CountAt(pv[new.key], new.time)
  <2> DEFINE n == CountAt(pv[r.key], r.time)
  <2>0. n \in Nat  BY <1>0, PlaceIs3, CountIs DEF PvInv, CountersKnown
  <2>1. [r EXCEPT !.at = "modify", !.pv = n]
          = [key |-> r.key, at |-> "modify", time |-> r.time, pv |-> n]
    <3> HIDE DEF n
    <3> QED BY <1>0, ReadyToModify
  <2>2. [key |-> r.key, at |-> "modify", time |-> r.time, pv |-> n] \in Place
    BY <1>0, <2>0, PlaceIs3 DEF Place
  <2> QED BY <1>0, <2>1, <2>2
<1>2. puller' \in [Pullers -> Place \cup {None}] /\ puller'[p] = new
      /\ \A q \in Pullers : q # p => puller'[q] = puller[q]
  BY <1>1 DEF PvInv, PvTypeOK
<1>3. None \notin Pullers \cup {"rpc"} /\ pvmutex \notin Pullers /\ adding = None
  BY <1>0 DEF PvAssumption, PvInv, AddingNew
<1>4. PvTypeOK'  BY <1>0, <1>2 DEF PvInv, PvTypeOK
<1>5. CountersKnown' /\ AddingNew'  BY <1>0, <1>3 DEF PvInv, CountersKnown, AddingNew
<1>6. CountFresh'
  <2> SUFFICES ASSUME NEW q \in Pullers, At(q, "modify")'
               PROVE  pvmutex' = q /\ puller'[q].pv = CountAt(pv[puller'[q].key], puller'[q].time)
    BY <1>0 DEF CountFresh, CountAt
  <2>1. CASE q # p
    <3>1. puller'[q] = puller[q]  BY <1>2, <2>1
    <3> QED BY <1>3, <3>1, NobodyWrites DEF At, PvInv
  <2>2. CASE q = p  BY <1>0, <1>1, <1>2, <2>2
  <2> QED BY <2>1, <2>2
<1>7. Balanced'  BY <1>0, <1>1, KeepsInHand
<1>8. MissedByInsertion' /\ AddedEmpty'  BY <1>0, <1>3 DEF PvInv, MissedByInsertion, AddedEmpty
<1> QED BY <1>4, <1>5, <1>6, <1>7, <1>8 DEF PvInv

\* The count that was read, and one more, is written, and the mutex given back.
LEMMA ModifyStep ==
  ASSUME PvAssumption, PvInv, NEW p \in Pullers, IncModify(p) PROVE PvInv'
<1> USE DEF PvInv
<1>1. PICK key \in Counted, time \in Seconds :
        puller[p] # None /\ puller[p].key = key /\ puller[p].time = time
  BY InHand DEF IncModify, At
<1> DEFINE row == [t \in DOMAIN pv[key] \cup {time} |->
                     IF t = time THEN puller[p].pv + 1 ELSE pv[key][t]]
<1>0. /\ At(p, "modify") /\ puller' = [puller EXCEPT ![p] = None] /\ pvmutex' = None
      /\ pv' = [pv EXCEPT ![key] = row]
      /\ UNCHANGED <<filter, support, adding, seen, missed>>
  BY <1>1 DEF IncModify
<1>2. pvmutex = p /\ puller[p].pv = CountAt(pv[key], time) /\ adding = None
  BY <1>0, <1>1 DEF CountFresh, AddingNew, PvAssumption
<1>3. key \in DOMAIN pv /\ CountAt(pv[key], time) \in Nat
      /\ pv[key] \in [DOMAIN pv[key] -> Nat] /\ DOMAIN pv[key] \subseteq Seconds
  BY CountIs DEF CountersKnown, PvTypeOK
<1>4. /\ row \in [DOMAIN row -> Nat] /\ DOMAIN row \subseteq Seconds
      /\ \A u : CountAt(row, u) = IF u = time THEN CountAt(pv[key], u) + 1 ELSE CountAt(pv[key], u)
  BY <1>2, <1>3 DEF CountAt
<1> HIDE DEF row
<1>5. /\ DOMAIN pv' = DOMAIN pv /\ pv'[key] = row
      /\ \A k \in DOMAIN pv : k # key => pv'[k] = pv[k]
  BY <1>0, <1>3 DEF PvTypeOK
<1>6. puller' \in [Pullers -> Place \cup {None}] /\ puller'[p] = None
      /\ \A q \in Pullers : q # p => puller'[q] = puller[q]
  BY <1>0 DEF PvTypeOK
<1>7. PvTypeOK'
  <2>1. ASSUME NEW k \in DOMAIN pv'
        PROVE  pv'[k] \in [DOMAIN pv'[k] -> Nat] /\ DOMAIN pv'[k] \subseteq Seconds
    BY <1>4, <1>5 DEF PvTypeOK
  <2> QED BY <1>0, <1>5, <1>6, <2>1 DEF PvTypeOK
<1>8. CountersKnown' /\ AddingNew'  BY <1>0, <1>2, <1>5 DEF CountersKnown, AddingNew
<1>9. CountFresh'
  <2> SUFFICES ASSUME NEW q \in Pullers, At(q, "modify")' PROVE FALSE
    BY DEF CountFresh
  <2>1. q # p  BY <1>6 DEF At
  <2>2. At(q, "modify")  BY <1>6, <2>1 DEF At
  <2> QED BY <1>2, <2>1, <2>2 DEF CountFresh
<1>10. Balanced'
  <2> SUFFICES ASSUME NEW k \in Counted, NEW u \in Seconds
               PROVE  CountAt(pv'[k], u) + missed[k][u] + Pending(k, u)' = seen[k][u]
    BY <1>0 DEF Balanced, CountAt
  <2>1. HandMoves(Pending(k, u), Pending(k, u)', Has(puller[p], k, u), Has(None, k, u))
    BY <1>0, PendingMoves
  <2>2. ~Has(None, k, u) /\ (Has(puller[p], k, u) <=> k = key /\ u = time)
    BY <1>1 DEF Has
  <2>3. CountAt(pv[k], u) + missed[k][u] + Pending(k, u) = seen[k][u]  BY DEF Balanced
  <2>4. CountAt(pv[k], u) \in Nat /\ missed[k][u] \in Nat /\ seen[k][u] \in Nat
    BY CountIs DEF CountersKnown, PvTypeOK
  <2> DEFINE c == CountAt(pv[k], u)  m == missed[k][u]  n == Pending(k, u)  l == Pending(k, u)'
             e == seen[k][u]  y == CountAt(pv'[k], u)  is == k = key /\ u = time
  <2>5. y = IF is THEN c + 1 ELSE c
    <3>1. CASE k = key  BY <1>4, <1>5, <3>1
    <3>2. CASE k # key  BY <1>5, <3>2 DEF CountersKnown
    <3> QED BY <3>1, <3>2
  <2>6. /\ n \in Nat /\ l \in Nat
        /\ is => n = l + 1
        /\ ~is => l = n
    BY <2>1, <2>2 DEF HandMoves
  <2> HIDE DEF c, m, n, l, e, y, is
  <2>7. y + m + l = e  BY <2>3, <2>4, <2>5, <2>6 DEF c, m, n, e
  <2> QED BY <2>7 DEF m, e, l, y
<1>11. MissedByInsertion'  BY <1>0, <1>5 DEF MissedByInsertion
<1>12. AddedEmpty'  BY <1>5 DEF AddedEmpty
<1> QED BY <1>7, <1>8, <1>9, <1>10, <1>11, <1>12

\* At the start nothing has been counted.
LEMMA PvStarts == ASSUME PvAssumption, PvInit PROVE PvInv
<1>0. Empty \in [DOMAIN Empty -> Nat] /\ DOMAIN Empty \subseteq Seconds
      /\ \A t : CountAt(Empty, t) = 0
  BY DEF Empty, CountAt
<1>1. PvTypeOK
  <2>1. support \in [Loaded -> SUBSET Srcids] /\ Loaded \in SUBSET Apps
    BY DEF PvInit, PvAssumption, Apps
  <2>2. support \in UNION {[d -> SUBSET Srcids] : d \in SUBSET Apps}  BY <2>1
  <2>3. Zero \in [Seconds -> Nat]  BY DEF Zero
  <2>4. filter \subseteq Srcids  BY DEF PvInit, PvAssumption
  <2>5. DOMAIN pv = Counted /\ \A k \in Counted : pv[k] = Empty  BY DEF PvInit
  <2>6. pvmutex = None /\ adding = None /\ puller = [p \in Pullers |-> None]
        /\ seen = [k \in Counted |-> Zero] /\ missed = [k \in Counted |-> Zero]
    BY DEF PvInit
  <2>7. Counted \subseteq Key  BY CountedIs
  <2> HIDE DEF Zero, Empty
  <2> QED BY <1>0, <2>2, <2>3, <2>4, <2>5, <2>6, <2>7 DEF PvTypeOK
<1>2. CountersKnown
  <2>1. DOMAIN pv = Counted /\ support = [a \in Loaded |-> {s \in DOMAIN Type : Type[s] = a}]
    BY DEF PvInit
  <2> QED BY <2>1, CountedIs DEF CountersKnown
<1>3. AddingNew /\ CountFresh  BY DEF PvInit, AddingNew, CountFresh, At
<1>4. Balanced
  <2> SUFFICES ASSUME NEW k \in Counted, NEW t \in Seconds
               PROVE  CountAt(pv[k], t) + missed[k][t] + Pending(k, t) = seen[k][t]
    BY DEF Balanced
  <2>1. CountAt(pv[k], t) = 0  BY <1>0 DEF PvInit
  <2>2. missed[k][t] = 0 /\ seen[k][t] = 0  BY DEF PvInit, Zero
  <2>3. {p \in Pullers : Under(p, k, t)} = {}  BY DEF PvInit, Under
  <2>4. Pending(k, t) = 0  BY <2>3, FS_EmptySet DEF Pending
  <2> QED BY <2>1, <2>2, <2>4
<1>5. MissedByInsertion /\ AddedEmpty  BY DEF PvInit, MissedByInsertion, AddedEmpty
<1> QED BY <1>1, <1>2, <1>3, <1>4, <1>5 DEF PvInv

\* Every step keeps the invariant.
LEMMA PvSteps == ASSUME PvAssumption, PvInv, [PvNext]_pvVars PROVE PvInv'
<1>1. CASE UNCHANGED pvVars
  BY <1>1, PvUntouched DEF pvVars, counts, PvInv, PvTypeOK
<1>2. ASSUME NEW x \in Srcids, NEW op \in BOOLEAN, SetLogFilterConfig(x, op) PROVE PvInv'
  <2>1. filter' \subseteq Srcids  BY <1>2 DEF SetLogFilterConfig, PvInv, PvTypeOK
  <2> QED BY <1>2, <2>1, PvUntouched DEF SetLogFilterConfig, counts
<1>3. ASSUME NEW p \in Pullers, Subscribe(p) PROVE PvInv'
  BY <1>3, JudgeStep, FindStep, FindNothingStep, SearchStep, ModifyStep DEF Subscribe
<1> QED BY <1>1, <1>2, <1>3, AddStep, InsertStep DEF PvNext, Manage

\* What the invariant says of the counts.
LEMMA InvKeepsCounts == ASSUME PvAssumption, PvInv PROVE CountsKept
<1>1. ASSUME NEW k \in Counted, NEW t \in Seconds PROVE CountAt(pv[k], t) = Done(k, t)
  <2>1. CountAt(pv[k], t) + missed[k][t] + Pending(k, t) = seen[k][t]  BY DEF PvInv, Balanced
  <2>2. CountAt(pv[k], t) \in Nat /\ missed[k][t] \in Nat /\ seen[k][t] \in Nat
    BY CountIs DEF PvInv, CountersKnown, PvTypeOK
  <2>3. Pending(k, t) \in Nat  BY PendingIs
  <2> DEFINE c == CountAt(pv[k], t)  m == missed[k][t]  n == Pending(k, t)  e == seen[k][t]
  <2> HIDE DEF c, m, n, e
  <2>4. c = e - m - n  BY <2>1, <2>2, <2>3 DEF c, m, n, e
  <2> QED BY <2>4 DEF c, m, n, e, Done
<1>2. DOMAIN pv = Counted /\ adding = None => \A k \in Counted : missed[k] = Zero
  BY DEF PvInv, MissedByInsertion
<1> QED BY <1>1, <1>2 DEF CountsKept, PvInv, AddedEmpty

\* What Cnt tells of a range, looked up or added up, is what was counted in it.
LEMMA InvTellsRanges == ASSUME PvAssumption, PvInv PROVE RangesTold
<1> SUFFICES ASSUME NEW a \in DOMAIN support, NEW st \in Seconds, NEW ed \in Seconds,
                    NEW k \in DOMAIN Cnt(a, st, ed)
             PROVE  Cnt(a, st, ed)[k] = IF k \in Counted THEN Sum(k, st, ed) ELSE 0
  BY DEF RangesTold
<1> DEFINE list == pv[k]
           part == {t \in DOMAIN list : st <= t /\ t <= ed}
           range == {t \in Seconds : st <= t /\ t <= ed}
           done == [t \in Seconds |-> Done(k, t)]
<1>1. /\ k \in DOMAIN pv
      /\ Cnt(a, st, ed)[k] = IF st = ed THEN CountAt(list, st) ELSE SumFunctionOnSet(list, part)
  BY DEF Cnt, SumRange
<1>2. list \in [DOMAIN list -> Nat] /\ DOMAIN list \subseteq Seconds
  BY <1>1 DEF PvInv, PvTypeOK
<1>3. CASE k \in Counted
  <2>1. \A t \in Seconds : done[t] = CountAt(list, t)  BY <1>3, InvKeepsCounts DEF CountsKept
  <2>2. Sum(k, st, ed) = SumFunctionOnSet(done, range)  BY DEF Sum
  <2> HIDE DEF done, list
  <2>3. CASE st = ed
    <3>1. st \in Nat /\ \A t \in Seconds : t \in Nat  BY DEF PvAssumption
    <3>2. range = {st}  BY <2>3, <3>1
    <3>3. done[st] = CountAt(list, st) /\ CountAt(list, st) \in Nat  BY <1>2, <2>1 DEF CountAt
    <3>4. SumFunctionOnSet(done, {st}) = done[st]
      <4> HIDE DEF range
      <4> QED BY <3>3, SumOfOne
    <3> QED BY <1>1, <1>3, <2>2, <2>3, <3>2, <3>3, <3>4
  <2>4. CASE st # ed
    <3>1. IsFiniteSet(range)
      <4>1. st \in Int /\ ed \in Int /\ range \in SUBSET (st..ed)  BY DEF PvAssumption
      <4> QED BY <4>1, FS_Interval, FS_Subset
    <3>2. part \subseteq range /\ \A t \in part : list[t] \in Nat  BY <1>2
    <3>3. \A t \in range : done[t] = IF t \in part THEN list[t] ELSE 0  BY <2>1 DEF CountAt
    <3> HIDE DEF part, range
    <3>4. SumFunctionOnSet(list, part) = SumFunctionOnSet(done, range)
      BY <3>1, <3>2, <3>3, SumWithoutZeros
    <3> QED BY <1>1, <1>3, <2>2, <2>4, <3>4
  <2> QED BY <2>3, <2>4
<1>4. CASE k \notin Counted
  <2>1. list = Empty  BY <1>1, <1>4 DEF PvInv, AddedEmpty
  <2>2. CountAt(list, st) = 0 /\ part = {}  BY <2>1 DEF CountAt, Empty
  <2> HIDE DEF list, part
  <2> QED BY <1>1, <1>4, <2>2, SumOfNone
<1> QED BY <1>3, <1>4

\* The filter, the counts and what pullers have in hand keep their types.
THEOREM PvTypesHold == PvSpec => []PvTypeOK
<1>1. PvInit => PvInv  BY PvAssumption, PvStarts
<1>2. PvInv /\ [PvNext]_pvVars => PvInv'  BY PvAssumption, PvSteps
<1>3. PvInv => PvTypeOK  BY DEF PvInv
<1> QED BY <1>1, <1>2, <1>3, PTL DEF PvSpec

\* However many pullers count at once, and whatever is inserted meanwhile, a record
\* that passed the filter is counted once, in its second and under its outcome,
\* unless its counter was looked for during an insertion, a counter that was added
\* counts nothing, and what is told of a range is what was counted in it
\* (PvStater::Inc, AddSupportType and Cnt).
THEOREM EveryRecordCounted == PvSpec => []CountsExact
<1>1. PvInit => PvInv  BY PvAssumption, PvStarts
<1>2. PvInv /\ [PvNext]_pvVars => PvInv'  BY PvAssumption, PvSteps
<1>3. PvInv => CountsExact  BY PvAssumption, InvKeepsCounts, InvTellsRanges DEF CountsExact
<1> QED BY <1>1, <1>2, <1>3, PTL DEF PvSpec

-------------------------------------------------------------------------------
(* The heap, by the keys of its rows, counted from 0 as in the code. *)

\* The larger key is at the parent, for the parents from lo on, but not for one.
HeapBut(k, lo, half, at) ==
  \A p \in lo..(half - 1) : p # at => k[2 * p] <= k[p] /\ k[2 * p + 1] <= k[p]

\* The larger key is at the parent, for the parents from lo on.
HeapFrom(k, lo, half) == \A p \in lo..(half - 1) : k[2 * p] <= k[p] /\ k[2 * p + 1] <= k[p]

\* The parent of the exception has keys as large as those of its children.
GrandOf(k, lo, half, at) ==
  \A p \in lo..(half - 1) :
    p # at /\ at < half /\ (at = 2 * p \/ at = 2 * p + 1) => k[2 * at] <= k[p] /\ k[2 * at + 1] <= k[p]

\* One turn of Adjust on the keys: the exception moves down to the larger child.
LEMMA SinkKeys ==
  ASSUME NEW N \in Nat, NEW half \in Nat, 2 * half <= N, NEW i \in Nat, NEW at \in Nat, at < half, i <= at,
         NEW k \in [0..(N - 1) -> Int], NEW max \in Nat, max = 2 * at \/ max = 2 * at + 1, max # at,
         k[2 * at] <= k[max], k[2 * at + 1] <= k[max], k[at] <= k[max],
         HeapBut(k, i, half, at), GrandOf(k, i, half, at),
         NEW j, j = [k EXCEPT ![at] = k[max], ![max] = k[at]]
  PROVE  HeapBut(j, i, half, max) /\ GrandOf(j, i, half, max) /\ max > at
<1>1. max \in 0..(N - 1) /\ at \in 0..(N - 1) /\ max > at  OBVIOUS
<1>2. /\ j[at] = k[max] /\ j[max] = k[at]
      /\ \A p \in 0..(N - 1) : p # at /\ p # max => j[p] = k[p]
  BY <1>1
<1>3. \A p \in 0..(N - 1) : k[p] \in Int  OBVIOUS
<1>4. ASSUME NEW p \in i..(half - 1) 
      PROVE  p \in 0..(N - 1) /\ 2 * p \in 0..(N - 1) /\ 2 * p + 1 \in 0..(N - 1)
  OBVIOUS
<1>k. ASSUME NEW p \in i..(half - 1), NEW c \in 0..(N - 1), c = 2 * p \/ c = 2 * p + 1, p # at
      PROVE  k[c] <= k[p] /\ (at = c => k[2 * at] <= k[p] /\ k[2 * at + 1] <= k[p])
  BY <1>k DEF HeapBut, GrandOf
<1>5. ASSUME NEW p \in i..(half - 1), p # max, NEW c \in 0..(N - 1), c = 2 * p \/ c = 2 * p + 1
      PROVE  j[c] <= j[p]
  <2>1. CASE p = at
    <3>1. j[p] = k[max]  BY <1>2, <2>1
    <3>2. j[c] = k[c] \/ j[c] = k[at] \/ j[c] = k[max]  BY <1>2
    <3>3. k[c] <= k[max]  BY <1>5, <2>1
    <3> QED BY <1>1, <1>3, <3>1, <3>2, <3>3
  <2>2. CASE p # at
    <3>1. j[p] = k[p]  BY <1>2, <1>4, <1>5, <2>2
    <3>2. c # max  BY <1>5, <2>2
    <3>3. CASE c = at
      <4>1. k[max] <= k[p]  BY <1>5, <1>k, <2>2, <3>3
      <4> QED BY <1>2, <3>1, <3>3, <4>1
    <3>4. CASE c # at
      <4>1. j[c] = k[c]  BY <1>2, <3>2, <3>4
      <4> QED BY <1>5, <1>k, <2>2, <3>1, <4>1
    <3> QED BY <3>3, <3>4
  <2> QED BY <2>1, <2>2
<1>6. HeapBut(j, i, half, max)  BY <1>4, <1>5 DEF HeapBut
<1>7. GrandOf(j, i, half, max)
  <2> SUFFICES ASSUME NEW p \in i..(half - 1), p # max, max < half, max = 2 * p \/ max = 2 * p + 1,
                      NEW c \in 0..(N - 1), c = 2 * max \/ c = 2 * max + 1
               PROVE  j[c] <= j[p]
    <3>1. max < half => 2 * max \in 0..(N - 1) /\ 2 * max + 1 \in 0..(N - 1)  BY <1>1
    <3> QED BY <3>1 DEF GrandOf
  <2>1. p = at  OBVIOUS
  <2>2. c # max /\ c # at  BY <1>1
  <2>3. max \in i..(half - 1)  BY <1>1
  <2>4. k[c] <= k[max]  BY <1>1, <1>k, <2>3
  <2> QED BY <1>2, <2>1, <2>2, <2>4
<1> QED BY <1>1, <1>6, <1>7

\* The top of a heap is the largest, and so is the top of what is below it.
LEMMA TopOf ==
  ASSUME NEW N \in Nat, NEW half \in Nat, 2 * half <= N, NEW k \in [0..(N - 1) -> Int],
         NEW lo \in {0, 1}, HeapFrom(k, lo, half)
  PROVE  \A j \in lo..(2 * half - 1) : k[j] <= k[lo]
<1> DEFINE Bad == {j \in lo..(2 * half - 1) : ~(k[j] <= k[lo])}
<1> SUFFICES ASSUME Bad # {} PROVE FALSE  OBVIOUS
<1>1. Bad \in SUBSET Nat  OBVIOUS
<1>2. PICK j \in Bad : \A x \in Bad : j <= x
  <2> HIDE DEF Bad
  <2> QED BY <1>1, LeastOf
<1>3. j \in lo..(2 * half - 1) /\ ~(k[j] <= k[lo]) /\ j \in 0..(N - 1) /\ lo \in 0..(N - 1)  OBVIOUS
<1>4. k[j] \in Int /\ k[lo] \in Int /\ j # lo  BY <1>3
<1>5. PICK p \in Nat : j = 2 * p \/ j = 2 * p + 1
  <2>1. j \div 2 \in Nat /\ (j = 2 * (j \div 2) \/ j = 2 * (j \div 2) + 1)  BY <1>3
  <2> QED BY <2>1
<1>6. p \in lo..(half - 1) /\ p < j /\ p \in lo..(2 * half - 1) /\ p \in 0..(N - 1)  BY <1>3, <1>4, <1>5
<1>7. p \notin Bad
  <2>1. ~(j <= p)  BY <1>6, <1>3
  <2> HIDE DEF Bad
  <2> QED BY <1>2, <2>1
<1>8. k[p] <= k[lo]  BY <1>6, <1>7
<1>9. k[j] <= k[p]  BY <1>5, <1>6 DEF HeapFrom
<1>p. k[p] \in Int  BY <1>6
<1> QED BY <1>3, <1>4, <1>8, <1>9, <1>p

\* The keys of the rows, by the field f.
Keys(d, N, f) == [p \in 0..(N - 1) |-> d[p + 1][f]]

\* The rows of b are those of a in another order; only those at the indices lo to
\* hi - 1 have moved.
Moves(m, N, lo, hi) ==
  /\ m \in [1..N -> 1..N]
  /\ \A x, y \in 1..N : m[x] = m[y] => x = y
  /\ \A y \in 1..N : \E x \in 1..N : m[x] = y
  /\ \A x \in 1..N : x <= lo \/ x > hi => m[x] = x

Rearranged(b, a, N, lo, hi) ==
  \E m : Moves(m, N, lo, hi) /\ \A x \in 1..N : b[x] = a[m[x]]

\* Rows that stand still are in another order of themselves.
LEMMA RearrangedNot ==
  ASSUME NEW N \in Nat, NEW a, NEW lo, NEW hi
  PROVE  Rearranged(a, a, N, lo, hi)
<1> DEFINE m == [x \in 1..N |-> x]
<1>1. Moves(m, N, lo, hi)  BY DEF Moves
<1>2. \A x \in 1..N : a[x] = a[m[x]]  OBVIOUS
<1> QED BY <1>1, <1>2 DEF Rearranged

\* Another order of another order.
LEMMA RearrangedTwice ==
  ASSUME NEW N \in Nat, NEW a, NEW b, NEW c, NEW lo, NEW hi,
         Rearranged(b, a, N, lo, hi), Rearranged(c, b, N, lo, hi)
  PROVE  Rearranged(c, a, N, lo, hi)
<1>1. PICK m : Moves(m, N, lo, hi) /\ \A x \in 1..N : b[x] = a[m[x]]  BY DEF Rearranged
<1>2. PICK n : Moves(n, N, lo, hi) /\ \A x \in 1..N : c[x] = b[n[x]]  BY DEF Rearranged
<1> DEFINE r == [x \in 1..N |-> m[n[x]]]
<1>3. \A x \in 1..N : n[x] \in 1..N /\ m[x] \in 1..N  BY <1>1, <1>2 DEF Moves
<1>4. r \in [1..N -> 1..N]  BY <1>3
<1>5. \A x, y \in 1..N : r[x] = r[y] => x = y  BY <1>1, <1>2, <1>3 DEF Moves
<1>6. \A y \in 1..N : \E x \in 1..N : r[x] = y
  <2> TAKE y \in 1..N
  <2>1. PICK z \in 1..N : m[z] = y  BY <1>1 DEF Moves
  <2>2. PICK x \in 1..N : n[x] = z  BY <1>2 DEF Moves
  <2> QED BY <2>1, <2>2
<1>7. \A x \in 1..N : x <= lo \/ x > hi => r[x] = x  BY <1>1, <1>2, <1>3 DEF Moves
<1>8. Moves(r, N, lo, hi)
  <2> HIDE DEF r
  <2> QED BY <1>4, <1>5, <1>6, <1>7 DEF Moves
<1>9. \A x \in 1..N : c[x] = a[r[x]]  BY <1>1, <1>2, <1>3
<1> QED BY <1>8, <1>9 DEF Rearranged

\* What has moved within some places has moved within more.
LEMMA RearrangedWithin ==
  ASSUME NEW N \in Nat, NEW a, NEW b, NEW lo \in Int, NEW hi \in Int, NEW l \in Int, NEW h \in Int,
         Rearranged(b, a, N, lo, hi), l <= lo, hi <= h
  PROVE  Rearranged(b, a, N, l, h)
<1>1. PICK m : Moves(m, N, lo, hi) /\ \A x \in 1..N : b[x] = a[m[x]]  BY DEF Rearranged
<1>2. \A x \in 1..N : x <= l \/ x > h => x <= lo \/ x > hi  OBVIOUS
<1>3. Moves(m, N, l, h)  BY <1>1, <1>2 DEF Moves
<1> QED BY <1>1, <1>3 DEF Rearranged

\* The rows at the indices lo to hi - 1 are among themselves before and after.
Inside(b, a, N, lo, hi) ==
  /\ \A x \in 1..N : \E y \in 1..N : b[x] = a[y] /\ (lo < x /\ x <= hi => lo < y /\ y <= hi)
  /\ \A y \in 1..N : \E x \in 1..N : b[x] = a[y] /\ (lo < y /\ y <= hi => lo < x /\ x <= hi)
  /\ \A x \in 1..N : x <= lo \/ x > hi => b[x] = a[x]

\* What is at the places that moved was there before, and is there still.
LEMMA RearrangedInside ==
  ASSUME NEW N \in Nat, NEW a, NEW b, NEW lo \in Int, NEW hi \in Int, Rearranged(b, a, N, lo, hi)
  PROVE  Inside(b, a, N, lo, hi)
<1>1. PICK m : Moves(m, N, lo, hi) /\ \A x \in 1..N : b[x] = a[m[x]]  BY DEF Rearranged
<1>2. \A x \in 1..N : m[x] \in 1..N  BY <1>1 DEF Moves
<1>3. \A x \in 1..N : x <= lo \/ x > hi => m[x] = x  BY <1>1 DEF Moves
<1>4. ASSUME NEW x \in 1..N, lo < x /\ x <= hi PROVE lo < m[x] /\ m[x] <= hi
  <2> SUFFICES ASSUME m[x] <= lo \/ m[x] > hi PROVE FALSE  BY <1>2
  <2>1. m[m[x]] = m[x]  BY <1>2, <1>3
  <2>2. m[x] = x  BY <1>1, <1>2, <2>1 DEF Moves
  <2> QED BY <1>4, <2>2
<1>5. ASSUME NEW y \in 1..N
      PROVE  \E x \in 1..N : b[x] = a[y] /\ (lo < y /\ y <= hi => lo < x /\ x <= hi)
  <2>1. PICK x \in 1..N : m[x] = y  BY <1>1 DEF Moves
  <2>2. lo < y /\ y <= hi => lo < x /\ x <= hi  BY <1>3, <2>1
  <2> QED BY <1>1, <2>1, <2>2
<1> QED BY <1>1, <1>2, <1>3, <1>4, <1>5 DEF Inside

\* N rows with a number in the field f.
Array(a, N, V, f) == N \in Nat /\ a \in [1..N -> V] /\ \A v \in V : v[f] \in Int

\* The keys of an array are numbers, each at its place.
LEMMA KeysType ==
  ASSUME NEW N, NEW V, NEW f, NEW a, Array(a, N, V, f)
  PROVE  Keys(a, N, f) \in [0..(N - 1) -> Int] /\ \A p \in 0..(N - 1) : Keys(a, N, f)[p] = a[p + 1][f]
<1>1. N \in Nat /\ \A p \in 0..(N - 1) : a[p + 1] \in V /\ a[p + 1][f] \in Int  BY DEF Array
<1> QED BY <1>1 DEF Keys

\* Two places in a heap of the first size rows.
InHeap(N, size, i, j) == size \in 0..N /\ i \in 0..(size - 1) /\ j \in 0..(size - 1)

\* One of the two places, whose key is at least as large as both.
LargerOf(k, m, i, j, N) == m \in {i, j} /\ m \in 0..(N - 1) /\ k[i] <= k[m] /\ k[j] <= k[m]

\* The larger of two places.
LEMMA LargerIs ==
  ASSUME NEW N, NEW V, NEW f, NEW a, Array(a, N, V, f), NEW size, NEW i, NEW j, InHeap(N, size, i, j)
  PROVE  LargerOf(Keys(a, N, f), Larger(a, j, i, size, f), i, j, N)
<1>n. N \in Nat  BY DEF Array
<1>1. i \in 0..(N - 1) /\ j \in 0..(N - 1) /\ j < size  BY <1>n DEF InHeap
<1>a. PICK k : /\ k = Keys(a, N, f) /\ k \in [0..(N - 1) -> Int]
               /\ \A p \in 0..(N - 1) : k[p] = a[p + 1][f]
  BY ONLY Array(a, N, V, f), KeysType
<1>2. k[i] = a[i + 1][f] /\ k[j] = a[j + 1][f] /\ k[i] \in Int /\ k[j] \in Int  BY <1>1, <1>a
<1>3. Larger(a, j, i, size, f) = IF ~(k[i] > k[j]) THEN j ELSE i  BY <1>1, <1>2 DEF Larger, Compare
<1> QED BY <1>1, <1>2, <1>3, <1>a DEF LargerOf

\* Two of the places lo to hi - 1.
BothWithin(N, lo, hi, i, j) == lo \in Nat /\ hi \in Nat /\ hi <= N /\ i \in lo..(hi - 1) /\ j \in lo..(hi - 1)

\* The keys after two have changed places.
Exchanged(j, k, x, y) == j = [k EXCEPT ![x] = k[y], ![y] = k[x]]

\* Swap exchanges two rows and their keys and leaves the others alone.
LEMMA SwapIs ==
  ASSUME NEW N, NEW V, NEW f, NEW a, Array(a, N, V, f), NEW lo, NEW hi, NEW i, NEW j, BothWithin(N, lo, hi, i, j)
  PROVE  /\ Array(Swap(a, i, j), N, V, f) /\ Rearranged(Swap(a, i, j), a, N, lo, hi)
         /\ Exchanged(Keys(Swap(a, i, j), N, f), Keys(a, N, f), i, j)
<1>0. /\ N \in Nat /\ a \in [1..N -> V] /\ lo \in Nat /\ hi \in Nat /\ hi <= N
      /\ i \in lo..(hi - 1) /\ j \in lo..(hi - 1)
  BY DEF Array, BothWithin
<1>b. PICK b : b = Swap(a, i, j)  OBVIOUS
<1> DEFINE m == [x \in 1..N |-> IF x = i + 1 THEN j + 1 ELSE IF x = j + 1 THEN i + 1 ELSE x]
<1>1. i \in 0..(N - 1) /\ j \in 0..(N - 1) /\ i + 1 \in 1..N /\ j + 1 \in 1..N  BY <1>0
<1>2. b \in [1..N -> V]  BY <1>0, <1>b, <1>1 DEF Swap
<1>3. \A x \in 1..N : b[x] = a[m[x]]  BY <1>0, <1>b, <1>1 DEF Swap
<1>4. m \in [1..N -> 1..N]  BY <1>1
<1>5. \A x, y \in 1..N : m[x] = m[y] => x = y  BY <1>0
<1>6. \A y \in 1..N : \E x \in 1..N : m[x] = y
  <2> TAKE y \in 1..N
  <2>1. m[m[y]] = y /\ m[y] \in 1..N  BY <1>1
  <2> QED BY <2>1
<1>7. \A x \in 1..N : x <= lo \/ x > hi => m[x] = x  BY <1>0
<1>8. Moves(m, N, lo, hi)
  <2> HIDE DEF m
  <2> QED BY <1>4, <1>5, <1>6, <1>7 DEF Moves
<1>9. Rearranged(b, a, N, lo, hi)  BY <1>3, <1>8 DEF Rearranged
<1>10. Keys(b, N, f) = [Keys(a, N, f) EXCEPT ![i] = Keys(a, N, f)[j], ![j] = Keys(a, N, f)[i]]
  <2> DEFINE k == Keys(a, N, f)
             r == [k EXCEPT ![i] = k[j], ![j] = k[i]]
  <2>1. \A p \in 0..(N - 1) : k[p] = a[p + 1][f]  BY DEF Keys
  <2>2. \A p \in 0..(N - 1) : r[p] = IF p = j THEN k[i] ELSE IF p = i THEN k[j] ELSE k[p]
    BY <1>1 DEF Keys
  <2>3. ASSUME NEW p \in 0..(N - 1) PROVE b[p + 1][f] = r[p]
    <3>1. p + 1 \in 1..N /\ b[p + 1] = a[m[p + 1]]  BY <1>0, <1>3
    <3>2. m[p + 1] = IF p = i THEN j + 1 ELSE IF p = j THEN i + 1 ELSE p + 1  BY <1>1, <3>1
    <3> HIDE DEF k, r, m
    <3> QED BY <1>1, <2>1, <2>2, <3>1, <3>2
  <2>4. r \in [0..(N - 1) -> {r[p] : p \in 0..(N - 1)}]
    <3>1. DOMAIN r = 0..(N - 1)  BY DEF Keys
    <3>2. r = [p \in DOMAIN r |-> r[p]]  OBVIOUS
    <3> HIDE DEF r
    <3> QED BY <3>1, <3>2
  <2> HIDE DEF r, k
  <2>5. Keys(b, N, f) = r  BY <2>3, <2>4 DEF Keys
  <2> QED BY <2>5 DEF r, k
<1> QED BY <1>0, <1>b, <1>2, <1>9, <1>10 DEF Array, Exchanged

\* A parent at or below i, and one of its two children.
Parent(N, half, i, at, max) ==
  /\ N \in Nat /\ half \in Nat /\ i \in Nat /\ at \in Nat /\ max \in Nat
  /\ 2 * half <= N /\ at < half /\ i <= at /\ max # at
  /\ max = 2 * at \/ max = 2 * at + 1

\* The child has the largest key of the parent and its children.
LargestAt(k, N, at, max) ==
  /\ k \in [0..(N - 1) -> Int]
  /\ k[2 * at] <= k[max] /\ k[2 * at + 1] <= k[max] /\ k[at] <= k[max]

\* When the parent and that child change places, the exception is at the child.
LEMMA SinkIs ==
  ASSUME NEW N, NEW half, NEW i, NEW at, NEW max, Parent(N, half, i, at, max), NEW k, LargestAt(k, N, at, max),
         HeapBut(k, i, half, at), GrandOf(k, i, half, at), NEW j, Exchanged(j, k, at, max)
  PROVE  HeapBut(j, i, half, max) /\ GrandOf(j, i, half, max)
<1>1. /\ N \in Nat /\ half \in Nat /\ i \in Nat /\ at \in Nat /\ max \in Nat
      /\ 2 * half <= N /\ at < half /\ i <= at /\ max # at
      /\ max = 2 * at \/ max = 2 * at + 1
  BY DEF Parent
<1>2. /\ k \in [0..(N - 1) -> Int]
      /\ k[2 * at] <= k[max] /\ k[2 * at + 1] <= k[max] /\ k[at] <= k[max]
  BY DEF LargestAt
<1>3. j = [k EXCEPT ![at] = k[max], ![max] = k[at]]  BY DEF Exchanged
<1> QED BY ONLY <1>1, <1>2, <1>3, SinkKeys, HeapBut(k, i, half, at), GrandOf(k, i, half, at)

\* Where a value that sinks from i can be after n calls.
Sinks(a, at, k, d, N, i, half, n) ==
  /\ at >= i /\ Rearranged(a, d, N, i, 2 * half)
  /\ HeapBut(k, i, half, at) /\ GrandOf(k, i, half, at)
  /\ \/ at < half => k[2 * at] <= k[at] /\ k[2 * at + 1] <= k[at]
     \/ at >= i + n

\* The states of Adjust after n calls.
SinkState(d, N, V, f, i, half, n) ==
  {h \in [data : [1..N -> V], at : 0..(N - 1)] :
     Sinks(h.data, h.at, Keys(h.data, N, f), d, N, i, half, n)}

\* A call of Adjust leads from the states after n calls to those after n + 1.
LEMMA SinkTurn ==
  ASSUME NEW N, NEW V, NEW f, NEW d, Array(d, N, V, f), NEW size \in 0..N,
         NEW half \in Nat, half = size \div 2, NEW i \in Nat, NEW n \in Nat,
         NEW h, h \in SinkState(d, N, V, f, i, half, n)
  PROVE  Sink(h, size, f) \in SinkState(d, N, V, f, i, half, n + 1)
<1>n. N \in Nat  BY DEF Array
<1>0. 2 * half <= size /\ 2 * half <= N  BY <1>n
<1>1. PICK a, at, k : a = h.data /\ at = h.at /\ k = Keys(a, N, f)  OBVIOUS
<1>h. h \in [data : [1..N -> V], at : 0..(N - 1)]  BY DEF SinkState
<1>t. a \in [1..N -> V] /\ at \in 0..(N - 1) /\ h = [data |-> a, at |-> at]  BY <1>1, <1>h
<1>a. Array(a, N, V, f)  BY <1>t DEF Array
<1>s. Sinks(a, at, k, d, N, i, half, n)  BY <1>1 DEF SinkState
<1>2. /\ at >= i /\ Rearranged(a, d, N, i, 2 * half)
      /\ HeapBut(k, i, half, at) /\ GrandOf(k, i, half, at)
      /\ \/ at < half => k[2 * at] <= k[at] /\ k[2 * at + 1] <= k[at]
         \/ at >= i + n
  BY <1>s DEF Sinks
<1>k. k \in [0..(N - 1) -> Int]  BY <1>1, <1>a, KeysType
<1>3. PICK left, max : left = Larger(a, 2 * at, at, size, f) /\ max = Larger(a, 2 * at + 1, left, size, f)
  OBVIOUS
<1>4. Sink(h, size, f) = IF at < half /\ max # at THEN [data |-> Swap(a, at, max), at |-> max] ELSE h
  BY <1>1, <1>3 DEF Sink
<1>5. ASSUME at < half
      PROVE  /\ max = at \/ max = 2 * at \/ max = 2 * at + 1
             /\ max \in 0..(N - 1) /\ k[at] <= k[max] /\ k[2 * at] <= k[max] /\ k[2 * at + 1] <= k[max]
  <2>1. 2 * at \in 0..(size - 1) /\ 2 * at + 1 \in 0..(size - 1) /\ at \in 0..(size - 1)
    BY <1>n, <1>0, <1>t, <1>5
  <2>2. LargerOf(k, left, at, 2 * at, N)
    <3>1. PICK l : l = 2 * at  OBVIOUS
    <3>2. InHeap(N, size, at, l)  BY <2>1, <3>1 DEF InHeap
    <3>3. LargerOf(Keys(a, N, f), Larger(a, l, at, size, f), at, l, N)  BY <1>a, <3>2, LargerIs
    <3> QED BY <1>1, <1>3, <3>1, <3>3
  <2>3. left \in {at, 2 * at} /\ left \in 0..(N - 1) /\ k[at] <= k[left] /\ k[2 * at] <= k[left]
    BY <2>2 DEF LargerOf
  <2>4. LargerOf(k, max, left, 2 * at + 1, N)
    <3>1. PICK r : r = 2 * at + 1  OBVIOUS
    <3>2. InHeap(N, size, left, r)  BY <2>1, <2>3, <3>1 DEF InHeap
    <3>3. LargerOf(Keys(a, N, f), Larger(a, r, left, size, f), left, r, N)  BY <1>a, <3>2, LargerIs
    <3> QED BY <1>1, <1>3, <3>1, <3>3
  <2>5. /\ max \in {left, 2 * at + 1} /\ max \in 0..(N - 1)
        /\ k[left] <= k[max] /\ k[2 * at + 1] <= k[max]
    BY <2>4 DEF LargerOf
  <2>6. k[at] \in Int /\ k[2 * at] \in Int /\ k[left] \in Int /\ k[max] \in Int
    BY <1>n, <1>k, <1>t, <2>1, <2>3, <2>5
  <2>7. k[at] <= k[max] /\ k[2 * at] <= k[max]  BY <2>3, <2>5, <2>6
  <2> QED BY <2>3, <2>5, <2>7
\* Where it stays, it is as large as its children.
<1>6. CASE ~(at < half /\ max # at)
  <2>1. Sink(h, size, f) = h  BY <1>4, <1>6
  <2>2. at < half => k[2 * at] <= k[at] /\ k[2 * at + 1] <= k[at]  BY <1>5, <1>6
  <2>3. Sinks(a, at, k, d, N, i, half, n + 1)  BY <1>2, <2>2 DEF Sinks
  <2> QED BY <1>1, <1>h, <2>1, <2>3 DEF SinkState
<1>8. CASE at < half /\ max # at
  <2>2. PICK b, j : b = Swap(a, at, max) /\ j = Keys(b, N, f)  OBVIOUS
  <2>1. Sink(h, size, f) = [data |-> b, at |-> max]  BY <1>4, <1>8, <2>2
  <2>3. /\ at \in Nat /\ i <= at /\ max \in Nat
        /\ max = 2 * at \/ max = 2 * at + 1
        /\ k[2 * at] <= k[max] /\ k[2 * at + 1] <= k[max] /\ k[at] <= k[max]
    BY <1>n, <1>t, <1>2, <1>5, <1>8
  <2>4. max \in i..(2 * half - 1) /\ at \in i..(2 * half - 1) /\ 2 * half \in Nat  BY <1>8, <2>3
  <2>5. Array(b, N, V, f) /\ Rearranged(b, a, N, i, 2 * half) /\ Exchanged(j, k, at, max)
    <3>1. PICK hi : hi = 2 * half /\ hi \in Nat  BY <2>4
    <3>2. BothWithin(N, i, hi, at, max)  BY <1>0, <2>4, <3>1 DEF BothWithin
    <3>3. /\ Array(Swap(a, at, max), N, V, f) /\ Rearranged(Swap(a, at, max), a, N, i, hi)
          /\ Exchanged(Keys(Swap(a, at, max), N, f), Keys(a, N, f), at, max)
      BY <1>a, <3>2, SwapIs
    <3> QED BY <1>1, <2>2, <3>1, <3>3
  <2>8. HeapBut(j, i, half, max) /\ GrandOf(j, i, half, max)
    <3>1. Parent(N, half, i, at, max)  BY <1>n, <1>0, <1>8, <2>3 DEF Parent
    <3>2. LargestAt(k, N, at, max)  BY <1>k, <2>3 DEF LargestAt
    <3> QED BY <1>2, <2>5, <3>1, <3>2, SinkIs
  <2>m. max > at  BY <1>8, <2>3
  <2>9. Rearranged(b, d, N, i, 2 * half)
    <3>1. PICK hi : hi = 2 * half  OBVIOUS
    <3> QED BY <1>n, <1>2, <2>5, <3>1, RearrangedTwice
  <2>10. max \in 0..(N - 1)  BY <1>5, <1>8
  <2>11. max >= i + (n + 1) \/ (max < half => j[2 * max] <= j[max] /\ j[2 * max + 1] <= j[max])
    <3>1. CASE at >= i + n  BY <2>3, <2>m, <3>1
    <3>2. CASE k[2 * at] <= k[at] /\ k[2 * at + 1] <= k[at]
      \* The value was as large as its children, and equal to the one it changes places with.
      <4>1. at \in 0..(N - 1) /\ max \in 0..(N - 1)  BY <1>t, <2>10
      <4>2. k[max] <= k[at] /\ k[max] \in Int /\ k[at] \in Int  BY <1>k, <2>3, <3>2, <4>1
      <4>3. k[max] = k[at]  BY <2>3, <4>2
      <4>0. \A p \in 0..(N - 1) : p # at /\ p # max => j[p] = k[p]  BY <1>k, <2>5 DEF Exchanged
      <4>4. j[max] = k[max]  BY <1>k, <2>5, <4>1, <4>3 DEF Exchanged
      <4>5. ASSUME max < half PROVE j[2 * max] <= j[max] /\ j[2 * max + 1] <= j[max]
        <5>1. max \in i..(half - 1) /\ max # at  BY <1>8, <2>3, <2>4, <4>5
        <5>2. k[2 * max] <= k[max] /\ k[2 * max + 1] <= k[max]  BY <1>2, <5>1 DEF HeapBut
        <5>3. /\ 2 * max \in 0..(N - 1) /\ 2 * max + 1 \in 0..(N - 1)
              /\ 2 * max # at /\ 2 * max # max /\ 2 * max + 1 # at /\ 2 * max + 1 # max
          BY <1>n, <1>0, <2>3, <2>m, <4>5
        <5>4. j[2 * max] = k[2 * max] /\ j[2 * max + 1] = k[2 * max + 1]  BY <4>0, <5>3
        <5> QED BY <4>4, <5>2, <5>4
      <4> QED BY <4>5
    <3> QED BY <1>2, <1>8, <3>1, <3>2
  <2>12. Sinks(b, max, j, d, N, i, half, n + 1)  BY <2>3, <2>8, <2>9, <2>11, <2>m DEF Sinks
  <2>13. PICK g : g = [data |-> b, at |-> max]  OBVIOUS
  <2>14. g \in [data : [1..N -> V], at : 0..(N - 1)] /\ g.data = b /\ g.at = max
    BY <2>5, <2>10, <2>13 DEF Array
  <2>15. g \in SinkState(d, N, V, f, i, half, n + 1)
    BY <2>2, <2>12, <2>14 DEF SinkState
  <2> QED BY <2>1, <2>13, <2>15
<1> QED BY <1>6, <1>8

\* The recursive function of a loop of N turns.
Loop(it, N, x, step) == it = [n \in 0..N |-> IF n = 0 THEN x ELSE step[<<n, it[n - 1]>>]]

\* A loop whose turns lead from the states Inv[n - 1] to Inv[n] has a run.
LEMMA LoopExists ==
  ASSUME NEW N \in Nat, NEW Inv, NEW x, x \in Inv[0], NEW step,
         \A n \in 1..N : \A s \in Inv[n - 1] : step[<<n, s>>] \in Inv[n]
  PROVE  \E it : Loop(it, N, x, step) /\ \A n \in 0..N : it[n] \in Inv[n]
<1> DEFINE S == UNION {Inv[n] : n \in 0..N}
           good == [p \in (1..N) \X S |-> IF p[2] \in Inv[p[1] - 1] THEN step[p] ELSE x]
<1>1. \A n \in 0..N : Inv[n] \subseteq S  OBVIOUS
<1>2. x \in S  BY <1>1
<1>3. \A n \in 1..N, s \in S : good[<<n, s>>] = IF s \in Inv[n - 1] THEN step[<<n, s>>] ELSE x
  <2> HIDE DEF S
  <2> QED OBVIOUS
<1>4. \A n \in 1..N, s \in S : good[<<n, s>>] \in S
  <2> TAKE n \in 1..N, s \in S
  <2>1. n \in 0..N  OBVIOUS
  <2>2. CASE s \in Inv[n - 1]
    <3>1. step[<<n, s>>] \in Inv[n]  BY <2>2
    <3> HIDE DEF S, good
    <3> QED BY <1>1, <1>3, <2>1, <2>2, <3>1
  <2>3. CASE s \notin Inv[n - 1]
    <3> HIDE DEF S, good
    <3> QED BY <1>2, <1>3, <2>3
  <2> QED BY <2>2, <2>3
<1>5. good \in [(1..N) \X S -> S]
  <2>1. good = [p \in (1..N) \X S |-> good[p]]  OBVIOUS
  <2> HIDE DEF S, good
  <2>2. \A p \in (1..N) \X S : good[p] \in S
    <3> TAKE p \in (1..N) \X S
    <3>1. PICK n \in 1..N, s \in S : p = <<n, s>>  OBVIOUS
    <3> QED BY <1>4, <3>1
  <2> QED BY <2>1, <2>2
<1>6. PICK it : Iterates(it, N, S, x, good)
  <2> HIDE DEF S, good
  <2> QED BY <1>2, <1>5, IterationExists
<1>7. it = [n \in 0..N |-> IF n = 0 THEN x ELSE good[<<n, it[n - 1]>>]] /\ it \in [0..N -> S]
  <2> HIDE DEF S, good
  <2> QED BY <1>6 DEF Iterates
<1>8. \A n \in 0..N : it[n] \in Inv[n]
  <2>1. it[0] \in Inv[0]
    <3> HIDE DEF S, good
    <3> QED BY <1>7
  <2>2. ASSUME NEW n \in 1..N, it[n - 1] \in Inv[n - 1] PROVE it[n] \in Inv[n]
    <3>1. n \in 0..N /\ n # 0 /\ n - 1 \in 0..N  OBVIOUS
    <3> HIDE DEF S, good
    <3>2. it[n] = good[<<n, it[n - 1]>>]  BY <1>7, <3>1
    <3>3. it[n - 1] \in S  BY <1>7, <3>1
    <3>4. it[n] = step[<<n, it[n - 1]>>]  BY <1>3, <2>2, <3>2, <3>3
    <3> QED BY <2>2, <3>4
  <2> QED BY <2>1, <2>2, IterationKeeps
<1>9. \A n \in 0..N : n # 0 => good[<<n, it[n - 1]>>] = step[<<n, it[n - 1]>>]
  <2> TAKE n \in 0..N
  <2> HAVE n # 0
  <2>1. n \in 1..N /\ n - 1 \in 0..N  OBVIOUS
  <2>2. it[n - 1] \in Inv[n - 1]  BY <1>8, <2>1
  <2> HIDE DEF S, good
  <2>3. it[n - 1] \in S  BY <1>7, <2>1
  <2> QED BY <1>3, <2>1, <2>2, <2>3
<1>10. it = [n \in 0..N |-> IF n = 0 THEN x ELSE step[<<n, it[n - 1]>>]]
  <2> HIDE DEF S, good
  <2> QED BY <1>7, <1>9
<1> QED BY <1>8, <1>10 DEF Loop

-------------------------------------------------------------------------------
\* What the recursive function of Adjust satisfies.
Sunk(it, d, i, size, f) ==
  it = [n \in 0..size |-> IF n = 0 THEN [data |-> d, at |-> i] ELSE Sink(it[n - 1], size, f)]

\* Adjust ends with what that function holds last.
LEMMA AdjustChosen ==
  ASSUME NEW d, NEW i, NEW size, NEW f PROVE Adjust(d, i, size, f) = (CHOOSE it : Sunk(it, d, i, size, f))[size].data
BY Zenon DEF Adjust, Sunk

\* Below i the rows are a heap, and from i on after the value there has sunk.
LEMMA AdjustIs ==
  ASSUME NEW N, NEW V, NEW f, NEW d, Array(d, N, V, f), NEW size \in 0..N,
         NEW half \in Nat, half = size \div 2, NEW i \in 0..(N - 1), HeapFrom(Keys(d, N, f), i + 1, half)
  PROVE  /\ Array(Adjust(d, i, size, f), N, V, f)
         /\ Rearranged(Adjust(d, i, size, f), d, N, i, 2 * half)
         /\ HeapFrom(Keys(Adjust(d, i, size, f), N, f), i, half)
<1> DEFINE x == [data |-> d, at |-> i]
           State(n) == SinkState(d, N, V, f, i, half, n)
<1>n. N \in Nat /\ d \in [1..N -> V] /\ \A v \in V : v[f] \in Int  BY DEF Array
<1>0. size \in Nat /\ 2 * half <= size /\ 2 * half <= N /\ i \in Nat  BY <1>n
<1>1. x \in State(0)
  <2>1. PICK k : k = Keys(d, N, f)  OBVIOUS
  <2>2. HeapBut(k, i, half, i)
    <3>1. \A p \in i..(half - 1) : p # i => p \in (i + 1)..(half - 1)  BY <1>0
    <3> QED BY <2>1, <3>1 DEF HeapBut, HeapFrom
  <2>3. GrandOf(k, i, half, i)
    <3>1. \A p \in i..(half - 1) : p # i => i # 2 * p /\ i # 2 * p + 1  BY <1>0
    <3> QED BY <3>1 DEF GrandOf
  <2>4. PICK hi : hi = 2 * half  OBVIOUS
  <2>5. Rearranged(d, d, N, i, hi)  BY <1>n, RearrangedNot
  <2>6. Sinks(d, i, k, d, N, i, half, 0)  BY <1>0, <2>2, <2>3, <2>4, <2>5 DEF Sinks
  <2>7. x \in [data : [1..N -> V], at : 0..(N - 1)] /\ x.data = d /\ x.at = i  BY <1>n
  <2> HIDE DEF x
  <2> QED BY <2>1, <2>6, <2>7 DEF SinkState
<1>2. \A n \in Nat : \A h \in State(n) : Sink(h, size, f) \in State(n + 1)
  BY SinkTurn
<1> DEFINE Inv == [n \in 0..size |-> State(n)]
           T == UNION {Inv[n] : n \in 0..size}
           step == [p \in (1..size) \X T |-> Sink(p[2], size, f)]
<1>3. \A n \in 1..size : \A h \in Inv[n - 1] : h \in T /\ Sink(h, size, f) \in Inv[n] /\ step[<<n, h>>] = Sink(h, size, f)
  <2> TAKE n \in 1..size
  <2> TAKE h \in Inv[n - 1]
  <2>1. n - 1 \in 0..size /\ n \in 0..size /\ (n - 1) + 1 = n /\ n - 1 \in Nat  BY <1>0
  <2>2. Inv[n - 1] = State(n - 1) /\ Inv[n] = State(n)  BY <2>1
  <2>3. h \in T  BY <2>1
  <2> HIDE DEF Inv, T, State
  <2>4. Sink(h, size, f) \in Inv[n]  BY <1>2, <2>1, <2>2
  <2> QED BY <2>3, <2>4
<1>i. Inv[0] = State(0)  BY <1>0
<1> HIDE DEF State, Inv, T, x
<1>4. \E it : Sunk(it, d, i, size, f)
  <2>1. PICK it : Loop(it, size, x, step) /\ \A n \in 0..size : it[n] \in Inv[n]
    <3> HIDE DEF step
    <3>1. x \in Inv[0]  BY <1>1, <1>i
    <3>2. \A n \in 1..size : \A h \in Inv[n - 1] : step[<<n, h>>] \in Inv[n]  BY <1>3
    <3> QED BY <1>0, <3>1, <3>2, LoopExists
  <2> HIDE DEF step
  <2>2. \A n \in 0..size : n # 0 => step[<<n, it[n - 1]>>] = Sink(it[n - 1], size, f)
    <3>1. \A n \in 0..size : n # 0 => n \in 1..size /\ n - 1 \in 0..size  BY <1>0
    <3> QED BY <1>3, <2>1, <3>1
  <2>3. it = [n \in 0..size |-> IF n = 0 THEN x ELSE step[<<n, it[n - 1]>>]]  BY <2>1 DEF Loop
  <2>4. it = [n \in 0..size |-> IF n = 0 THEN x ELSE Sink(it[n - 1], size, f)]  BY <2>2, <2>3
  <2> QED BY <2>4 DEF Sunk, x
<1>5. PICK it : Sunk(it, d, i, size, f) /\ Adjust(d, i, size, f) = it[size].data
  BY <1>4, AdjustChosen
<1>6. it = [n \in 0..size |-> IF n = 0 THEN x ELSE Sink(it[n - 1], size, f)]  BY <1>5 DEF Sunk, x
<1>7. it[0] \in Inv[0]
  <2>1. it[0] = x  BY <1>0, <1>6
  <2> QED BY <1>1, <1>i, <2>1
<1>8. \A n \in 1..size : it[n - 1] \in Inv[n - 1] => it[n] \in Inv[n]
  <2> TAKE n \in 1..size
  <2>1. n \in 0..size /\ n # 0  BY <1>0
  <2>2. it[n] = Sink(it[n - 1], size, f)  BY <1>6, <2>1
  <2> QED BY <1>3, <2>2
<1>9. it[size] \in State(size)
  <2>1. \A n \in 0..size : it[n] \in Inv[n]  BY <1>0, <1>7, <1>8, IterationKeeps
  <2>2. size \in 0..size  BY <1>0
  <2> QED BY <2>1, <2>2 DEF Inv
<1>10. PICK b, at, k : b = Adjust(d, i, size, f) /\ at = it[size].at /\ k = Keys(b, N, f)  OBVIOUS
<1>11. b \in [1..N -> V] /\ at \in 0..(N - 1) /\ Sinks(b, at, k, d, N, i, half, size)
  BY <1>5, <1>9, <1>10 DEF State, SinkState
<1>12. Array(b, N, V, f)  BY <1>n, <1>11 DEF Array
<1>13. /\ at >= i /\ Rearranged(b, d, N, i, 2 * half) /\ HeapBut(k, i, half, at)
       /\ \/ at < half => k[2 * at] <= k[at] /\ k[2 * at + 1] <= k[at]
          \/ at >= i + size
  BY <1>11 DEF Sinks
<1>14. at < half => k[2 * at] <= k[at] /\ k[2 * at + 1] <= k[at]
  <2>1. at >= i + size => ~(at < half)  BY <1>0, <1>11
  <2> QED BY <1>13, <2>1
<1>15. HeapFrom(k, i, half)
  <2> SUFFICES ASSUME NEW p \in i..(half - 1) PROVE k[2 * p] <= k[p] /\ k[2 * p + 1] <= k[p]
    BY DEF HeapFrom
  <2>1. CASE p = at
    <3>1. at < half  BY <1>0, <2>1
    <3> QED BY <1>14, <2>1, <3>1
  <2>2. CASE p # at  BY <1>13, <2>2 DEF HeapBut
  <2> QED BY <2>1, <2>2
<1> QED BY <1>10, <1>12, <1>13, <1>15

-------------------------------------------------------------------------------
\* An array is a sequence of its length.
LEMMA ArrayIsSeq ==
  ASSUME NEW N, NEW V, NEW f, NEW a, Array(a, N, V, f)
  PROVE  N \in Nat /\ a \in [1..N -> V] /\ a \in Seq(V) /\ Len(a) = N /\ DOMAIN a = 1..N
<1>1. N \in Nat /\ a \in [1..N -> V]  BY DEF Array
<1> QED BY <1>1

\* What the recursive function of Heapify satisfies.
HeapLoop(it, d, N, half, f) ==
  it = [n \in 0..(half + 1) |-> IF n = 0 THEN d ELSE Adjust(it[n - 1], half + 1 - n, N, f)]

\* Heapify ends with what that function holds last.
LEMMA HeapifyChosen ==
  ASSUME NEW d, NEW f
  PROVE  Heapify(d, f) = (CHOOSE it : HeapLoop(it, d, Len(d), Len(d) \div 2, f))[(Len(d) \div 2) + 1]
BY Zenon DEF Heapify, HeapLoop

\* The rows of d in another order, a heap from the parent lo on.
HeapState(d, N, V, f, lo, half) ==
  {b \in [1..N -> V] : Rearranged(b, d, N, 0, N) /\ HeapFrom(Keys(b, N, f), lo, half)}

\* A turn of Heapify makes the heap begin one parent earlier.
LEMMA HeapifyTurn ==
  ASSUME NEW N, NEW V, NEW f, NEW d, Array(d, N, V, f), NEW half \in Nat, half = N \div 2,
         NEW i \in Nat, i < N, NEW b \in HeapState(d, N, V, f, i + 1, half)
  PROVE  Adjust(b, i, N, f) \in HeapState(d, N, V, f, i, half)
<1>n. N \in Nat /\ d \in [1..N -> V] /\ \A v \in V : v[f] \in Int  BY DEF Array
<1>0. half = N \div 2 /\ 2 * half <= N /\ N \in 0..N /\ i \in 0..(N - 1)  BY <1>n
<1>1. /\ b \in [1..N -> V] /\ Rearranged(b, d, N, 0, N)
      /\ HeapFrom(Keys(b, N, f), i + 1, half)
  BY DEF HeapState
<1>2. Array(b, N, V, f)  BY <1>n, <1>1 DEF Array
<1>3. PICK a : a = Adjust(b, i, N, f)  OBVIOUS
<1>4. /\ Array(a, N, V, f) /\ Rearranged(a, b, N, i, 2 * half)
      /\ HeapFrom(Keys(a, N, f), i, half)
  BY <1>0, <1>1, <1>2, <1>3, AdjustIs
<1>5. Rearranged(a, b, N, 0, N)
  <2>1. PICK hi \in Int : hi = 2 * half /\ hi <= N /\ 0 <= i /\ i \in Int /\ N \in Int /\ 0 \in Int BY <1>n, <1>0
  <2>2. Rearranged(a, b, N, i, hi)  BY <1>4, <2>1
  <2> QED BY <1>n, <2>1, <2>2, RearrangedWithin
<1>6. Rearranged(a, d, N, 0, N)  BY <1>n, <1>1, <1>5, RearrangedTwice
<1>7. a \in [1..N -> V]  BY <1>4 DEF Array
<1> QED BY <1>3, <1>4, <1>6, <1>7 DEF HeapState

\* Heapify puts the rows in the order of a heap.
LEMMA HeapifyIs ==
  ASSUME NEW N, N > 0, NEW V, NEW f, NEW d, Array(d, N, V, f), NEW half \in Nat, half = N \div 2
  PROVE  Heapify(d, f) \in HeapState(d, N, V, f, 0, half)
<1>n. N \in Nat /\ d \in [1..N -> V] /\ Len(d) = N  BY ArrayIsSeq
<1> DEFINE H == half + 1
           Inv == [n \in 0..H |-> HeapState(d, N, V, f, half + 1 - n, half)]
           T == UNION {Inv[n] : n \in 0..H}
           body(b, n) == Adjust(b, half + 1 - n, N, f)
           step == [p \in (1..H) \X T |-> body(p[2], p[1])]
<1>h. H \in Nat /\ half < N /\ H \in 0..H /\ 0 \in 0..H  BY <1>n
<1>1. d \in HeapState(d, N, V, f, half + 1, half)
  <2>1. Rearranged(d, d, N, 0, N)  BY <1>n, RearrangedNot
  <2>2. HeapFrom(Keys(d, N, f), half + 1, half)  BY DEF HeapFrom
  <2> QED BY <1>n, <2>1, <2>2 DEF HeapState
<1>i. d \in Inv[0] /\ Inv[H] = HeapState(d, N, V, f, 0, half)
  <2>1. half + 1 - 0 = half + 1 /\ half + 1 - H = 0  OBVIOUS
  <2> HIDE DEF H
  <2> QED BY <1>1, <1>h, <2>1
<1>3. \A n \in 1..H : \A b \in Inv[n - 1] : b \in T /\ body(b, n) \in Inv[n] /\ step[<<n, b>>] = body(b, n)
  <2> TAKE n \in 1..H
  <2> TAKE b \in Inv[n - 1]
  <2>1. n - 1 \in 0..H /\ n \in 0..H  BY <1>h
  <2>2. PICK i \in Nat : i = half + 1 - n /\ i + 1 = half + 1 - (n - 1) /\ i < N
    <3>0. n \in Int /\ 1 <= n /\ n <= half + 1  OBVIOUS
    <3> HIDE DEF H
    <3>1. half + 1 - n \in Nat /\ half + 1 - n + 1 = half + 1 - (n - 1) /\ half + 1 - n < N  BY <1>n, <1>h, <3>0
    <3> QED BY <3>1
  <2>3. Inv[n - 1] = HeapState(d, N, V, f, i + 1, half) /\ Inv[n] = HeapState(d, N, V, f, i, half)
    <3> HIDE DEF H
    <3> QED BY <2>1, <2>2
  <2>4. b \in T  BY <2>1
  <2> HIDE DEF Inv, T
  <2>5. Adjust(b, i, N, f) \in HeapState(d, N, V, f, i, half)  BY <2>2, <2>3, HeapifyTurn
  <2>6. body(b, n) \in Inv[n]  BY <2>2, <2>3, <2>5
  <2> HIDE DEF body, H
  <2> QED BY <2>4, <2>6
<1> HIDE DEF Inv, T, body, H
<1>4. \E it : HeapLoop(it, d, N, half, f)
  <2>1. PICK it : Loop(it, H, d, step) /\ \A n \in 0..H : it[n] \in Inv[n]
    <3> HIDE DEF step
    <3>2. \A n \in 1..H : \A b \in Inv[n - 1] : step[<<n, b>>] \in Inv[n]  BY <1>3
    <3> QED BY <1>h, <1>i, <3>2, LoopExists
  <2> HIDE DEF step
  <2>2. \A n \in 0..H : n # 0 => step[<<n, it[n - 1]>>] = body(it[n - 1], n)
    <3>1. \A n \in 0..H : n # 0 => n \in 1..H /\ n - 1 \in 0..H  BY <1>h
    <3> QED BY <1>3, <2>1, <3>1
  <2>3. it = [n \in 0..H |-> IF n = 0 THEN d ELSE step[<<n, it[n - 1]>>]]  BY <2>1 DEF Loop
  <2>4. it = [n \in 0..H |-> IF n = 0 THEN d ELSE body(it[n - 1], n)]  BY <2>2, <2>3
  <2> QED BY <2>4 DEF HeapLoop, H, body
<1>5. PICK it : HeapLoop(it, d, N, half, f) /\ Heapify(d, f) = it[half + 1]
  BY <1>4, <1>n, HeapifyChosen
<1>6. it = [n \in 0..H |-> IF n = 0 THEN d ELSE body(it[n - 1], n)]  BY <1>5 DEF HeapLoop, H, body
<1>7. it[0] \in Inv[0]
  <2>1. it[0] = d  BY <1>h, <1>6
  <2> QED BY <1>i, <2>1
<1>8. \A n \in 1..H : it[n - 1] \in Inv[n - 1] => it[n] \in Inv[n]
  <2> TAKE n \in 1..H
  <2>1. n \in 0..H /\ n # 0  BY <1>h
  <2>2. it[n] = body(it[n - 1], n)  BY <1>6, <2>1
  <2> QED BY <1>3, <2>2
<1>9. \A n \in 0..H : it[n] \in Inv[n]  BY <1>h, <1>7, <1>8, IterationKeeps
<1> QED BY <1>5, <1>9, <1>h, <1>i DEF H

-------------------------------------------------------------------------------
\* The largest of m rows is in front.
Top(k, m) == \A j \in 0..(m - 1) : k[j] <= k[0]

\* From m on the keys are in their order, and none in front of them is larger.
TailSorted(k, m, N) ==
  /\ \A p, q \in m..(N - 1) : p <= q => k[p] <= k[q]
  /\ \A p \in 0..(m - 1), q \in m..(N - 1) : k[p] <= k[q]

\* A heap of m rows, and the other rows sorted.
SortState(d, N, V, f, m) ==
  {b \in [1..N -> V] :
     /\ Rearranged(b, d, N, 0, N)
     /\ HeapFrom(Keys(b, N, f), 0, m \div 2) /\ Top(Keys(b, N, f), m) /\ TailSorted(Keys(b, N, f), m, N)}

\* What only moved below c is as the tail and as large as before.
LEMMA TailStays ==
  ASSUME NEW N, NEW V, NEW f, NEW a, Array(a, N, V, f), NEW b, Array(b, N, V, f),
         NEW c \in 0..N, Rearranged(b, a, N, 0, c), TailSorted(Keys(a, N, f), c, N)
  PROVE  TailSorted(Keys(b, N, f), c, N)
<1>n. N \in Nat  BY DEF Array
<1>1. PICK k : k = Keys(a, N, f) /\ k \in [0..(N - 1) -> Int] /\ \A p \in 0..(N - 1) : k[p] = a[p + 1][f]
  BY ONLY Array(a, N, V, f), KeysType
<1>2. PICK j : j = Keys(b, N, f) /\ j \in [0..(N - 1) -> Int] /\ \A p \in 0..(N - 1) : j[p] = b[p + 1][f]
  BY ONLY Array(b, N, V, f), KeysType
<1>3. /\ \A x \in 1..N : \E y \in 1..N : b[x] = a[y] /\ (0 < x /\ x <= c => 0 < y /\ y <= c)
      /\ \A x \in 1..N : x <= 0 \/ x > c => b[x] = a[x]
  <2>1. PICK lo \in Int, hi \in Int : lo = 0 /\ hi = c  BY <1>n
  <2>2. Rearranged(b, a, N, lo, hi)  BY <2>1
  <2>3. Inside(b, a, N, lo, hi)  BY <1>n, <2>2, RearrangedInside
  <2> QED BY <2>1, <2>3 DEF Inside
<1>4. \A q \in c..(N - 1) : q \in 0..(N - 1) /\ j[q] = k[q]
  <2> TAKE q \in c..(N - 1)
  <2>1. q \in 0..(N - 1) /\ q + 1 \in 1..N /\ q + 1 > c  BY <1>n
  <2>2. b[q + 1] = a[q + 1]  BY <1>3, <2>1
  <2> QED BY <1>1, <1>2, <2>1, <2>2
<1>5. \A p \in 0..(c - 1) : \E r \in 0..(c - 1) : j[p] = k[r]
  <2> TAKE p \in 0..(c - 1)
  <2>1. p \in 0..(N - 1) /\ p + 1 \in 1..N /\ 0 < p + 1 /\ p + 1 <= c  BY <1>n
  <2>2. PICK y \in 1..N : b[p + 1] = a[y] /\ 0 < y /\ y <= c  BY <1>3, <2>1
  <2>3. PICK r : r = y - 1  OBVIOUS
  <2>4. r \in 0..(c - 1) /\ r \in 0..(N - 1) /\ r + 1 = y  BY <1>n, <2>2, <2>3
  <2>5. k[r] = a[y][f] /\ j[p] = b[p + 1][f]  BY <1>1, <1>2, <2>1, <2>4
  <2> QED BY <2>2, <2>4, <2>5
<1>6. \A p, q \in c..(N - 1) : p <= q => j[p] <= j[q]  BY <1>1, <1>4 DEF TailSorted
<1>7. \A p \in 0..(c - 1), q \in c..(N - 1) : j[p] <= j[q]
  <2> TAKE p \in 0..(c - 1), q \in c..(N - 1)
  <2>1. PICK r \in 0..(c - 1) : j[p] = k[r]  BY <1>5
  <2>2. k[r] <= k[q]  BY <1>1 DEF TailSorted
  <2> QED BY <1>4, <2>1, <2>2
<1> QED BY <1>2, <1>6, <1>7 DEF TailSorted

\* A turn of Sort: the largest row joins the tail, and the rest is a heap again.
LEMMA HeapSortTurn ==
  ASSUME NEW N, NEW V, NEW f, NEW d, Array(d, N, V, f), NEW m \in 2..N, NEW c, c = m - 1,
         NEW a \in SortState(d, N, V, f, m)
  PROVE  Adjust(Swap(a, 0, c), 0, c, f) \in SortState(d, N, V, f, c)
<1>n. N \in Nat /\ d \in [1..N -> V] /\ \A v \in V : v[f] \in Int  BY DEF Array
<1>0. /\ m \in Nat /\ c \in Nat /\ 1 <= c /\ c < m /\ m <= N /\ c \in 0..N /\ c \in 0..(N - 1) /\ 0 \in 0..(N - 1)
      /\ m = c + 1
  BY <1>n
<1>1. PICK e, b : e = Swap(a, 0, c) /\ b = Adjust(e, 0, c, f)  OBVIOUS
<1>a. /\ a \in [1..N -> V] /\ Rearranged(a, d, N, 0, N)
      /\ HeapFrom(Keys(a, N, f), 0, m \div 2) /\ Top(Keys(a, N, f), m) /\ TailSorted(Keys(a, N, f), m, N)
  BY DEF SortState
<1>b. Array(a, N, V, f)  BY <1>n, <1>a DEF Array
<1>c. /\ Array(e, N, V, f) /\ Rearranged(e, a, N, 0, m)
      /\ Exchanged(Keys(e, N, f), Keys(a, N, f), 0, c)
  <2>1. BothWithin(N, 0, m, 0, c)  BY <1>n, <1>0 DEF BothWithin
  <2>2. PICK z : z = 0  OBVIOUS
  <2>3. BothWithin(N, z, m, z, c) /\ e = Swap(a, z, c)  BY <1>1, <2>1, <2>2
  <2>4. /\ Array(e, N, V, f) /\ Rearranged(e, a, N, z, m)
        /\ Exchanged(Keys(e, N, f), Keys(a, N, f), z, c)
    BY <1>b, <2>3, SwapIs
  <2> QED BY <2>2, <2>4
<1>k. PICK k : k = Keys(a, N, f) /\ k \in [0..(N - 1) -> Int] /\ \A p \in 0..(N - 1) : k[p] = a[p + 1][f]
  BY ONLY <1>b, KeysType
<1>j. PICK j : j = Keys(e, N, f) /\ j \in [0..(N - 1) -> Int] /\ \A p \in 0..(N - 1) : j[p] = e[p + 1][f]
  BY ONLY <1>c, KeysType
<1>2. /\ HeapFrom(k, 0, m \div 2) /\ Top(k, m) /\ TailSorted(k, m, N)  BY <1>a, <1>k
<1>3. /\ j[0] = k[c] /\ j[c] = k[0] /\ \A p \in 0..(N - 1) : p # 0 /\ p # c => j[p] = k[p]
  <2>1. j = [k EXCEPT ![0] = k[c], ![c] = k[0]]  BY <1>c, <1>j, <1>k DEF Exchanged
  <2> QED BY <1>0, <1>k, <2>1
\* The largest of the heap is in its place now.
<1>4. TailSorted(j, c, N)
  <2>0. /\ \A p, q \in m..(N - 1) : p <= q => k[p] <= k[q]
        /\ \A p \in 0..(m - 1), q \in m..(N - 1) : k[p] <= k[q]
    BY <1>2 DEF TailSorted
  <2>t. \A p \in 0..(m - 1) : k[p] <= k[0]  BY <1>2 DEF Top
  <2>z. 0 \in 0..(m - 1) /\ c \in 0..(m - 1)  BY <1>0
  <2>1. ASSUME NEW p \in c..(N - 1), NEW q \in c..(N - 1), p <= q PROVE j[p] <= j[q]
    <3>1. p \in 0..(N - 1) /\ q \in 0..(N - 1) /\ p # 0 /\ q # 0  BY <1>n, <1>0
    <3>2. p = c \/ p \in m..(N - 1)  BY <1>0
    <3>3. q = c \/ q \in m..(N - 1)  BY <1>0
    <3>4. CASE p = c /\ q = c  BY <1>0, <1>j, <3>4
    <3>5. CASE p = c /\ q # c
      <4>1. k[0] <= k[q]  BY <2>0, <2>z, <3>3, <3>5
      <4> QED BY <1>3, <3>1, <3>5, <4>1
    <3>6. CASE p # c
      <4>1. q # c  BY <1>0, <2>1, <3>2, <3>6
      <4>2. k[p] <= k[q]  BY <2>0, <2>1, <3>2, <3>3, <3>6, <4>1
      <4> QED BY <1>3, <3>1, <3>6, <4>1, <4>2
    <3> QED BY <3>4, <3>5, <3>6
  <2>2. ASSUME NEW p \in 0..(c - 1), NEW q \in c..(N - 1) PROVE j[p] <= j[q]
    <3>1. PICK r \in 0..(m - 1) : j[p] = k[r]
      <4>1. p \in 0..(m - 1) /\ p \in 0..(N - 1) /\ p # c  BY <1>n, <1>0
      <4> QED BY <1>3, <2>z, <4>1
    <3>2. CASE q = c  BY <1>3, <2>t, <3>1, <3>2
    <3>3. CASE q # c
      <4>1. q \in m..(N - 1) /\ q \in 0..(N - 1) /\ q # 0  BY <1>n, <1>0, <3>3
      <4> QED BY <1>3, <2>0, <3>1, <3>3, <4>1
    <3> QED BY <3>2, <3>3
  <2> QED BY <2>1, <2>2 DEF TailSorted
<1>h. PICK h \in Nat : h = c \div 2 /\ (c = 2 * h \/ c = 2 * h + 1)
  <2>1. c \div 2 \in Nat /\ (c = 2 * (c \div 2) \/ c = 2 * (c \div 2) + 1)  BY <1>0
  <2> QED BY <2>1
<1>5. HeapFrom(j, 1, h)
  <2> SUFFICES ASSUME NEW p \in 1..(h - 1) PROVE j[2 * p] <= j[p] /\ j[2 * p + 1] <= j[p]
    BY DEF HeapFrom
  <2>1. p \in 0..((m \div 2) - 1)  BY <1>0, <1>h
  <2>2. k[2 * p] <= k[p] /\ k[2 * p + 1] <= k[p]  BY <1>2, <2>1 DEF HeapFrom
  <2>3. /\ p \in 0..(N - 1) /\ 2 * p \in 0..(N - 1) /\ 2 * p + 1 \in 0..(N - 1)
        /\ p # 0 /\ p # c /\ 2 * p # 0 /\ 2 * p # c /\ 2 * p + 1 # 0 /\ 2 * p + 1 # c
    BY <1>n, <1>0, <1>h
  <2> QED BY <1>3, <2>2, <2>3
<1>6. Array(b, N, V, f) /\ Rearranged(b, e, N, 0, 2 * h) /\ HeapFrom(Keys(b, N, f), 0, h)
  <2>1. PICK z \in 0..(N - 1) : z = 0  BY <1>0
  <2>2. HeapFrom(Keys(e, N, f), z + 1, h)  BY <1>5, <1>j, <2>1
  <2>3. b = Adjust(e, z, c, f)  BY <1>1, <2>1
  <2>4. Array(b, N, V, f) /\ Rearranged(b, e, N, z, 2 * h) /\ HeapFrom(Keys(b, N, f), z, h)
    BY <1>0, <1>c, <1>h, <2>2, <2>3, AdjustIs
  <2> QED BY <2>1, <2>4
<1>l. PICK l : l = Keys(b, N, f) /\ l \in [0..(N - 1) -> Int] /\ \A p \in 0..(N - 1) : l[p] = b[p + 1][f]
  BY ONLY <1>6, KeysType
<1>x. PICK z \in Int, hh \in Int : z = 0 /\ hh = 2 * h /\ hh <= c /\ c \in Int /\ N \in Int /\ m \in Int
                                   /\ c <= N /\ m <= N /\ z <= z
  BY <1>n, <1>0, <1>h
<1>7. Rearranged(b, e, N, z, hh) /\ Rearranged(b, e, N, z, c) /\ Rearranged(b, e, N, z, N)
  <2>1. Rearranged(b, e, N, z, hh)  BY <1>6, <1>x
  <2>2. Rearranged(b, e, N, z, c)  BY <1>n, <1>x, <2>1, RearrangedWithin
  <2>3. Rearranged(b, e, N, z, N)  BY <1>n, <1>x, <2>2, RearrangedWithin
  <2> QED BY <2>1, <2>2, <2>3
<1>8. Rearranged(b, d, N, 0, N)
  <2>1. Rearranged(e, a, N, z, m)  BY <1>c, <1>x
  <2>2. Rearranged(e, a, N, z, N)  BY <1>n, <1>x, <2>1, RearrangedWithin
  <2>3. Rearranged(b, a, N, z, N)  BY <1>n, <1>7, <2>2, RearrangedTwice
  <2>4. Rearranged(a, d, N, z, N)  BY <1>a, <1>x
  <2>5. Rearranged(b, d, N, z, N)  BY <1>n, <2>3, <2>4, RearrangedTwice
  <2> QED BY <1>x, <2>5
<1>9. TailSorted(l, c, N)
  <2>1. Rearranged(b, e, N, 0, c)  BY <1>7, <1>x
  <2>2. TailSorted(Keys(e, N, f), c, N)  BY <1>4, <1>j
  <2>3. TailSorted(Keys(b, N, f), c, N)  BY <1>0, <1>6, <1>c, <2>1, <2>2, TailStays
  <2> QED BY <1>l, <2>3
<1>10. \A p \in 0..(2 * h - 1) : l[p] <= l[0]
  <2>1. PICK z2 \in {0, 1} : z2 = 0  OBVIOUS
  <2>2. HeapFrom(l, z2, h) /\ 2 * h <= N  BY <1>0, <1>6, <1>h, <1>l, <1>n, <2>1
  <2>3. \A p \in z2..(2 * h - 1) : l[p] <= l[z2]  BY <1>n, <1>h, <1>l, <2>2, TopOf
  <2> QED BY <2>1, <2>3
\* Of an odd number, the last is a child of one that is in the heap.
<1>11. ASSUME c = 2 * h + 1 PROVE l[2 * h] <= l[0]
  <2>1. CASE h = 0
    <3>1. l[0] \in Int  BY <1>0, <1>l
    <3> QED BY <2>1, <3>1
  <2>2. CASE h # 0
    <3>1. h \in 0..((m \div 2) - 1)  BY <1>0, <1>11
    <3>2. k[2 * h] <= k[h]  BY <1>2, <3>1 DEF HeapFrom
    <3>3. /\ 2 * h \in 0..(N - 1) /\ h \in 0..(N - 1) /\ h + 1 \in 1..N /\ 2 * h + 1 \in 1..N
          /\ h # 0 /\ h # c /\ 2 * h # 0 /\ 2 * h # c /\ 0 < h + 1 /\ h + 1 <= 2 * h
      BY <1>n, <1>0, <1>11, <2>2
    <3>4. j[2 * h] = k[2 * h] /\ j[h] = k[h]  BY <1>3, <3>3
    <3>5. Inside(b, e, N, z, hh)  BY <1>n, <1>7, <1>x, RearrangedInside
    <3>6. b[2 * h + 1] = e[2 * h + 1]
      <4>1. 2 * h + 1 > hh  BY <1>x
      <4> QED BY <3>3, <3>5, <4>1 DEF Inside
    <3>7. PICK x \in 1..N : b[x] = e[h + 1] /\ 0 < x /\ x <= 2 * h
      <4>1. z < h + 1 /\ h + 1 <= hh  BY <1>x, <3>3
      <4>2. PICK x \in 1..N : b[x] = e[h + 1] /\ z < x /\ x <= hh  BY <3>3, <3>5, <4>1 DEF Inside
      <4> QED BY <1>x, <4>2
    <3>8. l[2 * h] = j[2 * h]  BY <1>j, <1>l, <3>3, <3>6
    <3>9. PICK p : p = x - 1  OBVIOUS
    <3>10. p \in 0..(2 * h - 1) /\ p \in 0..(N - 1) /\ p + 1 = x  BY <1>n, <3>7, <3>9
    <3>11. l[p] = j[h]
      <4>1. l[p] = b[x][f]  BY <1>l, <3>10
      <4>2. j[h] = e[h + 1][f]  BY <1>j, <3>3
      <4> QED BY <3>7, <4>1, <4>2
    <3>12. l[p] <= l[0]  BY <1>10, <3>10
    <3>13. l[p] \in Int /\ l[0] \in Int /\ l[2 * h] \in Int  BY <1>0, <1>l, <3>3, <3>10
    <3> QED BY <3>2, <3>4, <3>8, <3>11, <3>12, <3>13
  <2> QED BY <2>1, <2>2
<1>12. Top(l, c)
  <2>1. \A p \in 0..(c - 1) : p \in 0..(2 * h - 1) \/ (c = 2 * h + 1 /\ p = 2 * h)  BY <1>0, <1>h
  <2> QED BY <1>10, <1>11, <2>1 DEF Top
<1>13. b \in [1..N -> V]  BY <1>6 DEF Array
<1>14. HeapFrom(l, 0, c \div 2)  BY <1>6, <1>h, <1>l
<1> QED BY <1>1, <1>8, <1>9, <1>12, <1>13, <1>14, <1>l DEF SortState

\* What the recursive function of Sort satisfies.
SortLoop(it, d, N, f) ==
  it = [n \in 0..(N - 1) |-> IF n = 0 THEN d ELSE Adjust(Swap(it[n - 1], 0, N - n), 0, N - n, f)]

\* Sort ends with what that function holds last.
LEMMA HeapSortChosen ==
  ASSUME NEW d, NEW f
  PROVE  HeapSort(d, f) = (CHOOSE it : SortLoop(it, d, Len(d), f))[Len(d) - 1]
BY Zenon DEF HeapSort, SortLoop

\* The rows are in the order of the field.
InOrder(b, N, f) == \A x, y \in 1..N : x <= y => b[x][f] <= b[y][f]

\* Sort puts a heap of an even number of rows in their order.
LEMMA HeapSortIs ==
  ASSUME NEW N, NEW V, NEW f, NEW d, Array(d, N, V, f), NEW half \in Nat, N = 2 * half, half > 0,
         HeapFrom(Keys(d, N, f), 0, half)
  PROVE  /\ Array(HeapSort(d, f), N, V, f) /\ Rearranged(HeapSort(d, f), d, N, 0, N)
         /\ InOrder(HeapSort(d, f), N, f)
<1>n. N \in Nat /\ d \in [1..N -> V] /\ Len(d) = N  BY ArrayIsSeq
<1>v. \A v \in V : v[f] \in Int  BY DEF Array
<1> DEFINE H == N - 1
           Inv == [n \in 0..H |-> SortState(d, N, V, f, N - n)]
           T == UNION {Inv[n] : n \in 0..H}
           body(b, n) == Adjust(Swap(b, 0, N - n), 0, N - n, f)
           step == [p \in (1..H) \X T |-> body(p[2], p[1])]
<1>h. H \in Nat /\ H \in 0..H /\ 0 \in 0..H  BY <1>n
<1>1. d \in SortState(d, N, V, f, N)
  <2>1. Rearranged(d, d, N, 0, N)  BY <1>n, RearrangedNot
  <2>k. PICK k : k = Keys(d, N, f) /\ k \in [0..(N - 1) -> Int]  BY ONLY Array(d, N, V, f), KeysType
  <2>2. N \div 2 = half  BY <1>n
  <2>3. Top(k, N)
    <3>1. PICK z \in {0, 1} : z = 0  OBVIOUS
    <3>2. HeapFrom(k, z, half) /\ 2 * half <= N  BY <1>n, <2>k, <3>1
    <3>3. \A p \in z..(2 * half - 1) : k[p] <= k[z]  BY <1>n, <2>k, <3>2, TopOf
    <3> QED BY <3>1, <3>3 DEF Top
  <2>4. TailSorted(k, N, N)  BY <1>n DEF TailSorted
  <2> QED BY <1>n, <2>1, <2>k, <2>2, <2>3, <2>4 DEF SortState
<1>i. d \in Inv[0] /\ Inv[H] = SortState(d, N, V, f, 1)
  <2>1. N - 0 = N /\ N - H = 1  BY <1>n
  <2> HIDE DEF H
  <2> QED BY <1>1, <1>h, <2>1
<1>3. \A n \in 1..H : \A b \in Inv[n - 1] : b \in T /\ body(b, n) \in Inv[n] /\ step[<<n, b>>] = body(b, n)
  <2> TAKE n \in 1..H
  <2> TAKE b \in Inv[n - 1]
  <2>1. n - 1 \in 0..H /\ n \in 0..H  BY <1>h
  <2>2. PICK m \in 2..N, c \in 1..(N - 1) : m = N - (n - 1) /\ c = N - n /\ c = m - 1
    <3>0. n \in Int /\ 1 <= n /\ n <= N - 1  OBVIOUS
    <3> HIDE DEF H
    <3>1. N - (n - 1) \in 2..N /\ N - n = N - (n - 1) - 1  BY <1>n, <3>0
    <3> QED BY <3>1
  <2>3. Inv[n - 1] = SortState(d, N, V, f, m) /\ Inv[n] = SortState(d, N, V, f, c)
    <3> HIDE DEF H
    <3> QED BY <2>1, <2>2
  <2>4. b \in T  BY <2>1
  <2> HIDE DEF Inv, T
  <2>5. Adjust(Swap(b, 0, c), 0, c, f) \in SortState(d, N, V, f, c)  BY <2>2, <2>3, HeapSortTurn
  <2>6. body(b, n) \in Inv[n]  BY <2>2, <2>3, <2>5
  <2> HIDE DEF body, H
  <2> QED BY <2>4, <2>6
<1> HIDE DEF Inv, T, body, H
<1>4. \E it : SortLoop(it, d, N, f)
  <2>1. PICK it : Loop(it, H, d, step) /\ \A n \in 0..H : it[n] \in Inv[n]
    <3> HIDE DEF step
    <3>2. \A n \in 1..H : \A b \in Inv[n - 1] : step[<<n, b>>] \in Inv[n]  BY <1>3
    <3> QED BY <1>h, <1>i, <3>2, LoopExists
  <2> HIDE DEF step
  <2>2. \A n \in 0..H : n # 0 => step[<<n, it[n - 1]>>] = body(it[n - 1], n)
    <3>1. \A n \in 0..H : n # 0 => n \in 1..H /\ n - 1 \in 0..H  BY <1>h
    <3> QED BY <1>3, <2>1, <3>1
  <2>3. it = [n \in 0..H |-> IF n = 0 THEN d ELSE step[<<n, it[n - 1]>>]]  BY <2>1 DEF Loop
  <2>4. it = [n \in 0..H |-> IF n = 0 THEN d ELSE body(it[n - 1], n)]  BY <2>2, <2>3
  <2> QED BY <2>4 DEF SortLoop, H, body
<1>5. PICK it : SortLoop(it, d, N, f) /\ HeapSort(d, f) = it[N - 1]
  BY <1>4, <1>n, HeapSortChosen
<1>6. it = [n \in 0..H |-> IF n = 0 THEN d ELSE body(it[n - 1], n)]  BY <1>5 DEF SortLoop, H, body
<1>7. it[0] \in Inv[0]
  <2>1. it[0] = d  BY <1>h, <1>6
  <2> QED BY <1>i, <2>1
<1>8. \A n \in 1..H : it[n - 1] \in Inv[n - 1] => it[n] \in Inv[n]
  <2> TAKE n \in 1..H
  <2>1. n \in 0..H /\ n # 0  BY <1>h
  <2>2. it[n] = body(it[n - 1], n)  BY <1>6, <2>1
  <2> QED BY <1>3, <2>2
<1>9. \A n \in 0..H : it[n] \in Inv[n]  BY <1>h, <1>7, <1>8, IterationKeeps
<1>10. PICK b, k : b = HeapSort(d, f) /\ k = Keys(b, N, f) /\ b \in SortState(d, N, V, f, 1)
  <2>1. it[H] \in Inv[H]  BY <1>9, <1>h
  <2>2. HeapSort(d, f) = it[H]  BY <1>5 DEF H
  <2> QED BY <1>i, <2>1, <2>2
<1>11. b \in [1..N -> V] /\ Rearranged(b, d, N, 0, N) /\ TailSorted(k, 1, N)  BY <1>10 DEF SortState
<1>12. Array(b, N, V, f)  BY <1>n, <1>v, <1>11 DEF Array
<1>13. InOrder(b, N, f)
  <2>1. k \in [0..(N - 1) -> Int] /\ \A p \in 0..(N - 1) : k[p] = b[p + 1][f]
    <3>1. /\ Keys(b, N, f) \in [0..(N - 1) -> Int]
          /\ \A p \in 0..(N - 1) : Keys(b, N, f)[p] = b[p + 1][f]
      BY ONLY <1>12, KeysType
    <3> QED BY <1>10, <3>1
  <2> SUFFICES ASSUME NEW x \in 1..N, NEW y \in 1..N, x <= y PROVE b[x][f] <= b[y][f]  BY DEF InOrder
  <2>2. PICK p, q : p = x - 1 /\ q = y - 1  OBVIOUS
  <2>3. p \in 0..(N - 1) /\ q \in 0..(N - 1) /\ p + 1 = x /\ q + 1 = y /\ p <= q  BY <1>n, <2>2
  <2>4. k[p] <= k[q]
    <3>1. CASE p = 0 /\ q = 0  BY <2>1, <2>3, <3>1
    <3>2. CASE p = 0 /\ q # 0
      <4>1. p \in 0..(1 - 1) /\ q \in 1..(N - 1)  BY <2>3, <3>2
      <4> QED BY <1>11, <4>1 DEF TailSorted
    <3>3. CASE p # 0
      <4>1. p \in 1..(N - 1) /\ q \in 1..(N - 1)  BY <1>n, <2>3, <3>3
      <4> QED BY <1>11, <2>3, <4>1 DEF TailSorted
    <3> QED BY <3>1, <3>2, <3>3
  <2> QED BY <2>1, <2>3, <2>4
<1> QED BY <1>10, <1>11, <1>12, <1>13

-------------------------------------------------------------------------------
(* The rows that a selection holds. *)

\* The K rows of d are different ones of the first M rows: that at x is that at t[x].
Takes(t, d, K, rows, M) ==
  /\ t \in [1..K -> 1..M]
  /\ \A x, y \in 1..K : t[x] = t[y] => x = y
  /\ \A x \in 1..K : d[x] = rows[t[x]]

\* Each of the first M rows is taken, or at least as large as all that are.
OthersLarger(t, d, K, rows, M, f) ==
  \A y \in 1..M : (\E x \in 1..K : t[x] = y) \/ (\A x \in 1..K : d[x][f] <= rows[y][f])

\* The rows of d are K of the first M rows, and no other one of these is smaller.
Smallest(d, K, rows, M, f) == \E t : Takes(t, d, K, rows, M) /\ OthersLarger(t, d, K, rows, M, f)

\* Their order does not matter.
LEMMA SmallestRearranged ==
  ASSUME NEW K \in Nat, NEW M \in Nat, NEW rows, NEW f, NEW d, NEW b, Smallest(d, K, rows, M, f),
         Rearranged(b, d, K, 0, K)
  PROVE  Smallest(b, K, rows, M, f)
<1>1. PICK t : Takes(t, d, K, rows, M) /\ OthersLarger(t, d, K, rows, M, f)  BY DEF Smallest
<1>2. PICK m : Moves(m, K, 0, K) /\ \A x \in 1..K : b[x] = d[m[x]]  BY DEF Rearranged
<1> DEFINE s == [x \in 1..K |-> t[m[x]]]
<1>3. \A x \in 1..K : m[x] \in 1..K /\ t[x] \in 1..M  BY <1>1, <1>2 DEF Moves, Takes
<1>4. s \in [1..K -> 1..M]  BY <1>3
<1>5. \A x, y \in 1..K : s[x] = s[y] => x = y  BY <1>1, <1>2, <1>3 DEF Moves, Takes
<1>6. \A x \in 1..K : b[x] = rows[s[x]]  BY <1>1, <1>2, <1>3 DEF Takes
<1>7. Takes(s, b, K, rows, M)
  <2> HIDE DEF s
  <2> QED BY <1>4, <1>5, <1>6 DEF Takes
<1>8. OthersLarger(s, b, K, rows, M, f)
  <2> SUFFICES ASSUME NEW y \in 1..M, ~(\A x \in 1..K : b[x][f] <= rows[y][f])
               PROVE  \E x \in 1..K : s[x] = y
    BY DEF OthersLarger
  <2>1. ~(\A x \in 1..K : d[x][f] <= rows[y][f])  BY <1>2, <1>3
  <2>2. PICK z \in 1..K : t[z] = y  BY <1>1, <2>1 DEF OthersLarger
  <2>3. PICK x \in 1..K : m[x] = z  BY <1>2 DEF Moves
  <2> QED BY <2>2, <2>3
<1> QED BY <1>7, <1>8 DEF Smallest

\* The first K rows.
LEMMA SmallestAtFirst ==
  ASSUME NEW K \in Nat, NEW rows, NEW f, NEW d, \A x \in 1..K : d[x] = rows[x]
  PROVE  Smallest(d, K, rows, K, f)
<1> DEFINE t == [x \in 1..K |-> x]
<1>1. Takes(t, d, K, rows, K)  BY DEF Takes
<1>2. OthersLarger(t, d, K, rows, K, f)  BY DEF OthersLarger
<1> QED BY <1>1, <1>2 DEF Smallest

\* A row as large as all of them is left out.
LEMMA SmallestWithout ==
  ASSUME NEW K \in Nat, NEW M \in Nat, NEW rows, NEW f, NEW d, Smallest(d, K, rows, M, f),
         \A x \in 1..K : d[x][f] <= rows[M + 1][f]
  PROVE  Smallest(d, K, rows, M + 1, f)
<1>1. PICK t : Takes(t, d, K, rows, M) /\ OthersLarger(t, d, K, rows, M, f)  BY DEF Smallest
<1>2. \A y \in 1..(M + 1) : y \in 1..M \/ y = M + 1  OBVIOUS
<1>3. Takes(t, d, K, rows, M + 1)
  <2>1. \A x \in 1..K : t[x] \in 1..(M + 1)  BY <1>1 DEF Takes
  <2> QED BY <1>1, <2>1 DEF Takes
<1>4. OthersLarger(t, d, K, rows, M + 1, f)  BY <1>1, <1>2 DEF OthersLarger
<1> QED BY <1>3, <1>4 DEF Smallest

\* A row that is not larger than the largest takes its place.
LEMMA SmallestWith ==
  ASSUME NEW K, NEW M \in Nat, NEW V, NEW f, NEW rows, \A y \in 1..(M + 1) : rows[y] \in V, NEW d, Array(d, K, V, f),
         Smallest(d, K, rows, M, f), K > 0,
         \A x \in 1..K : d[x][f] <= d[1][f], rows[M + 1][f] <= d[1][f],
         NEW e, e = [d EXCEPT ![1] = rows[M + 1]]
  PROVE  Smallest(e, K, rows, M + 1, f)
<1>n. K \in Nat /\ d \in [1..K -> V] /\ \A v \in V : v[f] \in Int  BY DEF Array
<1>0. 1 \in 1..K /\ M + 1 \in 1..(M + 1) /\ M + 1 \notin 1..M /\ 1..M \subseteq 1..(M + 1)  BY <1>n
<1>1. PICK t : Takes(t, d, K, rows, M) /\ OthersLarger(t, d, K, rows, M, f)  BY DEF Smallest
<1>t. t \in [1..K -> 1..M] /\ \A x, y \in 1..K : t[x] = t[y] => x = y  BY <1>1 DEF Takes
<1> DEFINE s == [x \in 1..K |-> IF x = 1 THEN M + 1 ELSE t[x]]
<1>2. s \in [1..K -> 1..(M + 1)]  BY <1>0, <1>t
<1>3. \A x \in 1..K : e[x] = IF x = 1 THEN rows[M + 1] ELSE d[x]  BY <1>n
<1>4. \A x, y \in 1..K : s[x] = s[y] => x = y  BY <1>0, <1>t
<1>5. \A x \in 1..K : e[x] = rows[s[x]]  BY <1>1, <1>3 DEF Takes
<1>6. Takes(s, e, K, rows, M + 1)
  <2> HIDE DEF s
  <2> QED BY <1>2, <1>4, <1>5 DEF Takes
<1>7. \A x \in 1..K : e[x][f] <= d[1][f] /\ e[x][f] \in Int
  <2> TAKE x \in 1..K
  <2>1. rows[M + 1] \in V /\ d[x] \in V  BY <1>0, <1>n
  <2> QED BY <1>3, <1>n, <2>1
<1>8. OthersLarger(s, e, K, rows, M + 1, f)
  <2> SUFFICES ASSUME NEW y \in 1..(M + 1), ~(\E x \in 1..K : s[x] = y), NEW x \in 1..K
               PROVE  e[x][f] <= rows[y][f]
    BY DEF OthersLarger
  <2>1. y # M + 1  BY <1>0
  <2>2. y \in 1..M  BY <2>1
  <2>i. rows[y][f] \in Int /\ d[1][f] \in Int  BY <1>0, <1>n, <2>2
  <2>3. CASE t[1] = y
    <3>1. d[1] = rows[y]  BY <1>0, <1>1, <2>3 DEF Takes
    <3> QED BY <1>7, <3>1
  <2>4. CASE t[1] # y
    <3>1. ~(\E z \in 1..K : t[z] = y)
      <4>1. ASSUME NEW z \in 1..K, t[z] = y PROVE FALSE
        <5>1. s[z] = y  BY <2>4, <4>1
        <5> QED BY <5>1
      <4> QED BY <4>1
    <3>2. d[1][f] <= rows[y][f]  BY <1>0, <1>1, <2>2, <3>1 DEF OthersLarger
    <3> QED BY <1>7, <2>i, <3>2
  <2> QED BY <2>3, <2>4
<1> QED BY <1>6, <1>8 DEF Smallest

\* The heap when M rows have been compared.
TopState(rows, M, K, V, f, half) ==
  {d \in [1..K -> V] : HeapFrom(Keys(d, K, f), 0, half) /\ Smallest(d, K, rows, M, f)}

\* Setop keeps the smallest rows when another row is compared with the top.
LEMMA SetopIs ==
  ASSUME NEW K, NEW V, NEW f, NEW half \in Nat, K = 2 * half, half > 0, NEW M \in Nat, NEW L \in Nat, M < L,
         NEW rows, Array(rows, L, V, f), NEW d \in TopState(rows, M, K, V, f, half)
  PROVE  Setop(d, rows[M + 1], f) \in TopState(rows, M + 1, K, V, f, half)
<1>n. K \in Nat /\ rows \in [1..L -> V] /\ \A v \in V : v[f] \in Int  BY DEF Array
<1>1. d \in [1..K -> V] /\ HeapFrom(Keys(d, K, f), 0, half) /\ Smallest(d, K, rows, M, f)
  BY DEF TopState
<1>2. Array(d, K, V, f)  BY <1>n, <1>1 DEF Array
<1>3. Len(d) = K  BY <1>2, ArrayIsSeq
<1>k. PICK k : k = Keys(d, K, f) /\ k \in [0..(K - 1) -> Int] /\ \A p \in 0..(K - 1) : k[p] = d[p + 1][f]
  BY ONLY <1>2, KeysType
<1>0. 1 \in 1..K /\ 0 \in 0..(K - 1) /\ M + 1 \in 1..L  BY <1>n
<1>4. \A x \in 1..K : d[x][f] <= d[1][f]
  <2>1. PICK z \in {0, 1} : z = 0  OBVIOUS
  <2>2. HeapFrom(k, z, half) /\ 2 * half <= K  BY <1>n, <1>1, <1>k, <2>1
  <2>3. \A p \in z..(2 * half - 1) : k[p] <= k[z]  BY <1>n, <1>k, <2>2, TopOf
  <2>4. ASSUME NEW x \in 1..K PROVE d[x][f] <= d[1][f]
    <3>1. PICK p : p = x - 1  OBVIOUS
    <3>2. p \in 0..(K - 1) /\ p + 1 = x /\ p \in z..(2 * half - 1)  BY <1>n, <2>1, <3>1
    <3>3. k[p] = d[x][f]
      <4>1. k[p] = d[p + 1][f]  BY ONLY <1>k, <3>2
      <4> QED BY ONLY <4>1, <3>2
    <3>4. k[0] = d[1][f]
      <4>1. k[0] = d[0 + 1][f]  BY ONLY <1>k, <1>0
      <4> QED BY ONLY <4>1
    <3>5. k[p] <= k[0]  BY ONLY <2>1, <2>3, <3>2
    <3> QED BY ONLY <3>3, <3>4, <3>5
  <2> QED BY <2>4
<1>r. PICK row : row = rows[M + 1] /\ row \in V /\ row[f] \in Int /\ d[1][f] \in Int  BY <1>n, <1>0, <1>1
<1>5. CASE row[f] > d[1][f]
  <2>1. Setop(d, row, f) = d  BY <1>5 DEF Setop, Compare
  <2>2. \A x \in 1..K : d[x][f] <= rows[M + 1][f]
    <3> TAKE x \in 1..K
    <3>1. d[x] \in V /\ d[x][f] \in Int  BY <1>n, <1>1
    <3> QED BY <1>4, <1>5, <1>r, <3>1
  <2>3. Smallest(d, K, rows, M + 1, f)  BY <1>n, <1>1, <2>2, SmallestWithout
  <2> QED BY <1>1, <1>r, <2>1, <2>3 DEF TopState
<1>6. CASE ~(row[f] > d[1][f])
  <2>1. PICK e, b : e = [d EXCEPT ![1] = row] /\ b = Adjust(e, 0, K, f)  OBVIOUS
  <2>2. Setop(d, row, f) = b  BY <1>3, <1>6, <2>1 DEF Setop, Compare
  <2>3. e \in [1..K -> V]  BY <1>0, <1>1, <1>r, <2>1
  <2>4. Array(e, K, V, f)  BY <1>n, <2>3 DEF Array
  <2>5. Smallest(e, K, rows, M + 1, f)
    <3>1. rows[M + 1][f] <= d[1][f] /\ e = [d EXCEPT ![1] = rows[M + 1]] /\ K > 0  BY <1>6, <1>r, <2>1, <1>n
    <3>2. \A y \in 1..(M + 1) : rows[y] \in V  BY <1>n
    <3> QED BY ONLY <1>1, <1>2, <1>4, <3>1, <3>2, SmallestWith, M \in Nat
  <2>6. HeapFrom(Keys(e, K, f), 1, half)
    <3>1. PICK j : j = Keys(e, K, f) /\ j \in [0..(K - 1) -> Int] /\ \A p \in 0..(K - 1) : j[p] = e[p + 1][f]
      BY ONLY <2>4, KeysType
    <3>2. \A p \in 0..(K - 1) : p # 0 => j[p] = k[p]
      <4> TAKE p \in 0..(K - 1)
      <4>1. p # 0 => p + 1 \in 1..K /\ p + 1 # 1  BY <1>n
      <4>2. p # 0 => e[p + 1] = d[p + 1]  BY <1>1, <2>1, <4>1
      <4> QED BY <1>k, <3>1, <4>2
    <3>3. ASSUME NEW p \in 1..(half - 1) PROVE j[2 * p] <= j[p] /\ j[2 * p + 1] <= j[p]
      <4>1. k[2 * p] <= k[p] /\ k[2 * p + 1] <= k[p]  BY <1>1, <1>k DEF HeapFrom
      <4>2. p \in 0..(K - 1) /\ 2 * p \in 0..(K - 1) /\ 2 * p + 1 \in 0..(K - 1) /\ p # 0 /\ 2 * p # 0 /\ 2 * p + 1 # 0
        BY <1>n
      <4> QED BY <3>2, <4>1, <4>2
    <3> QED BY <3>1, <3>3 DEF HeapFrom
  <2>7. Array(b, K, V, f) /\ Rearranged(b, e, K, 0, 2 * half) /\ HeapFrom(Keys(b, K, f), 0, half)
    <3>1. PICK z \in 0..(K - 1) : z = 0  BY <1>0
    <3>2. HeapFrom(Keys(e, K, f), z + 1, half) /\ K \in 0..K /\ half = K \div 2  BY <1>n, <2>6, <3>1
    <3>3. b = Adjust(e, z, K, f)  BY <2>1, <3>1
    <3>4. Array(b, K, V, f) /\ Rearranged(b, e, K, z, 2 * half) /\ HeapFrom(Keys(b, K, f), z, half)
      BY ONLY <2>4, <3>2, <3>3, AdjustIs, half \in Nat, z \in 0..(K - 1)
    <3> QED BY <3>1, <3>4
  <2>8. Smallest(b, K, rows, M + 1, f)
    <3>1. PICK P \in Nat : P = M + 1  OBVIOUS
    <3>2. Smallest(e, K, rows, P, f) /\ Rearranged(b, e, K, 0, K)  BY <2>5, <2>7, <3>1
    <3>3. Smallest(b, K, rows, P, f)  BY <1>n, <3>2, SmallestRearranged
    <3> QED BY <3>1, <3>3
  <2> QED BY <1>r, <2>2, <2>7, <2>8 DEF TopState, Array
<1> QED BY <1>5, <1>6

\* A sequence of N values.
IsRow(s, N, V) == N \in Nat /\ s \in [1..N -> V]

\* The places m to n are Q places of it.
Within(N, m, n, Q) == m \in Nat /\ n \in Nat /\ 1 <= m /\ m <= n /\ n <= N /\ Q = n - m + 1

\* The sequence q has the values at the Q places from m on.
PartOf(q, s, V, m, Q) == q \in [1..Q -> V] /\ Len(q) = Q /\ \A i \in 1..Q : q[i] = s[m + i - 1]

\* The places m to n.
LEMMA SliceIs ==
  ASSUME NEW V, NEW N, NEW s, IsRow(s, N, V), NEW m, NEW n, NEW Q, Within(N, m, n, Q)
  PROVE  PartOf(SubSeq(s, m, n), s, V, m, Q)
<1>0. /\ N \in Nat /\ s \in [1..N -> V]
      /\ m \in Nat /\ n \in Nat /\ 1 <= m /\ m <= n /\ n <= N /\ Q = n - m + 1
  BY DEF IsRow, Within
<1>1. \A i \in m..n : s[i] \in V  BY <1>0
<1>2. m \in Int /\ n \in Int  BY <1>0
<1>s. /\ SubSeq(s, m, n) \in Seq(V)
      /\ Len(SubSeq(s, m, n)) = IF m <= n THEN n - m + 1 ELSE 0
      /\ \A i \in 1 .. n - m + 1 : SubSeq(s, m, n)[i] = s[m + i - 1]
  BY ONLY <1>1, <1>2, SubSeqProperties
<1>3. PICK q : q = SubSeq(s, m, n)  OBVIOUS
<1>4. q \in Seq(V) /\ Len(q) = Q /\ \A i \in 1..Q : q[i] = s[m + i - 1]  BY <1>0, <1>s, <1>3
<1>5. q \in [1..Q -> V]
  <2>1. q \in [1..Len(q) -> V]  BY ONLY <1>4, LenProperties
  <2> QED BY <1>4, <2>1
<1> QED BY <1>0, <1>3, <1>4, <1>5 DEF PartOf

\* What the recursive function of Run satisfies.
TopLoop(it, rows, k, f) ==
  it = [n \in 0..(Len(rows) - k - 1) |->
          IF n = 0 THEN Heapify(SubSeq(rows, 1, k + 1), f) ELSE Setop(it[n - 1], rows[k + 1 + n], f)]

\* Run sorts what that function holds last.
LEMMA TopkChosen ==
  ASSUME NEW rows, NEW k, NEW f
  PROVE  Topk(rows, k, f) = HeapSort((CHOOSE it : TopLoop(it, rows, k, f))[Len(rows) - k - 1], f)
BY Zenon DEF Topk, TopLoop

\* The heap of an even number of rows selects the smallest, in their order.
LEMMA TopkIs ==
  ASSUME NEW V, NEW f, NEW L, NEW rows, Array(rows, L, V, f), NEW k \in Nat, NEW K, K = k + 1,
         NEW half \in Nat, K = 2 * half, half > 0, K <= L
  PROVE  /\ Array(Topk(rows, k, f), K, V, f) /\ InOrder(Topk(rows, k, f), K, f)
         /\ Smallest(Topk(rows, k, f), K, rows, L, f)
<1>n. L \in Nat /\ rows \in [1..L -> V] /\ rows \in Seq(V) /\ Len(rows) = L  BY ArrayIsSeq
<1>v. \A v \in V : v[f] \in Int  BY DEF Array
<1>K. K \in Nat /\ K = 2 * half /\ half = K \div 2 /\ K > 0  OBVIOUS
<1> DEFINE H == L - k - 1
           d == SubSeq(rows, 1, k + 1)
           x == Heapify(d, f)
           Inv == [n \in 0..H |-> TopState(rows, K + n, K, V, f, half)]
           T == UNION {Inv[n] : n \in 0..H}
           body(b, n) == Setop(b, rows[k + 1 + n], f)
           step == [p \in (1..H) \X T |-> body(p[2], p[1])]
<1>h. H \in Nat /\ H \in 0..H /\ 0 \in 0..H /\ K + H = L  BY <1>n
<1>d. d \in [1..K -> V] /\ \A z \in 1..K : d[z] = rows[z]
  <2>1. PICK m, n : m = 1 /\ n = k + 1 /\ Within(L, m, n, K)  BY <1>n, <1>K DEF Within
  <2>a. IsRow(rows, L, V)  BY <1>n DEF IsRow
  <2>2. PartOf(SubSeq(rows, m, n), rows, V, m, K)  BY <2>1, <2>a, SliceIs
  <2>3. \A z \in 1..K : 1 + z - 1 = z  BY <1>K
  <2> HIDE DEF d
  <2> QED BY <2>1, <2>2, <2>3 DEF d, PartOf
<1>e. Array(d, K, V, f)  BY <1>v, <1>d, <1>K DEF Array
<1>1. x \in TopState(rows, K, K, V, f, half)
  <2> HIDE DEF d
  <2>1. x \in HeapState(d, K, V, f, 0, half)  BY ONLY <1>K, <1>e, HeapifyIs, half \in Nat
  <2>2. x \in [1..K -> V] /\ Rearranged(x, d, K, 0, K) /\ HeapFrom(Keys(x, K, f), 0, half)
    BY <2>1 DEF HeapState
  <2>3. Smallest(d, K, rows, K, f)  BY <1>d, <1>K, SmallestAtFirst
  <2>4. Smallest(x, K, rows, K, f)  BY <1>K, <2>2, <2>3, SmallestRearranged
  <2> HIDE DEF x
  <2> QED BY <2>2, <2>4 DEF TopState
<1>i. x \in Inv[0] /\ Inv[H] = TopState(rows, L, K, V, f, half)
  <2>1. K + 0 = K  BY <1>K
  <2> HIDE DEF H, x
  <2> QED BY <1>1, <1>h, <2>1
<1>3. \A n \in 1..H : \A b \in Inv[n - 1] : b \in T /\ body(b, n) \in Inv[n] /\ step[<<n, b>>] = body(b, n)
  <2> TAKE n \in 1..H
  <2> TAKE b \in Inv[n - 1]
  <2>1. n - 1 \in 0..H /\ n \in 0..H  BY <1>h
  <2>2. PICK M \in Nat : M = K + (n - 1) /\ M + 1 = K + n /\ M < L /\ k + 1 + n = M + 1
    <3>0. n \in Int /\ 1 <= n /\ n <= L - k - 1  OBVIOUS
    <3> HIDE DEF H
    <3>1. K + (n - 1) \in Nat /\ K + (n - 1) + 1 = K + n /\ K + (n - 1) < L /\ k + 1 + n = K + (n - 1) + 1
      BY <1>n, <1>K, <3>0
    <3> QED BY <3>1
  <2>3. Inv[n - 1] = TopState(rows, M, K, V, f, half) /\ Inv[n] = TopState(rows, M + 1, K, V, f, half)
    <3> HIDE DEF H
    <3> QED BY <2>1, <2>2
  <2>4. b \in T  BY <2>1
  <2> HIDE DEF Inv, T
  <2>5. Setop(b, rows[M + 1], f) \in TopState(rows, M + 1, K, V, f, half)
    <3>1. b \in TopState(rows, M, K, V, f, half)  BY <2>3
    <3> QED BY ONLY <1>n, <1>K, <2>2, <3>1, SetopIs, Array(rows, L, V, f), half \in Nat, half > 0
  <2>6. body(b, n) \in Inv[n]  BY <2>2, <2>3, <2>5
  <2> HIDE DEF body, H
  <2> QED BY <2>4, <2>6
<1> HIDE DEF Inv, T, body, H
<1>4. \E it : TopLoop(it, rows, k, f)
  <2>1. PICK it : Loop(it, H, x, step) /\ \A n \in 0..H : it[n] \in Inv[n]
    <3> HIDE DEF step, x
    <3>2. \A n \in 1..H : \A b \in Inv[n - 1] : step[<<n, b>>] \in Inv[n]  BY <1>3
    <3> QED BY <1>h, <1>i, <3>2, LoopExists
  <2> HIDE DEF step, x
  <2>2. \A n \in 0..H : n # 0 => step[<<n, it[n - 1]>>] = body(it[n - 1], n)
    <3>1. \A n \in 0..H : n # 0 => n \in 1..H /\ n - 1 \in 0..H  BY <1>h
    <3> QED BY <1>3, <2>1, <3>1
  <2>3. it = [n \in 0..H |-> IF n = 0 THEN x ELSE step[<<n, it[n - 1]>>]]  BY <2>1 DEF Loop
  <2>4. it = [n \in 0..H |-> IF n = 0 THEN x ELSE body(it[n - 1], n)]  BY <2>2, <2>3
  <2> QED BY <1>n, <2>4 DEF TopLoop, H, body, x, d
<1>5. PICK it : TopLoop(it, rows, k, f) /\ Topk(rows, k, f) = HeapSort(it[H], f)
  BY <1>4, <1>n, TopkChosen DEF H
<1>6. it = [n \in 0..H |-> IF n = 0 THEN x ELSE body(it[n - 1], n)]
  BY <1>5, <1>n DEF TopLoop, H, body, x, d
<1> HIDE DEF x, d
<1>7. it[0] \in Inv[0]
  <2>1. it[0] = x  BY <1>h, <1>6
  <2> QED BY <1>i, <2>1
<1>8. \A n \in 1..H : it[n - 1] \in Inv[n - 1] => it[n] \in Inv[n]
  <2> TAKE n \in 1..H
  <2>1. n \in 0..H /\ n # 0  BY <1>h
  <2>2. it[n] = body(it[n - 1], n)  BY <1>6, <2>1
  <2> QED BY <1>3, <2>2
<1>9. it[H] \in TopState(rows, L, K, V, f, half)
  <2>1. \A n \in 0..H : it[n] \in Inv[n]  BY <1>h, <1>7, <1>8, IterationKeeps
  <2> QED BY <1>h, <1>i, <2>1
<1>10. PICK t, b : t = it[H] /\ b = HeapSort(t, f)  OBVIOUS
<1>11. t \in [1..K -> V] /\ HeapFrom(Keys(t, K, f), 0, half) /\ Smallest(t, K, rows, L, f)
  BY <1>9, <1>10 DEF TopState
<1>12. Array(t, K, V, f)  BY <1>K, <1>v, <1>11 DEF Array
<1>13. Array(b, K, V, f) /\ Rearranged(b, t, K, 0, K) /\ InOrder(b, K, f)
  BY ONLY <1>K, <1>10, <1>11, <1>12, HeapSortIs, half \in Nat, half > 0
<1>14. Smallest(b, K, rows, L, f)  BY <1>K, <1>n, <1>11, <1>13, SmallestRearranged
<1> QED BY <1>5, <1>10, <1>13, <1>14

-------------------------------------------------------------------------------
(* Ranks. *)

\* The smallest rows in their order have the first ranks.
LEMMA RankIs ==
  ASSUME NEW K, NEW L, NEW V, NEW f, NEW h, Array(h, K, V, f), NEW rows, Array(rows, L, V, f),
         Smallest(h, K, rows, L, f), InOrder(h, K, f), NEW p \in 1..K
  PROVE  HasRank(h[p], p, rows, f)
<1>n. K \in Nat /\ L \in Nat /\ h \in [1..K -> V] /\ rows \in [1..L -> V] /\ \A v \in V : v[f] \in Int
  BY DEF Array
<1>1. PICK t : Takes(t, h, K, rows, L) /\ OthersLarger(t, h, K, rows, L, f)  BY DEF Smallest
<1>t. /\ t \in [1..K -> 1..L] /\ \A x, y \in 1..K : t[x] = t[y] => x = y
      /\ \A x \in 1..K : h[x] = rows[t[x]]
  BY <1>1 DEF Takes
<1> DEFINE fewer == {i \in DOMAIN rows : rows[i][f] < h[p][f]}
           most  == {i \in DOMAIN rows : rows[i][f] <= h[p][f]}
           im    == {t[x] : x \in 1..(p - 1)}
           g     == [x \in 1..(p - 1) |-> t[x]]
           e     == [x \in 1..p |-> t[x]]
<1>p. p \in Nat /\ 1 \in Int /\ p \in Int /\ p - 1 \in Int /\ p >= 1 /\ DOMAIN rows = 1..L  BY <1>n
<1>i. /\ IsFiniteSet(1..(p - 1)) /\ Cardinality(1..(p - 1)) = p - 1
      /\ IsFiniteSet(1..p) /\ Cardinality(1..p) = p /\ IsFiniteSet(1..L)
  <2>1. IsFiniteSet(1..(p - 1)) /\ Cardinality(1..(p - 1)) = IF 1 > p - 1 THEN 0 ELSE (p - 1) - 1 + 1
    BY ONLY <1>p, FS_Interval
  <2>2. IsFiniteSet(1..p) /\ Cardinality(1..p) = IF 1 > p THEN 0 ELSE p - 1 + 1
    BY ONLY <1>p, FS_Interval
  <2>3. IsFiniteSet(1..L)  BY <1>n, FS_Interval
  <2> QED BY <1>p, <2>1, <2>2, <2>3
<1>2. fewer \subseteq im
  <2> SUFFICES ASSUME NEW i \in 1..L, rows[i][f] < h[p][f] PROVE \E x \in 1..(p - 1) : t[x] = i
    BY <1>p
  <2>1. rows[i][f] \in Int /\ h[p][f] \in Int  BY <1>n
  <2>2. ~(h[p][f] <= rows[i][f])  BY <2>1
  <2>3. PICK x \in 1..K : t[x] = i  BY <1>1, <2>2 DEF OthersLarger
  <2>4. ~(p <= x)
    <3>1. h[x] = rows[i]  BY <1>t, <2>3
    <3> QED BY <2>2, <3>1 DEF InOrder
  <2> QED BY <2>3, <2>4
<1>3. IsFiniteSet(im) /\ Cardinality(im) <= p - 1
  <2>1. g \in Surjection(1..(p - 1), im)  BY DEF Surjection
  <2> HIDE DEF g, im
  <2> QED BY <1>i, <2>1, FS_Surjection
<1>4. Cardinality(fewer) < p
  <2>1. Cardinality(fewer) <= Cardinality(im) /\ Cardinality(fewer) \in Nat /\ Cardinality(im) \in Nat
    <3> HIDE DEF fewer, im
    <3> QED BY <1>2, <1>3, FS_Subset, FS_CardinalityType
  <2> HIDE DEF fewer, im
  <2> QED BY <1>3, <1>p, <2>1
<1>5. e \in Injection(1..p, most)
  <2>1. \A x \in 1..p : x \in 1..K /\ t[x] \in 1..L /\ rows[t[x]][f] <= h[p][f]
    <3> TAKE x \in 1..p
    <3>1. x \in 1..K /\ x <= p  BY <1>n
    <3>2. h[x][f] <= h[p][f]  BY <3>1 DEF InOrder
    <3> QED BY <1>t, <3>1, <3>2
  <2>2. e \in [1..p -> most]  BY <1>p, <2>1
  <2>3. \A x, y \in 1..p : e[x] = e[y] => x = y  BY <1>t, <2>1
  <2> HIDE DEF e, most
  <2> QED BY <2>2, <2>3 DEF Injection, IsInjective
<1>6. IsFiniteSet(most)
  <2>1. most \subseteq 1..L  BY <1>p
  <2> HIDE DEF most
  <2> QED BY <1>i, <2>1, FS_Subset
<1>7. p <= Cardinality(most)
  <2> HIDE DEF e, most
  <2> QED BY <1>5, <1>6, <1>i, FS_Injection
<1> QED BY <1>4, <1>7 DEF HasRank

\* What is taken is taken no more often than it is there.
LEMMA OccursNoMore ==
  ASSUME NEW K, NEW L, NEW V, NEW f, NEW h, Array(h, K, V, f), NEW rows, Array(rows, L, V, f),
         Smallest(h, K, rows, L, f), NEW Q \in Nat, NEW start \in Nat, start + Q <= K,
         NEW page, page \in [1..Q -> V], \A i \in 1..Q : page[i] = h[start + i], NEW row
  PROVE  Occurrences(page, row) <= Occurrences(rows, row)
<1>n. K \in Nat /\ L \in Nat /\ h \in [1..K -> V] /\ rows \in [1..L -> V]  BY DEF Array
<1>1. PICK t : Takes(t, h, K, rows, L)  BY DEF Smallest
<1>t. /\ t \in [1..K -> 1..L] /\ \A x, y \in 1..K : t[x] = t[y] => x = y
      /\ \A x \in 1..K : h[x] = rows[t[x]]
  BY <1>1 DEF Takes
<1> DEFINE A == {i \in DOMAIN page : page[i] = row}
           B == {i \in DOMAIN rows : rows[i] = row}
           e == [i \in A |-> t[start + i]]
<1>2. DOMAIN page = 1..Q /\ DOMAIN rows = 1..L  BY <1>n
<1>3. \A i \in A : start + i \in 1..K /\ t[start + i] \in B
  <2> TAKE i \in A
  <2>1. i \in 1..Q /\ page[i] = row  BY <1>2
  <2>2. start + i \in 1..K  BY <1>n, <2>1
  <2> QED BY <1>2, <1>t, <2>1, <2>2
<1>4. \A i, k \in A : e[i] = e[k] => i = k
  <2> TAKE i, k \in A
  <2> HAVE e[i] = e[k]
  <2>1. start + i = start + k  BY <1>3, <1>t
  <2>2. i \in Int /\ k \in Int  BY <1>2
  <2> QED BY <2>1, <2>2
<1>5. e \in Injection(A, B)
  <2>1. e \in [A -> B]  BY <1>3
  <2> HIDE DEF A, B, e
  <2> QED BY <1>4, <2>1 DEF Injection, IsInjective
<1>6. IsFiniteSet(B)
  <2>1. B \subseteq 1..L /\ IsFiniteSet(1..L)  BY <1>2, <1>n, FS_Interval
  <2> HIDE DEF B
  <2> QED BY <2>1, FS_Subset
<1>7. Cardinality(A) <= Cardinality(B)
  <2> HIDE DEF A, B, e
  <2> QED BY <1>5, <1>6, FS_Injection
<1> QED BY <1>7 DEF Occurrences

\* The indices start to end of the smallest rows.
LEMMA LimitIs ==
  ASSUME NEW K, NEW L, NEW V, NEW f, NEW h, Array(h, K, V, f), NEW rows, Array(rows, L, V, f),
         Smallest(h, K, rows, L, f), InOrder(h, K, f), NEW start \in Nat, NEW end \in Nat, start <= end, end < K
  PROVE  IsSlice(Limit(h, start, end), rows, f, start, end)
<1>n. K \in Nat /\ h \in [1..K -> V] /\ Len(h) = K  BY ArrayIsSeq
<1>1. PICK page, Q : page = SubSeq(h, start + 1, end + 1) /\ Q = (end + 1) - (start + 1) + 1  OBVIOUS
<1>2. Limit(h, start, end) = page  BY <1>1, <1>n DEF Limit
<1>Q. Q \in Nat /\ Q = end - start + 1 /\ start + Q <= K  BY <1>1, <1>n
<1>3. page \in [1..Q -> V] /\ Len(page) = Q /\ \A i \in 1..Q : page[i] = h[start + i]
  <2>1. PICK m, n : m = start + 1 /\ n = end + 1 /\ Within(K, m, n, Q)  BY <1>1, <1>n DEF Within
  <2>a. IsRow(h, K, V)  BY <1>n DEF IsRow
  <2>2. PartOf(SubSeq(h, m, n), h, V, m, Q)  BY <2>1, <2>a, SliceIs
  <2>3. page = SubSeq(h, m, n)  BY <1>1, <2>1
  <2>4. \A i \in 1..Q : m + i - 1 = start + i  BY <2>1, <1>Q
  <2> QED BY <2>2, <2>3, <2>4 DEF PartOf
<1>4. DOMAIN page = 1..Q  BY <1>3
<1>5. \A p \in DOMAIN page : HasRank(page[p], start + p, rows, f)
  <2> TAKE p \in DOMAIN page
  <2>1. PICK q \in 1..K : q = start + p  BY <1>4, <1>Q, <1>n
  <2>2. HasRank(h[q], q, rows, f)  BY RankIs
  <2> QED BY <1>3, <1>4, <2>1, <2>2
<1>6. \A row : Occurrences(page, row) <= Occurrences(rows, row)
  <2> TAKE row
  <2> QED BY <1>3, <1>Q, OccursNoMore
<1> QED BY <1>2, <1>3, <1>Q, <1>5, <1>6 DEF IsSlice

-------------------------------------------------------------------------------
(* std::sort, by the number of rows ahead. *)

\* The rows ahead of one are some of the others.
LEMMA AheadIs ==
  ASSUME NEW L, NEW V, NEW f, NEW rows, Array(rows, L, V, f), NEW i \in 1..L
  PROVE  /\ Ahead(rows, i, f) \subseteq 1..L /\ i \notin Ahead(rows, i, f)
         /\ IsFiniteSet(Ahead(rows, i, f)) /\ Cardinality(Ahead(rows, i, f)) \in 0..(L - 1)
<1>n. L \in Nat /\ rows \in [1..L -> V] /\ \A v \in V : v[f] \in Int /\ DOMAIN rows = 1..L  BY DEF Array
<1>1. PICK A : A = Ahead(rows, i, f)  OBVIOUS
<1>i. rows[i][f] \in Int /\ i \in Int  BY <1>n
<1>2. A \subseteq 1..L /\ i \notin A  BY <1>1, <1>i, <1>n DEF Ahead, Compare
<1>3. IsFiniteSet(1..L) /\ Cardinality(1..L) = L
  <2>1. 1 \in Int /\ L \in Int  BY <1>n
  <2>2. IsFiniteSet(1..L) /\ Cardinality(1..L) = IF 1 > L THEN 0 ELSE L - 1 + 1  BY <2>1, FS_Interval
  <2> QED BY <1>n, <2>2
<1>4. IsFiniteSet(A) /\ Cardinality(A) <= L /\ Cardinality(A) # L
  <2>1. /\ IsFiniteSet(A) /\ Cardinality(A) <= Cardinality(1..L)
        /\ Cardinality(1..L) = Cardinality(A) => 1..L = A
    BY <1>2, <1>3, FS_Subset
  <2> QED BY <1>2, <1>3, <2>1
<1>5. Cardinality(A) \in Nat  BY <1>4, FS_CardinalityType
<1> QED BY <1>1, <1>2, <1>4, <1>5, <1>n

\* Who is ahead has fewer ahead.
LEMMA AheadLess ==
  ASSUME NEW L, NEW V, NEW f, NEW rows, Array(rows, L, V, f), NEW i \in 1..L, NEW j \in 1..L,
         j \in Ahead(rows, i, f)
  PROVE  Cardinality(Ahead(rows, j, f)) < Cardinality(Ahead(rows, i, f))
<1>n. L \in Nat /\ rows \in [1..L -> V] /\ (\A v \in V : v[f] \in Int) /\ DOMAIN rows = 1..L  BY DEF Array
<1>1. PICK A, B : A = Ahead(rows, i, f) /\ B = Ahead(rows, j, f)  OBVIOUS
<1>2. /\ A \subseteq 1..L /\ IsFiniteSet(A) /\ Cardinality(A) \in Nat
      /\ B \subseteq 1..L /\ IsFiniteSet(B) /\ Cardinality(B) \in Nat /\ j \notin B /\ j \in A
  BY <1>1, AheadIs
<1>k. \A x \in 1..L : rows[x][f] \in Int /\ x \in Int  BY <1>n
<1>3. B \subseteq A
  <2> SUFFICES ASSUME NEW x \in B PROVE x \in A  OBVIOUS
  <2>1. x \in 1..L /\ (rows[x][f] > rows[j][f] \/ (rows[x][f] = rows[j][f] /\ x < j))
    BY <1>1, <1>n DEF Ahead, Compare
  <2>2. rows[j][f] > rows[i][f] \/ (rows[j][f] = rows[i][f] /\ j < i)
    BY <1>n DEF Ahead, Compare
  <2>3. rows[x][f] > rows[i][f] \/ (rows[x][f] = rows[i][f] /\ x < i)  BY <1>k, <2>1, <2>2
  <2> QED BY <1>1, <1>n, <2>1, <2>3 DEF Ahead, Compare
<1>4. Cardinality(B) <= Cardinality(A) /\ (Cardinality(A) = Cardinality(B) => A = B)
  BY <1>2, <1>3, FS_Subset
<1> QED BY <1>1, <1>2, <1>4

\* Of two rows one is ahead of the other.
LEMMA AheadTotal ==
  ASSUME NEW L, NEW V, NEW f, NEW rows, Array(rows, L, V, f), NEW i \in 1..L, NEW j \in 1..L, i # j
  PROVE  i \in Ahead(rows, j, f) \/ j \in Ahead(rows, i, f)
<1>n. L \in Nat /\ rows \in [1..L -> V] /\ (\A v \in V : v[f] \in Int) /\ DOMAIN rows = 1..L  BY DEF Array
<1>1. rows[i][f] \in Int /\ rows[j][f] \in Int /\ i \in Int /\ j \in Int  BY <1>n
<1> QED BY <1>1, <1>n DEF Ahead, Compare

\* For each place there is one row with so many ahead.
LEMMA PlacedIs ==
  ASSUME NEW L, NEW V, NEW f, NEW rows, Array(rows, L, V, f)
  PROVE  /\ \A p \in 1..L : \E i \in 1..L : Cardinality(Ahead(rows, i, f)) = p - 1
         /\ \A i, j \in 1..L : Cardinality(Ahead(rows, i, f)) = Cardinality(Ahead(rows, j, f)) => i = j
<1>n. L \in Nat  BY DEF Array
<1> DEFINE c == [i \in 1..L |-> Cardinality(Ahead(rows, i, f))]
<1>1. \A i \in 1..L : Cardinality(Ahead(rows, i, f)) \in 0..(L - 1)  BY AheadIs
<1>2. ASSUME NEW i \in 1..L, NEW j \in 1..L, Cardinality(Ahead(rows, i, f)) = Cardinality(Ahead(rows, j, f))
      PROVE  i = j
  <2> SUFFICES ASSUME i # j PROVE FALSE  OBVIOUS
  <2>0. Cardinality(Ahead(rows, i, f)) \in Int /\ Cardinality(Ahead(rows, j, f)) \in Int  BY <1>1, <1>n
  <2>1. CASE i \in Ahead(rows, j, f)
    <3>1. Cardinality(Ahead(rows, i, f)) < Cardinality(Ahead(rows, j, f))  BY <2>1, AheadLess
    <3> QED BY <1>2, <2>0, <3>1
  <2>2. CASE j \in Ahead(rows, i, f)
    <3>1. Cardinality(Ahead(rows, j, f)) < Cardinality(Ahead(rows, i, f))  BY <2>2, AheadLess
    <3> QED BY <1>2, <2>0, <3>1
  <2> QED BY <2>1, <2>2, AheadTotal
<1>3. c \in Injection(1..L, 0..(L - 1))
  <2>1. c \in [1..L -> 0..(L - 1)]  BY <1>1
  <2>2. \A i, j \in 1..L : c[i] = c[j] => i = j  BY <1>2
  <2> HIDE DEF c
  <2> QED BY <2>1, <2>2 DEF Injection, IsInjective
<1>4. c \in Surjection(1..L, 0..(L - 1))
  <2>1. 1 \in Int /\ L \in Int /\ 0 \in Int /\ L - 1 \in Int  BY <1>n
  <2>2. IsFiniteSet(1..L) /\ Cardinality(1..L) = IF 1 > L THEN 0 ELSE L - 1 + 1  BY ONLY <2>1, FS_Interval
  <2>3. IsFiniteSet(0..(L - 1)) /\ Cardinality(0..(L - 1)) = IF 0 > L - 1 THEN 0 ELSE (L - 1) - 0 + 1
    BY ONLY <2>1, FS_Interval
  <2>4. Cardinality(1..L) = Cardinality(0..(L - 1))  BY <1>n, <2>2, <2>3
  <2> HIDE DEF c
  <2> QED BY <1>3, <2>3, <2>4, FS_Injection
<1>5. ASSUME NEW p \in 1..L PROVE \E i \in 1..L : Cardinality(Ahead(rows, i, f)) = p - 1
  <2>1. p - 1 \in 0..(L - 1)  BY <1>n
  <2>2. PICK i \in 1..L : c[i] = p - 1
    <3> HIDE DEF c
    <3> QED BY <1>4, <2>1 DEF Surjection
  <2> QED BY <2>2
<1> QED BY <1>2, <1>5

\* Reversed, the sorted rows are all of them in their order.
LEMMA SortIs ==
  ASSUME NEW L, NEW V, NEW f, NEW rows, Array(rows, L, V, f)
  PROVE  /\ Array(Seqs!Reverse(Sort(rows, f)), L, V, f) /\ InOrder(Seqs!Reverse(Sort(rows, f)), L, f)
         /\ Smallest(Seqs!Reverse(Sort(rows, f)), L, rows, L, f)
<1>n. L \in Nat /\ rows \in [1..L -> V] /\ (\A v \in V : v[f] \in Int) /\ DOMAIN rows = 1..L  BY DEF Array
<1> DEFINE c(i) == Cardinality(Ahead(rows, i, f))
           s == [p \in 1..L |-> CHOOSE i \in 1..L : c(i) = p - 1]
           t == [x \in 1..L |-> s[L - x + 1]]
           a == Sort(rows, f)
           h == Seqs!Reverse(a)
<1>1. \A p \in 1..L : s[p] \in 1..L /\ c(s[p]) = p - 1
  <2> TAKE p \in 1..L
  <2>1. \E i \in 1..L : c(i) = p - 1  BY PlacedIs
  <2> HIDE DEF c
  <2> QED BY <2>1
<1>2. \A i, j \in 1..L : c(i) = c(j) => i = j  BY PlacedIs
<1>3. \A i \in 1..L : c(i) \in 0..(L - 1)  BY AheadIs
<1>4. a = [p \in 1..L |-> rows[s[p]]]
  BY <1>n DEF Sort
<1>5. a \in [1..L -> V] /\ \A p \in 1..L : a[p] = rows[s[p]]
  <2> HIDE DEF a, s, c
  <2> QED BY <1>1, <1>4, <1>n
<1>6. Array(a, L, V, f) /\ Len(a) = L
  <2> HIDE DEF a
  <2>1. Array(a, L, V, f)  BY <1>5, <1>n DEF Array
  <2> QED BY <2>1, ArrayIsSeq
<1> HIDE DEF a, s, c
<1>7. \A x \in 1..L : L - x + 1 \in 1..L  BY <1>n
<1>8. h = [x \in 1..L |-> a[L - x + 1]]  BY <1>6 DEF Seqs!Reverse
<1>9. h \in [1..L -> V] /\ \A x \in 1..L : h[x] = rows[t[x]]
  <2>1. \A x \in 1..L : h[x] = a[L - x + 1]
    <3> HIDE DEF h
    <3> QED BY <1>8
  <2> HIDE DEF h
  <2> QED BY <1>5, <1>7, <1>8, <2>1
<1> HIDE DEF h
<1>10. Array(h, L, V, f)  BY <1>9, <1>n DEF Array
<1>11. Takes(t, h, L, rows, L)
  <2>1. t \in [1..L -> 1..L]  BY <1>1, <1>7
  <2>2. \A x, y \in 1..L : t[x] = t[y] => x = y
    <3> TAKE x, y \in 1..L
    <3> HAVE t[x] = t[y]
    <3>1. PICK p \in 1..L, q \in 1..L : p = L - x + 1 /\ q = L - y + 1  BY <1>7
    <3>2. s[p] = s[q]  BY <3>1
    <3>3. p - 1 = q - 1  BY <1>1, <3>2
    <3> QED BY <1>n, <3>1, <3>3
  <2> HIDE DEF t
  <2> QED BY <1>9, <2>1, <2>2 DEF Takes
<1>12. OthersLarger(t, h, L, rows, L, f)
  <2> SUFFICES ASSUME NEW y \in 1..L PROVE \E x \in 1..L : t[x] = y  BY DEF OthersLarger
  <2>1. PICK p \in 1..L : c(y) = p - 1
    <3>1. PICK p, q : q = c(y) /\ p = q + 1  OBVIOUS
    <3>2. q \in 0..(L - 1)  BY <1>3, <3>1
    <3>3. p \in 1..L /\ q = p - 1  BY <1>n, <3>1, <3>2
    <3> QED BY <3>1, <3>3
  <2>2. s[p] = y  BY <1>1, <1>2, <2>1
  <2>3. PICK x : x = L - p + 1  OBVIOUS
  <2>4. x \in 1..L /\ L - x + 1 = p  BY <1>n, <2>3
  <2> QED BY <2>2, <2>4
<1>13. InOrder(h, L, f)
  <2> SUFFICES ASSUME NEW x \in 1..L, NEW y \in 1..L, x <= y PROVE h[x][f] <= h[y][f]  BY DEF InOrder
  <2>1. PICK p \in 1..L, q \in 1..L : p = L - x + 1 /\ q = L - y + 1 /\ q <= p  BY <1>7, <1>n
  <2>2. h[x] = rows[s[p]] /\ h[y] = rows[s[q]]  BY <1>9, <2>1
  <2>3. s[p] \in 1..L /\ s[q] \in 1..L /\ c(s[p]) = p - 1 /\ c(s[q]) = q - 1  BY <1>1
  <2>4. rows[s[p]][f] \in Int /\ rows[s[q]][f] \in Int  BY <1>n, <2>3
  <2>5. CASE p = q  BY <2>2, <2>4, <2>5
  <2>6. CASE p # q
    <3>1. s[p] # s[q] /\ c(s[q]) < c(s[p])  BY <2>1, <2>3, <2>6
    <3>2. ~(s[p] \in Ahead(rows, s[q], f))
      <4>1. s[p] \in Ahead(rows, s[q], f) => c(s[p]) < c(s[q])  BY <2>3, AheadLess DEF c
      <4> QED BY <2>3, <3>1, <4>1
    <3>3. s[q] \in Ahead(rows, s[p], f)  BY <2>3, <3>1, <3>2, AheadTotal
    <3>4. rows[s[q]][f] > rows[s[p]][f] \/ rows[s[q]][f] = rows[s[p]][f]  BY <3>3 DEF Ahead, Compare
    <3> QED BY <2>2, <2>4, <3>4
  <2> QED BY <2>5, <2>6
<1>14. Smallest(h, L, rows, L, f)  BY <1>11, <1>12 DEF Smallest
<1> QED BY <1>10, <1>13, <1>14 DEF h, a

-------------------------------------------------------------------------------
(* GetLogProcessStat. *)

\* A page of rows that have numbers in the field.
LEMMA PageIs ==
  ASSUME NEW L, NEW V, NEW f \in SortFields, NEW rows, Array(rows, L, V, f), NEW fields, fields = {} \/ f \in fields,
         NEW start \in Nat, NEW end \in Nat, start <= end, end < L,
         L > Many /\ end > Many => end % 2 = 1
  PROVE  IsSlice(Page(rows, fields, f, start, end), rows, f, start, end)
<1>n. L \in Nat /\ Len(rows) = L  BY ArrayIsSeq
<1>m. Many \in Nat  BY SelectionAssumption DEF SelectionAssumption
<1>1. PICK h : h = Ordered(rows, fields, f, end)  OBVIOUS
<1>2. CASE end > Many /\ L > Many
  <2>1. h = Topk(rows, end, f)  BY <1>1, <1>2, <1>n DEF Ordered
  <2>2. PICK K, half \in Nat : K = end + 1 /\ K = 2 * half /\ half > 0 /\ K <= L
    <3>1. PICK half : half = (end + 1) \div 2  OBVIOUS
    <3>2. half \in Nat /\ end + 1 = 2 * half /\ half > 0 /\ end + 1 <= L  BY <1>2, <1>n, <3>1
    <3> QED BY <3>2
  <2>3. /\ Array(Topk(rows, end, f), K, V, f) /\ InOrder(Topk(rows, end, f), K, f)
        /\ Smallest(Topk(rows, end, f), K, rows, L, f)
    BY ONLY <2>2, TopkIs, end \in Nat, Array(rows, L, V, f)
  <2>4. Array(h, K, V, f) /\ InOrder(h, K, f) /\ Smallest(h, K, rows, L, f)  BY <2>1, <2>3
  <2>5. end < K  BY <2>2
  <2>6. IsSlice(Limit(h, start, end), rows, f, start, end)  BY <2>4, <2>5, LimitIs
  <2> QED BY <1>1, <2>6 DEF Page
<1>3. CASE ~(end > Many /\ L > Many)
  <2>1. h = Seqs!Reverse(Sort(rows, f))  BY <1>1, <1>3, <1>n DEF Ordered
  <2>2. Array(h, L, V, f) /\ InOrder(h, L, f) /\ Smallest(h, L, rows, L, f)  BY <2>1, SortIs
  <2>3. IsSlice(Limit(h, start, end), rows, f, start, end)  BY <2>2, LimitIs
  <2> QED BY <1>1, <2>3 DEF Page
<1> QED BY <1>2, <1>3

\* What is in two sequences is in one of them.
LEMMA RangeOfConcat ==
  ASSUME NEW V, NEW a \in Seq(V), NEW b \in Seq(V)
  PROVE  a \o b \in Seq(V) /\ Range(a \o b) = Range(a) \cup Range(b)
<1>1. Len(a) \in Nat /\ Len(b) \in Nat /\ DOMAIN a = 1..Len(a) /\ DOMAIN b = 1..Len(b)  OBVIOUS
<1>2. PICK c : c = a \o b  OBVIOUS
<1>3. /\ c \in Seq(V) /\ DOMAIN c = 1..(Len(a) + Len(b))
      /\ \A i \in 1..(Len(a) + Len(b)) : c[i] = IF i <= Len(a) THEN a[i] ELSE b[i - Len(a)]
  BY <1>2
<1>4. ASSUME NEW i \in DOMAIN c PROVE c[i] \in Range(a) \cup Range(b)
  <2>1. i \in 1..(Len(a) + Len(b))  BY <1>3
  <2>2. CASE i <= Len(a)
    <3>1. i \in DOMAIN a /\ c[i] = a[i]  BY <1>1, <1>3, <2>1, <2>2
    <3> QED BY <3>1 DEF Range
  <2>3. CASE ~(i <= Len(a))
    <3>1. i - Len(a) \in DOMAIN b /\ c[i] = b[i - Len(a)]  BY <1>1, <1>3, <2>1, <2>3
    <3> QED BY <3>1 DEF Range
  <2> QED BY <2>2, <2>3
<1>5. ASSUME NEW i \in DOMAIN a PROVE a[i] \in Range(c)
  <2>1. i \in DOMAIN c /\ c[i] = a[i]  BY <1>1, <1>3
  <2> QED BY <2>1 DEF Range
<1>6. ASSUME NEW i \in DOMAIN b PROVE b[i] \in Range(c)
  <2>1. PICK k : k = i + Len(a)  OBVIOUS
  <2>2. k \in 1..(Len(a) + Len(b)) /\ ~(k <= Len(a)) /\ k - Len(a) = i  BY <1>1, <2>1
  <2>3. k \in DOMAIN c /\ c[k] = b[i]  BY <1>3, <2>2
  <2> QED BY <2>3 DEF Range
<1>7. Range(c) = Range(a) \cup Range(b)  BY <1>4, <1>5, <1>6 DEF Range
<1> QED BY <1>2, <1>3, <1>7

\* What the recursive function of ReadFromRocksdb satisfies.
ReadLoop(it, st, ed) ==
  it = [n \in 0..(ed - st + 1) |-> IF n = 0 THEN <<>> ELSE it[n - 1] \o Only(Readable, db[st + n - 1])]

\* ReadFromRocksdb ends with what that function holds last.
LEMMA ReadChosen ==
  ASSUME NEW st, NEW ed
  PROVE  ReadFromRocksdb(st, ed) = IF st <= ed THEN (CHOOSE it : ReadLoop(it, st, ed))[ed - st + 1] ELSE <<>>
BY Zenon DEF ReadFromRocksdb, ReadLoop

\* The records of n seconds from st on.
RecordsOf(st, n) == {log \in Readable : \E i \in 1..n : log \in Range(db[st + i - 1])}

\* What may have been read after n seconds.
ReadState(st, n) == {q \in Seq(Logs) : Range(q) = RecordsOf(st, n)}

\* A turn of ReadFromRocksdb adds the records of one second.
LEMMA ReadTurn ==
  ASSUME SelectionTypeOK, NEW st \in Int, NEW n \in Nat, n > 0, NEW s \in Timestamps, s = st + n - 1,
         NEW q \in ReadState(st, n - 1)
  PROVE  q \o Only(Readable, db[s]) \in ReadState(st, n)
<1>1. db[s] \in Seq(Logs)  BY DEF SelectionTypeOK
<1>2. PICK o : o = Only(Readable, db[s]) /\ o \in Seq(Logs) /\ Range(o) = Range(db[s]) \cap Readable
  BY <1>1, OnlyIs
<1>3. q \in Seq(Logs) /\ Range(q) = RecordsOf(st, n - 1)  BY DEF ReadState
<1>4. q \o o \in Seq(Logs) /\ Range(q \o o) = Range(q) \cup Range(o)  BY <1>2, <1>3, RangeOfConcat
<1>5. RecordsOf(st, n) = RecordsOf(st, n - 1) \cup (Range(db[s]) \cap Readable)
  <2>1. 1..n = 1..(n - 1) \cup {n}  OBVIOUS
  <2> QED BY <2>1 DEF RecordsOf
<1> QED BY <1>2, <1>3, <1>4, <1>5 DEF ReadState

\* The records of all seconds in the range are read.
LEMMA ReadIs ==
  ASSUME SelectionTypeOK, NEW st \in Timestamps, NEW ed \in Timestamps, st <= ed
  PROVE  ReadFromRocksdb(st, ed) \in ReadState(st, ed - st + 1)
<1>t. st \in Nat /\ ed \in Nat /\ st..ed \subseteq Timestamps
  BY SelectionAssumption DEF SelectionAssumption
<1> DEFINE H == ed - st + 1
           Inv == [n \in 0..H |-> ReadState(st, n)]
           T == UNION {Inv[n] : n \in 0..H}
           body(q, n) == q \o Only(Readable, db[st + n - 1])
           step == [p \in (1..H) \X T |-> body(p[2], p[1])]
<1>h. H \in Nat /\ H \in 0..H /\ 0 \in 0..H  BY <1>t
<1>1. <<>> \in ReadState(st, 0)
  <2>1. <<>> \in Seq(Logs) /\ Range(<<>>) = {}  BY DEF Range
  <2>2. RecordsOf(st, 0) = {}  BY DEF RecordsOf
  <2> QED BY <2>1, <2>2 DEF ReadState
<1>i. <<>> \in Inv[0] /\ Inv[H] = ReadState(st, H)
  <2> HIDE DEF H
  <2> QED BY <1>1, <1>h
<1>3. \A n \in 1..H : \A q \in Inv[n - 1] : q \in T /\ body(q, n) \in Inv[n] /\ step[<<n, q>>] = body(q, n)
  <2> TAKE n \in 1..H
  <2> TAKE q \in Inv[n - 1]
  <2>1. n - 1 \in 0..H /\ n \in 0..H /\ n \in Nat /\ n > 0  BY <1>h
  <2>2. PICK s \in Timestamps : s = st + n - 1
    <3>0. n \in Int /\ 1 <= n /\ n <= ed - st + 1  OBVIOUS
    <3>1. PICK s : s = st + n - 1  OBVIOUS
    <3> HIDE DEF H
    <3>2. s \in st..ed  BY ONLY <1>t, <3>0, <3>1
    <3> QED BY <1>t, <3>1, <3>2
  <2>3. Inv[n - 1] = ReadState(st, n - 1) /\ Inv[n] = ReadState(st, n)
    <3> HIDE DEF H
    <3> QED BY <2>1
  <2>4. q \in T  BY <2>1
  <2> HIDE DEF Inv, T
  <2>5. q \o Only(Readable, db[s]) \in ReadState(st, n)
    <3>1. q \in ReadState(st, n - 1) /\ st \in Int  BY <1>t, <2>3
    <3> QED BY <2>1, <2>2, <3>1, ReadTurn
  <2>6. body(q, n) \in Inv[n]  BY <2>2, <2>3, <2>5
  <2> HIDE DEF body, H
  <2> QED BY <2>4, <2>6
<1> HIDE DEF Inv, T, body, H
<1>4. \E it : ReadLoop(it, st, ed)
  <2>1. PICK x : x = <<>>  OBVIOUS
  <2>2. PICK it : Loop(it, H, x, step) /\ \A n \in 0..H : it[n] \in Inv[n]
    <3> HIDE DEF step
    <3>1. x \in Inv[0]  BY <1>i, <2>1
    <3>2. \A n \in 1..H : \A q \in Inv[n - 1] : step[<<n, q>>] \in Inv[n]  BY <1>3
    <3> QED BY <1>h, <3>1, <3>2, LoopExists
  <2> HIDE DEF step
  <2>3. \A n \in 0..H : n # 0 => step[<<n, it[n - 1]>>] = body(it[n - 1], n)
    <3>1. \A n \in 0..H : n # 0 => n \in 1..H /\ n - 1 \in 0..H  BY <1>h
    <3> QED BY <1>3, <2>2, <3>1
  <2>4. it = [n \in 0..H |-> IF n = 0 THEN x ELSE step[<<n, it[n - 1]>>]]  BY <2>2 DEF Loop
  <2>5. it = [n \in 0..H |-> IF n = 0 THEN x ELSE body(it[n - 1], n)]  BY <2>3, <2>4
  <2> QED BY <2>1, <2>5 DEF ReadLoop, H, body
<1>5. PICK it : ReadLoop(it, st, ed) /\ ReadFromRocksdb(st, ed) = it[H]
  BY <1>4, ReadChosen DEF H
<1>6. it = [n \in 0..H |-> IF n = 0 THEN <<>> ELSE body(it[n - 1], n)]  BY <1>5 DEF ReadLoop, H, body
<1>7. it[0] \in Inv[0]
  <2>1. it[0] = <<>>  BY <1>h, <1>6
  <2> QED BY <1>i, <2>1
<1>8. \A n \in 1..H : it[n - 1] \in Inv[n - 1] => it[n] \in Inv[n]
  <2> TAKE n \in 1..H
  <2>1. n \in 0..H /\ n # 0  BY <1>h
  <2>2. it[n] = body(it[n - 1], n)  BY <1>6, <2>1
  <2> QED BY <1>3, <2>2
<1>9. \A n \in 0..H : it[n] \in Inv[n]  BY <1>h, <1>7, <1>8, IterationKeeps
<1> QED BY <1>5, <1>9, <1>h, <1>i DEF H

\* What is read are records, also of no seconds at all.
LEMMA ReadType ==
  ASSUME SelectionTypeOK, NEW st \in Timestamps, NEW ed \in Timestamps
  PROVE  ReadFromRocksdb(st, ed) \in Seq(Logs)
<1>1. CASE st <= ed  BY <1>1, ReadIs DEF ReadState
<1>2. CASE ~(st <= ed)
  <2>1. ReadFromRocksdb(st, ed) = <<>>  BY <1>2, ReadChosen
  <2> QED BY <2>1
<1> QED BY <1>1, <1>2

\* The rows have a number in the field to sort by.
LEMMA MatchingIs ==
  ASSUME SelectionTypeOK, NEW st \in Timestamps, NEW ed \in Timestamps, NEW cond, NEW fields, NEW f \in Sortable,
         fields = {} \/ f \in fields
  PROVE  LET rows == Matching(st, ed, cond, fields) IN Len(rows) \in Nat /\ Array(rows, Len(rows), Range(rows), f)
<1>1. PICK raw : raw = ReadFromRocksdb(st, ed) /\ raw \in Seq(Logs)  BY ReadType
<1> DEFINE X == {log \in {l \in Range(raw) : DOMAIN l # {} /\ fields \subseteq DOMAIN l} : AllCheck(cond, log)}
<1>2. PICK c : c = Only(X, raw) /\ c \in Seq(Logs)
  <2> HIDE DEF X
  <2> QED BY <1>1, OnlyIs
<1>3. PICK rows : rows = [i \in DOMAIN c |-> IF fields = {} THEN c[i] ELSE Restrict(c[i], fields)]  OBVIOUS
<1>4. Matching(st, ed, cond, fields) = rows  BY <1>1, <1>2, <1>3 DEF Matching, SelectByConds
<1>5. PICK N \in Nat : DOMAIN c = 1..N /\ \A i \in 1..N : c[i] \in Logs
  <2>1. Len(c) \in Nat /\ c \in [1..Len(c) -> Logs]  BY ONLY <1>2, LenProperties
  <2> QED BY <2>1
<1>6. \A log \in Logs : f \in DOMAIN log /\ log[f] \in Int
  BY SelectionAssumption DEF SelectionAssumption, Sortable
<1>7. DOMAIN rows = 1..N /\ \A i \in 1..N : rows[i] = IF fields = {} THEN c[i] ELSE Restrict(c[i], fields)
  BY <1>3, <1>5
<1>8. \A i \in 1..N : rows[i][f] \in Int
  <2> TAKE i \in 1..N
  <2>1. c[i][f] \in Int  BY <1>5, <1>6
  <2>2. CASE fields = {}  BY <1>7, <2>1, <2>2
  <2>3. CASE fields # {}
    <3>1. Restrict(c[i], fields)[f] = c[i][f]  BY <2>3 DEF Restrict
    <3> QED BY <1>7, <2>1, <2>3, <3>1
  <2> QED BY <2>2, <2>3
<1>9. rows \in [1..N -> Range(rows)] /\ \A v \in Range(rows) : v[f] \in Int
  <2>1. rows = [i \in 1..N |-> rows[i]]  BY <1>3, <1>5
  <2> QED BY <1>7, <1>8, <2>1 DEF Range
<1>10. Array(rows, N, Range(rows), f)  BY <1>9 DEF Array
<1>11. Len(rows) = N  BY <1>10, ArrayIsSeq
<1> QED BY <1>4, <1>10, <1>11

\* The pages of every state of the right type are slices.
LEMMA TypedPages == SelectionTypeOK => PageIsSlice
<1> SUFFICES ASSUME SelectionTypeOK, NEW from \in Timestamps, NEW to \in Timestamps, NEW cond \in Conds,
                    NEW fields \in SUBSET AllFields, NEW rows, rows = Matching(from, to, cond, fields),
                    NEW f \in Sortable, NEW end \in 0..(Len(rows) - 1), NEW start \in 0..end,
                    fields = {} \/ f \in fields, Len(rows) > Many /\ end > Many => end % 2 = 1
             PROVE  IsSlice(Page(rows, fields, f, start, end), rows, f, start, end)
  BY DEF PageIsSlice
<1>1. PICK L, V : L = Len(rows) /\ V = Range(rows) /\ L \in Nat /\ Array(rows, L, V, f)  BY MatchingIs
<1>2. f \in SortFields  BY DEF Sortable
<1>3. start \in Nat /\ end \in Nat /\ start <= end /\ end < L /\ (L > Many /\ end > Many => end % 2 = 1)
  BY <1>1
<1> QED BY ONLY <1>1, <1>2, <1>3, PageIs, fields = {} \/ f \in fields

\* A kind of conditions that are plain is met in both ways or in none.
LEMMA KindsAlike ==
  ASSUME NEW cond \in Conds, Plain(cond), NEW log, Filled(log), NEW kind \in CondKinds
  PROVE  LET app == Applicable(cond, log)[kind] IN
         (cond[kind] # <<>> /\ Present(kind, log) =>
            \A i \in Looped(kind, cond) : Holds(kind, SelectedValue(kind, log), cond[kind][i]) <=> kind \notin Negated)
         <=> (app # <<>> => CheckKind(kind, app, log))
<1>1. cond[kind] \in Seq(Range(cond[kind]))  BY SelectionAssumption DEF SelectionAssumption
<1>2. Applicable(cond, log)[kind] = IF Present(kind, log) THEN cond[kind] ELSE <<>>  BY DEF Applicable
<1>3. Len(cond[kind]) <= IF kind \in {"lbs", "sid", "type"} THEN 0 ELSE 1  BY DEF Plain
<1>4. CASE cond[kind] = <<>> \/ ~Present(kind, log)  BY <1>2, <1>4
<1>5. CASE cond[kind] # <<>> /\ Present(kind, log)
  <2>1. Len(cond[kind]) # 0 /\ Len(cond[kind]) \in Nat /\ DOMAIN cond[kind] = 1..Len(cond[kind])
    BY <1>1, <1>5
  <2>2. kind \notin {"lbs", "sid", "type"} /\ Len(cond[kind]) = 1
    <3>1. PICK n \in Nat : n = Len(cond[kind])  BY <2>1
    <3>2. CASE kind \in {"lbs", "sid", "type"}
      <4>1. n <= 0  BY <1>3, <3>1, <3>2
      <4> QED BY <2>1, <3>1, <4>1
    <3>3. CASE kind \notin {"lbs", "sid", "type"}
      <4>1. n <= 1  BY <1>3, <3>1, <3>3
      <4>0. n # 0  BY <2>1, <3>1
      <4>2. n = 1  BY ONLY n \in Nat, <4>0, <4>1
      <4> QED BY <3>1, <3>3, <4>2
    <3> QED BY <3>2, <3>3
  <2>3. DOMAIN cond[kind] = {1}  BY <2>1, <2>2
  <2>4. Looped(kind, cond) = {1} /\ kind \notin Negated  BY <2>2, <2>3 DEF Looped, Negated
  <2>5. SelectedValue(kind, log) = CheckedValue(kind, log) /\ CheckedValue(kind, log) # NoText
    <3>1. CheckedField(kind) \in DOMAIN log  BY <1>5, <2>2 DEF Present
    <3>2. log[CheckedField(kind)] # NoText  BY <3>1 DEF Filled
    <3> QED BY <2>2, <3>1, <3>2 DEF SelectedValue, CheckedValue, Value
  <2>6. Applicable(cond, log)[kind] = cond[kind]  BY <1>2, <1>5
  <2>7. CheckKind(kind, cond[kind], log) <=> Holds(kind, CheckedValue(kind, log), cond[kind][1])
    BY <2>3, <2>5 DEF CheckKind
  <2> QED BY <1>5, <2>4, <2>5, <2>6, <2>7
<1> QED BY <1>4, <1>5

\* A record is selected by plain conditions exactly if it would raise the alarm.
LEMMA ConditionsAlike ==
  ASSUME NEW cond \in Conds, Plain(cond), NEW log, Filled(log)
  PROVE  AllCheck(cond, log) <=> Check(Applicable(cond, log), log)
<1>1. AllCheck(cond, log) <=>
        \A kind \in CondKinds :
          cond[kind] # <<>> /\ Present(kind, log) =>
            \A i \in Looped(kind, cond) :
              Holds(kind, SelectedValue(kind, log), cond[kind][i]) <=> kind \notin Negated
  BY DEF AllCheck
<1>2. Check(Applicable(cond, log), log) <=>
        \A kind \in CondKinds :
          Applicable(cond, log)[kind] # <<>> => CheckKind(kind, Applicable(cond, log)[kind], log)
  BY DEF Check
<1> QED BY <1>1, <1>2, KindsAlike

\* Stored records are selected as alarms are raised, whatever is stored.
LEMMA TypedSelection == SelectionTypeOK => SelectedIfAlarming
<1> SUFFICES ASSUME SelectionTypeOK, NEW t \in Timestamps, NEW cond \in Conds, Plain(cond)
             PROVE  {log \in Range(Matching(t, t, cond, {})) : Filled(log)} =
                      {log \in Range(db[t]) \cap Readable : Filled(log) /\ Check(Applicable(cond, log), log)}
  BY DEF SelectedIfAlarming
<1>t. t \in Nat /\ t <= t /\ t - t + 1 = 1
  <2>1. t \in Nat  BY SelectionAssumption DEF SelectionAssumption
  <2> QED BY <2>1
<1>1. PICK raw : raw = ReadFromRocksdb(t, t) /\ raw \in Seq(Logs) /\ Range(raw) = Range(db[t]) \cap Readable
  <2>1. ReadFromRocksdb(t, t) \in ReadState(t, t - t + 1)  BY <1>t, ReadIs
  <2>2. ReadFromRocksdb(t, t) \in ReadState(t, 1)  BY <1>t, <2>1
  <2>3. RecordsOf(t, 1) = Range(db[t]) \cap Readable
    <3>1. \A i \in 1..1 : t + i - 1 = t  BY <1>t
    <3>2. 1 \in 1..1  OBVIOUS
    <3> QED BY <3>1, <3>2 DEF RecordsOf
  <2> QED BY <2>2, <2>3 DEF ReadState
<1> DEFINE X == {log \in {l \in Range(raw) : DOMAIN l # {} /\ {} \subseteq DOMAIN l} : AllCheck(cond, log)}
<1>2. PICK c : c = Only(X, raw) /\ c \in Seq(Logs) /\ Range(c) = Range(raw) \cap X
  <2> HIDE DEF X
  <2> QED BY <1>1, OnlyIs
<1>3. Matching(t, t, cond, {}) = c
  <2>1. Matching(t, t, cond, {}) = [i \in DOMAIN c |-> c[i]]
    BY <1>1, <1>2 DEF Matching, SelectByConds
  <2>2. c = [i \in DOMAIN c |-> c[i]]
    <3>1. c \in [1..Len(c) -> Logs]  BY ONLY <1>2, LenProperties
    <3> QED BY <3>1
  <2> QED BY <2>1, <2>2
<1>4. ASSUME NEW log, Filled(log)
      PROVE  log \in Range(c) <=> log \in Range(raw) /\ Check(Applicable(cond, log), log)
  <2>1. log \in Range(c) <=> log \in Range(raw) /\ AllCheck(cond, log)  BY <1>2, <1>4 DEF Filled
  <2> QED BY <1>4, <2>1, ConditionsAlike
<1> QED BY <1>1, <1>3, <1>4

-------------------------------------------------------------------------------
(* The theorems: what holds of the records holds of every state, because Storage *)
(* only adds records.                                                            *)

\* A slave's rocksdb holds, for each second, a sequence of records.
THEOREM SelectionTypes == SelectionSpec => []SelectionTypeOK
<1>1. SelectionInit => SelectionTypeOK  BY DEF SelectionInit, SelectionTypeOK
<1>2. SelectionTypeOK /\ [SelectionNext]_db => SelectionTypeOK'
  <2> SUFFICES ASSUME SelectionTypeOK, [SelectionNext]_db PROVE SelectionTypeOK'  OBVIOUS
  <2>1. CASE UNCHANGED db  BY <2>1 DEF SelectionTypeOK
  <2>2. ASSUME NEW t \in Timestamps, NEW log \in Logs, Write(t, log) PROVE SelectionTypeOK'
    <3>1. Append(db[t], log) \in Seq(Logs)  BY DEF SelectionTypeOK
    <3> QED BY <2>2, <3>1 DEF SelectionTypeOK, Write
  <2> QED BY <2>1, <2>2 DEF SelectionNext
<1> QED BY <1>1, <1>2, PTL DEF SelectionSpec

\* What GetLogProcessStat answers to a request that ends before the last row are the
\* rows of the ranks it asks for among all that match, none more often than it matches:
\* after std::sort and the reversal, and after the heap of Topk if the number of its rows
\* is even.  This for any number of records, any fields, and wherever the heap begins.
THEOREM PagesAreSlices == SelectionSpec => []PageIsSlice
BY SelectionTypes, TypedPages, PTL

\* all_check of the selections and check of the checklists decide the same of a stored
\* record, by conditions that are plain and on fields that the record has.
THEOREM SelectedAsAlarming == SelectionSpec => []SelectedIfAlarming
BY SelectionTypes, TypedSelection, PTL
===============================================================================
