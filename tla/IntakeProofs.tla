------------------------------ MODULE IntakeProofs ------------------------------
(* Proofs about Intake for any nodes, pullers, topics and resenders. *)
EXTENDS Intake, LinesProofs

-------------------------------------------------------------------------------
(* What a puller has handled, was served and was made to pass over. *)

PullerTypes ==
  /\ produced \in [Pullers -> Nat] /\ served \in [Pullers -> Nat \X Nat]
  /\ pc \in [Pullers -> {"init", "ask", "route", "push"}]
  /\ package \in [Pullers -> Nat] /\ rec \in [Pullers -> (Nat \X Nat) \cup {None}]
  /\ got \in [Pullers -> Seq(Nat)] /\ skipped \in [Pullers -> SUBSET Nat]

Increasing(s) == \A i, j \in DOMAIN s : i < j => s[i] < s[j]

\* The record served last is in hand, or its answer was lost: it is served again.
Open(p) == served[p][1] = package[p]

\* Nothing past the record served last has been handled or skipped, everything
\* before it has, and it has itself unless it is still open.
InOrder(p) ==
  /\ served[p][2] <= produced[p] /\ package[p] >= 1
  /\ pc[p] \in {"route", "push"} => rec[p] = served[p] /\ Open(p)
  /\ Increasing(got[p]) /\ \A k \in Range(got[p]) : k <= served[p][2]
  /\ \A k \in skipped[p] : k <= served[p][2] /\ k \notin Range(got[p])
  /\ Open(p) => served[p][2] \notin Range(got[p]) \cup skipped[p]
  /\ \A k \in 1..served[p][2] :
       k \in Range(got[p]) \cup skipped[p] \/ (Open(p) /\ k = served[p][2])

PullerInv == PullerTypes /\ \A p \in Pullers : InOrder(p)

pullerVars == <<produced, served, pc, package, rec, got, skipped>>

\* What handling one more record does to what has been handled.
LEMMA AppendHandled ==
  ASSUME NEW s \in Seq(Nat), NEW x \in Nat, Increasing(s), \A k \in Range(s) : k < x
  PROVE  /\ Append(s, x) \in Seq(Nat) /\ Increasing(Append(s, x))
         /\ Range(Append(s, x)) = Range(s) \cup {x}
<1> DEFINE r == Append(s, x)
<1>1. /\ r \in Seq(Nat) /\ DOMAIN r = 1..(Len(s) + 1) /\ DOMAIN s = 1..Len(s) /\ Len(s) \in Nat
      /\ \A i \in DOMAIN r : r[i] = IF i = Len(s) + 1 THEN x ELSE s[i]
  OBVIOUS
<1>2. \A i \in DOMAIN s : s[i] \in Nat /\ s[i] < x BY DEF Range
<1> HIDE DEF r
<1>3. Increasing(r)
  <2> SUFFICES ASSUME NEW i \in DOMAIN r, NEW j \in DOMAIN r, i < j PROVE r[i] < r[j]
    BY DEF Increasing
  <2>0. i \in 1..(Len(s) + 1) /\ j \in 1..(Len(s) + 1) /\ Len(s) \in Nat BY <1>1
  <2>1. i \in DOMAIN s /\ r[i] = s[i]
    <3>1. i \in 1..Len(s) /\ i # Len(s) + 1 BY <2>0
    <3> QED BY <1>1, <3>1
  <2>2. CASE j = Len(s) + 1 BY <1>1, <1>2, <2>1, <2>2
  <2>3. CASE j # Len(s) + 1
    <3>1. j \in DOMAIN s /\ r[j] = s[j] BY <1>1, <2>3
    <3> QED BY <2>1, <3>1 DEF Increasing
  <2> QED BY <2>2, <2>3
<1>4. Range(r) = Range(s) \cup {x}
  <2>1. ASSUME NEW i \in DOMAIN r PROVE r[i] \in Range(s) \cup {x}
    BY <1>1 DEF Range
  <2>2. ASSUME NEW i \in DOMAIN s PROVE s[i] \in Range(r)
    <3>1. i \in DOMAIN r /\ r[i] = s[i] BY <1>1
    <3> QED BY <3>1 DEF Range
  <2>3. x \in Range(r)
    <3>1. Len(s) + 1 \in DOMAIN r /\ r[Len(s) + 1] = x BY <1>1
    <3> QED BY <3>1 DEF Range
  <2> QED BY <2>1, <2>2, <2>3 DEF Range
<1> QED BY <1>1, <1>3, <1>4 DEF r

\* The broker serves the package asked for again, or the next record.
LEMMA AnswerIs ==
  ASSUME NEW p \in Pullers, NEW id, Answer(p, id) # None
  PROVE  \/ id = served[p][1] /\ Answer(p, id) = served[p]
         \/ /\ id # served[p][1] /\ served[p][2] < produced[p]
            /\ Answer(p, id) = <<id, served[p][2] + 1>>
BY DEF Answer

\* At first nothing was served.
LEMMA PullerInit == Init => PullerInv
<1> SUFFICES ASSUME Init PROVE PullerInv OBVIOUS
<1>1. PullerTypes BY DEF Init, PullerTypes
<1>2. ASSUME NEW p \in Pullers PROVE InOrder(p)
  <2>1. /\ served[p] = <<0, 0>> /\ produced[p] = 0 /\ package[p] = 1 /\ pc[p] = "init"
        /\ got[p] = <<>> /\ skipped[p] = {}
    BY DEF Init
  <2>2. Range(got[p]) = {} /\ Increasing(got[p]) BY <2>1 DEF Range, Increasing
  <2> QED BY <2>1, <2>2 DEF InOrder, Open
<1> QED BY <1>1, <1>2 DEF PullerInv

\* A puller that a step leaves alone stays in order.
LEMMA Untouched ==
  ASSUME NEW p \in Pullers, InOrder(p),
         produced'[p] = produced[p], served'[p] = served[p], pc'[p] = pc[p],
         package'[p] = package[p], rec'[p] = rec[p], got'[p] = got[p], skipped'[p] = skipped[p]
  PROVE  InOrder(p)'
BY DEF InOrder, Open

\* The end of the loop body: the record in hand has been handled.
LEMMA FinishStep ==
  ASSUME PullerInv, NEW p \in Pullers, pc[p] \in {"route", "push"}, FinishPackage(p),
         UNCHANGED <<produced, served, skipped>>
  PROVE  PullerInv'
<1>0. /\ served[p] \in Nat \X Nat /\ package[p] \in Nat /\ got[p] \in Seq(Nat)
      /\ produced[p] \in Nat /\ skipped[p] \in SUBSET Nat
  BY DEF PullerInv, PullerTypes
<1>1. InOrder(p) /\ rec[p] = served[p] /\ Open(p) BY DEF PullerInv, InOrder
<1>2. served[p][1] \in Nat /\ served[p][2] \in Nat BY <1>0
<1> DEFINE x == served[p][2]
<1>3. \A k \in Range(got[p]) : k < x
  <2>1. \A k \in Range(got[p]) : k \in Nat /\ k <= x /\ k # x
    BY <1>0, <1>1 DEF InOrder, Range
  <2> QED BY <1>2, <2>1
<1>4. /\ Append(got[p], x) \in Seq(Nat) /\ Increasing(Append(got[p], x))
      /\ Range(Append(got[p], x)) = Range(got[p]) \cup {x}
  BY <1>0, <1>1, <1>2, <1>3, AppendHandled DEF InOrder
<1>5. /\ package' = [package EXCEPT ![p] = served[p][1] + 1]
      /\ rec' = [rec EXCEPT ![p] = None] /\ pc' = [pc EXCEPT ![p] = "ask"]
      /\ got' = [got EXCEPT ![p] = Append(got[p], x)]
      /\ UNCHANGED <<produced, served, skipped>>
  BY <1>1 DEF FinishPackage, Goto
<1> HIDE DEF x
<1>6. PullerTypes'
  BY <1>2, <1>4, <1>5 DEF PullerInv, PullerTypes
<1>7. InOrder(p)'
  <2>1. /\ package'[p] = served[p][1] + 1 /\ pc'[p] = "ask" /\ got'[p] = Append(got[p], x)
        /\ produced' = produced /\ served' = served /\ skipped' = skipped
    BY <1>5 DEF PullerInv, PullerTypes
  <2>2. ~Open(p)' BY <1>2, <2>1 DEF Open
  <2>3. Range(got'[p]) = Range(got[p]) \cup {x} BY <1>4, <2>1
  <2>4. x = served[p][2] BY DEF x
  <2>5. package'[p] >= 1 BY <1>2, <2>1
  <2>6. Increasing(got'[p]) /\ \A k \in Range(got'[p]) : k <= served[p][2]
    BY <1>1, <1>2, <1>4, <2>1, <2>3, <2>4 DEF InOrder
  <2>7. \A k \in skipped[p] : k <= served[p][2] /\ k \notin Range(got'[p])
    BY <1>1, <2>3, <2>4 DEF InOrder
  <2>8. \A k \in 1..served[p][2] : k \in Range(got'[p]) \cup skipped[p]
    BY <1>1, <2>3, <2>4 DEF InOrder
  <2>9. served[p][2] <= produced[p] BY <1>1 DEF InOrder
  <2> QED BY <2>1, <2>2, <2>5, <2>6, <2>7, <2>8, <2>9 DEF InOrder
<1>8. ASSUME NEW q \in Pullers, q # p PROVE InOrder(q)'
  <2>1. InOrder(q) BY DEF PullerInv
  <2> QED BY <1>5, <1>8, <2>1, Untouched DEF PullerInv, PullerTypes
<1> QED BY <1>6, <1>7, <1>8 DEF PullerInv

\* Every step keeps the pullers in order.
LEMMA PullerStep == PullerInv /\ [Next]_vars => PullerInv'
<1> SUFFICES ASSUME PullerInv, [Next]_vars PROVE PullerInv' OBVIOUS
<1>0. PullerTypes /\ \A q \in Pullers : InOrder(q) BY DEF PullerInv
<1>t. \A q \in Pullers : /\ served[q] \in Nat \X Nat /\ served[q][1] \in Nat
                         /\ served[q][2] \in Nat /\ produced[q] \in Nat /\ package[q] \in Nat
                         /\ got[q] \in Seq(Nat) /\ Range(got[q]) \subseteq Nat
  BY <1>0 DEF PullerTypes, Range
<1>f. ASSUME UNCHANGED pullerVars PROVE PullerInv'
  <2>1. UNCHANGED <<produced, served, pc, package, rec, got, skipped>> BY <1>f DEF pullerVars
  <2>2. PullerTypes' BY <1>0, <2>1 DEF PullerTypes
  <2>3. ASSUME NEW q \in Pullers PROVE InOrder(q)' BY <1>0, <2>1, Untouched
  <2> QED BY <2>2, <2>3 DEF PullerInv
\* A step that changes nothing but where a puller is, outside the loop body.
<1>g. ASSUME NEW p \in Pullers, NEW where \in {"init", "ask"}, pc' = [pc EXCEPT ![p] = where],
             UNCHANGED <<produced, served, package, rec, got, skipped>>
      PROVE  PullerInv'
  <2>1. PullerTypes' BY <1>0, <1>g DEF PullerTypes
  <2>2. pc'[p] = where BY <1>0, <1>g DEF PullerTypes
  <2>3. InOrder(p)' BY <1>0, <1>g, <2>2 DEF InOrder, Open
  <2>4. ASSUME NEW q \in Pullers, q # p PROVE InOrder(q)'
    BY <1>0, <1>g, <2>4, Untouched DEF PullerTypes
  <2> QED BY <2>1, <2>3, <2>4 DEF PullerInv
\* A step in which the broker serves the package asked for, and what it does to the
\* puller is to give it the record or nothing.
<1>s. ASSUME NEW p \in Pullers, pc[p] = "ask", Answer(p, package[p]) # None,
             served' = [served EXCEPT ![p] = Answer(p, package[p])],
             UNCHANGED <<produced, package, got, skipped>>,
             \/ rec' = [rec EXCEPT ![p] = Answer(p, package[p])] /\ pc' = [pc EXCEPT ![p] = "route"]
             \/ /\ UNCHANGED rec
                /\ \E where \in {"init", "ask"} : pc' = [pc EXCEPT ![p] = where]
      PROVE  PullerInv'
  <2> DEFINE a == Answer(p, package[p])
  <2>1. \/ package[p] = served[p][1] /\ a = served[p]
        \/ /\ package[p] # served[p][1] /\ served[p][2] < produced[p]
           /\ a = <<package[p], served[p][2] + 1>>
    BY <1>s, AnswerIs
  <2>2. a \in Nat \X Nat /\ a[1] = package[p] BY <1>t, <2>1
  <2>3. /\ served' = [served EXCEPT ![p] = a]
        /\ \/ rec' = [rec EXCEPT ![p] = a] /\ pc' = [pc EXCEPT ![p] = "route"]
           \/ /\ UNCHANGED rec
              /\ \E where \in {"init", "ask"} : pc' = [pc EXCEPT ![p] = where]
    BY <1>s
  <2> HIDE DEF a
  <2>4. PullerTypes'
    <3>1. /\ served' \in [Pullers -> Nat \X Nat]
          /\ rec' \in [Pullers -> (Nat \X Nat) \cup {None}]
      BY <1>0, <2>2, <2>3 DEF PullerTypes
    <3>2. pc' \in [Pullers -> {"init", "ask", "route", "push"}]
      BY <1>0, <2>3 DEF PullerTypes
    <3> QED BY <1>0, <1>s, <3>1, <3>2 DEF PullerTypes
  <2>5. served'[p] = a /\ (pc'[p] \in {"route", "push"} => rec'[p] = a)
    BY <1>0, <2>3 DEF PullerTypes
  <2>6. Open(p)' BY <1>s, <2>2, <2>5 DEF Open
  <2>7. InOrder(p) BY <1>0
  <2>8. skipped[p] \subseteq Nat /\ Range(got[p]) \subseteq Nat
    BY <1>0, <1>t DEF PullerTypes
  <2>9. /\ a[2] <= produced[p] /\ a[2] \notin Range(got[p]) \cup skipped[p]
        /\ \A k \in Range(got[p]) \cup skipped[p] : k <= a[2]
        /\ \A k \in 1..a[2] : k \in Range(got[p]) \cup skipped[p] \/ k = a[2]
    <3>1. \A k \in Range(got[p]) \cup skipped[p] : k <= served[p][2]
      BY <2>7 DEF InOrder
    <3>2. CASE a = served[p] /\ package[p] = served[p][1]
      <4>1. Open(p) BY <3>2 DEF Open
      <4> QED BY <2>7, <3>1, <3>2, <4>1 DEF InOrder
    <3>3. CASE /\ package[p] # served[p][1] /\ served[p][2] < produced[p]
               /\ a[2] = served[p][2] + 1
      <4>1. ~Open(p) BY <3>3 DEF Open
      <4>2. a[2] <= produced[p] /\ a[2] \in Nat BY <1>t, <3>3
      <4>3. \A k \in Range(got[p]) \cup skipped[p] : k < a[2] /\ k <= a[2]
        BY <1>t, <2>8, <3>1, <3>3
      <4>4. a[2] \notin Range(got[p]) \cup skipped[p] BY <4>2, <4>3
      <4>5. ASSUME NEW k \in 1..a[2], k # a[2] PROVE k \in Range(got[p]) \cup skipped[p]
        <5>1. k \in 1..served[p][2] BY <1>t, <3>3, <4>5
        <5> QED BY <2>7, <4>1, <5>1 DEF InOrder
      <4> QED BY <4>2, <4>3, <4>4, <4>5
    <3> QED BY <2>1, <3>2, <3>3
  <2>10. InOrder(p)'
    <3>1. /\ got' = got /\ skipped' = skipped /\ produced' = produced /\ package' = package
      BY <1>s
    <3>2. Increasing(got[p]) /\ package[p] >= 1 /\ \A k \in skipped[p] : k \notin Range(got[p])
      BY <2>7 DEF InOrder
    <3>3. /\ served'[p][2] <= produced'[p] /\ package'[p] >= 1
          /\ pc'[p] \in {"route", "push"} => rec'[p] = served'[p] /\ Open(p)'
      BY <2>5, <2>6, <2>9, <3>1, <3>2
    <3>4. /\ Increasing(got'[p]) /\ \A k \in Range(got'[p]) : k <= served'[p][2]
          /\ \A k \in skipped'[p] : k <= served'[p][2] /\ k \notin Range(got'[p])
          /\ served'[p][2] \notin Range(got'[p]) \cup skipped'[p]
      BY <2>5, <2>9, <3>1, <3>2
    <3>5. \A k \in 1..served'[p][2] :
            k \in Range(got'[p]) \cup skipped'[p] \/ (Open(p)' /\ k = served'[p][2])
      BY <2>5, <2>6, <2>9, <3>1
    <3> QED BY <3>3, <3>4, <3>5 DEF InOrder
  <2>11. ASSUME NEW q \in Pullers, q # p PROVE InOrder(q)'
    <3>1. served'[q] = served[q] /\ rec'[q] = rec[q] /\ pc'[q] = pc[q]
      BY <1>0, <2>3, <2>11 DEF PullerTypes
    <3> QED BY <1>0, <1>s, <3>1, Untouched
  <2> QED BY <2>4, <2>10, <2>11 DEF PullerInv
<1>1. ASSUME NEW p \in Pullers, Produce(p) PROVE PullerInv'
  <2>1. /\ produced' = [produced EXCEPT ![p] = produced[p] + 1]
        /\ UNCHANGED <<served, pc, package, rec, got, skipped>>
    BY <1>1 DEF Produce, puller, past
  <2>2. PullerTypes' BY <1>0, <1>t, <2>1 DEF PullerTypes
  <2>3. produced'[p] = produced[p] + 1 BY <1>0, <2>1 DEF PullerTypes
  <2>4. served[p][2] <= produced'[p] BY <1>0, <1>t, <2>3 DEF InOrder
  <2>5. InOrder(p)' BY <1>0, <2>1, <2>4 DEF InOrder, Open
  <2>6. ASSUME NEW q \in Pullers, q # p PROVE InOrder(q)'
    BY <1>0, <2>1, <2>6, Untouched DEF PullerTypes
  <2> QED BY <2>2, <2>5, <2>6 DEF PullerInv
<1>2. ASSUME NEW p \in Pullers, SubscribeFails(p) PROVE PullerInv'
  <2>1. /\ pc[p] = "ask" /\ UNCHANGED <<produced, package, rec, got, skipped>>
        /\ \E where \in {"init", "ask"} : pc' = [pc EXCEPT ![p] = where]
    BY <1>2 DEF SubscribeFails, At, Goto, past
  <2>2. CASE UNCHANGED served BY <1>g, <2>1, <2>2
  <2>3. CASE Answer(p, package[p]) # None /\ served' = [served EXCEPT ![p] = Answer(p, package[p])]
    BY <1>s, <2>1, <2>3
  <2> QED BY <1>2, <2>2, <2>3 DEF SubscribeFails
<1>3. ASSUME NEW p \in Pullers, SubscribeRefused(p) PROVE PullerInv'
  BY <1>g, <1>3 DEF SubscribeRefused, Goto, broker, past
<1>4. ASSUME NEW p \in Pullers, SubscribeNoData(p) \/ Break(p) PROVE PullerInv'
  BY <1>f, <1>4 DEF SubscribeNoData, Break, pullerVars, broker, puller, past
<1>5. ASSUME NEW p \in Pullers, SubscribeSucceeds(p) PROVE PullerInv'
  BY <1>s, <1>5 DEF SubscribeSucceeds, At, Goto, past
<1>6. ASSUME NEW p \in Pullers, InitMinosPipe(p) PROVE PullerInv'
  <2>1. /\ served' = [served EXCEPT ![p] = <<0, produced[p]>>]
        /\ skipped' = [skipped EXCEPT ![p] = (1..produced[p]) \ Range(got[p])]
        /\ UNCHANGED <<produced, package, rec, got>>
        /\ pc[p] = "init" /\ \E where \in {"init", "ask"} : pc' = [pc EXCEPT ![p] = where]
    BY <1>0, <1>6 DEF InitMinosPipe, Resubscribe, At, Goto, PullerTypes
  <2>2. PullerTypes' BY <1>0, <1>t, <2>1 DEF PullerTypes
  <2>3. /\ served'[p] = <<0, produced[p]>> /\ skipped'[p] = (1..produced[p]) \ Range(got[p])
        /\ pc'[p] \in {"init", "ask"}
    BY <1>0, <2>1 DEF PullerTypes
  <2>4. ~Open(p)' BY <1>0, <1>t, <2>1, <2>3 DEF InOrder, Open
  <2>5. \A k \in Range(got[p]) : k <= produced[p]
    <3>1. \A k \in Range(got[p]) : k \in Nat /\ k <= served[p][2] /\ served[p][2] <= produced[p]
      BY <1>0, <1>t DEF InOrder
    <3> QED BY <1>t, <3>1
  <2>6. InOrder(p)'
    BY <1>0, <1>t, <2>1, <2>3, <2>4, <2>5 DEF InOrder
  <2>7. ASSUME NEW q \in Pullers, q # p PROVE InOrder(q)'
    BY <1>0, <2>1, <2>7, Untouched DEF PullerTypes
  <2> QED BY <2>2, <2>6, <2>7 DEF PullerInv
<1>7. ASSUME NEW p \in Pullers, FilterOut(p) \/ HandToResender(p) \/ Push(p)
      PROVE  PullerInv'
  BY <1>7, FinishStep DEF FilterOut, HandToResender, Push, At, broker
<1>8. ASSUME NEW p \in Pullers, Keep(p) PROVE PullerInv'
  <2>1. /\ pc[p] = "route" /\ pc' = [pc EXCEPT ![p] = "push"]
        /\ UNCHANGED <<produced, served, package, rec, got, skipped>>
    BY <1>8 DEF Keep, At, Goto, broker
  <2>2. PullerTypes' BY <1>0, <2>1 DEF PullerTypes
  <2>3. InOrder(p)' BY <1>0, <2>1 DEF InOrder, Open
  <2>4. ASSUME NEW q \in Pullers, q # p PROVE InOrder(q)'
    BY <1>0, <2>1, <2>4, Untouched DEF PullerTypes
  <2> QED BY <2>2, <2>3, <2>4 DEF PullerInv
<1>9. ASSUME NEW p \in Pullers, NEW r \in Resenders, Resend(p, r) PROVE PullerInv'
  <2>1. Resender(p, r)
    BY <1>9 DEF Resend, NoRelaxingNode, FindRelaxingNode, CallRetransmit, RetransmitReplyLost
  <2> QED BY <1>f, <2>1 DEF Resender, pullerVars, broker, puller
<1>10. ASSUME \/ \E p \in Switched, op \in BOOLEAN : PullSwitchConfig(p, op)
              \/ \E n \in Pressed, level \in {"low", "high"} : UpdateHealth(n, level)
              \/ \E n \in Nodes : SubmitHealthInfo(n)
              \/ \E n \in Nodes, k \in Kinds : Consume(n, k)
              \/ UNCHANGED vars
       PROVE  PullerInv'
  <2>1. UNCHANGED <<broker, puller, got, skipped>>
    BY <1>10 DEF PullSwitchConfig, UpdateHealth, SubmitHealthInfo, Consume, vars, past
  <2> QED BY <1>f, <2>1 DEF pullerVars, broker, puller
<1>11. ASSUME NEW n \in Nodes, Die(n) PROVE PullerInv'
  <2>1. /\ UNCHANGED <<produced, served, package, got, skipped>>
        /\ pc' = [p \in Pullers |-> IF p[1] = n THEN "init" ELSE pc[p]]
        /\ rec' = [p \in Pullers |-> IF p[1] = n THEN None ELSE rec[p]]
    BY <1>11 DEF Die, broker
  <2>2. PullerTypes' BY <1>0, <2>1 DEF PullerTypes
  <2>3. ASSUME NEW q \in Pullers PROVE InOrder(q)'
    <3>1. CASE q[1] = n
      <4>1. pc'[q] = "init" BY <2>1, <3>1
      <4> QED BY <1>0, <2>1, <4>1 DEF InOrder, Open
    <3>2. CASE q[1] # n BY <1>0, <2>1, <3>2, Untouched
    <3> QED BY <3>1, <3>2
  <2> QED BY <2>2, <2>3 DEF PullerInv
<1> QED
  BY <1>1, <1>2, <1>3, <1>4, <1>5, <1>6, <1>7, <1>8, <1>9, <1>10, <1>11
     DEF Next, IntakeNext, Subscribe

-------------------------------------------------------------------------------
(* Types.  A record in hand is one the broker has. *)

Fed(p) == produced[p] <= Len(Feed[p]) /\ (Open(p) => served[p][2] >= 1)

FedInv == \A p \in Pullers : Fed(p)

\* At first nothing is produced and nothing was asked for.
LEMMA FedInit == Init => FedInv
<1> SUFFICES ASSUME Init, NEW p \in Pullers PROVE Fed(p) BY DEF FedInv
<1>1. Feed[p] \in Seq(Records) BY IntakeAssumption
<1>2. Len(Feed[p]) \in Nat BY <1>1
<1>3. produced[p] = 0 /\ served[p] = <<0, 0>> /\ package[p] = 1 BY DEF Init
<1>4. ~Open(p) BY <1>3 DEF Open
<1> QED BY <1>2, <1>3, <1>4 DEF Fed

\* The broker serves what it has, and the next package id has not been served.
LEMMA FedStep == PullerInv /\ FedInv /\ [Next]_vars => FedInv'
<1> SUFFICES ASSUME PullerInv, FedInv, [Next]_vars PROVE FedInv' OBVIOUS
<1>0. PullerTypes /\ \A p \in Pullers : InOrder(p) /\ Fed(p) BY DEF PullerInv, FedInv
<1>t. \A q \in Pullers : /\ served[q] \in Nat \X Nat /\ served[q][1] \in Nat
                         /\ served[q][2] \in Nat /\ produced[q] \in Nat /\ package[q] \in Nat
                         /\ Len(Feed[q]) \in Nat
  <2> TAKE q \in Pullers
  <2>1. Feed[q] \in Seq(Records) BY IntakeAssumption
  <2> QED BY <1>0, <2>1 DEF PullerTypes
<1>f. ASSUME UNCHANGED <<produced, served, package>> PROVE FedInv'
  BY <1>0, <1>f DEF FedInv, Fed, Open
<1>s. ASSUME NEW p \in Pullers, Answer(p, package[p]) # None,
             served' = [served EXCEPT ![p] = Answer(p, package[p])],
             UNCHANGED <<produced, package>>
      PROVE  FedInv'
  <2> SUFFICES ASSUME NEW q \in Pullers PROVE Fed(q)' BY DEF FedInv
  <2>1. CASE q # p
    <3>1. served'[q] = served[q] BY <1>0, <1>s, <2>1 DEF PullerTypes
    <3> QED BY <1>0, <1>s, <3>1 DEF Fed, Open
  <2>2. CASE q = p
    <3>1. served'[p] = Answer(p, package[p]) BY <1>0, <1>s DEF PullerTypes
    <3>2. Answer(p, package[p])[2] >= 1
      <4>1. CASE package[p] = served[p][1] /\ Answer(p, package[p]) = served[p]
        BY <1>0, <4>1 DEF Fed, Open
      <4>2. CASE Answer(p, package[p]) = <<package[p], served[p][2] + 1>>
        BY <1>t, <4>2
      <4> QED BY <1>s, <4>1, <4>2, AnswerIs
    <3>3. produced'[p] <= Len(Feed[p]) BY <1>0, <1>s DEF Fed
    <3> QED BY <2>2, <3>1, <3>2, <3>3 DEF Fed
  <2> QED BY <2>1, <2>2
<1>n. ASSUME NEW p \in Pullers, served'[p][1] # package'[p], UNCHANGED produced,
             \A q \in Pullers : q # p => served'[q] = served[q] /\ package'[q] = package[q]
      PROVE  FedInv'
  <2> SUFFICES ASSUME NEW q \in Pullers PROVE Fed(q)' BY DEF FedInv
  <2>1. CASE q # p BY <1>0, <1>n, <2>1 DEF Fed, Open
  <2>2. CASE q = p BY <1>0, <1>n, <2>2 DEF Fed, Open
  <2> QED BY <2>1, <2>2
<1>1. ASSUME NEW p \in Pullers, Produce(p) PROVE FedInv'
  <2>1. /\ produced[p] < Len(Feed[p]) /\ UNCHANGED <<served, package>>
        /\ produced' = [produced EXCEPT ![p] = produced[p] + 1]
    BY <1>1 DEF Produce, puller
  <2>2. \A q \in Pullers : produced'[q] = IF q = p THEN produced[p] + 1 ELSE produced[q]
    BY <1>0, <2>1 DEF PullerTypes
  <2>3. \A q \in Pullers : produced'[q] <= Len(Feed[q]) BY <1>0, <1>t, <2>1, <2>2 DEF Fed
  <2> QED BY <1>0, <2>1, <2>3 DEF FedInv, Fed, Open
<1>2. ASSUME NEW p \in Pullers, SubscribeFails(p) PROVE FedInv'
  BY <1>2, <1>f, <1>s DEF SubscribeFails
<1>3. ASSUME NEW p \in Pullers, SubscribeRefused(p) \/ SubscribeNoData(p) \/ Break(p) PROVE FedInv'
  BY <1>3, <1>f DEF SubscribeRefused, SubscribeNoData, Break, broker, puller
<1>4. ASSUME NEW p \in Pullers, SubscribeSucceeds(p) PROVE FedInv'
  BY <1>4, <1>s DEF SubscribeSucceeds
<1>5. ASSUME NEW p \in Pullers, InitMinosPipe(p) PROVE FedInv'
  <2>1. served' = [served EXCEPT ![p] = <<0, produced[p]>>] /\ UNCHANGED <<produced, package>>
    BY <1>5 DEF InitMinosPipe, Resubscribe
  <2>2. served'[p] = <<0, produced[p]>> /\ \A q \in Pullers : q # p => served'[q] = served[q]
    BY <1>0, <2>1 DEF PullerTypes
  <2>3. served'[p][1] = 0 /\ package'[p] >= 1 BY <1>0, <2>1, <2>2 DEF InOrder
  <2>4. served'[p][1] # package'[p] BY <2>3
  <2> QED BY <1>n, <2>1, <2>2, <2>4
<1>6. ASSUME NEW p \in Pullers, FilterOut(p) \/ HandToResender(p) \/ Push(p) PROVE FedInv'
  <2>1. /\ pc[p] \in {"route", "push"} /\ UNCHANGED <<produced, served>>
        /\ package' = [package EXCEPT ![p] = rec[p][1] + 1]
    BY <1>6 DEF FilterOut, HandToResender, Push, FinishPackage, At, broker
  <2>2. rec[p] = served[p] BY <1>0, <2>1 DEF InOrder
  <2>3. /\ package'[p] = served[p][1] + 1
        /\ \A q \in Pullers : q # p => package'[q] = package[q]
    BY <1>0, <2>1, <2>2 DEF PullerTypes
  <2>4. served'[p][1] # package'[p] BY <1>t, <2>1, <2>3
  <2> QED BY <1>n, <2>1, <2>3, <2>4
<1>7. ASSUME NEW p \in Pullers, Keep(p) PROVE FedInv'
  BY <1>7, <1>f DEF Keep, broker
<1>8. ASSUME NEW p \in Pullers, NEW r \in Resenders, Resend(p, r) PROVE FedInv'
  <2>1. Resender(p, r)
    BY <1>8 DEF Resend, NoRelaxingNode, FindRelaxingNode, CallRetransmit, RetransmitReplyLost
  <2> QED BY <1>f, <2>1 DEF Resender, broker, puller
<1>9. ASSUME \/ \E p \in Switched, op \in BOOLEAN : PullSwitchConfig(p, op)
             \/ \E n \in Pressed, level \in {"low", "high"} : UpdateHealth(n, level)
             \/ \E n \in Nodes : SubmitHealthInfo(n)
             \/ \E n \in Nodes, k \in Kinds : Consume(n, k)
             \/ UNCHANGED vars
      PROVE  FedInv'
  <2>1. UNCHANGED <<broker, puller>>
    BY <1>9 DEF PullSwitchConfig, UpdateHealth, SubmitHealthInfo, Consume, vars
  <2> QED BY <1>f, <2>1 DEF broker, puller
<1>10. ASSUME NEW n \in Nodes, Die(n) PROVE FedInv'
  BY <1>10, <1>f DEF Die, broker
<1> QED
  BY <1>1, <1>2, <1>3, <1>4, <1>5, <1>6, <1>7, <1>8, <1>9, <1>10
     DEF Next, IntakeNext, Subscribe

\* The record in a puller's hands is the next one of its topic that the broker has.
LEMMA InHandIs ==
  ASSUME PullerInv, FedInv, NEW p \in Pullers, pc[p] \in {"route", "push"}
  PROVE  /\ rec[p] = served[p] /\ Open(p) /\ Body(p) \in Records
         /\ rec[p][2] \in Nat /\ rec[p][2] \in DOMAIN Feed[p] /\ rec[p][2] \notin Range(got[p])
<1>1. /\ rec[p] = served[p] /\ Open(p) /\ served[p][2] <= produced[p]
      /\ served[p][2] \notin Range(got[p])
  BY DEF PullerInv, InOrder
<1>2. produced[p] <= Len(Feed[p]) /\ served[p][2] >= 1 BY <1>1 DEF FedInv, Fed
<1>3. served[p] \in Nat \X Nat /\ produced[p] \in Nat BY DEF PullerInv, PullerTypes
<1>4. Feed[p] \in Seq(Records) BY IntakeAssumption
<1>5. served[p][2] \in Nat /\ Len(Feed[p]) \in Nat /\ DOMAIN Feed[p] = 1..Len(Feed[p])
  BY <1>3, <1>4
<1>6. served[p][2] \in 1..Len(Feed[p]) BY <1>1, <1>2, <1>3, <1>5
<1>7. Feed[p][served[p][2]] \in Records BY <1>4, <1>6
<1> QED BY <1>1, <1>5, <1>6, <1>7 DEF Body

QuietTypes ==
  /\ session \in [Pullers -> BOOLEAN]
  /\ status \in [Pullers -> {"SUCCEED", "NO_DATA_LEFT", "FAILED"}]
  /\ pullswitch \in [Pullers -> BOOLEAN]
  /\ health \in [Nodes -> {"low", "high"}] /\ report \in [Nodes -> {"low", "high", None}]
  /\ up \subseteq Nodes /\ Nodes \ up \subseteq Mortal

\* The subscriptions, switches, loads and nodes keep their types.
LEMMA QuietStep == QuietTypes /\ [Next]_vars => QuietTypes'
<1> SUFFICES ASSUME QuietTypes, [Next]_vars PROVE QuietTypes' OBVIOUS
<1>f. ASSUME UNCHANGED <<pullswitch, load, up>>,
             session' \in [Pullers -> BOOLEAN],
             status' \in [Pullers -> {"SUCCEED", "NO_DATA_LEFT", "FAILED"}]
      PROVE  QuietTypes'
  BY <1>f DEF QuietTypes, load
<1>1. ASSUME NEW p \in Pullers, Produce(p) \/ Break(p) \/ Subscribe(p) \/ SubscribeFails(p)
      PROVE  QuietTypes'
  <2>1. UNCHANGED <<pullswitch, load, up>>
    BY <1>1 DEF Produce, Break, Subscribe, SubscribeFails, SubscribeRefused, SubscribeNoData,
                SubscribeSucceeds, InitMinosPipe, FilterOut, HandToResender, Keep, Push
  <2>2. UNCHANGED session \/ \E b \in BOOLEAN : session' = [session EXCEPT ![p] = b]
    BY <1>1 DEF Produce, Break, Subscribe, SubscribeFails, SubscribeRefused, SubscribeNoData,
                SubscribeSucceeds, InitMinosPipe, Resubscribe, FilterOut, HandToResender, Keep,
                Push, broker
  <2>3. \/ UNCHANGED status
        \/ \E s \in {"SUCCEED", "NO_DATA_LEFT", "FAILED"} : status' = [status EXCEPT ![p] = s]
    BY <1>1 DEF Produce, Break, Subscribe, SubscribeFails, SubscribeRefused, SubscribeNoData,
                SubscribeSucceeds, InitMinosPipe, FilterOut, HandToResender, Keep,
                Push, FinishPackage, puller
  <2> QED BY <1>f, <2>1, <2>2, <2>3 DEF QuietTypes
<1>2. ASSUME NEW p \in Switched, NEW op \in BOOLEAN, PullSwitchConfig(p, op) PROVE QuietTypes'
  BY <1>2 DEF PullSwitchConfig, QuietTypes, broker, puller, load
<1>3. ASSUME NEW n \in Pressed, NEW level \in {"low", "high"}, UpdateHealth(n, level)
      PROVE  QuietTypes'
  BY <1>3 DEF UpdateHealth, QuietTypes, broker, puller
<1>4. ASSUME NEW n \in Nodes, SubmitHealthInfo(n) \/ Die(n) PROVE QuietTypes'
  <2>1. CASE SubmitHealthInfo(n)
    BY <2>1 DEF SubmitHealthInfo, QuietTypes, broker, puller
  <2>2. CASE Die(n)
    <3>1. UNCHANGED <<session, status, pullswitch, health, report>>
      BY <2>2 DEF Die, broker, load
    <3>2. up' = up \ {n} /\ n \in Mortal BY <2>2 DEF Die
    <3> QED BY <3>1, <3>2 DEF QuietTypes
  <2> QED BY <1>4, <2>1, <2>2
<1>5. ASSUME NEW p \in Pullers, NEW r \in Resenders, Resend(p, r) PROVE QuietTypes'
  <2>1. Resender(p, r)
    BY <1>5 DEF Resend, NoRelaxingNode, FindRelaxingNode, CallRetransmit, RetransmitReplyLost
  <2> QED BY <1>f, <2>1 DEF Resender, QuietTypes, broker, puller
<1>6. ASSUME (\E n \in Nodes, k \in Kinds : Consume(n, k)) \/ UNCHANGED vars PROVE QuietTypes'
  <2>1. UNCHANGED <<session, status, pullswitch, load, up>>
    BY <1>6 DEF Consume, vars, broker, puller
  <2> QED BY <1>f, <2>1 DEF QuietTypes
<1> QED BY <1>1, <1>2, <1>3, <1>4, <1>5, <1>6 DEF Next, IntakeNext

-------------------------------------------------------------------------------
(* The ledger: where a counted record is, and how often. *)

LedgerTypes ==
  /\ backlog \in [Pullers -> Seq(Copy)]
  /\ sending \in [Pullers -> [Resenders -> Errand \cup {None}]]
  /\ queue \in [Nodes -> [Kinds -> Seq(Records)]]
  /\ counted \in [Records -> Nat] /\ taken \in [Records -> Nat]
  /\ resent \subseteq Records /\ lost \subseteq Records /\ diedQueued \subseteq Records
  /\ lostReplies \in 0..MaxLostReplies

CopyOf(m, k) == [body |-> m, type |-> k]
Rows         == [at \in Nodes \X Kinds |-> queue[at[1]][at[2]]]

Hands(m)   == Cardinality({p \in Pullers : pc[p] = "push" /\ Body(p) = m})
Waits(m)   == Times(backlog, CopyOf(m, "old")) + Times(backlog, CopyOf(m, "new"))
Errands(m) == Cardinality({place \in Pullers \X Resenders : Sends(place[1], place[2], m)})
Total(m)   == Copies(m) + Hands(m) + Waits(m) + Errands(m)

\* A record that is counted is somewhere, lost or died with a node, and more often than
\* once only as replies were lost; only counted records are anywhere; only those resent
\* are on the way or lost.
Ledger(m) ==
  /\ counted[m] <= 1 /\ Total(m) <= counted[m] + lostReplies
  /\ Total(m) > 0 => counted[m] = 1
  /\ counted[m] = 1 => Total(m) > 0 \/ m \in lost \/ m \in diedQueued
  /\ Waits(m) + Errands(m) > 0 => m \in resent
  /\ m \in lost => m \in resent
  /\ m \in resent \/ m \in diedQueued => counted[m] = 1

\* A counted record has been handled or is about to be put into its queue, if the node
\* that pulled it is alive.
Counted(m) ==
  counted[m] > 0 => \E p \in Pullers : \E i \in DOMAIN Feed[p] :
    /\ Feed[p][i] = m
    /\ i \in Range(got[p]) \/ (pc[p] = "push" /\ rec[p][2] = i) \/ p[1] \notin up

LedgerInv == LedgerTypes /\ \A m \in Records : Ledger(m) /\ Counted(m)

IntakeInv == PullerInv /\ FedInv /\ QuietTypes /\ LedgerInv

-------------------------------------------------------------------------------
(* How often a record stands in each place, and what a step does to it. *)

\* There are finitely many queues and pullers.
LEMMA PlacesFinite == IsFiniteSet(Nodes \X Kinds) /\ IsFiniteSet(Pullers)
<1>1. IsFiniteSet({"old"}) BY FS_Singleton
<1>2. Kinds = {"old"} \cup {"new"} BY DEF Kinds
<1>3. IsFiniteSet(Kinds) BY <1>1, <1>2, FS_AddElement
<1>4. IsFiniteSet(Nodes \X Kinds) BY <1>3, IntakeAssumption, FS_Product
<1> QED BY <1>4, IntakeAssumption, FS_Subset

\* The queues are finitely many lines of records.
LEMMA CopiesAre ==
  ASSUME LedgerTypes, NEW m \in Records
  PROVE  /\ IsFiniteSet(Nodes \X Kinds) /\ AreLines(Rows, Nodes \X Kinds, Records)
         /\ taken[m] \in Nat /\ Times(Rows, m) \in Nat /\ Copies(m) = taken[m] + Times(Rows, m)
         /\ Copies(m) \in Nat /\ (Copies(m) > 0 <=> Queued(m) \/ taken[m] > 0)
<1>1. IsFiniteSet(Nodes \X Kinds) BY PlacesFinite
<1>2. queue \in [Nodes -> [Kinds -> Seq(Records)]] /\ taken[m] \in Nat BY DEF LedgerTypes
<1>3. AreLines(Rows, Nodes \X Kinds, Records)
  <2>1. \A at \in Nodes \X Kinds : queue[at[1]][at[2]] \in Seq(Records) BY <1>2
  <2> QED BY <2>1 DEF AreLines, Rows
<1>4. /\ Times(Rows, m) \in Nat
      /\ Times(Rows, m) > 0 <=> \E at \in Nodes \X Kinds, i \in Nat :
                                   i \in 1..Len(Rows[at]) /\ Rows[at][i] = m
  BY <1>1, <1>3, TimesOf
<1>5. Copies(m) = taken[m] + Times(Rows, m) BY DEF Copies, Rows
<1>6. Queued(m) <=> \E at \in Nodes \X Kinds, i \in Nat :
                      i \in 1..Len(Rows[at]) /\ Rows[at][i] = m
  <2>1. ASSUME NEW n \in Nodes, NEW k \in Kinds, m \in Range(queue[n][k])
        PROVE  \E at \in Nodes \X Kinds, i \in Nat : i \in 1..Len(Rows[at]) /\ Rows[at][i] = m
    <3>1. queue[n][k] \in Seq(Records) BY <1>2
    <3>2. PICK i \in DOMAIN queue[n][k] : queue[n][k][i] = m BY <2>1 DEF Range
    <3>3. i \in Nat /\ i \in 1..Len(queue[n][k]) BY <3>1, <3>2
    <3>4. <<n, k>> \in Nodes \X Kinds /\ Rows[<<n, k>>] = queue[n][k] BY DEF Rows
    <3> QED BY <3>2, <3>3, <3>4
  <2>2. ASSUME NEW at \in Nodes \X Kinds, NEW i \in Nat, i \in 1..Len(Rows[at]), Rows[at][i] = m
        PROVE  Queued(m)
    <3>1. Rows[at] = queue[at[1]][at[2]] /\ at[1] \in Nodes /\ at[2] \in Kinds BY DEF Rows
    <3>2. queue[at[1]][at[2]] \in Seq(Records) BY <1>2, <3>1
    <3>3. i \in DOMAIN queue[at[1]][at[2]] BY <2>2, <3>1, <3>2
    <3>4. m \in Range(queue[at[1]][at[2]]) BY <2>2, <3>1, <3>3 DEF Range
    <3> QED BY <3>1, <3>4 DEF Queued, StandsIn
  <2> QED BY <2>1, <2>2 DEF Queued, StandsIn
<1> HIDE DEF Rows
<1> QED BY <1>1, <1>2, <1>3, <1>4, <1>5, <1>6

\* A record that is put into a queue is there once more.
LEMMA CopiesJoin ==
  ASSUME LedgerTypes, NEW n \in Nodes, NEW k \in Kinds, NEW x \in Records, Enqueue(n, k, x),
         UNCHANGED taken, NEW m \in Records
  PROVE  /\ queue' \in [Nodes -> [Kinds -> Seq(Records)]]
         /\ Copies(m) \in Nat /\ Copies(m)' = IF m = x THEN Copies(m) + 1 ELSE Copies(m)
<1>0. queue \in [Nodes -> [Kinds -> Seq(Records)]] BY DEF LedgerTypes
<1>1. queue' = [queue EXCEPT ![n][k] = Append(queue[n][k], x)] BY DEF Enqueue
<1>2. Append(queue[n][k], x) \in Seq(Records)
  <2>1. queue[n][k] \in Seq(Records) BY <1>0
  <2> QED BY <2>1
<1>3. queue' \in [Nodes -> [Kinds -> Seq(Records)]] BY <1>0, <1>1, <1>2
<1>4. Joins(Rows, Rows', <<n, k>>, x)
  <2>1. \A at \in Nodes \X Kinds : queue'[at[1]][at[2]] =
          IF at = <<n, k>> THEN Append(queue[n][k], x) ELSE queue[at[1]][at[2]]
    BY <1>0, <1>1
  <2>2. Rows' = [Rows EXCEPT ![<<n, k>>] = Append(Rows[<<n, k>>], x)] BY <2>1 DEF Rows
  <2> QED BY <2>2 DEF Joins
<1>5. /\ IsFiniteSet(Nodes \X Kinds) /\ AreLines(Rows, Nodes \X Kinds, Records)
      /\ taken[m] \in Nat /\ Times(Rows, m) \in Nat /\ Copies(m) = taken[m] + Times(Rows, m)
  BY CopiesAre
<1>6. <<n, k>> \in Nodes \X Kinds OBVIOUS
<1>7. /\ AreLines(Rows', Nodes \X Kinds, Records)
      /\ Times(Rows', m) = IF m = x THEN Times(Rows, m) + 1 ELSE Times(Rows, m)
  BY ONLY <1>4, <1>5, <1>6, x \in Records, TimesJoin
<1>8. Copies(m)' = taken[m] + Times(Rows', m) BY DEF Copies, Rows
<1> HIDE DEF Rows
<1>9. Copies(m) \in Nat /\ Copies(m)' = IF m = x THEN Copies(m) + 1 ELSE Copies(m)
  BY ONLY <1>5, <1>7, <1>8
<1> QED BY <1>3, <1>9

\* A record that is consumed is counted as taken instead of as queued.
LEMMA CopiesLeave ==
  ASSUME LedgerTypes, NEW n \in Nodes, NEW k \in Kinds, queue[n][k] # <<>>,
         queue' = [queue EXCEPT ![n][k] = Tail(queue[n][k])],
         taken' = [taken EXCEPT ![Head(queue[n][k])] = taken[Head(queue[n][k])] + 1],
         NEW m \in Records
  PROVE  /\ queue' \in [Nodes -> [Kinds -> Seq(Records)]] /\ taken' \in [Records -> Nat]
         /\ Copies(m) \in Nat /\ Copies(m)' = Copies(m)
<1>0. queue \in [Nodes -> [Kinds -> Seq(Records)]] /\ taken \in [Records -> Nat]
  BY DEF LedgerTypes
<1>1. queue[n][k] \in Seq(Records) BY <1>0
<1>2. Tail(queue[n][k]) \in Seq(Records) BY <1>1
<1>x. PICK x \in Records : x = Head(queue[n][k]) BY <1>1
<1>3. queue' \in [Nodes -> [Kinds -> Seq(Records)]] BY <1>0, <1>2
<1>c. taken[x] + 1 \in Nat BY <1>0
<1>t. taken' = [taken EXCEPT ![x] = taken[x] + 1] BY <1>x
<1>4. /\ taken' \in [Records -> Nat]
      /\ taken'[m] = IF m = x THEN taken[m] + 1 ELSE taken[m]
  BY ONLY <1>0, <1>c, <1>t, m \in Records
<1>5. Leaves(Rows, Rows', <<n, k>>)
  <2>1. \A at \in Nodes \X Kinds : queue'[at[1]][at[2]] =
          IF at = <<n, k>> THEN Tail(queue[n][k]) ELSE queue[at[1]][at[2]]
    BY <1>0
  <2>2. Rows' = [Rows EXCEPT ![<<n, k>>] = Tail(Rows[<<n, k>>])] BY <2>1 DEF Rows
  <2>3. Rows[<<n, k>>] # <<>> BY DEF Rows
  <2> QED BY <2>2, <2>3 DEF Leaves
<1>6. /\ IsFiniteSet(Nodes \X Kinds) /\ AreLines(Rows, Nodes \X Kinds, Records)
      /\ taken[m] \in Nat /\ Times(Rows, m) \in Nat /\ Copies(m) = taken[m] + Times(Rows, m)
  BY CopiesAre
<1>7. <<n, k>> \in Nodes \X Kinds /\ Head(Rows[<<n, k>>]) = x BY <1>x DEF Rows
<1>8. /\ AreLines(Rows', Nodes \X Kinds, Records)
      /\ Times(Rows, m) = IF m = Head(Rows[<<n, k>>]) THEN Times(Rows', m) + 1 ELSE Times(Rows', m)
  BY ONLY <1>5, <1>6, <1>7, TimesLeave
<1>n. Times(Rows', m) \in Nat BY ONLY <1>6, <1>8, TimesOf
<1>9. Copies(m)' = taken'[m] + Times(Rows', m) BY DEF Copies, Rows
<1> HIDE DEF Rows
<1>10. Copies(m) \in Nat /\ Copies(m)' = Copies(m)
  <2>1. m = x => Copies(m)' = Copies(m) BY ONLY <1>4, <1>6, <1>7, <1>8, <1>n, <1>9
  <2>2. m # x => Copies(m)' = Copies(m) BY ONLY <1>4, <1>6, <1>7, <1>8, <1>n, <1>9
  <2> QED BY <1>6, <2>1, <2>2
<1> QED BY <1>3, <1>4, <1>10

\* A puller either has the record to push or not, whatever the others have.
LEMMA HandsMove ==
  ASSUME NEW p \in Pullers, NEW m \in Records,
         \A q \in Pullers : q # p => (pc'[q] = "push" <=> pc[q] = "push") /\ rec'[q] = rec[q]
  PROVE  LET before == pc[p] = "push" /\ Body(p) = m
             after  == pc'[p] = "push" /\ Body(p)' = m
         IN /\ Hands(m) \in Nat /\ Hands(m)' \in Nat
            /\ before /\ ~after => Hands(m) = Hands(m)' + 1
            /\ ~before /\ after => Hands(m)' = Hands(m) + 1
            /\ (before <=> after) => Hands(m)' = Hands(m)
<1> DEFINE A == {q \in Pullers : pc[q] = "push" /\ Body(q) = m}
           B == {q \in Pullers : pc'[q] = "push" /\ Body(q)' = m}
<1>1. IsFiniteSet(Pullers) BY PlacesFinite
<1>2. Hands(m) = Cardinality(A) /\ Hands(m)' = Cardinality(B) BY DEF Hands
<1>3. A \in SUBSET Pullers /\ B \in SUBSET Pullers OBVIOUS
<1>4. \A q \in Pullers : q # p => (q \in A <=> q \in B) BY DEF Body
<1>5. p \in A <=> (pc[p] = "push" /\ Body(p) = m) OBVIOUS
<1>6. p \in B <=> (pc'[p] = "push" /\ Body(p)' = m) OBVIOUS
<1> HIDE DEF A, B
<1>7. /\ Cardinality(A) \in Nat /\ Cardinality(B) \in Nat
      /\ p \in A /\ p \notin B => Cardinality(A) = Cardinality(B) + 1
      /\ p \notin A /\ p \in B => Cardinality(B) = Cardinality(A) + 1
      /\ (p \in A <=> p \in B) => Cardinality(A) = Cardinality(B)
  BY <1>1, <1>3, <1>4, OnePlaceChanges
<1> QED BY <1>2, <1>5, <1>6, <1>7

\* A step in which no puller gets or gives away a record to push.
LEMMA HandsSame ==
  ASSUME NEW m \in Records,
         \A q \in Pullers : /\ pc'[q] = "push" <=> pc[q] = "push"
                            /\ pc[q] = "push" => rec'[q] = rec[q]
  PROVE  Hands(m)' = Hands(m)
BY DEF Hands, Body

\* A record has pushers or none.
LEMMA HandsAre ==
  ASSUME NEW m \in Records
  PROVE  Hands(m) \in Nat /\ (Hands(m) > 0 <=> InHand(m))
<1> DEFINE A == {q \in Pullers : pc[q] = "push" /\ Body(q) = m}
<1>1. IsFiniteSet(Pullers) BY PlacesFinite
<1>2. IsFiniteSet(A) BY <1>1, FS_Subset
<1>3. Hands(m) = Cardinality(A) BY DEF Hands
<1>4. InHand(m) <=> A # {} BY DEF InHand, Holds
<1> HIDE DEF A
<1>5. Cardinality(A) \in Nat /\ (Cardinality(A) = 0 <=> A = {})
  BY <1>2, FS_EmptySet, FS_CardinalityType
<1> QED BY <1>3, <1>4, <1>5

\* The two copies of a record differ, and every copy is one of a record.
LEMMA CopiesDiffer ==
  ASSUME NEW copy \in Copy, NEW m \in Records
  PROVE  /\ CopyOf(m, "old") \in Copy /\ CopyOf(m, "new") \in Copy
         /\ copy.body \in Records /\ copy.type \in Kinds
         /\ CopyOf(m, "old") = copy <=> copy.body = m /\ copy.type = "old"
         /\ CopyOf(m, "new") = copy <=> copy.body = m /\ copy.type = "new"
<1>1. PICK b \in Records, k \in Kinds : copy = [body |-> b, type |-> k] BY DEF Copy
<1>2. copy.body = b /\ copy.type = k BY <1>1
<1>3. \A j \in {"old", "new"} : [body |-> m, type |-> j] = copy <=> m = b /\ j = k
  BY <1>1
<1> QED BY <1>1, <1>2, <1>3 DEF CopyOf, Copy, Kinds

\* The backlogs are finitely many lines of copies.
LEMMA WaitsAre ==
  ASSUME LedgerTypes, NEW m \in Records
  PROVE  /\ IsFiniteSet(Pullers) /\ AreLines(backlog, Pullers, Copy)
         /\ Times(backlog, CopyOf(m, "old")) \in Nat /\ Times(backlog, CopyOf(m, "new")) \in Nat
         /\ Waits(m) \in Nat /\ (Waits(m) > 0 <=> Waiting(m))
<1>1. IsFiniteSet(Pullers) BY PlacesFinite
<1>2. AreLines(backlog, Pullers, Copy) BY DEF LedgerTypes, AreLines
<1>3. \A copy : /\ Times(backlog, copy) \in Nat
                /\ Times(backlog, copy) > 0 <=> \E p \in Pullers, i \in Nat :
                     i \in 1..Len(backlog[p]) /\ backlog[p][i] = copy
  BY <1>1, <1>2, TimesOf
<1>4. Waits(m) \in Nat /\ (Waits(m) > 0 <=> \/ Times(backlog, CopyOf(m, "old")) > 0
                                             \/ Times(backlog, CopyOf(m, "new")) > 0)
  BY <1>3 DEF Waits
<1>5. ASSUME NEW p \in Pullers, NEW i \in DOMAIN backlog[p]
      PROVE  /\ i \in Nat /\ i \in 1..Len(backlog[p])
             /\ backlog[p][i].body = m <=> \/ backlog[p][i] = CopyOf(m, "old")
                                           \/ backlog[p][i] = CopyOf(m, "new")
  <2>1. backlog[p] \in Seq(Copy) BY DEF LedgerTypes
  <2>2. i \in Nat /\ i \in 1..Len(backlog[p]) /\ backlog[p][i] \in Copy BY <2>1
  <2> QED BY <2>2, CopiesDiffer DEF Kinds
<1>6. \A p \in Pullers : \A i \in 1..Len(backlog[p]) : i \in DOMAIN backlog[p]
  <2> TAKE p \in Pullers
  <2>1. backlog[p] \in Seq(Copy) BY DEF LedgerTypes
  <2> QED BY <2>1
<1>7. Waits(m) > 0 <=> Waiting(m)
  <2>1. ASSUME Waiting(m) PROVE Waits(m) > 0 BY <1>3, <1>4, <1>5, <2>1 DEF Waiting, Awaits
  <2>2. ASSUME Waits(m) > 0 PROVE Waiting(m)
    <3>1. PICK k \in {"old", "new"} : Times(backlog, CopyOf(m, k)) > 0 BY <1>4, <2>2
    <3>2. PICK p \in Pullers, i \in Nat :
            i \in 1..Len(backlog[p]) /\ backlog[p][i] = CopyOf(m, k)
      BY <1>3, <3>1
    <3>3. i \in DOMAIN backlog[p] BY <1>6, <3>2
    <3>4. backlog[p][i].body = m BY <3>2 DEF CopyOf
    <3> QED BY <3>3, <3>4 DEF Waiting, Awaits
  <2> QED BY <2>1, <2>2
<1> QED BY <1>1, <1>2, <1>3, <1>4, <1>7

\* A record handed to a resender waits once more.
LEMMA WaitsJoin ==
  ASSUME LedgerTypes, NEW p \in Pullers, NEW copy \in Copy,
         backlog' = [backlog EXCEPT ![p] = Append(backlog[p], copy)], NEW m \in Records
  PROVE  /\ backlog' \in [Pullers -> Seq(Copy)]
         /\ Waits(m) \in Nat /\ Waits(m)' = IF m = copy.body THEN Waits(m) + 1 ELSE Waits(m)
<1>1. /\ IsFiniteSet(Pullers) /\ AreLines(backlog, Pullers, Copy)
      /\ Times(backlog, CopyOf(m, "old")) \in Nat /\ Times(backlog, CopyOf(m, "new")) \in Nat
      /\ Waits(m) \in Nat
  BY WaitsAre
<1>2. Joins(backlog, backlog', p, copy) BY DEF Joins
<1>3. \A x : /\ AreLines(backlog', Pullers, Copy)
             /\ Times(backlog', x) = IF x = copy THEN Times(backlog, x) + 1 ELSE Times(backlog, x)
  BY ONLY <1>1, <1>2, p \in Pullers, copy \in Copy, TimesJoin
<1>4. /\ copy.type \in {"old", "new"}
      /\ CopyOf(m, "old") = copy <=> copy.body = m /\ copy.type = "old"
      /\ CopyOf(m, "new") = copy <=> copy.body = m /\ copy.type = "new"
  BY CopiesDiffer DEF Kinds
<1>5. Waits(m) = Times(backlog, CopyOf(m, "old")) + Times(backlog, CopyOf(m, "new")) BY DEF Waits
<1>6. Waits(m)' = Times(backlog', CopyOf(m, "old")) + Times(backlog', CopyOf(m, "new"))
  BY DEF Waits, CopyOf
<1>7. backlog' \in [Pullers -> Seq(Copy)] BY ONLY <1>3 DEF AreLines
<1>8. CASE m = copy.body /\ copy.type = "old" BY ONLY <1>1, <1>3, <1>4, <1>5, <1>6, <1>7, <1>8
<1>9. CASE m = copy.body /\ copy.type = "new" BY ONLY <1>1, <1>3, <1>4, <1>5, <1>6, <1>7, <1>9
<1>10. CASE m # copy.body BY ONLY <1>1, <1>3, <1>4, <1>5, <1>6, <1>7, <1>10
<1> QED BY <1>4, <1>8, <1>9, <1>10

\* A task that is begun, or given up, waits no longer.
LEMMA WaitsLeave ==
  ASSUME LedgerTypes, NEW p \in Pullers, Begin(p), NEW m \in Records
  PROVE  /\ backlog' \in [Pullers -> Seq(Copy)] /\ Head(backlog[p]) \in Copy
         /\ Waits(m) \in Nat /\ Waits(m)' \in Nat
         /\ Waits(m) = IF m = Head(backlog[p]).body THEN Waits(m)' + 1 ELSE Waits(m)'
<1>0. backlog[p] # <<>> /\ backlog' = [backlog EXCEPT ![p] = Tail(backlog[p])] BY DEF Begin
<1>h. Head(backlog[p]) \in Copy
  <2>1. backlog[p] \in Seq(Copy) BY DEF LedgerTypes
  <2> QED BY <1>0, <2>1
<1>c. PICK copy \in Copy : copy = Head(backlog[p]) BY <1>h
<1>1. /\ IsFiniteSet(Pullers) /\ AreLines(backlog, Pullers, Copy)
      /\ Times(backlog, CopyOf(m, "old")) \in Nat /\ Times(backlog, CopyOf(m, "new")) \in Nat
      /\ Waits(m) \in Nat
  BY WaitsAre
<1>2. Leaves(backlog, backlog', p) BY <1>0 DEF Leaves
<1>3. \A x : /\ AreLines(backlog', Pullers, Copy)
             /\ Times(backlog, x) =
                  IF x = Head(backlog[p]) THEN Times(backlog', x) + 1 ELSE Times(backlog', x)
  BY ONLY <1>1, <1>2, p \in Pullers, TimesLeave
<1>n. \A x : Times(backlog', x) \in Nat BY ONLY <1>1, <1>3, TimesOf
<1>4. /\ copy.type \in {"old", "new"}
      /\ CopyOf(m, "old") = copy <=> copy.body = m /\ copy.type = "old"
      /\ CopyOf(m, "new") = copy <=> copy.body = m /\ copy.type = "new"
  BY CopiesDiffer DEF Kinds
<1>5. Waits(m) = Times(backlog, CopyOf(m, "old")) + Times(backlog, CopyOf(m, "new")) BY DEF Waits
<1>6. Waits(m)' = Times(backlog', CopyOf(m, "old")) + Times(backlog', CopyOf(m, "new"))
  BY DEF Waits, CopyOf
<1>7. backlog' \in [Pullers -> Seq(Copy)] BY ONLY <1>3 DEF AreLines
<1>e. /\ Waits(m) \in Nat /\ Waits(m)' \in Nat
      /\ Waits(m) = IF m = copy.body THEN Waits(m)' + 1 ELSE Waits(m)'
  <2>1. CASE m = copy.body /\ copy.type = "old"
    BY ONLY <1>c, <1>1, <1>3, <1>n, <1>4, <1>5, <1>6, <2>1
  <2>2. CASE m = copy.body /\ copy.type = "new"
    BY ONLY <1>c, <1>1, <1>3, <1>n, <1>4, <1>5, <1>6, <2>2
  <2>3. CASE m # copy.body BY ONLY <1>c, <1>1, <1>3, <1>n, <1>4, <1>5, <1>6, <2>3
  <2> QED BY <1>4, <2>1, <2>2, <2>3
<1> QED BY <1>c, <1>7, <1>e

\* The resender threads that send a record are none or some.
LEMMA ErrandsAre ==
  ASSUME NEW m \in Records
  PROVE  Errands(m) \in Nat /\ (Errands(m) > 0 <=> Sent(m))
<1> DEFINE A == {place \in Pullers \X Resenders : Sends(place[1], place[2], m)}
<1>1. IsFiniteSet(Pullers \X Resenders) BY PlacesFinite, IntakeAssumption, FS_Product
<1>2. IsFiniteSet(A) BY <1>1, FS_Subset
<1>3. Errands(m) = Cardinality(A) BY DEF Errands
<1>4. Sent(m) <=> A # {}
  <2>1. ASSUME NEW p \in Pullers, NEW r \in Resenders, Sends(p, r, m) PROVE <<p, r>> \in A
    BY <2>1
  <2>2. ASSUME NEW place \in A
        PROVE  place[1] \in Pullers /\ place[2] \in Resenders /\ Sends(place[1], place[2], m)
    OBVIOUS
  <2> HIDE DEF A
  <2> QED BY <2>1, <2>2 DEF Sent, Sends
<1> HIDE DEF A
<1>5. Cardinality(A) \in Nat /\ (Cardinality(A) = 0 <=> A = {})
  BY <1>2, FS_EmptySet, FS_CardinalityType
<1> QED BY <1>3, <1>4, <1>5

SendingSet(p, r, value) == sending' = [sending EXCEPT ![p][r] = value]

\* One resender thread begins or ends an errand.
LEMMA ErrandsMove ==
  ASSUME LedgerTypes, NEW p \in Pullers, NEW r \in Resenders, NEW value \in Errand \cup {None},
         SendingSet(p, r, value), NEW m \in Records
  PROVE  LET before == Sends(p, r, m)
             after  == value # None /\ value.task.body = m
         IN /\ sending' \in [Pullers -> [Resenders -> Errand \cup {None}]]
            /\ Errands(m) \in Nat /\ Errands(m)' \in Nat
            /\ before /\ ~after => Errands(m) = Errands(m)' + 1
            /\ ~before /\ after => Errands(m)' = Errands(m) + 1
            /\ (before <=> after) => Errands(m)' = Errands(m)
<1> DEFINE I == Pullers \X Resenders
           A == {place \in I : Sends(place[1], place[2], m)}
           B == {place \in I : Sends(place[1], place[2], m)'}
<1>1. IsFiniteSet(I) BY PlacesFinite, IntakeAssumption, FS_Product
<1>2. Errands(m) = Cardinality(A) /\ Errands(m)' = Cardinality(B) BY DEF Errands
<1>3. <<p, r>> \in I /\ A \in SUBSET I /\ B \in SUBSET I OBVIOUS
<1>4. sending \in [Pullers -> [Resenders -> Errand \cup {None}]] BY DEF LedgerTypes
<1>5. /\ sending' \in [Pullers -> [Resenders -> Errand \cup {None}]]
      /\ \A q \in Pullers, s \in Resenders :
           sending'[q][s] = IF q = p /\ s = r THEN value ELSE sending[q][s]
  BY <1>4 DEF SendingSet
<1>6. <<p, r>> \in A <=> Sends(p, r, m) OBVIOUS
<1>7. <<p, r>> \in B <=> value # None /\ value.task.body = m BY <1>5 DEF Sends
<1>8. ASSUME NEW y \in I, y # <<p, r>> PROVE y \in A <=> y \in B
  <2>1. y[1] \in Pullers /\ y[2] \in Resenders /\ ~(y[1] = p /\ y[2] = r) BY <1>8
  <2>2. sending'[y[1]][y[2]] = sending[y[1]][y[2]] BY <1>5, <2>1
  <2> QED BY <2>2 DEF Sends
<1> HIDE DEF I, A, B
<1> QED BY <1>1, <1>2, <1>3, <1>5, <1>6, <1>7, <1>8, OnePlaceChanges

\* What is added up in the ledger is numbers.
LEMMA TotalIs ==
  ASSUME LedgerTypes, NEW m \in Records
  PROVE  /\ Copies(m) \in Nat /\ Hands(m) \in Nat /\ Waits(m) \in Nat /\ Errands(m) \in Nat
         /\ Total(m) = Copies(m) + Hands(m) + Waits(m) + Errands(m) /\ Total(m) \in Nat
         /\ counted[m] \in Nat /\ lostReplies \in Nat
<1>1. /\ Copies(m) \in Nat /\ Hands(m) \in Nat /\ Waits(m) \in Nat /\ Errands(m) \in Nat
  BY CopiesAre, HandsAre, WaitsAre, ErrandsAre
<1>2. counted[m] \in Nat /\ lostReplies \in Nat BY IntakeAssumption DEF LedgerTypes
<1>3. Total(m) = Copies(m) + Hands(m) + Waits(m) + Errands(m) BY DEF Total
<1> HIDE DEF Copies, Hands, Waits, Errands, Total
<1> QED BY <1>1, <1>2, <1>3

\* A record of which no count changes stays in the ledger.
LEMMA LedgerKept ==
  ASSUME LedgerTypes, NEW m \in Records, Ledger(m),
         counted'[m] = counted[m], lostReplies' \in Nat, lostReplies <= lostReplies',
         m \in lost' <=> m \in lost, m \in resent' <=> m \in resent,
         m \in diedQueued' <=> m \in diedQueued,
         Total(m)' = Total(m), Waits(m)' + Errands(m)' = Waits(m) + Errands(m)
  PROVE  Ledger(m)'
<1>1. Total(m) \in Nat /\ counted[m] \in Nat /\ lostReplies \in Nat BY TotalIs
<1> HIDE DEF Total, Waits, Errands
<1> QED BY <1>1 DEF Ledger

\* The sum in the next state.
LEMMA TotalNext ==
  ASSUME NEW m \in Records
  PROVE  Total(m)' = Copies(m)' + Hands(m)' + Waits(m)' + Errands(m)'
BY DEF Total

\* A record that is about to be counted has not been: topics share no record, and a
\* topic holds none twice.
LEMMA CountsOnce ==
  ASSUME PullerInv, FedInv, NEW p \in Pullers, pc[p] = "route", p[1] \in up,
         counted \in [Records -> Nat], Counted(Body(p))
  PROVE  Body(p) \in Records /\ counted[Body(p)] = 0
<1>1. /\ rec[p][2] \in DOMAIN Feed[p] /\ Body(p) \in Records /\ rec[p][2] \notin Range(got[p])
      /\ Body(p) = Feed[p][rec[p][2]]
  BY InHandIs DEF Body
<1>2. ASSUME counted[Body(p)] > 0 PROVE FALSE
  <2> DEFINE was(q, i) ==
        \/ i \in Range(got[q]) \/ (pc[q] = "push" /\ rec[q][2] = i) \/ q[1] \notin up
  <2>1. PICK q \in Pullers : \E i \in DOMAIN Feed[q] : Feed[q][i] = Body(p) /\ was(q, i)
    BY <1>2 DEF Counted
  <2>2. PICK i \in DOMAIN Feed[q] : Feed[q][i] = Body(p) /\ was(q, i)
    BY <2>1
  <2>3. Body(p) \in Range(Feed[p]) /\ Body(p) \in Range(Feed[q]) BY <1>1, <2>2 DEF Range
  <2>4. q = p BY <2>3, IntakeAssumption
  <2>5. IsInjective(Feed[p]) BY IntakeAssumption
  <2>6. i = rec[p][2] BY <1>1, <2>2, <2>4, <2>5 DEF IsInjective
  <2> QED BY <1>1, <2>2, <2>4, <2>6
<1>3. counted[Body(p)] \in Nat BY <1>1
<1> QED BY <1>1, <1>2, <1>3

\* What has been handled stays handled.
LEMMA CountedKept ==
  ASSUME NEW m \in Records, Counted(m), counted'[m] = counted[m], up' \subseteq up,
         \A q \in Pullers : Range(got[q]) \subseteq Range(got'[q]),
         \A q \in Pullers : pc[q] = "push" =>
           \/ pc'[q] = "push" /\ rec'[q] = rec[q]
           \/ rec[q][2] \in Range(got'[q])
           \/ q[1] \notin up'
  PROVE  Counted(m)'
<1> DEFINE was(q, i)    ==
      \/ i \in Range(got[q]) \/ (pc[q] = "push" /\ rec[q][2] = i) \/ q[1] \notin up
           becomes(q, i) ==
      \/ i \in Range(got'[q]) \/ (pc'[q] = "push" /\ rec'[q][2] = i) \/ q[1] \notin up'
<1> SUFFICES ASSUME counted[m] > 0
             PROVE  \E p \in Pullers : \E i \in DOMAIN Feed[p] : Feed[p][i] = m /\ becomes(p, i)
  BY DEF Counted
<1>1. PICK p \in Pullers : \E i \in DOMAIN Feed[p] : Feed[p][i] = m /\ was(p, i)
  BY DEF Counted
<1>2. PICK i \in DOMAIN Feed[p] : Feed[p][i] = m /\ was(p, i)
  BY <1>1
<1>3. becomes(p, i) BY <1>2
<1> QED BY <1>2, <1>3

\* A step in which no record changes hands.
LEMMA LedgerQuiet ==
  ASSUME LedgerInv, UNCHANGED <<resend, queue, counted, taken, resent, lost, diedQueued,
                                lostReplies, up>>,
         \A q \in Pullers : /\ pc'[q] = "push" <=> pc[q] = "push"
                            /\ pc[q] = "push" => rec'[q] = rec[q]
                            /\ Range(got[q]) \subseteq Range(got'[q])
  PROVE  LedgerInv'
<1>1. LedgerTypes /\ LedgerTypes' BY DEF LedgerInv, LedgerTypes, resend
<1>2. ASSUME NEW m \in Records PROVE Ledger(m)' /\ Counted(m)'
  <2>1. /\ Copies(m)' = Copies(m) /\ Hands(m)' = Hands(m) /\ Waits(m)' = Waits(m)
        /\ Errands(m)' = Errands(m)
    BY HandsSame DEF Copies, Waits, Errands, Sends, resend, CopyOf
  <2>2. Total(m)' = Total(m) BY <2>1, TotalNext DEF Total
  <2>3. Ledger(m) /\ Counted(m) /\ lostReplies \in Nat BY <1>1, TotalIs DEF LedgerInv
  <2>4. Ledger(m)' BY <1>1, <2>1, <2>2, <2>3, LedgerKept
  <2> QED BY <2>3, <2>4, CountedKept
<1> QED BY <1>1, <1>2 DEF LedgerInv

\* A record is counted and kept.
LEMMA LedgerKeep ==
  ASSUME PullerInv, FedInv, LedgerInv, NEW p \in Pullers, Keep(p)
  PROVE  LedgerInv'
<1>1. /\ pc[p] = "route" /\ p[1] \in up /\ pc' = [pc EXCEPT ![p] = "push"]
      /\ UNCHANGED <<rec, backlog, sending, queue, taken, got, resent, lost, diedQueued,
                     lostReplies, up>>
  BY DEF Keep, At, Goto, resend
<1>2. LedgerTypes /\ counted \in [Records -> Nat] BY DEF LedgerInv, LedgerTypes
<1>0. Body(p) \in Records /\ counted[Body(p)] = 0
  <2>1. Body(p) \in Records BY <1>1, InHandIs
  <2> QED BY <1>1, <1>2, <2>1, CountsOnce DEF LedgerInv
<1>x. PICK x \in Records : x = Body(p) BY <1>0
<1>3. counted' = [counted EXCEPT ![x] = counted[x] + 1] BY <1>x DEF Keep, Count
<1>4. /\ counted' \in [Records -> Nat] /\ counted'[x] = 1
      /\ \A m \in Records : m # x => counted'[m] = counted[m]
  <2>1. counted[x] = 0 /\ counted[x] + 1 = 1 BY <1>0, <1>x
  <2> QED BY <1>2, <1>3, <2>1
<1>5. LedgerTypes' BY <1>1, <1>2, <1>4 DEF LedgerTypes
<1>6. /\ pc'[p] = "push" /\ \A q \in Pullers : q # p => pc'[q] = pc[q]
  BY <1>1 DEF PullerInv, PullerTypes
<1>7. ASSUME NEW m \in Records PROVE Ledger(m)' /\ Counted(m)'
  <2>1. /\ Copies(m)' = Copies(m) /\ Waits(m)' = Waits(m) /\ Errands(m)' = Errands(m)
    BY <1>1 DEF Copies, Waits, Errands, Sends, CopyOf
  <2>2. Body(p)' = x BY <1>1, <1>x DEF Body
  <2>3. /\ Hands(m) \in Nat /\ Hands(m)' \in Nat
        /\ m = x => Hands(m)' = Hands(m) + 1
        /\ m # x => Hands(m)' = Hands(m)
    BY <1>1, <1>6, <2>2, HandsMove
  <2>4. /\ Copies(m) \in Nat /\ Waits(m) \in Nat /\ Errands(m) \in Nat /\ lostReplies \in Nat
        /\ Total(m) = Copies(m) + Hands(m) + Waits(m) + Errands(m)
    BY <1>2, TotalIs
  <2>5. Total(m)' = Copies(m)' + Hands(m)' + Waits(m)' + Errands(m)' BY TotalNext
  <2>6. Ledger(m) /\ Counted(m) BY DEF LedgerInv
  <2>7. CASE m = x
    <3>1. counted[m] = 0 /\ counted'[m] = 1 BY <1>0, <1>x, <1>4, <2>7
    <3>2. Ledger(m)'
      <4>1. m \in lost' <=> m \in lost BY <1>1
      <4>2. m \in resent' <=> m \in resent BY <1>1
      <4>3. lostReplies' = lostReplies /\ (m \in diedQueued' <=> m \in diedQueued) BY <1>1
      <4>4. Total(m) = 0 BY <2>3, <2>4, <2>6, <3>1 DEF Ledger
      <4>5. Total(m)' = 1 BY ONLY <2>1, <2>3, <2>4, <2>5, <2>7, <4>4
      <4>6. Waits(m)' + Errands(m)' = Waits(m) + Errands(m) BY <2>1
      <4> QED BY <2>4, <2>6, <3>1, <4>1, <4>2, <4>3, <4>4, <4>5, <4>6 DEF Ledger
    <3>3. Counted(m)'
      <4>1. rec[p][2] \in DOMAIN Feed[p] /\ Feed[p][rec[p][2]] = m
        BY <1>1, <1>x, <2>7, InHandIs DEF Body
      <4> QED BY <1>1, <1>6, <4>1 DEF Counted
    <3> QED BY <3>2, <3>3
  <2>8. CASE m # x
    <3>1. Total(m)' = Total(m) BY <2>1, <2>3, <2>4, <2>5, <2>8
    <3>2. Ledger(m)'
      <4>1. Waits(m)' + Errands(m)' = Waits(m) + Errands(m) BY <2>1
      <4> QED BY <1>1, <1>2, <1>4, <2>4, <2>6, <2>8, <3>1, <4>1, LedgerKept
    <3>3. Counted(m)' BY <1>1, <1>4, <1>6, <2>6, <2>8, CountedKept
    <3> QED BY <3>2, <3>3
  <2> QED BY <2>7, <2>8
<1> QED BY <1>5, <1>7 DEF LedgerInv

\* What the end of the loop body does to where the puller is and what it has handled.
LEMMA FinishIs ==
  ASSUME PullerInv, FedInv, NEW p \in Pullers, pc[p] \in {"route", "push"}, FinishPackage(p)
  PROVE  /\ pc'[p] = "ask" /\ rec[p][2] \in Range(got'[p])
         /\ \A q \in Pullers : q # p => pc'[q] = pc[q] /\ rec'[q] = rec[q]
         /\ \A q \in Pullers : Range(got[q]) \subseteq Range(got'[q])
<1>1. /\ pc' = [pc EXCEPT ![p] = "ask"] /\ rec' = [rec EXCEPT ![p] = None]
      /\ got' = [got EXCEPT ![p] = Append(got[p], rec[p][2])]
  BY DEF FinishPackage, Goto
<1>2. /\ pc \in [Pullers -> {"init", "ask", "route", "push"}] /\ got \in [Pullers -> Seq(Nat)]
      /\ rec \in [Pullers -> (Nat \X Nat) \cup {None}]
  BY DEF PullerInv, PullerTypes
<1>3. got[p] \in Seq(Nat) /\ rec[p][2] \in Nat BY <1>2, InHandIs
<1> DEFINE r == Append(got[p], rec[p][2])
<1>4. /\ DOMAIN r = 1..(Len(got[p]) + 1) /\ DOMAIN got[p] = 1..Len(got[p]) /\ Len(got[p]) \in Nat
      /\ \A i \in DOMAIN got[p] : r[i] = got[p][i]
      /\ r[Len(got[p]) + 1] = rec[p][2]
  BY <1>3
<1> HIDE DEF r
<1>5. Range(got[p]) \subseteq Range(r)
  <2>1. \A i \in DOMAIN got[p] : i \in DOMAIN r /\ r[i] = got[p][i] BY <1>4
  <2> QED BY <2>1 DEF Range
<1>6. rec[p][2] \in Range(r)
  <2>1. Len(got[p]) + 1 \in DOMAIN r BY <1>4
  <2> QED BY <1>4, <2>1 DEF Range
<1>7. got'[p] = r /\ \A q \in Pullers : q # p => got'[q] = got[q] BY <1>1, <1>2 DEF r
<1>8. pc'[p] = "ask" /\ \A q \in Pullers : q # p => pc'[q] = pc[q] /\ rec'[q] = rec[q]
  BY <1>1, <1>2
<1> QED BY <1>5, <1>6, <1>7, <1>8

\* A record is counted and handed to the resender pool.
LEMMA LedgerHand ==
  ASSUME PullerInv, FedInv, LedgerInv, NEW p \in Pullers, HandToResender(p)
  PROVE  LedgerInv'
<1>1. /\ pc[p] = "route" /\ p[1] \in up /\ FinishPackage(p)
      /\ UNCHANGED <<sending, queue, taken, lost, diedQueued, lostReplies, up>>
  BY DEF HandToResender, At
<1>2. LedgerTypes /\ counted \in [Records -> Nat] /\ resent \subseteq Records
  BY DEF LedgerInv, LedgerTypes
<1>0. Body(p) \in Records /\ counted[Body(p)] = 0
  <2>1. Body(p) \in Records BY <1>1, InHandIs
  <2> QED BY <1>1, <1>2, <2>1, CountsOnce DEF LedgerInv
<1>x. PICK x \in Records : x = Body(p) BY <1>0
<1>3. counted' = [counted EXCEPT ![x] = counted[x] + 1] /\ resent' = resent \cup {x}
  BY <1>x DEF HandToResender, Count
<1>4. /\ counted' \in [Records -> Nat] /\ counted'[x] = 1
      /\ \A m \in Records : m # x => counted'[m] = counted[m]
  <2>1. counted[x] = 0 /\ counted[x] + 1 = 1 BY <1>0, <1>x
  <2> QED BY <1>2, <1>3, <2>1
<1>c. PICK copy \in Copy : copy = [body |-> x, type |-> p[2]]
  <2>1. p[2] \in Kinds BY IntakeAssumption
  <2> QED BY <2>1 DEF Copy
<1>b. backlog' = [backlog EXCEPT ![p] = Append(backlog[p], copy)] /\ copy.body = x
  BY <1>x, <1>c DEF HandToResender
<1>5. \A m \in Records :
        /\ backlog' \in [Pullers -> Seq(Copy)]
        /\ Waits(m) \in Nat /\ Waits(m)' = IF m = copy.body THEN Waits(m) + 1 ELSE Waits(m)
  BY <1>2, <1>b, WaitsJoin
<1>6. LedgerTypes'
  <2>1. backlog' \in [Pullers -> Seq(Copy)] BY <1>5
  <2> QED BY <1>1, <1>2, <1>3, <1>4, <2>1 DEF LedgerTypes
<1>7. /\ pc'[p] = "ask" /\ rec[p][2] \in Range(got'[p])
      /\ \A q \in Pullers : q # p => pc'[q] = pc[q] /\ rec'[q] = rec[q]
      /\ \A q \in Pullers : Range(got[q]) \subseteq Range(got'[q])
  BY <1>1, FinishIs
<1>8. ASSUME NEW m \in Records PROVE Ledger(m)' /\ Counted(m)'
  <2>1. /\ Copies(m)' = Copies(m) /\ Hands(m)' = Hands(m) /\ Errands(m)' = Errands(m)
    BY <1>1, <1>7, HandsSame DEF Copies, Errands, Sends
  <2>3. Waits(m) \in Nat /\ Waits(m)' = IF m = x THEN Waits(m) + 1 ELSE Waits(m)
    BY <1>b, <1>5
  <2>4. /\ Copies(m) \in Nat /\ Hands(m) \in Nat /\ Errands(m) \in Nat /\ lostReplies \in Nat
        /\ Total(m) = Copies(m) + Hands(m) + Waits(m) + Errands(m)
    BY <1>2, TotalIs
  <2>5. Total(m)' = Copies(m)' + Hands(m)' + Waits(m)' + Errands(m)' BY TotalNext
  <2>6. Ledger(m) /\ Counted(m) BY DEF LedgerInv
  <2>7. CASE m = x
    <3>1. counted[m] = 0 /\ counted'[m] = 1 BY <1>0, <1>x, <1>4, <2>7
    <3>2. Ledger(m)'
      <4>1. m \in resent' BY <1>3, <2>7
      <4>3. lostReplies' = lostReplies BY <1>1
      <4>4. Total(m) = 0 BY <2>3, <2>4, <2>6, <3>1 DEF Ledger
      <4>w. Waits(m)' = Waits(m) + 1 BY <2>3, <2>7
      <4>5. Total(m)' = 1 BY ONLY <2>1, <2>3, <2>4, <2>5, <4>4, <4>w
      <4> QED BY <2>4, <3>1, <4>1, <4>3, <4>5 DEF Ledger
    <3>3. Counted(m)'
      <4>1. rec[p][2] \in DOMAIN Feed[p] /\ Feed[p][rec[p][2]] = m
        BY <1>1, <1>x, <2>7, InHandIs DEF Body
      <4> QED BY <1>7, <4>1 DEF Counted
    <3> QED BY <3>2, <3>3
  <2>8. CASE m # x
    <3>w. Waits(m)' = Waits(m) BY <2>3, <2>8
    <3>1. Total(m)' = Total(m) BY <2>1, <2>4, <2>5, <3>w
    <3>2. Ledger(m)'
      <4>1. Waits(m)' + Errands(m)' = Waits(m) + Errands(m) BY <2>1, <3>w
      <4>2. m \in resent' <=> m \in resent BY <1>3, <2>8
      <4> QED BY <1>1, <1>2, <1>4, <2>4, <2>6, <2>8, <3>1, <4>1, <4>2, LedgerKept
    <3>3. Counted(m)' BY <1>1, <1>4, <1>7, <2>6, <2>8, CountedKept
    <3> QED BY <3>2, <3>3
  <2> QED BY <2>7, <2>8
<1> QED BY <1>6, <1>8 DEF LedgerInv

\* A record is put into the node's own queue.
LEMMA LedgerPush ==
  ASSUME PullerInv, FedInv, LedgerInv, NEW p \in Pullers, Push(p)
  PROVE  LedgerInv'
<1>1. /\ pc[p] = "push" /\ FinishPackage(p) /\ Enqueue(p[1], p[2], Body(p))
      /\ UNCHANGED <<backlog, sending, taken, counted, resent, lost, diedQueued,
                     lostReplies, up>>
  BY DEF Push, At, resend
<1>2. LedgerTypes BY DEF LedgerInv
<1>3. p[1] \in Nodes /\ p[2] \in Kinds BY IntakeAssumption
<1>4. Body(p) \in Records BY <1>1, InHandIs
<1>x. PICK x \in Records : x = Body(p) BY <1>4
<1>5. \A m \in Records :
        /\ queue' \in [Nodes -> [Kinds -> Seq(Records)]]
        /\ Copies(m) \in Nat /\ Copies(m)' = IF m = x THEN Copies(m) + 1 ELSE Copies(m)
  BY <1>1, <1>2, <1>3, <1>x, CopiesJoin
<1>6. LedgerTypes'
  <2>1. queue' \in [Nodes -> [Kinds -> Seq(Records)]] BY <1>4, <1>5
  <2> QED BY <1>1, <1>2, <2>1 DEF LedgerTypes
<1>7. /\ pc'[p] = "ask" /\ rec[p][2] \in Range(got'[p])
      /\ \A q \in Pullers : q # p => pc'[q] = pc[q] /\ rec'[q] = rec[q]
      /\ \A q \in Pullers : Range(got[q]) \subseteq Range(got'[q])
  BY <1>1, FinishIs
<1>8. ASSUME NEW m \in Records PROVE Ledger(m)' /\ Counted(m)'
  <2>1. Waits(m)' = Waits(m) /\ Errands(m)' = Errands(m)
    BY <1>1 DEF Waits, Errands, Sends, CopyOf
  <2>2. /\ Hands(m) \in Nat /\ Hands(m)' \in Nat
        /\ m = x => Hands(m) = Hands(m)' + 1
        /\ m # x => Hands(m)' = Hands(m)
    BY <1>1, <1>7, <1>x, HandsMove
  <2>3. Copies(m) \in Nat /\ Copies(m)' = IF m = x THEN Copies(m) + 1 ELSE Copies(m) BY <1>5
  <2>4. /\ Waits(m) \in Nat /\ Errands(m) \in Nat /\ lostReplies \in Nat
        /\ Total(m) = Copies(m) + Hands(m) + Waits(m) + Errands(m)
    BY <1>2, TotalIs
  <2>5. Total(m)' = Copies(m)' + Hands(m)' + Waits(m)' + Errands(m)' BY TotalNext
  <2>6. Ledger(m) /\ Counted(m) BY DEF LedgerInv
  <2>7. Total(m)' = Total(m)
    <3>1. CASE m = x
      <4>1. Copies(m)' = Copies(m) + 1 /\ Hands(m) = Hands(m)' + 1 BY <2>2, <2>3, <3>1
      <4> QED BY ONLY <2>1, <2>2, <2>3, <2>4, <2>5, <4>1
    <3>2. CASE m # x
      <4>1. Copies(m)' = Copies(m) /\ Hands(m)' = Hands(m) BY <2>2, <2>3, <3>2
      <4> QED BY ONLY <2>1, <2>4, <2>5, <4>1
    <3> QED BY <3>1, <3>2
  <2>8. Ledger(m)'
    <3>1. Waits(m)' + Errands(m)' = Waits(m) + Errands(m) BY <2>1
    <3> QED BY <1>1, <1>2, <2>4, <2>6, <2>7, <3>1, LedgerKept
  <2>9. Counted(m)' BY <1>1, <1>7, <2>6, CountedKept
  <2> QED BY <2>8, <2>9
<1> QED BY <1>6, <1>8 DEF LedgerInv

\* A record is consumed from a queue.
LEMMA LedgerConsume ==
  ASSUME LedgerInv, NEW n \in Nodes, NEW k \in Kinds, Consume(n, k)
  PROVE  LedgerInv'
<1>1. /\ queue[n][k] # <<>> /\ queue' = [queue EXCEPT ![n][k] = Tail(queue[n][k])]
      /\ taken' = [taken EXCEPT ![Head(queue[n][k])] = taken[Head(queue[n][k])] + 1]
      /\ UNCHANGED <<pc, rec, backlog, sending, counted, got, resent, lost, diedQueued,
                     lostReplies, up>>
  BY DEF Consume, puller, resend, past
<1>2. LedgerTypes BY DEF LedgerInv
<1>3. \A m \in Records :
        /\ queue' \in [Nodes -> [Kinds -> Seq(Records)]] /\ taken' \in [Records -> Nat]
        /\ Copies(m) \in Nat /\ Copies(m)' = Copies(m)
  BY <1>1, <1>2, CopiesLeave
<1>4. LedgerTypes'
  <2>1. queue[n][k] \in Seq(Records) BY <1>2 DEF LedgerTypes
  <2>2. Head(queue[n][k]) \in Records BY <1>1, <2>1
  <2>3. queue' \in [Nodes -> [Kinds -> Seq(Records)]] /\ taken' \in [Records -> Nat]
    BY <1>3, <2>2
  <2> QED BY <1>1, <1>2, <2>3 DEF LedgerTypes
<1>5. ASSUME NEW m \in Records PROVE Ledger(m)' /\ Counted(m)'
  <2>1. /\ Copies(m)' = Copies(m) /\ Hands(m)' = Hands(m) /\ Waits(m)' = Waits(m)
        /\ Errands(m)' = Errands(m)
    BY <1>1, <1>3, HandsSame DEF Waits, Errands, Sends, CopyOf
  <2>2. Total(m)' = Total(m) BY <2>1, TotalNext DEF Total
  <2>3. Ledger(m) /\ Counted(m) /\ lostReplies \in Nat BY <1>2, TotalIs DEF LedgerInv
  <2>4. Ledger(m)' BY <1>1, <1>2, <2>1, <2>2, <2>3, LedgerKept
  <2> QED BY <1>1, <2>3, <2>4, CountedKept
<1> QED BY <1>4, <1>5 DEF LedgerInv

\* What a resender thread leaves alone.
LEMMA ResenderLeaves ==
  ASSUME NEW p, NEW r, Resender(p, r)
  PROVE  UNCHANGED <<pc, rec, up, counted, taken, got, resent, diedQueued>>
BY DEF Resender, puller

\* A record is dropped from the pool because no node will take it.
LEMMA LedgerDrop ==
  ASSUME LedgerInv, NEW p \in Pullers, NEW r \in Resenders, NoRelaxingNode(p, r)
  PROVE  LedgerInv'
<1>1. /\ Begin(p) /\ lost' = lost \cup {Head(backlog[p]).body}
      /\ UNCHANGED <<pc, rec, sending, queue, up, counted, taken, got, resent, diedQueued,
                     lostReplies>>
  BY ResenderLeaves DEF NoRelaxingNode
<1>2. LedgerTypes /\ lost \subseteq Records BY DEF LedgerInv, LedgerTypes
<1>3. \A m \in Records :
        /\ backlog' \in [Pullers -> Seq(Copy)] /\ Head(backlog[p]) \in Copy
        /\ Waits(m) \in Nat /\ Waits(m)' \in Nat
        /\ Waits(m) = IF m = Head(backlog[p]).body THEN Waits(m)' + 1 ELSE Waits(m)'
  BY <1>1, <1>2, WaitsLeave
<1>h. Head(backlog[p]) \in Copy
  <2>1. backlog[p] \in Seq(Copy) BY <1>2 DEF LedgerTypes
  <2> QED BY <1>1, <2>1 DEF Begin
<1>x. PICK x \in Records : x = Head(backlog[p]).body BY <1>h DEF Copy
<1>4. LedgerTypes'
  <2>1. backlog' \in [Pullers -> Seq(Copy)] BY <1>3, <1>x
  <2> QED BY <1>1, <1>2, <1>x, <2>1 DEF LedgerTypes
<1>5. ASSUME NEW m \in Records PROVE Ledger(m)' /\ Counted(m)'
  <2>1. /\ Copies(m)' = Copies(m) /\ Hands(m)' = Hands(m) /\ Errands(m)' = Errands(m)
    BY <1>1, HandsSame DEF Copies, Errands, Sends
  <2>2. /\ Waits(m) \in Nat /\ Waits(m)' \in Nat
        /\ Waits(m) = IF m = x THEN Waits(m)' + 1 ELSE Waits(m)'
    BY <1>3, <1>x
  <2>3. /\ Copies(m) \in Nat /\ Hands(m) \in Nat /\ Errands(m) \in Nat /\ lostReplies \in Nat
        /\ Total(m) = Copies(m) + Hands(m) + Waits(m) + Errands(m) /\ counted[m] \in Nat
    BY <1>2, TotalIs
  <2>4. Total(m)' = Copies(m)' + Hands(m)' + Waits(m)' + Errands(m)' BY TotalNext
  <2>5. Ledger(m) /\ Counted(m) BY DEF LedgerInv
  <2>6. ASSUME m = x PROVE Ledger(m)'
    <3>1. Waits(m) = Waits(m)' + 1 BY <2>2, <2>6
    <3>2. Total(m) = Total(m)' + 1 /\ Total(m)' \in Nat
      BY ONLY <2>1, <2>2, <2>3, <2>4, <3>1
    <3>3. Waits(m) + Errands(m) > 0 BY ONLY <2>2, <2>3, <3>1
    <3>4. m \in resent /\ counted[m] = 1 BY <2>5, <3>3 DEF Ledger
    <3>5. /\ m \in resent' /\ m \in lost' /\ counted'[m] = 1 /\ lostReplies' = lostReplies
      BY <1>1, <1>x, <2>6, <3>4
    <3>6. Total(m) <= counted[m] + lostReplies BY <2>5 DEF Ledger
    <3>7. Total(m)' <= counted'[m] + lostReplies' BY ONLY <2>3, <3>2, <3>4, <3>5, <3>6
    <3>8. counted'[m] <= 1 BY <3>5
    <3> QED BY ONLY <3>5, <3>7, <3>8 DEF Ledger
  <2>7. ASSUME m # x PROVE Ledger(m)'
    <3>1. Waits(m)' = Waits(m) BY <2>2, <2>7
    <3>2. Total(m)' = Total(m) BY <2>1, <2>3, <2>4, <3>1
    <3>3. Waits(m)' + Errands(m)' = Waits(m) + Errands(m) BY <2>1, <3>1
    <3>4. /\ m \in lost' <=> m \in lost
          /\ m \in resent' <=> m \in resent
          /\ m \in diedQueued' <=> m \in diedQueued
          /\ counted'[m] = counted[m] /\ lostReplies' = lostReplies
      BY <1>1, <1>x, <2>7
    <3>5. LedgerTypes BY <1>2
    <3> QED BY ONLY m \in Records, <2>3, <2>5, <3>2, <3>3, <3>4, <3>5, LedgerKept
  <2>8. Counted(m)' BY <1>1, <2>5, CountedKept
  <2> QED BY <2>6, <2>7, <2>8
<1> QED BY <1>4, <1>5 DEF LedgerInv

\* A resender thread takes a record from the pool and has a node to send it to.
LEMMA LedgerFind ==
  ASSUME LedgerInv, NEW p \in Pullers, NEW r \in Resenders, FindRelaxingNode(p, r)
  PROVE  LedgerInv'
<1>1. /\ Begin(p) /\ sending[p][r] = None
      /\ UNCHANGED <<pc, rec, queue, counted, taken, got, resent, lost, diedQueued,
                     lostReplies, up>>
  BY ResenderLeaves DEF FindRelaxingNode
<1>2. LedgerTypes BY DEF LedgerInv
<1>3. \A m \in Records :
        /\ backlog' \in [Pullers -> Seq(Copy)] /\ Head(backlog[p]) \in Copy
        /\ Waits(m) \in Nat /\ Waits(m)' \in Nat
        /\ Waits(m) = IF m = Head(backlog[p]).body THEN Waits(m)' + 1 ELSE Waits(m)'
  BY <1>1, <1>2, WaitsLeave
<1>h. Head(backlog[p]) \in Copy
  <2>1. backlog[p] \in Seq(Copy) BY <1>2 DEF LedgerTypes
  <2> QED BY <1>1, <2>1 DEF Begin
<1>x. PICK x \in Records : x = Head(backlog[p]).body BY <1>h DEF Copy
<1>s. PICK to \in Nodes \cup {None} :
        sending' = [sending EXCEPT ![p][r] = [task |-> Head(backlog[p]), to |-> to]]
  BY DEF FindRelaxingNode, Relaxing, Reporting
<1>e. PICK errand \in Errand : errand = [task |-> Head(backlog[p]), to |-> to]
  BY <1>h DEF Errand
<1>v. SendingSet(p, r, errand) /\ errand # None /\ errand.task.body = x
  BY <1>s, <1>e, <1>x, IntakeAssumption DEF SendingSet
<1>4. \A m \in Records :
        /\ sending' \in [Pullers -> [Resenders -> Errand \cup {None}]]
        /\ Errands(m) \in Nat /\ Errands(m)' \in Nat
        /\ m = x => Errands(m)' = Errands(m) + 1
        /\ m # x => Errands(m)' = Errands(m)
  <2> TAKE m \in Records
  <2>1. ~Sends(p, r, m) BY <1>1 DEF Sends
  <2>2. errand \in Errand \cup {None} OBVIOUS
  <2> QED BY <1>2, <1>v, <2>1, <2>2, ErrandsMove
<1>5. LedgerTypes'
  <2>1. /\ backlog' \in [Pullers -> Seq(Copy)]
        /\ sending' \in [Pullers -> [Resenders -> Errand \cup {None}]]
    BY <1>3, <1>4, <1>x
  <2> QED BY <1>1, <1>2, <2>1 DEF LedgerTypes
<1>6. ASSUME NEW m \in Records PROVE Ledger(m)' /\ Counted(m)'
  <2>1. Copies(m)' = Copies(m) /\ Hands(m)' = Hands(m)
    BY <1>1, HandsSame DEF Copies
  <2>2. /\ Waits(m) \in Nat /\ Waits(m)' \in Nat
        /\ Waits(m) = IF m = x THEN Waits(m)' + 1 ELSE Waits(m)'
    BY <1>3, <1>x
  <2>3. /\ Copies(m) \in Nat /\ Hands(m) \in Nat /\ Errands(m) \in Nat /\ lostReplies \in Nat
        /\ Total(m) = Copies(m) + Hands(m) + Waits(m) + Errands(m)
    BY <1>2, TotalIs
  <2>4. Total(m)' = Copies(m)' + Hands(m)' + Waits(m)' + Errands(m)' BY TotalNext
  <2>5. Ledger(m) /\ Counted(m) BY DEF LedgerInv
  <2>6. Total(m)' = Total(m) /\ Waits(m)' + Errands(m)' = Waits(m) + Errands(m)
    <3>1. CASE m = x
      <4>1. Waits(m) = Waits(m)' + 1 /\ Errands(m)' = Errands(m) + 1 BY <1>4, <2>2, <3>1
      <4> QED BY ONLY <2>1, <2>2, <2>3, <2>4, <4>1
    <3>2. CASE m # x
      <4>1. Waits(m) = Waits(m)' /\ Errands(m)' = Errands(m) BY <1>4, <2>2, <3>2
      <4> QED BY ONLY <2>1, <2>3, <2>4, <4>1
    <3> QED BY <3>1, <3>2
  <2>7. Ledger(m)' BY <1>1, <1>2, <2>3, <2>5, <2>6, LedgerKept
  <2>8. Counted(m)' BY <1>1, <2>5, CountedKept
  <2> QED BY <2>7, <2>8
<1> QED BY <1>5, <1>6 DEF LedgerInv

\* What the handler at the other node does: the record is queued there or lost.
LEMMA RetransmitIs ==
  ASSUME LedgerTypes, NEW to \in Nodes, NEW task \in Copy, Retransmit(to, task),
         UNCHANGED taken, NEW m \in Records
  PROVE  /\ task.body \in Records
         /\ queue' \in [Nodes -> [Kinds -> Seq(Records)]] /\ lost' \subseteq Records
         /\ m # task.body => Copies(m)' = Copies(m) /\ (m \in lost' <=> m \in lost)
         /\ m = task.body => \/ Copies(m)' = Copies(m) + 1 /\ (m \in lost' <=> m \in lost)
                             \/ Copies(m)' = Copies(m) /\ m \in lost'
<1>1. task.body \in Records /\ task.type \in Kinds BY DEF Copy
<1>2. queue \in [Nodes -> [Kinds -> Seq(Records)]] /\ lost \subseteq Records
  BY DEF LedgerTypes
<1>x. PICK x \in Records, k \in Kinds : x = task.body /\ k = task.type BY <1>1
<1>3. CASE Full(to, task.type)
  <2>1. lost' = lost \cup {x} /\ UNCHANGED queue BY <1>3, <1>x DEF Retransmit
  <2>2. Copies(m)' = Copies(m) BY <2>1 DEF Copies
  <2> QED BY <1>2, <1>x, <2>1, <2>2
<1>4. CASE ~Full(to, task.type)
  <2>1. Enqueue(to, k, x) /\ UNCHANGED lost BY <1>4, <1>x DEF Retransmit
  <2>2. /\ queue' \in [Nodes -> [Kinds -> Seq(Records)]]
        /\ Copies(m) \in Nat /\ Copies(m)' = IF m = x THEN Copies(m) + 1 ELSE Copies(m)
    BY <2>1, CopiesJoin
  <2> QED BY <1>2, <1>x, <2>1, <2>2
<1> QED BY <1>3, <1>4

\* A call of Retransmit, whose answer arrives and ends the errand, or is lost.
LEMMA LedgerCall ==
  ASSUME LedgerInv, QuietTypes, NEW p \in Pullers, NEW r \in Resenders,
         CallRetransmit(p, r) \/ RetransmitReplyLost(p, r)
  PROVE  LedgerInv'
<1>1. /\ sending[p][r] # None /\ sending[p][r].to \in up
      /\ Retransmit(sending[p][r].to, sending[p][r].task)
      /\ UNCHANGED <<pc, rec, up, backlog, counted, taken, got, resent, diedQueued>>
  BY ResenderLeaves DEF CallRetransmit, RetransmitReplyLost, resend
<1>2. LedgerTypes BY DEF LedgerInv
<1>3. sending[p][r] \in Errand BY <1>1, <1>2 DEF LedgerTypes
<1>t. PICK to \in Nodes, task \in Copy : to = sending[p][r].to /\ task = sending[p][r].task
  BY <1>1, <1>3 DEF Errand, QuietTypes
<1>x. PICK x \in Records : x = task.body BY DEF Copy
<1>4. Retransmit(to, task) /\ UNCHANGED taken BY <1>1, <1>t
<1>5. \A m \in Records :
        /\ queue' \in [Nodes -> [Kinds -> Seq(Records)]] /\ lost' \subseteq Records
        /\ m # x => Copies(m)' = Copies(m) /\ (m \in lost' <=> m \in lost)
        /\ m = x => \/ Copies(m)' = Copies(m) + 1 /\ (m \in lost' <=> m \in lost)
                    \/ Copies(m)' = Copies(m) /\ m \in lost'
  BY <1>2, <1>4, <1>x, RetransmitIs
<1>6. \/ SendingSet(p, r, None) /\ lostReplies' = lostReplies
      \/ /\ UNCHANGED sending /\ lostReplies' = lostReplies + 1
         /\ lostReplies < MaxLostReplies
  BY DEF CallRetransmit, RetransmitReplyLost, SendingSet, resend
<1>7. \A m \in Records : Sends(p, r, m) <=> m = x BY <1>1, <1>t, <1>x DEF Sends
<1>8. LedgerTypes'
  <2>1. sending' \in [Pullers -> [Resenders -> Errand \cup {None}]]
    <3>1. CASE UNCHANGED sending BY <1>2, <3>1 DEF LedgerTypes
    <3>2. CASE SendingSet(p, r, None) BY <1>2, <1>x, <3>2, ErrandsMove
    <3> QED BY <1>6, <3>1, <3>2
  <2>2. lostReplies' \in 0..MaxLostReplies
    BY <1>2, <1>6, IntakeAssumption DEF LedgerTypes
  <2>3. queue' \in [Nodes -> [Kinds -> Seq(Records)]] /\ lost' \subseteq Records BY <1>5, <1>x
  <2>4. UNCHANGED <<backlog, counted, taken, resent, diedQueued>> BY <1>1
  <2> QED BY <1>2, <2>1, <2>2, <2>3, <2>4 DEF LedgerTypes
<1>9. ASSUME NEW m \in Records PROVE Ledger(m)' /\ Counted(m)'
  <2>1. /\ Waits(m)' = Waits(m) /\ Hands(m)' = Hands(m)
        /\ counted'[m] = counted[m] /\ (m \in resent' <=> m \in resent)
        /\ m \in diedQueued' <=> m \in diedQueued
    BY <1>1, HandsSame DEF Waits, CopyOf
  <2>2. /\ Copies(m) \in Nat /\ Hands(m) \in Nat /\ Waits(m) \in Nat /\ Errands(m) \in Nat
        /\ Total(m) = Copies(m) + Hands(m) + Waits(m) + Errands(m)
        /\ counted[m] \in Nat /\ lostReplies \in Nat /\ Total(m) \in Nat
    BY <1>2, TotalIs
  <2>3. Total(m)' = Copies(m)' + Hands(m)' + Waits(m)' + Errands(m)' BY TotalNext
  <2>4. Ledger(m) /\ Counted(m) BY DEF LedgerInv
  <2>5. Counted(m)' BY <1>1, <2>4, CountedKept
  <2>6. /\ m # x => Copies(m)' = Copies(m) /\ (m \in lost' <=> m \in lost)
        /\ m = x => \/ Copies(m)' = Copies(m) + 1 /\ (m \in lost' <=> m \in lost)
                    \/ Copies(m)' = Copies(m) /\ m \in lost'
    BY <1>5
  <2>7. ASSUME SendingSet(p, r, None), lostReplies' = lostReplies PROVE Ledger(m)'
    <3>1. /\ Errands(m)' \in Nat
          /\ m = x => Errands(m) = Errands(m)' + 1
          /\ m # x => Errands(m)' = Errands(m)
      <4>1. None \in Errand \cup {None} OBVIOUS
      <4> QED BY <1>2, <1>7, <2>7, <4>1, ErrandsMove
    <3>2. lostReplies' \in Nat /\ lostReplies <= lostReplies' BY <2>2, <2>7
    <3>3. CASE m # x
      <4>1. Copies(m)' = Copies(m) /\ Errands(m)' = Errands(m) /\ (m \in lost' <=> m \in lost)
        BY <2>6, <3>1, <3>3
      <4>2. Total(m)' = Total(m) /\ Waits(m)' + Errands(m)' = Waits(m) + Errands(m)
        BY ONLY <2>1, <2>2, <2>3, <4>1
      <4> QED BY ONLY m \in Records, <1>2, <2>1, <2>4, <3>2, <4>1, <4>2, LedgerKept
    <3>4. ASSUME m = x PROVE Ledger(m)'
      <4>1. Errands(m) = Errands(m)' + 1 BY <3>1, <3>4
      <4>2. Waits(m) + Errands(m) > 0 BY ONLY <2>2, <3>1, <4>1
      <4>3. m \in resent /\ counted[m] = 1 BY <2>4, <4>2 DEF Ledger
      <4>4. \/ Copies(m)' = Copies(m) + 1 /\ (m \in lost' <=> m \in lost)
            \/ Copies(m)' = Copies(m) /\ m \in lost'
        BY <2>6, <3>4
      <4>5. Total(m)' <= Total(m) /\ (Total(m)' > 0 \/ m \in lost')
        BY ONLY <2>1, <2>2, <2>3, <3>1, <4>1, <4>4
      <4>6. Total(m) <= counted[m] + lostReplies BY <2>4 DEF Ledger
      <4>7. Total(m)' \in Nat BY ONLY <2>1, <2>2, <2>3, <3>1, <4>4
      <4>8. counted'[m] <= 1 /\ counted'[m] = 1 /\ Total(m)' <= counted'[m] + lostReplies'
        BY ONLY <2>1, <2>2, <2>7, <4>3, <4>5, <4>6, <4>7
      <4>9. m \in resent' BY <2>1, <4>3
      <4> QED BY ONLY <4>5, <4>8, <4>9 DEF Ledger
    <3> QED BY <3>3, <3>4
  <2>8. ASSUME UNCHANGED sending, lostReplies' = lostReplies + 1 PROVE Ledger(m)'
    <3>1. Errands(m)' = Errands(m) BY <2>8 DEF Errands, Sends
    <3>2. lostReplies' \in Nat /\ lostReplies <= lostReplies' BY <2>2, <2>8
    <3>3. CASE m # x
      <4>1. Copies(m)' = Copies(m) /\ (m \in lost' <=> m \in lost) BY <2>6, <3>3
      <4>2. Total(m)' = Total(m) /\ Waits(m)' + Errands(m)' = Waits(m) + Errands(m)
        BY ONLY <2>1, <2>2, <2>3, <3>1, <4>1
      <4> QED BY ONLY m \in Records, <1>2, <2>1, <2>4, <3>2, <4>1, <4>2, LedgerKept
    <3>4. ASSUME m = x PROVE Ledger(m)'
      <4>1. Errands(m) > 0
        <5>1. Sent(m)
          <6>1. Sends(p, r, m) BY <1>7, <3>4
          <6> QED BY <6>1 DEF Sent, Sends
        <5> QED BY <5>1, ErrandsAre
      <4>2. Waits(m) + Errands(m) > 0 BY ONLY <2>2, <4>1
      <4>3. m \in resent /\ counted[m] = 1 BY <2>4, <4>2 DEF Ledger
      <4>4. Copies(m)' = Copies(m) + 1 \/ Copies(m)' = Copies(m) BY <2>6, <3>4
      <4>5. Total(m)' <= Total(m) + 1 /\ Total(m)' > 0 /\ Total(m)' \in Nat
        BY ONLY <2>1, <2>2, <2>3, <3>1, <4>1, <4>4
      <4>6. Total(m) <= counted[m] + lostReplies BY <2>4 DEF Ledger
      <4>8. counted'[m] <= 1 /\ counted'[m] = 1 /\ Total(m)' <= counted'[m] + lostReplies'
        BY ONLY <2>1, <2>2, <2>8, <4>3, <4>5, <4>6
      <4>9. m \in resent' BY <2>1, <4>3
      <4> QED BY ONLY <4>5, <4>8, <4>9 DEF Ledger
    <3> QED BY <3>3, <3>4
  <2> QED BY <1>6, <2>5, <2>7, <2>8
<1> QED BY <1>8, <1>9 DEF LedgerInv

\* What is at a node vanishes with it, and what is not at it stays.
LEMMA DieClears ==
  ASSUME LedgerTypes, NEW n \in Nodes, Die(n), NEW m \in Records
  PROVE  /\ queue' \in [Nodes -> [Kinds -> Seq(Records)]] /\ backlog' \in [Pullers -> Seq(Copy)]
         /\ Copies(m)' \in Nat /\ Copies(m)' <= Copies(m)
         /\ Hands(m)' \in Nat /\ Hands(m)' <= Hands(m)
         /\ Waits(m)' \in Nat /\ Waits(m)' <= Waits(m)
         /\ Errands(m)' \in Nat /\ Errands(m)' <= Errands(m)
         /\ ~IsAt(n, m) => /\ Copies(m)' = Copies(m) /\ Hands(m)' = Hands(m)
                           /\ Waits(m)' = Waits(m) /\ Errands(m)' = Errands(m)
<1> DEFINE D == {p \in Pullers : p[1] = n}
           Q == {at \in Nodes \X Kinds : at[1] = n}
<1>0. /\ queue \in [Nodes -> [Kinds -> Seq(Records)]] /\ backlog \in [Pullers -> Seq(Copy)]
      /\ queue' = [queue EXCEPT ![n] = [k \in Kinds |-> <<>>]] /\ taken' = taken
      /\ pc' = [p \in Pullers |-> IF p[1] = n THEN "init" ELSE pc[p]]
      /\ rec' = [p \in Pullers |-> IF p[1] = n THEN None ELSE rec[p]]
      /\ backlog' = [p \in Pullers |-> IF p[1] = n THEN <<>> ELSE backlog[p]]
      /\ sending' = [p \in Pullers |->
                      IF p[1] = n THEN [r \in Resenders |-> None] ELSE sending[p]]
  BY DEF Die, LedgerTypes
<1>1. queue' \in [Nodes -> [Kinds -> Seq(Records)]]
  <2>1. [k \in Kinds |-> <<>>] \in [Kinds -> Seq(Records)] OBVIOUS
  <2> QED BY ONLY <1>0, <2>1
<1>2. /\ Copies(m)' \in Nat /\ Copies(m)' <= Copies(m)
      /\ ~IsAt(n, m) => Copies(m)' = Copies(m)
  <2>1. /\ IsFiniteSet(Nodes \X Kinds) /\ AreLines(Rows, Nodes \X Kinds, Records)
        /\ taken[m] \in Nat /\ Copies(m) = taken[m] + Times(Rows, m)
    BY CopiesAre
  <2>2. Clears(Rows, Rows', Q)
    <3>1. \A at \in Nodes \X Kinds : queue'[at[1]][at[2]] =
            IF at[1] = n THEN <<>> ELSE queue[at[1]][at[2]]
      BY <1>0
    <3> QED BY <3>1 DEF Rows, Clears
  <2>3. ~IsAt(n, m) => NoneIn(Rows, (Nodes \X Kinds) \cap Q, m)
    BY DEF IsAt, StandsIn, NoneIn, Rows
  <2>4. Copies(m)' = taken[m] + Times(Rows', m) BY <1>0 DEF Copies, Rows
  <2> HIDE DEF Rows, Q
  <2>5. /\ Times(Rows, m) \in Nat /\ Times(Rows', m) \in Nat /\ Times(Rows', m) <= Times(Rows, m)
        /\ NoneIn(Rows, (Nodes \X Kinds) \cap Q, m) => Times(Rows', m) = Times(Rows, m)
    <3>1. PICK I, lines, next, E : /\ I = Nodes \X Kinds /\ lines = Rows /\ next = Rows'
                                   /\ E = Q
      OBVIOUS
    <3>2. IsFiniteSet(I) /\ AreLines(lines, I, Records) /\ Clears(lines, next, E)
      BY ONLY <2>1, <2>2, <3>1
    <3>3. /\ Times(lines, m) \in Nat /\ Times(next, m) \in Nat
          /\ Times(next, m) <= Times(lines, m)
          /\ NoneIn(lines, I \cap E, m) => Times(next, m) = Times(lines, m)
      BY ONLY <3>2, TimesCleared
    <3> QED BY ONLY <3>1, <3>3
  <2> QED BY ONLY <2>1, <2>3, <2>4, <2>5
<1>3. /\ Hands(m)' \in Nat /\ Hands(m)' <= Hands(m)
      /\ ~IsAt(n, m) => Hands(m)' = Hands(m)
  <2> DEFINE A == {q \in Pullers : pc[q] = "push" /\ Body(q) = m}
             B == {q \in Pullers : pc'[q] = "push" /\ Body(q)' = m}
  <2>1. Hands(m) = Cardinality(A) /\ Hands(m)' = Cardinality(B) BY DEF Hands
  <2>2. A \in SUBSET Pullers /\ B \in SUBSET A BY <1>0 DEF Body
  <2>3. ~IsAt(n, m) => A = B
    <3>1. ASSUME ~IsAt(n, m), NEW q \in A PROVE q \in B
      <4>1. q[1] # n BY <3>1 DEF IsAt, Holds
      <4> QED BY <1>0, <4>1 DEF Body
    <3> QED BY <2>2, <3>1
  <2>4. IsFiniteSet(Pullers) BY PlacesFinite
  <2> HIDE DEF A, B
  <2>5. Cardinality(A) \in Nat /\ Cardinality(B) \in Nat /\ Cardinality(B) <= Cardinality(A)
    BY ONLY <2>2, <2>4, FewerPlaces
  <2> QED BY ONLY <2>1, <2>3, <2>5
<1>4. /\ backlog' \in [Pullers -> Seq(Copy)] /\ Waits(m)' \in Nat /\ Waits(m)' <= Waits(m)
      /\ ~IsAt(n, m) => Waits(m)' = Waits(m)
  <2>1. IsFiniteSet(Pullers) /\ AreLines(backlog, Pullers, Copy) BY WaitsAre
  <2>2. Clears(backlog, backlog', D) BY <1>0 DEF Clears
  <2>3. ASSUME ~IsAt(n, m), NEW k \in {"old", "new"}
        PROVE  NoneIn(backlog, Pullers \cap D, CopyOf(m, k))
    <3>1. ASSUME NEW p \in Pullers, p[1] = n, NEW i \in DOMAIN backlog[p],
                 backlog[p][i] = CopyOf(m, k)
          PROVE  FALSE
      <4>1. backlog[p][i].body = m BY <3>1 DEF CopyOf
      <4> QED BY <2>3, <3>1, <4>1 DEF IsAt, Awaits
    <3> QED BY <3>1 DEF NoneIn, Range
  <2> HIDE DEF D
  <2>4. \A x : /\ AreLines(backlog', Pullers, Copy) /\ Times(backlog, x) \in Nat
               /\ Times(backlog', x) \in Nat /\ Times(backlog', x) <= Times(backlog, x)
               /\ NoneIn(backlog, Pullers \cap D, x) => Times(backlog', x) = Times(backlog, x)
    BY ONLY <2>1, <2>2, TimesCleared
  <2>5. Waits(m) = Times(backlog, CopyOf(m, "old")) + Times(backlog, CopyOf(m, "new")) BY DEF Waits
  <2>6. Waits(m)' = Times(backlog', CopyOf(m, "old")) + Times(backlog', CopyOf(m, "new"))
    BY DEF Waits, CopyOf
  <2>7. backlog' \in [Pullers -> Seq(Copy)] BY ONLY <2>4 DEF AreLines
  <2>8. Waits(m)' \in Nat /\ Waits(m)' <= Waits(m) BY ONLY <2>4, <2>5, <2>6
  <2>9. ASSUME ~IsAt(n, m) PROVE Waits(m)' = Waits(m)
    <3>1. /\ NoneIn(backlog, Pullers \cap D, CopyOf(m, "old"))
          /\ NoneIn(backlog, Pullers \cap D, CopyOf(m, "new"))
      BY <2>3, <2>9
    <3> QED BY ONLY <2>4, <2>5, <2>6, <3>1
  <2> QED BY <2>7, <2>8, <2>9
<1>5. /\ Errands(m)' \in Nat /\ Errands(m)' <= Errands(m)
      /\ ~IsAt(n, m) => Errands(m)' = Errands(m)
  <2> DEFINE I == Pullers \X Resenders
             A == {place \in I : Sends(place[1], place[2], m)}
             B == {place \in I : Sends(place[1], place[2], m)'}
  <2>1. IsFiniteSet(I) BY PlacesFinite, IntakeAssumption, FS_Product
  <2>2. Errands(m) = Cardinality(A) /\ Errands(m)' = Cardinality(B) BY DEF Errands
  <2>3. ASSUME NEW p \in Pullers, NEW r \in Resenders
        PROVE  Sends(p, r, m)' <=> p[1] # n /\ Sends(p, r, m)
    <3>1. sending'[p] = IF p[1] = n THEN [s \in Resenders |-> None] ELSE sending[p] BY <1>0
    <3>2. sending'[p][r] = IF p[1] = n THEN None ELSE sending[p][r] BY <3>1
    <3> QED BY <3>2 DEF Sends
  <2>4. A \in SUBSET I /\ B \in SUBSET A BY <2>3
  <2>5. ~IsAt(n, m) => A = B
    <3>1. ASSUME ~IsAt(n, m), NEW place \in A PROVE place \in B
      <4>1. place[1] \in Pullers /\ place[2] \in Resenders /\ Sends(place[1], place[2], m)
        OBVIOUS
      <4>2. place[1][1] # n BY <3>1, <4>1 DEF IsAt
      <4> QED BY <2>3, <4>1, <4>2
    <3> QED BY <2>4, <3>1
  <2> HIDE DEF A, B, I
  <2>6. Cardinality(A) \in Nat /\ Cardinality(B) \in Nat /\ Cardinality(B) <= Cardinality(A)
    BY ONLY <2>1, <2>4, FewerPlaces
  <2> QED BY ONLY <2>2, <2>5, <2>6
<1> QED BY <1>1, <1>2, <1>3, <1>4, <1>5

\* What is at a node is counted in the ledger.
LEMMA IsAtCounts ==
  ASSUME LedgerTypes, NEW n \in Nodes, NEW m \in Records, IsAt(n, m)
  PROVE  Total(m) > 0
<1>1. /\ Copies(m) \in Nat /\ Hands(m) \in Nat /\ Waits(m) \in Nat /\ Errands(m) \in Nat
      /\ Total(m) = Copies(m) + Hands(m) + Waits(m) + Errands(m)
  BY TotalIs
<1>2. Queued(m) \/ InHand(m) \/ Waiting(m) \/ Sent(m)
  BY DEF IsAt, Queued, InHand, Waiting, Sent
<1>3. Copies(m) > 0 \/ Hands(m) > 0 \/ Waits(m) > 0 \/ Errands(m) > 0
  BY <1>2, CopiesAre, HandsAre, WaitsAre, ErrandsAre
<1> QED BY ONLY <1>1, <1>3

\* A node dies.
LEMMA LedgerDie ==
  ASSUME LedgerInv, NEW n \in Nodes, Die(n)
  PROVE  LedgerInv'
<1>1. /\ UNCHANGED <<counted, taken, got, resent, lost, lostReplies>>
      /\ diedQueued' = diedQueued \cup {m \in Records : IsAt(n, m)}
      /\ up' \subseteq up /\ n \notin up'
      /\ pc' = [p \in Pullers |-> IF p[1] = n THEN "init" ELSE pc[p]]
      /\ rec' = [p \in Pullers |-> IF p[1] = n THEN None ELSE rec[p]]
      /\ sending' = [p \in Pullers |->
                      IF p[1] = n THEN [r \in Resenders |-> None] ELSE sending[p]]
  BY DEF Die
<1>2. LedgerTypes BY DEF LedgerInv
<1>3. LedgerTypes'
  <2>1. sending \in [Pullers -> [Resenders -> Errand \cup {None}]] BY <1>2 DEF LedgerTypes
  <2>2. sending' \in [Pullers -> [Resenders -> Errand \cup {None}]] BY ONLY <1>1, <2>1
  <2>3. ASSUME NEW m \in Records
        PROVE  queue' \in [Nodes -> [Kinds -> Seq(Records)]] /\ backlog' \in [Pullers -> Seq(Copy)]
    BY <1>2, DieClears
  <2>4. queue' \in [Nodes -> [Kinds -> Seq(Records)]] /\ backlog' \in [Pullers -> Seq(Copy)]
    <3>1. /\ queue \in [Nodes -> [Kinds -> Seq(Records)]] /\ backlog \in [Pullers -> Seq(Copy)]
          /\ queue' = [queue EXCEPT ![n] = [k \in Kinds |-> <<>>]]
          /\ backlog' = [p \in Pullers |-> IF p[1] = n THEN <<>> ELSE backlog[p]]
      BY <1>2 DEF LedgerTypes, Die
    <3>2. [k \in Kinds |-> <<>>] \in [Kinds -> Seq(Records)] /\ <<>> \in Seq(Copy) OBVIOUS
    <3>3. queue' \in [Nodes -> [Kinds -> Seq(Records)]] BY ONLY <3>1, <3>2
    <3>4. backlog' \in [Pullers -> Seq(Copy)] BY ONLY <3>1, <3>2
    <3> QED BY <3>3, <3>4
  <2> QED BY <1>1, <1>2, <2>2, <2>4 DEF LedgerTypes
<1>4. ASSUME NEW m \in Records PROVE Ledger(m)' /\ Counted(m)'
  <2>1. Ledger(m) /\ Counted(m) BY DEF LedgerInv
  <2>2. /\ Copies(m) \in Nat /\ Hands(m) \in Nat /\ Waits(m) \in Nat /\ Errands(m) \in Nat
        /\ Total(m) = Copies(m) + Hands(m) + Waits(m) + Errands(m)
        /\ counted[m] \in Nat /\ lostReplies \in Nat
    BY <1>2, TotalIs
  <2>3. /\ Copies(m)' \in Nat /\ Copies(m)' <= Copies(m)
        /\ Hands(m)' \in Nat /\ Hands(m)' <= Hands(m)
        /\ Waits(m)' \in Nat /\ Waits(m)' <= Waits(m)
        /\ Errands(m)' \in Nat /\ Errands(m)' <= Errands(m)
        /\ ~IsAt(n, m) => /\ Copies(m)' = Copies(m) /\ Hands(m)' = Hands(m)
                          /\ Waits(m)' = Waits(m) /\ Errands(m)' = Errands(m)
    BY <1>2, DieClears
  <2>4. Total(m)' = Copies(m)' + Hands(m)' + Waits(m)' + Errands(m)' BY TotalNext
  <2>5. /\ Total(m) \in Nat /\ Total(m)' \in Nat /\ Total(m)' <= Total(m)
        /\ Waits(m)' + Errands(m)' > 0 => Waits(m) + Errands(m) > 0
        /\ ~IsAt(n, m) => Total(m)' = Total(m)
    BY ONLY <2>2, <2>3, <2>4
  <2>6. IsAt(n, m) => Total(m) > 0 BY <1>2, IsAtCounts
  <2>7. /\ counted'[m] = counted[m] /\ lostReplies' = lostReplies
        /\ m \in lost' <=> m \in lost
        /\ m \in resent' <=> m \in resent
        /\ m \in diedQueued' <=> m \in diedQueued \/ IsAt(n, m)
    BY <1>1
  <2>8. Ledger(m)'
    <3>1. /\ counted[m] <= 1 /\ Total(m) <= counted[m] + lostReplies
          /\ Total(m) > 0 => counted[m] = 1
          /\ counted[m] = 1 => Total(m) > 0 \/ m \in lost \/ m \in diedQueued
          /\ Waits(m) + Errands(m) > 0 => m \in resent
          /\ m \in lost => m \in resent
          /\ m \in resent \/ m \in diedQueued => counted[m] = 1
      BY <2>1 DEF Ledger
    <3>2. counted'[m] <= 1 /\ Total(m)' <= counted'[m] + lostReplies'
      BY ONLY <2>2, <2>5, <2>7, <3>1
    <3>3. Total(m)' > 0 => counted'[m] = 1 BY ONLY <2>5, <2>7, <3>1
    <3>4. counted'[m] = 1 => Total(m)' > 0 \/ m \in lost' \/ m \in diedQueued'
      BY ONLY <2>5, <2>7, <3>1
    <3>5. Waits(m)' + Errands(m)' > 0 => m \in resent' BY ONLY <2>5, <2>7, <3>1
    <3>6. /\ m \in lost' => m \in resent'
          /\ m \in resent' \/ m \in diedQueued' => counted'[m] = 1
      BY ONLY <2>6, <2>7, <3>1
    <3> QED BY ONLY <3>2, <3>3, <3>4, <3>5, <3>6 DEF Ledger
  <2>9. Counted(m)'
    <3>1. \A q \in Pullers : pc[q] = "push" =>
            (pc'[q] = "push" /\ rec'[q] = rec[q]) \/ q[1] \notin up'
      BY <1>1
    <3> QED BY <1>1, <2>1, <3>1, CountedKept
  <2> QED BY <2>8, <2>9
<1> QED BY <1>3, <1>4 DEF LedgerInv

\* At first nothing is counted and nothing is anywhere.
LEMMA LedgerInit == Init => LedgerInv
<1> SUFFICES ASSUME Init PROVE LedgerInv OBVIOUS
<1>1. LedgerTypes BY IntakeAssumption DEF Init, LedgerTypes
<1>2. ASSUME NEW m \in Records PROVE Ledger(m) /\ Counted(m)
  <2>1. /\ Copies(m) \in Nat /\ Hands(m) \in Nat /\ Waits(m) \in Nat /\ Errands(m) \in Nat
        /\ Copies(m) > 0 <=> Queued(m) \/ taken[m] > 0
        /\ Hands(m) > 0 <=> InHand(m)
        /\ Waits(m) > 0 <=> Waiting(m)
        /\ Errands(m) > 0 <=> Sent(m)
    BY <1>1, CopiesAre, HandsAre, WaitsAre, ErrandsAre
  <2>2. ~Queued(m) /\ ~(taken[m] > 0) BY DEF Init, Queued, StandsIn, Range
  <2>3. ~InHand(m) BY DEF Init, InHand, Holds
  <2>4. ~Waiting(m) BY DEF Init, Waiting, Awaits
  <2>5. ~Sent(m) BY DEF Init, Sent, Sends
  <2>6. Copies(m) = 0 /\ Hands(m) = 0 /\ Waits(m) = 0 /\ Errands(m) = 0
    BY ONLY <2>1, <2>2, <2>3, <2>4, <2>5
  <2>7. Total(m) = 0 BY <2>6 DEF Total
  <2>8. counted[m] = 0 /\ lost = {} /\ resent = {} /\ diedQueued = {} /\ lostReplies = 0
    BY DEF Init
  <2> QED BY <2>6, <2>7, <2>8 DEF Ledger, Counted
<1> QED BY <1>1, <1>2 DEF LedgerInv

\* Every step of the broker, the pullers, the resenders and the consumers keeps the ledger.
LEMMA LedgerStep ==
  PullerInv /\ FedInv /\ QuietTypes /\ LedgerInv /\ [Next]_vars => LedgerInv'
<1> SUFFICES ASSUME PullerInv, FedInv, QuietTypes, LedgerInv, [Next]_vars PROVE LedgerInv'
  OBVIOUS
<1>0. pc \in [Pullers -> {"init", "ask", "route", "push"}] BY DEF PullerInv, PullerTypes
<1>1. ASSUME UNCHANGED <<resend, queue, counted, taken, got, resent, lost, diedQueued,
                         lostReplies, up>>,
             NEW p \in Pullers, pc[p] # "push",
             \E where \in {"init", "ask", "route"} : pc' = [pc EXCEPT ![p] = where],
             \A q \in Pullers : q # p => rec'[q] = rec[q]
      PROVE  LedgerInv'
  <2>1. pc'[p] # "push" /\ \A q \in Pullers : q # p => pc'[q] = pc[q] BY <1>0, <1>1
  <2> QED BY <1>1, <2>1, LedgerQuiet
<1>2. ASSUME UNCHANGED <<resend, queue, counted, taken, got, resent, lost, diedQueued,
                         lostReplies, up, pc, rec>>
      PROVE  LedgerInv'
  BY <1>2, LedgerQuiet
<1>3. ASSUME NEW p \in Pullers, Produce(p) \/ Break(p) PROVE LedgerInv'
  BY <1>2, <1>3 DEF Produce, Break, puller, past
<1>4. ASSUME NEW p \in Pullers, SubscribeFails(p) \/ SubscribeRefused(p) PROVE LedgerInv'
  <2>1. /\ UNCHANGED <<resend, queue, counted, taken, got, resent, lost, diedQueued,
                       lostReplies, up, rec>>
        /\ pc[p] = "ask" /\ \E where \in {"init", "ask"} : pc' = [pc EXCEPT ![p] = where]
    BY <1>4 DEF SubscribeFails, SubscribeRefused, At, Goto, past
  <2> QED BY <1>1, <2>1
<1>5. ASSUME NEW p \in Pullers, SubscribeNoData(p) PROVE LedgerInv'
  BY <1>2, <1>5 DEF SubscribeNoData, past
<1>6. ASSUME NEW p \in Pullers, SubscribeSucceeds(p) PROVE LedgerInv'
  <2>1. /\ UNCHANGED <<resend, queue, counted, taken, got, resent, lost, diedQueued,
                       lostReplies, up>>
        /\ pc[p] = "ask" /\ pc' = [pc EXCEPT ![p] = "route"]
        /\ rec' = [rec EXCEPT ![p] = Answer(p, package[p])]
    BY <1>6 DEF SubscribeSucceeds, At, Goto, past
  <2>2. \A q \in Pullers : q # p => rec'[q] = rec[q]
    BY <2>1 DEF PullerInv, PullerTypes
  <2> QED BY <1>1, <2>1, <2>2
<1>7. ASSUME NEW p \in Pullers, InitMinosPipe(p) PROVE LedgerInv'
  <2>1. UNCHANGED <<resend, queue, counted, taken, got, resent, lost, diedQueued,
                    lostReplies, up, rec>>
    BY <1>7 DEF InitMinosPipe
  <2>2. pc[p] = "init" /\ (UNCHANGED pc \/ pc' = [pc EXCEPT ![p] = "ask"])
    BY <1>7 DEF InitMinosPipe, At, Goto
  <2> QED BY <1>1, <1>2, <2>1, <2>2
<1>8. ASSUME NEW p \in Pullers, FilterOut(p) PROVE LedgerInv'
  <2>1. /\ UNCHANGED <<resend, queue, counted, taken, resent, lost, diedQueued,
                       lostReplies, up>>
        /\ pc[p] = "route" /\ FinishPackage(p)
    BY <1>8 DEF FilterOut, At
  <2>2. /\ pc'[p] = "ask"
        /\ \A q \in Pullers : q # p => pc'[q] = pc[q] /\ rec'[q] = rec[q]
        /\ \A q \in Pullers : Range(got[q]) \subseteq Range(got'[q])
    BY <2>1, FinishIs
  <2> QED BY <2>1, <2>2, LedgerQuiet
<1>9. ASSUME NEW p \in Pullers, HandToResender(p) PROVE LedgerInv' BY <1>9, LedgerHand
<1>10. ASSUME NEW p \in Pullers, Keep(p) PROVE LedgerInv' BY <1>10, LedgerKeep
<1>11. ASSUME NEW p \in Pullers, Push(p) PROVE LedgerInv' BY <1>11, LedgerPush
<1>12. ASSUME NEW p \in Pullers, NEW r \in Resenders, Resend(p, r) PROVE LedgerInv'
  BY <1>12, LedgerDrop, LedgerFind, LedgerCall DEF Resend
<1>13. ASSUME NEW n \in Nodes, NEW k \in Kinds, Consume(n, k) PROVE LedgerInv'
  BY <1>13, LedgerConsume
<1>14. ASSUME \/ \E p \in Switched, op \in BOOLEAN : PullSwitchConfig(p, op)
              \/ \E n \in Pressed, level \in {"low", "high"} : UpdateHealth(n, level)
              \/ \E n \in Nodes : SubmitHealthInfo(n)
              \/ UNCHANGED vars
       PROVE  LedgerInv'
  <2>1. UNCHANGED <<puller, resend, queue, up, taken, past>>
    BY <1>14 DEF PullSwitchConfig, UpdateHealth, SubmitHealthInfo, vars
  <2> QED BY <1>2, <2>1 DEF puller, past
<1>15. ASSUME NEW n \in Nodes, Die(n) PROVE LedgerInv' BY <1>15, LedgerDie
<1> QED
  BY <1>15, <1>3, <1>4, <1>5, <1>6, <1>7, <1>8, <1>9, <1>10, <1>11, <1>12, <1>13, <1>14
     DEF Next, IntakeNext, Subscribe

-------------------------------------------------------------------------------
(* What is at which node.                                                    *)

\* A queue holds what its node pulled and what was sent to it; so does what died with
\* a node; and nothing is at a dead node.
AtHome     == \A n \in Nodes, m \in Records : StandsIn(n, m) => m \in resent \/ PulledBy(n, m)
DiedAtHome == \A m \in diedQueued : \E n \in Nodes \ up : m \in resent \/ PulledBy(n, m)
DeadEmpty  == \A n \in Nodes \ up, m \in Records : ~IsAt(n, m)
AtNodesInv == AtHome /\ DiedAtHome /\ DeadEmpty

\* At first nothing is anywhere and all nodes are alive.
LEMMA AtNodesInit == Init => AtNodesInv
<1> SUFFICES ASSUME Init PROVE AtNodesInv OBVIOUS
<1>1. AtHome BY DEF AtHome, StandsIn, Init, Range
<1>2. DiedAtHome BY DEF DiedAtHome, Init
<1>3. DeadEmpty BY DEF DeadEmpty, Init
<1> QED BY <1>1, <1>2, <1>3 DEF AtNodesInv

\* A step that changes nothing at a node.
Still(n) ==
  /\ queue'[n] = queue[n]
  /\ \A p \in Pullers : p[1] = n => /\ pc'[p] = pc[p] /\ rec'[p] = rec[p]
                                    /\ backlog'[p] = backlog[p] /\ sending'[p] = sending[p]

\* Such a step brings nothing there.
LEMMA StillKeeps ==
  ASSUME NEW n \in Nodes, Still(n), NEW m \in Records, IsAt(n, m)'
  PROVE  IsAt(n, m)
<1>1. CASE StandsIn(n, m)' BY <1>1 DEF Still, StandsIn, IsAt
<1>2. CASE \E p \in Pullers : p[1] = n /\ \/ Holds(p, m)' \/ Awaits(p, m)'
                                          \/ \E r \in Resenders : Sends(p, r, m)'
  <2>1. PICK p \in Pullers : p[1] = n /\ \/ Holds(p, m)' \/ Awaits(p, m)'
                                         \/ \E r \in Resenders : Sends(p, r, m)'
    BY <1>2
  <2>2. /\ pc'[p] = pc[p] /\ rec'[p] = rec[p] /\ backlog'[p] = backlog[p]
        /\ sending'[p] = sending[p]
    BY <2>1 DEF Still
  <2>3. Holds(p, m)' => Holds(p, m) BY <2>2 DEF Holds, Body
  <2>4. Awaits(p, m)' => Awaits(p, m) BY <2>2 DEF Awaits
  <2>5. \A r \in Resenders : Sends(p, r, m)' => Sends(p, r, m) BY <2>2 DEF Sends
  <2> QED BY <2>1, <2>3, <2>4, <2>5 DEF IsAt
<1> QED BY <1>1, <1>2 DEF IsAt

\* A record joins a queue, or the first leaves it.
LEMMA StandsJoin ==
  ASSUME queue \in [Nodes -> [Kinds -> Seq(Records)]], NEW i \in Nodes, NEW k \in Kinds,
         NEW x \in Records, Enqueue(i, k, x), NEW n \in Nodes, NEW m, StandsIn(n, m)'
  PROVE  StandsIn(n, m) \/ (n = i /\ m = x)
<1>1. PICK j \in Kinds : m \in Range(queue'[n][j]) BY DEF StandsIn
<1>2. queue' = [queue EXCEPT ![i][k] = Append(queue[i][k], x)] BY DEF Enqueue
<1>3. queue[i][k] \in Seq(Records) OBVIOUS
<1>4. CASE n = i /\ j = k
  <2>1. queue'[n][j] = Append(queue[i][k], x) BY <1>2, <1>4
  <2>2. Range(Append(queue[i][k], x)) = Range(queue[i][k]) \cup {x}
    BY <1>3, RangeOfAppend
  <2> QED BY <1>1, <1>4, <2>1, <2>2 DEF StandsIn
<1>5. CASE ~(n = i /\ j = k)
  <2>1. queue'[n][j] = queue[n][j] BY <1>2, <1>5
  <2> QED BY <1>1, <2>1 DEF StandsIn
<1> QED BY <1>4, <1>5

LEMMA StandsLeave ==
  ASSUME queue \in [Nodes -> [Kinds -> Seq(Records)]], NEW i \in Nodes, NEW k \in Kinds,
         queue[i][k] # <<>>, queue' = [queue EXCEPT ![i][k] = Tail(queue[i][k])],
         NEW n \in Nodes, NEW m, StandsIn(n, m)'
  PROVE  StandsIn(n, m)
<1>1. PICK j \in Kinds : m \in Range(queue'[n][j]) BY DEF StandsIn
<1>2. queue[i][k] \in Seq(Records) OBVIOUS
<1>3. CASE n = i /\ j = k
  <2>1. queue'[n][j] = Tail(queue[i][k]) BY <1>3
  <2>2. Range(Tail(queue[i][k])) \subseteq Range(queue[i][k])
    <3>1. \A l \in DOMAIN Tail(queue[i][k]) :
            l + 1 \in DOMAIN queue[i][k] /\ Tail(queue[i][k])[l] = queue[i][k][l + 1]
      BY <1>2
    <3> QED BY <3>1 DEF Range
  <2> QED BY <1>1, <1>3, <2>1, <2>2 DEF StandsIn
<1>4. CASE ~(n = i /\ j = k)
  <2>1. queue'[n][j] = queue[n][j] BY <1>4
  <2> QED BY <1>1, <2>1 DEF StandsIn
<1> QED BY <1>3, <1>4

\* A step changes nothing at a dead node, brings into a queue only what its node pulled
\* or what was sent there, and takes back nothing that was resent.
Tidy ==
  /\ \A n \in Nodes \ up : Still(n)
  /\ \A n \in Nodes, m \in Records :
       StandsIn(n, m)' => StandsIn(n, m) \/ m \in resent \/ PulledBy(n, m)
  /\ resent \subseteq resent' /\ UNCHANGED <<up, diedQueued>>

\* So is the step of a puller that touches no queue.
LEMMA PullerTidy ==
  ASSUME PullerInv, LedgerTypes, NEW p \in Pullers, p[1] \in up,
         \A q \in Pullers : q # p => /\ pc'[q] = pc[q] /\ rec'[q] = rec[q]
                                     /\ backlog'[q] = backlog[q],
         UNCHANGED <<sending, queue, up, diedQueued>>, resent \subseteq resent'
  PROVE  Tidy
<1>1. \A n \in Nodes \ up : Still(n) BY DEF Still
<1>2. \A n \in Nodes, m \in Records : StandsIn(n, m)' => StandsIn(n, m) BY DEF StandsIn
<1> QED BY <1>1, <1>2 DEF Tidy

\* A step that changes no queue, no pool and no puller.
LEMMA NothingMoves ==
  ASSUME UNCHANGED <<pc, rec, resend, queue, up, diedQueued, resent>> PROVE Tidy
<1>1. \A n \in Nodes \ up : Still(n) BY DEF Still, resend
<1>2. \A n \in Nodes, m \in Records : StandsIn(n, m)' => StandsIn(n, m) BY DEF StandsIn
<1> QED BY <1>1, <1>2 DEF Tidy

\* Every step but a death is tidy.
LEMMA StepsAreTidy ==
  ASSUME IntakeInv, IntakeNext \/ (\E n \in Nodes, k \in Kinds : Consume(n, k)) \/ UNCHANGED vars
  PROVE  Tidy
<1>0. /\ PullerInv /\ FedInv /\ LedgerTypes
      /\ pc \in [Pullers -> {"init", "ask", "route", "push"}]
      /\ rec \in [Pullers -> (Nat \X Nat) \cup {None}]
      /\ backlog \in [Pullers -> Seq(Copy)]
      /\ sending \in [Pullers -> [Resenders -> Errand \cup {None}]]
      /\ queue \in [Nodes -> [Kinds -> Seq(Records)]]
  BY DEF IntakeInv, PullerInv, PullerTypes, LedgerInv, LedgerTypes
<1>1. ASSUME NEW p \in Pullers, Produce(p) \/ Break(p) \/ SubscribeNoData(p) PROVE Tidy
  <2>1. UNCHANGED <<pc, rec, resend, queue, up, diedQueued, resent>>
    BY <1>1 DEF Produce, Break, SubscribeNoData, puller, past
  <2> QED BY ONLY <2>1, NothingMoves
<1>2. ASSUME NEW p \in Pullers, \/ SubscribeFails(p) \/ SubscribeRefused(p)
                               \/ SubscribeSucceeds(p) \/ InitMinosPipe(p)
      PROVE  Tidy
  <2>1. p[1] \in up /\ UNCHANGED <<backlog, sending, queue, up, diedQueued, resent>>
    BY <1>2 DEF SubscribeFails, SubscribeRefused, SubscribeSucceeds, InitMinosPipe, At,
                resend, past
  <2>2. UNCHANGED pc \/ \E where : pc' = [pc EXCEPT ![p] = where]
    BY <1>2 DEF SubscribeFails, SubscribeRefused, SubscribeSucceeds, InitMinosPipe, Goto
  <2>3. UNCHANGED rec \/ \E r : rec' = [rec EXCEPT ![p] = r]
    BY <1>2 DEF SubscribeFails, SubscribeRefused, SubscribeSucceeds, InitMinosPipe
  <2>4. \A q \in Pullers : q # p => pc'[q] = pc[q] /\ rec'[q] = rec[q]
    BY <1>0, <2>2, <2>3
  <2> QED BY <1>0, <2>1, <2>4, PullerTidy
<1>3. ASSUME NEW p \in Pullers, FilterOut(p) PROVE Tidy
  <2>1. /\ p[1] \in up /\ pc[p] = "route" /\ FinishPackage(p)
        /\ UNCHANGED <<backlog, sending, queue, up, diedQueued, resent>>
    BY <1>3 DEF FilterOut, At, resend
  <2>2. \A q \in Pullers : q # p => pc'[q] = pc[q] /\ rec'[q] = rec[q]
    BY <1>0, <2>1, FinishIs
  <2> QED BY <1>0, <2>1, <2>2, PullerTidy
<1>4. ASSUME NEW p \in Pullers, HandToResender(p) PROVE Tidy
  <2>1. /\ p[1] \in up /\ pc[p] = "route" /\ FinishPackage(p) /\ resent \subseteq resent'
        /\ UNCHANGED <<sending, queue, up, diedQueued>>
        /\ \E line : backlog' = [backlog EXCEPT ![p] = line]
    BY <1>4 DEF HandToResender, At
  <2>2. \A q \in Pullers : q # p => /\ pc'[q] = pc[q] /\ rec'[q] = rec[q]
                                    /\ backlog'[q] = backlog[q]
    BY <1>0, <2>1, FinishIs
  <2> QED BY <1>0, <2>1, <2>2, PullerTidy
<1>5. ASSUME NEW p \in Pullers, Keep(p) PROVE Tidy
  <2>1. /\ p[1] \in up /\ pc' = [pc EXCEPT ![p] = "push"] /\ rec' = rec
        /\ UNCHANGED <<backlog, sending, queue, up, diedQueued, resent>>
    BY <1>5 DEF Keep, At, Goto, resend
  <2>2. \A q \in Pullers : q # p => pc'[q] = pc[q] /\ rec'[q] = rec[q] BY <1>0, <2>1
  <2> QED BY <1>0, <2>1, <2>2, PullerTidy
<1>6. ASSUME NEW p \in Pullers, Push(p) PROVE Tidy
  <2>1. /\ p[1] \in up /\ pc[p] = "push" /\ FinishPackage(p) /\ Enqueue(p[1], p[2], Body(p))
        /\ UNCHANGED <<backlog, sending, up, diedQueued, resent>>
    BY <1>6 DEF Push, At, resend
  <2>2. p[1] \in Nodes /\ p[2] \in Kinds BY IntakeAssumption
  <2>3. Body(p) \in Records /\ PulledBy(p[1], Body(p))
    <3>1. Body(p) \in Records /\ rec[p][2] \in DOMAIN Feed[p] BY <1>0, <2>1, InHandIs
    <3> QED BY <3>1 DEF PulledBy, Body, Range
  <2>4. ASSUME NEW n \in Nodes \ up PROVE Still(n)
    <3>1. queue'[n] = queue[n]
      <4>1. queue' = [queue EXCEPT ![p[1]][p[2]] = Append(queue[p[1]][p[2]], Body(p))]
        BY <2>1 DEF Enqueue
      <4> QED BY <1>0, <2>1, <4>1
    <3>2. \A q \in Pullers : q # p => pc'[q] = pc[q] /\ rec'[q] = rec[q]
      BY <1>0, <2>1, FinishIs
    <3> QED BY <2>1, <3>1, <3>2 DEF Still
  <2>5. ASSUME NEW n \in Nodes, NEW m \in Records, StandsIn(n, m)'
        PROVE  StandsIn(n, m) \/ PulledBy(n, m)
    <3>1. StandsIn(n, m) \/ (n = p[1] /\ m = Body(p))
      BY <1>0, <2>1, <2>2, <2>3, <2>5, StandsJoin
    <3> QED BY <2>3, <3>1
  <2> QED BY <2>1, <2>4, <2>5 DEF Tidy
<1>7. ASSUME NEW p \in Pullers, NEW r \in Resenders, Resend(p, r) PROVE Tidy
  <2>1. p[1] \in up /\ UNCHANGED <<pc, rec, up, diedQueued, resent>>
    BY <1>7 DEF Resend, NoRelaxingNode, FindRelaxingNode, CallRetransmit, RetransmitReplyLost,
                Resender, puller
  <2>2. /\ \A q \in Pullers : q # p => backlog'[q] = backlog[q] /\ sending'[q] = sending[q]
    <3>1. UNCHANGED backlog \/ \E line : backlog' = [backlog EXCEPT ![p] = line]
      BY <1>7 DEF Resend, NoRelaxingNode, FindRelaxingNode, CallRetransmit, RetransmitReplyLost,
                  Begin, resend
    <3>2. UNCHANGED sending \/ \E x : sending' = [sending EXCEPT ![p][r] = x]
      BY <1>7 DEF Resend, NoRelaxingNode, FindRelaxingNode, CallRetransmit, RetransmitReplyLost,
                  resend
    <3> QED BY <1>0, <3>1, <3>2
  <2>3. CASE UNCHANGED queue
    <3>1. \A n \in Nodes \ up : Still(n) BY <2>1, <2>2, <2>3 DEF Still
    <3>2. \A n \in Nodes, m \in Records : StandsIn(n, m)' => StandsIn(n, m)
      BY <2>3 DEF StandsIn
    <3> QED BY <2>1, <3>1, <3>2 DEF Tidy
  <2>4. CASE ~(UNCHANGED queue)
    <3>1. /\ sending[p][r] # None /\ sending[p][r].to \in up
          /\ Retransmit(sending[p][r].to, sending[p][r].task)
      BY <1>7, <2>4 DEF Resend, NoRelaxingNode, FindRelaxingNode, CallRetransmit,
                        RetransmitReplyLost
    <3>2. sending[p][r] \in Errand BY <1>0, <3>1
    <3>3. PICK to \in Nodes, task \in Copy : to = sending[p][r].to /\ task = sending[p][r].task
      BY <3>1, <3>2 DEF Errand, IntakeInv, QuietTypes
    <3>4. /\ to \in up /\ task.body \in Records /\ task.type \in Kinds
          /\ Enqueue(to, task.type, task.body)
      BY <2>4, <3>1, <3>3 DEF Retransmit, Copy
    <3>5. task.body \in resent
      <4>1. Sent(task.body) BY <3>1, <3>3 DEF Sent, Sends
      <4>2. Errands(task.body) > 0 /\ Errands(task.body) \in Nat /\ Waits(task.body) \in Nat
        BY <1>0, <3>4, <4>1, ErrandsAre, TotalIs
      <4>3. Waits(task.body) + Errands(task.body) > 0 BY ONLY <4>2
      <4> QED BY <3>4, <4>3 DEF IntakeInv, LedgerInv, Ledger
    <3>6. ASSUME NEW n \in Nodes \ up PROVE Still(n)
      <4>1. queue' = [queue EXCEPT ![to][task.type] = Append(queue[to][task.type], task.body)]
        BY <3>4 DEF Enqueue
      <4>2. queue'[n] = queue[n] BY <1>0, <3>4, <4>1
      <4> QED BY <2>1, <2>2, <4>2 DEF Still
    <3>7. ASSUME NEW n \in Nodes, NEW m \in Records, StandsIn(n, m)'
          PROVE  StandsIn(n, m) \/ m \in resent
      <4>1. StandsIn(n, m) \/ (n = to /\ m = task.body) BY <1>0, <3>4, <3>7, StandsJoin
      <4> QED BY <3>5, <4>1
    <3> QED BY <2>1, <3>6, <3>7 DEF Tidy
  <2> QED BY <2>3, <2>4
<1>8. ASSUME NEW i \in Nodes, NEW k \in Kinds, Consume(i, k) PROVE Tidy
  <2>1. /\ i \in up /\ queue[i][k] # <<>> /\ queue' = [queue EXCEPT ![i][k] = Tail(queue[i][k])]
        /\ UNCHANGED <<pc, rec, backlog, sending, up, diedQueued, resent>>
    BY <1>8 DEF Consume, puller, resend, past
  <2>2. \A n \in Nodes \ up : Still(n)
    <3>1. \A n \in Nodes \ up : queue'[n] = queue[n] BY <1>0, <2>1
    <3> QED BY <2>1, <3>1 DEF Still
  <2>3. \A n \in Nodes, m \in Records : StandsIn(n, m)' => StandsIn(n, m)
    BY <1>0, <2>1, StandsLeave
  <2> QED BY <2>1, <2>2, <2>3 DEF Tidy
<1>9. ASSUME \/ \E p \in Switched, op \in BOOLEAN : PullSwitchConfig(p, op)
             \/ \E n \in Pressed, level \in {"low", "high"} : UpdateHealth(n, level)
             \/ \E n \in Nodes : SubmitHealthInfo(n)
             \/ UNCHANGED vars
      PROVE  Tidy
  <2>1. UNCHANGED <<pc, rec, resend, queue, up, diedQueued, resent>>
    BY <1>9 DEF PullSwitchConfig, UpdateHealth, SubmitHealthInfo, vars, puller, past
  <2> QED BY ONLY <2>1, NothingMoves
<1> QED
  BY <1>1, <1>2, <1>3, <1>4, <1>5, <1>6, <1>7, <1>8, <1>9 DEF IntakeNext, Subscribe

\* What was at a node that dies was pulled by it or had been sent on.
LEMMA WhoIsAtHome ==
  ASSUME IntakeInv, AtNodesInv, NEW n \in Nodes, NEW m \in Records, IsAt(n, m)
  PROVE  m \in resent \/ PulledBy(n, m)
<1>0. PullerInv /\ FedInv /\ LedgerTypes /\ Ledger(m) BY DEF IntakeInv, LedgerInv
<1>1. CASE StandsIn(n, m) BY <1>1 DEF AtNodesInv, AtHome
<1>2. ASSUME NEW p \in Pullers, p[1] = n, Holds(p, m) PROVE PulledBy(n, m)
  <2>1. rec[p][2] \in DOMAIN Feed[p] BY <1>0, <1>2, InHandIs DEF Holds
  <2> QED BY <1>2, <2>1 DEF Holds, PulledBy, Body, Range
<1>3. ASSUME Waiting(m) \/ Sent(m) PROVE m \in resent
  <2>1. Waits(m) \in Nat /\ Errands(m) \in Nat /\ (Waits(m) > 0 \/ Errands(m) > 0)
    BY <1>0, <1>3, WaitsAre, ErrandsAre
  <2>2. Waits(m) + Errands(m) > 0 BY ONLY <2>1
  <2> QED BY <1>0, <2>2 DEF Ledger
<1> QED BY <1>1, <1>2, <1>3 DEF IsAt, Waiting, Sent

\* Every step keeps what is at the nodes in order.
LEMMA AtNodesStep == IntakeInv /\ AtNodesInv /\ [Next]_vars => AtNodesInv'
<1> SUFFICES ASSUME IntakeInv, AtNodesInv, [Next]_vars PROVE AtNodesInv' OBVIOUS
<1>0. AtHome /\ DiedAtHome /\ DeadEmpty BY DEF AtNodesInv
<1>1. CASE IntakeNext \/ (\E n \in Nodes, k \in Kinds : Consume(n, k)) \/ UNCHANGED vars
  <2>1. Tidy BY <1>1, StepsAreTidy
  <2>2. AtHome' BY <1>0, <2>1 DEF AtHome, Tidy, PulledBy
  <2>3. DiedAtHome' BY <1>0, <2>1 DEF DiedAtHome, Tidy, PulledBy
  <2>4. DeadEmpty'
    <3>1. ASSUME NEW n \in Nodes \ up, NEW m \in Records PROVE ~IsAt(n, m)'
      BY <1>0, <2>1, StillKeeps DEF DeadEmpty, Tidy
    <3> QED BY <2>1, <3>1 DEF DeadEmpty, Tidy
  <2> QED BY <2>2, <2>3, <2>4 DEF AtNodesInv
<1>2. ASSUME NEW i \in Nodes, Die(i) PROVE AtNodesInv'
  <2>1. /\ up' = up \ {i} /\ resent' = resent /\ i \in up
        /\ diedQueued' = diedQueued \cup {m \in Records : IsAt(i, m)}
        /\ queue' = [queue EXCEPT ![i] = [k \in Kinds |-> <<>>]]
        /\ pc' = [p \in Pullers |-> IF p[1] = i THEN "init" ELSE pc[p]]
        /\ rec' = [p \in Pullers |-> IF p[1] = i THEN None ELSE rec[p]]
        /\ backlog' = [p \in Pullers |-> IF p[1] = i THEN <<>> ELSE backlog[p]]
        /\ sending' = [p \in Pullers |->
                        IF p[1] = i THEN [r \in Resenders |-> None] ELSE sending[p]]
    BY <1>2 DEF Die
  <2>2. \A n \in Nodes : queue'[n] = IF n = i THEN [k \in Kinds |-> <<>>] ELSE queue[n]
    BY <2>1 DEF IntakeInv, LedgerInv, LedgerTypes
  <2>3. ASSUME NEW m \in Records PROVE ~StandsIn(i, m)'
    <3>1. \A k \in Kinds : queue'[i][k] = <<>> BY <2>2
    <3> QED BY <3>1 DEF StandsIn, Range
  <2>4. ASSUME NEW n \in Nodes, n # i PROVE Still(n)
    BY <2>1, <2>2, <2>4 DEF Still
  <2>5. AtHome'
    <3>1. ASSUME NEW n \in Nodes, NEW m \in Records, StandsIn(n, m)'
          PROVE  m \in resent \/ PulledBy(n, m)
      <4>1. n # i BY <2>3, <3>1
      <4>2. StandsIn(n, m) BY <2>2, <3>1, <4>1 DEF StandsIn
      <4> QED BY <1>0, <4>2 DEF AtHome
    <3> QED BY <2>1, <3>1 DEF AtHome, PulledBy
  <2>6. DiedAtHome'
    <3>1. ASSUME NEW m \in Records, IsAt(i, m) PROVE m \in resent \/ PulledBy(i, m)
      BY <3>1, WhoIsAtHome
    <3>2. ASSUME NEW m \in diedQueued'
          PROVE  \E n \in Nodes \ up' : m \in resent \/ PulledBy(n, m)
      <4>1. CASE m \in diedQueued BY <1>0, <2>1, <4>1 DEF DiedAtHome
      <4>2. CASE m \in Records /\ IsAt(i, m) BY <2>1, <3>1, <4>2
      <4> QED BY <2>1, <3>2, <4>1, <4>2
    <3> QED BY <2>1, <3>2 DEF DiedAtHome, PulledBy
  <2>7. DeadEmpty'
    <3>1. ASSUME NEW m \in Records PROVE ~IsAt(i, m)'
      <4>1. ASSUME NEW p \in Pullers, p[1] = i
            PROVE  ~Holds(p, m)' /\ ~Awaits(p, m)' /\ \A r \in Resenders : ~Sends(p, r, m)'
        <5>1. pc'[p] = "init" /\ backlog'[p] = <<>> /\ sending'[p] = [r \in Resenders |-> None]
          BY <2>1, <4>1
        <5> QED BY <5>1 DEF Holds, Awaits, Sends
      <4> QED BY <2>3, <4>1 DEF IsAt
    <3>2. ASSUME NEW n \in Nodes \ up, NEW m \in Records PROVE ~IsAt(n, m)'
      <4>1. Still(n) BY <2>1, <2>4
      <4> QED BY <1>0, <4>1, StillKeeps DEF DeadEmpty
    <3> QED BY <2>1, <3>1, <3>2 DEF DeadEmpty
  <2> QED BY <2>5, <2>6, <2>7 DEF AtNodesInv
<1> QED BY <1>1, <1>2 DEF Next

-------------------------------------------------------------------------------
(* The theorems. *)

\* The invariant of the intake.
LEMMA IntakeInvariant == Spec => []IntakeInv
<1>1. Init => QuietTypes BY DEF Init, QuietTypes
<1> QED
  BY <1>1, PullerInit, FedInit, LedgerInit, PullerStep, FedStep, QuietStep, LedgerStep, PTL
     DEF Spec, IntakeInv

\* The invariant of what is at the nodes.
LEMMA AtNodesInvariant == Spec => []AtNodesInv
<1> QED BY IntakeInvariant, AtNodesInit, AtNodesStep, PTL DEF Spec

\* Whatever is served, lost, resent or consumed, every variable has its type: no
\* puller handles an index the broker has no record for.
THEOREM TypesHold == Spec => []TypeOK
<1>1. IntakeInv => TypeOK
  BY DEF IntakeInv, PullerInv, PullerTypes, QuietTypes, LedgerInv, LedgerTypes, TypeOK
<1> QED BY <1>1, IntakeInvariant, PTL

\* Whatever answers are lost and however often subscriptions fail, each puller
\* handles the records of its topic in order and none twice, and passes over only
\* what a new subscription skipped: for any nodes, topics and resenders.
THEOREM RecordsOnce == Spec => []EachRecordOnce
<1>1. IntakeInv => EachRecordOnce
  BY DEF IntakeInv, PullerInv, InOrder, Increasing, EachRecordOnce
<1> QED BY <1>1, IntakeInvariant, PTL

\* Whichever nodes die or run short of memory, and whichever replies are lost, a record
\* is counted once, and a counted record is in hand, queued or on the way at a living
\* node, or was consumed, or lost being sent on, or died with a node - its own, unless it
\* was sent on; and it is consumed at most once more than replies were lost: for any
\* nodes, topics, resenders and lengths of the queues.
THEOREM RecordsAccounted == Spec => []Accounted
<1>1. IntakeInv /\ AtNodesInv => Accounted
  <2> SUFFICES ASSUME IntakeInv, AtNodesInv PROVE Accounted OBVIOUS
  <2>0. LedgerTypes BY DEF IntakeInv, LedgerInv
  <2>1. lost \subseteq resent
    <3>1. lost \subseteq Records BY <2>0 DEF LedgerTypes
    <3> QED BY <3>1 DEF IntakeInv, LedgerInv, Ledger
  <2>2. ASSUME NEW m \in Records
        PROVE  /\ counted[m] <= 1 /\ Copies(m) <= 1 + lostReplies
               /\ counted[m] = 1 <=> InHand(m) \/ Queued(m) \/ Waiting(m) \/ Sent(m)
                                      \/ taken[m] > 0 \/ m \in lost \cup diedQueued
    <3>1. Ledger(m) BY DEF IntakeInv, LedgerInv
    <3>2. /\ Copies(m) \in Nat /\ Hands(m) \in Nat /\ Waits(m) \in Nat /\ Errands(m) \in Nat
          /\ Total(m) = Copies(m) + Hands(m) + Waits(m) + Errands(m)
          /\ counted[m] \in Nat /\ lostReplies \in Nat /\ Total(m) \in Nat
      BY <2>0, TotalIs
    <3>3. /\ Copies(m) > 0 <=> Queued(m) \/ taken[m] > 0
          /\ Hands(m) > 0 <=> InHand(m)
          /\ Waits(m) > 0 <=> Waiting(m)
          /\ Errands(m) > 0 <=> Sent(m)
      BY <2>0, CopiesAre, HandsAre, WaitsAre, ErrandsAre
    <3>4. Total(m) > 0 <=> InHand(m) \/ Queued(m) \/ Waiting(m) \/ Sent(m) \/ taken[m] > 0
      <4>1. Total(m) > 0 <=> Copies(m) > 0 \/ Hands(m) > 0 \/ Waits(m) > 0 \/ Errands(m) > 0
        BY ONLY <3>2
      <4> QED BY ONLY <3>3, <4>1
    <3>5. Copies(m) <= 1 + lostReplies /\ counted[m] <= 1
      <4>1. counted[m] <= 1 /\ Total(m) <= counted[m] + lostReplies BY <3>1 DEF Ledger
      <4> QED BY ONLY <3>2, <4>1
    <3>6. counted[m] = 1 <=> Total(m) > 0 \/ m \in lost \/ m \in diedQueued
      BY <3>1 DEF Ledger
    <3>7. counted[m] = 1 <=> InHand(m) \/ Queued(m) \/ Waiting(m) \/ Sent(m) \/ taken[m] > 0
                             \/ m \in lost \/ m \in diedQueued
      BY ONLY <3>4, <3>6
    <3> QED BY <3>5, <3>7
  <2>3. /\ \A m \in diedQueued : \E n \in Nodes \ up : m \in resent \/ PulledBy(n, m)
        /\ \A n \in Nodes \ up, m \in Records : ~IsAt(n, m)
    BY DEF AtNodesInv, DiedAtHome, DeadEmpty
  <2> QED BY <2>1, <2>2, <2>3 DEF Accounted
<1> QED BY <1>1, IntakeInvariant, AtNodesInvariant, PTL
===============================================================================
